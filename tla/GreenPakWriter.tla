--------------------------- MODULE GreenPakWriter ---------------------------
(***************************************************************************)
(* The program that writes a GreenPAK's two memories in production          *)
(* (src/GreenPAK/fpga-writer): it builds I2C commands in three buffers, has *)
(* a DMA controller feed them to an I2C master, and reads answers from a    *)
(* FIFO.  A transfer returns when the DMA has fetched its buffer, and not   *)
(* when the command has been sent: it is the program's waits that keep the  *)
(* two in step.                                                             *)
(*                                                                          *)
(* A wait is longer than anything the bus does unless the bus is held, and  *)
(* so is the 5 ms limit of a transfer.                                      *)
(***************************************************************************)
EXTENDS Integers, Sequences, FiniteSets

CONSTANTS
    LastBlock,    \* the blocks of a memory are 0 .. LastBlock
    Buffered,     \* words that fit between the DMA controller and the wires
    QueueDepth,   \* descriptors the DMA controller holds
    MaxStalls,    \* how often the bus may be held
    MaxRefusals   \* how often the device may refuse a command without being busy

ASSUME BlocksAssumption == LastBlock \in Nat
ASSUME DepthsAssumption == Buffered \in Nat /\ QueueDepth \in Nat \ {0}
ASSUME FaultsAssumption == MaxStalls \in Nat /\ MaxRefusals \in Nat

Roms   == {"nvm", "eeprom"}
Blocks == 0 .. LastBlock
Ops    == {"rd", "er", "wr"}
Commands == [op : Ops, rom : Roms, block : Blocks]
Nothing == [op |-> "none", rom |-> "none", block |-> 0]

\* The words of a command: the lengths of rd_cmd, er_cmd and wr_cmd.
Length(o) == CASE o = "rd" -> 19 [] o = "er" -> 3 [] o = "wr" -> 18

VARIABLES
    phase, block, op, step,   \* where main is
    buffer,                   \* rd_cmd, er_cmd and wr_cmd
    wire, fetched,            \* the commands under way; of the first fetched the DMA has the words
    rx,                       \* answers in the FIFO, four words each
    stalled, late,            \* the bus is held; it was, and the backlog is not worked off
    stalls, refusals,
    isr, iser,                \* the I2C master's interrupt status and enable bits
    busy, mem,                \* the device works on a command; its memories
    failed,                   \* a transfer has returned an error (history)
    lost                      \* the commands the device refused or the master dropped (history)

mainVars == <<phase, block, op, step>>
faults   == <<stalled, stalls>>
i2cVars  == <<isr, iser>>
device   == <<busy, mem>>
vars == <<mainVars, buffer, wire, fetched, rx, faults, late, refusals, i2cVars, device, failed, lost>>

-----------------------------------------------------------------------------
(* main: the two memories are shown, written and shown again.               *)

Phases == <<[does |-> "read", rom |-> "nvm"], [does |-> "read", rom |-> "eeprom"],
            [does |-> "write", rom |-> "nvm"], [does |-> "read", rom |-> "nvm"],
            [does |-> "write", rom |-> "eeprom"], [does |-> "read", rom |-> "eeprom"]>>
End == 7
Rom == Phases[phase].rom
First(p) == IF p # End /\ Phases[p].does = "write" THEN "er" ELSE "rd"

\* main gives up when it cannot read at the start; nvm_write and eeprom_write leave
\* their readback out when the write fails, and main looks at neither's result.
After(ok) == IF ok \/ phase \in {4, 6} THEN phase + 1
             ELSE IF phase < 3 THEN End ELSE phase + 2

Enter(p) == /\ phase' = p /\ block' = 0 /\ op' = First(p)
            /\ step' = IF p = End THEN "over" ELSE "build"

\* Mutant of NextBlock: the loop of write_gp_rom ends a block early.
SkipsLast == IF block >= LastBlock - (IF op = "wr" THEN 1 ELSE 0) THEN Enter(After(TRUE))
             ELSE block' = block + 1 /\ op' = First(phase) /\ step' = "build" /\ UNCHANGED phase

NextBlock == IF block = LastBlock THEN Enter(After(TRUE))
             ELSE block' = block + 1 /\ op' = First(phase) /\ step' = "build" /\ UNCHANGED phase

-----------------------------------------------------------------------------
(* The DMA controller and its driver.                                       *)

\* The words of the first k commands under way.
Words(k) == LET N(o) == Cardinality({i \in 1 .. k : wire[i].cmd.op = o})
            IN  N("rd") * Length("rd") + N("er") * Length("er") + N("wr") * Length("wr")

\* Descriptors are fetched in order: the first fetched of wire have been.
Busy == fetched < Len(wire)

\* The next descriptor's buffer is read when all its words find room.
Fetch ==
    /\ Busy /\ Words(fetched + 1) <= Buffered
    /\ LET o == wire[fetched + 1].cmd.op
       IN  wire' = [wire EXCEPT ![fetched + 1].got = buffer[o]]
    /\ fetched' = fetched + 1
    /\ UNCHANGED <<mainVars, buffer, rx, faults, late, refusals, i2cVars, device, failed, lost>>

\* alt_msgdma_descriptor_sync_transfer up to the descriptor: without room for it
\* the transfer ends by its time limit.
HasRoom == Len(wire) - fetched < QueueDepth
Transfer(cmd) ==
    IF HasRoom
    THEN wire' = Append(wire, [cmd |-> cmd, got |-> Nothing]) /\ step' = "poll"
    ELSE step' = "timeout" /\ UNCHANGED wire

\* What the waits between commands are for; they are in vain while the bus is held
\* and as long as the backlog of that lasts.
Quiet  == wire = <<>> /\ ~busy
Waited == Quiet \/ late

\* Mutant of Named: the erase command always names a block of the NVM.
ErasesNvm(o) == [op |-> o, rom |-> IF o = "er" THEN "nvm" ELSE Rom, block |-> block]

\* What main puts into a buffer, and the transfer that begins with it.
Named(o) == [op |-> o, rom |-> Rom, block |-> block]
Build(o) ==
    /\ step = "build" /\ op = o /\ Waited
    /\ buffer' = [buffer EXCEPT ![o] = Named(o)] /\ Transfer(Named(o))
    /\ late' = (late /\ ~(Quiet /\ ~stalled))
    /\ UNCHANGED <<phase, block, op, fetched, rx, faults, refusals, i2cVars, device, failed, lost>>

BuildRead  == Build("rd")
BuildErase == Build("er")
BuildWrite == Build("wr")

\* Mutant of Polled: a transfer returns without waiting for the DMA controller.
DoesNotPoll ==
    /\ step = "poll"
    /\ \/ op = "rd" /\ step' = "level" /\ UNCHANGED <<phase, block, op>>
       \/ op = "er" /\ op' = "wr" /\ step' = "build" /\ UNCHANGED <<phase, block>>
       \/ op = "wr" /\ NextBlock
    /\ UNCHANGED <<buffer, wire, fetched, rx, faults, late, refusals, i2cVars, device, failed, lost>>

\* The transfer returns 0.
Polled ==
    /\ step = "poll" /\ ~Busy
    /\ \/ op = "rd" /\ step' = "level" /\ UNCHANGED <<phase, block, op>>
       \/ op = "er" /\ op' = "wr" /\ step' = "build" /\ UNCHANGED <<phase, block>>
       \/ op = "wr" /\ NextBlock
    /\ UNCHANGED <<buffer, wire, fetched, rx, faults, late, refusals, i2cVars, device, failed, lost>>

\* It returns -ETIME, with its descriptor in the queue, when a held bus has kept the
\* DMA controller from fetching; write_gp_rom does not look at what the erase returned.
Stuck    == Busy /\ late /\ Words(fetched + 1) > Buffered
TimedOut ==
    /\ (step = "poll" /\ Stuck) \/ step = "timeout"
    /\ failed' = TRUE
    /\ IF op = "er" THEN op' = "wr" /\ step' = "build" /\ UNCHANGED <<phase, block>>
       ELSE Enter(After(FALSE))
    /\ UNCHANGED <<buffer, wire, fetched, rx, faults, late, refusals, i2cVars, device, lost>>

\* Mutant of ReadLevel: the words are left in the FIFO.
PeeksOnly ==
    /\ step = "level" /\ rx # <<>> /\ NextBlock
    /\ UNCHANGED <<buffer, wire, fetched, rx, faults, late, refusals, i2cVars, device, failed, lost>>

\* Mutant of ReadLevel: one word more is waited for.
WaitsForMore ==
    /\ step = "level" /\ Len(rx) > 1
    /\ rx' = Tail(rx) /\ NextBlock
    /\ UNCHANGED <<buffer, wire, fetched, faults, late, refusals, i2cVars, device, failed, lost>>

\* read_gp_rom waits for four words, however long, and takes them.
ReadLevel ==
    /\ step = "level" /\ 4 * Len(rx) >= 4
    /\ rx' = Tail(rx) /\ NextBlock
    /\ UNCHANGED <<buffer, wire, fetched, faults, late, refusals, i2cVars, device, failed, lost>>

-----------------------------------------------------------------------------
(* The I2C master and the device.                                           *)

Take == wire' = Tail(wire) /\ fetched' = fetched - 1

Accept ==
    /\ fetched > 0 /\ ~stalled /\ isr = {} /\ ~busy /\ Take
    /\ LET c == Head(wire).got
       IN  \/ c.op = "rd" /\ rx' = Append(rx, c) /\ UNCHANGED <<busy, mem>>
           \/ c.op = "er" /\ mem' = [mem EXCEPT ![c.rom][c.block] = "erased"]
                          /\ busy' = TRUE /\ UNCHANGED rx
           \/ c.op = "wr" /\ mem' = [mem EXCEPT ![c.rom][c.block] =
                                        IF @ = "erased" THEN "written" ELSE "mixed"]
                          /\ busy' = TRUE /\ UNCHANGED rx
    /\ UNCHANGED <<mainVars, buffer, faults, late, refusals, i2cVars, failed, lost>>

\* A command is not acknowledged: a busy device never does, another may fail to.
Refuse ==
    /\ fetched > 0 /\ ~stalled /\ isr = {} /\ Take
    /\ busy \/ refusals < MaxRefusals
    /\ refusals' = IF busy THEN refusals ELSE refusals + 1
    /\ isr' = {"nack"} /\ lost' = lost \cup {Head(wire).cmd}
    /\ UNCHANGED <<mainVars, buffer, rx, faults, late, iser, device, failed>>

\* As long as the status bit is set the master swallows what it is given.
Flush ==
    /\ fetched > 0 /\ isr # {} /\ Take
    /\ lost' = lost \cup {Head(wire).cmd}
    /\ UNCHANGED <<mainVars, buffer, rx, faults, late, refusals, i2cVars, device, failed>>

DeviceReady ==
    /\ busy /\ busy' = FALSE
    /\ UNCHANGED <<mainVars, buffer, wire, fetched, rx, faults, late, refusals, i2cVars, mem, failed, lost>>

Stall ==
    /\ ~stalled /\ stalls < MaxStalls
    /\ stalled' = TRUE /\ stalls' = stalls + 1 /\ late' = TRUE
    /\ UNCHANGED <<mainVars, buffer, wire, fetched, rx, refusals, i2cVars, device, failed, lost>>

Unstall ==
    /\ stalled /\ stalled' = FALSE
    /\ UNCHANGED <<mainVars, buffer, wire, fetched, rx, stalls, late, refusals, i2cVars, device, failed, lost>>

\* The interrupt handler: it disables the interrupts, clears them, and enables the
\* master, which is enabled already (alt_avalon_i2c_enable returns BUSY).  The
\* interrupts stay disabled, so that a second refusal is never handled.
IntDisable == iser' = {}
IntClear   == isr' = {}
i2c_callback ==
    /\ isr \cap iser # {} /\ IntDisable /\ IntClear
    /\ UNCHANGED <<mainVars, buffer, wire, fetched, rx, faults, late, refusals, device, failed, lost>>

-----------------------------------------------------------------------------
Init ==
    /\ phase = 1 /\ block = 0 /\ op = "rd" /\ step = "build"
    /\ buffer = [o \in Ops |-> Nothing] /\ wire = <<>> /\ fetched = 0 /\ rx = <<>>
    /\ stalled = FALSE /\ late = FALSE /\ stalls = 0 /\ refusals = 0
    /\ isr = {} /\ iser = {"nack"}
    /\ busy = FALSE /\ mem = [r \in Roms |-> [b \in Blocks |-> "old"]]
    /\ failed = FALSE /\ lost = {}

Main == BuildRead \/ BuildErase \/ BuildWrite \/ Polled \/ TimedOut \/ ReadLevel
Bus  == Accept \/ Refuse \/ Flush
Next == Main \/ Fetch \/ Bus \/ DeviceReady \/ Stall \/ Unstall \/ i2c_callback

\* Hardware and program go on; that the bus is let go is up to the properties.
Spec     == Init /\ [][Next]_vars
FairSpec == Spec /\ WF_vars(Main) /\ WF_vars(Fetch) /\ WF_vars(Bus) /\ WF_vars(DeviceReady)
                 /\ WF_vars(i2c_callback)

-----------------------------------------------------------------------------
\* The types of the state, with what is true of the depths: descriptors always find
\* room, and the answers never reach the FIFO's almost-full mark (ten words).
TypeOK ==
    /\ phase \in 1 .. End /\ block \in Blocks /\ op \in Ops
    /\ step \in {"build", "poll", "timeout", "level", "over"} /\ (phase = End <=> step = "over")
    /\ buffer \in [Ops -> Commands \cup {Nothing}]
    /\ wire \in Seq([cmd : Commands, got : Commands \cup {Nothing}])
    /\ fetched \in 0 .. Len(wire) /\ \A i \in 1 .. Len(wire) : i <= fetched <=> wire[i].got # Nothing
    /\ Len(wire) - fetched <= QueueDepth /\ Words(fetched) <= Buffered
    /\ rx \in Seq(Commands) /\ 4 * Len(rx) < 10
    /\ stalled \in BOOLEAN /\ late \in BOOLEAN /\ stalls \in 0 .. MaxStalls
    /\ refusals \in 0 .. MaxRefusals /\ isr \subseteq {"nack"} /\ iser \subseteq {"nack"}
    /\ busy \in BOOLEAN /\ mem \in [Roms -> [Blocks -> {"old", "erased", "written", "mixed"}]]
    /\ failed \in BOOLEAN /\ lost \subseteq Commands

\* Until a transfer fails the program and the bus are in step, held bus or not: what
\* is fetched of a buffer is what was put there for the command, no buffer is filled in
\* again too early, and the answer in the FIFO is the one read_gp_rom waits for.
InStep ==
    ~failed => /\ \A i \in 1 .. fetched : wire[i].got = wire[i].cmd
               /\ \A i \in fetched + 1 .. Len(wire) : buffer[wire[i].cmd.op] = wire[i].cmd
               /\ \A i \in 1 .. Len(rx) : /\ step \in {"poll", "level"}
                                          /\ rx[i] = [op |-> "rd", rom |-> Rom, block |-> block]

\* A block is written over its old contents only if a transfer has failed or its erase
\* was refused: write_gp_rom sends the erase of each block before the write.
NoMixture ==
    \A r \in Roms, b \in Blocks :
        mem[r][b] = "mixed" => failed \/ [op |-> "er", rom |-> r, block |-> b] \in lost

\* When the writer says that it is done, both memories are written, unless it has told
\* of a failed transfer or a command was refused (which it does not see).
CompletedIsWritten ==
    step = "over" /\ ~failed /\ lost = {} => \A r \in Roms, b \in Blocks : mem[r][b] = "written"

\* The writer ends, though it waits for answers without a limit: if the bus is let go,
\* no read is refused, and the master does not stay in its error state.
WriterEnds ==
    (/\ <>[]~stalled /\ []<>(isr = {})
     /\ []({c \in lost : c.op = "rd"} = {})) => <>(step = "over")
=============================================================================
