----------------------------- MODULE KeplerRegs -----------------------------
(***************************************************************************)
(* The settings of the board and their copy that survives a power cut: the  *)
(* register process of RTL/X68KeplerX.vhd (keplerx_reg, REG0's save command, *)
(* the restore loop) and RTL/lib/greenpak_eeprom, which reads the EEPROM of   *)
(* the GreenPAK into a RAM at power-up and writes the RAM back on request.   *)
(*                                                                          *)
(* A word of the EEPROM is one step of the save, a block one step of a read.  *)
(* The CRC of a block is the block itself: equal CRCs mean equal blocks.  The *)
(* RAM's host port takes the CPU's writes only in IS_IDLE.  Left out: bytes   *)
(* within a word, the status bits of REG4, the registers that are never       *)
(* restored, the blocks 8 to f (not written), the I2C bus (I2CBus).           *)
(***************************************************************************)
EXTENDS Integers

CONSTANTS
    Regs,       \* the words of the EEPROM with a register that is restored
    LastBlock,  \* the last block of settings (6); the next one holds the CRCs
    BlockOf,    \* BlockOf[r]: the block of word r
    Values,     \* what a register may hold
    Default,    \* the value of a register after a reset
    MaxCount,   \* the value at which the write counter stops: x"8000" by the test of its
                \* bit 15 (greenpak_eeprom.vhd:319), where the header (line 23) has 32767
    SafeModes,  \* what keplerx_reg(4)(15) may be after a reset
    CpuWaits,   \* what the CPU waits for before it writes a register (MayWrite)
    ResetAt,    \* the states of the EEPROM driver in which a reset may come
    Cuts        \* how many power cuts there may be

Blank    == -1               \* an erased word, and the CRC of nothing
NoCrc    == <<>>
Blocks   == 0..LastBlock
CrcBlock == LastBlock + 1
Count    == "count"          \* the word of the write counter, in the last block
Words    == Regs \union {Count}

ASSUME BlockAssumption ==
    LastBlock \in Nat /\ BlockOf \in [Words -> Blocks] /\ BlockOf[Count] = LastBlock
ASSUME ValueAssumption ==
    Values \subseteq Nat /\ Default \in Values /\ Count \notin Regs /\ MaxCount \in Nat
ASSUME ModeAssumption ==
    SafeModes \subseteq BOOLEAN /\ CpuWaits \in {"ram", "id"} /\ Cuts \in Nat

VARIABLES
    reg,      \* keplerx_reg
    key,      \* keplerx_reg(0)(1 downto 0): how far the save command has come
    safe,     \* keplerx_reg(4)(15): the EEPROM is ignored
    save_req, \* gpeeprom_save_req
    restore,  \* the restore loop: waiting, the registers to go, or finished
    g,        \* the EEPROM driver: s, n: block, todo: its words, ...
    ram,      \* its RAM: word, and the CRC bytes of each block
    nv,       \* the EEPROM
    saved,    \* history: the last complete save, the last begun, one not complete?
              \* and whether the last reset came while the driver was busy
    cuts      \* history: the power cuts so far
vars == <<reg, key, safe, save_req, restore, g, ram, nv, saved, cuts>>

WordsOf(n) == {w \in Words : BlockOf[w] = n}
Crc(m, n)  == IF n = CrcBlock THEN [i \in Blocks |-> m.crc[i]]
              ELSE [w \in WordsOf(n) |-> m.word[w]]

\* A memory whose CRCs fit.
Sealed(words) ==
    LET m == [word |-> words, crc |-> [n \in Blocks |-> [w \in WordsOf(n) |-> words[w]]]]
    IN [word |-> m.word, crc |-> m.crc, own |-> Crc(m, CrcBlock)]

Restored == restore.s = "finished"
Loaded   == Restored /\ restore.left = {}      \* not skipped
Saving   == g.s \in {"COUNT", "ERASE", "WRITE", "SET_CRC"}

-----------------------------------------------------------------------------
(* The register process.                                                    *)

RegsReset ==
    /\ reg' = [r \in Regs |-> Default] /\ key' = "00"
    /\ save_req' = 0 /\ restore' = [s |-> "waiting", left |-> Regs] /\ safe' \in SafeModes

\* The restore loop begins when the EEPROM has been read, and is skipped after a
\* CRC error and in a safe mode.
RestoreBegin ==
    /\ restore.s = "waiting" /\ g.ready
    /\ restore' = [restore EXCEPT !.s = IF ~g.crc_error /\ ~safe THEN "loop" ELSE "finished"]
    /\ UNCHANGED <<reg, key, safe, save_req, g, ram, nv, saved, cuts>>

\* It reads the RAM through the host port: while the driver uses the RAM the loop
\* gets what the driver reads.
PortReads(r) ==
    IF g.s = "IDLE" THEN {ram.word[r]} ELSE {ram.word[w] : w \in Regs}

RestoreOne ==
    /\ restore.s = "loop"
    /\ IF restore.left = {}
       THEN restore' = [restore EXCEPT !.s = "finished"] /\ UNCHANGED reg
       ELSE \E r \in restore.left :
            /\ \E v \in PortReads(r) : reg' = [reg EXCEPT ![r] = v]
            /\ restore' = [restore EXCEPT !.left = @ \ {r}]
    /\ UNCHANGED <<key, safe, save_req, g, ram, nv, saved, cuts>>

\* The CPU leaves the registers alone until the restore loop has ended (8 us after
\* the reset), and then either until the RAM is free, which it cannot see, or, as
\* the comment on REG0 says, until the ID is "KX".
MayWrite ==
    /\ Restored
    /\ CpuWaits = "ram" => g.s = "IDLE" /\ save_req = 0
    /\ CpuWaits = "id" => key # "11"

\* Mutant of WriteReg: the state KXR_EEPROM_WR_U0 is left out.
NotWrittenBack ==
    /\ MayWrite
    /\ \E r \in Regs, v \in Values : reg' = [reg EXCEPT ![r] = v]
    /\ UNCHANGED <<key, safe, save_req, restore, g, ram, nv, saved, cuts>>

\* The CPU writes a register: KXR_IDLE and KXR_EEPROM_WR_U0 to L1.
WriteReg ==
    /\ MayWrite
    /\ \E r \in Regs, v \in Values :
        /\ reg' = [reg EXCEPT ![r] = v]
        /\ ram' = IF g.s = "IDLE" THEN [ram EXCEPT !.word[r] = v] ELSE ram
    /\ UNCHANGED <<key, safe, save_req, restore, g, nv, saved, cuts>>

\* Mutant of NextKey: the save command ends without the acknowledge.
EndsAtOnce(v) ==
    CASE key = "00" -> IF v = "0000" THEN "01" ELSE "00"
      [] key = "01" -> IF v = "ffff" THEN "10" ELSE "01"
      [] key = "10" -> IF v = "0000" THEN "01" ELSE IF v = "4b58" THEN "11" ELSE "00"
      [] key = "11" -> "00"

\* The CPU writes REG0: KXR_REG0.
NextKey(v) ==
    CASE key = "00" -> IF v = "0000" THEN "01" ELSE "00"
      [] key = "01" -> IF v = "ffff" THEN "10" ELSE "01"
      [] key = "10" -> IF v = "0000" THEN "01" ELSE IF v = "4b58" THEN "11" ELSE "00"
      [] key = "11" -> IF g.save_ack = 1 THEN "00" ELSE "11"

WriteKey(v) ==
    /\ key # "11" => MayWrite
    /\ key' = NextKey(v)
    /\ save_req' = IF key = "11" /\ g.save_ack = 1 THEN 0
                   ELSE IF key = "10" /\ v = "4b58" THEN 1 ELSE save_req
    /\ UNCHANGED <<reg, safe, restore, g, ram, nv, saved, cuts>>
WriteReg0 == \E v \in {"0000", "ffff", "4b58", "other"} : WriteKey(v)

-----------------------------------------------------------------------------
(* The EEPROM driver.                                                       *)

\* IS_READ_SETUP: the block of the CRCs is read first.
ReadSetup ==
    g' = [g EXCEPT !.s = "READ", !.n = CrcBlock, !.crc_error = FALSE]

AfterPowerOn ==
    /\ g.s = "WAKEUP" /\ ReadSetup
    /\ UNCHANGED <<reg, key, safe, save_req, restore, ram, nv, saved, cuts>>

\* Mutant of CrcOk: only the block of the CRCs is checked.
CrcOfCrcs(m, n) == n = CrcBlock => Crc(m, n) = m.own

\* A block goes to the RAM and its CRC is compared with the one in the block of the
\* CRCs, now in the RAM.
CrcOk(m, n) == Crc(m, n) = IF n = CrcBlock THEN m.own ELSE m.crc[n]

ReadBlock ==
    /\ g.s = "READ"
    /\ ram' = IF g.n = CrcBlock THEN [ram EXCEPT !.crc = nv.crc, !.own = nv.own]
              ELSE [ram EXCEPT !.word = [w \in Words |-> IF w \in WordsOf(g.n) THEN nv.word[w]
                                                         ELSE @[w]]]
    /\ g' = [g EXCEPT !.crc_error = @ \/ ~CrcOk(ram', g.n),
                      !.s = IF g.n = LastBlock THEN "IDLE" ELSE "READ",
                      !.n = IF g.n = CrcBlock THEN 0 ELSE g.n + 1,
                      !.count = IF g.n = LastBlock THEN nv.word[Count] ELSE @]
    /\ UNCHANGED <<reg, key, safe, save_req, restore, nv, saved, cuts>>

\* Mutant of Idle: the write counter does not stop.
CountsOn ==
    /\ g.s = "IDLE" /\ (~g.ready \/ save_req = 1)
    /\ g' = IF save_req = 0 THEN [g EXCEPT !.ready = TRUE]
            ELSE [g EXCEPT !.ready = TRUE, !.s = "COUNT", !.count = @ + 1]
    /\ UNCHANGED <<reg, key, safe, save_req, restore, ram, nv, saved, cuts>>

\* IS_IDLE raises ready; with a request it counts the save (a counter whose top bit
\* is set stays as it is).
Idle ==
    /\ g.s = "IDLE" /\ (~g.ready \/ save_req = 1)
    /\ g' = IF save_req = 0 THEN [g EXCEPT !.ready = TRUE]
            ELSE [g EXCEPT !.ready = TRUE, !.s = "COUNT",
                           !.count = IF @ \in 0..(MaxCount - 1) THEN @ + 1 ELSE @]
    /\ UNCHANGED <<reg, key, safe, save_req, restore, ram, nv, saved, cuts>>

UpdateCount ==
    /\ g.s = "COUNT"
    /\ ram' = [ram EXCEPT !.word[Count] = g.count]
    /\ g' = [g EXCEPT !.s = "ERASE", !.n = 0]
    /\ saved' = [saved EXCEPT !.begun = ram'.word, !.open = TRUE]
    /\ UNCHANGED <<reg, key, safe, save_req, restore, nv, cuts>>

\* Mutant of EraseBlock: the driver does not wait until the block is erased, and a
\* word that is written meanwhile is lost.
ErasesLate ==
    /\ g.s = "ERASE"
    /\ nv' = IF g.n = CrcBlock
             THEN [nv EXCEPT !.crc = [n \in Blocks |-> NoCrc], !.own = NoCrc]
             ELSE [nv EXCEPT !.word = [w \in Words |-> IF w \in WordsOf(g.n) THEN Blank ELSE @[w]]]
    /\ \E first \in (IF g.n = CrcBlock THEN Blocks ELSE WordsOf(g.n)) :
          g' = [g EXCEPT !.s = "WRITE",
                         !.todo = (IF g.n = CrcBlock THEN Blocks ELSE WordsOf(g.n)) \ {first}]
    /\ UNCHANGED <<reg, key, safe, save_req, restore, ram, saved, cuts>>

EraseBlock ==
    /\ g.s = "ERASE"
    /\ nv' = IF g.n = CrcBlock
             THEN [nv EXCEPT !.crc = [n \in Blocks |-> NoCrc], !.own = NoCrc]
             ELSE [nv EXCEPT !.word = [w \in Words |-> IF w \in WordsOf(g.n) THEN Blank ELSE @[w]]]
    /\ g' = [g EXCEPT !.s = "WRITE", !.todo = IF g.n = CrcBlock THEN Blocks ELSE WordsOf(g.n)]
    /\ UNCHANGED <<reg, key, safe, save_req, restore, ram, saved, cuts>>

\* The words of a block, one after another; of the block of the CRCs the CRCs and
\* then its own.
WriteData ==
    /\ g.s = "WRITE"
    /\ IF g.todo # {}
       THEN \E w \in g.todo :
            /\ nv' = IF g.n = CrcBlock THEN [nv EXCEPT !.crc[w] = ram.crc[w]]
                     ELSE [nv EXCEPT !.word[w] = ram.word[w]]
            /\ g' = [g EXCEPT !.todo = @ \ {w}]
            /\ UNCHANGED saved
       ELSE IF g.n = CrcBlock
       THEN /\ nv' = [nv EXCEPT !.own = Crc(nv, CrcBlock)]
            /\ g' = [g EXCEPT !.s = "FIN"]
            /\ saved' = [saved EXCEPT !.complete = saved.begun, !.open = FALSE]
       ELSE /\ g' = [g EXCEPT !.s = "SET_CRC"]
            /\ UNCHANGED <<nv, saved>>
    /\ UNCHANGED <<reg, key, safe, save_req, restore, ram, cuts>>

\* Mutant of SetCrc: the address is counted up before the CRC is stored.
SetCrcLate ==
    /\ g.s = "SET_CRC"
    /\ ram' = IF g.n + 1 \in Blocks THEN [ram EXCEPT !.crc[g.n + 1] = Crc(ram, g.n)] ELSE ram
    /\ g' = [g EXCEPT !.s = "ERASE", !.n = @ + 1]
    /\ UNCHANGED <<reg, key, safe, save_req, restore, nv, saved, cuts>>

SetCrc ==
    /\ g.s = "SET_CRC"
    /\ ram' = [ram EXCEPT !.crc[g.n] = Crc(ram, g.n)]
    /\ g' = [g EXCEPT !.s = "ERASE", !.n = @ + 1]
    /\ UNCHANGED <<reg, key, safe, save_req, restore, nv, saved, cuts>>

\* Mutant of WriteFin: the request is never acknowledged.
NoAck ==
    /\ g.s = "FIN" /\ save_req = 0
    /\ g' = [g EXCEPT !.save_ack = 0, !.s = "READ", !.n = CrcBlock, !.crc_error = FALSE]
    /\ UNCHANGED <<reg, key, safe, save_req, restore, ram, nv, saved, cuts>>

\* IS_WRITE_FIN: acknowledge until the request is gone, then read the EEPROM again.
WriteFin ==
    /\ g.s = "FIN"
    /\ g' = IF save_req = 1 THEN [g EXCEPT !.save_ack = 1]
            ELSE [g EXCEPT !.save_ack = 0, !.s = "READ", !.n = CrcBlock, !.crc_error = FALSE]
    /\ UNCHANGED <<reg, key, safe, save_req, restore, ram, nv, saved, cuts>>

-----------------------------------------------------------------------------
(* The reset of the X68000, and the power.                                  *)

\* sys_rstn resets the register process; the EEPROM driver goes on (ini_rstn).
Reset ==
    /\ g.ready /\ g.s \in ResetAt
    /\ RegsReset
    /\ saved' = [saved EXCEPT !.disturbed = g.s # "IDLE"]
    /\ UNCHANGED <<g, ram, nv, cuts>>

DriverReset ==
    [s |-> "WAKEUP", n |-> 0, todo |-> {}, ready |-> FALSE, save_ack |-> 0,
     crc_error |-> FALSE, count |-> 0]
EmptyRam == [word |-> [w \in Words |-> Blank], crc |-> [n \in Blocks |-> NoCrc], own |-> NoCrc]

PowerCut ==
    /\ cuts < Cuts /\ cuts' = cuts + 1
    /\ RegsReset /\ g' = DriverReset /\ ram' = EmptyRam
    /\ saved' = [saved EXCEPT !.disturbed = FALSE]
    /\ UNCHANGED nv

\* The EEPROM begins with a save of the defaults.
Fresh == [w \in Words |-> IF w = Count THEN 0 ELSE Default]

Init ==
    /\ reg = [r \in Regs |-> Default] /\ key = "00" /\ safe \in SafeModes
    /\ save_req = 0 /\ restore = [s |-> "waiting", left |-> Regs] /\ g = DriverReset /\ ram = EmptyRam
    /\ nv = Sealed(Fresh)
    /\ saved = [complete |-> nv.word, begun |-> nv.word, open |-> FALSE,
                disturbed |-> FALSE]
    /\ cuts = 0

EepromDriver == \/ AfterPowerOn \/ ReadBlock \/ Idle \/ UpdateCount
                \/ EraseBlock \/ WriteData \/ SetCrc \/ WriteFin
RestoreLoop == RestoreBegin \/ RestoreOne

Next ==
    \/ RestoreBegin
    \/ RestoreOne
    \/ WriteReg
    \/ WriteReg0
    \/ AfterPowerOn
    \/ ReadBlock
    \/ Idle
    \/ UpdateCount
    \/ EraseBlock
    \/ WriteData
    \/ SetCrc
    \/ WriteFin
    \/ Reset
    \/ PowerCut

Spec == Init /\ [][Next]_vars

\* The clock runs, and the CPU polls REG0 by writing x"4b58" once it has asked for
\* a save, as the comment on REG0 tells it to.
Polls == key = "11" /\ WriteKey("4b58")
FairSpec == Spec /\ WF_vars(EepromDriver) /\ WF_vars(RestoreLoop) /\ WF_vars(Polls)

-----------------------------------------------------------------------------
\* The types of the registers of the two processes.  The write counter stops at
\* MaxCount, with all its bits in the word that is stored.
TypeOK ==
    /\ reg \in [Regs -> Values \union {Blank}]
    /\ key \in {"00", "01", "10", "11"} /\ save_req \in {0, 1}
    /\ g.s \in {"WAKEUP", "READ", "IDLE", "COUNT", "ERASE", "WRITE", "SET_CRC", "FIN"}
    /\ g.n \in Blocks \union {CrcBlock} /\ g.count \in (0..MaxCount) \union {Blank}
    /\ ram.word \in [Words -> Nat \union {Blank}] /\ nv.word \in [Words -> Nat \union {Blank}]

\* The registers have been restored from the EEPROM, by a loop that found the RAM free.
Settled == Loaded /\ ~saved.disturbed

\* When the registers have been restored and the EEPROM driver is idle, each register
\* and its word in the RAM are equal (the comment "write back to EEPROM"), and a save
\* that is about to be acknowledged has put the settings in force into the EEPROM.
SavesSettings ==
    Settled =>
        \A r \in Regs :
            /\ g.s = "IDLE" => ram.word[r] = reg[r]
            /\ g.s = "FIN"  => nv.word[r] = reg[r]

\* The same of every save ("the settings are written to the EEPROM", comment on
\* REG0).
EverySaveIsCurrent == g.s = "FIN" => \A r \in Regs : nv.word[r] = reg[r]

\* The ID in REG0 is "kx" while the EEPROM is being written (comment on REG0), unless
\* a reset of the X68000 came while the driver was busy.
IdTellsSaving == Saving /\ ~saved.disturbed => key = "11"

\* Whatever is read from the EEPROM with no CRC error is the last complete save, and
\* nothing of one that a power cut interrupted.  With no save begun since the last
\* complete one there is no CRC error.
ReadsOneSave ==
    [][g.s = "READ" /\ g'.s = "IDLE"
        => /\ ~g'.crc_error => ram'.word = saved.complete
           /\ ~saved.open => ~g'.crc_error]_vars

\* A save that was asked for ends: the ID goes back to "KX".
SaveEnds == key = "11" ~> key = "00"
=============================================================================
