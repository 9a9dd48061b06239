------------------------------- MODULE Em3802 -------------------------------
(***************************************************************************)
(* The MIDI controller of the board (RTL/midi/em3802.vhd, after the YM3802) *)
(* with its transmit FIFO (DatFifo) and its transmitter (TxFrame): the bus  *)
(* handshake, the registers that the transmit side and the interrupts need, *)
(* the chip reset, the general timer, and the interrupt process.            *)
(*                                                                          *)
(* A step is one edge of sys_clk. The host is the bus state machine with    *)
(* the program behind it; a write is <<register, data>>, the register being *)
(* the one that R01's group and the address select together. Transmit data  *)
(* is 8 bits without parity (R45 after a reset).                            *)
(***************************************************************************)
EXTENDS DatFifo, TxFrame, FiniteSets

CONSTANTS
    Causes,     \* the interrupt causes in use, by their bit number
    Writes,     \* the writes that the host makes
    Careful,    \* the host writes a byte only after R54 has told it of room
    RstLen      \* rstlen - 1

Timer   == 7    \* R02's bits
TxEmpty == 6
None    == 8    \* R00's "no cause"
Zero    == 0
Periods == 0 .. 1               \* the values of GTLDVAL told apart

\* R01 with the chip reset bit, R03, R06, R55 with TxC, R56, R85 with GTLD.
WritesOf == ({"R01"} \X BOOLEAN) \cup ({"R03", "R06"} \X SUBSET Causes)
            \cup ({"R55"} \X {TRUE}) \cup ({"R56"} \X Bytes)
            \cup ({"R85"} \X Periods)

ASSUME BytesAssumption  == Zero \in Bytes /\ FrameBytes = Bytes
ASSUME CausesAssumption == Causes \subseteq {Timer, TxEmpty}
ASSUME WritesAssumption == Writes \subseteq WritesOf
ASSUME HostAssumption   == Careful \in BOOLEAN /\ RstLen \in Nat

VARIABLES
    req, write,         \* midi_req, and what the host drives
    state, datwr,       \* the bus FSM, DATWR (DATIN and ADDRIN are write)
    crsten, rstcount, rstcmd,             \* the chip reset
    inten, intclr, intclr_req,            \* R06, R03
    gtldval, gt_count, gt_zero,           \* the general timer
    txc, txfifowr, txfifowdat, fifo,      \* the transmit FIFO
    txwr, txdata, frame,                  \* txwr, and txfiford which equals it
    intstatus, intstatus_d, R02, R00, int_vec, irq_n

busVars   == <<req, write, state, datwr>>
regVars   == <<crsten, inten, intclr, intclr_req, txc, txfifowr, txfifowdat>>
resetVars == <<rstcount, rstcmd>>
timerVars == <<gtldval, gt_count, gt_zero>>
sendVars  == <<fifo, txwr, txdata, frame>>
intVars   == <<intstatus, intstatus_d, R02, R00, int_vec, irq_n>>
vars == <<busVars, regVars, resetVars, timerVars, sendVars, intVars>>

BusOK   == req \in BOOLEAN /\ write \in Writes /\ datwr \in BOOLEAN
           /\ state \in {"IDLE", "WR_ACK"}
RegOK   == /\ crsten \in BOOLEAN /\ rstcmd \in BOOLEAN /\ rstcount \in 0 .. RstLen
           /\ inten \subseteq Causes /\ intclr \subseteq Causes
           /\ intclr_req \in BOOLEAN /\ txc \in BOOLEAN
TimerOK == gtldval \in Periods /\ gt_count \in 0 .. 2 /\ gt_zero \in BOOLEAN
SendOK  == /\ txfifowr \in BOOLEAN /\ txfifowdat \in Bytes /\ fifo \in Fifos
           /\ txwr \in BOOLEAN /\ txdata \in Bytes /\ frame \in Frames
IntOK   == /\ intstatus \subseteq Causes /\ intstatus_d \subseteq Causes
           /\ R02 \subseteq Causes /\ R00 \in Causes \cup {None}
           /\ int_vec \in Causes \cup {None} /\ irq_n \in BOOLEAN

\* Every register holds a value of its range: the ring's addresses stay inside
\* it and the frame's counter within a frame, whatever is written when.
TypeOK == BusOK /\ RegOK /\ TimerOK /\ SendOK /\ IntOK

Init ==
    /\ req = FALSE /\ write \in Writes /\ state = "IDLE" /\ datwr = FALSE
    /\ crsten = FALSE /\ rstcount = RstLen /\ rstcmd = FALSE
    /\ inten = {} /\ intclr = {} /\ intclr_req = FALSE
    /\ gtldval = 0 /\ gt_count = 0 /\ gt_zero = FALSE
    /\ txc = FALSE /\ txfifowr = FALSE /\ txfifowdat = Zero
    /\ \E b \in Bytes : fifo = FifoReset([a \in Addresses |-> b])
    /\ txwr = FALSE /\ txdata = Zero /\ frame = FrameReset(Zero)
    /\ intstatus = {} /\ intstatus_d = {} /\ R02 = {} /\ R00 = None
    /\ int_vec = None /\ irq_n = TRUE

----------------------------------------------------------------------------
(* The bus. *)

\* BS_S_DBIN raises midi_req with the CPU's data; BS_S_FIN_WAIT withdraws it
\* when it sees ack, which is 1 in WR_ACK. The next cycle comes later than
\* the edge in which the controller is back in IDLE.
HostBegins == /\ ~req /\ state = "IDLE"
              /\ req' = TRUE
              /\ write' \in {w \in Writes : Careful /\ w[1] = "R56" => ~FifoFull(fifo)}
HostWaits  == (req => state = "IDLE") /\ UNCHANGED <<req, write>>
HostEnds   == req /\ state = "WR_ACK" /\ req' = FALSE /\ UNCHANGED write
Host       == HostBegins \/ HostWaits \/ HostEnds

\* The states IDLE and WR_ACK; DATWR is up for one edge.
BusState ==
    /\ state' = IF req THEN "WR_ACK" ELSE "IDLE"
    /\ datwr' = (state = "IDLE" /\ req)

----------------------------------------------------------------------------
(* Registers, chip reset and timer. *)

\* The register write cycle: register r takes the data on the bus.
Into(r) == datwr /\ write[1] = r

\* The pulses fall by themselves; the chip reset clears the rest, but a write
\* that comes with it is still carried out, since the code assigns it later.
Registers ==
    /\ crsten'     = IF Into("R01") THEN write[2] ELSE crsten
    /\ inten'      = IF Into("R06") THEN write[2] ELSE IF rstcmd THEN {} ELSE inten
    /\ intclr'     = IF Into("R03") THEN write[2] ELSE {}
    /\ intclr_req' = Into("R03")
    /\ txc'        = Into("R55")
    /\ txfifowr'   = Into("R56")
    /\ txfifowdat' = IF Into("R56") THEN write[2]
                     ELSE IF rstcmd THEN Zero ELSE txfifowdat

\* rstcount is loaded by the board's reset only, so it delays the first
\* chip reset and no other.
ChipReset ==
    /\ rstcmd'   = (crsten /\ rstcount = 0)
    /\ rstcount' = IF crsten /\ rstcount > 0 THEN rstcount - 1 ELSE rstcount

\* GT_COUNT is loaded with twice the period that it reloads itself. The chip
\* reset holds the timer's clock.
GeneralTimer(sftm) ==
    LET reset == IF rstcmd THEN 0 ELSE gt_count
    IN  /\ rstcmd => ~sftm
        /\ gtldval'  = IF Into("R85") THEN write[2] ELSE IF rstcmd THEN 0 ELSE gtldval
        /\ gt_zero'  = IF sftm THEN gt_count = 0 ELSE ~rstcmd /\ gt_zero
        /\ gt_count' = IF Into("R85") THEN 2 * write[2]
                       ELSE IF ~sftm THEN reset
                       ELSE IF gt_count = 0 THEN gtldval ELSE gt_count - 1

----------------------------------------------------------------------------
(* Transmission. *)

\* A byte is taken from the FIFO when the transmitter has room for it.
Pops == BufEmp(frame, txwr) /\ ~FifoEmpty(fifo)

\* crstn holds the transmit process and the transmitter in reset from the
\* edge in which rstcmd rises; the FIFO is on sys_rstn and keeps its bytes.
InReset == rstcmd \/ rstcmd'

\* Mutant of Transmit: the chip reset stops the transmitter and not the
\* process that feeds it.
TransmitOn(tick, suspend) ==
    /\ fifo'   = FifoNext(fifo, txc, txfifowr, txfifowdat, txwr)
    /\ txwr'   = Pops
    /\ txdata' = IF Pops THEN FifoHead(fifo) ELSE txdata
    /\ frame'  = IF InReset THEN FrameReset(Zero)
                 ELSE FrameNext(frame, txwr, txdata, tick, suspend)

Transmit(tick, suspend) ==
    /\ fifo'   = FifoNext(fifo, txc, txfifowr, txfifowdat, txwr)
    /\ txwr'   = (Pops /\ ~InReset)
    /\ txdata' = IF InReset THEN Zero ELSE IF Pops THEN FifoHead(fifo) ELSE txdata
    /\ frame'  = IF InReset THEN FrameReset(Zero)
                 ELSE FrameNext(frame, txwr, txdata, tick, suspend)

----------------------------------------------------------------------------
(* Interrupts. *)

\* The highest of the requests that R06 lets through.
Highest(S) == IF S = {} THEN None ELSE CHOOSE c \in S : \A d \in S : d <= c

Active == {c \in Causes : \/ c = Timer /\ gt_zero
                          \/ c = TxEmpty /\ FifoEmpty(fifo)}

Rising == intstatus \ intstatus_d

\* The clear is the later assignment to R02 and replaces the whole of it.
Interrupts ==
    /\ intstatus'   = Active
    /\ intstatus_d' = intstatus
    /\ R02'         = IF intclr_req THEN R02 \ intclr ELSE R02 \cup Rising
    /\ R00'         = Highest(R02 \cap inten)
    /\ int_vec'     = R00
    /\ irq_n'       = (R00 = None)

----------------------------------------------------------------------------
\* One edge: sftm is the 1 us clock of the timer, tick the bit clock, which is
\* slower and runs by the program's R44; suspend comes from midi_ctrl.
Edge(sftm, tick, suspend) ==
    /\ Host /\ BusState /\ Registers /\ ChipReset /\ GeneralTimer(sftm)
    /\ Transmit(tick, suspend) /\ Interrupts

Next == \E sftm, tick, suspend \in BOOLEAN : Edge(sftm, tick, suspend)

Spec == Init /\ [][Next]_vars

----------------------------------------------------------------------------
(* Properties. *)

\* The transmitter takes a byte (txwr) only into an empty buffer, and the FIFO
\* has one to give: the process that feeds it looks at BUFEMP and the FIFO's
\* flag one edge before both change.
PopSafe == txwr => ~frame.EXDATA /\ ~FifoEmpty(fifo)

\* The bytes the host wrote and the line has not seen, oldest first: the
\* transmitter's buffer, the one on its way to it, the FIFO, the registers.
Pending == (IF frame.EXDATA THEN <<frame.NXTBUF>> ELSE <<>>)
           \o (IF txwr THEN <<txdata>> \o Tail(Contents(fifo)) ELSE Contents(fifo))
           \o (IF txfifowr THEN <<txfifowdat>> ELSE <<>>)
           \o (IF Into("R56") THEN <<write[2]>> ELSE <<>>)

Queue == INSTANCE ByteQueue
    WITH QBytes <- Bytes, QBits <- FrameBits, Silence <- Zero, waiting <- Pending,
         line <- frame.SFTBUF, left <- frame.BITCNT, resetting <- rstcmd

\* Through the bus, FIFO and transmitter the bytes stay in order and each is
\* sent once and to its last bit, if the host looks at R54 before it writes.
\* Where a chip reset begins, it cuts the frame on the line and costs the byte
\* in or on its way to the transmitter's buffer; the FIFO keeps all others.
BytesInOrder == Queue!QSpec

\* "割込要因発生検出(rising edge)": a cause that rises is requested in R02 at that
\* edge, unless the host is just clearing that very cause.
RiseRequested ==
    [][\A c \in Rising : (intclr_req /\ c \in intclr) \/ c \in R02']_vars
=============================================================================
