---------------------------- MODULE Em3802Proofs ----------------------------
(***************************************************************************)
(* The MIDI controller for any ring, any bytes and any frame length.         *)
(*                                                                          *)
(* If the host looks at R54 before it writes and does not clear the FIFO       *)
(* (R55), the room it was told of is still there when the byte arrives, since   *)
(* one write has passed before the next begins (Flight, Room); so nothing is    *)
(* taken from an empty FIFO and nothing is pushed onto a byte that waits        *)
(* (PopSafe), and the chip implements ByteQueue: the ring is the sequence       *)
(* Contents, of which an edge takes the head and to which it adds the byte that  *)
(* has come, and the byte on its way to the transmitter is still that head        *)
(* (Sending).                                                               *)
(***************************************************************************)
EXTENDS Em3802, SequenceTheorems, TLAPS

\* What the theorem asks of the host.
PoliteHost == Careful /\ \A w \in Writes : w[1] # "R55"

\* A write passes the bus, the registers and the FIFO one after the other, and
\* the next one begins when it has passed.
Flight == /\ datwr => req /\ state = "WR_ACK"
          /\ txfifowr => ~req /\ ~datwr /\ state = "WR_ACK"

\* The room that R54 told of is still there when the byte arrives.
Room == (req /\ write[1] = "R56") \/ txfifowr => ~FifoFull(fifo)

\* What PopSafe rests on, in types and in state.
Base == /\ req \in BOOLEAN /\ write \in Writes /\ datwr \in BOOLEAN
        /\ state \in {"IDLE", "WR_ACK"}
        /\ txc = FALSE /\ txfifowr \in BOOLEAN /\ txwr \in BOOLEAN
        /\ fifo \in Fifos /\ txfifowdat \in Bytes
        /\ frame.EXDATA \in BOOLEAN

IInv == Base /\ Flight /\ Room /\ PopSafe

\* The ring's addresses stay inside it.
LEMMA OnwardType == \A a \in Addresses : Onward(a) \in Addresses
  BY DepthAssumption DEF Addresses, Onward

\* Two addresses have different successors.
LEMMA OnwardInjective ==
    \A a, b \in Addresses : Onward(a) = Onward(b) => a = b
  BY DepthAssumption DEF Addresses, Onward

\* One edge of a FIFO that is not cleared.
LEMMA FifoStep ==
    ASSUME NEW f \in Fifos, NEW wr \in BOOLEAN, NEW rd \in BOOLEAN, NEW b \in Bytes
    PROVE  /\ FifoNext(f, FALSE, wr, b, rd) \in Fifos
           /\ FifoNext(f, FALSE, wr, b, rd).rd = IF rd THEN Onward(f.rd) ELSE f.rd
           /\ FifoNext(f, FALSE, wr, b, rd).wr = IF wr THEN Onward(f.wr) ELSE f.wr
  <1>1. f.rd \in Addresses /\ f.wr \in Addresses /\ f.ram \in [Addresses -> Bytes]
    BY DEF Fifos
  <1>2. (IF rd THEN Onward(f.rd) ELSE f.rd) \in Addresses
    BY <1>1, OnwardType
  <1>3. (IF wr THEN Onward(f.wr) ELSE f.wr) \in Addresses
    BY <1>1, OnwardType
  <1>4. (IF wr THEN [f.ram EXCEPT ![f.wr] = b] ELSE f.ram) \in [Addresses -> Bytes]
    BY <1>1
  <1> QED
    BY <1>2, <1>3, <1>4 DEF FifoNext, Fifos

\* The invariant holds at the reset.
LEMMA InitInv == PoliteHost /\ Init => IInv
  <1> SUFFICES ASSUME PoliteHost, Init PROVE IInv
    OBVIOUS
  <1>1. PICK b \in Bytes : fifo = FifoReset([a \in Addresses |-> b])
    BY DEF Init
  <1>2. fifo \in Fifos
    BY <1>1, DepthAssumption DEF FifoReset, Fifos, Addresses
  <1>3. frame.EXDATA = FALSE
    BY DEF Init, FrameReset
  <1> QED
    BY <1>2, <1>3, BytesAssumption DEF Init, IInv, Base, Flight, Room, PopSafe

\* It is preserved by every edge.
LEMMA StepInv == PoliteHost /\ IInv /\ [Next]_vars => IInv'
  <1> SUFFICES ASSUME PoliteHost, IInv, [Next]_vars PROVE IInv'
    OBVIOUS
  <1> USE DEF IInv
  <1>1. CASE UNCHANGED vars
    BY <1>1 DEF vars, busVars, regVars, sendVars, Base, Flight, Room, PopSafe,
                Into, FifoFull, FifoEmpty
  <1>2. CASE Next
    <2>1. PICK sftm \in BOOLEAN, tick \in BOOLEAN, suspend \in BOOLEAN :
              Edge(sftm, tick, suspend)
      BY <1>2 DEF Next
    <2>2. Host /\ BusState /\ Registers /\ Transmit(tick, suspend)
      BY <2>1 DEF Edge
    <2>3. fifo' = FifoNext(fifo, FALSE, txfifowr, txfifowdat, txwr)
      BY <2>2 DEF Transmit, Base
    <2>4. /\ fifo' \in Fifos
          /\ fifo'.rd = IF txwr THEN Onward(fifo.rd) ELSE fifo.rd
          /\ fifo'.wr = IF txfifowr THEN Onward(fifo.wr) ELSE fifo.wr
      <3>1. /\ fifo \in Fifos /\ txfifowr \in BOOLEAN /\ txwr \in BOOLEAN
            /\ txfifowdat \in Bytes
        BY DEF Base
      <3> HIDE DEF IInv
      <3>2. LET g == FifoNext(fifo, FALSE, txfifowr, txfifowdat, txwr)
            IN  /\ g \in Fifos
                /\ g.rd = IF txwr THEN Onward(fifo.rd) ELSE fifo.rd
                /\ g.wr = IF txfifowr THEN Onward(fifo.wr) ELSE fifo.wr
        BY <3>1, FifoStep
      <3> QED
        BY <2>3, <3>2
    <2>5. fifo.rd \in Addresses /\ fifo.wr \in Addresses
      BY DEF Base, Fifos
    <2>6. write' \in Writes /\ req' \in BOOLEAN
      BY <2>2 DEF Host, HostBegins, HostWaits, HostEnds, Base
    <2>7. Base'
      <3>1. txc' = FALSE /\ txfifowr' \in BOOLEAN
        BY <2>2 DEF Registers, Into, Base, PoliteHost
      <3>2. txfifowdat' \in Bytes
        <4>1. CASE Into("R56")
          <5>1. write \in WritesOf /\ write[1] = "R56"
            BY <4>1, WritesAssumption DEF Into, Base
          <5>2. write[2] \in Bytes
            <6>1. /\ write \notin {"R01"} \X BOOLEAN
                  /\ write \notin {"R03", "R06"} \X SUBSET Causes
                  /\ write \notin {"R55"} \X {TRUE}
                  /\ write \notin {"R85"} \X Periods
              <7>1. ASSUME NEW R, NEW S, write \in R \X S, "R56" \notin R
                    PROVE  FALSE
                BY <5>1, <7>1
              <7>2. write \notin {"R01"} \X BOOLEAN
                BY <7>1
              <7>3. write \notin {"R03", "R06"} \X SUBSET Causes
                BY <7>1
              <7>4. write \notin {"R85"} \X Periods
                BY <7>1
              <7>5. write \notin {"R55"} \X {TRUE}
                BY <7>1
              <7> QED
                BY <7>2, <7>3, <7>4, <7>5
            <6>2. write \in {"R56"} \X Bytes
              BY <5>1, <6>1 DEF WritesOf
            <6> QED
              BY <6>2
          <5> QED
            BY <4>1, <5>2, <2>2 DEF Registers
        <4>2. CASE ~Into("R56")
          BY <4>2, <2>2, BytesAssumption DEF Registers, Base
        <4> QED
          BY <4>1, <4>2
      <3>3. txwr' \in BOOLEAN
        BY <2>2 DEF Transmit
      <3>4. frame'.EXDATA \in BOOLEAN
        BY <2>2 DEF Transmit, FrameReset, FrameNext, Base
      <3>5. datwr' \in BOOLEAN /\ state' \in {"IDLE", "WR_ACK"}
        BY <2>2 DEF BusState
      <3> QED
        BY <2>4, <2>6, <3>1, <3>2, <3>3, <3>4, <3>5 DEF Base
    <2>8. Flight'
      BY <2>2 DEF Host, HostBegins, HostWaits, HostEnds, BusState, Registers, Into,
                  Base, Flight
    <2>9. Room'
      <3> SUFFICES ASSUME (req' /\ write'[1] = "R56") \/ txfifowr'
                   PROVE  ~FifoFull(fifo')
        BY DEF Room, FifoFull
      <3>1. ~txfifowr /\ ~FifoFull(fifo)
        <4>1. CASE txfifowr'
          BY <4>1, <2>2 DEF Registers, Into, Flight, Room, Base
        <4>2. CASE req' /\ write'[1] = "R56"
          BY <4>2, <2>2 DEF Host, HostBegins, HostWaits, HostEnds, Flight, Room,
                            PoliteHost, Base
        <4> QED
          BY <4>1, <4>2
      <3>2. CASE ~txwr
        BY <3>1, <3>2, <2>4 DEF FifoFull
      <3>3. CASE txwr
        BY <3>1, <3>3, <2>4, <2>5, OnwardInjective DEF FifoFull, FifoEmpty, PopSafe
      <3> QED
        BY <3>2, <3>3 DEF Base
    <2>10. PopSafe'
      <3> SUFFICES ASSUME txwr' PROVE ~frame'.EXDATA /\ fifo'.rd # fifo'.wr
        BY DEF PopSafe, FifoEmpty
      <3>1. ~frame.EXDATA /\ ~txwr /\ fifo.rd # fifo.wr /\ ~InReset
        BY <2>2 DEF Transmit, Pops, BufEmp, FifoEmpty
      <3>2. frame' = FrameNext(frame, FALSE, txdata, tick, suspend)
        BY <3>1, <2>2 DEF Transmit, Base
      <3>3. ~frame'.EXDATA
        BY <3>1, <3>2 DEF FrameNext
      <3>4. fifo'.rd # fifo'.wr
        BY <3>1, <2>4 DEF Room, FifoFull, Base
      <3> QED
        BY <3>3, <3>4
    <2> QED
      BY <2>7, <2>8, <2>9, <2>10
  <1> QED
    BY <1>1, <1>2

\* For any ring, bytes and frames: no byte is pushed onto another in the
\* transmitter, and none is taken from an empty FIFO (PopSafe), if the host
\* looks at R54 before it writes and does not clear the FIFO.
THEOREM PopsAreSafe == PoliteHost /\ Spec => []PopSafe
  <1> SUFFICES ASSUME PoliteHost PROVE Spec => []PopSafe
    OBVIOUS
  <1>1. Init => IInv
    BY InitInv
  <1>2. IInv /\ [Next]_vars => IInv'
    BY StepInv
  <1>3. IInv => PopSafe
    BY DEF IInv
  <1> QED
    BY <1>1, <1>2, <1>3, PTL DEF Spec
----------------------------------------------------------------------------
(* The types of all the registers, whatever the host writes.                *)

\* A write into a register carries data of that register.
LEMMA WriteData ==
    ASSUME BusOK
    PROVE  /\ Into("R01") => write[2] \in BOOLEAN
           /\ Into("R03") => write[2] \subseteq Causes
           /\ Into("R06") => write[2] \subseteq Causes
           /\ Into("R56") => write[2] \in Bytes
           /\ Into("R85") => write[2] \in Periods
  <1>1. write \in WritesOf
    BY WritesAssumption DEF BusOK
  <1>2. PICK R, S : /\ write \in R \X S
                    /\ <<R, S>> \in {<<{"R01"}, BOOLEAN>>, <<{"R03", "R06"}, SUBSET Causes>>,
                                     <<{"R55"}, {TRUE}>>, <<{"R56"}, Bytes>>, <<{"R85"}, Periods>>}
    BY <1>1 DEF WritesOf
  <1>3. write[1] \in R /\ write[2] \in S
    BY <1>2
  <1>4. CASE R = {"R01"} /\ S = BOOLEAN BY <1>3, <1>4 DEF Into
  <1>5. CASE R = {"R03", "R06"} /\ S = SUBSET Causes BY <1>3, <1>5 DEF Into
  <1>6. CASE R = {"R55"} /\ S = {TRUE} BY <1>3, <1>6 DEF Into
  <1>7. CASE R = {"R56"} /\ S = Bytes BY <1>3, <1>7 DEF Into
  <1>8. CASE R = {"R85"} /\ S = Periods BY <1>3, <1>8 DEF Into
  <1> QED
    BY <1>2, <1>4, <1>5, <1>6, <1>7, <1>8

\* The same after an edge.
LEMMA WriteDataNext == BusOK' => (Into("R56")' => write'[2] \in Bytes)
  <1>1. BusOK => (Into("R56") => write[2] \in Bytes)
    BY WriteData
  <1>2. (BusOK => (Into("R56") => write[2] \in Bytes))'
    BY <1>1, PTL
  <1> QED BY <1>2

\* One edge of a FIFO, cleared or not.
LEMMA FifoType ==
    ASSUME NEW f \in Fifos, NEW clr \in BOOLEAN, NEW wr \in BOOLEAN, NEW rd \in BOOLEAN,
           NEW b \in Bytes
    PROVE  FifoNext(f, clr, wr, b, rd) \in Fifos
  <1>1. CASE clr
    <2>1. f.ram \in [Addresses -> Bytes] /\ 0 \in Addresses
      BY DepthAssumption DEF Fifos, Addresses
    <2> QED
      BY <1>1, <2>1 DEF FifoNext, Fifos
  <1>2. CASE ~clr
    <2>1. clr = FALSE BY <1>2
    <2> QED BY <2>1, FifoStep
  <1> QED
    BY <1>1, <1>2

\* One edge of the transmitter.
LEMMA FrameType ==
    ASSUME NEW t \in Frames, NEW wr \in BOOLEAN, NEW b \in Bytes, NEW tick \in BOOLEAN,
           NEW suspend \in BOOLEAN
    PROVE  FrameNext(t, wr, b, tick, suspend) \in Frames /\ FrameReset(Zero) \in Frames
  <1>1. /\ t.EXDATA \in BOOLEAN /\ t.NXTBUF \in Bytes /\ t.SFTBUF \in Bytes
        /\ t.BITCNT \in 0 .. FrameBits /\ t.DRCNT \in BOOLEAN
    BY BytesAssumption DEF Frames
  <1> DEFINE start == Starts(t, tick, suspend)
             taken == wr /\ ~t.EXDATA
  <1>2. start \in BOOLEAN /\ taken \in BOOLEAN
    BY <1>1 DEF Starts
  <1>3. /\ ((t.EXDATA \/ taken) /\ ~start) \in BOOLEAN
        /\ (IF taken THEN b ELSE t.NXTBUF) \in Bytes
        /\ (IF start THEN t.NXTBUF ELSE t.SFTBUF) \in Bytes
        /\ (IF tick /\ t.BITCNT = 0 THEN start ELSE t.DRCNT) \in BOOLEAN
    BY <1>1, <1>2
  <1>4. (IF start THEN FrameBits ELSE IF tick /\ t.BITCNT > 0 THEN t.BITCNT - 1 ELSE t.BITCNT)
            \in 0 .. FrameBits
    BY <1>1, FrameAssumption
  <1>5. FrameNext(t, wr, b, tick, suspend) \in Frames
    BY <1>1, <1>2, <1>3, <1>4, BytesAssumption DEF FrameNext, Frames
  <1>6. FrameReset(Zero) \in Frames
    BY BytesAssumption, FrameAssumption DEF FrameReset, Frames
  <1> QED
    BY <1>5, <1>6

LEMMA HighestType == \A S \in SUBSET Causes : Highest(S) \in Causes \cup {None}
  <1> SUFFICES ASSUME NEW S \in SUBSET Causes PROVE Highest(S) \in Causes \cup {None}
    OBVIOUS
  <1>1. CASE S = {}
    BY <1>1 DEF Highest
  <1>2. CASE S # {}
    <2>1. S \subseteq {6, 7}
      BY CausesAssumption DEF Timer, TxEmpty
    <2>2. \E c \in S : \A d \in S : d <= c
      <3>1. CASE 7 \in S BY <2>1, <3>1
      <3>2. CASE 7 \notin S
        <4>1. S = {6} BY <1>2, <2>1, <3>2
        <4> QED BY <4>1
      <3> QED BY <3>1, <3>2
    <2> QED
      BY <1>2, <2>2 DEF Highest
  <1> QED
    BY <1>1, <1>2

LEMMA TypeInit == Init => TypeOK
  <1> SUFFICES ASSUME Init PROVE TypeOK
    OBVIOUS
  <1>1. BusOK BY DEF Init, BusOK
  <1>2. RegOK
    <2>1. /\ crsten = FALSE /\ rstcmd = FALSE /\ rstcount = RstLen /\ inten = {} /\ intclr = {}
          /\ intclr_req = FALSE /\ txc = FALSE
      BY DEF Init
    <2>2. rstcount \in 0 .. RstLen BY <2>1, HostAssumption
    <2> QED BY <2>1, <2>2 DEF RegOK
  <1>3. TimerOK
    <2>1. gtldval = 0 /\ gt_count = 0 /\ gt_zero = FALSE BY DEF Init
    <2>2. gtldval \in Periods /\ gt_count \in 0 .. 2 BY <2>1 DEF Periods
    <2> QED BY <2>1, <2>2 DEF TimerOK
  <1>4. SendOK
    <2>1. PICK b \in Bytes : fifo = FifoReset([a \in Addresses |-> b])
      BY DEF Init
    <2>2. fifo \in Fifos
      BY <2>1, DepthAssumption DEF FifoReset, Fifos, Addresses
    <2>3. frame \in Frames
      BY BytesAssumption, FrameAssumption DEF Init, FrameReset, Frames
    <2> QED
      BY <2>2, <2>3, BytesAssumption DEF Init, SendOK
  <1>5. IntOK BY DEF Init, IntOK
  <1> QED
    BY <1>1, <1>2, <1>3, <1>4, <1>5 DEF TypeOK

LEMMA TypeNext == TypeOK /\ [Next]_vars => TypeOK'
  <1> SUFFICES ASSUME TypeOK, [Next]_vars PROVE TypeOK'
    OBVIOUS
  <1> USE DEF TypeOK
  <1>1. CASE UNCHANGED vars
    BY <1>1 DEF vars, busVars, regVars, resetVars, timerVars, sendVars, intVars,
                BusOK, RegOK, TimerOK, SendOK, IntOK
  <1>2. CASE Next
    <2>1. PICK sftm \in BOOLEAN, tick \in BOOLEAN, suspend \in BOOLEAN :
              Edge(sftm, tick, suspend)
      BY <1>2 DEF Next
    <2>2. BusOK'
      BY <2>1 DEF Edge, Host, HostBegins, HostWaits, HostEnds, BusState, BusOK
    <2>3. RegOK'
      <3>1. crsten' \in BOOLEAN /\ intclr_req' \in BOOLEAN /\ txc' \in BOOLEAN
        BY <2>1, WriteData DEF Edge, Registers, RegOK, Into, BusOK
      <3>2. inten' \subseteq Causes /\ intclr' \subseteq Causes
        BY <2>1, WriteData DEF Edge, Registers, RegOK
      <3>3. rstcmd' \in BOOLEAN /\ rstcount' \in 0 .. RstLen
        BY <2>1, HostAssumption DEF Edge, ChipReset, RegOK
      <3> QED
        BY <3>1, <3>2, <3>3 DEF RegOK
    <2>4. TimerOK'
      <3>1. Into("R85") => write[2] \in Periods
        BY WriteData
      <3>2. GeneralTimer(sftm) /\ rstcmd \in BOOLEAN
        BY <2>1 DEF Edge, RegOK
      <3>3. gtldval \in Periods /\ gt_count \in 0 .. 2 /\ gt_zero \in BOOLEAN
        BY DEF TimerOK
      <3>4. gtldval' \in Periods
        BY <3>1, <3>2, <3>3 DEF GeneralTimer, Periods
      <3>5. gt_zero' \in BOOLEAN
        BY <3>2, <3>3 DEF GeneralTimer
      <3>6. gt_count' \in 0 .. 2
        BY <3>1, <3>2, <3>3 DEF GeneralTimer, Periods
      <3> QED
        BY <3>4, <3>5, <3>6 DEF TimerOK
    <2>5. SendOK'
      <3>1. /\ txfifowr \in BOOLEAN /\ txfifowdat \in Bytes /\ fifo \in Fifos
            /\ txwr \in BOOLEAN /\ txdata \in Bytes /\ frame \in Frames /\ txc \in BOOLEAN
        BY DEF SendOK, RegOK
      <3>2. txfifowr' \in BOOLEAN /\ txfifowdat' \in Bytes
        BY <2>1, <3>1, WriteData, BytesAssumption DEF Edge, Registers, Into, BusOK
      <3>3. fifo' \in Fifos
        BY <2>1, <3>1, FifoType DEF Edge, Transmit
      <3>4. frame' \in Frames
        BY <2>1, <3>1, FrameType DEF Edge, Transmit
      <3>5. FifoHead(fifo) \in Bytes
        BY <3>1 DEF FifoHead, Fifos
      <3>6. txwr' \in BOOLEAN /\ txdata' \in Bytes
        BY <2>1, <3>1, <3>5, BytesAssumption DEF Edge, Transmit
      <3> QED
        BY <3>2, <3>3, <3>4, <3>6 DEF SendOK
    <2>6. IntOK'
      <3>1. Active \subseteq Causes /\ Rising \subseteq Causes
        BY DEF Active, Rising, IntOK
      <3>2. Highest(R02 \cap inten) \in Causes \cup {None}
        BY HighestType DEF IntOK
      <3> QED
        BY <2>1, <3>1, <3>2 DEF Edge, Interrupts, IntOK
    <2> QED
      BY <2>2, <2>3, <2>4, <2>5, <2>6
  <1> QED
    BY <1>1, <1>2

\* Every register of the chip holds a value of its range at every edge, whatever the
\* host writes when, a cleared or overrun FIFO included.
THEOREM Typing == Spec => []TypeOK
  BY TypeInit, TypeNext, PTL DEF Spec
----------------------------------------------------------------------------
(* The ring as a sequence.                                                  *)

\* The address k places after r.
After(r, k) == IF r + k < Depth THEN r + k ELSE r + k - Depth

LEMMA RemainderIs ==
    ASSUME NEW r \in Addresses, NEW k \in 0 .. Depth
    PROVE  (r + k) % Depth = After(r, k) /\ After(r, k) \in Addresses
  <1>1. After(r, k) \in Addresses BY DepthAssumption DEF Addresses, After
  <1>2. CASE r + k < Depth BY <1>2, DepthAssumption DEF Addresses, After
  <1>3. CASE r + k >= Depth
    <2>1. r + k = 1 * Depth + (r + k - Depth) /\ r + k - Depth \in 0 .. Depth - 1
      BY <1>3, DepthAssumption DEF Addresses
    <2> QED BY <2>1, <1>3, DepthAssumption, SMTT(30) DEF Addresses, After
  <1> QED BY <1>1, <1>2, <1>3, DepthAssumption DEF Addresses

LEMMA ContentsAre ==
    ASSUME NEW f \in Fifos
    PROVE  /\ FifoLen(f) \in 0 .. Depth - 1 /\ f.wr = After(f.rd, FifoLen(f))
           /\ Contents(f) \in Seq(Bytes) /\ Len(Contents(f)) = FifoLen(f)
           /\ \A i \in 1 .. FifoLen(f) :
                Contents(f)[i] = f.ram[After(f.rd, i - 1)] /\ After(f.rd, i - 1) \in Addresses
  <1> DEFINE n == FifoLen(f)
  <1>1. f.rd \in Addresses /\ f.wr \in Addresses /\ f.ram \in [Addresses -> Bytes]
    BY DEF Fifos
  <1>2. n \in 0 .. Depth - 1 /\ f.wr = After(f.rd, n)
    BY <1>1, DepthAssumption DEF FifoLen, Addresses, After
  <1>3. Contents(f) = [i \in 1 .. n |-> f.ram[(f.rd + i - 1) % Depth]]
    BY DEF Contents
  <1> HIDE DEF n
  <1>4. ASSUME NEW i \in 1 .. n
        PROVE  /\ f.ram[(f.rd + i - 1) % Depth] = f.ram[After(f.rd, i - 1)]
               /\ After(f.rd, i - 1) \in Addresses /\ f.ram[After(f.rd, i - 1)] \in Bytes
    <2>1. i - 1 \in 0 .. Depth /\ f.rd + i - 1 = f.rd + (i - 1)
      BY <1>1, <1>2, DepthAssumption DEF Addresses
    <2>2. (f.rd + (i - 1)) % Depth = After(f.rd, i - 1) /\ After(f.rd, i - 1) \in Addresses
      BY <1>1, <2>1, RemainderIs
    <2> QED BY <1>1, <2>1, <2>2
  <1>5. Contents(f) \in [1 .. n -> Bytes] /\ n \in Nat
    BY <1>2, <1>3, <1>4, DepthAssumption
  <1>6. Contents(f) \in Seq(Bytes) /\ Len(Contents(f)) = n
    BY <1>5
  <1>7. \A i \in 1 .. n : Contents(f)[i] = f.ram[After(f.rd, i - 1)] /\ After(f.rd, i - 1) \in Addresses
    BY <1>3, <1>4
  <1> QED BY <1>2, <1>6, <1>7 DEF n

\* A read.
LEMMA Popped ==
    ASSUME NEW f \in Fifos, NEW g \in Fifos, ~FifoEmpty(f),
           g.ram = f.ram, g.wr = f.wr, g.rd = Onward(f.rd)
    PROVE  /\ Contents(f) # <<>> /\ Head(Contents(f)) = FifoHead(f)
           /\ Contents(g) = Tail(Contents(f))
  <1> DEFINE n == FifoLen(f)
             m == FifoLen(g)
  <1>1. f.rd \in Addresses /\ f.wr \in Addresses /\ f.rd # f.wr
    BY DEF Fifos, FifoEmpty
  <1>2. m = n - 1 /\ n \in 1 .. Depth - 1
    BY <1>1, DepthAssumption DEF FifoLen, Onward, Addresses
  <1>3. /\ Contents(f) \in Seq(Bytes) /\ Len(Contents(f)) = n
        /\ \A i \in 1 .. n : Contents(f)[i] = f.ram[After(f.rd, i - 1)]
    BY ContentsAre
  <1>4. /\ Contents(g) \in Seq(Bytes) /\ Len(Contents(g)) = m
        /\ \A i \in 1 .. m : Contents(g)[i] = f.ram[After(g.rd, i - 1)]
    BY ContentsAre
  <1> HIDE DEF n, m
  <1>5. Contents(f) # <<>> BY <1>2, <1>3, EmptySeq
  <1>6. Head(Contents(f)) = FifoHead(f)
    <2>1. 1 \in 1 .. n /\ After(f.rd, 1 - 1) = f.rd
      BY <1>1, <1>2, DepthAssumption DEF After, Addresses
    <2>2. Contents(f)[1] = f.ram[f.rd] BY <1>3, <2>1
    <2>3. Head(Contents(f)) = Contents(f)[1] OBVIOUS
    <2> QED BY <2>2, <2>3 DEF FifoHead
  <1>7. /\ Tail(Contents(f)) \in Seq(Bytes) /\ Len(Tail(Contents(f))) = n - 1
        /\ \A i \in 1 .. n - 1 : Tail(Contents(f))[i] = Contents(f)[i + 1]
    BY <1>3, <1>5, HeadTailProperties
  <1>8. ASSUME NEW i \in 1 .. n - 1
        PROVE  Contents(g)[i] = Tail(Contents(f))[i]
    <2>1. i + 1 \in 1 .. n /\ i \in 1 .. m BY <1>2
    <2>2. After(g.rd, i - 1) = After(f.rd, i + 1 - 1)
      BY <1>1, <1>2, DepthAssumption DEF After, Onward, Addresses
    <2>3. Contents(g)[i] = f.ram[After(g.rd, i - 1)] BY <1>4, <2>1
    <2>4. Contents(f)[i + 1] = f.ram[After(f.rd, i + 1 - 1)] BY <1>3, <2>1
    <2> QED BY <1>7, <2>2, <2>3, <2>4
  <1> QED BY <1>2, <1>4, <1>5, <1>6, <1>7, <1>8, SeqEqual

\* A write for which there is room.
LEMMA Pushed ==
    ASSUME NEW f \in Fifos, NEW g \in Fifos, NEW b \in Bytes, ~FifoFull(f),
           g.ram = [f.ram EXCEPT ![f.wr] = b], g.wr = Onward(f.wr), g.rd = f.rd
    PROVE  Contents(g) = Contents(f) \o <<b>>
  <1> DEFINE n == FifoLen(f)
             m == FifoLen(g)
  <1>1. /\ f.rd \in Addresses /\ f.wr \in Addresses /\ f.rd # Onward(f.wr)
        /\ f.ram \in [Addresses -> Bytes]
    BY DEF Fifos, FifoFull
  <1>2. m = n + 1 /\ n \in 0 .. Depth - 2
    <2> DEFINE r == f.rd
               w == f.wr
    <2>1. r \in 0 .. Depth - 1 /\ w \in 0 .. Depth - 1 /\ r # (IF w + 1 = Depth THEN 0 ELSE w + 1)
      BY <1>1 DEF Addresses, Onward
    <2>2. n = IF r <= w THEN w - r ELSE w + Depth - r
      BY DEF FifoLen
    <2>3. m = IF r <= Onward(w) THEN Onward(w) - r ELSE Onward(w) + Depth - r
      BY DEF FifoLen
    <2> HIDE DEF n, m, r, w
    <2>4. Onward(w) = IF w + 1 = Depth THEN 0 ELSE w + 1 BY DEF Onward
    <2>5. CASE w + 1 = Depth BY <2>1, <2>2, <2>3, <2>4, <2>5, DepthAssumption
    <2>6. CASE w + 1 # Depth BY <2>1, <2>2, <2>3, <2>4, <2>6, DepthAssumption
    <2> QED BY <2>5, <2>6
  <1>3. /\ Contents(f) \in Seq(Bytes) /\ Len(Contents(f)) = n /\ f.wr = After(f.rd, n)
        /\ \A i \in 1 .. n : Contents(f)[i] = f.ram[After(f.rd, i - 1)] /\ After(f.rd, i - 1) \in Addresses
    BY ContentsAre
  <1>4. /\ Contents(g) \in Seq(Bytes) /\ Len(Contents(g)) = m
        /\ \A i \in 1 .. m : Contents(g)[i] = g.ram[After(f.rd, i - 1)]
    BY ContentsAre
  <1> HIDE DEF n, m
  <1>5. <<b>> \in Seq(Bytes) /\ Len(<<b>>) = 1 OBVIOUS
  <1>6. /\ Contents(f) \o <<b>> \in Seq(Bytes) /\ Len(Contents(f) \o <<b>>) = n + 1
        /\ \A i \in 1 .. n + 1 : (Contents(f) \o <<b>>)[i]
                                   = IF i <= n THEN Contents(f)[i] ELSE <<b>>[i - n]
    BY <1>3, <1>5, ConcatProperties
  <1>7. ASSUME NEW i \in 1 .. n + 1
        PROVE  Contents(g)[i] = (Contents(f) \o <<b>>)[i]
    <2>1. Contents(g)[i] = g.ram[After(f.rd, i - 1)] BY <1>2, <1>4
    <2>2. CASE i <= n
      <3>1. i \in 1 .. n BY <1>2, <2>2
      <3>2. After(f.rd, i - 1) # f.wr
        <4> DEFINE r == f.rd
        <4>1. r \in 0 .. Depth - 1 BY <1>1 DEF Addresses
        <4>2. f.wr = After(r, n) BY <1>3
        <4> HIDE DEF r
        <4>3. After(r, i - 1) # After(r, n)
          BY <1>2, <2>2, <3>1, <4>1, DepthAssumption DEF After
        <4> QED BY <4>2, <4>3 DEF r
      <3>3. g.ram[After(f.rd, i - 1)] = f.ram[After(f.rd, i - 1)] BY <1>1, <1>3, <3>1, <3>2
      <3> QED BY <1>3, <1>6, <2>1, <2>2, <3>1, <3>3
    <2>3. CASE i = n + 1
      <3>1. i - 1 = n /\ i - n = 1 /\ ~(i <= n) BY <1>2, <2>3
      <3>2. g.ram[f.wr] = b BY <1>1
      <3>3. (Contents(f) \o <<b>>)[i] = <<b>>[1] BY <1>6, <3>1
      <3> QED BY <1>3, <2>1, <3>1, <3>2, <3>3
    <2>4. n \in Nat BY <1>2, DepthAssumption
    <2>5. i <= n \/ i = n + 1 BY <2>4
    <2> QED BY <2>2, <2>3, <2>5
  <1> QED BY <1>2, <1>4, <1>6, <1>7, SeqEqual

LEMMA Behind ==
    ASSUME NEW s \in Seq(Bytes), NEW t \in Seq(Bytes), s # <<>>
    PROVE  s \o t # <<>> /\ Head(s \o t) = Head(s) /\ Tail(s \o t) = Tail(s) \o t
  <1>1. Len(s) \in Nat \ {0} /\ Head(s) = s[1] BY EmptySeq
  <1>2. /\ s \o t \in Seq(Bytes) /\ Len(s \o t) = Len(s) + Len(t) /\ Len(t) \in Nat
        /\ \A i \in 1 .. Len(s) + Len(t) : (s \o t)[i] = IF i <= Len(s) THEN s[i] ELSE t[i - Len(s)]
    BY ConcatProperties, LenProperties
  <1>3. s \o t # <<>> BY <1>1, <1>2
  <1>4. Head(s \o t) = s[1] BY <1>1, <1>2, <1>3
  <1>5. /\ Tail(s) \in Seq(Bytes) /\ Len(Tail(s)) = Len(s) - 1
        /\ \A i \in 1 .. Len(s) - 1 : Tail(s)[i] = s[i + 1]
    BY HeadTailProperties
  <1>6. /\ Tail(s) \o t \in Seq(Bytes) /\ Len(Tail(s) \o t) = Len(s) - 1 + Len(t)
        /\ \A i \in 1 .. Len(s) - 1 + Len(t) :
             (Tail(s) \o t)[i] = IF i <= Len(s) - 1 THEN Tail(s)[i] ELSE t[i - (Len(s) - 1)]
    BY <1>5, ConcatProperties
  <1>7. /\ Tail(s \o t) \in Seq(Bytes) /\ Len(Tail(s \o t)) = Len(s) + Len(t) - 1
        /\ \A i \in 1 .. Len(s) + Len(t) - 1 : Tail(s \o t)[i] = (s \o t)[i + 1]
    BY <1>2, <1>3, HeadTailProperties
  <1>8. ASSUME NEW i \in 1 .. Len(s) + Len(t) - 1
        PROVE  Tail(s \o t)[i] = (Tail(s) \o t)[i]
    <2>1. i + 1 \in 1 .. Len(s) + Len(t) /\ i \in 1 .. Len(s) - 1 + Len(t)
      BY <1>1, <1>2
    <2>2. Tail(s \o t)[i] = IF i + 1 <= Len(s) THEN s[i + 1] ELSE t[i + 1 - Len(s)]
      BY <2>1, <1>2, <1>7
    <2>3. (Tail(s) \o t)[i] = IF i <= Len(s) - 1 THEN s[i + 1] ELSE t[i - (Len(s) - 1)]
      BY <2>1, <1>5, <1>6, <1>1
    <2>4. i + 1 - Len(s) = i - (Len(s) - 1) /\ (i + 1 <= Len(s) <=> i <= Len(s) - 1)
      BY <1>1
    <2> QED BY <2>2, <2>3, <2>4
  <1>9. Tail(s \o t) = Tail(s) \o t
    <2>1. /\ Len(Tail(s \o t)) = Len(Tail(s) \o t)
          /\ \A i \in 1 .. Len(Tail(s \o t)) : Tail(s \o t)[i] = (Tail(s) \o t)[i]
      BY <1>1, <1>2, <1>6, <1>7, <1>8
    <2> QED BY <2>1, <1>6, <1>7, SeqEqual
  <1> QED BY <1>1, <1>3, <1>4, <1>9

LEMMA Grouping == \A s, t, u \in Seq(Bytes) : (s \o t) \o u = s \o (t \o u)
  BY ConcatAssociative

\* A sequence is its head and its tail.
LEMMA HeadAndTail ==
    ASSUME NEW c \in Seq(Bytes), c # <<>>
    PROVE  <<Head(c)>> \o Tail(c) = c
  <1>1. Len(c) \in Nat \ {0} /\ Head(c) \in Bytes /\ Tail(c) \in Seq(Bytes)
        /\ Len(Tail(c)) = Len(c) - 1 /\ (\A i \in 1 .. Len(Tail(c)) : Tail(c)[i] = c[i + 1])
        /\ Head(c) = c[1]
    BY EmptySeq, HeadTailProperties
  <1>2. <<Head(c)>> \in Seq(Bytes) /\ Len(<<Head(c)>>) = 1 /\ <<Head(c)>>[1] = Head(c)
    BY <1>1
  <1>3. /\ <<Head(c)>> \o Tail(c) \in Seq(Bytes) /\ Len(<<Head(c)>> \o Tail(c)) = Len(c)
        /\ \A i \in 1 .. Len(c) : (<<Head(c)>> \o Tail(c))[i]
                                     = IF i <= 1 THEN <<Head(c)>>[i] ELSE Tail(c)[i - 1]
    BY <1>1, <1>2, ConcatProperties
  <1>4. ASSUME NEW i \in 1 .. Len(c) PROVE c[i] = (<<Head(c)>> \o Tail(c))[i]
    <2>1. CASE i = 1 BY <1>1, <1>2, <1>3, <2>1
    <2>2. CASE i # 1
      <3>1. i - 1 \in 1 .. Len(Tail(c)) /\ ~(i <= 1) /\ i - 1 + 1 = i BY <1>1, <2>2
      <3>2. Tail(c)[i - 1] = c[i - 1 + 1] BY <1>1, <3>1
      <3> QED BY <1>3, <3>1, <3>2
    <2> QED BY <2>1, <2>2
  <1> QED BY <1>3, <1>4, SeqEqual
----------------------------------------------------------------------------
(* The refinement.                                                          *)

\* The byte that the transmitter is to take is still the first in the FIFO, and a
\* chip reset has emptied the transmitter.
Sending == /\ txwr => txdata = FifoHead(fifo)
           /\ rstcmd => /\ ~frame.EXDATA /\ ~txwr
                     /\ frame.SFTBUF = Zero /\ frame.BITCNT = 0

InBuffer  == IF frame.EXDATA THEN <<frame.NXTBUF>> ELSE <<>>
Coming    == IF txfifowr THEN <<txfifowdat>> ELSE <<>>
OnBus     == IF Into("R56") THEN <<write[2]>> ELSE <<>>

\* What is pending, from the transmitter back to the bus.
Parts == /\ Pending = InBuffer \o (Contents(fifo) \o (Coming \o OnBus))
         /\ InBuffer \in Seq(Bytes) /\ Contents(fifo) \in Seq(Bytes) /\ Coming \in Seq(Bytes)
         /\ OnBus \in Seq(Bytes) /\ Pending \in Seq(Bytes)
         /\ txwr => Contents(fifo) # <<>> /\ Head(Contents(fifo)) = txdata

LEMMA PendingIs == IInv /\ TypeOK /\ Sending => Parts
  <1> SUFFICES ASSUME IInv, TypeOK, Sending PROVE Parts
    OBVIOUS
  <1>1. InBuffer \in Seq(Bytes) /\ Coming \in Seq(Bytes)
    BY BytesAssumption DEF InBuffer, Coming, TypeOK, SendOK, Frames
  <1>2. OnBus \in Seq(Bytes)
    <2>1. Into("R56") => write[2] \in Bytes BY WriteData DEF TypeOK
    <2> QED BY <2>1 DEF OnBus
  <1>3. Contents(fifo) \in Seq(Bytes)
    BY ContentsAre DEF TypeOK, SendOK
  <1>4. txwr => Contents(fifo) # <<>> /\ Head(Contents(fifo)) = txdata
    <2>1. ASSUME txwr PROVE Contents(fifo) # <<>> /\ Head(Contents(fifo)) = FifoHead(fifo)
      <3>1. ~FifoEmpty(fifo) /\ fifo \in Fifos BY <2>1 DEF IInv, PopSafe, TypeOK, SendOK
      <3> DEFINE g == [fifo EXCEPT !.rd = Onward(fifo.rd)]
      <3>2. fifo.rd \in Addresses BY <3>1 DEF Fifos
      <3>3. Onward(fifo.rd) \in Addresses BY <3>2, OnwardType
      <3>4. g \in Fifos /\ g.ram = fifo.ram /\ g.wr = fifo.wr /\ g.rd = Onward(fifo.rd)
        BY <3>1, <3>3 DEF Fifos
      <3> HIDE DEF g
      <3> QED BY <3>1, <3>4, Popped
    <2> QED BY <2>1 DEF Sending
  <1>5. (IF txwr THEN <<txdata>> \o Tail(Contents(fifo)) ELSE Contents(fifo)) = Contents(fifo)
    <2>1. ASSUME txwr PROVE <<txdata>> \o Tail(Contents(fifo)) = Contents(fifo)
      <3> DEFINE c == Contents(fifo)
      <3>1. c \in Seq(Bytes) /\ c # <<>> /\ Head(c) = txdata BY <1>3, <1>4, <2>1
      <3> HIDE DEF c
      <3>2. c = <<Head(c)>> \o Tail(c) BY <3>1, HeadAndTail
      <3> QED BY <3>1, <3>2 DEF c
    <2> QED BY <2>1
  <1>6. Pending = ((InBuffer \o Contents(fifo)) \o Coming) \o OnBus
    BY <1>5 DEF Pending, InBuffer, Coming, OnBus
  <1> DEFINE a == InBuffer
             c == Contents(fifo)
             d == Coming
             b == OnBus
  <1> HIDE DEF a, c, d, b
  <1>7. a \in Seq(Bytes) /\ c \in Seq(Bytes) /\ d \in Seq(Bytes) /\ b \in Seq(Bytes)
    BY <1>1, <1>2, <1>3 DEF a, b, c, d
  <1>8. a \o c \in Seq(Bytes) /\ d \o b \in Seq(Bytes) /\ c \o (d \o b) \in Seq(Bytes)
        /\ a \o (c \o (d \o b)) \in Seq(Bytes)
    BY <1>7, ConcatProperties
  <1>9. ((a \o c) \o d) \o b = (a \o c) \o (d \o b)
    BY <1>7, <1>8, ConcatAssociative
  <1>10. (a \o c) \o (d \o b) = a \o (c \o (d \o b))
    BY <1>7, <1>8, ConcatAssociative
  <1>11. Pending = a \o (c \o (d \o b))
    BY <1>6, <1>9, <1>10 DEF a, b, c, d
  <1> QED BY <1>1, <1>2, <1>3, <1>4, <1>8, <1>11 DEF a, b, c, d, Parts

\* An edge takes the first byte of the FIFO, if the transmitter has asked for it, and
\* adds the byte that has come from the bus.
LEMMA FifoMoves ==
    ASSUME PoliteHost, IInv, TypeOK, NEW tick, NEW suspend, Transmit(tick, suspend)
    PROVE  Contents(fifo') = (IF txwr THEN Tail(Contents(fifo)) ELSE Contents(fifo)) \o Coming
  <1>1. /\ fifo \in Fifos /\ txc = FALSE /\ txwr \in BOOLEAN /\ txfifowr \in BOOLEAN
        /\ txfifowdat \in Bytes
        /\ txwr => ~FifoEmpty(fifo)
        /\ txfifowr => ~FifoFull(fifo)
    BY DEF IInv, Base, Room, PopSafe
  <1> DEFINE f == [fifo EXCEPT !.rd = IF txwr THEN Onward(fifo.rd) ELSE fifo.rd]
             g == [f EXCEPT !.ram = [f.ram EXCEPT ![f.wr] = txfifowdat], !.wr = Onward(f.wr)]
  <1>2. fifo.rd \in Addresses /\ fifo.wr \in Addresses /\ fifo.ram \in [Addresses -> Bytes]
    BY <1>1 DEF Fifos
  <1>3. Onward(fifo.rd) \in Addresses /\ Onward(fifo.wr) \in Addresses
    BY <1>2, OnwardType
  <1>4. /\ f \in Fifos /\ f.ram = fifo.ram /\ f.wr = fifo.wr
        /\ f.rd = IF txwr THEN Onward(fifo.rd) ELSE fifo.rd
    BY <1>1, <1>2, <1>3 DEF Fifos
  <1>5. Contents(f) = IF txwr THEN Tail(Contents(fifo)) ELSE Contents(fifo)
    <2>1. CASE txwr
      <3>1. f \in Fifos /\ f.ram = fifo.ram /\ f.wr = fifo.wr /\ f.rd = Onward(fifo.rd)
        BY <1>4, <2>1
      <3> HIDE DEF f
      <3> QED BY <1>1, <2>1, <3>1, Popped
    <2>2. CASE ~txwr
      <3>1. f = fifo BY <1>1, <2>2 DEF Fifos
      <3> QED BY <2>2, <3>1
    <2> QED BY <2>1, <2>2
  <1> HIDE DEF f
  <1>6. Contents(f) \in Seq(Bytes)
    BY <1>4, ContentsAre
  <1>7. CASE txfifowr
    <2>1. ~FifoFull(f)
      <3>1. fifo.rd # Onward(fifo.wr) BY <1>1, <1>7 DEF FifoFull
      <3>2. txwr => Onward(fifo.rd) # Onward(fifo.wr)
        BY <1>1, <1>2, OnwardInjective DEF FifoEmpty
      <3> QED BY <1>4, <3>1, <3>2 DEF FifoFull
    <2>2. /\ g \in Fifos /\ g.ram = [f.ram EXCEPT ![f.wr] = txfifowdat] /\ g.wr = Onward(f.wr)
          /\ g.rd = f.rd
      <3>1. [f.ram EXCEPT ![f.wr] = txfifowdat] \in [Addresses -> Bytes] /\ Onward(f.wr) \in Addresses
        BY <1>1, <1>2, <1>3, <1>4
      <3> QED BY <1>4, <3>1 DEF Fifos
    <2>3. fifo' = g
      <3>1. fifo' = FifoNext(fifo, FALSE, TRUE, txfifowdat, txwr)
        BY <1>1, <1>7 DEF Transmit
      <3>2. fifo' = [ram |-> [fifo.ram EXCEPT ![fifo.wr] = txfifowdat],
                     rd |-> IF txwr THEN Onward(fifo.rd) ELSE fifo.rd, wr |-> Onward(fifo.wr)]
        BY <3>1 DEF FifoNext
      <3> HIDE DEF g
      <3>3. g = [ram |-> [fifo.ram EXCEPT ![fifo.wr] = txfifowdat],
                 rd |-> IF txwr THEN Onward(fifo.rd) ELSE fifo.rd, wr |-> Onward(fifo.wr)]
        BY <1>4, <2>2 DEF Fifos
      <3> QED BY <3>2, <3>3
    <2> HIDE DEF g
    <2>4. Contents(g) = Contents(f) \o <<txfifowdat>>
      BY <1>1, <1>4, <2>1, <2>2, Pushed
    <2> QED BY <1>5, <1>7, <2>3, <2>4 DEF Coming
  <1>8. CASE ~txfifowr
    <2>1. fifo' = FifoNext(fifo, FALSE, FALSE, txfifowdat, txwr)
      BY <1>1, <1>8 DEF Transmit
    <2>2. fifo' = [ram |-> fifo.ram, rd |-> IF txwr THEN Onward(fifo.rd) ELSE fifo.rd, wr |-> fifo.wr]
      BY <2>1 DEF FifoNext
    <2>3. fifo' = f BY <1>4, <2>2 DEF Fifos
    <2>4. Contents(f) \o <<>> = Contents(f) BY <1>6, ConcatEmptySeq
    <2> QED BY <1>5, <1>8, <2>3, <2>4 DEF Coming
  <1> QED BY <1>1, <1>7, <1>8

\* What the bus brings.
LEMMA BusMoves ==
    ASSUME Registers, BusOK'
    PROVE  Coming' = OnBus /\ OnBus' \in Queue!Written
  <1>1. Coming' = OnBus
    BY DEF Registers, Coming, OnBus
  <1>2. Into("R56")' => write'[2] \in Bytes
    BY WriteDataNext
  <1> QED
    BY <1>1, <1>2 DEF OnBus, Queue!Written

LEMMA SendingStays ==
    ASSUME PoliteHost, IInv, IInv', TypeOK, Sending, NEW tick \in BOOLEAN, NEW suspend \in BOOLEAN,
           Transmit(tick, suspend), rstcmd' \in BOOLEAN
    PROVE  Sending'
  <1>1. rstcmd' => ~frame'.EXDATA /\ ~txwr' /\ frame'.SFTBUF = Zero /\ frame'.BITCNT = 0
    BY DEF Transmit, InReset, FrameReset
  <1>2. ASSUME txwr' PROVE txdata' = FifoHead(fifo')
    <2>1. Pops /\ ~InReset /\ ~txwr /\ fifo.rd # fifo.wr
      BY <1>2 DEF Transmit, Pops, BufEmp, FifoEmpty
    <2>2. txdata' = FifoHead(fifo) BY <2>1 DEF Transmit
    <2>3. /\ fifo' = FifoNext(fifo, FALSE, txfifowr, txfifowdat, FALSE) /\ fifo \in Fifos
      BY <2>1 DEF Transmit, IInv, Base
    <2>4. fifo'.rd = fifo.rd /\ fifo'.ram[fifo.rd] = fifo.ram[fifo.rd]
      <3>1. fifo.rd \in Addresses /\ fifo.wr \in Addresses /\ fifo.ram \in [Addresses -> Bytes]
        BY <2>3 DEF Fifos
      <3> QED BY <2>1, <2>3, <3>1 DEF FifoNext
    <2> QED BY <2>2, <2>4 DEF FifoHead
  <1> QED BY <1>1, <1>2 DEF Sending

LEMMA PartsNext == IInv' /\ TypeOK' /\ Sending' => Parts'
  <1>1. (IInv /\ TypeOK /\ Sending => Parts)'
    BY PendingIs, PTL
  <1> QED BY <1>1

\* Every edge does what the queue may do.
LEMMA QueueStep ==
    ASSUME PoliteHost, IInv, IInv', TypeOK, TypeOK', Sending, [Next]_vars
    PROVE  Sending' /\ (Queue!QNext \/ UNCHANGED <<Pending, frame.SFTBUF, frame.BITCNT, rstcmd>>)
  <1>1. CASE UNCHANGED vars
    <2>1. Sending'
      BY <1>1 DEF vars, regVars, resetVars, sendVars, Sending, FifoHead
    <2>2. UNCHANGED <<Pending, frame.SFTBUF, frame.BITCNT, rstcmd>>
      BY <1>1 DEF vars, busVars, regVars, resetVars, sendVars, Pending, Contents, FifoLen, Into
    <2> QED BY <2>1, <2>2
  <1>2. CASE Next
    <2>1. PICK sftm \in BOOLEAN, tick \in BOOLEAN, suspend \in BOOLEAN :
              Registers /\ Transmit(tick, suspend)
      BY <1>2 DEF Next, Edge
    <2>2. rstcmd \in BOOLEAN /\ rstcmd' \in BOOLEAN /\ BusOK' /\ frame \in Frames /\ txwr \in BOOLEAN
      BY DEF TypeOK, RegOK, SendOK
    <2>3. Sending'
      BY <2>1, <2>2, SendingStays
    <2> DEFINE a == InBuffer
               c == Contents(fifo)
               d == Coming
               b == OnBus
               rest == c \o (d \o b)
    <2>4. Parts /\ Parts'
      BY <2>3, PendingIs, PartsNext
    <2>5. d' = b /\ b' \in Queue!Written
      BY <2>1, <2>2, BusMoves
    <2>18. PICK new \in Queue!Written : new = b'
      BY <2>5
    <2>6. c' = (IF txwr THEN Tail(c) ELSE c) \o d
      BY <2>1, FifoMoves
    <2>7. /\ a \in Seq(Bytes) /\ c \in Seq(Bytes) /\ d \in Seq(Bytes) /\ b \in Seq(Bytes)
          /\ b' \in Seq(Bytes) /\ a' \in Seq(Bytes)
          /\ Pending = a \o rest /\ Pending' = a' \o (c' \o (d' \o b'))
          /\ txwr => c # <<>> /\ Head(c) = txdata
      BY <2>4 DEF Parts
    <2>8. /\ a = IF frame.EXDATA THEN <<frame.NXTBUF>> ELSE <<>>
          /\ a' = IF frame'.EXDATA THEN <<frame'.NXTBUF>> ELSE <<>>
          /\ txwr => ~frame.EXDATA
      BY DEF InBuffer, IInv, PopSafe
    <2> HIDE DEF a, c, d, b, rest
    <2>0. new \in Seq(Bytes) /\ new = b' BY <2>7, <2>18
    <2>19. /\ a \in Seq(Bytes) /\ c \in Seq(Bytes) /\ d \in Seq(Bytes) /\ b \in Seq(Bytes)
           /\ new \in Seq(Bytes)
      BY <2>0, <2>7
    <2>9. /\ rest = c \o (d \o b) /\ rest \in Seq(Bytes) /\ d \o b \in Seq(Bytes)
      BY <2>7, ConcatProperties DEF rest
    <2>20. rest \in Seq(Bytes) /\ d \o b \in Seq(Bytes) BY <2>9
    <2>10. txwr => /\ rest # <<>> /\ Head(rest) = txdata /\ Tail(rest) = Tail(c) \o (d \o b)
                   /\ Tail(c) \in Seq(Bytes) /\ Tail(rest) \in Seq(Bytes)
      <3>1. ASSUME txwr PROVE /\ rest # <<>> /\ Head(rest) = txdata
                              /\ Tail(rest) = Tail(c) \o (d \o b) /\ Tail(c) \in Seq(Bytes)
        BY <2>7, <2>9, <3>1, Behind, HeadTailProperties
      <3>2. ASSUME txwr PROVE Tail(rest) \in Seq(Bytes)
        BY <2>9, <3>1, <3>2, HeadTailProperties
      <3> QED BY <3>1, <3>2
    \* what is behind the transmitter after the edge: what was, less the byte it took
    <2>11. c' \o (d' \o b') = (IF txwr THEN Tail(rest) ELSE rest) \o new
      <3> DEFINE u == IF txwr THEN Tail(c) ELSE c
      <3>1. u \in Seq(Bytes) BY <2>7, <2>10
      <3>2. c' = u \o d /\ d' = b BY <2>5, <2>6
      <3> HIDE DEF u
      <3>3. b \o new \in Seq(Bytes) BY <2>0, <2>7, ConcatProperties
      <3>4. (u \o d) \o (b \o new) = u \o (d \o (b \o new))
        BY <2>19, <3>1, <3>3, Grouping
      <3>5. d \o (b \o new) = (d \o b) \o new
        BY <2>19, Grouping
      <3>6. u \o ((d \o b) \o new) = (u \o (d \o b)) \o new
        BY <2>19, <2>20, <3>1, Grouping
      <3>7. u \o (d \o b) = IF txwr THEN Tail(rest) ELSE rest
        BY <2>9, <2>10 DEF u
      <3> QED BY <2>0, <3>2, <3>4, <3>5, <3>6, <3>7
    <2> DEFINE kept == IF txwr THEN Tail(rest) ELSE rest
    <2>12. Pending' = a' \o (kept \o new) /\ kept \in Seq(Bytes)
      BY <2>0, <2>7, <2>9, <2>10, <2>11
    <2> HIDE DEF kept
    <2>13. kept \o new \in Seq(Bytes) /\ <<>> \o (kept \o new) = kept \o new
      BY <2>0, <2>7, <2>12, ConcatProperties, ConcatEmptySeq
    <2>14. ~frame.EXDATA => Pending = rest
      BY <2>7, <2>8, <2>9, ConcatEmptySeq
    <2>15. frame.EXDATA => Pending # <<>> /\ Head(Pending) = frame.NXTBUF /\ Tail(Pending) = rest /\ kept = rest
      <3>1. ASSUME frame.EXDATA
            PROVE  /\ Pending # <<>> /\ Head(Pending) = frame.NXTBUF /\ Tail(Pending) = rest
          /\ kept = rest
        <4>1. a = <<frame.NXTBUF>> /\ a # <<>> /\ Head(a) = frame.NXTBUF /\ Tail(a) = <<>>
          BY <2>8, <3>1
        <4>2. <<>> \o rest = rest BY <2>9, ConcatEmptySeq
        <4>3. kept = rest BY <2>2, <2>8, <3>1 DEF kept
        <4>4. Pending = a \o rest /\ a \in Seq(Bytes) /\ rest \in Seq(Bytes) BY <2>7, <2>9
        <4>5. Pending # <<>> /\ Head(Pending) = Head(a) /\ Tail(Pending) = Tail(a) \o rest
          BY <4>1, <4>4, Behind
        <4> QED BY <4>1, <4>2, <4>3, <4>5
      <3> QED BY <3>1
    <2>16. CASE InReset
      <3>1. ~frame'.EXDATA /\ frame'.SFTBUF = Zero /\ frame'.BITCNT = 0
        BY <2>1, <2>16 DEF Transmit, FrameReset
      <3>2. Pending' = kept \o new BY <2>8, <2>12, <2>13, <3>1
      \* the reset begins: it cuts the frame and costs what the transmitter holds
      <3>3. CASE rstcmd' /\ ~rstcmd
        <4>1. Pending' = Pending \o new \/ (Pending # <<>> /\ Pending' = Tail(Pending) \o new)
          <5>1. CASE frame.EXDATA BY <2>15, <3>2, <5>1
          <5>2. CASE ~frame.EXDATA /\ txwr BY <2>10, <2>14, <3>2, <5>2 DEF kept
          <5>3. CASE ~frame.EXDATA /\ ~txwr BY <2>14, <3>2, <5>3 DEF kept
          <5> QED BY <5>1, <5>2, <5>3
        <4>2. Queue!Cut(new) BY <3>1, <3>3, <4>1 DEF Queue!Cut
        <4> QED BY <2>2, <2>3, <2>18, <4>2 DEF Queue!QNext
      \* it goes on or ends: there is nothing left in the transmitter
      <3>4. CASE rstcmd
        <4>1. ~frame.EXDATA /\ ~txwr /\ frame.SFTBUF = Zero /\ frame.BITCNT = 0
          BY <3>4 DEF Sending
        <4>2. Pending' = Pending \o new BY <2>14, <3>2, <4>1 DEF kept
        <4>3. Queue!Put(new) BY <3>1, <4>1, <4>2 DEF Queue!Put
        <4> QED BY <2>2, <2>3, <2>18, <4>3 DEF Queue!QNext
      <3> QED BY <2>2, <2>16, <3>3, <3>4 DEF InReset
    <2>17. CASE ~InReset
      <3>1. frame' = FrameNext(frame, txwr, txdata, tick, suspend)
        BY <2>1, <2>17 DEF Transmit
      <3>5. frame.BITCNT \in Int BY <2>2, FrameAssumption DEF Frames
      <3>6. ASSUME ~Starts(frame, tick, suspend)
            PROVE  frame'.BITCNT = frame.BITCNT
                   \/ (frame.BITCNT > 0 /\ frame'.BITCNT = frame.BITCNT - 1)
        BY <3>1, <3>5, <3>6 DEF FrameNext
      <3>2. CASE txwr
        <4>1. frame'.EXDATA /\ frame'.NXTBUF = txdata /\ frame'.SFTBUF = frame.SFTBUF
          BY <2>2, <2>8, <3>1, <3>2 DEF FrameNext, Starts
        <4>2. Pending' = <<txdata>> \o (Tail(rest) \o new)
          BY <2>8, <2>12, <3>2, <4>1 DEF kept
        <4>3. <<txdata>> \o (Tail(rest) \o new) = (<<txdata>> \o Tail(rest)) \o new
          <5>1. <<txdata>> \in Seq(Bytes) BY DEF TypeOK, SendOK
          <5> QED BY <2>19, <2>10, <3>2, <5>1, Grouping
        <4>4. <<txdata>> \o Tail(rest) = rest
          BY <2>9, <2>10, <3>2, HeadAndTail
        <4>5. Pending' = Pending \o new
          BY <2>8, <2>14, <3>2, <4>2, <4>3, <4>4
        <4>6. ~Starts(frame, tick, suspend) BY <2>8, <3>2 DEF Starts
        <4>7. Queue!Put(new) BY <3>6, <4>1, <4>5, <4>6 DEF Queue!Put
        <4> QED BY <2>2, <2>3, <2>18, <4>7 DEF Queue!QNext
      <3>3. CASE ~txwr /\ Starts(frame, tick, suspend)
        <4>1. /\ frame.EXDATA /\ ~frame'.EXDATA /\ frame'.SFTBUF = frame.NXTBUF
              /\ frame.BITCNT = 0 /\ frame'.BITCNT = FrameBits
          BY <3>1, <3>3 DEF FrameNext, Starts
        <4>2. Pending' = kept \o new BY <2>8, <2>12, <2>13, <4>1
        <4>3. Queue!Send(new) BY <2>15, <4>1, <4>2 DEF Queue!Send
        <4> QED BY <2>2, <2>3, <2>18, <4>3 DEF Queue!QNext
      <3>4. CASE ~txwr /\ ~Starts(frame, tick, suspend)
        <4>1. frame'.EXDATA = frame.EXDATA /\ frame'.NXTBUF = frame.NXTBUF /\ frame'.SFTBUF = frame.SFTBUF
          BY <2>2, <3>1, <3>4 DEF FrameNext, Frames
        <4>2. a' = a /\ kept = rest BY <2>8, <3>4, <4>1 DEF kept
        <4>3. a \o (rest \o new) = (a \o rest) \o new
          <5>1. a \in Seq(Bytes) /\ rest \in Seq(Bytes) /\ new \in Seq(Bytes) BY <2>19, <2>20
          <5> QED BY <5>1, Grouping
        <4>4. Pending' = Pending \o new BY <2>7, <2>12, <4>2, <4>3
        <4>5. Queue!Put(new) BY <3>4, <3>6, <4>1, <4>4 DEF Queue!Put
        <4> QED BY <2>2, <2>3, <2>18, <4>5 DEF Queue!QNext
      <3> QED BY <2>2, <3>2, <3>3, <3>4
    <2> QED BY <2>3, <2>16, <2>17
  <1> QED BY <1>1, <1>2

LEMMA QueueInit == PoliteHost /\ Init => Sending /\ Queue!QInit
  <1> SUFFICES ASSUME PoliteHost, Init PROVE Sending /\ Queue!QInit
    OBVIOUS
  <1>1. /\ txwr = FALSE /\ rstcmd = FALSE /\ txfifowr = FALSE /\ datwr = FALSE
        /\ frame = FrameReset(Zero)
    BY DEF Init
  <1>2. PICK byte \in Bytes : fifo = FifoReset([a \in Addresses |-> byte])
    BY DEF Init
  <1>3. fifo.rd = 0 /\ fifo.wr = 0 BY <1>2 DEF FifoReset
  <1>4. FifoLen(fifo) = 0 BY <1>3 DEF FifoLen
  <1>5. Contents(fifo) = <<>> BY <1>4 DEF Contents
  <1>6. frame.EXDATA = FALSE /\ frame.SFTBUF = Zero /\ frame.BITCNT = 0 BY <1>1 DEF FrameReset
  <1>7. Pending = <<>> BY <1>1, <1>5, <1>6 DEF Pending, Into
  <1> QED BY <1>1, <1>6, <1>7 DEF Sending, Queue!QInit

\* The bytes the host writes go out in their order, each once and to its last bit; the
\* begin of a chip reset cuts the frame on the line and costs the byte next to go out
\* at most. The chip implements ByteQueue for any bytes, ring, frame length and
\* interrupts, if the host looks at R54 before it writes and does not clear the FIFO.
THEOREM KeepsQueue == PoliteHost /\ Spec => BytesInOrder
  <1> SUFFICES ASSUME PoliteHost PROVE Spec => BytesInOrder
    OBVIOUS
  <1> DEFINE Well == IInv /\ TypeOK /\ Sending
  <1>1. Init => Well /\ Queue!QInit
    BY InitInv, TypeInit, QueueInit
  <1>2. Well /\ [Next]_vars => Well' /\ [Queue!QNext]_Queue!qvars
    <2> SUFFICES ASSUME Well, [Next]_vars PROVE Well' /\ [Queue!QNext]_Queue!qvars
      OBVIOUS
    <2>1. IInv' BY StepInv
    <2>2. TypeOK' BY TypeNext
    <2> QED BY <2>1, <2>2, QueueStep DEF Queue!qvars
  <1> HIDE DEF Well
  <1> QED BY <1>1, <1>2, PTL DEF Spec, BytesInOrder, Queue!QSpec
=============================================================================
