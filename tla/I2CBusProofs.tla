---------------------------- MODULE I2CBusProofs ----------------------------
(***************************************************************************)
(* The I2C bus for any number of drivers.                                   *)
(*                                                                          *)
(* That it has one holder rests on the registers of the arbiter and of the    *)
(* proxies alone (Inv), whatever the drivers and the interface do.           *)
(*                                                                          *)
(* That its bytes have one owner needs the drivers too: each stands where its *)
(* proxy lets it stand (Abreast), the arbiter has a connection open only to a *)
(* proxy that holds the bus or gave it back with the interface idle           *)
(* (Selected), and only a hasty driver's first byte meets a connection that    *)
(* has not been closed yet (Patient). The interface is then never busy with    *)
(* any other driver's byte (Wires). No driver may give up for this.           *)
(***************************************************************************)
EXTENDS I2CBus, TLAPS

ProxyStates == {"IDLE", "REQ", "BUSY", "FIN"}

ArbiterOK ==
    /\ mux \in {"IDLE", "START", "GRANT", "BUSY"}
    /\ sel \in Drivers
    /\ gnt \in [Drivers -> BOOLEAN]
    /\ px \in [Drivers -> ProxyStates]

\* A grant stands only in IS_GRANT, and for the driver selected.
GrantToSelected == \A i \in Drivers : gnt[i] => i = sel /\ mux = "GRANT"

\* The proxy that holds the bus is the selected one, from IS_GRANT on.
HolderSelected == \A i \in Drivers : BusAck(i) => i = sel /\ mux \in {"GRANT", "BUSY"}

Inv == ArbiterOK /\ GrantToSelected /\ HolderSelected

-----------------------------------------------------------------------------
\* What the proxies do in one step, as the arbiter sees it: one acknowledges only
\* if it did before or has been granted the bus.
LEMMA ProxyStep ==
    ASSUME ArbiterOK, Proxies
    PROVE  /\ px' \in [Drivers -> ProxyStates]
           /\ \A i \in Drivers : BusAck(i)' => BusAck(i) \/ gnt[i]
<1>1. \A i \in Drivers : px'[i] = ProxyNext(i)
  BY DEF Proxies
<1>2. ASSUME NEW i \in Drivers
      PROVE  ProxyNext(i) \in ProxyStates /\ (ProxyNext(i) \in {"BUSY", "FIN"} => BusAck(i) \/ gnt[i])
  <2>1. px[i] \in ProxyStates
    BY DEF ArbiterOK
  <2>2. CASE px[i] = "IDLE" BY <2>2 DEF ProxyNext, ProxyStates
  <2>3. CASE px[i] = "REQ"  BY <2>3 DEF ProxyNext, ProxyStates
  <2>4. CASE px[i] = "BUSY" BY <2>4 DEF ProxyNext, ProxyStates, BusAck
  <2>5. CASE px[i] = "FIN"  BY <2>5 DEF ProxyNext, ProxyStates, BusAck
  <2>. QED BY <2>1, <2>2, <2>3, <2>4, <2>5 DEF ProxyStates
<1>3. px' \in [Drivers -> ProxyStates]
  BY <1>2 DEF Proxies
<1>4. \A i \in Drivers : BusAck(i)' => BusAck(i) \/ gnt[i]
  BY <1>1, <1>2 DEF BusAck
<1>. QED BY <1>3, <1>4

\* The arbiter's registers keep their types.
LEMMA ArbiterStep ==
    ASSUME ArbiterOK, Arbiter
    PROVE  /\ mux' \in {"IDLE", "START", "GRANT", "BUSY"}
           /\ sel' \in Drivers
           /\ gnt' \in [Drivers -> BOOLEAN]
<1>1. CASE MuxIdle  BY <1>1 DEF MuxIdle, ArbiterOK
<1>2. CASE MuxStart BY <1>2 DEF MuxStart, ArbiterOK
<1>3. CASE MuxGrant BY <1>3 DEF MuxGrant, ArbiterOK
<1>4. CASE MuxBusy  BY <1>4 DEF MuxBusy, ArbiterOK
<1>. QED BY <1>1, <1>2, <1>3, <1>4 DEF Arbiter

-----------------------------------------------------------------------------
LEMMA InvInit == BusInit => Inv
<1>. SUFFICES ASSUME BusInit PROVE Inv
  OBVIOUS
<1>1. 0 \in Drivers
  BY NAssumption DEF Drivers
<1>. QED BY <1>1 DEF BusInit, Inv, ArbiterOK, ProxyStates, GrantToSelected, HolderSelected, BusAck

LEMMA InvNext == Inv /\ [Next]_vars => Inv'
<1>. SUFFICES ASSUME Inv, [Next]_vars PROVE Inv'
  OBVIOUS
<1>1. CASE Next
  <2>1. Arbiter /\ Proxies
    BY <1>1 DEF Next, Arbiter, Others
  <2>2. ArbiterOK'
    BY <2>1, ProxyStep, ArbiterStep DEF Inv, ArbiterOK
  <2>3. \A i \in Drivers : BusAck(i)' => BusAck(i) \/ gnt[i]
    BY <2>1, ProxyStep DEF Inv
  <2>4. CASE MuxIdle
    \* no grant and no holder: none after the step
    <3>1. \A i \in Drivers : ~gnt'[i]
      BY <2>4 DEF MuxIdle
    <3>2. \A i \in Drivers : ~BusAck(i)'
      BY <2>3, <2>4 DEF MuxIdle, Inv, GrantToSelected, HolderSelected
    <3>. QED BY <2>2, <3>1, <3>2 DEF Inv, GrantToSelected, HolderSelected
  <2>5. CASE MuxStart
    \* the only grant is the one now given
    <3>1. \A i \in Drivers : gnt'[i] => i = sel' /\ mux' = "GRANT"
      BY <2>5 DEF MuxStart, Inv, ArbiterOK, GrantToSelected
    <3>2. \A i \in Drivers : ~BusAck(i)'
      BY <2>3, <2>5 DEF MuxStart, Inv, GrantToSelected, HolderSelected
    <3>. QED BY <2>2, <3>1, <3>2 DEF Inv, GrantToSelected, HolderSelected
  <2>6. CASE MuxGrant
    \* a holder held the bus before or was granted it: the selected one
    <3>1. \A i \in Drivers : gnt'[i] => i = sel' /\ mux' = "GRANT"
      BY <2>6 DEF MuxGrant, Inv, ArbiterOK, GrantToSelected
    <3>2. \A i \in Drivers : BusAck(i)' => i = sel' /\ mux' \in {"GRANT", "BUSY"}
      BY <2>3, <2>6 DEF MuxGrant, Inv, GrantToSelected, HolderSelected
    <3>. QED BY <2>2, <3>1, <3>2 DEF Inv, GrantToSelected, HolderSelected
  <2>7. CASE MuxBusy
    \* no grant stands, so a holder is the one that held the bus before
    <3>1. \A i \in Drivers : ~gnt[i] /\ ~gnt'[i]
      BY <2>7 DEF MuxBusy, Inv, GrantToSelected
    <3>2. \A i \in Drivers : BusAck(i)' => i = sel' /\ mux' = "BUSY"
      BY <2>3, <2>7, <3>1 DEF MuxBusy, Inv, HolderSelected
    <3>. QED BY <2>2, <3>1, <3>2 DEF Inv, GrantToSelected, HolderSelected
  <2>. QED BY <2>1, <2>4, <2>5, <2>6, <2>7 DEF Arbiter
<1>2. CASE UNCHANGED vars
  BY <1>2 DEF vars, Inv, ArbiterOK, GrantToSelected, HolderSelected, BusAck
<1>. QED BY <1>1, <1>2

-----------------------------------------------------------------------------
\* At most one driver holds the bus at any time, and it is the one the arbiter has
\* selected (the handshake of BUSREQ, BUSGNT and BUSACK between I2C_MUX and
\* I2C_MUX_PROXY).
THEOREM OneHolder == Spec => []GrantExclusive
<1>1. Inv => GrantExclusive
  BY DEF Inv, HolderSelected, GrantExclusive
<1>. QED BY <1>1, InvInit, InvNext, PTL DEF Spec
-----------------------------------------------------------------------------
(* The types of all the registers.                                          *)

Pcs == {"IDLE", "ADDR", "REGNUM", "WRITE_DATA", "WRITE_FIN", "READ_START", "READ_DATA", "READ_FIN"}
Driver == [pc : Pcs, read : BOOLEAN, more : BOOLEAN, wr : BOOLEAN, rd : BOOLEAN,
           start : BOOLEAN, finish : BOOLEAN, restart : BOOLEAN, nx : BOOLEAN, init : BOOLEAN]
ByteStates == {"IDLE", "WAITBUS", "BYTE", "RXDAT", "RDWAIT", "STOP"}
Byte == [s : ByteStates, txemp : BOOLEAN, rxfull : BOOLEAN, noack : BOOLEAN, initting : BOOLEAN,
         of : Drivers, first : BOOLEAN, started : BOOLEAN]

Typed == ArbiterOK /\ drv \in [Drivers -> Driver] /\ i2c \in Byte

\* Each driver does what one whim of its makes it do.
LEMMA Whimsical ==
    ASSUME DriversStep
    PROVE  /\ drv' = [i \in Drivers |-> drv'[i]]
           /\ \A i \in Drivers :
                \E w \in Whims : drv'[i] = DriverNext(i, w) /\ (w \in Ends => i \in Quitters)
<1>1. PICK whim \in [Choosers -> Whims] :
        /\ \A i \in Choosers : whim[i] \in Ends => i \in Quitters
        /\ drv' = [i \in Drivers |-> DriverNext(i, IF i \in Choosers THEN whim[i] ELSE "none")]
  BY DEF DriversStep
<1>2. ASSUME NEW i \in Drivers
      PROVE  \E w \in Whims : drv'[i] = DriverNext(i, w) /\ (w \in Ends => i \in Quitters)
  <2>1. CASE i \in Choosers
    <3>1. whim[i] \in Whims /\ (whim[i] \in Ends => i \in Quitters) BY <1>1, <2>1
    <3>2. drv'[i] = DriverNext(i, whim[i]) BY <1>1, <2>1
    <3>. QED BY <3>1, <3>2
  <2>2. CASE i \notin Choosers
    <3>1. "none" \in Whims /\ "none" \notin Ends BY DEF Whims, Ends
    <3>2. drv'[i] = DriverNext(i, "none") BY <1>1, <2>2
    <3>. QED BY <3>1, <3>2
  <2>. QED BY <2>1, <2>2
<1>. QED BY <1>1, <1>2

LEMMA WriteTyped ==
    ASSUME NEW d \in Driver, NEW pc \in Pcs, NEW start \in BOOLEAN, NEW restart \in BOOLEAN,
           NEW finish \in BOOLEAN
    PROVE  Write(d, pc, start, restart, finish) \in Driver
BY DEF Write, Driver

LEMMA DriverTyped ==
    ASSUME Typed, NEW i \in Drivers, NEW w \in Whims
    PROVE  DriverNext(i, w) \in Driver
<1>. DEFINE d == [drv[i] EXCEPT !.wr = FALSE, !.rd = FALSE, !.init = FALSE]
<1>1. d \in Driver /\ drv[i].pc = d.pc /\ d.pc \in Pcs
  BY DEF Typed, Driver
<1>2. Reset \in Driver
  BY DEF Reset, Driver, Pcs
<1>3. [d EXCEPT !.pc = "IDLE", !.init = TRUE] \in Driver
  BY <1>1 DEF Driver, Pcs
<1>4. GoesOn(i, d, w) \in Driver
  <2>. HIDE DEF d
  <2>1. CASE d.pc = "IDLE"
    <3>1. GoesOn(i, d, w) = Take(i, d, w) BY <2>1 DEF GoesOn
    <3>. DEFINE read == w \in Reads
                more == w \in {"read2", "write2"}
    <3>2. GoesOn(i, d, w) \in {d, [d EXCEPT !.pc = "ADDR", !.read = read, !.more = more]}
      BY <3>1 DEF Take
    <3>3. read \in BOOLEAN /\ more \in BOOLEAN OBVIOUS
    <3>. HIDE DEF read, more
    <3>. QED BY <1>1, <3>2, <3>3 DEF Driver, Pcs
  <2>2. CASE d.pc = "ADDR"
    <3>1. GoesOn(i, d, w) \in {d, Write(d, "REGNUM", TRUE, FALSE, FALSE)} BY <2>2 DEF GoesOn
    <3>. QED BY <1>1, <3>1, WriteTyped DEF Pcs
  <2>3. CASE d.pc = "REGNUM"
    <3>1. GoesOn(i, d, w) \in {d, Write(d, "READ_START", FALSE, FALSE, FALSE),
                               Write(d, "WRITE_DATA", FALSE, FALSE, FALSE)}
      BY <2>3 DEF GoesOn
    <3>. QED BY <1>1, <3>1, WriteTyped DEF Pcs
  <2>4. CASE d.pc = "WRITE_DATA"
    <3>. DEFINE e == [d EXCEPT !.more = FALSE]
    <3>1. e \in Driver BY <1>1 DEF Driver
    <3>2. GoesOn(i, d, w) \in {d, Write(e, "WRITE_DATA", FALSE, FALSE, FALSE),
                               Write(d, "WRITE_FIN", FALSE, FALSE, TRUE)}
      BY <2>4 DEF GoesOn
    <3>. HIDE DEF e
    <3>. QED BY <1>1, <3>1, <3>2, WriteTyped DEF Pcs
  <2>5. CASE d.pc = "WRITE_FIN"
    <3>1. GoesOn(i, d, w) \in {d, [d EXCEPT !.finish = FALSE, !.read = FALSE, !.pc = "ADDR"],
                               [d EXCEPT !.finish = FALSE, !.read = FALSE, !.pc = "IDLE"]}
      BY <2>5 DEF GoesOn
    <3>. QED BY <1>1, <3>1 DEF Driver, Pcs
  <2>6. CASE d.pc = "READ_START"
    <3>1. GoesOn(i, d, w) \in {d, Write(d, "READ_DATA", FALSE, TRUE, FALSE)} BY <2>6 DEF GoesOn
    <3>. QED BY <1>1, <3>1, WriteTyped DEF Pcs
  <2>7. CASE d.pc = "READ_DATA"
    <3>1. GoesOn(i, d, w) \in {d, Fetch(d)} BY <2>7 DEF GoesOn
    <3>. QED BY <1>1, <3>1 DEF Fetch, Driver, Pcs
  <2>8. CASE d.pc = "READ_FIN"
    <3>1. GoesOn(i, d, w) = [d EXCEPT !.finish = FALSE, !.pc = "IDLE"] BY <2>8 DEF GoesOn
    <3>. QED BY <1>1, <3>1 DEF Driver, Pcs
  <2>. QED BY <1>1, <2>1, <2>2, <2>3, <2>4, <2>5, <2>6, <2>7, <2>8 DEF Pcs
<1>. QED BY <1>2, <1>3, <1>4 DEF DriverNext

LEMMA ByteTyped ==
    ASSUME Typed, NEW sft \in BOOLEAN, Interface(sft)
    PROVE  i2c' \in Byte
<1>1. drv[sel] \in Driver /\ sel \in Drivers
  BY DEF Typed, ArbiterOK
<1>2. Accept \in Byte
  <2>1. Init \in BOOLEAN /\ Rd \in BOOLEAN /\ drv[sel].start \in BOOLEAN
    BY <1>1 DEF Init, Rd, Connected, Driver
  <2>2. i2c \in Byte BY DEF Typed
  <2>. DEFINE q == [i2c EXCEPT !.initting = @ \/ Init, !.rxfull = @ /\ ~Rd, !.noack = @ /\ ~Rd]
  <2>3. q \in Byte BY <2>1, <2>2 DEF Byte
  <2>4. Accept \in {q, [q EXCEPT !.s = "WAITBUS", !.txemp = FALSE, !.of = sel,
                               !.first = drv[sel].start, !.started = FALSE]}
    BY DEF Accept
  <2>. HIDE DEF q
  <2>. QED BY <1>1, <2>1, <2>3, <2>4 DEF Byte, ByteStates
<1>. DEFINE r == Accept
<1>. HIDE DEF r
<1>3. InitTick(r) \in Byte
  BY <1>2 DEF r, InitTick, Byte, ByteStates
<1>4. ASSUME NEW ack \in BOOLEAN PROVE Tick(r, ack) \in Byte
  <2>1. Restart \/ Start \in BOOLEAN
    BY <1>1 DEF Restart, Start, Connected, Driver
  <2>2. ASSUME NEW q \in Byte PROVE Emptied(q) \in Byte
    BY DEF Emptied, Byte, ByteStates
  <2>3. ASSUME NEW q \in Byte, NEW st \in ByteStates PROVE [q EXCEPT !.s = st] \in Byte
    BY DEF Byte
  <2>4. ASSUME NEW q \in Byte PROVE Acknowledged(q) \in Byte
    BY <2>2, <2>3 DEF Acknowledged, ByteStates
  <2>5. /\ [r EXCEPT !.s = "BYTE", !.started = Restart \/ Start] \in Byte
        /\ [r EXCEPT !.s = "STOP", !.noack = TRUE] \in Byte
        /\ [r EXCEPT !.noack = FALSE] \in Byte
        /\ [r EXCEPT !.s = "RDWAIT", !.rxfull = TRUE] \in Byte
    BY <1>2, <2>1 DEF r, Byte, ByteStates
  <2>6. r \in Byte BY <1>2 DEF r
  <2>. QED BY <2>2, <2>3, <2>4, <2>5, <2>6 DEF Tick, ByteStates
<1>. QED BY <1>2, <1>3, <1>4 DEF r, Interface

LEMMA TypedAlways == Spec => []Typed
<1>1. BusInit => Typed
  <2>1. BusInit => drv \in [Drivers -> Driver] /\ i2c \in Byte
    BY NAssumption DEF BusInit, Reset, Driver, Pcs, I2CReset, Byte, ByteStates, Drivers
  <2>. QED BY <2>1, InvInit DEF Inv, Typed
<1>2. Inv /\ Inv' /\ Typed /\ [Next]_vars => Typed'
  <2>. SUFFICES ASSUME Inv, Inv', Typed, [Next]_vars PROVE Typed'
    OBVIOUS
  <2>1. CASE Next
    <3>1. DriversStep /\ \E sft \in BOOLEAN : Interface(sft) BY <2>1 DEF Next, Others
    <3>2. i2c' \in Byte BY <3>1, ByteTyped
    <3>3. \A i \in Drivers : drv'[i] \in Driver BY <3>1, Whimsical, DriverTyped
    <3>4. drv' = [i \in Drivers |-> drv'[i]] BY <3>1, Whimsical
    <3>5. drv' \in [Drivers -> Driver] BY <3>3, <3>4
    <3>. QED BY <3>2, <3>5 DEF Typed, Inv
  <2>2. CASE UNCHANGED vars
    BY <2>2 DEF Typed, Inv, vars
  <2>. QED BY <2>1, <2>2
<1>. QED BY <1>1, <1>2, InvInit, InvNext, PTL DEF Spec

\* Every register keeps the values the code declares for it.
THEOREM Typing == Spec => []TypeOK
<1>1. Typed => TypeOK
  BY DEF Typed, ArbiterOK, ProxyStates, Byte, ByteStates, TypeOK
<1>. QED BY <1>1, TypedAlways, PTL

-----------------------------------------------------------------------------
(* Whose byte is on the wires, when no driver gives up.                      *)

\* A driver and its proxy: where they stand together.
Abreast(i) ==
    LET d == drv[i] IN
    /\ ~d.init
    /\ d.pc \in {"IDLE", "ADDR"} => px[i] \in {"IDLE", "FIN"} /\ ~d.wr /\ ~d.rd
    /\ d.pc = "ADDR" /\ i \notin Hasty => px[i] = "IDLE"
    /\ d.pc = "REGNUM" => /\ d.start /\ ~d.rd
                          /\ px[i] \in IF d.wr THEN {"IDLE"} ELSE {"REQ", "BUSY"}
    /\ d.pc \in {"WRITE_DATA", "READ_START"} => px[i] = "BUSY" /\ ~d.start /\ ~d.finish /\ ~d.rd
    /\ d.pc = "READ_DATA" => px[i] = "BUSY" /\ ~d.start /\ ~d.finish
    /\ d.pc = "WRITE_FIN" => /\ d.finish /\ ~d.start /\ ~d.rd
                             /\ px[i] = IF d.wr THEN "BUSY" ELSE "FIN"
    /\ d.pc = "READ_FIN" => px[i] = "BUSY" /\ d.rd /\ ~d.wr /\ d.finish

\* The arbiter and the proxy it has selected.
Selected ==
    /\ mux = "START" => px[sel] = "REQ" /\ i2c.s = "IDLE"
    /\ mux = "GRANT" => px[sel] \in {"REQ", "BUSY"}
    /\ mux = "BUSY" => px[sel] \in {"IDLE", "BUSY", "FIN"} /\ (px[sel] = "IDLE" => i2c.s = "IDLE")

\* A patient driver's first byte never meets its own open connection.
Patient == drv[sel].wr /\ drv[sel].start /\ mux \in {"GRANT", "BUSY"} => sel \in Hasty

\* The interface.
Wires ==
    /\ ~i2c.initting /\ (i2c.txemp <=> i2c.s = "IDLE") /\ (i2c.rxfull => i2c.s = "RDWAIT")
    /\ Wr => i2c.s = "IDLE"
    /\ i2c.s # "IDLE" => i2c.of = sel /\ (mux = "IDLE" => sel \in Hasty)
    /\ i2c.s = "WAITBUS" /\ i2c.first /\ sel \notin Hasty => mux \in {"GRANT", "BUSY"} /\ drv[sel].start
    /\ StartNotSkipped
    /\ \A i \in Drivers : drv[i].rd => sel = i /\ mux = "BUSY" /\ i2c.rxfull

Owned ==
    /\ Quitters = {} /\ Inv /\ Typed
    /\ (\A i \in Drivers : Abreast(i)) /\ Selected /\ Patient /\ Wires


\* What a driver's step may do to its registers.
LEMMA DriverMoves ==
    ASSUME Typed, NEW i \in Drivers, NEW w \in Whims, w \notin Ends, Abreast(i),
           drv'[i] = DriverNext(i, w), px'[i] = ProxyNext(i)
    PROVE  /\ Abreast(i)'
           /\ drv'[i].start = drv[i].start \/ TxEmpPxy(i)
           /\ drv'[i].wr => TxEmpPxy(i)
           /\ drv'[i].rd => RxEdPxy(i)
           /\ drv'[i].wr /\ drv'[i].start => drv[i].pc = "ADDR"
<1>. DEFINE d == [drv[i] EXCEPT !.wr = FALSE, !.rd = FALSE, !.init = FALSE]
            e == drv'[i]
<1>1. /\ drv[i] \in Driver /\ d \in Driver /\ px[i] \in ProxyStates
      /\ d.pc = drv[i].pc /\ d.start = drv[i].start /\ d.finish = drv[i].finish
      /\ ~d.wr /\ ~d.rd /\ ~d.init
  BY DEF Typed, ArbiterOK, Driver
<1>2. e = GoesOn(i, d, w)
  BY DEF DriverNext, Ends
<1>. HIDE DEF d
<1>3. CASE d.pc = "IDLE"
  <2>1. e = Take(i, d, w) BY <1>2, <1>3 DEF GoesOn
  <2>2. /\ e.pc \in {"IDLE", "ADDR"} /\ e.start = d.start /\ ~e.wr /\ ~e.rd /\ ~e.init
        /\ e.pc = "ADDR" /\ i \notin Hasty => px[i] = "IDLE"
    BY <1>1, <1>3, <2>1 DEF Take, Driver
  <2>3. px'[i] \in {"IDLE", "FIN"} /\ (px[i] = "IDLE" => px'[i] = "IDLE")
    BY <1>1, <1>3 DEF Abreast, ProxyNext
  <2>. QED BY <1>1, <2>2, <2>3 DEF Abreast
<1>4. CASE d.pc = "ADDR"
  <2>1. e = IF TxEmpPxy(i) THEN Write(d, "REGNUM", TRUE, FALSE, FALSE) ELSE d BY <1>2, <1>4 DEF GoesOn
  <2>2. CASE TxEmpPxy(i)
    <3>1. e.pc = "REGNUM" /\ e.start /\ e.wr /\ ~e.rd /\ ~e.init BY <1>1, <2>1, <2>2 DEF Write, Driver
    <3>2. px'[i] = "IDLE" BY <1>1, <1>4, <2>2 DEF Abreast, ProxyNext, TxEmpPxy
    <3>. QED BY <1>1, <1>4, <2>2, <3>1, <3>2 DEF Abreast
  <2>3. CASE ~TxEmpPxy(i)
    <3>1. px'[i] \in {"IDLE", "FIN"} /\ (px[i] = "IDLE" => px'[i] = "IDLE")
      BY <1>1, <1>4 DEF Abreast, ProxyNext
    <3>. QED BY <1>1, <1>4, <2>1, <2>3, <3>1 DEF Abreast
  <2>. QED BY <2>2, <2>3
<1>5. CASE d.pc = "REGNUM"
  <2>. DEFINE next == IF d.read THEN "READ_START" ELSE "WRITE_DATA"
  <2>1. e = IF TxEmpPxy(i) THEN Write(d, next, FALSE, FALSE, FALSE) ELSE d BY <1>2, <1>5 DEF GoesOn
  <2>2. CASE TxEmpPxy(i)
    <3>1. e.pc = next /\ ~e.start /\ ~e.finish /\ ~e.rd /\ ~e.init BY <1>1, <2>1, <2>2 DEF Write, Driver
    <3>2. px[i] = "BUSY" /\ ~drv[i].wr /\ ~drv[i].rd BY <1>1, <1>5, <2>2 DEF Abreast, TxEmpPxy
    <3>3. px'[i] = "BUSY" BY <3>2 DEF ProxyNext
    <3>. QED BY <2>2, <3>1, <3>3 DEF Abreast
  <2>3. CASE ~TxEmpPxy(i)
    <3>1. px'[i] \in {"REQ", "BUSY"} BY <1>1, <1>5 DEF Abreast, ProxyNext
    <3>. QED BY <1>1, <1>5, <2>1, <2>3, <3>1 DEF Abreast
  <2>. QED BY <2>2, <2>3
<1>6. CASE d.pc \in {"WRITE_DATA", "READ_START"}
  <2>1. px'[i] = "BUSY" BY <1>1, <1>6 DEF Abreast, ProxyNext
  <2>2. CASE ~TxEmpPxy(i)
    <3>1. e = d BY <1>2, <1>6, <2>2 DEF GoesOn
    <3>. QED BY <1>1, <1>6, <2>1, <3>1 DEF Abreast
  <2>3. CASE TxEmpPxy(i)
    <3>1. \E q \in Driver : \E pc \in {"WRITE_DATA", "WRITE_FIN", "READ_DATA"}, restart \in BOOLEAN :
             e = Write(q, pc, FALSE, restart, pc = "WRITE_FIN") /\ ~q.rd /\ ~q.init
      <4>1. [d EXCEPT !.more = FALSE] \in Driver /\ ~[d EXCEPT !.more = FALSE].rd
            /\ ~[d EXCEPT !.more = FALSE].init
        BY <1>1 DEF Driver
      <4>2. CASE d.pc = "WRITE_DATA"
        <5>1. e = IF d.more THEN Write([d EXCEPT !.more = FALSE], "WRITE_DATA", FALSE, FALSE, FALSE)
                            ELSE Write(d, "WRITE_FIN", FALSE, FALSE, TRUE)
          BY <1>2, <2>3, <4>2 DEF GoesOn
        <5>2. ("WRITE_DATA" = "WRITE_FIN") = FALSE /\ ("WRITE_FIN" = "WRITE_FIN") = TRUE OBVIOUS
        <5>. QED BY <1>1, <4>1, <5>1, <5>2
      <4>3. CASE d.pc = "READ_START"
        <5>1. e = Write(d, "READ_DATA", FALSE, TRUE, FALSE) BY <1>2, <2>3, <4>3 DEF GoesOn
        <5>2. ("READ_DATA" = "WRITE_FIN") = FALSE OBVIOUS
        <5>. QED BY <1>1, <5>1, <5>2
      <4>. QED BY <1>6, <4>2, <4>3
    <3>2. /\ e.pc \in {"WRITE_DATA", "WRITE_FIN", "READ_DATA"} /\ ~e.start /\ ~e.rd /\ ~e.init /\ e.wr
          /\ e.finish = (e.pc = "WRITE_FIN")
      BY <3>1 DEF Write, Driver
    <3>. QED BY <2>1, <2>3, <3>2 DEF Abreast
  <2>. QED BY <2>2, <2>3
<1>7. CASE d.pc = "WRITE_FIN"
  <2>1. e = IF TxEmpPxy(i)
            THEN [d EXCEPT !.finish = FALSE, !.read = FALSE, !.pc = IF w = "write" THEN "ADDR" ELSE "IDLE"]
            ELSE d
    BY <1>2, <1>7 DEF GoesOn
  <2>2. CASE TxEmpPxy(i)
    <3>1. e.pc \in {"IDLE", "ADDR"} /\ ~e.wr /\ ~e.rd /\ ~e.init /\ e.start = d.start
      BY <1>1, <2>1, <2>2 DEF Driver
    <3>2. px[i] = "FIN" /\ TxEmp BY <1>1, <1>7, <2>2 DEF Abreast, TxEmpPxy
    <3>3. px'[i] = "IDLE" BY <3>2 DEF ProxyNext
    <3>. QED BY <1>1, <3>1, <3>3 DEF Abreast
  <2>3. CASE ~TxEmpPxy(i)
    <3>1. px'[i] = "FIN" BY <1>1, <1>7, <2>3 DEF Abreast, ProxyNext, TxEmpPxy
    <3>. QED BY <1>1, <1>7, <2>1, <2>3, <3>1 DEF Abreast
  <2>. QED BY <2>2, <2>3
<1>8. CASE d.pc = "READ_DATA"
  <2>1. e = IF RxEdPxy(i) THEN Fetch(d) ELSE d BY <1>2, <1>8 DEF GoesOn
  <2>2. px'[i] = "BUSY" BY <1>1, <1>8 DEF Abreast, ProxyNext
  <2>3. CASE RxEdPxy(i)
    <3>1. /\ e.rd /\ e.start = d.start /\ ~e.wr /\ ~e.init /\ e.pc \in {"READ_DATA", "READ_FIN"}
          /\ e.finish = (e.pc = "READ_FIN")
      BY <1>1, <2>1, <2>3 DEF Fetch, Driver
    <3>. QED BY <1>1, <1>8, <2>2, <2>3, <3>1 DEF Abreast
  <2>4. CASE ~RxEdPxy(i) BY <1>1, <1>8, <2>1, <2>2, <2>4 DEF Abreast
  <2>. QED BY <2>3, <2>4
<1>9. CASE d.pc = "READ_FIN"
  <2>1. e = [d EXCEPT !.finish = FALSE, !.pc = "IDLE"] BY <1>2, <1>9 DEF GoesOn
  <2>2. e.pc = "IDLE" /\ ~e.wr /\ ~e.rd /\ ~e.init /\ e.start = d.start BY <1>1, <2>1 DEF Driver
  <2>3. px'[i] = "FIN" BY <1>1, <1>9 DEF Abreast, ProxyNext
  <2>. QED BY <1>1, <2>2, <2>3 DEF Abreast
<1>. QED BY <1>1, <1>3, <1>4, <1>5, <1>6, <1>7, <1>8, <1>9 DEF Driver, Pcs

\* What the interface does at an edge, the arbiter's registers left aside.
LEMMA WiresMove ==
    ASSUME Typed, Wires, NEW sft \in BOOLEAN, Interface(sft),
           \A i \in Drivers : ~drv[i].init
    PROVE  /\ ~i2c'.initting /\ (i2c'.txemp <=> i2c'.s = "IDLE") /\ (i2c'.rxfull => i2c'.s = "RDWAIT")
           /\ i2c.s = "IDLE" => i2c'.s = IF Wr THEN "WAITBUS" ELSE "IDLE"
           /\ i2c'.of = IF Wr THEN sel ELSE i2c.of
           /\ i2c'.first = IF Wr THEN drv[sel].start ELSE i2c.first
           /\ i2c.rxfull /\ ~Rd => i2c'.rxfull
           /\ i2c'.s = "WAITBUS" => Wr \/ i2c.s = "WAITBUS"
           /\ i2c'.s = "BYTE" => \/ i2c.s = "BYTE" /\ i2c'.started = i2c.started
                                 \/ i2c.s = "WAITBUS" /\ i2c'.started = (Restart \/ Start)
<1>. DEFINE r == Accept
<1>1. i2c \in Byte /\ drv[sel] \in Driver /\ ~Init
  BY DEF Typed, ArbiterOK, Init
<1>2. /\ r \in Byte /\ ~r.initting /\ (r.rxfull <=> i2c.rxfull /\ ~Rd)
      /\ IF Wr THEN i2c.s = "IDLE" /\ r.s = "WAITBUS" /\ ~r.txemp /\ r.of = sel
                    /\ r.first = drv[sel].start
               ELSE r.s = i2c.s /\ r.txemp = i2c.txemp /\ r.of = i2c.of /\ r.first = i2c.first
                    /\ r.started = i2c.started
  <2>. DEFINE q == [i2c EXCEPT !.initting = @ \/ Init, !.rxfull = @ /\ ~Rd, !.noack = @ /\ ~Rd]
  <2>1. Init \in BOOLEAN /\ Rd \in BOOLEAN /\ drv[sel].start \in BOOLEAN /\ sel \in Drivers
    BY <1>1 DEF Init, Rd, Connected, Driver, Typed, ArbiterOK
  <2>2. /\ q \in Byte /\ q.initting = (i2c.initting \/ Init) /\ q.rxfull = (i2c.rxfull /\ ~Rd)
        /\ q.s = i2c.s /\ q.txemp = i2c.txemp /\ q.of = i2c.of /\ q.first = i2c.first
        /\ q.started = i2c.started
    BY <1>1, <2>1 DEF Byte
  <2>3. r = IF Wr /\ i2c.s = "IDLE"
            THEN [q EXCEPT !.s = "WAITBUS", !.txemp = FALSE, !.of = sel,
                           !.first = drv[sel].start, !.started = FALSE]
            ELSE q
    BY DEF Accept
  <2>. HIDE DEF q, r
  <2>4. CASE Wr
    <3>1. i2c.s = "IDLE" BY <2>4 DEF Wires
    <3>. QED BY <1>1, <2>1, <2>2, <2>3, <2>4, <3>1 DEF Byte, ByteStates, Wires
  <2>5. CASE ~Wr BY <1>1, <2>2, <2>3, <2>5 DEF Wires
  <2>. QED BY <2>4, <2>5
<1>3. i2c' = r \/ \E ack \in BOOLEAN : i2c' = Tick(r, ack)
  BY <1>1 DEF Interface, Wires
<1>. HIDE DEF r
<1>4. CASE i2c' = r
  BY <1>1, <1>2, <1>4 DEF Wires, Byte
<1>5. ASSUME NEW ack \in BOOLEAN, i2c' = Tick(r, ack)
      PROVE  /\ i2c'.of = r.of /\ i2c'.first = r.first /\ ~i2c'.initting
             /\ \/ i2c'.s = r.s /\ i2c'.txemp = r.txemp /\ i2c'.rxfull = r.rxfull
                   /\ i2c'.started = r.started /\ i2c.s \in {"IDLE", "RDWAIT"}
                \/ i2c.s = "WAITBUS" /\ i2c'.s = "BYTE" /\ i2c'.started = (Restart \/ Start)
                   /\ i2c'.txemp = r.txemp /\ i2c'.rxfull = r.rxfull
                \/ i2c.s = "RXDAT" /\ i2c'.s = "RDWAIT" /\ i2c'.txemp = r.txemp
                \/ i2c.s \notin {"IDLE", "WAITBUS"} /\ (i2c.s = "RDWAIT" => ~i2c.rxfull)
                   /\ i2c'.rxfull = r.rxfull
                   /\ \/ i2c'.s \in {"RXDAT", "STOP"} /\ i2c'.txemp = r.txemp
                      \/ i2c'.s = "IDLE" /\ i2c'.txemp
  <2>1. CASE i2c.s = "WAITBUS"
    BY <1>2, <1>5, <2>1 DEF Tick, Byte
  <2>2. CASE i2c.s = "BYTE"
    <3>. DEFINE q == [r EXCEPT !.noack = FALSE]
    <3>1. /\ q \in Byte /\ q.of = r.of /\ q.first = r.first /\ q.initting = r.initting
          /\ q.rxfull = r.rxfull /\ q.txemp = r.txemp
      BY <1>2 DEF Byte
    <3>2. i2c' \in {[r EXCEPT !.s = "STOP", !.noack = TRUE], [q EXCEPT !.s = "RXDAT"],
                    [q EXCEPT !.s = "STOP"], [q EXCEPT !.txemp = TRUE, !.s = "IDLE"]}
      BY <1>5, <2>2 DEF Tick, Acknowledged, Emptied
    <3>. HIDE DEF q
    <3>. QED BY <1>2, <2>2, <3>1, <3>2 DEF Byte
  <2>3. CASE i2c.s = "RXDAT"
    BY <1>2, <1>5, <2>3 DEF Tick, Byte
  <2>4. CASE i2c.s = "RDWAIT"
    BY <1>2, <1>5, <2>4 DEF Tick, Emptied, Byte
  <2>5. CASE i2c.s = "STOP"
    BY <1>2, <1>5, <2>5 DEF Tick, Emptied, Byte
  <2>6. CASE i2c.s = "IDLE"
    BY <1>2, <1>5, <2>6 DEF Tick
  <2>. QED BY <1>1, <2>1, <2>2, <2>3, <2>4, <2>5, <2>6 DEF Byte, ByteStates
<1>6. CASE \E ack \in BOOLEAN : i2c' = Tick(r, ack)
  BY <1>1, <1>2, <1>5, <1>6 DEF Wires, Byte
<1>. QED BY <1>3, <1>4, <1>6

LEMMA OwnedNext == Owned /\ Typed' /\ Inv' /\ [Next]_vars => Owned'
<1>. SUFFICES ASSUME Owned, Typed', Inv', [Next]_vars PROVE Owned'
  OBVIOUS
<1>1. CASE UNCHANGED vars
  <2>1. \A i \in Drivers : Abreast(i)' BY <1>1 DEF Owned, Abreast, vars
  <2>2. Selected' /\ Patient' BY <1>1 DEF Owned, Selected, Patient, vars
  <2>3. Wires' BY <1>1 DEF Owned, Wires, StartNotSkipped, Wr, vars
  <2>. QED BY <2>1, <2>2, <2>3 DEF Owned
<1>2. CASE Next
  <2>. USE DEF Owned
  <2>1. PICK sft \in BOOLEAN : Arbiter /\ Proxies /\ DriversStep /\ Interface(sft)
    BY <1>2 DEF Next, Others, Arbiter
  <2>2. \A i \in Drivers : px'[i] = ProxyNext(i) BY <2>1 DEF Proxies
  <2>3. ASSUME NEW i \in Drivers
        PROVE  /\ Abreast(i)'
               /\ drv'[i].start = drv[i].start \/ TxEmpPxy(i)
               /\ drv'[i].wr => TxEmpPxy(i)
               /\ drv'[i].rd => RxEdPxy(i)
               /\ drv'[i].wr /\ drv'[i].start => drv[i].pc = "ADDR"
    <3>1. PICK w \in Whims : drv'[i] = DriverNext(i, w) /\ (w \in Ends => i \in Quitters)
      BY <2>1, Whimsical
    <3>2. w \notin Ends BY <3>1
    <3>. QED BY <2>2, <3>1, <3>2, DriverMoves
  <2>4. /\ ~i2c'.initting /\ (i2c'.txemp <=> i2c'.s = "IDLE") /\ (i2c'.rxfull => i2c'.s = "RDWAIT")
        /\ i2c.s = "IDLE" => i2c'.s = IF Wr THEN "WAITBUS" ELSE "IDLE"
        /\ i2c'.of = IF Wr THEN sel ELSE i2c.of
        /\ i2c'.first = IF Wr THEN drv[sel].start ELSE i2c.first
        /\ i2c.rxfull /\ ~Rd => i2c'.rxfull
        /\ i2c'.s = "WAITBUS" => Wr \/ i2c.s = "WAITBUS"
        /\ i2c'.s = "BYTE" => \/ i2c.s = "BYTE" /\ i2c'.started = i2c.started
                              \/ i2c.s = "WAITBUS" /\ i2c'.started = (Restart \/ Start)
    <3>1. \A i \in Drivers : ~drv[i].init BY DEF Abreast
    <3>. QED BY <2>1, <3>1, WiresMove
  <2>5. /\ sel \in Drivers /\ sel' \in Drivers /\ drv[sel] \in Driver /\ i2c \in Byte
        /\ px[sel] \in ProxyStates
    BY DEF Typed, ArbiterOK
  <2>6. TxEmp => i2c.s = "IDLE" /\ ~Wr /\ i2c'.s = "IDLE"
    BY <2>4 DEF TxEmp, Wires
  \* a driver that is connected, or about to be, and writes has a proxy that waits or holds
  <2>7. drv[sel].wr => /\ px[sel] = "IDLE" => drv[sel].start
                       /\ px[sel] \in {"IDLE", "BUSY"}
    BY <2>5 DEF Abreast, Driver, Pcs
  <2>8. Selected'
    <3>1. CASE MuxIdle
      <4>1. mux' = "START" => TxEmp /\ px[sel'] = "REQ" BY <3>1 DEF MuxIdle, BusReq
      <4>2. \A i \in Drivers : ~gnt[i] BY <3>1 DEF MuxIdle, Inv, GrantToSelected
      <4>3. mux' = "START" => px'[sel'] = "REQ" BY <2>2, <2>5, <4>1, <4>2 DEF ProxyNext
      <4>4. mux' \in {"IDLE", "START"} BY <3>1 DEF MuxIdle
      <4>. QED BY <2>6, <4>1, <4>3, <4>4 DEF Selected
    <3>2. CASE MuxStart
      <4>1. px'[sel] \in {"REQ", "BUSY"} BY <2>2, <2>5, <3>2 DEF MuxStart, Selected, ProxyNext
      <4>. QED BY <3>2, <4>1 DEF MuxStart, Selected
    <3>3. CASE MuxGrant
      <4>1. CASE BusAck(sel)
        <5>1. px[sel] = "BUSY" BY <3>3, <4>1 DEF MuxGrant, Selected, BusAck
        <5>2. px'[sel] \in {"BUSY", "FIN"} BY <2>2, <2>5, <5>1 DEF ProxyNext
        <5>. QED BY <3>3, <4>1, <5>2 DEF MuxGrant, Selected
      <4>2. CASE ~BusAck(sel)
        <5>1. px[sel] = "REQ" BY <3>3, <4>2 DEF MuxGrant, Selected, BusAck
        <5>2. px'[sel] \in {"REQ", "BUSY"} BY <2>2, <2>5, <5>1 DEF ProxyNext
        <5>. QED BY <3>3, <4>2, <5>2 DEF MuxGrant, Selected
      <4>. QED BY <4>1, <4>2
    <3>4. CASE MuxBusy
      <4>1. mux' = "BUSY" => px[sel] \in {"BUSY", "FIN"} BY <3>4 DEF MuxBusy, BusAck
      <4>2. px[sel] = "BUSY" => px'[sel] \in {"BUSY", "FIN"} BY <2>2, <2>5 DEF ProxyNext
      <4>3. px[sel] = "FIN" => px'[sel] = "FIN" \/ (px'[sel] = "IDLE" /\ TxEmp)
        BY <2>2, <2>5 DEF ProxyNext
      <4>4. sel' = sel /\ mux' \in {"IDLE", "BUSY"} BY <3>4 DEF MuxBusy
      <4>. QED BY <2>6, <4>1, <4>2, <4>3, <4>4 DEF Selected
    <3>. QED BY <2>1, <3>1, <3>2, <3>3, <3>4 DEF Arbiter
  <2>9. Patient'
    <3>. SUFFICES ASSUME drv'[sel'].wr, drv'[sel'].start, mux' \in {"GRANT", "BUSY"}, sel' \notin Hasty
                  PROVE  FALSE
      BY DEF Patient
    <3>1. drv[sel'].pc = "ADDR" BY <2>3, <2>5
    <3>2. px[sel'] = "IDLE" BY <2>5, <3>1 DEF Abreast
    <3>3. sel' = sel /\ mux \in {"START", "GRANT", "BUSY"}
      BY <2>1 DEF Arbiter, MuxIdle, MuxStart, MuxGrant, MuxBusy
    <3>4. mux = "BUSY" BY <3>2, <3>3 DEF Selected
    <3>5. mux' = "IDLE" BY <2>1, <3>2, <3>3, <3>4 DEF Arbiter, MuxIdle, MuxStart, MuxGrant, MuxBusy, BusAck
    <3>. QED BY <3>5
  <2>10. Wires'
    <3>1. (Wr => i2c.s = "IDLE")'
      <4>1. mux' = "START" => i2c'.s = "IDLE" BY <2>8 DEF Selected
      <4>2. mux' \in {"GRANT", "BUSY"} /\ drv'[sel'].wr => i2c'.s = "IDLE"
        <5>. SUFFICES ASSUME mux' \in {"GRANT", "BUSY"}, drv'[sel'].wr PROVE i2c'.s = "IDLE"
          OBVIOUS
        <5>1. sel' = sel /\ mux \in {"START", "GRANT", "BUSY"}
          BY <2>1 DEF Arbiter, MuxIdle, MuxStart, MuxGrant, MuxBusy
        <5>2. px[sel] = "IDLE" \/ TxEmp BY <2>3, <2>5, <5>1 DEF TxEmpPxy
        <5>3. CASE TxEmp BY <2>6, <5>3
        <5>4. CASE px[sel] = "IDLE"
          <6>1. mux = "BUSY" BY <5>1, <5>4 DEF Selected
          <6>2. mux' = "IDLE"
            BY <2>1, <5>4, <6>1 DEF Arbiter, MuxIdle, MuxStart, MuxGrant, MuxBusy, BusAck
          <6>. QED BY <6>2
        <5>. QED BY <5>2, <5>3, <5>4
      <4>. QED BY <4>1, <4>2 DEF Wr
    <3>2. i2c'.s # "IDLE" => i2c'.of = sel' /\ (mux' = "IDLE" => sel' \in Hasty)
      <4>. SUFFICES ASSUME i2c'.s # "IDLE"
                    PROVE  i2c'.of = sel' /\ (mux' = "IDLE" => sel' \in Hasty)
        OBVIOUS
      <4>1. ~TxEmp BY <2>6
      <4>2. sel' = sel BY <2>1, <4>1 DEF Arbiter, MuxIdle, MuxStart, MuxGrant, MuxBusy
      <4>3. i2c'.of = sel BY <2>4 DEF Wires
      <4>4. mux' = "IDLE" => mux = "IDLE" \/ (mux = "BUSY" /\ px[sel] \notin {"BUSY", "FIN"})
        BY <2>1 DEF Arbiter, MuxIdle, MuxStart, MuxGrant, MuxBusy, BusAck
      <4>5. CASE mux = "IDLE"
        <5>1. ~Wr BY <4>5 DEF Wr
        <5>2. i2c.s # "IDLE" BY <2>4, <5>1
        <5>. QED BY <4>2, <4>3, <4>5, <5>2 DEF Wires
      <4>6. CASE mux = "BUSY" /\ px[sel] \notin {"BUSY", "FIN"}
        <5>1. px[sel] = "IDLE" /\ i2c.s = "IDLE" BY <4>6 DEF Selected
        <5>2. Wr BY <2>4, <5>1
        <5>3. drv[sel].wr BY <4>6, <5>2 DEF Wr
        <5>4. sel \in Hasty BY <2>7, <4>6, <5>1, <5>3 DEF Patient
        <5>. QED BY <4>2, <4>3, <5>4
      <4>. QED BY <4>2, <4>3, <4>4, <4>5, <4>6
    <3>3. i2c'.s = "WAITBUS" /\ i2c'.first /\ sel' \notin Hasty =>
            mux' \in {"GRANT", "BUSY"} /\ drv'[sel'].start
      <4>. SUFFICES ASSUME i2c'.s = "WAITBUS", i2c'.first, sel' \notin Hasty
                    PROVE  mux' \in {"GRANT", "BUSY"} /\ drv'[sel'].start
        OBVIOUS
      <4>1. ~TxEmp /\ sel' = sel
        <5>1. ~TxEmp BY <2>6
        <5>. QED BY <2>1, <5>1 DEF Arbiter, MuxIdle, MuxStart, MuxGrant, MuxBusy
      <4>2. mux \in {"START", "GRANT", "BUSY"} /\ drv[sel].start /\ px[sel] # "IDLE"
        <5>1. CASE Wr
          <6>1. drv[sel].start BY <2>4, <5>1
          <6>2. CASE mux = "START" BY <6>1, <6>2 DEF Selected
          <6>3. CASE mux \in {"GRANT", "BUSY"} /\ drv[sel].wr
            <7>1. sel \in Hasty BY <6>1, <6>3 DEF Patient
            <7>. QED BY <4>1, <7>1
          <6>. QED BY <5>1, <6>2, <6>3 DEF Wr
        <5>2. CASE ~Wr
          <6>1. i2c.s = "WAITBUS" /\ i2c.first BY <2>4, <5>2
          <6>2. mux \in {"GRANT", "BUSY"} /\ drv[sel].start BY <4>1, <6>1 DEF Wires
          <6>. QED BY <6>1, <6>2 DEF Selected
        <5>. QED BY <5>1, <5>2
      <4>3. ~TxEmpPxy(sel) BY <4>1, <4>2 DEF TxEmpPxy
      <4>4. drv'[sel].start BY <2>3, <2>5, <4>2, <4>3
      <4>5. mux' \in {"GRANT", "BUSY"}
        BY <2>1, <4>2 DEF Arbiter, MuxIdle, MuxStart, MuxGrant, MuxBusy, BusAck, Selected
      <4>. QED BY <4>1, <4>4, <4>5
    <3>4. StartNotSkipped'
      <4>. SUFFICES ASSUME i2c'.s = "BYTE", i2c'.first, i2c'.of \notin Hasty PROVE i2c'.started
        BY DEF StartNotSkipped
      <4>1. i2c.s \in {"BYTE", "WAITBUS"} /\ ~Wr BY <2>4 DEF Wires
      <4>2. i2c.first /\ i2c.of \notin Hasty /\ i2c.of = sel BY <2>4, <4>1 DEF Wires
      <4>3. CASE i2c.s = "BYTE" BY <2>4, <4>2, <4>3 DEF Wires, StartNotSkipped
      <4>4. CASE i2c.s = "WAITBUS"
        <5>1. mux \in {"GRANT", "BUSY"} /\ drv[sel].start BY <4>2, <4>4 DEF Wires
        <5>2. Start BY <5>1 DEF Start
        <5>. QED BY <2>4, <4>4, <5>2
      <4>. QED BY <4>1, <4>3, <4>4
    <3>5. \A i \in Drivers : drv'[i].rd => sel' = i /\ mux' = "BUSY" /\ i2c'.rxfull
      <4>. SUFFICES ASSUME NEW i \in Drivers, drv'[i].rd PROVE sel' = i /\ mux' = "BUSY" /\ i2c'.rxfull
        OBVIOUS
      <4>1. i2c.rxfull /\ ~Rd /\ mux = "BUSY" /\ sel = i
        BY <2>3 DEF RxEdPxy, RxEd, Connected
      <4>2. i2c'.rxfull /\ i2c'.s # "IDLE" BY <2>4, <4>1
      <4>3. px[i] \in {"BUSY", "FIN"} BY <2>4, <4>1, <4>2 DEF Selected, Wires
      <4>. QED BY <2>1, <4>1, <4>2, <4>3 DEF Arbiter, MuxIdle, MuxStart, MuxGrant, MuxBusy, BusAck
    <3>. QED BY <2>4, <3>1, <3>2, <3>3, <3>4, <3>5 DEF Wires
  <2>. QED BY <2>3, <2>8, <2>9, <2>10
<1>. QED BY <1>1, <1>2

\* When no driver gives a transaction up, a byte on the wires is the selected driver's,
\* goes out with its START unless the driver was hasty, and no driver writes or fetches
\* one out of its turn (TXEMP_PXY, RXED_PXY, IS_IDLE and IS_FIN), for any number of
\* drivers and whichever of them are hasty.
THEOREM WiresOwned == Quitters = {} /\ Spec => []BytesOwned
<1>1. Quitters = {} /\ Inv /\ Typed /\ BusInit => Owned
  <2>. SUFFICES ASSUME Quitters = {}, Inv, Typed, BusInit PROVE Owned
    OBVIOUS
  <2>1. \A i \in Drivers : Abreast(i) BY DEF BusInit, Reset, Abreast
  <2>2. Selected /\ Patient BY DEF BusInit, Selected, Patient
  <2>3. ~Wr BY DEF BusInit, Wr
  <2>4. Wires BY <2>3 DEF BusInit, Reset, I2CReset, Wires, StartNotSkipped
  <2>. QED BY <2>1, <2>2, <2>4 DEF Owned
<1>2. Owned => BytesOwned
  <2>. SUFFICES ASSUME Owned PROVE BytesOwned
    OBVIOUS
  <2>1. ASSUME NEW i \in Drivers, drv[i].wr, ~drv[i].start PROVE sel = i /\ mux \in {"GRANT", "BUSY"}
    <3>1. px[i] = "BUSY" BY <2>1 DEF Owned, Typed, Abreast, Driver, Pcs
    <3>. QED BY <3>1 DEF Owned, Inv, HolderSelected, BusAck
  <2>. QED BY <2>1 DEF Owned, Wires, BytesOwned, Connected
<1>3. Spec => []Inv
  BY InvInit, InvNext, PTL DEF Spec
<1>. QED BY <1>1, <1>2, <1>3, InvInit, TypedAlways, OwnedNext, PTL DEF Spec
=============================================================================
