------------------------------- MODULE I2CBus -------------------------------
(***************************************************************************)
(* The sharing of the I2C bus (RTL/lib/i2c): N drivers, each behind an       *)
(* I2C_MUX_PROXY, the arbiter I2C_MUX, and the byte interface I2CIF.  A       *)
(* proxy holds back the first byte of a transaction and asks for the bus;    *)
(* the arbiter issues that byte, with its START, on the driver's behalf and  *)
(* then connects the driver to the interface until its last byte is done.    *)
(*                                                                          *)
(* A step is one edge of sys_clk: all registers take their next values from  *)
(* the values before the edge.  SFT, the tick of the serial clock, comes at  *)
(* any edge; the bits of a byte are one tick here.  Left out: collisions and *)
(* clock stretching (one master), F_FINISH (no driver raises it), the data.  *)
(***************************************************************************)
EXTENDS Integers

CONSTANTS
    N,        \* NUM_DRIVERS
    Hasty,     \* the drivers that begin again before their last byte is done
    Quitters   \* the drivers that may give a transaction up (timeout, reset)

ASSUME NAssumption == N \in Nat \ {0}

Drivers == 0..(N - 1)

VARIABLES
    mux,  \* I2CMUXstate
    sel,  \* SEL
    gnt,  \* BUSGNT
    px,   \* the states of the proxies
    drv,  \* the drivers: pc and their output registers
    i2c   \* the byte interface
vars == <<mux, sel, gnt, px, drv, i2c>>

BusReq(i) == px[i] = "REQ"
BusAck(i) == px[i] \in {"BUSY", "FIN"}

-----------------------------------------------------------------------------
(* What the multiplexer connects to the interface, and to the drivers.      *)

Connected == mux = "BUSY"
Wr      == \/ mux = "START"
           \/ mux \in {"GRANT", "BUSY"} /\ drv[sel].wr
Start   == \/ mux = "START"
           \/ mux \in {"GRANT", "BUSY"} /\ drv[sel].start
Rd      == Connected /\ drv[sel].rd
NxRead  == Connected /\ drv[sel].nx
Restart == Connected /\ drv[sel].restart
Finish  == Connected /\ drv[sel].finish
Init    == Connected /\ drv[sel].init

TxEmp == i2c.txemp /\ ~Wr
RxEd  == i2c.rxfull /\ ~Rd

\* Mutant of TxEmpPxy: the driver is not held back in IS_REQ.
NotHeldBack(i) == ~drv[i].wr /\ (px[i] = "IDLE" \/ TxEmp)

TxEmpPxy(i) == ~drv[i].wr /\ (px[i] = "IDLE" \/ (px[i] # "REQ" /\ TxEmp))
RxEdPxy(i)  == RxEd /\ Connected /\ sel = i

-----------------------------------------------------------------------------
(* The arbiter: one action for each of its states.                          *)

\* Mutants of MuxIdle: the loop leaves SEL behind the last driver; the loop runs
\* downwards.
Picks(i) ==
    /\ mux = "IDLE" /\ gnt' = [j \in Drivers |-> FALSE]
    /\ IF TxEmp /\ \E j \in Drivers : BusReq(j)
       THEN mux' = "START" /\ sel' = i
       ELSE UNCHANGED <<mux, sel>>
PicksBeyond == Picks(N)
PicksHighest ==
    Picks(CHOOSE j \in Drivers : BusReq(j) /\ \A k \in Drivers : BusReq(k) => j >= k)

MuxIdle ==
    /\ mux = "IDLE"
    /\ gnt' = [i \in Drivers |-> FALSE]
    /\ IF TxEmp /\ \E i \in Drivers : BusReq(i)
       THEN /\ mux' = "START"
            /\ sel' \in Drivers /\ BusReq(sel')
            /\ \A j \in Drivers : j < sel' => ~BusReq(j)
       ELSE UNCHANGED <<mux, sel>>

MuxStart ==
    /\ mux = "START"
    /\ mux' = "GRANT"
    /\ gnt' = [gnt EXCEPT ![sel] = TRUE]
    /\ UNCHANGED sel

MuxGrant ==
    /\ mux = "GRANT"
    /\ IF BusAck(sel)
       THEN mux' = "BUSY" /\ gnt' = [i \in Drivers |-> FALSE]
       ELSE UNCHANGED <<mux, gnt>>
    /\ UNCHANGED sel

\* Mutant of MuxBusy: it waits for the interface and not for BUSACK.
LeavesEarly ==
    /\ mux = "BUSY"
    /\ mux' = IF TxEmp THEN "IDLE" ELSE mux
    /\ UNCHANGED <<sel, gnt>>

MuxBusy ==
    /\ mux = "BUSY"
    /\ mux' = IF BusAck(sel) THEN mux ELSE "IDLE"
    /\ UNCHANGED <<sel, gnt>>

-----------------------------------------------------------------------------
(* The proxies.                                                             *)

\* Mutant of ProxyNext: IS_FIN does not wait for TXEMP.
FinAtOnce(i) ==
    CASE px[i] = "IDLE" -> IF drv[i].wr /\ drv[i].start THEN "REQ" ELSE "IDLE"
      [] px[i] = "REQ"  -> IF gnt[i] THEN "BUSY" ELSE "REQ"
      [] px[i] = "BUSY" -> IF (drv[i].wr \/ drv[i].rd) /\ drv[i].finish THEN "FIN" ELSE "BUSY"
      [] px[i] = "FIN"  -> "IDLE"

ProxyNext(i) ==
    CASE px[i] = "IDLE" -> IF drv[i].wr /\ drv[i].start THEN "REQ" ELSE "IDLE"
      [] px[i] = "REQ"  -> IF gnt[i] THEN "BUSY" ELSE "REQ"
      [] px[i] = "BUSY" -> IF (drv[i].wr \/ drv[i].rd) /\ drv[i].finish THEN "FIN" ELSE "BUSY"
      [] px[i] = "FIN"  -> IF TxEmp THEN "IDLE" ELSE "FIN"

Proxies == px' = [i \in Drivers |-> ProxyNext(i)]

-----------------------------------------------------------------------------
(* The drivers (i2c_driver; the EEPROM and WM8804 drivers write and read in   *)
(* the same way).  A write is ADDR, REGNUM, DATA - once or twice, SIZE - the   *)
(* last one with FINISH, and WRITE_FIN; a read is ADDR, REGNUM, READ_START     *)
(* with RESTART, READ_DATA, the last one with FINISH, and READ_FIN.  The       *)
(* WM8804 driver goes from one write straight to the next.                    *)

Reset == [pc |-> "IDLE", read |-> FALSE, more |-> FALSE, wr |-> FALSE, rd |-> FALSE,
          start |-> FALSE, finish |-> FALSE, restart |-> FALSE, nx |-> FALSE,
          init |-> FALSE]

\* What may happen to a driver besides its going on: a request for one or two
\* bytes, its timeout, its reset.
Reads    == {"read", "read2"}
Requests == {"write", "write2"} \union Reads
Ends     == {"timeout", "reset"}
Whims    == {"none"} \union Requests \union (IF Quitters = {} THEN {} ELSE Ends)

\* A write to the proxy: the driver's registers, and where it goes on.
Write(d, pc, start, restart, finish) ==
    [d EXCEPT !.pc = pc, !.wr = TRUE, !.start = start, !.restart = restart,
              !.nx = restart, !.finish = finish]

\* A request is taken by an idle driver.  A patient one gets it only after the
\* end of its last transaction: the CPU takes longer than a tick to come back.
Take(i, d, whim) ==
    IF whim \in Requests /\ (i \in Hasty \/ px[i] = "IDLE")
    THEN [d EXCEPT !.pc = "ADDR", !.read = whim \in Reads,
                   !.more = whim \in {"read2", "write2"}]
    ELSE d

\* Mutant of Fetch: the last byte is fetched without FINISH.
NoFinish(d) ==
    [d EXCEPT !.rd = TRUE, !.restart = FALSE, !.nx = d.more,
              !.more = FALSE, !.pc = IF d.more THEN "READ_DATA" ELSE "READ_FIN"]

\* The byte read: fetched, the next one asked for, or the transaction finished.
Fetch(d) ==
    [d EXCEPT !.rd = TRUE, !.restart = FALSE, !.nx = d.more, !.finish = ~d.more,
              !.more = FALSE, !.pc = IF d.more THEN "READ_DATA" ELSE "READ_FIN"]

GoesOn(i, d, whim) ==
    LET sent(next) == IF TxEmpPxy(i) THEN next ELSE d
    IN CASE d.pc = "IDLE"       -> Take(i, d, whim)
         [] d.pc = "ADDR"       -> sent(Write(d, "REGNUM", TRUE, FALSE, FALSE))
         [] d.pc = "REGNUM"     -> sent(Write(d, IF d.read THEN "READ_START" ELSE "WRITE_DATA",
                                              FALSE, FALSE, FALSE))
         [] d.pc = "WRITE_DATA" -> sent(IF d.more
                                        THEN Write([d EXCEPT !.more = FALSE], "WRITE_DATA",
                                                   FALSE, FALSE, FALSE)
                                        ELSE Write(d, "WRITE_FIN", FALSE, FALSE, TRUE))
         [] d.pc = "WRITE_FIN"  -> sent([d EXCEPT !.finish = FALSE, !.read = FALSE,
                                          !.pc = IF whim = "write" THEN "ADDR" ELSE "IDLE"])
         [] d.pc = "READ_START" -> sent(Write(d, "READ_DATA", FALSE, TRUE, FALSE))
         [] d.pc = "READ_DATA"  -> IF RxEdPxy(i) THEN Fetch(d) ELSE d
         [] d.pc = "READ_FIN"   -> [d EXCEPT !.finish = FALSE, !.pc = "IDLE"]

DriverNext(i, whim) ==
    LET d == [drv[i] EXCEPT !.wr = FALSE, !.rd = FALSE, !.init = FALSE]
    IN IF whim = "reset" THEN Reset
       ELSE IF whim = "timeout" /\ d.pc # "IDLE"
       THEN [d EXCEPT !.pc = "IDLE", !.init = TRUE]
       ELSE GoesOn(i, d, whim)

Choosers == {i \in Drivers : drv[i].pc \in {"IDLE", "WRITE_FIN"} \/ i \in Quitters}

DriversStep ==
    \E whim \in [Choosers -> Whims] :
        /\ \A i \in Choosers : whim[i] \in Ends => i \in Quitters
        /\ drv' = [i \in Drivers |-> DriverNext(i, IF i \in Choosers THEN whim[i] ELSE "none")]

-----------------------------------------------------------------------------
(* The interface.  s is STATE, with ST_START and ST_TXBUF as BYTE: a byte     *)
(* with its START, if any, and the acknowledge bit.  of, first and started are *)
(* not registers: whose byte it is, whether its driver asked for a START       *)
(* before it, and whether one went before it.                                *)

\* Some time after the power on, when the bus has been initialised.
I2CReset == [s |-> "IDLE", txemp |-> TRUE, rxfull |-> FALSE, noack |-> FALSE,
             initting |-> FALSE, of |-> 0, first |-> FALSE, started |-> FALSE]

\* What every edge does: INIT, a byte written, a byte read.
Accept ==
    LET r == [i2c EXCEPT !.initting = @ \/ Init, !.rxfull = @ /\ ~Rd,
                          !.noack = @ /\ ~Rd]
    IN IF Wr /\ i2c.s = "IDLE"
       THEN [r EXCEPT !.s = "WAITBUS", !.txemp = FALSE, !.of = sel,
                      !.first = drv[sel].start, !.started = FALSE]
       ELSE r

\* The last tick of the initialisation of the bus.
InitTick(r) ==
    [r EXCEPT !.initting = FALSE, !.s = IF i2c.s = "WAITBUS" THEN @ ELSE "IDLE"]

\* A tick of the serial clock; ack: the device acknowledges the byte.
Emptied(r) == [r EXCEPT !.txemp = TRUE, !.s = "IDLE"]
Acknowledged(r) == IF NxRead THEN [r EXCEPT !.s = "RXDAT"]
                   ELSE IF Finish THEN [r EXCEPT !.s = "STOP"] ELSE Emptied(r)
Tick(r, ack) ==
    CASE i2c.s = "WAITBUS" -> [r EXCEPT !.s = "BYTE", !.started = Restart \/ Start]
      [] i2c.s = "BYTE"    -> IF ~ack THEN [r EXCEPT !.s = "STOP", !.noack = TRUE]
                              ELSE Acknowledged([r EXCEPT !.noack = FALSE])
      [] i2c.s = "RXDAT"   -> [r EXCEPT !.s = "RDWAIT", !.rxfull = TRUE]
      [] i2c.s = "RDWAIT"  -> IF i2c.rxfull THEN r
                              ELSE IF ~Finish /\ NxRead THEN [r EXCEPT !.s = "RXDAT"]
                              ELSE Emptied(r)
      [] i2c.s = "STOP"    -> Emptied(r)
      [] OTHER -> r

Interface(sft) ==
    IF ~sft THEN i2c' = Accept
    ELSE IF i2c.initting THEN i2c' = InitTick(Accept)
    ELSE \E ack \in BOOLEAN : i2c' = Tick(Accept, ack)

-----------------------------------------------------------------------------
BusInit ==
    /\ mux = "IDLE" /\ sel = 0 /\ gnt = [i \in Drivers |-> FALSE]
    /\ px = [i \in Drivers |-> "IDLE"]
    /\ drv = [i \in Drivers |-> Reset]
    /\ i2c = I2CReset

Arbiter == MuxIdle \/ MuxStart \/ MuxGrant \/ MuxBusy

\* What goes on beside the arbiter.
Others == Proxies /\ DriversStep /\ \E sft \in BOOLEAN : Interface(sft)

Next ==
    \/ MuxIdle /\ Others
    \/ MuxStart /\ Others
    \/ MuxGrant /\ Others
    \/ MuxBusy /\ Others

Spec == BusInit /\ [][Next]_vars

\* The serial clock never stops ticking.
Ticks == Arbiter /\ Proxies /\ DriversStep /\ Interface(TRUE)
FairSpec == Spec /\ WF_vars(Ticks)

-----------------------------------------------------------------------------
\* The states are those of the types the code declares.
TypeOK ==
    /\ mux \in {"IDLE", "START", "GRANT", "BUSY"} /\ sel \in Drivers
    /\ gnt \in [Drivers -> BOOLEAN]
    /\ px \in [Drivers -> {"IDLE", "REQ", "BUSY", "FIN"}]
    /\ i2c.s \in {"IDLE", "WAITBUS", "BYTE", "RXDAT", "RDWAIT", "STOP"}

\* At most one proxy holds the bus, it is the one the arbiter has selected, and
\* the arbiter knows (BUSACK, I2C_MUX).
GrantExclusive ==
    /\ \A i, j \in Drivers : BusAck(i) /\ BusAck(j) => i = j
    /\ \A i \in Drivers : BusAck(i) => i = sel /\ mux \in {"GRANT", "BUSY"}

\* A byte that its driver marks with START goes out after a start condition
\* (START_PXY, "make start condition", I2C_MUX.vhd), if the driver has waited for
\* the end of its last transfer. A hasty driver's first byte comes in the edge in
\* which its proxy gives the bus back, goes out without one, and is sent again.
StartNotSkipped == i2c.s = "BYTE" /\ i2c.first /\ i2c.of \notin Hasty => i2c.started

\* A byte on the wires belongs to the driver the arbiter has selected (TXEMP in its
\* IS_IDLE and in the proxies' IS_FIN keep it from looking for another; only a hasty
\* driver's byte may meet an arbiter that has nobody), a byte written finds an
\* interface that can take it, and no driver writes a further byte or fetches one
\* without being connected (TXEMP_PXY and RXED_PXY hold it back); and no START is
\* skipped.
BytesOwned ==
    /\ StartNotSkipped
    /\ i2c.s # "IDLE" => i2c.of = sel /\ (mux = "IDLE" => sel \in Hasty)
    /\ Wr => i2c.s = "IDLE"
    /\ \A i \in Drivers :
        /\ drv[i].wr /\ ~drv[i].start => sel = i /\ mux \in {"GRANT", "BUSY"}
        /\ drv[i].rd => sel = i /\ Connected /\ i2c.s = "RDWAIT" /\ i2c.rxfull

\* The driver with the lowest number, the EEPROM's, gets the bus whenever it asks
\* for it, whatever the others do (the loop over BUSREQ), as long as no device
\* leaves a byte unacknowledged: the drivers do not look at NOACK.
FirstServed == []~i2c.noack => (px[0] = "REQ" ~> px[0] = "BUSY")

\* The same, and whoever got the bus gives it back: the arbiter returns to its
\* IS_IDLE, as long as every byte is acknowledged.
BusServed == FirstServed /\ ([]~i2c.noack => (mux = "BUSY" ~> mux = "IDLE"))
=============================================================================
