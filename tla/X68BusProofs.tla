---------------------------- MODULE X68BusProofs ----------------------------
(***************************************************************************)
(* Who drives the bus, for every machine (X68Bus), whatever the half period *)
(* of the CPU clock and the delay of its strobes.                           *)
(*                                                                          *)
(* The board knows the CPU's AS and BG only from synchronisers that are an  *)
(* edge or two behind.  MasterExclusive holds because what they show of a   *)
(* granted bus cannot go back: with the grant down the CPU begins no cycle  *)
(* (Granted), so an AS sample that shows it high and a BG sample that shows *)
(* it low say the bus is free now (Released); and while BGACK is low the CPU *)
(* takes the grant back before the board returns the bus, so the stale      *)
(* sample cannot let BS_IDLE take the bus a second time (Regranted).        *)
(*                                                                          *)
(* TypeOK needs more than types for one of its parts: that a claimed block is *)
(* a memory block rests on the latched address staying what it was while    *)
(* BS_S_EXMEM_FORK decides (Forked).                                        *)
(*                                                                          *)
(* Then comes autodetection (ClaimsOnlyFree), which counts the ticks of both *)
(* sides; the last part is about the interrupt arbiter (IrqArbiter).        *)
(***************************************************************************)
EXTENDS X68Bus, IrqArbiter, TLAPS

CpuStates    == {"BEGIN", "S0", "S1", "S2", "S3", "S4", "W", "SW", "S5", "S6", "S7"}
MasterStates == {"M_ABOUT_U", "M_ABOUT_L", "M_DBIN_WAIT", "M_DBIN", "M_DBOUT",
                 "M_DBOUT_WAIT", "M_FIN_WAIT", "M_FIN"}

\* The CPU has released AS, or is in no cycle: it asserts AS only after the next start.
Quiet == ~InCycle \/ cpu.s = "BEGIN" \/ (cpu.s = "S7" /\ cpu.t >= CpuDelay)

CpuTyped ==
    /\ DOMAIN cpu = {"s", "t", "cyc", "bg_n"}
    /\ cpu.s \in CpuStates /\ cpu.t \in 0..(HalfPeriod - 1) /\ cpu.bg_n \in {0, 1}

Fields == {"state", "mode", "dtack_n", "rw", "req", "exmem_req", "lock", "enabled",
           "watchdog", "pause", "data", "idata", "wait", "update", "m_tick", "m_pause",
           "br_n", "bgack_n", "as_n", "req_d", "ack", "counter", "berr", "served"}

\* BGACK is low in the states of a master cycle, and AS only there.
Owner ==
    /\ DOMAIN b = Fields /\ b.state \in BusStates
    /\ b.bgack_n = IF b.state \in MasterStates THEN 0 ELSE 1
    /\ b.as_n \in {0, 1} /\ (b.as_n = 0 => b.state \in MasterStates)

\* What the two sides know of each other.
Granted   == cpu.bg_n = 0 => Quiet \/ CpuAs
Released  == pin.bg_d = 0 /\ pin.as_d = 1 /\ b.bgack_n = 1 => Quiet /\ cpu.bg_n = 0
Taken     == b.bgack_n = 0 => Quiet
Regranted == b.state = "M_FIN" => cpu.bg_n = 1

Exclusive == CpuTyped /\ Owner /\ Granted /\ Released /\ Taken /\ Regranted

BusStep ==
    \/ BS_IDLE \/ BS_S_ABIN_U \/ BS_S_ABIN_L \/ BS_S_EXMEM_FORK \/ BS_S_EXMEM_RD
    \/ BS_S_EXMEM_RD_FIN \/ BS_S_EXMEM_RD_FIN_2 \/ BS_S_EXMEM_WR \/ BS_S_EXMEM_WR_FIN
    \/ BS_S_DBIN_P \/ BS_S_DBIN \/ BS_S_DBOUT \/ BS_S_FIN_WAIT \/ BS_S_FIN_RD
    \/ BS_S_FIN_RD_WAIT \/ BS_S_FIN \/ BS_S_INT \/ BS_S_IACK \/ BS_S_FAIL
    \/ BS_M_ABOUT_U \/ BS_M_ABOUT_L \/ BS_M_DBIN_WAIT \/ BS_M_DBIN \/ BS_M_DBOUT \/ BS_M_DBOUT_WAIT
    \/ BS_M_FIN_WAIT \/ BS_M_FIN

LEMMA NextSteps == Next <=> BeginCycle \/ (BusStep /\ Edge)
  BY Zenon DEF Next, BusStep

-----------------------------------------------------------------------------
(* The CPU's side.                                                          *)

LEMMA Timing ==
    /\ HalfPeriod \in Nat /\ CpuDelay \in 0..(HalfPeriod - 1)
    /\ 0 \in 0..(HalfPeriod - 1)
  BY TimingAssumption

\* A tick keeps a quiet CPU quiet, and takes an asserted AS only to its release.
LEMMA CpuTicks ==
  ASSUME CpuTyped,
         BusTick(DtackSeen, b.br_n, b.bgack_n, AsPin, b.as_n = 1 /\ b'.as_n = 0)
  PROVE  /\ CpuTyped' /\ cpu'.bg_n = Grant(b.br_n, b.bgack_n)
         /\ Quiet => Quiet'
         /\ CpuAs => CpuAs' \/ Quiet'
  BY Timing DEF CpuTyped, CpuStates, BusTick, Grant, After, Quiet, CpuAs, InCycle

\* While the bus is granted or given away the CPU begins no cycle.
LEMMA CpuBegins ==
  ASSUME CpuTyped, CpuBegin(b.bgack_n)
  PROVE  /\ CpuTyped' /\ cpu'.bg_n = cpu.bg_n
         /\ cpu.bg_n = 0 \/ b.bgack_n = 0 => Quiet'
  BY Timing DEF CpuTyped, CpuStates, CpuBegin, Quiet, InCycle, NoCycle

-----------------------------------------------------------------------------
(* The board's side: what a step of the state machine may do to the registers *)
(* these theorems are about.                                                *)

LEMMA SomeFields ==
    /\ "state" \in Fields /\ "mode" \in Fields /\ "req" \in Fields /\ "dtack_n" \in Fields
    /\ "idata" \in Fields /\ "m_pause" \in Fields /\ "br_n" \in Fields /\ "as_n" \in Fields
    /\ "bgack_n" \in Fields /\ "lock" \in Fields /\ "rw" \in Fields /\ "data" \in Fields
    /\ "enabled" \in Fields /\ "m_tick" \in Fields /\ "served" \in Fields /\ "pause" \in Fields
  BY DEF Fields

ServeStates == BusStates \ MasterStates

LEMMA SomeStates ==
    /\ "IDLE" \in ServeStates /\ "ABIN_U" \in ServeStates
    /\ "ABIN_L" \in ServeStates /\ "EXMEM_FORK" \in ServeStates
    /\ "EXMEM_RD" \in ServeStates /\ "EXMEM_RD_FIN" \in ServeStates
    /\ "EXMEM_RD_FIN_2" \in ServeStates /\ "EXMEM_WR" \in ServeStates
    /\ "EXMEM_WR_FIN" \in ServeStates /\ "DBIN_P" \in ServeStates
    /\ "DBIN" \in ServeStates /\ "DBOUT" \in ServeStates
    /\ "FIN_WAIT" \in ServeStates /\ "FIN_RD" \in ServeStates
    /\ "FIN_RD_WAIT" \in ServeStates /\ "FIN" \in ServeStates
    /\ "INT" \in ServeStates /\ "IACK" \in ServeStates
    /\ "IACK2" \in ServeStates /\ "FAIL" \in ServeStates
  BY DEF ServeStates, BusStates, MasterStates

\* r differs from b only in registers these theorems do not read, and in the tick of a
\* master cycle.
Same(r) == /\ DOMAIN r = Fields /\ r.bgack_n = b.bgack_n /\ r.as_n = b.as_n
           /\ r.m_tick = R.m_tick /\ r.enabled = b.enabled /\ r.req = b.req
           /\ r.data = b.data /\ r.idata = b.idata /\ r.served = b.served

\* The assignments made in every state.
LEMMA EveryState ==
  ASSUME DOMAIN b = Fields
  PROVE  Same(R) /\ R.state = b.state
  BY DEF R, Fields, Same

\* A state of a CPU cycle leaves the bus to the CPU; a request goes up with the entry of
\* BS_S_FIN_WAIT and down with its end; BS_S_EXMEM_FORK decides on a latched address.
Serves ==
    /\ DOMAIN b' = Fields /\ b'.bgack_n = b.bgack_n /\ b'.as_n = b.as_n
    /\ b.state \in ServeStates /\ b'.state \in ServeStates
    /\ b'.m_tick = R.m_tick /\ b'.served = b.served
    /\ \/ b'.enabled = b.enabled
       \/ b.state = "EXMEM_FORK" /\ b'.enabled = b.enabled \cup {sys_addr.u.kind}
    /\ b'.data \in {b.data, ReadData, per.of, sys_addr.u.age}
    /\ b'.idata \in {b.idata, PinData}
    /\ \/ b'.req = b.req /\ (b.state = "FIN_WAIT" <=> b'.state = "FIN_WAIT")
       \/ b'.req \in Peripherals /\ b'.state = "FIN_WAIT"
       \/ b'.req = "none" /\ b'.state # "FIN_WAIT"
    /\ b'.state = "EXMEM_FORK" =>
          \/ b.state = "EXMEM_FORK" /\ b'.pause = TRUE
          \/ b.state = "ABIN_U" /\ ~(bus_tick < 9 + SafeDelay) /\ sys_addr.u.kind \in Memory

SStep ==
    \/ BS_S_ABIN_U \/ BS_S_ABIN_L \/ BS_S_EXMEM_FORK \/ BS_S_EXMEM_RD
    \/ BS_S_EXMEM_RD_FIN \/ BS_S_EXMEM_RD_FIN_2 \/ BS_S_EXMEM_WR \/ BS_S_EXMEM_WR_FIN
    \/ BS_S_DBIN_P \/ BS_S_DBIN \/ BS_S_DBOUT \/ BS_S_FIN_WAIT \/ BS_S_FIN_RD
    \/ BS_S_FIN_RD_WAIT \/ BS_S_FIN \/ BS_S_INT \/ BS_S_IACK \/ BS_S_FAIL

\* Most steps only go from one state to another.
Plain == /\ Same(b')
         /\ b.state \in ServeStates /\ b'.state \in ServeStates
         /\ b.state \notin {"EXMEM_FORK", "FIN_WAIT"}
         /\ b'.state \notin {"EXMEM_FORK", "FIN_WAIT"}

LEMMA Plainly == Plain => Serves
  BY DEF Plain, Same, Serves

PlainStep == \/ BS_S_ABIN_L \/ BS_S_EXMEM_RD \/ BS_S_EXMEM_RD_FIN_2 \/ BS_S_EXMEM_WR_FIN
             \/ BS_S_FIN_RD \/ BS_S_FIN_RD_WAIT \/ BS_S_FIN \/ BS_S_INT \/ BS_S_FAIL

LEMMA PlainSteps ==
  ASSUME DOMAIN b = Fields, PlainStep
  PROVE  Plain
  <1>1. PICK r : r = R
    OBVIOUS
  <1>2. Same(r) /\ r.state = b.state
    BY EveryState, <1>1
  <1> DEFINE idle(q) == b' = [q EXCEPT !.mode = "0000", !.state = "IDLE"]
  <1> USE <1>1, <1>2, SomeFields, SomeStates DEF Same, Plain
  <1>3. CASE BS_S_ABIN_L
    <2>1. \/ idle(r)
          \/ b' = r
          \/ b' = [r EXCEPT !.mode = "0101", !.state = "DBOUT"]
          \/ \E d : b' = [r EXCEPT !.dtack_n = d, !.state = "DBIN_P"]
      BY <1>3, Zenon DEF BS_S_ABIN_L, ToIdle, Stay
    <2>2. b.state = "ABIN_L"
      BY <1>3 DEF BS_S_ABIN_L
    <2> HIDE <1>1
    <2>4. CASE idle(r)
      BY <2>2, <2>4
    <2>5. CASE b' = r
      BY <2>2, <2>5
    <2>6. CASE b' = [r EXCEPT !.mode = "0101", !.state = "DBOUT"]
      BY <2>2, <2>6
    <2>7. CASE \E d : b' = [r EXCEPT !.dtack_n = d, !.state = "DBIN_P"]
      BY <2>2, <2>7
    <2> QED
      BY <2>1, <2>4, <2>5, <2>6, <2>7
  <1>4. CASE BS_S_EXMEM_RD
    BY <1>4 DEF BS_S_EXMEM_RD
  <1>5. CASE BS_S_EXMEM_RD_FIN_2
    <2>1. PICK q : q = [r EXCEPT !.lock = FALSE]
      OBVIOUS
    <2>2. idle(q) \/ b' = q
      BY <1>5, <2>1, Zenon DEF BS_S_EXMEM_RD_FIN_2, ToIdle, Stay
    <2>3. b.state = "EXMEM_RD_FIN_2" /\ Same(q) /\ q.state = b.state
      BY <1>5, <2>1 DEF BS_S_EXMEM_RD_FIN_2
    <2> HIDE <1>1, <1>2
    <2>4. CASE idle(q)
      BY <2>3, <2>4
    <2>5. CASE b' = q
      BY <2>3, <2>5
    <2> QED
      BY <2>2, <2>4, <2>5
  <1>6. CASE BS_S_EXMEM_WR_FIN
    <2>1. PICK q : q = [r EXCEPT !.lock = FALSE]
      OBVIOUS
    <2>2. idle([q EXCEPT !.exmem_req = 0]) \/ b' = q
      BY <1>6, <2>1, Zenon DEF BS_S_EXMEM_WR_FIN, ToIdle, Stay
    <2>3. b.state = "EXMEM_WR_FIN" /\ Same(q) /\ q.state = b.state
      BY <1>6, <2>1 DEF BS_S_EXMEM_WR_FIN
    <2> HIDE <1>1, <1>2
    <2>4. CASE idle([q EXCEPT !.exmem_req = 0])
      BY <2>3, <2>4
    <2>5. CASE b' = q
      BY <2>3, <2>5
    <2> QED
      BY <2>2, <2>4, <2>5
  <1>7. CASE BS_S_FIN_RD
    BY <1>7 DEF BS_S_FIN_RD
  <1>8. CASE BS_S_FIN_RD_WAIT
    BY <1>8 DEF BS_S_FIN_RD_WAIT
  <1>9. CASE BS_S_FIN
    <2>1. PICK q : q = [r EXCEPT !.mode = IF b.rw = 1 THEN "0100" ELSE "0010"]
      OBVIOUS
    <2>2. idle([q EXCEPT !.dtack_n = 1]) \/ b' = q
      BY <1>9, <2>1, Zenon DEF BS_S_FIN, ToIdle, Stay
    <2>3. b.state = "FIN" /\ Same(q) /\ q.state = b.state
      BY <1>9, <2>1 DEF BS_S_FIN
    <2> HIDE <1>1, <1>2
    <2>4. CASE idle([q EXCEPT !.dtack_n = 1])
      BY <2>3, <2>4
    <2>5. CASE b' = q
      BY <2>3, <2>5
    <2> QED
      BY <2>2, <2>4, <2>5
  <1>10. CASE BS_S_INT
    <2>1. \/ idle(r)
          \/ b' = r
          \/ b' = [r EXCEPT !.mode = "0101", !.state = "IACK"]
          \/ b' = [r EXCEPT !.mode = "0000", !.state = "FAIL"]
      BY <1>10, Zenon DEF BS_S_INT, ToIdle, Stay
    <2>2. b.state = "INT"
      BY <1>10 DEF BS_S_INT
    <2> HIDE <1>1
    <2>4. CASE idle(r)
      BY <2>2, <2>4
    <2>5. CASE b' = r
      BY <2>2, <2>5
    <2>6. CASE b' = [r EXCEPT !.mode = "0101", !.state = "IACK"]
      BY <2>2, <2>6
    <2>7. CASE b' = [r EXCEPT !.mode = "0000", !.state = "FAIL"]
      BY <2>2, <2>7
    <2> QED
      BY <2>1, <2>4, <2>5, <2>6, <2>7
  <1>11. CASE BS_S_FAIL
    BY <1>11 DEF BS_S_FAIL
  <1> HIDE DEF Plain
  <1> QED
    BY <1>3, <1>4, <1>5, <1>6, <1>7, <1>8, <1>9, <1>10, <1>11 DEF PlainStep

LEMMA SSteps ==
  ASSUME DOMAIN b = Fields, SStep
  PROVE  Serves
  <1>1. PICK r : r = R
    OBVIOUS
  <1>2. Same(r) /\ r.state = b.state
    BY EveryState, <1>1
  <1> DEFINE idle(q) == b' = [q EXCEPT !.mode = "0000", !.state = "IDLE"]
  <1> USE SomeFields, SomeStates DEF Same
  <1>3. CASE PlainStep
    BY <1>3, PlainSteps, Plainly
  <1>4. CASE BS_S_ABIN_U
    <2>1. PICK q : q = [r EXCEPT !.rw = pin.rw_d]
      OBVIOUS
    <2>2. PICK d : d = IF setup.nowait /\ sys_addr.u.kind \in b.enabled /\ sdram.lock THEN 0
                       ELSE q.dtack_n
      OBVIOUS
    <2>3. PICK s : s = IF sys_addr.u.kind \in Iacks THEN "INT" ELSE "ABIN_L"
      OBVIOUS
    <2>4. \/ idle(q)
          \/ b' = q
          \/ idle([q EXCEPT !.lock = FALSE])
          \/ /\ b' = [q EXCEPT !.dtack_n = d, !.state = "EXMEM_FORK"]
             /\ ~(bus_tick < 9 + SafeDelay) /\ sys_addr.u.kind \in Memory
          \/ b' = [q EXCEPT !.lock = FALSE, !.state = s]
      BY <1>1, <1>4, <2>1, <2>2, <2>3, Zenon DEF BS_S_ABIN_U, ToIdle, Stay
    <2>5. /\ b.state = "ABIN_U" /\ Same(q) /\ q.state = "ABIN_U"
          /\ s \in {"INT", "ABIN_L"}
      BY <1>2, <1>4, <2>1, <2>3 DEF BS_S_ABIN_U
    <2>6. CASE \/ idle(q)
               \/ b' = q
               \/ idle([q EXCEPT !.lock = FALSE])
               \/ b' = [q EXCEPT !.lock = FALSE, !.state = s]
      <3>1. Same(b') /\ b'.state \in {"IDLE", "ABIN_U", s}
        <4>1. CASE idle(q)
          BY <2>5, <4>1
        <4>2. CASE b' = q
          BY <2>5, <4>2
        <4>3. CASE b' = [q EXCEPT !.lock = FALSE, !.state = s]
          BY <2>5, <4>3
        <4>4. CASE idle([q EXCEPT !.lock = FALSE])
          BY <2>5, <4>4
        <4> QED
          BY <2>6, <4>1, <4>2, <4>3, <4>4
      <3>2. Plain
        BY <2>5, <3>1 DEF Plain
      <3> QED
        BY <3>2, Plainly
    <2>7. CASE /\ b' = [q EXCEPT !.dtack_n = d, !.state = "EXMEM_FORK"]
               /\ ~(bus_tick < 9 + SafeDelay) /\ sys_addr.u.kind \in Memory
      <3>1. Same(b') /\ b'.state = "EXMEM_FORK"
        BY <2>5, <2>7
      <3> QED
        BY <2>5, <2>7, <3>1 DEF Serves
    <2> QED
      BY <2>4, <2>6, <2>7
  <1>5. CASE BS_S_EXMEM_FORK
    <2>1. \/ b' = [r EXCEPT !.exmem_req = 1, !.mode = "0101", !.state = "EXMEM_RD"]
          \/ b' = [r EXCEPT !.state = "EXMEM_WR"]
          \/ idle([r EXCEPT !.exmem_req = 0])
          \/ idle(r)
          \/ b' = [r EXCEPT !.pause = TRUE, !.enabled = @ \cup {sys_addr.u.kind},
                            !.update = ~@, !.exmem_req = IF b.rw = 1 THEN 1 ELSE @]
          \/ b' = [r EXCEPT !.pause = TRUE, !.exmem_req = 0, !.watchdog = @ - 1]
      BY <1>1, <1>5, Zenon DEF BS_S_EXMEM_FORK, ToIdle
    <2>2. b.state = "EXMEM_FORK"
      BY <1>5 DEF BS_S_EXMEM_FORK
    <2>3. CASE \/ b' = [r EXCEPT !.exmem_req = 1, !.mode = "0101", !.state = "EXMEM_RD"]
               \/ b' = [r EXCEPT !.state = "EXMEM_WR"]
               \/ idle([r EXCEPT !.exmem_req = 0])
               \/ idle(r)
      <3>1. Same(b') /\ b'.state \in {"EXMEM_RD", "EXMEM_WR", "IDLE"}
        <4>1. CASE b' = [r EXCEPT !.exmem_req = 1, !.mode = "0101", !.state = "EXMEM_RD"]
          BY <1>2, <4>1
        <4>2. CASE b' = [r EXCEPT !.state = "EXMEM_WR"]
          BY <1>2, <4>2
        <4>3. CASE idle([r EXCEPT !.exmem_req = 0]) \/ idle(r)
          BY <1>2, <4>3
        <4> QED
          BY <2>3, <4>1, <4>2, <4>3
      <3> QED
        BY <2>2, <3>1 DEF Serves
    <2>4. CASE b' = [r EXCEPT !.pause = TRUE, !.enabled = @ \cup {sys_addr.u.kind},
                              !.update = ~@, !.exmem_req = IF b.rw = 1 THEN 1 ELSE @]
      BY <1>2, <2>2, <2>4 DEF Serves
    <2>5. CASE b' = [r EXCEPT !.pause = TRUE, !.exmem_req = 0, !.watchdog = @ - 1]
      BY <1>2, <2>2, <2>5 DEF Serves
    <2> QED
      BY <2>1, <2>3, <2>4, <2>5
  <1>6. CASE BS_S_EXMEM_RD_FIN
    BY <1>1, <1>2, <1>6 DEF BS_S_EXMEM_RD_FIN, Serves
  <1>7. CASE BS_S_EXMEM_WR
    <2>1. PICK q : q = [R EXCEPT !.dtack_n = IF sys_addr.u.kind # "mem1" /\ setup.nowait
                                             THEN 0 ELSE @]
      OBVIOUS
    <2>2. Same(q) /\ q.state = b.state
      BY <1>1, <1>2, <2>1
    <2>3. \/ b' = q
          \/ b' = [q EXCEPT !.mode = "0011"]
          \/ b' = [q EXCEPT !.idata = PinData, !.exmem_req = 1, !.mode = "0010",
                            !.dtack_n = IF sys_addr.u.kind # "mem1" THEN 0 ELSE @,
                            !.state = "EXMEM_WR_FIN"]
      BY <1>7, <2>1, Zenon DEF BS_S_EXMEM_WR, Stay
    <2>4. b.state = "EXMEM_WR"
      BY <1>7 DEF BS_S_EXMEM_WR
    <2>5. CASE b' = q \/ b' = [q EXCEPT !.mode = "0011"]
      <3>1. Plain
        BY <2>2, <2>4, <2>5 DEF Plain
      <3> QED
        BY <3>1, Plainly
    <2>6. CASE b' = [q EXCEPT !.idata = PinData, !.exmem_req = 1, !.mode = "0010",
                              !.dtack_n = IF sys_addr.u.kind # "mem1" THEN 0 ELSE @,
                              !.state = "EXMEM_WR_FIN"]
      BY <2>2, <2>4, <2>6 DEF Serves
    <2> QED
      BY <2>3, <2>5, <2>6
  <1>8. CASE BS_S_DBIN_P
    <2>1. \/ idle(r) \/ b' = r \/ b' = [r EXCEPT !.mode = "0011"]
          \/ b' = [r EXCEPT !.mode = "0011", !.idata = PinData, !.state = "DBIN"]
      BY <1>1, <1>8, Zenon DEF BS_S_DBIN_P, ToIdle, Stay
    <2>2. b.state = "DBIN_P"
      BY <1>8 DEF BS_S_DBIN_P
    <2>3. CASE idle(r) \/ b' = r \/ b' = [r EXCEPT !.mode = "0011"]
      <3>1. Same(b') /\ b'.state \in {"IDLE", "DBIN_P"}
        <4>1. CASE idle(r)
          BY <1>2, <4>1
        <4>2. CASE b' = r \/ b' = [r EXCEPT !.mode = "0011"]
          BY <1>2, <2>2, <4>2
        <4> QED
          BY <2>3, <4>1, <4>2
      <3>2. Plain
        BY <2>2, <3>1 DEF Plain
      <3> QED
        BY <3>2, Plainly
    <2>4. CASE b' = [r EXCEPT !.mode = "0011", !.idata = PinData, !.state = "DBIN"]
      BY <1>2, <2>2, <2>4 DEF Serves
    <2> QED
      BY <2>1, <2>3, <2>4
  <1>9. CASE BS_S_DBIN
    <2>1. PICK k, d : /\ k = sys_addr.l.kind
                      /\ d = IF k \in {"kx", "midi"} THEN 0 ELSE r.dtack_n
      OBVIOUS
    <2>2. \/ idle(r)
          \/ /\ k \in Peripherals
             /\ b' = [r EXCEPT !.req = k, !.idata = PinData, !.state = "FIN_WAIT",
                               !.dtack_n = d]
      <3>1. CASE k \in Peripherals /\ On(k)
        BY <1>1, <1>2, <1>9, <2>1, <3>1 DEF BS_S_DBIN
      <3>2. CASE ~(k \in Peripherals /\ On(k))
        BY <1>1, <1>9, <2>1, <3>2, Zenon DEF BS_S_DBIN, ToIdle
      <3> QED
        BY <3>1, <3>2
    <2>3. b.state = "DBIN"
      BY <1>9 DEF BS_S_DBIN
    <2>4. CASE idle(r)
      <3>1. Plain
        BY <1>2, <2>3, <2>4 DEF Plain
      <3> QED
        BY <3>1, Plainly
    <2>5. CASE /\ k \in Peripherals
               /\ b' = [r EXCEPT !.req = k, !.idata = PinData, !.state = "FIN_WAIT",
                                 !.dtack_n = d]
      BY <1>2, <2>3, <2>5 DEF Serves
    <2> QED
      BY <2>2, <2>4, <2>5
  <1>10. CASE BS_S_DBOUT
    <2>1. \/ idle(r)
          \/ \E k \in Peripherals : b' = [r EXCEPT !.req = k, !.state = "FIN_WAIT"]
      BY <1>1, <1>10, Zenon DEF BS_S_DBOUT, Peripherals, ToIdle
    <2>2. b.state = "DBOUT"
      BY <1>10 DEF BS_S_DBOUT
    <2>3. CASE idle(r)
      <3>1. Plain
        BY <1>2, <2>2, <2>3 DEF Plain
      <3> QED
        BY <3>1, Plainly
    <2>4. CASE \E k \in Peripherals : b' = [r EXCEPT !.req = k, !.state = "FIN_WAIT"]
      BY <1>2, <2>2, <2>4 DEF Serves
    <2> QED
      BY <2>1, <2>3, <2>4
  <1>11. CASE BS_S_FIN_WAIT
    <2>1. \/ b' = [r EXCEPT !.data = per.of]
          \/ idle([r EXCEPT !.data = per.of, !.req = "none"])
          \/ \E s \in {"FIN", "FIN_RD"} : \E d :
                b' = [r EXCEPT !.data = per.of, !.req = "none", !.dtack_n = d, !.state = s]
      BY <1>1, <1>11, Zenon DEF BS_S_FIN_WAIT, ToIdle, Stay
    <2>2. b.state = "FIN_WAIT"
      BY <1>11 DEF BS_S_FIN_WAIT
    <2>3. CASE b' = [r EXCEPT !.data = per.of]
      BY <1>2, <2>2, <2>3 DEF Serves
    <2>4. CASE idle([r EXCEPT !.data = per.of, !.req = "none"])
      BY <1>2, <2>2, <2>4 DEF Serves
    <2>5. CASE \E s \in {"FIN", "FIN_RD"} : \E d :
                  b' = [r EXCEPT !.data = per.of, !.req = "none", !.dtack_n = d, !.state = s]
      BY <1>2, <2>2, <2>5 DEF Serves
    <2> QED
      BY <2>1, <2>3, <2>4, <2>5
  <1>12. CASE BS_S_IACK
    <2>1. CASE b.state = "IACK" /\ b' = [r EXCEPT !.data = sys_addr.u.age, !.state = "IACK2"]
      BY <1>2, <2>1 DEF Serves
    <2>2. CASE b.state = "IACK2" /\ b' = [r EXCEPT !.state = "FIN_RD"]
      <3>1. Plain
        BY <1>2, <2>2 DEF Plain
      <3> QED
        BY <3>1, Plainly
    <2> QED
      BY <1>1, <1>12, <2>1, <2>2, Zenon DEF BS_S_IACK
  <1> QED
    BY <1>3, <1>4, <1>5, <1>6, <1>7, <1>8, <1>9, <1>10, <1>11, <1>12 DEF SStep, PlainStep

\* A state of a master cycle keeps BGACK and drives AS, up to BS_M_FIN, which releases
\* both.
Masters ==
    /\ DOMAIN b' = Fields /\ b.state \in MasterStates
    /\ \/ /\ b'.bgack_n = b.bgack_n /\ b'.as_n \in {b.as_n, 0, 1}
          /\ b'.state \in MasterStates
       \/ /\ b'.bgack_n = 1 /\ b'.as_n = 1
          /\ b.state = "M_FIN" /\ b'.state = "IDLE"
    /\ b'.m_tick \in {R.m_tick, 32} /\ b'.served = b.served /\ b'.enabled = b.enabled
    /\ b'.data = b.data /\ b'.idata = b.idata /\ b'.req = b.req

MStep ==
    \/ BS_M_ABOUT_U \/ BS_M_ABOUT_L \/ BS_M_DBIN_WAIT \/ BS_M_DBIN \/ BS_M_DBOUT
    \/ BS_M_DBOUT_WAIT \/ BS_M_FIN_WAIT \/ BS_M_FIN

LEMMA MSteps ==
  ASSUME DOMAIN b = Fields, MStep
  PROVE  Masters
  <1>1. PICK r : r = R
    OBVIOUS
  <1>2. Same(r) /\ r.state = b.state
    BY EveryState, <1>1
  <1> USE <1>1, <1>2, SomeFields DEF Same, Masters, MasterStates, ToIdle, Stay
  <1>3. CASE BS_M_ABOUT_U
    BY <1>3 DEF BS_M_ABOUT_U
  <1>4. CASE BS_M_ABOUT_L
    BY <1>4 DEF BS_M_ABOUT_L
  <1>5. CASE BS_M_DBIN_WAIT
    BY <1>5 DEF BS_M_DBIN_WAIT, Await
  <1>6. CASE BS_M_DBIN
    BY <1>6 DEF BS_M_DBIN
  <1>7. CASE BS_M_DBOUT
    BY <1>7 DEF BS_M_DBOUT
  <1>8. CASE BS_M_DBOUT_WAIT
    BY <1>8 DEF BS_M_DBOUT_WAIT, Await
  <1>9. CASE BS_M_FIN_WAIT
    BY <1>9 DEF BS_M_FIN_WAIT
  <1>10. CASE BS_M_FIN
    <2>1. PICK q : q = [r EXCEPT !.m_pause = TRUE, !.br_n = 1, !.as_n = 1]
      OBVIOUS
    <2>2. b' = q \/ ToIdle([q EXCEPT !.bgack_n = 1])
      BY <1>10, <2>1, Zenon DEF BS_M_FIN, Stay
    <2>3. /\ DOMAIN q = Fields /\ q.bgack_n = b.bgack_n /\ q.as_n = 1 /\ q.state = "M_FIN"
          /\ q.m_tick = R.m_tick /\ q.served = b.served /\ q.enabled = b.enabled
          /\ q.data = b.data /\ q.idata = b.idata /\ q.req = b.req
          /\ b.state = "M_FIN"
      BY <1>10, <2>1 DEF BS_M_FIN
    <2> HIDE <1>1, <1>2
    <2>4. CASE b' = q
      BY <2>3, <2>4
    <2>5. CASE ToIdle([q EXCEPT !.bgack_n = 1])
      BY <2>3, <2>5
    <2> QED
      BY <2>2, <2>4, <2>5
  <1> HIDE DEF Masters
  <1> QED
    BY <1>3, <1>4, <1>5, <1>6, <1>7, <1>8, <1>9, <1>10 DEF MStep

\* BS_IDLE gives the bus to the board when the samples show BG low and AS high, and
\* to the CPU otherwise.
Idles ==
    /\ DOMAIN b' = Fields /\ b'.as_n = 1 /\ b.state = "IDLE"
    /\ \/ b'.bgack_n = 1 /\ b'.state \in {"IDLE", "ABIN_U"}
       \/ /\ b'.bgack_n = 0 /\ b'.state = "M_ABOUT_U"
          /\ pin.bg_d = 0 /\ pin.as_d = 1
    /\ b'.m_tick = 0 /\ b'.served \in {b.served, 0} /\ b'.enabled = reg3.en
    /\ b'.data = b.data /\ b'.idata = b.idata /\ b'.req = "none"

LEMMA IdleSteps ==
  ASSUME DOMAIN b = Fields, BS_IDLE
  PROVE  Idles
  <1>1. PICK r : r = R
    OBVIOUS
  <1>2. Same(r) /\ r.state = b.state /\ b.state = "IDLE"
    BY EveryState, <1>1 DEF BS_IDLE
  <1>3. PICK q : q = [r EXCEPT !.dtack_n = 1, !.req = "none", !.exmem_req = 0,
                               !.enabled = reg3.en, !.m_tick = 0, !.m_pause = TRUE,
                               !.bgack_n = 1, !.as_n = 1, !.lock = Lock(R)]
    OBVIOUS
  <1>4. \/ /\ b' = [q EXCEPT !.mode = "1000", !.bgack_n = 0, !.br_n = 1,
                             !.m_pause = FALSE, !.state = "M_ABOUT_U"]
           /\ pin.bg_d = 0 /\ pin.as_d = 1
        \/ b' = [q EXCEPT !.state = "ABIN_U", !.watchdog = WatchdogInit, !.served = 0]
        \/ b' = q
    BY <1>1, <1>3, Zenon DEF BS_IDLE
  <1>5. /\ DOMAIN q = Fields /\ q.as_n = 1 /\ q.bgack_n = 1 /\ q.state = "IDLE"
        /\ q.m_tick = 0 /\ q.served = b.served /\ q.enabled = reg3.en
        /\ q.data = b.data /\ q.idata = b.idata /\ q.req = "none"
    BY <1>2, <1>3, SomeFields DEF Same
  <1>6. CASE b' = [q EXCEPT !.mode = "1000", !.bgack_n = 0, !.br_n = 1,
                            !.m_pause = FALSE, !.state = "M_ABOUT_U"]
             /\ pin.bg_d = 0 /\ pin.as_d = 1
    BY <1>2, <1>5, <1>6, SomeFields DEF Idles
  <1>7. CASE b' = [q EXCEPT !.state = "ABIN_U", !.watchdog = WatchdogInit, !.served = 0]
    BY <1>2, <1>5, <1>7, SomeFields DEF Idles
  <1>8. CASE b' = q
    BY <1>2, <1>5, <1>8 DEF Idles
  <1> QED
    BY <1>4, <1>6, <1>7, <1>8

LEMMA BusSteps ==
  ASSUME DOMAIN b = Fields, BusStep
  PROVE  Serves \/ Masters \/ Idles
  BY SSteps, MSteps, IdleSteps DEF BusStep, SStep, MStep

LEMMA BusMoves ==
  ASSUME Owner, BusStep
  PROVE  /\ Owner'
         /\ b.bgack_n = 1 /\ b'.bgack_n = 0 => pin.bg_d = 0 /\ pin.as_d = 1
         /\ b.bgack_n = 0 /\ b'.bgack_n = 1 => b.state = "M_FIN"
         /\ b'.state = "M_FIN" => b.bgack_n = 0
  <1>1. Serves \/ Masters \/ Idles
    BY BusSteps DEF Owner
  <1> QED
    BY <1>1 DEF Serves, ServeStates, Masters, Idles, Owner, BusStates, MasterStates

-----------------------------------------------------------------------------
(* Both sides together.                                                     *)

LEMMA InitExclusive == BusInit => Exclusive
  BY Timing DEF BusInit, CpuInit, Exclusive, CpuTyped, CpuStates, Owner, Fields, BusStates,
     MasterStates, Granted, Released, Taken, Regranted, Quiet, InCycle, NoCycle

\* The CPU begins nothing on a granted bus, and the board's registers only age.
LEMMA BeginExclusive ==
  ASSUME Exclusive, BeginCycle
  PROVE  Exclusive'
  <1>1. /\ CpuTyped' /\ cpu'.bg_n = cpu.bg_n
        /\ cpu.bg_n = 0 \/ b.bgack_n = 0 => Quiet'
    BY CpuBegins DEF Exclusive, BeginCycle
  <1>2. /\ DOMAIN b' = DOMAIN b /\ b'.state = b.state
        /\ b'.bgack_n = b.bgack_n /\ b'.as_n = b.as_n /\ pin' = pin
    BY DEF Exclusive, Owner, BeginCycle, Fields
  <1> QED
    BY <1>1, <1>2 DEF Exclusive, Owner, Granted, Released, Taken, Regranted

\* An edge: the grant follows BR and BGACK, the samples follow the pins, and the state
\* machine moves on what they were.
LEMMA EdgeExclusive ==
  ASSUME Exclusive, BusStep, Edge
  PROVE  Exclusive'
  <1>1. /\ CpuTyped' /\ cpu'.bg_n = Grant(b.br_n, b.bgack_n)
        /\ Quiet => Quiet'
        /\ CpuAs => CpuAs' \/ Quiet'
    BY CpuTicks DEF Exclusive, Edge
  <1>2. /\ Owner'
        /\ b.bgack_n = 1 /\ b'.bgack_n = 0 => pin.bg_d = 0 /\ pin.as_d = 1
        /\ b.bgack_n = 0 /\ b'.bgack_n = 1 => b.state = "M_FIN"
        /\ b'.state = "M_FIN" => b.bgack_n = 0
    BY BusMoves DEF Exclusive
  <1>3. b.bgack_n \in {0, 1} /\ b'.bgack_n \in {0, 1}
    BY <1>2 DEF Exclusive, Owner
  <1>4. pin'.bg_d = cpu.bg_n /\ (pin'.as_d = 1 => ~CpuAs)
    BY DEF Edge, Sample, AsPin
  <1>5. Granted'
    BY <1>1 DEF Exclusive, Granted, Grant, Quiet
  <1>6. Released'
    BY <1>1, <1>2, <1>3, <1>4 DEF Exclusive, Granted, Released, Regranted, Grant
  <1>7. Taken'
    BY <1>1, <1>2, <1>3 DEF Exclusive, Taken, Released
  <1>8. Regranted'
    BY <1>1, <1>2 DEF Regranted, Grant
  <1> QED
    BY <1>1, <1>2, <1>5, <1>6, <1>7, <1>8 DEF Exclusive

LEMMA Unmoved ==
  ASSUME Exclusive, UNCHANGED vars
  PROVE  Exclusive'
  BY DEF vars, boardVars, Exclusive, CpuTyped, Owner, Granted, Released, Taken, Regranted,
     Quiet, CpuAs, InCycle

\* The board drives the bus as its master only after the CPU released it, and gives it
\* back only with its strobes released (BS_IDLE, BS_M_ABOUT_U to BS_M_FIN).
THEOREM OneMaster == Spec => []MasterExclusive
  <1>1. BusInit => Exclusive
    BY InitExclusive
  <1>2. Exclusive /\ [Next]_vars => Exclusive'
    <2> SUFFICES ASSUME Exclusive, [Next]_vars
                 PROVE  Exclusive'
      OBVIOUS
    <2>1. CASE BeginCycle
      BY <2>1, BeginExclusive
    <2>2. CASE BusStep /\ Edge
      BY <2>2, EdgeExclusive
    <2>3. CASE UNCHANGED vars
      BY <2>3, Unmoved
    <2> QED
      BY <2>1, <2>2, <2>3, NextSteps
  <1>3. Exclusive => MasterExclusive
    <2> SUFFICES ASSUME Exclusive
                 PROVE  MasterExclusive
      OBVIOUS
    <2>1. Quiet => ~CpuAs
      BY Timing DEF Exclusive, CpuTyped, Quiet, CpuAs
    <2> QED
      BY <2>1 DEF Exclusive, Taken, Owner, MasterExclusive
  <1> QED
    BY <1>1, <1>2, <1>3, PTL DEF Spec

-----------------------------------------------------------------------------
(* The types of the registers.                                              *)

Ages  == 0..Old

\* The registers of the state machine that TypeOK constrains.
Registers ==
    /\ DOMAIN b = Fields /\ b.m_tick \in 0..63 /\ b.enabled \subseteq Memory
    /\ b.req \in Peripherals \cup {"none"} /\ (b.state = "FIN_WAIT" <=> b.req # "none")
    /\ b.data \in Ages /\ b.idata \in Ages /\ b.served \in Ages

\* The kind that BS_S_EXMEM_FORK decides on was latched before it and stays: the tick
\* is past that of the latch, or has begun again and pauses.
Forked ==
    b.state = "EXMEM_FORK" =>
        /\ sys_addr.u.kind \in Memory
        /\ bus_tick >= 9 + SafeDelay \/ bus_tick = 0 \/ (b.pause = TRUE /\ bus_tick = 1)

\* The rest of the board's data.
Beside ==
    /\ m68k_state \in M68kStates /\ bus_tick \in 0..63
    /\ DOMAIN sys_addr = {"u", "l"}
    /\ \A h \in {"u", "l"} : DOMAIN sys_addr[h] = {"kind", "age"} /\ sys_addr[h].age \in Ages
    /\ reg3.en \subseteq Memory
    /\ DOMAIN latch = {"data", "left"} /\ latch.data \in Ages
    /\ DOMAIN per = {"s", "age", "left", "of", "intact"} /\ per.of \in Ages
    /\ DOMAIN ex = {"s", "en", "data", "ds"} /\ ex.data \in Ages
    /\ DOMAIN sdram = {"busy", "op", "at", "data", "ds", "ready", "lock"} /\ sdram.data \in Ages
    /\ DOMAIN sdram.at = {"u", "l"} /\ sdram.at["u"] \in Ages /\ sdram.at["l"] \in Ages

LEMMA TickTyped ==
  ASSUME Registers
  PROVE  R.m_tick \in 0..63
  BY DEF Registers, R, Fields

LEMMA DataTyped ==
  ASSUME Beside
  PROVE  /\ PinData \in Ages /\ ReadData \in Ages /\ per.of \in Ages
         /\ sys_addr.u.age \in Ages /\ sys_addr.l.age \in Ages /\ 0 \in Ages
         /\ reg3.en \subseteq Memory
  BY DEF Beside, PinData, ReadData, Ages, Old

LEMMA RegistersTyped ==
  ASSUME Registers, Beside, Forked, BusStep
  PROVE  Registers'
  <1>1. Serves \/ Masters \/ Idles
    BY BusSteps DEF Registers
  <1>2. CASE Serves
    <2>1. b'.enabled \subseteq Memory
      BY <1>2 DEF Serves, Registers, Forked
    <2>2. b'.data \in Ages /\ b'.idata \in Ages /\ b'.served \in Ages
      BY <1>2, DataTyped DEF Serves, Registers
    <2>3. /\ b'.req \in Peripherals \cup {"none"}
          /\ b'.state = "FIN_WAIT" <=> b'.req # "none"
      BY <1>2 DEF Serves, Registers, Peripherals
    <2> QED
      BY <1>2, <2>1, <2>2, <2>3, TickTyped DEF Serves, Registers
  <1>3. CASE Masters
    BY <1>3, TickTyped DEF Masters, MasterStates, Registers
  <1>4. CASE Idles
    BY <1>4, DataTyped DEF Idles, Registers
  <1> QED
    BY <1>1, <1>2, <1>3, <1>4

\* BS_S_EXMEM_FORK is entered from BS_S_ABIN_U with the address latched, or pauses the
\* tick.
LEMMA ForkMoves ==
  ASSUME Registers, BusStep, b'.state = "EXMEM_FORK"
  PROVE  \/ b.state = "EXMEM_FORK" /\ b'.pause = TRUE
         \/ b.state = "ABIN_U" /\ ~(bus_tick < 9 + SafeDelay) /\ sys_addr.u.kind \in Memory
  <1>1. Serves \/ Masters \/ Idles
    BY BusSteps DEF Registers
  <1>2. ~Masters /\ ~Idles
    BY DEF Masters, MasterStates, Idles
  <1> QED
    BY <1>1, <1>2, Zenon DEF Serves

LEMMA Delay == SafeDelay \in {0, 2}
  BY DEF SafeDelay

LEMMA ForkKept ==
  ASSUME Registers, Beside, Forked, BusStep, Edge
  PROVE  Forked'
  <1> SUFFICES ASSUME b'.state = "EXMEM_FORK"
               PROVE  /\ sys_addr'.u.kind \in Memory
                      /\ \/ bus_tick' >= 9 + SafeDelay \/ bus_tick' = 0
                         \/ b'.pause = TRUE /\ bus_tick' = 1
    BY DEF Forked, Edge, BusTick, SafeDelay
  <1>1. /\ sys_addr.u.kind \in Memory
        /\ \/ bus_tick >= 9 + SafeDelay
           \/ b'.pause = TRUE /\ bus_tick = 0
           \/ b.pause = TRUE /\ b'.pause = TRUE /\ bus_tick = 1
    <2>1. CASE b.state = "EXMEM_FORK" /\ b'.pause = TRUE
      BY <2>1, Zenon DEF Forked
    <2>2. CASE b.state = "ABIN_U" /\ ~(bus_tick < 9 + SafeDelay) /\ sys_addr.u.kind \in Memory
      <3>1. bus_tick >= 9 + SafeDelay
        BY <2>2, Delay DEF Beside
      <3> QED
        BY <2>2, <3>1, Zenon
    <2> QED
      BY <2>1, <2>2, ForkMoves, Zenon
  <1>2. bus_tick # 8 + SafeDelay
    BY <1>1, Delay DEF Beside
  <1>3. sys_addr'.u.kind \in Memory
    BY <1>1, <1>2 DEF Beside, Edge, AddressLatch
  <1>4. \/ bus_tick' \in {0, 32, bus_tick}
        \/ bus_tick' = bus_tick + 1 /\ b.pause # TRUE
    BY DEF Edge, Tracker
  <1>5. \/ bus_tick' >= 9 + SafeDelay
        \/ bus_tick' = 0
        \/ bus_tick' = 1 /\ bus_tick \in {0, 1}
    <2>1. bus_tick' \in {0, 32, bus_tick, bus_tick + 1}
      BY <1>4
    <2>2. b.pause = TRUE => bus_tick' \in {0, 32, bus_tick}
      BY <1>4, Zenon
    <2>3. CASE bus_tick >= 9 + SafeDelay
      BY <2>1, <2>3, Delay DEF Beside
    <2>4. CASE bus_tick = 0
      BY <2>1, <2>4, Delay
    <2>5. CASE bus_tick = 1 /\ bus_tick' \in {0, 32, bus_tick}
      BY <2>5, Delay
    <2> QED
      BY <1>1, <2>2, <2>3, <2>4, <2>5, Zenon
  <1>6. bus_tick \in {0, 1} => b'.pause = TRUE
    <2>1. ~(bus_tick \in {0, 1} /\ bus_tick >= 9 + SafeDelay)
      BY Delay
    <2> QED
      BY <1>1, <2>1, Zenon
  <1> QED
    BY <1>3, <1>5, <1>6, Zenon

LEMMA TicksTyped ==
  ASSUME Beside, Edge
  PROVE  m68k_state' \in M68kStates /\ bus_tick' \in 0..63
  <1>1. Track \in M68kStates
    BY DEF Beside, Track, M68kStates
  <1> QED
    BY <1>1 DEF Beside, Edge, Tracker

LEMMA BesideEdge ==
  ASSUME Registers, Beside, Edge
  PROVE  Beside'
  <1>1. m68k_state' \in M68kStates /\ bus_tick' \in 0..63
    BY TicksTyped
  <1>2. /\ DOMAIN sys_addr' = {"u", "l"}
        /\ \A h \in {"u", "l"} : DOMAIN sys_addr'[h] = {"kind", "age"} /\ sys_addr'[h].age \in Ages
    BY DataTyped DEF Beside, Edge, AddressLatch, PinAddress
  <1>3. reg3'.en \subseteq Memory
    BY DEF Registers, Beside, Edge, UpdateReg3
  <1>4. DOMAIN latch' = {"data", "left"} /\ latch'.data \in Ages
    BY DataTyped DEF Beside, Edge, DataLatch, Ages, Old
  <1>5. DOMAIN per' = {"s", "age", "left", "of", "intact"} /\ per'.of \in Ages
    <2>1. Peripheral /\ DOMAIN per = {"s", "age", "left", "of", "intact"}
      BY DEF Beside, Edge
    <2>2. CASE per.s = "IDLE" /\ b.req # "none"
      <3>1. PICK n, x : per' = [s |-> "BUSY", age |-> 1, left |-> n, of |-> sys_addr.l.age,
                                intact |-> x]
        BY <2>1, <2>2, Zenon DEF Peripheral
      <3> QED
        BY <3>1, DataTyped
    <2>3. CASE per.s = "BUSY" /\ b.req # "none"
      <3>1. PICK x : per' = [per EXCEPT !.s = IF per.left = 0 THEN "ACK" ELSE @,
                                        !.left = IF @ = 0 THEN 0 ELSE @ - 1,
                                        !.age = IF @ < 7 THEN @ + 1 ELSE @, !.intact = x]
        <4>1. per.s # "IDLE"
          BY <2>3
        <4> QED
          BY <2>1, <2>3, <4>1, Zenon DEF Peripheral
      <3> QED
        BY <2>1, <3>1, DataTyped
    <2>4. CASE per.s # "IDLE" /\ b.req = "none"
      BY <2>1, <2>4, DataTyped DEF Peripheral
    <2>5. CASE ~(per.s = "IDLE" /\ b.req # "none") /\ ~(per.s = "BUSY" /\ b.req # "none")
               /\ ~(per.s # "IDLE" /\ b.req = "none")
      BY <2>1, <2>5, DataTyped DEF Peripheral
    <2> QED
      BY <2>2, <2>3, <2>4, <2>5
  <1>6. DOMAIN ex' = {"s", "en", "data", "ds"} /\ ex'.data \in Ages
    BY DEF Registers, Beside, Edge, ExMemory
  <1>7. /\ DOMAIN sdram' = {"busy", "op", "at", "data", "ds", "ready", "lock"} /\ sdram'.data \in Ages
        /\ DOMAIN sdram'.at = {"u", "l"} /\ sdram'.at["u"] \in Ages /\ sdram'.at["l"] \in Ages
    <2>1. PICK q : q = [sdram EXCEPT !.busy = IF sdram.busy = 0 THEN 0 ELSE @ - 1,
                          !.lock = b.lock, !.ready = sdram.busy = 1 /\ sdram.op = "read",
                          !.at = IF ex.en THEN [u |-> sys_addr.u.age, l |-> sys_addr.l.age]
                                 ELSE @]
      OBVIOUS
    <2>2. /\ DOMAIN q = DOMAIN sdram /\ q.data \in Ages
          /\ DOMAIN q.at = {"u", "l"} /\ q.at["u"] \in Ages /\ q.at["l"] \in Ages
      BY <2>1, DataTyped DEF Beside
    <2>3. Sdram
      BY DEF Edge
    <2>4. CASE sdram.busy = 0 /\ ex.en
      <3>1. sdram' = [q EXCEPT !.op = IF ex.s = "RD_REQ" THEN "read" ELSE "write",
                               !.busy = ReadLatency, !.data = ex.data, !.ds = ex.ds]
        BY <2>1, <2>3, <2>4 DEF Sdram
      <3> QED
        BY <2>2, <3>1 DEF Beside
    <2>5. CASE ~(sdram.busy = 0 /\ ex.en)
      <3>1. \/ sdram' = q
            \/ sdram' = [q EXCEPT !.op = "refresh", !.busy = setup.refresh, !.lock = FALSE]
        BY <2>1, <2>3, <2>5 DEF Sdram
      <3> QED
        BY <2>2, <3>1 DEF Beside
    <2> QED
      BY <2>4, <2>5
  <1> QED
    BY <1>1, <1>2, <1>3, <1>4, <1>5, <1>6, <1>7 DEF Beside

LEMMA InitTyped == BusInit => Registers /\ Forked /\ Beside
  BY SetupAssumption DEF BusInit, CpuInit, Registers, Forked, Beside, Fields, Ages, Old,
     M68kStates, Peripherals, Memory

\* The beginning of a CPU cycle only ages the data.
LEMMA BeginTyped ==
  ASSUME Registers, Forked, Beside, BeginCycle
  PROVE  Registers' /\ Forked' /\ Beside'
  <1>1. \A age \in Ages : Older(age) \in Ages
    BY DEF Ages, Old, Older
  <1>2. Registers'
    BY <1>1 DEF Registers, BeginCycle, Fields
  <1>3. Forked'
    BY DEF Registers, Forked, Beside, BeginCycle, CpuBegin, SafeDelay, Fields
  <1>4. Beside'
    BY <1>1 DEF Beside, BeginCycle
  <1> QED
    BY <1>2, <1>3, <1>4

Typed == Exclusive /\ Registers /\ Forked /\ Beside

LEMMA TypedAlways == Spec => []Typed
  <1>1. BusInit => Typed
    BY InitExclusive, InitTyped DEF Typed
  <1>2. Typed /\ [Next]_vars => Typed'
    <2> SUFFICES ASSUME Typed, [Next]_vars
                 PROVE  Typed'
      OBVIOUS
    <2>1. CASE BeginCycle
      BY <2>1, BeginExclusive, BeginTyped DEF Typed
    <2>2. CASE BusStep /\ Edge
      BY <2>2, EdgeExclusive, RegistersTyped, ForkKept, BesideEdge DEF Typed
    <2>3. CASE UNCHANGED vars
      BY <2>3, Unmoved DEF vars, boardVars, Typed, Registers, Forked, Beside, SafeDelay
    <2> QED
      BY <2>1, <2>2, <2>3, NextSteps
  <1> QED
    BY <1>1, <1>2, PTL DEF Spec

\* The registers keep their types, and the request of a peripheral is up exactly in
\* BS_S_FIN_WAIT.
THEOREM Typing == Spec => []TypeOK
  <1>1. Typed => TypeOK
    BY DEF Typed, Exclusive, Owner, Registers, Beside, TypeOK, Ages, Old
  <1> QED
    BY <1>1, TypedAlways, PTL DEF Spec

-----------------------------------------------------------------------------
(***************************************************************************)
(* Autodetection.  BS_S_EXMEM_FORK claims a block when the watchdog has     *)
(* counted down and the samples show neither a DTACK nor a released AS.     *)
(* The address it claims is a latch that may belong to another cycle, and   *)
(* the watchdog may run across the end of a cycle; that only a free block   *)
(* is claimed needs                                                         *)
(*   Clocked, Strobed: how far the samples are behind the CPU's pins,       *)
(*   Counters:  the tick of a master cycle is gone when a cycle begins,     *)
(*   Tracked:   the board's S-state is the CPU's from S0 to S3, and no      *)
(*              longer S2 after it,                                         *)
(*   Addressed: from S4 on the latched address is that of the CPU's cycle,  *)
(*   Awaited:   the main board answers within WatchdogInit ticks,           *)
(*   Watched:   the watchdog is ahead of the answer.                        *)
(***************************************************************************)

\* What a step of the state machine does to autodetection: it ends it,
Ends ==
    /\ b.state \in ServeStates \ {"IDLE"} /\ b'.state \in ServeStates
    /\ b'.state \notin {"ABIN_U", "EXMEM_FORK"} /\ b'.pause = FALSE
    /\ b'.enabled = b.enabled

\* waits for the address, decides on it, counts the watchdog or claims the block,
Waits ==
    /\ b.state = "ABIN_U" /\ b'.state = "ABIN_U" /\ ~AsHigh /\ b'.pause = FALSE
    /\ b'.watchdog = b.watchdog /\ b'.dtack_n = b.dtack_n /\ b'.enabled = b.enabled
Decides ==
    /\ b.state = "ABIN_U" /\ b'.state = "EXMEM_FORK" /\ ~AsHigh /\ b'.pause = FALSE
    /\ ~(bus_tick < 9 + SafeDelay)
    /\ b'.watchdog = b.watchdog /\ b'.enabled = b.enabled
    /\ b'.dtack_n = b.dtack_n \/ sys_addr.u.kind \in b.enabled
Detects ==
    /\ b.state = "EXMEM_FORK" /\ b'.state = "EXMEM_FORK" /\ ~AsHigh /\ pin.dtack[1] # 0
    /\ b'.dtack_n = b.dtack_n
    /\ \/ b.watchdog = 0 /\ b'.enabled = b.enabled \cup {sys_addr.u.kind}
       \/ b.watchdog # 0 /\ b'.watchdog = b.watchdog - 1 /\ b'.enabled = b.enabled

\* begins it,
Begins ==
    /\ b.state = "IDLE" /\ b'.m_tick = 0 /\ b'.pause = FALSE /\ b'.enabled = reg3.en
    /\ b'.as_n = 1
    /\ \/ b'.state = "IDLE" \/ b'.state = "M_ABOUT_U"
       \/ /\ b'.state = "ABIN_U" /\ m68k_state = "S2" /\ pin.clk_d = 0 /\ pin.as_dd = 0
          /\ b'.watchdog = WatchdogInit /\ b'.dtack_n = 1 /\ b'.m_pause = TRUE

\* or runs a cycle of the board.
Leads ==
    /\ b.state \in MasterStates /\ b'.pause = FALSE /\ b'.enabled = b.enabled
    /\ \/ b'.state \in MasterStates /\ (b'.state = "M_FIN" => b'.as_n = 1)
       \/ b'.state = "IDLE" /\ b.state = "M_FIN" /\ pin.as_d # 0

\* r differs from b only in registers that autodetection does not read.
Like(r) == /\ DOMAIN r = Fields /\ r.enabled = b.enabled /\ r.pause = FALSE
           /\ r.m_pause = b.m_pause /\ r.watchdog = b.watchdog
           /\ (~AsHigh => r.dtack_n = b.dtack_n)

LEMMA EveryLike ==
  ASSUME DOMAIN b = Fields
  PROVE  Like(R) /\ R.state = b.state
  BY DEF R, Fields, Like, AsHigh

LEMMA MoreFields ==
    "watchdog" \in Fields /\ "exmem_req" \in Fields /\ "update" \in Fields
    /\ "counter" \in Fields /\ "berr" \in Fields /\ "ack" \in Fields /\ "wait" \in Fields
  BY DEF Fields

EndStep ==
    \/ BS_S_ABIN_L \/ BS_S_EXMEM_RD
    \/ BS_S_EXMEM_RD_FIN \/ BS_S_EXMEM_RD_FIN_2 \/ BS_S_EXMEM_WR \/ BS_S_EXMEM_WR_FIN
    \/ BS_S_DBIN_P \/ BS_S_DBIN \/ BS_S_DBOUT \/ BS_S_FIN_WAIT \/ BS_S_FIN_RD
    \/ BS_S_FIN_RD_WAIT \/ BS_S_FIN \/ BS_S_INT \/ BS_S_IACK \/ BS_S_FAIL

LEMMA EndSteps ==
  ASSUME DOMAIN b = Fields, EndStep
  PROVE  Ends /\ b'.m_pause = b.m_pause
  <1>1. PICK r : r = R
    OBVIOUS
  <1>2. DOMAIN r = Fields /\ r.enabled = b.enabled /\ r.pause = FALSE
        /\ r.m_pause = b.m_pause /\ r.state = b.state
    BY EveryLike, <1>1 DEF Like
  <1> USE <1>1, <1>2, SomeFields, MoreFields DEF Ends, ServeStates, BusStates, MasterStates
  <1>3. CASE BS_S_ABIN_L
    BY <1>3 DEF BS_S_ABIN_L, ToIdle, Stay
  <1>4. CASE BS_S_EXMEM_RD
    BY <1>4 DEF BS_S_EXMEM_RD, ToIdle, Stay
  <1>5. CASE BS_S_EXMEM_RD_FIN
    BY <1>5 DEF BS_S_EXMEM_RD_FIN, ToIdle, Stay
  <1>6. CASE BS_S_EXMEM_RD_FIN_2
    BY <1>6 DEF BS_S_EXMEM_RD_FIN_2, ToIdle, Stay
  <1>7. CASE BS_S_EXMEM_WR
    BY <1>7 DEF BS_S_EXMEM_WR, ToIdle, Stay
  <1>8. CASE BS_S_EXMEM_WR_FIN
    BY <1>8 DEF BS_S_EXMEM_WR_FIN, ToIdle, Stay
  <1>9. CASE BS_S_DBIN_P
    BY <1>9 DEF BS_S_DBIN_P, ToIdle, Stay
  <1>10. CASE BS_S_DBIN
    BY <1>10 DEF BS_S_DBIN, ToIdle, Stay
  <1>11. CASE BS_S_DBOUT
    BY <1>11 DEF BS_S_DBOUT, ToIdle, Stay
  <1>12. CASE BS_S_FIN_WAIT
    <2>1. \/ b' = [r EXCEPT !.data = per.of]
          \/ b' = [r EXCEPT !.data = per.of, !.req = "none", !.mode = "0000", !.state = "IDLE"]
          \/ \E s \in {"FIN", "FIN_RD"} : \E d :
                b' = [r EXCEPT !.data = per.of, !.req = "none", !.dtack_n = d, !.state = s]
      BY <1>12 DEF BS_S_FIN_WAIT, ToIdle, Stay
    <2>2. b.state = "FIN_WAIT"
      BY <1>12 DEF BS_S_FIN_WAIT
    <2> QED
      BY <2>1, <2>2
  <1>13. CASE BS_S_FIN_RD
    BY <1>13 DEF BS_S_FIN_RD, ToIdle, Stay
  <1>14. CASE BS_S_FIN_RD_WAIT
    BY <1>14 DEF BS_S_FIN_RD_WAIT, ToIdle, Stay
  <1>15. CASE BS_S_FIN
    BY <1>15 DEF BS_S_FIN, ToIdle, Stay
  <1>16. CASE BS_S_INT
    BY <1>16 DEF BS_S_INT, ToIdle, Stay
  <1>17. CASE BS_S_IACK
    BY <1>17 DEF BS_S_IACK, ToIdle, Stay
  <1>18. CASE BS_S_FAIL
    BY <1>18 DEF BS_S_FAIL
  <1> HIDE DEF Ends
  <1> QED
    BY <1>3, <1>4, <1>5, <1>6, <1>7, <1>8, <1>9, <1>10, <1>11, <1>12, <1>13, <1>14, <1>15,
       <1>16, <1>17, <1>18 DEF EndStep

LEMMA WaitSteps ==
  ASSUME DOMAIN b = Fields, BS_S_ABIN_U
  PROVE  (Ends \/ Waits \/ Decides) /\ b'.m_pause = b.m_pause
  <1>1. PICK r : r = R
    OBVIOUS
  <1>2. Like(r) /\ r.state = "ABIN_U" /\ b.state = "ABIN_U"
    BY EveryLike, <1>1 DEF BS_S_ABIN_U
  <1>3. PICK q : q = [r EXCEPT !.rw = pin.rw_d]
    OBVIOUS
  <1>4. Like(q) /\ q.state = "ABIN_U"
    BY <1>2, <1>3, SomeFields DEF Like
  <1>5. PICK d : d = IF setup.nowait /\ sys_addr.u.kind \in b.enabled /\ sdram.lock THEN 0
                     ELSE q.dtack_n
    OBVIOUS
  <1>6. PICK s : s = IF sys_addr.u.kind \in Iacks THEN "INT" ELSE "ABIN_L"
    OBVIOUS
  <1>7. \/ b' = [q EXCEPT !.mode = "0000", !.state = "IDLE"]
        \/ b' = [[q EXCEPT !.lock = FALSE] EXCEPT !.mode = "0000", !.state = "IDLE"]
        \/ ~AsHigh /\ b' = q
        \/ ~AsHigh /\ ~(bus_tick < 9 + SafeDelay)
           /\ b' = [q EXCEPT !.dtack_n = d, !.state = "EXMEM_FORK"]
        \/ b' = [q EXCEPT !.lock = FALSE, !.state = s]
    BY <1>1, <1>3, <1>5, <1>6, Zenon DEF BS_S_ABIN_U, ToIdle, Stay
  <1> HIDE <1>1, <1>3
  <1> USE <1>2, <1>4, SomeFields, SomeStates DEF Like
  <1>8. CASE b' = [q EXCEPT !.mode = "0000", !.state = "IDLE"]
    BY <1>8 DEF Ends
  <1>9. CASE ~AsHigh /\ b' = q
    BY <1>9 DEF Waits
  <1>10. CASE ~AsHigh /\ ~(bus_tick < 9 + SafeDelay)
              /\ b' = [q EXCEPT !.dtack_n = d, !.state = "EXMEM_FORK"]
    BY <1>5, <1>10 DEF Decides
  <1>11. CASE b' = [q EXCEPT !.lock = FALSE, !.state = s]
    BY <1>6, <1>11 DEF Ends
  <1>12. CASE b' = [[q EXCEPT !.lock = FALSE] EXCEPT !.mode = "0000", !.state = "IDLE"]
    BY <1>12 DEF Ends
  <1> QED
    BY <1>7, <1>8, <1>9, <1>10, <1>11, <1>12

LEMMA ForkSteps ==
  ASSUME DOMAIN b = Fields, BS_S_EXMEM_FORK
  PROVE  (Ends \/ Detects) /\ b'.m_pause = b.m_pause
  <1>1. PICK r : r = R
    OBVIOUS
  <1>2. Like(r) /\ r.state = "EXMEM_FORK" /\ b.state = "EXMEM_FORK"
    BY EveryLike, <1>1 DEF BS_S_EXMEM_FORK
  <1>3. \/ b' = [r EXCEPT !.exmem_req = 1, !.mode = "0101", !.state = "EXMEM_RD"]
        \/ b' = [r EXCEPT !.state = "EXMEM_WR"]
        \/ b' = [r EXCEPT !.exmem_req = 0, !.mode = "0000", !.state = "IDLE"]
        \/ b' = [r EXCEPT !.mode = "0000", !.state = "IDLE"]
        \/ /\ ~AsHigh /\ pin.dtack[1] # 0 /\ b.watchdog = 0
           /\ b' = [r EXCEPT !.pause = TRUE, !.enabled = @ \cup {sys_addr.u.kind},
                             !.update = ~@, !.exmem_req = IF b.rw = 1 THEN 1 ELSE @]
        \/ /\ ~AsHigh /\ pin.dtack[1] # 0 /\ b.watchdog # 0
           /\ b' = [r EXCEPT !.pause = TRUE, !.exmem_req = 0, !.watchdog = @ - 1]
    BY <1>1, <1>2 DEF BS_S_EXMEM_FORK, ToIdle
  <1> HIDE <1>1
  <1> USE <1>2, SomeFields, MoreFields, SomeStates DEF Like
  <1>4. CASE \/ b' = [r EXCEPT !.exmem_req = 1, !.mode = "0101", !.state = "EXMEM_RD"]
             \/ b' = [r EXCEPT !.state = "EXMEM_WR"]
             \/ b' = [r EXCEPT !.exmem_req = 0, !.mode = "0000", !.state = "IDLE"]
             \/ b' = [r EXCEPT !.mode = "0000", !.state = "IDLE"]
    BY <1>4 DEF Ends
  <1>5. CASE /\ ~AsHigh /\ pin.dtack[1] # 0 /\ b.watchdog = 0
             /\ b' = [r EXCEPT !.pause = TRUE, !.enabled = @ \cup {sys_addr.u.kind},
                               !.update = ~@, !.exmem_req = IF b.rw = 1 THEN 1 ELSE @]
    BY <1>5 DEF Detects
  <1>6. CASE /\ ~AsHigh /\ pin.dtack[1] # 0 /\ b.watchdog # 0
             /\ b' = [r EXCEPT !.pause = TRUE, !.exmem_req = 0, !.watchdog = @ - 1]
    BY <1>6 DEF Detects
  <1> QED
    BY <1>3, <1>4, <1>5, <1>6

LEMMA BeginSteps ==
  ASSUME DOMAIN b = Fields, BS_IDLE
  PROVE  Begins
  <1>1. PICK r : r = R
    OBVIOUS
  <1>2. Like(r) /\ r.state = "IDLE" /\ b.state = "IDLE"
    BY EveryLike, <1>1 DEF BS_IDLE
  <1>3. PICK q : q = [r EXCEPT !.dtack_n = 1, !.req = "none", !.exmem_req = 0,
                               !.enabled = reg3.en, !.m_tick = 0, !.m_pause = TRUE,
                               !.bgack_n = 1, !.as_n = 1, !.lock = Lock(R)]
    OBVIOUS
  <1>4. \/ b' = [q EXCEPT !.mode = "1000", !.bgack_n = 0, !.br_n = 1,
                          !.m_pause = FALSE, !.state = "M_ABOUT_U"]
        \/ /\ m68k_state = "S2" /\ pin.clk_d = 0 /\ pin.as_dd = 0
           /\ b' = [q EXCEPT !.state = "ABIN_U", !.watchdog = WatchdogInit, !.served = 0]
        \/ b' = q
    BY <1>1, <1>3, Zenon DEF BS_IDLE
  <1>5. /\ DOMAIN q = Fields /\ q.as_n = 1 /\ q.state = "IDLE" /\ q.m_tick = 0
        /\ q.enabled = reg3.en /\ q.pause = FALSE /\ q.m_pause = TRUE /\ q.dtack_n = 1
    BY <1>2, <1>3, SomeFields DEF Like
  <1> HIDE <1>1, <1>3
  <1>6. CASE b' = [q EXCEPT !.mode = "1000", !.bgack_n = 0, !.br_n = 1,
                            !.m_pause = FALSE, !.state = "M_ABOUT_U"]
    BY <1>2, <1>5, <1>6, SomeFields DEF Begins
  <1>7. CASE /\ m68k_state = "S2" /\ pin.clk_d = 0 /\ pin.as_dd = 0
             /\ b' = [q EXCEPT !.state = "ABIN_U", !.watchdog = WatchdogInit, !.served = 0]
    BY <1>2, <1>5, <1>7, SomeFields, MoreFields DEF Begins
  <1>8. CASE b' = q
    BY <1>2, <1>5, <1>8 DEF Begins
  <1> QED
    BY <1>4, <1>6, <1>7, <1>8

LEMMA LeadSteps ==
  ASSUME DOMAIN b = Fields, MStep
  PROVE  Leads
  <1>1. PICK r : r = R
    OBVIOUS
  <1>2. Like(r) /\ r.state = b.state
    BY EveryLike, <1>1
  <1> USE <1>1, <1>2, SomeFields, MoreFields DEF Like, Leads, MasterStates, ToIdle, Stay
  <1>3. CASE BS_M_ABOUT_U
    BY <1>3 DEF BS_M_ABOUT_U
  <1>4. CASE BS_M_ABOUT_L
    BY <1>4 DEF BS_M_ABOUT_L
  <1>5. CASE BS_M_DBIN_WAIT
    BY <1>5 DEF BS_M_DBIN_WAIT, Await
  <1>6. CASE BS_M_DBIN
    BY <1>6 DEF BS_M_DBIN
  <1>7. CASE BS_M_DBOUT
    BY <1>7 DEF BS_M_DBOUT
  <1>8. CASE BS_M_DBOUT_WAIT
    BY <1>8 DEF BS_M_DBOUT_WAIT, Await
  <1>9. CASE BS_M_FIN_WAIT
    BY <1>9 DEF BS_M_FIN_WAIT
  <1>10. CASE BS_M_FIN
    <2>1. PICK q : q = [r EXCEPT !.m_pause = TRUE, !.br_n = 1, !.as_n = 1]
      OBVIOUS
    <2>2. \/ b' = q
          \/ pin.as_d # 0 /\ b' = [q EXCEPT !.bgack_n = 1, !.mode = "0000", !.state = "IDLE"]
      BY <1>10, <2>1 DEF BS_M_FIN
    <2>3. /\ DOMAIN q = Fields /\ q.as_n = 1 /\ q.state = "M_FIN" /\ b.state = "M_FIN"
          /\ q.enabled = b.enabled /\ q.pause = FALSE
      BY <1>10, <2>1 DEF BS_M_FIN
    <2> HIDE <1>1, <1>2
    <2> QED
      BY <2>2, <2>3
  <1> HIDE DEF Leads
  <1> QED
    BY <1>3, <1>4, <1>5, <1>6, <1>7, <1>8, <1>9, <1>10 DEF MStep

\* Every step of the state machine is one of these.
LEMMA Detection ==
  ASSUME DOMAIN b = Fields, BusStep
  PROVE  \/ Begins \/ Leads
         \/ (Ends \/ Waits \/ Decides \/ Detects) /\ b'.m_pause = b.m_pause
  BY EndSteps, WaitSteps, ForkSteps, BeginSteps, LeadSteps DEF BusStep, EndStep, MStep

\* What autodetection takes for granted: the CPU clock is slow enough for the address
\* to be latched before S4 (HalfPeriod 5 is 10 MHz), no foreign block is enabled by the
\* reset, and a device that answers does so before the watchdog has counted down.
Detectable ==
    /\ HalfPeriod >= 5 /\ WatchdogInit \in Nat /\ WatchdogInit >= 2
    /\ "memx" \in Answered
    /\ \A s \in Setups : "memx" \notin s.enabled /\ s.main \subseteq 0..(WatchdogInit - 1)

\* Before AS falls in a cycle and n ticks after its start, and while the samples show
\* AS low.
Before(n) == \/ cpu.s = "S0" /\ cpu.t >= n
             \/ cpu.s = "S1"
             \/ cpu.s = "S2" /\ cpu.t <= CpuDelay
During == \/ cpu.s = "S2" /\ cpu.t > CpuDelay
          \/ cpu.s \in {"S3", "S4", "W", "SW", "S5", "S6"}
          \/ cpu.s = "S7" /\ cpu.t <= CpuDelay
\* From S4 on.
Late == cpu.s \in {"S4", "W", "SW", "S5", "S6", "S7"}

\* The samples of the clock are one and two ticks behind it.
Clocked ==
    /\ pin.clk_d = IF cpu.t >= 1 THEN Clock ELSE 1 - Clock
    /\ pin.clk_dd = IF cpu.t >= 2 THEN Clock ELSE 1 - Clock
    /\ cpu.s = "BEGIN" => cpu.t = 0

\* The samples of AS: high before AS falls, and low while it is.
Strobed ==
    /\ pin.as_s \in {0, 1} /\ pin.as_d \in {0, 1}
    /\ pin.as_d = 1 => pin.as_s = 1
    /\ cpu.s = "BEGIN" /\ b.bgack_n = 1 => pin.as_s = 1
    /\ InCycle =>
          /\ Before(0) => pin.as_s = 1
          /\ Before(1) => pin.as_d = 1
          /\ Before(2) => pin.as_dd = 1
          /\ During => pin.as_s = 0 /\ pin.as_d = 0
          /\ cpu.s = "S3" /\ cpu.t >= 1 => pin.as_dd = 0

\* The master tick, the pause of the ticks and the board's AS.
Counters ==
    /\ b.m_tick # 0 => \/ b.state \in MasterStates
                       \/ b.state = "IDLE" /\ pin.as_d = 1 /\ pin.as_dd = 1
                          /\ (Quiet \/ (cpu.s = "S0" /\ cpu.t = 0))
    /\ b.state \notin MasterStates \cup {"IDLE"} => b.m_pause = TRUE
    /\ b.pause = TRUE => b.state = "EXMEM_FORK"
    /\ b.state = "M_FIN" => b.as_n = 1

\* A tick of the CPU, and of the samples.
LEMMA CpuSteps ==
  ASSUME CpuTyped, Edge
  PROVE  /\ cpu.s # "BEGIN" /\ cpu'.cyc = cpu.cyc /\ setup' = setup
         /\ \/ cpu.t # HalfPeriod - 1 /\ cpu'.s = cpu.s /\ cpu'.t = cpu.t + 1
            \/ cpu.t = HalfPeriod - 1 /\ cpu'.s = After(DtackSeen) /\ cpu'.t = 0
  BY DEF CpuTyped, Edge, BusTick

LEMMA PinSteps ==
  ASSUME Edge
  PROVE  /\ pin'.clk_d = Clock /\ pin'.clk_dd = pin.clk_d
         /\ pin'.as_s = N(AsPin) /\ pin'.as_dd = pin.as_d
         /\ pin'.as_d = IF pin.as_s = 1 /\ ~AsPin THEN 1 ELSE 0
         /\ DtackPin => pin'.dtack[1] = 0
  <1>1. /\ pin'.clk_d = Clock /\ pin'.clk_dd = pin.clk_d
        /\ pin'.as_s = N(AsPin) /\ pin'.as_dd = pin.as_d
        /\ pin'.as_d = IF pin.as_s = 1 /\ ~AsPin THEN 1 ELSE 0
        /\ pin'.dtack = <<N(DtackPin)>> \o SubSeq(pin.dtack, 1, 4)
    BY DEF Edge, Sample
  <1>2. (<<N(DtackPin)>> \o SubSeq(pin.dtack, 1, 4))[1] = N(DtackPin)
    OBVIOUS
  <1> QED
    BY <1>1, <1>2 DEF N

LEMMA ClockEdge ==
  ASSUME Detectable, CpuTyped, Clocked, Edge
  PROVE  Clocked'
  BY Timing, CpuSteps, PinSteps
  DEF Clocked, Clock, After, CpuTyped, CpuStates, InCycle, Detectable

LEMMA BeginFacts ==
  ASSUME CpuTyped, BeginCycle
  PROVE  /\ cpu.s = "BEGIN" /\ cpu'.s = "S0" /\ cpu'.t = cpu.t /\ cpu'.bg_n = cpu.bg_n
         /\ pin' = pin /\ setup' = setup
         /\ \/ cpu'.cyc = NoCycle
            \/ cpu'.cyc \in setup.cycles /\ b.bgack_n # 0
         /\ cpu'.cyc.kind \in Answered => main' \in setup.main
  BY DEF CpuTyped, BeginCycle, CpuBegin

LEMMA ClockBegin ==
  ASSUME CpuTyped, Clocked, BeginCycle
  PROVE  Clocked'
  BY BeginFacts DEF Clocked, Clock, CpuTyped

\* From S0 until the CPU releases AS the bus is the CPU's.
LEMMA OwnBus ==
  ASSUME Exclusive, Counters, InCycle, ~Quiet
  PROVE  /\ b.bgack_n = 1 /\ b.as_n = 1 /\ (AsPin <=> CpuAs)
         /\ b.state \notin MasterStates
         /\ ~(cpu.s = "S0" /\ cpu.t = 0) => b.m_tick = 0
  <1>1. b.bgack_n = 1 /\ b.state \notin MasterStates
    BY DEF Exclusive, Owner, Taken
  <1>2. b.as_n = 1
    BY <1>1 DEF Exclusive, Owner
  <1> QED
    BY <1>1, <1>2 DEF Counters, AsPin

LEMMA QuietLow ==
  ASSUME CpuTyped
  PROVE  Quiet => ~CpuAs
  BY Timing DEF CpuTyped, Quiet, CpuAs

LEMMA QuietStates ==
  ASSUME CpuTyped, InCycle
  PROVE  ~Quiet <=> \/ cpu.s \in {"S0", "S1", "S2", "S3", "S4", "W", "SW", "S5", "S6"}
                    \/ cpu.s = "S7" /\ cpu.t < CpuDelay
  BY Timing DEF CpuTyped, Quiet, CpuStates

LEMMA StrobeEdge ==
  ASSUME Detectable, Exclusive, Counters, Strobed, BusStep, Edge
  PROVE  Strobed'
  <1>1. CpuTyped
    BY DEF Exclusive
  <1>2. pin'.as_s \in {0, 1} /\ pin'.as_d \in {0, 1} /\ (pin'.as_d = 1 => pin'.as_s = 1)
    BY PinSteps DEF N
  <1>3. ASSUME cpu'.s = "BEGIN", b'.bgack_n = 1
        PROVE  pin'.as_s = 1
    <2>1. cpu.t = HalfPeriod - 1 /\ (~InCycle \/ cpu.s = "S7")
      BY <1>1, <1>3, CpuSteps DEF After, CpuTyped, CpuStates
    <2>2. ~CpuAs
      BY <2>1, Timing DEF CpuAs
    <2>3. b.as_n = 1
      BY <1>3, BusMoves DEF Exclusive, Owner, Counters
    <2> QED
      BY <2>2, <2>3, PinSteps DEF AsPin, N
  <1>4. ASSUME InCycle', ~Quiet
        PROVE  /\ Before(0)' => pin'.as_s = 1
               /\ Before(1)' => pin'.as_d = 1
               /\ Before(2)' => pin'.as_dd = 1
               /\ During' => pin'.as_s = 0 /\ pin'.as_d = 0
               /\ cpu'.s = "S3" /\ cpu'.t >= 1 => pin'.as_dd = 0
    <2>1. InCycle
      BY <1>1, <1>4, CpuSteps DEF InCycle
    <2>2. AsPin <=> CpuAs
      BY <1>4, <2>1, OwnBus
    <2>3. cpu.t \in 0..(HalfPeriod - 1) /\ cpu.s \in CpuStates
      BY <1>1 DEF CpuTyped
    <2>4. Before(0)' => ~CpuAs
      BY <1>1, <2>1, <2>3, CpuSteps, Timing DEF Before, CpuAs, After, CpuStates
    <2>5. Before(1)' => ~CpuAs /\ Before(0)
      BY <1>1, <2>1, <2>3, CpuSteps, Timing DEF Before, CpuAs, After, CpuStates
    <2>6. Before(2)' => Before(1)
      BY <1>1, <2>1, <2>3, CpuSteps, Timing DEF Before, After, CpuStates, Detectable
    <2>7. During' => CpuAs
      BY <1>1, <2>1, <2>3, CpuSteps, Timing DEF During, CpuAs, After, CpuStates
    <2>8. cpu'.s = "S3" /\ cpu'.t >= 1 => During
      BY <1>1, <2>1, <2>3, CpuSteps, Timing DEF During, After, CpuStates
    <2> QED
      BY <2>1, <2>2, <2>4, <2>5, <2>6, <2>7, <2>8, PinSteps DEF Strobed, N
  <1>5. ASSUME InCycle', Quiet
        PROVE  ~Before(0)' /\ ~Before(1)' /\ ~Before(2)' /\ ~During' /\ cpu'.s # "S3"
    <2>1. InCycle
      BY <1>1, <1>5, CpuSteps DEF InCycle
    <2>2. cpu.s = "S7" /\ ~(cpu.t < CpuDelay)
      BY <1>1, <1>5, <2>1, CpuSteps, QuietStates DEF CpuTyped, CpuStates
    <2>3. cpu'.s = "BEGIN" \/ (cpu'.s = "S7" /\ ~(cpu'.t <= CpuDelay))
      BY <1>1, <2>2, CpuSteps, Timing DEF After, CpuTyped
    <2> QED
      BY <2>3 DEF Before, During
  <1> QED
    BY <1>2, <1>3, <1>4, <1>5 DEF Strobed

LEMMA StrobeBegin ==
  ASSUME Exclusive, Clocked, Strobed, BeginCycle
  PROVE  Strobed'
  <1>1. b'.bgack_n = b.bgack_n
    BY DEF Exclusive, Owner, BeginCycle, Fields
  <1>2. b.bgack_n = 0 \/ b.bgack_n = 1
    BY DEF Exclusive, Owner
  <1>3. CpuTyped
    BY DEF Exclusive
  <1> QED
    BY <1>1, <1>2, <1>3, BeginFacts, Timing DEF Strobed, Clocked, Before, During, NoCycle, InCycle

LEMMA CountersEdge ==
  ASSUME Detectable, Exclusive, Registers, Strobed, Counters, BusStep, Edge
  PROVE  Counters'
  <1>1. DOMAIN b = Fields /\ CpuTyped
    BY DEF Exclusive, Registers
  <1>2. \/ Begins \/ Leads
        \/ (Ends \/ Waits \/ Decides \/ Detects) /\ b'.m_pause = b.m_pause
    BY <1>1, Detection
  <1>3. Serves \/ Masters \/ Idles
    BY <1>1, BusSteps
  <1>4. CASE Begins
    BY <1>4 DEF Begins, MasterStates, Counters
  <1>5. CASE Leads
    <2>1. ASSUME b'.state = "IDLE"
          PROVE  Quiet' /\ pin'.as_d = 1 /\ pin'.as_dd = 1
      <3>1. b.state = "M_FIN" /\ pin.as_d # 0
        BY <1>5, <2>1 DEF Leads, MasterStates
      <3>2. b.as_n = 1 /\ pin.as_d = 1 /\ pin.as_s = 1
        BY <3>1 DEF Strobed, Counters
      <3>3. Quiet /\ ~CpuAs
        BY <1>1, <3>1, QuietLow DEF Exclusive, Owner, Taken, MasterStates
      <3>4. Quiet'
        BY <1>1, <3>3, CpuTicks DEF Edge
      <3> QED
        BY <3>2, <3>3, <3>4, PinSteps DEF AsPin
    <2> QED
      BY <1>5, <2>1 DEF Leads, MasterStates, Counters
  <1>6. CASE (Ends \/ Waits \/ Decides \/ Detects) /\ b'.m_pause = b.m_pause
    <2>1. b.state \notin MasterStates \cup {"IDLE"}
      BY <1>6 DEF Ends, Waits, Decides, Detects, ServeStates, MasterStates
    <2>2. b.m_tick = 0 /\ b.m_pause = TRUE
      BY <2>1 DEF Counters
    <2>3. Serves
      BY <1>3, <2>1 DEF Masters, Idles
    <2>4. b'.m_tick = 0
      BY <1>1, <2>2, <2>3 DEF Serves, R, Fields
    <2>5. b'.pause = TRUE => b'.state = "EXMEM_FORK"
      BY <1>6 DEF Ends, Waits, Decides, Detects
    <2>6. b'.state # "M_FIN"
      BY <2>3 DEF Serves, ServeStates, MasterStates
    <2> QED
      BY <1>6, <2>2, <2>4, <2>5, <2>6 DEF Counters
  <1> QED
    BY <1>2, <1>4, <1>5, <1>6

LEMMA CountersBegin ==
  ASSUME Exclusive, Clocked, Counters, BeginCycle
  PROVE  Counters'
  <1>1. /\ b'.m_tick = b.m_tick /\ b'.state = b.state /\ b'.m_pause = b.m_pause
        /\ b'.pause = b.pause /\ b'.as_n = b.as_n
    BY DEF Exclusive, Owner, BeginCycle, Fields
  <1>2. CpuTyped
    BY DEF Exclusive
  <1> QED
    BY <1>1, <1>2, BeginFacts DEF Counters, Clocked

\* The S-state of the board: S2 is seen with the second tick of the CPU's S2, left with
\* that of S3, and does not come back while the samples show AS low.
Tracked ==
    InCycle =>
        /\ (cpu.s = "S0" /\ cpu.t >= 2) \/ (cpu.s = "S1" /\ cpu.t <= 1)
              => m68k_state \in {"S0", "S2"}
        /\ (cpu.s = "S1" /\ cpu.t >= 2) \/ (cpu.s = "S2" /\ cpu.t <= 1) => m68k_state = "S1"
        /\ (cpu.s = "S2" /\ cpu.t >= 2) \/ (cpu.s = "S3" /\ cpu.t <= 1) => m68k_state = "S2"
        /\ (cpu.s = "S3" /\ cpu.t >= 2) \/ Late \/ cpu.s = "BEGIN" =>
              (b.bgack_n = 1 /\ (pin.as_d = 0 \/ pin.as_dd = 0) =>
                  m68k_state \in {"S3", "S4", "S5", "S6", "S7"})

LEMMA TrackEdge ==
  ASSUME Detectable, Exclusive, Clocked, Strobed, Counters, Tracked, BusStep, Edge
  PROVE  Tracked'
  <1> SUFFICES ASSUME InCycle'
               PROVE  Tracked'
    BY DEF Tracked
  <1>1. CpuTyped
    BY DEF Exclusive
  <1>2. InCycle
    BY <1>1, CpuSteps DEF InCycle
  <1>3. m68k_state' = Track
    BY DEF Edge, Tracker
  <1>4. cpu.t \in 0..(HalfPeriod - 1) /\ cpu.s \in CpuStates /\ HalfPeriod \in Nat
    BY <1>1, Timing DEF CpuTyped
  <1>5. cpu.s \in {"S1", "S2", "S3"} \/ (cpu.s = "S0" /\ cpu.t >= 1) => b.m_tick = 0 /\ ~Quiet
    BY <1>1, <1>2, <1>4, OwnBus, QuietStates
  <1>6. /\ cpu.t = 0 => pin.clk_d = 1 - Clock /\ pin.clk_dd = 1 - Clock
        /\ cpu.t = 1 => pin.clk_d = Clock /\ pin.clk_dd = 1 - Clock
        /\ cpu.t >= 2 => pin.clk_d = Clock /\ pin.clk_dd = Clock
    BY <1>4 DEF Clocked
  <1>7. ASSUME (cpu.s = "S0" /\ cpu.t >= 2) \/ (cpu.s = "S1" /\ cpu.t = 0)
        PROVE  Track \in {"S0", "S2"}
    <2>1. m68k_state \in {"S0", "S2"} /\ b.m_tick = 0 /\ pin.clk_d = 1 /\ pin.clk_dd = 1
      BY <1>2, <1>4, <1>5, <1>6, <1>7 DEF Tracked, Clock
    <2> QED
      BY <2>1 DEF Track, Resync
  <1>8. ASSUME cpu.s = "S0" /\ cpu.t = 1
        PROVE  Track \in {"S0", "S2"}
    <2>1. b.m_tick = 0 /\ pin.clk_d = 1 /\ pin.clk_dd = 0 /\ pin.as_d = 1
      BY <1>2, <1>4, <1>5, <1>6, <1>8 DEF Strobed, Before, Clock
    <2> QED
      BY <2>1 DEF Track, Resync
  <1>9. ASSUME cpu.s = "S1" /\ cpu.t = 1
        PROVE  Track = "S1"
    <2>1. /\ m68k_state \in {"S0", "S2"} /\ b.m_tick = 0 /\ pin.clk_d = 0 /\ pin.clk_dd = 1
          /\ pin.as_dd = 1
      BY <1>2, <1>4, <1>5, <1>6, <1>9 DEF Tracked, Strobed, Before, Clock
    <2> QED
      BY <2>1 DEF Track, Resync
  <1>10. ASSUME (cpu.s = "S1" /\ cpu.t >= 2) \/ (cpu.s = "S2" /\ cpu.t = 0)
         PROVE  Track = "S1"
    <2>1. m68k_state = "S1" /\ b.m_tick = 0 /\ pin.clk_d = 0
      BY <1>2, <1>4, <1>5, <1>6, <1>10 DEF Tracked, Clock
    <2> QED
      BY <2>1 DEF Track, Resync
  <1>11. ASSUME cpu.s = "S2" /\ cpu.t = 1
         PROVE  Track = "S2"
    <2>1. m68k_state = "S1" /\ b.m_tick = 0 /\ pin.clk_d = 1
      BY <1>2, <1>4, <1>5, <1>6, <1>11 DEF Tracked, Clock
    <2> QED
      BY <2>1 DEF Track, Resync
  <1>12. ASSUME (cpu.s = "S2" /\ cpu.t >= 2) \/ (cpu.s = "S3" /\ cpu.t = 0)
         PROVE  Track = "S2"
    <2>1. m68k_state = "S2" /\ b.m_tick = 0 /\ pin.clk_d = 1 /\ pin.clk_dd = 1
      BY <1>2, <1>4, <1>5, <1>6, <1>12 DEF Tracked, Clock
    <2> QED
      BY <2>1 DEF Track, Resync
  <1>13. ASSUME cpu.s = "S3" /\ cpu.t = 1
         PROVE  Track = "S3"
    <2>1. /\ m68k_state = "S2" /\ b.m_tick = 0 /\ pin.clk_d = 0 /\ pin.clk_dd = 1
          /\ pin.as_dd = 0
      BY <1>2, <1>4, <1>5, <1>6, <1>13 DEF Tracked, Strobed, Clock
    <2> QED
      BY <2>1 DEF Track, Resync
  <1>14. ASSUME (cpu.s = "S3" /\ cpu.t >= 2) \/ Late, b'.bgack_n = 1,
                pin'.as_d = 0 \/ pin'.as_dd = 0
         PROVE  Track \in {"S3", "S4", "S5", "S6", "S7"}
    <2>1. ~(b.bgack_n = 0)
      <3> SUFFICES ASSUME b.bgack_n = 0
                   PROVE  FALSE
        OBVIOUS
      <3>1. b.state = "M_FIN" /\ Quiet /\ ~CpuAs
        BY <1>1, <1>14, BusMoves, QuietLow DEF Exclusive, Taken
      <3>2. Leads
        BY <3>1, Detection DEF Exclusive, Owner, Begins, Ends, Waits, Decides, Detects,
           ServeStates, MasterStates
      <3>3. b'.state = "IDLE"
        BY <1>14, <3>2, BusMoves DEF Exclusive, Owner, Leads
      <3>4. pin.as_d = 1 /\ pin.as_s = 1
        BY <3>2, <3>3 DEF Leads, Strobed, MasterStates
      <3>5. ~AsPin
        BY <3>1 DEF AsPin, Counters
      <3> QED
        BY <1>14, <3>4, <3>5, PinSteps
    <2>2. b.bgack_n = 1 /\ b.as_n = 1
      BY <2>1 DEF Exclusive, Owner
    <2>3. CpuAs => During
      BY <1>2, <1>4, <1>14, Timing DEF During, CpuAs, Late, CpuStates
    <2>4. pin.as_d = 0
      BY <1>2, <1>14, <2>2, <2>3, PinSteps DEF AsPin, Strobed
    <2>5. b.m_tick = 0
      BY <2>2, <2>4 DEF Counters, Exclusive, Owner
    <2>6. m68k_state \in {"S3", "S4", "S5", "S6", "S7"}
      BY <1>2, <1>14, <2>2, <2>4, Zenon DEF Tracked
    <2> QED
      BY <2>4, <2>5, <2>6 DEF Track, Resync
  <1>15. (cpu'.s = "S0" /\ cpu'.t >= 2) \/ (cpu'.s = "S1" /\ cpu'.t <= 1)
           => Track \in {"S0", "S2"}
    <2>1. (cpu'.s = "S0" /\ cpu'.t >= 2) \/ (cpu'.s = "S1" /\ cpu'.t <= 1)
             => \/ (cpu.s = "S0" /\ cpu.t >= 1)
                \/ (cpu.s = "S1" /\ cpu.t = 0)
      BY <1>1, <1>2, <1>4, CpuSteps DEF After, CpuStates, Detectable
    <2> QED
      BY <1>4, <1>7, <1>8, <2>1
  <1>16. (cpu'.s = "S1" /\ cpu'.t >= 2) \/ (cpu'.s = "S2" /\ cpu'.t <= 1) => Track = "S1"
    <2>1. (cpu'.s = "S1" /\ cpu'.t >= 2) \/ (cpu'.s = "S2" /\ cpu'.t <= 1)
             => \/ (cpu.s = "S1" /\ cpu.t >= 1)
                \/ (cpu.s = "S2" /\ cpu.t = 0)
      BY <1>1, <1>2, <1>4, CpuSteps DEF After, CpuStates, Detectable
    <2> QED
      BY <1>4, <1>9, <1>10, <2>1
  <1>17. (cpu'.s = "S2" /\ cpu'.t >= 2) \/ (cpu'.s = "S3" /\ cpu'.t <= 1) => Track = "S2"
    <2>1. (cpu'.s = "S2" /\ cpu'.t >= 2) \/ (cpu'.s = "S3" /\ cpu'.t <= 1)
             => \/ (cpu.s = "S2" /\ cpu.t >= 1)
                \/ (cpu.s = "S3" /\ cpu.t = 0)
      BY <1>1, <1>2, <1>4, CpuSteps DEF After, CpuStates, Detectable
    <2> QED
      BY <1>4, <1>11, <1>12, <2>1
  <1>18. (cpu'.s = "S3" /\ cpu'.t >= 2) \/ Late' \/ cpu'.s = "BEGIN"
           => (b'.bgack_n = 1 /\ (pin'.as_d = 0 \/ pin'.as_dd = 0)
                 => Track \in {"S3", "S4", "S5", "S6", "S7"})
    <2>1. (cpu'.s = "S3" /\ cpu'.t >= 2) \/ Late' \/ cpu'.s = "BEGIN"
             => (cpu.s = "S3" /\ cpu.t >= 1) \/ Late
      BY <1>1, <1>2, <1>4, CpuSteps DEF After, CpuStates, Detectable, Late
    <2> QED
      BY <1>4, <1>13, <1>14, <2>1
  <1> QED
    BY <1>3, <1>15, <1>16, <1>17, <1>18 DEF Tracked

LEMMA TrackBegin ==
  ASSUME Exclusive, Clocked, BeginCycle
  PROVE  Tracked'
  <1>1. cpu'.s = "S0" /\ cpu'.t = 0
    BY BeginFacts DEF Exclusive, Clocked
  <1> QED
    BY <1>1 DEF Tracked, Late

\* Ticks since the start of S1.
Since == IF cpu.s = "S1" THEN cpu.t
         ELSE IF cpu.s = "S2" THEN HalfPeriod + cpu.t ELSE 2 * HalfPeriod + cpu.t

\* The upper half of the latched address is that of the CPU's cycle.
Fresh == sys_addr.u.age = 0 /\ sys_addr.u.kind = cpu.cyc.kind

\* From the third tick of a cycle to the second of its S3, when no cycle is accepted.
Early == \/ cpu.s = "S0" /\ cpu.t >= 2
         \/ cpu.s \in {"S1", "S2"}
         \/ cpu.s = "S3" /\ cpu.t <= 1

\* The latch takes the address of the CPU's cycle 8 (or 10) ticks after S1, before S4,
\* and BS_S_EXMEM_FORK comes after it.
Addressed ==
    InCycle =>
        /\ Late => Fresh
        /\ (cpu.s = "S1" /\ cpu.t >= 2) \/ cpu.s \in {"S2", "S3"} =>
              Fresh \/ (bus_tick = Since - 2 /\ bus_tick <= 8 + SafeDelay)
        /\ Early => b.state \notin {"ABIN_U", "EXMEM_FORK"}
        /\ cpu.s = "S3" /\ b.state = "EXMEM_FORK" => Fresh

LEMMA FreshEdge ==
  ASSUME Beside, Exclusive, Edge, InCycle
  PROVE  /\ Fresh => Fresh'
         /\ b.m_tick = 0 /\ bus_tick = 8 + SafeDelay => Fresh'
  <1>1. cpu'.cyc = cpu.cyc
    BY CpuSteps DEF Exclusive
  <1>2. bus_tick = 8 + SafeDelay => bus_tick # 12 + SafeDelay
    BY Delay
  <1> QED
    BY <1>1, <1>2 DEF Beside, Edge, AddressLatch, PinAddress, Fresh

LEMMA EarlyEdge ==
  ASSUME Detectable, Exclusive, Clocked, Strobed, Counters, Tracked, Addressed, BusStep,
         Edge, InCycle, Early'
  PROVE  b'.state \notin {"ABIN_U", "EXMEM_FORK"}
  <1>1. CpuTyped /\ DOMAIN b = Fields
    BY DEF Exclusive, Owner
  <1>2. cpu.t \in 0..(HalfPeriod - 1) /\ cpu.s \in CpuStates /\ HalfPeriod \in Nat
    BY <1>1, Timing DEF CpuTyped
  <1>3. \/ cpu.s = "S0" /\ cpu.t >= 1
        \/ cpu.s \in {"S1", "S2"}
        \/ cpu.s = "S3" /\ cpu.t = 0
    BY <1>1, <1>2, CpuSteps DEF After, CpuStates, Detectable, Early
  <1>4. ~(m68k_state = "S2" /\ pin.clk_d = 0 /\ pin.as_dd = 0)
    <2>1. CASE cpu.s = "S0"
      BY <1>2, <1>3, <2>1 DEF Clocked, Clock
    <2>2. CASE cpu.s = "S1" /\ cpu.t = 0
      BY <2>2 DEF Clocked, Clock
    <2>3. CASE cpu.s = "S1" /\ cpu.t = 1
      BY <2>3 DEF Strobed, Before
    <2>4. CASE cpu.s = "S1" /\ cpu.t >= 2
      BY <2>4 DEF Tracked
    <2>5. CASE cpu.s = "S2" /\ cpu.t <= 1
      BY <2>5 DEF Tracked
    <2>6. CASE cpu.s = "S2" /\ cpu.t >= 2
      BY <1>2, <2>6 DEF Clocked, Clock
    <2>7. CASE cpu.s = "S3" /\ cpu.t = 0
      BY <2>7 DEF Clocked, Clock
    <2> QED
      BY <1>2, <1>3, <2>1, <2>2, <2>3, <2>4, <2>5, <2>6, <2>7
  <1>5. AsHigh \/ b.state \notin {"ABIN_U", "EXMEM_FORK"}
    BY <1>2, <1>3 DEF Addressed, Early, Strobed, Before, AsHigh
  <1>6. \/ Begins \/ Leads
        \/ (Ends \/ Waits \/ Decides \/ Detects) /\ b'.m_pause = b.m_pause
    BY <1>1, Detection
  <1> QED
    BY <1>4, <1>5, <1>6 DEF Begins, Leads, Ends, Waits, Decides, Detects, MasterStates

LEMMA TickRuns ==
  ASSUME Detectable, Exclusive, Clocked, Strobed, Counters, Tracked, Addressed, Beside, BusStep,
         Edge, InCycle, (cpu.s = "S1" /\ cpu.t >= 2) \/ cpu.s \in {"S2", "S3"}, ~Fresh
  PROVE  bus_tick' = bus_tick + 1 /\ b.m_tick = 0
  <1>1. CpuTyped
    BY DEF Exclusive
  <1>2. cpu.t \in 0..(HalfPeriod - 1) /\ cpu.s \in CpuStates /\ HalfPeriod \in Nat
    BY <1>1, Timing DEF CpuTyped
  <1>3. b.m_tick = 0 /\ ~Quiet /\ b.bgack_n = 1
    BY <1>1, <1>2, OwnBus, QuietStates
  <1>4. b.pause # TRUE /\ bus_tick <= 10 /\ bus_tick \in 0..63
    <2>1. b.state # "EXMEM_FORK"
      BY DEF Addressed, Early
    <2>2. bus_tick <= 8 + SafeDelay
      BY DEF Addressed
    <2>3. bus_tick <= 10 /\ bus_tick \in 0..63
      BY <2>2, Delay DEF Beside
    <2> QED
      BY <2>1, <2>3, Zenon DEF Counters
  <1>5. Track = m68k_state \/ Track \notin {"S1", "S6"}
    <2>1. CASE cpu.s = "S1" \/ (cpu.s = "S2" /\ cpu.t <= 1)
      <3>1. m68k_state = "S1"
        BY <1>2, <2>1 DEF Tracked
      <3> QED
        BY <1>3, <3>1 DEF Track, Resync
    <2>2. CASE (cpu.s = "S2" /\ cpu.t >= 2) \/ (cpu.s = "S3" /\ cpu.t <= 1)
      <3>1. m68k_state = "S2" /\ (pin.as_dd = 0 \/ pin.clk_d = 1)
        <4>1. CASE cpu.s = "S2" /\ cpu.t >= 2
          BY <1>2, <4>1 DEF Tracked, Clocked, Clock
        <4>2. CASE cpu.s = "S3" /\ cpu.t = 0
          BY <4>2 DEF Tracked, Clocked, Clock
        <4>3. CASE cpu.s = "S3" /\ cpu.t = 1
          BY <4>3 DEF Tracked, Strobed
        <4> QED
          BY <1>2, <2>2, <4>1, <4>2, <4>3
      <3> QED
        BY <1>3, <3>1 DEF Track, Resync
    <2>3. CASE cpu.s = "S3" /\ cpu.t >= 2
      <3>1. pin.as_d = 0 /\ pin.clk_d = 0
        BY <1>2, <2>3 DEF Strobed, During, Clocked, Clock
      <3>2. m68k_state \in {"S3", "S4", "S5", "S6", "S7"}
        BY <1>3, <2>3, <3>1 DEF Tracked
      <3> QED
        BY <1>3, <3>1, <3>2 DEF Track, Resync
    <2> QED
      BY <1>2, <2>1, <2>2, <2>3
  <1>6. bus_tick \notin {31, 63} /\ ~b.pause
    <2>1. bus_tick \notin {31, 63}
      BY <1>4
    <2> QED
      BY <1>4, <2>1, Zenon
  <1>7. ~(bus_tick \in {31, 63} \/ b.pause)
    BY <1>6, Zenon
  <1>8. bus_tick' = bus_tick + 1
    BY <1>5, <1>7, Zenon DEF Edge, Tracker
  <1> QED
    BY <1>3, <1>8

LEMMA LatchEdge ==
  ASSUME Detectable, Exclusive, Clocked, Strobed, Counters, Tracked, Addressed, Beside, BusStep,
         Edge, Tracked'
  PROVE  Addressed'
  <1> SUFFICES ASSUME InCycle'
               PROVE  Addressed'
    BY DEF Addressed
  <1>1. CpuTyped /\ DOMAIN b = Fields
    BY DEF Exclusive, Owner
  <1>2. InCycle
    BY <1>1, CpuSteps DEF InCycle
  <1>3. cpu.t \in 0..(HalfPeriod - 1) /\ cpu.s \in CpuStates /\ HalfPeriod \in Nat
    BY <1>1, Timing DEF CpuTyped
  <1>4. SafeDelay' = SafeDelay
    BY <1>1, CpuSteps DEF SafeDelay
  <1>5. ASSUME (cpu'.s = "S1" /\ cpu'.t >= 2) \/ cpu'.s \in {"S2", "S3"}
        PROVE  Fresh' \/ (bus_tick' = Since' - 2 /\ bus_tick' <= 8 + SafeDelay)
    <2>1. CASE cpu.s = "S1" /\ cpu.t = 1
      <3>1. cpu'.s = "S1" /\ cpu'.t = 2
        BY <1>1, <1>5, <2>1, CpuSteps DEF Detectable
      <3>2. m68k_state # "S1" /\ m68k_state' = "S1"
        BY <1>2, <2>1, <3>1, CpuSteps DEF Tracked, InCycle
      <3> QED
        BY <3>1, <3>2, Delay DEF Edge, Tracker, Since
    <2>2. CASE (cpu.s = "S1" /\ cpu.t >= 2) \/ cpu.s \in {"S2", "S3"}
      <3> SUFFICES ASSUME ~Fresh'
                   PROVE  bus_tick' = Since' - 2 /\ bus_tick' <= 8 + SafeDelay
        OBVIOUS
      <3>1. ~Fresh
        BY <1>2, FreshEdge
      <3>2. bus_tick' = bus_tick + 1 /\ b.m_tick = 0
        BY <1>2, <2>2, <3>1, TickRuns
      <3>3. bus_tick = Since - 2 /\ bus_tick <= 8 + SafeDelay /\ bus_tick # 8 + SafeDelay
        BY <1>2, <2>2, <3>1, <3>2, FreshEdge DEF Addressed
      <3>4. Since' = Since + 1
        BY <1>1, <1>2, <1>3, <1>5, <2>2, CpuSteps DEF After, Since
      <3>5. Since \in Nat /\ bus_tick \in Nat
        BY <1>3 DEF Since, Beside
      <3> QED
        BY <3>2, <3>3, <3>4, <3>5, Delay
    <2>3. \/ cpu.s = "S1" /\ cpu.t >= 1
          \/ cpu.s \in {"S2", "S3"}
      BY <1>1, <1>2, <1>3, <1>5, CpuSteps DEF After, CpuStates, Detectable
    <2> QED
      BY <1>3, <2>1, <2>2, <2>3
  <1>6. ASSUME Late'
        PROVE  Fresh'
    <2>1. CASE Late
      BY <1>2, <2>1, FreshEdge DEF Addressed
    <2>2. CASE cpu.s = "S3" /\ cpu.t = HalfPeriod - 1
      <3>1. Fresh
        <4>1. Since = 3 * HalfPeriod - 1
          BY <1>3, <2>2 DEF Since
        <4>2. ~(bus_tick = Since - 2 /\ bus_tick <= 8 + SafeDelay)
          BY <1>3, <4>1, Delay DEF Detectable
        <4> QED
          BY <1>2, <2>2, <4>2 DEF Addressed
      <3> QED
        BY <1>2, <3>1, FreshEdge
    <2> QED
      BY <1>1, <1>2, <1>3, <1>6, <2>1, <2>2, CpuSteps DEF After, Late, CpuStates
  <1>7. Early' => b'.state \notin {"ABIN_U", "EXMEM_FORK"}
    BY <1>2, EarlyEdge
  <1>8. ASSUME cpu'.s = "S3", b'.state = "EXMEM_FORK"
        PROVE  Fresh'
    <2>1. ~Early'
      BY <1>7, <1>8
    <2>2. cpu.s = "S3"
      BY <1>1, <1>2, <1>3, <1>8, <2>1, CpuSteps DEF Early, After, CpuStates
    <2>3. Decides \/ Detects
      BY <1>1, <1>8, Detection DEF Begins, Leads, Ends, Waits, MasterStates
    <2>4. Fresh
      <3>1. bus_tick \in Nat
        BY DEF Beside
      <3> QED
        BY <1>2, <2>2, <2>3, <3>1, Delay DEF Addressed, Decides, Detects
    <2> QED
      BY <1>2, <2>4, FreshEdge
  <1> QED
    BY <1>4, <1>5, <1>6, <1>7, <1>8 DEF Addressed, Early

LEMMA LatchBegin ==
  ASSUME Exclusive, Clocked, BeginCycle
  PROVE  Addressed'
  <1>1. cpu'.s = "S0" /\ cpu'.t = 0
    BY BeginFacts DEF Exclusive, Clocked
  <1> QED
    BY <1>1 DEF Addressed, Early, Late

\* The main board answers a foreign cycle before the watchdog is through, and it has
\* answered when S5 comes with the address undecided.
Awaited ==
    /\ setup \in Setups
    /\ InCycle /\ cpu.cyc.kind = "memx" =>
          /\ ~Quiet => main \in 0..(WatchdogInit - 1)
          /\ CpuAs /\ cpu.s \in {"S5", "S6", "S7"} /\ b.state = "ABIN_U" => main = 0

\* A block of another device is being decided on.
Foreign == b.state = "EXMEM_FORK" /\ sys_addr.u.kind = "memx"

\* While it is, the samples show the end of the cycle or its DTACK, the watchdog is ahead
\* of the main board, or AS is high and its samples will show it first.
Watched ==
    /\ b.state = "ABIN_U" => b.watchdog = WatchdogInit /\ b.dtack_n = 1
    /\ Foreign =>
         /\ b.dtack_n = 1 /\ b.watchdog \in Nat
         /\ \/ pin.dtack[1] = 0 \/ pin.as_d = 1
            \/ /\ CpuAs /\ cpu.s \notin {"S5", "S6", "S7"}
               /\ main \in Nat /\ b.watchdog > main
            \/ ~CpuAs /\ b.watchdog >= 2 - pin.as_s

Watching == ClaimsOnlyFree /\ Clocked /\ Strobed /\ Counters /\ Tracked /\ Addressed
            /\ Awaited /\ Watched

\* In a cycle of the CPU the main board counts down while AS is low.
LEMMA MainSteps ==
  ASSUME Exclusive, Counters, BusStep, Edge, InCycle, ~Quiet
  PROVE  main' = IF CpuAs /\ main > 0 THEN main - 1 ELSE main
  <1>1. b.as_n = 1 /\ (AsPin <=> CpuAs) /\ b.state \notin MasterStates
    BY OwnBus
  <1>2. Serves \/ Masters \/ Idles
    BY BusSteps DEF Exclusive, Owner
  <1>3. b'.as_n = 1
    BY <1>1, <1>2 DEF Serves, Masters, Idles
  <1> QED
    BY <1>1, <1>3 DEF Edge, BusTick

LEMMA Undriven ==
  ASSUME Exclusive, b.state \in {"ABIN_U", "EXMEM_FORK"}
  PROVE  b.bgack_n = 1 /\ b.as_n = 1 /\ (AsPin <=> CpuAs)
  BY DEF Exclusive, Owner, MasterStates, AsPin

LEMMA AwaitedEdge ==
  ASSUME Detectable, Exclusive, Watching, BusStep, Edge
  PROVE  Awaited'
  <1>1. CpuTyped /\ DOMAIN b = Fields
    BY DEF Exclusive, Owner
  <1>2. cpu.t \in 0..(HalfPeriod - 1) /\ cpu.s \in CpuStates /\ HalfPeriod \in Nat
    BY <1>1, Timing DEF CpuTyped
  <1>3. setup' \in Setups
    BY <1>1, CpuSteps DEF Watching, Awaited
  <1> SUFFICES ASSUME InCycle', cpu'.cyc.kind = "memx"
               PROVE  /\ ~Quiet' => main' \in 0..(WatchdogInit - 1)
                      /\ CpuAs' /\ cpu'.s \in {"S5", "S6", "S7"} /\ b'.state = "ABIN_U"
                            => main' = 0
    BY <1>3 DEF Awaited
  <1>4. InCycle /\ cpu.cyc.kind = "memx"
    BY <1>1, CpuSteps DEF InCycle
  <1>5. ASSUME ~Quiet'
        PROVE  main' \in 0..(WatchdogInit - 1)
    <2>1. ~Quiet
      BY <1>1, <1>5, CpuTicks DEF Edge
    <2>2. main \in 0..(WatchdogInit - 1)
      BY <1>4, <2>1 DEF Watching, Awaited
    <2> QED
      BY <1>4, <2>1, <2>2, MainSteps DEF Watching, Detectable
  <1>6. ASSUME CpuAs', cpu'.s \in {"S5", "S6", "S7"}, b'.state = "ABIN_U"
        PROVE  main' = 0
    <2>1. \/ cpu.s \in {"S4", "SW"} /\ DtackSeen
          \/ cpu.s \in {"S5", "S6", "S7"} /\ CpuAs
      <3>1. cpu'.s = "S7" => cpu'.t < CpuDelay
        BY <1>6 DEF CpuAs
      <3> QED
        BY <1>1, <1>2, <1>4, <1>6, <3>1, CpuSteps, Timing DEF After, CpuAs, CpuStates
    <2>2. CpuAs /\ Late
      BY <1>4, <2>1 DEF CpuAs, Late
    <2>3. ~Quiet
      BY <1>1, <2>2, QuietLow
    <2>4. b.bgack_n = 1
      BY <1>4, <2>3, OwnBus DEF Watching
    <2>5. pin.as_d = 0
      <3>1. During
        BY <1>1, <1>2, <2>2, Timing DEF During, CpuAs, Late, CpuStates
      <3> QED
        BY <1>4, <3>1 DEF Watching, Strobed
    <2>6. m68k_state # "S2"
      BY <1>4, <2>2, <2>4, <2>5 DEF Watching, Tracked
    <2>7. b.state = "ABIN_U"
      BY <1>1, <1>6, <2>6, Detection
      DEF Begins, Leads, Ends, Decides, Detects, Waits, MasterStates
    <2>8. main = 0
      <3>1. CASE DtackSeen
        BY <2>7, <3>1 DEF Watching, Watched, DtackSeen, DtackPin, MainDtack
      <3>2. CASE cpu.s \in {"S5", "S6", "S7"}
        BY <1>4, <2>2, <2>7, <3>2 DEF Watching, Awaited
      <3> QED
        BY <2>1, <3>1, <3>2
    <2> QED
      BY <1>4, <2>3, <2>8, MainSteps DEF Watching
  <1> QED
    BY <1>5, <1>6

LEMMA AwaitedBegin ==
  ASSUME Detectable, Exclusive, Awaited, BeginCycle
  PROVE  Awaited'
  <1>1. /\ cpu'.s = "S0" /\ setup' = setup
        /\ cpu'.cyc.kind \in Answered => main' \in setup.main
    BY BeginFacts DEF Exclusive
  <1> QED
    BY <1>1 DEF Awaited, Detectable

\* The state machine decides on the address of the cycle that the CPU is in.
LEMMA Decided ==
  ASSUME Exclusive, Watching, Beside, InCycle, CpuAs,
         b.state = "EXMEM_FORK" \/ Decides
  PROVE  Fresh /\ ~Quiet /\ cpu.s # "S2"
  <1>1. CpuTyped
    BY DEF Exclusive
  <1>2. cpu.s # "S2"
    BY DEF Watching, Addressed, Early, Decides
  <1>3. ASSUME cpu.s = "S3"
        PROVE  Fresh
    BY <1>3, Delay DEF Watching, Addressed, Decides, Beside
  <1>4. ASSUME cpu.s # "S3"
        PROVE  Fresh
    BY <1>2, <1>4 DEF Watching, Addressed, Late, CpuAs
  <1> QED
    BY <1>1, <1>2, <1>3, <1>4, QuietLow

LEMMA KindKept ==
  ASSUME Beside, Forked, Edge, b.state = "EXMEM_FORK" \/ Decides
  PROVE  sys_addr'.u = sys_addr.u
  <1>1. bus_tick # 8 + SafeDelay
    BY Delay DEF Beside, Forked, Decides
  <1> QED
    BY <1>1 DEF Beside, Edge, AddressLatch

\* A block whose device answers is not claimed: the watchdog is still counting.
LEMMA StillCounting ==
  ASSUME Detectable, Exclusive, Watching, Beside, Foreign, Detects
  PROVE  b.watchdog # 0
  <1>1. \/ CpuAs /\ main \in Nat /\ b.watchdog > main
        \/ b.watchdog >= 2 - pin.as_s
    BY DEF Watching, Watched, Detects, AsHigh
  <1> QED
    BY <1>1 DEF Watching, Strobed

LEMMA WatchedEdge ==
  ASSUME Detectable, Typed, Watching, BusStep, Edge, Addressed'
  PROVE  Watched'
  <1>1. CpuTyped /\ DOMAIN b = Fields /\ Exclusive /\ Beside /\ Forked
    BY DEF Typed, Exclusive, Owner
  <1>2. cpu.t \in 0..(HalfPeriod - 1) /\ cpu.s \in CpuStates /\ HalfPeriod \in Nat
    BY <1>1, Timing DEF CpuTyped
  <1>3. \/ Begins \/ Leads
        \/ (Ends \/ Waits \/ Decides \/ Detects) /\ b'.m_pause = b.m_pause
    BY <1>1, Detection
  <1>4. b'.state = "ABIN_U" => b'.watchdog = WatchdogInit /\ b'.dtack_n = 1
    BY <1>3 DEF Begins, Leads, Ends, Waits, Decides, Detects, MasterStates, Watching, Watched
  <1> SUFFICES ASSUME Foreign'
               PROVE  /\ b'.dtack_n = 1 /\ b'.watchdog \in Nat
                      /\ \/ pin'.dtack[1] = 0 \/ pin'.as_d = 1
                         \/ /\ CpuAs' /\ cpu'.s \notin {"S5", "S6", "S7"}
                            /\ main' \in Nat /\ b'.watchdog > main'
                         \/ ~CpuAs' /\ b'.watchdog >= 2 - pin'.as_s
    BY <1>4 DEF Watched
  <1>5. Decides \/ Detects
    BY <1>3 DEF Foreign, Begins, Leads, Ends, Waits, MasterStates
  <1>6. /\ b.state \in {"ABIN_U", "EXMEM_FORK"} /\ ~AsHigh
        /\ b.bgack_n = 1 /\ b.as_n = 1 /\ (AsPin <=> CpuAs)
    BY <1>1, <1>5, Undriven DEF Decides, Detects
  <1>7. sys_addr.u.kind = "memx" /\ "memx" \notin b.enabled
    BY <1>1, <1>5, KindKept DEF Foreign, Detects, Watching, ClaimsOnlyFree
  <1>8. b'.dtack_n = 1 /\ b.dtack_n = 1 /\ b'.watchdog \in Nat
    <2>1. CASE Decides
      BY <1>7, <2>1 DEF Decides, Watching, Watched, Detectable
    <2>2. CASE Detects
      <3>1. Foreign
        BY <1>7, <2>2 DEF Foreign, Detects
      <3>2. b.watchdog # 0
        BY <1>1, <2>2, <3>1, StillCounting
      <3> QED
        BY <2>2, <3>1, <3>2 DEF Detects, Watching, Watched
    <2> QED
      BY <1>5, <2>1, <2>2
  <1>9. ASSUME DtackPin
        PROVE  pin'.dtack[1] = 0
    BY <1>9, PinSteps
  <1>10. ASSUME ~CpuAs
         PROVE  ~CpuAs'
    <2> SUFFICES ASSUME InCycle'
                 PROVE  ~CpuAs'
      BY DEF CpuAs
    <2>1. InCycle
      BY <1>1, CpuSteps DEF InCycle
    <2>2. CASE Quiet
      BY <1>1, <2>2, CpuTicks, Timing DEF Edge, CpuTyped, CpuAs, Quiet
    <2>3. CASE ~Quiet
      <3>1. cpu.s \in {"S0", "S1", "S2"}
        BY <1>1, <1>2, <1>10, <2>1, <2>3, QuietStates DEF CpuAs
      <3>2. ~(cpu.s = "S0" /\ cpu.t >= 2) /\ cpu.s \notin {"S1", "S2"}
        BY <1>5, <2>1 DEF Watching, Addressed, Early, Decides, Detects
      <3>3. cpu.s = "S0" /\ cpu.t # HalfPeriod - 1
        BY <1>2, <3>1, <3>2 DEF Detectable
      <3>4. cpu'.s = "S0"
        BY <1>1, <3>3, CpuSteps
      <3> QED
        BY <3>4 DEF CpuAs
    <2> QED
      BY <2>2, <2>3
  <1>11. ASSUME CpuAs, ~DtackPin
         PROVE  /\ Fresh /\ cpu.cyc.kind = "memx" /\ ~Quiet /\ main # 0
                /\ main' = IF main > 0 THEN main - 1 ELSE main
                /\ \/ cpu.s \in {"S5", "S6", "S7"}
                   \/ CpuAs' /\ cpu'.s \notin {"S5", "S6", "S7"}
    <2>1. InCycle
      BY <1>11 DEF CpuAs
    <2>2. Fresh /\ ~Quiet /\ cpu.s # "S2" /\ cpu.cyc.kind = "memx"
      BY <1>1, <1>5, <1>7, <1>11, <2>1, Decided DEF Detects, Fresh
    <2>3. main # 0
      BY <1>6, <1>11 DEF DtackPin, MainDtack
    <2>4. main' = IF main > 0 THEN main - 1 ELSE main
      BY <1>1, <1>11, <2>1, <2>2, MainSteps DEF Watching
    <2>5. cpu.s \in {"S3", "S4", "W", "SW", "S5", "S6", "S7"}
      BY <1>11, <2>2 DEF CpuAs
    <2>6. ~DtackSeen
      BY <1>11 DEF DtackSeen
    <2>7. cpu.s \in {"S5", "S6", "S7"} \/ cpu'.s \in {"S3", "S4", "W", "SW"}
      BY <1>1, <2>5, <2>6, CpuSteps DEF After
    <2>8. InCycle'
      BY <1>1, <2>1, CpuSteps DEF InCycle
    <2> QED
      BY <2>2, <2>3, <2>4, <2>7, <2>8 DEF CpuAs
  <1>12. CASE Decides
    <2>1. b'.watchdog = WatchdogInit /\ b'.watchdog >= 2 /\ b.state = "ABIN_U"
      BY <1>12 DEF Decides, Watching, Watched, Detectable
    <2>2. CASE DtackPin
      BY <1>8, <1>9, <2>2
    <2>3. CASE ~CpuAs
      <3>1. pin'.as_s \in {0, 1}
        BY PinSteps DEF N
      <3> QED
        BY <1>8, <1>10, <2>1, <2>3, <3>1
    <2>4. CASE CpuAs /\ ~DtackPin
      <3>1. InCycle
        BY <2>4 DEF CpuAs
      <3>2. main \in 0..(WatchdogInit - 1) /\ cpu.s \notin {"S5", "S6", "S7"}
        BY <1>11, <2>1, <2>4, <3>1 DEF Watching, Awaited
      <3>3. main' \in Nat /\ WatchdogInit > main'
        BY <1>11, <2>4, <3>2 DEF Detectable
      <3> QED
        BY <1>8, <1>11, <2>1, <2>4, <3>2, <3>3
    <2> QED
      BY <2>2, <2>3, <2>4
  <1>13. CASE Detects
    <2>1. Foreign
      BY <1>7, <1>13 DEF Foreign, Detects
    <2>2. b.watchdog \in Nat /\ b'.watchdog = b.watchdog - 1
      BY <1>1, <1>13, <2>1, StillCounting DEF Detects, Watching, Watched
    <2>3. \/ /\ CpuAs /\ cpu.s \notin {"S5", "S6", "S7"}
             /\ main \in Nat /\ b.watchdog > main
          \/ ~CpuAs /\ b.watchdog >= 2 - pin.as_s
      BY <1>13, <2>1 DEF Detects, AsHigh, Watching, Watched
    <2>4. CASE DtackPin
      BY <1>8, <1>9, <2>4
    <2>5. CASE ~CpuAs
      <3>1. pin'.as_s = 1 /\ (pin.as_s = 1 => pin'.as_d = 1)
        BY <1>6, <2>5, PinSteps DEF N
      <3>2. pin.as_s \in {0, 1}
        BY DEF Watching, Strobed
      <3> QED
        BY <1>8, <1>10, <2>2, <2>3, <2>5, <3>1, <3>2
    <2>6. CASE CpuAs /\ ~DtackPin
      <3>1. main' = main - 1 /\ main' \in Nat
        BY <1>11, <2>3, <2>6
      <3> QED
        BY <1>8, <1>11, <2>2, <2>3, <2>6, <3>1
    <2> QED
      BY <2>4, <2>5, <2>6
  <1> QED
    BY <1>5, <1>12, <1>13

LEMMA WatchedBegin ==
  ASSUME Exclusive, Beside, Watched, BeginCycle
  PROVE  Watched'
  <1>1. /\ b'.state = b.state /\ b'.watchdog = b.watchdog /\ b'.dtack_n = b.dtack_n
        /\ sys_addr'.u.kind = sys_addr.u.kind
    BY DEF Exclusive, Owner, BeginCycle, Fields, Beside
  <1>2. cpu.s = "BEGIN" /\ cpu'.s = "S0" /\ pin' = pin
    BY BeginFacts DEF Exclusive
  <1> QED
    BY <1>1, <1>2 DEF Watched, Foreign, CpuAs

LEMMA ClaimEdge ==
  ASSUME Detectable, Typed, Watching, BusStep, Edge
  PROVE  ClaimsOnlyFree'
  <1>1. DOMAIN b = Fields /\ Exclusive /\ Beside
    BY DEF Typed, Exclusive, Owner
  <1>2. "memx" \notin b.enabled /\ "memx" \notin reg3.en
    BY DEF Watching, ClaimsOnlyFree
  <1>3. "memx" \notin b'.enabled
    <2>1. CASE Detects
      <3>1. Foreign => b.watchdog # 0
        BY <1>1, <2>1, StillCounting
      <3> QED
        BY <1>2, <2>1, <3>1 DEF Detects, Foreign
    <2>2. CASE ~Detects
      BY <1>1, <1>2, <2>2, Detection DEF Begins, Leads, Ends, Waits, Decides
    <2> QED
      BY <2>1, <2>2
  <1>4. reg3'.en \in {b.enabled, reg3.en}
    BY DEF Edge, UpdateReg3
  <1> QED
    BY <1>2, <1>3, <1>4 DEF ClaimsOnlyFree

LEMMA InitWatching ==
  ASSUME Detectable, BusInit
  PROVE  Watching
  <1>1. cpu.cyc.kind = "none" /\ cpu.s = "BEGIN" /\ cpu.t = 0 /\ setup \in Setups
    BY DEF BusInit, CpuInit, NoCycle
  <1>2. /\ b.state = "IDLE" /\ b.m_tick = 0 /\ b.pause = FALSE /\ b.enabled = {}
        /\ reg3.en = setup.enabled
    BY DEF BusInit
  <1>3. pin.clk_d = 0 /\ pin.clk_dd = 0 /\ pin.as_s = 1 /\ pin.as_d = 1
    BY DEF BusInit
  <1>4. ClaimsOnlyFree
    BY <1>1, <1>2 DEF ClaimsOnlyFree, Detectable
  <1> QED
    BY <1>1, <1>2, <1>3, <1>4 DEF Watching, Clocked, Clock, Strobed, Counters, MasterStates,
       Tracked, Addressed, Awaited, Watched, Foreign, InCycle

\* Autodetection never claims a block that another device answers (BS_S_EXMEM_FORK),
\* on a machine whose timing lets it find out.
THEOREM ForeignKept ==
  ASSUME Detectable
  PROVE  Spec => []ClaimsOnlyFree
  <1>1. BusInit => Watching
    BY InitWatching
  <1>2. Typed /\ Watching /\ [Next]_vars => Watching'
    <2> SUFFICES ASSUME Typed, Watching, [Next]_vars
                 PROVE  Watching'
      OBVIOUS
    <2>1. CASE BeginCycle
      <3>1. /\ Exclusive /\ Beside /\ CpuTyped /\ Clocked /\ Strobed /\ Counters /\ Awaited
            /\ Watched
        BY DEF Typed, Exclusive, Watching
      <3>2. /\ Clocked' /\ Strobed' /\ Counters' /\ Tracked' /\ Addressed' /\ Awaited'
            /\ Watched'
        BY <2>1, <3>1, ClockBegin, StrobeBegin, CountersBegin, TrackBegin, LatchBegin,
           AwaitedBegin, WatchedBegin
      <3>3. ClaimsOnlyFree'
        BY <2>1, <3>1 DEF Exclusive, Owner, BeginCycle, Fields, Watching, ClaimsOnlyFree
      <3> QED
        BY <3>2, <3>3 DEF Watching
    <2>2. CASE BusStep /\ Edge
      <3>1. /\ Exclusive /\ Registers /\ Beside /\ CpuTyped
            /\ Clocked /\ Strobed /\ Counters /\ Tracked /\ Addressed
        BY DEF Typed, Exclusive, Watching
      <3>2. Clocked' /\ Strobed' /\ Counters' /\ Tracked' /\ Awaited' /\ ClaimsOnlyFree'
        BY <2>2, <3>1, ClockEdge, StrobeEdge, CountersEdge, TrackEdge, AwaitedEdge, ClaimEdge
      <3>3. Addressed'
        BY <2>2, <3>1, <3>2, LatchEdge
      <3>4. Watched'
        BY <2>2, <3>3, WatchedEdge
      <3> QED
        BY <3>2, <3>3, <3>4 DEF Watching
    <2>3. CASE UNCHANGED vars
      BY <2>3 DEF vars, boardVars, Watching, ClaimsOnlyFree, Clocked, Clock, Strobed, Before,
         During, Counters, Quiet, Tracked, Late, Addressed, Early, Fresh, Since, SafeDelay,
         Awaited, Watched, Foreign, CpuAs, InCycle
    <2> QED
      BY <2>1, <2>2, <2>3, NextSteps
  <1>3. Watching => ClaimsOnlyFree
    BY DEF Watching
  <1> QED
    BY <1>1, <1>2, <1>3, TypedAlways, PTL DEF Spec

-----------------------------------------------------------------------------
(***************************************************************************)
(* The interrupt arbiter, the other process of the top level that answers   *)
(* the CPU, for every set of vectors and every timing of the acknowledge    *)
(* cycle that leaves the arbiter its three edges (LateCheck).               *)
(***************************************************************************)

Waiting == \E s \in Sources : irq_p_n[s] = 0

(* Where the falling edge of IACK is in its shift register: the levels the  *)
(* CPU has driven, newest first, never show two edges at once.              *)
IackInv ==
    /\ i_iack_n = (IF irq_cpu = "iack" THEN 0 ELSE 1)
    /\ irq_cpu \in {"run", "taken"} =>
          /\ iack_edge[0] = 0 => iack_edge[1] = 0
          /\ iack_edge[1] = 0 => iack_edge[2] = 0
    /\ irq_cpu = "taken" => iack_edge[0] = 1
    /\ irq_cpu = "iack" =>
          /\ iack_edge[0] = (IF iack_age >= 1 THEN 0 ELSE 1)
          /\ iack_edge[1] = (IF iack_age >= 2 THEN 0 ELSE 1)
          /\ iack_age = 1 \/ iack_age = 2 => iack_edge[2] = 1
          /\ iack_age >= 3 => iack_edge[2] = 0

(* The claim happens between ages 2 and 3, and the check reads its outcome. *)
ClaimInv ==
    /\ irq_invalid = 1 => iack_edge[2] = 0
    /\ owner # NoSource => irq_cpu = "iack" /\ iack_age >= 3
    /\ irq_cpu = "iack" /\ iack_age >= 3 => (irq_invalid = 1 <=> owner = NoSource)
    /\ irq_cpu # "iack" => answer = "none"
    /\ irq_cpu = "iack" => answer =
          IF iack_age <= check_at THEN "none"
          ELSE IF owner = NoSource THEN "fail" ELSE "vector"

(* A source whose line was seen high three samples ago is owed a request.   *)
ServedInv ==
    \A s \in Sources :
        /\ irq_p_n[s] = 0 => ~served[s]
        /\ irq_edge[s][2] = 1 => ~served[s]

VectorInv ==
    /\ \A s \in Sources : irq_p_n[s] = 0 => irq_p_vec[s] \in Vector[s]
    /\ owner # NoSource => irq_int_vec \in Vector[owner]

(* From the moment the CPU can see the line until the claim, a request      *)
(* waits or one was taken back.                                             *)
WithdrawnInv ==
    /\ (irq_cpu = "run" /\ o_irq_n = 0) \/ irq_cpu = "taken" \/ (irq_cpu = "iack" /\ iack_age <= 2)
          => withdrawn \/ Waiting
    /\ irq_cpu = "iack" /\ iack_age >= 3 /\ owner = NoSource => withdrawn

ArbiterInv == IrqTypeOK /\ IackInv /\ ClaimInv /\ ServedInv /\ VectorInv /\ WithdrawnInv

Cpu == CpuWait \/ CpuTake \/ CpuStartIack \/ BusInt \/ CpuEndIack

LEMMA InitArbiter == IrqInit => ArbiterInv
<1> SUFFICES ASSUME IrqInit PROVE ArbiterInv
    OBVIOUS
<1> USE DEF IrqInit, Sources, Mercury, Midi, Bit, NoSource, NoVector
<1>1. IrqTypeOK
    BY DEF IrqTypeOK
<1>2. IackInv /\ ClaimInv /\ ServedInv /\ VectorInv /\ WithdrawnInv
    BY DEF IackInv, ClaimInv, ServedInv, VectorInv, WithdrawnInv
<1> QED BY <1>1, <1>2 DEF ArbiterInv

LEMMA NextIsCpuEdge == IrqNext <=> Cpu /\ IrqEdge
BY DEF IrqNext, Cpu

(* The vectors the sources present at an edge.                              *)
LEMMA EdgeInputs ==
    IrqEdge => /\ History
            /\ \E irq_n \in [Sources -> Bit], v \in [Sources -> Vectors] :
                   /\ v[Mercury] \in Vector[Mercury] /\ v[Midi] \in Vector[Midi]
                   /\ Arbiter(irq_n, v)
<1> SUFFICES ASSUME IrqEdge PROVE \E irq_n \in [Sources -> Bit], v \in [Sources -> Vectors] :
                   /\ v[Mercury] \in Vector[Mercury] /\ v[Midi] \in Vector[Midi]
                   /\ Arbiter(irq_n, v)
    BY DEF IrqEdge
<1>1. PICK irq_n \in [Sources -> Bit], m \in Vector[Mercury], t \in Vector[Midi] :
          Arbiter(irq_n, [s \in Sources |-> IF s = Mercury THEN m ELSE t])
    BY DEF IrqEdge
<1> DEFINE v == [s \in Sources |-> IF s = Mercury THEN m ELSE t]
<1>2. v \in [Sources -> Vectors] /\ v[Mercury] \in Vector[Mercury] /\ v[Midi] \in Vector[Midi]
    BY DEF Vectors, Sources, Mercury, Midi
<1>3. Arbiter(irq_n, v)
    BY <1>1
<1> QED BY <1>2, <1>3

LEMMA ArbiterStep == ASSUME LateCheck, ArbiterInv, IrqNext PROVE ArbiterInv'
<1> USE DEF Sources, Mercury, Midi, Bit, NoSource, NoVector
<1>1. Cpu /\ History
    BY NextIsCpuEdge, EdgeInputs
<1>2. PICK irq_n \in [Sources -> Bit], v \in [Sources -> Vectors] :
          /\ v[Mercury] \in Vector[Mercury] /\ v[Midi] \in Vector[Midi]
          /\ Arbiter(irq_n, v)
    BY NextIsCpuEdge, EdgeInputs
<1>3. IrqTypeOK'
    BY <1>1, <1>2, IackAssumption DEF ArbiterInv, IrqTypeOK, Cpu, CpuWait, CpuTake,
        CpuStartIack, BusInt, CpuEndIack, cpuVars, Arbiter, History, ShiftIn,
        Claimed, Detected, Latched, Vectors
<1>4. IackInv'
    <2>1. CASE CpuWait
        BY <2>1, <1>2, <1>3 DEF ArbiterInv, IrqTypeOK, IackInv, CpuWait, cpuVars, Arbiter, ShiftIn
    <2>2. CASE CpuTake
        BY <2>2, <1>2, <1>3 DEF ArbiterInv, IrqTypeOK, IackInv, WithdrawnInv, CpuTake, Arbiter, ShiftIn
    <2>3. CASE CpuStartIack
        BY <2>3, <1>2 DEF ArbiterInv, IrqTypeOK, IackInv, CpuStartIack, Arbiter, ShiftIn
    <2>4. CASE BusInt
        BY <2>4, <1>2 DEF ArbiterInv, IrqTypeOK, IackInv, BusInt, Arbiter, ShiftIn
    <2>5. CASE CpuEndIack
        BY <2>5, <1>2, IackAssumption DEF ArbiterInv, IrqTypeOK, IackInv, LateCheck, CpuEndIack, Arbiter, ShiftIn
    <2> QED BY <1>1, <2>1, <2>2, <2>3, <2>4, <2>5 DEF Cpu
<1>5. ServedInv'
    <2> SUFFICES ASSUME NEW s \in Sources
                 PROVE  /\ irq_p_n'[s] = 0 => ~served'[s]
                        /\ irq_edge'[s][2] = 1 => ~served'[s]
        BY DEF ServedInv
    <2>1. served'[s] => (Claims(s) \/ served[s]) /\ irq_edge[s][1] = 0
        BY <1>1 DEF History
    <2>2. irq_p_n'[s] = (IF Claims(s) THEN 1 ELSE Detected(s))
        BY <1>2 DEF Arbiter
    <2>3. irq_edge'[s][2] = irq_edge[s][1]
        BY <1>2 DEF Arbiter, ShiftIn
    <2>4. /\ irq_p_n[s] = 0 => ~served[s]
          /\ irq_edge[s][2] = 1 => ~served[s]
        BY DEF ArbiterInv, ServedInv
    <2> QED BY <2>1, <2>2, <2>3, <2>4 DEF Detected, Falling
<1>6. ClaimInv'
    <2>1. CASE CpuWait
        BY <2>1, <1>1, <1>2 DEF ArbiterInv, IrqTypeOK, IackInv, ClaimInv, CpuWait, cpuVars,
            Arbiter, History, ShiftIn, Falling, Rising, Claims, Claimed
    <2>2. CASE CpuTake
        BY <2>2, <1>1, <1>2 DEF ArbiterInv, IrqTypeOK, IackInv, ClaimInv, CpuTake,
            Arbiter, History, ShiftIn, Falling, Rising, Claims, Claimed
    <2>3. CASE CpuStartIack
        BY <2>3, <1>1, <1>2, IackAssumption DEF ArbiterInv, IrqTypeOK, IackInv, ClaimInv,
            LateCheck, CpuStartIack, Arbiter, History, ShiftIn, Falling, Rising,
            Claims, Claimed
    <2>4. CASE BusInt
        BY <2>4, <1>1, <1>2, IackAssumption DEF ArbiterInv, IrqTypeOK, IackInv, ClaimInv,
            LateCheck, BusInt, Arbiter, History, ShiftIn, Falling, Rising, Claims, Claimed
    <2>5. CASE CpuEndIack
        BY <2>5, <1>1, <1>2, IackAssumption DEF ArbiterInv, IrqTypeOK, IackInv, ClaimInv,
            LateCheck, CpuEndIack, Arbiter, History, ShiftIn, Falling, Rising
    <2> QED BY <1>1, <2>1, <2>2, <2>3, <2>4, <2>5 DEF Cpu
<1>7. VectorInv'
    <2>1. \A s \in Sources : irq_p_n'[s] = 0 => irq_p_vec'[s] \in Vector[s]
        BY <1>2 DEF ArbiterInv, IrqTypeOK, VectorInv, Arbiter, Detected, Latched, Falling
    <2>2. owner' # NoSource => irq_int_vec' \in Vector[owner']
        BY <1>1, <1>2 DEF ArbiterInv, VectorInv, Arbiter, History, Claims, Claimed
    <2> QED BY <2>1, <2>2 DEF VectorInv
<1>8. WithdrawnInv'
    (* A waiting request waits on, is taken back, or is claimed. *)
    <2>1. Waiting /\ ~Falling(iack_edge) => withdrawn' \/ Waiting'
        BY <1>1, <1>2 DEF ArbiterInv, IrqTypeOK, Waiting, Arbiter, History, Detected, Claims, Falling
    <2>2. o_irq_n' = 0 => Waiting
        BY <1>2 DEF ArbiterInv, IrqTypeOK, Waiting, Arbiter
    <2>3. CASE CpuWait
        BY <2>1, <2>2, <2>3, <1>1 DEF ArbiterInv, IrqTypeOK, IackInv, WithdrawnInv, CpuWait,
            cpuVars, History, Falling
    <2>4. CASE CpuTake
        BY <2>1, <2>4, <1>1 DEF ArbiterInv, IrqTypeOK, IackInv, WithdrawnInv, CpuTake, History, Falling
    <2>5. CASE CpuStartIack
        BY <2>1, <2>5, <1>1 DEF ArbiterInv, IrqTypeOK, IackInv, WithdrawnInv, CpuStartIack,
            History, Falling
    <2>6. CASE BusInt
        BY <2>1, <2>6, <1>1 DEF ArbiterInv, IrqTypeOK, IackInv, ClaimInv, WithdrawnInv, BusInt,
            History, Falling, Claims, Claimed, Waiting
    <2>7. CASE CpuEndIack
        BY <2>1, <2>2, <2>7, <1>1, IackAssumption DEF ArbiterInv, IrqTypeOK, IackInv, WithdrawnInv,
            LateCheck, CpuEndIack, Falling
    <2> QED BY <1>1, <2>3, <2>4, <2>5, <2>6, <2>7 DEF Cpu
<1> QED BY <1>3, <1>4, <1>5, <1>6, <1>7, <1>8 DEF ArbiterInv

LEMMA ArbiterUnmoved == ArbiterInv /\ UNCHANGED irqVars => ArbiterInv'
BY DEF ArbiterInv, IrqTypeOK, IackInv, ClaimInv, ServedInv, VectorInv, WithdrawnInv, Waiting,
    irqVars, arbiterVars, cpuVars

\* The inductive invariant holds of every behaviour.
THEOREM Invariance == ASSUME LateCheck PROVE IrqSpec => []ArbiterInv
<1>1. ArbiterInv /\ [IrqNext]_irqVars => ArbiterInv'
    BY ArbiterStep, ArbiterUnmoved
<1> QED BY <1>1, InitArbiter, PTL DEF IrqSpec

\* The registers of the arbiter, of the acknowledge cycle and of the histories keep their types.
THEOREM ArbiterTyping == ASSUME LateCheck PROVE IrqSpec => []IrqTypeOK
<1>1. ArbiterInv => IrqTypeOK
    BY DEF ArbiterInv
<1> QED BY <1>1, Invariance, PTL

\* A line that stays asserted raises one interrupt.
THEOREM ServedOnce == ASSUME LateCheck PROVE IrqSpec => []OncePerAssertion
<1>1. ArbiterInv => OncePerAssertion
    BY DEF ArbiterInv, ServedInv, OncePerAssertion
<1> QED BY <1>1, Invariance, PTL

\* The board answers with a vector exactly when the arbiter claimed a request,
\* and the vector is one of the source that was claimed.
THEOREM AnswerClaimed == ASSUME LateCheck PROVE IrqSpec => []AnswerMatchesClaim
<1>1. ArbiterInv => AnswerMatchesClaim
    BY DEF ArbiterInv, IrqTypeOK, ClaimInv, VectorInv, AnswerMatchesClaim
<1> QED BY <1>1, Invariance, PTL

\* An acknowledge cycle the board fails had a request that was taken back.
THEOREM FailExplained == ASSUME LateCheck PROVE IrqSpec => []FailNeedsWithdrawal
<1>1. ArbiterInv => FailNeedsWithdrawal
    BY IackAssumption DEF ArbiterInv, IrqTypeOK, ClaimInv, WithdrawnInv, FailNeedsWithdrawal, LateCheck
<1> QED BY <1>1, Invariance, PTL
=============================================================================
