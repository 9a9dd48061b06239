------------------------------- MODULE X68Bus -------------------------------
(***************************************************************************)
(* The bus state machine of the board (RTL/X68KeplerX.vhd): it follows the  *)
(* 68000's S-states, latches the multiplexed address, decides which cycles  *)
(* are the board's, answers them from the expansion memory or a peripheral, *)
(* and runs the bus master cycles of the SPI port.                          *)
(*                                                                          *)
(* A step is one edge of mem_clk (10 ns): every register takes its next     *)
(* value from the values before the edge.  Of data only its age is kept,    *)
(* the number of CPU cycles since the one it belongs to (2: or more); of an *)
(* address the kind and the age.                                            *)
(***************************************************************************)
EXTENDS M68000, Sequences

(* A machine's setup also has nowait (exmem_enabled(15) = '0': the no-wait mode), *)
(* detect (exmem_enabled(0): memory blocks are detected), enabled (the memory *)
(* blocks that are enabled after a reset), refresh (ticks of an SDRAM refresh, *)
(* 0: no refresh) and rws (the accesses the SPI port may ask for).  Its off is *)
(* what keplerx_reg(4) disables: a part's own registers do not change within *)
(* one of its cycles.                                                       *)
CONSTANTS
    WatchdogInit, \* the initial value of exmem_watchdog (50)
    CounterInit,  \* the initial value of busmas_counter (63)
    AckLatency,   \* AckLatency[k]: ticks peripheral k may take to acknowledge
    SampleAges,   \* SampleAges[k]: ticks of a request at which k reads the bus
    SwitchTicks,  \* ticks from bus_mode 0011 to the write data on the pins
    ReadLatency   \* ticks from an SDRAM read command to rd_ready

(* The kinds of cycle.  mem1 is block 1, which the main board answers too;  *)
(* memx a block of some other device; iack and iackx an acknowledge of the  *)
(* board's interrupt and of another, iack0 one that reaches the board with  *)
(* no request of it, which is not to happen (IrqArbiter decides which);     *)
(* snoop a write the board copies but the main board answers (OPM, ADPCM,   *)
(* PPI); area the AREA register, kx the board's registers; reserved a cycle *)
(* with a function code the 68000 does not use.                             *)
Memory      == {"mem1", "mem", "memx"}
Iacks       == {"iack", "iackx", "iack0"}
Peripherals == {"kx", "area", "snoop", "midi", "merc"}
EarlySnoop  == {"kx", "midi", "merc", "snoop"}
EarlyWrites == {"kx", "midi", "merc"}       \* DTACK from BS_S_ABIN_L
Old         == 2                   \* the age of data of two or more cycles ago
SafeDelay   == IF setup.nowait THEN 0 ELSE 2
On(kind)    == kind \notin setup.off

ASSUME SetupAssumption == \A s \in Setups : s.enabled \subseteq Memory

VARIABLES
    pin,         \* the synchronised samples of the bus pins
    m68k_state,  \* the S-state the board believes the CPU is in
    bus_tick,    \* ticks since that S1, or 32 + ticks since S6
    sys_addr,    \* the latched address: u and l, the kind and age of each half
    b,           \* the registers of the bus state machine
    latch,       \* the 16374 that holds the CPU's write data (external)
    reg3,        \* en: keplerx_reg(3), ack: keplerx_reg_update_ack(3)
    per,         \* the peripheral at the other end of the request
    ex,          \* the expansion memory controller
    sdram,       \* the SDRAM controller
    spi          \* the bus master command of the SPI port
boardVars == <<pin, m68k_state, bus_tick, sys_addr, b, latch, reg3, per, ex, sdram, spi>>
vars == <<setup, cpu, main, boardVars>>

AsPin    == CpuAs \/ b.as_n = 0
DtackPin == (b.dtack_n = 0 /\ AsPin) \/ MainDtack(AsPin)
DtackSeen == DtackPin /\ \A i \in 1..DtackSetup : pin.dtack[i] = 0
N(p)     == IF p THEN 0 ELSE 1

BusStates == {"IDLE", "ABIN_U", "ABIN_L", "EXMEM_FORK", "EXMEM_RD", "EXMEM_RD_FIN",
    "EXMEM_RD_FIN_2", "EXMEM_WR", "EXMEM_WR_FIN", "DBIN_P", "DBIN", "DBOUT",
    "FIN_WAIT", "FIN_RD", "FIN_RD_WAIT", "FIN", "INT", "IACK", "IACK2", "FAIL",
    "M_ABOUT_U", "M_ABOUT_L", "M_DBIN_WAIT", "M_DBIN", "M_DBOUT", "M_DBOUT_WAIT", "M_FIN_WAIT", "M_FIN"}
M68kStates == {"S0", "S1", "S2", "S3", "S4", "S5", "S6", "S7"}

-----------------------------------------------------------------------------
(* The synchronisers, the S-state tracker and the address latches.          *)

Sample ==
    pin' = [clk_d |-> Clock, clk_dd |-> pin.clk_d,
            as_s |-> N(AsPin),
            as_d |-> IF pin.as_s = 1 /\ ~AsPin THEN 1 ELSE 0,
            as_dd |-> pin.as_d,
            rw_d |-> N(CpuWr), ds_d |-> N(CpuDs),
            dtack |-> <<N(DtackPin)>> \o SubSeq(pin.dtack, 1, 4),
            bg_d |-> cpu.bg_n]

Resync == pin.clk_dd = 0 /\ pin.clk_d = 1 /\ pin.as_d = 1 /\ m68k_state # "S1"

Track ==
    IF Resync THEN "S0"
    ELSE IF b.m_tick # 0 THEN "S0"
    ELSE CASE m68k_state = "S0" /\ pin.clk_d = 0 -> "S1"
           [] m68k_state = "S1" /\ pin.clk_d = 1 -> "S2"
           [] m68k_state = "S2" /\ pin.clk_d = 0 -> IF pin.as_dd = 1 THEN "S1" ELSE "S3"
           [] m68k_state = "S3" /\ pin.clk_d = 1 -> "S4"
           [] m68k_state = "S4" /\ pin.clk_dd = 1 /\ pin.clk_d = 0
                                /\ pin.dtack[5] = 0 -> "S5"
           [] m68k_state = "S5" /\ pin.clk_d = 1 -> "S6"
           [] m68k_state = "S6" /\ pin.clk_d = 0 -> "S7"
           [] OTHER -> m68k_state

Tracker ==
    /\ m68k_state' = Track
    /\ bus_tick' = IF m68k_state # Track /\ Track = "S1" THEN 0
                   ELSE IF m68k_state # Track /\ Track = "S6" THEN 32
                   ELSE IF bus_tick \in {31, 63} \/ b.pause THEN bus_tick
                   ELSE bus_tick + 1

PinAddress == [kind |-> cpu.cyc.kind, age |-> 0]

AddressLatch ==
    sys_addr' = IF b.m_tick # 0 THEN sys_addr
                ELSE IF bus_tick = 8 + SafeDelay THEN [sys_addr EXCEPT !.u = PinAddress]
                ELSE IF bus_tick = 12 + SafeDelay THEN [sys_addr EXCEPT !.l = PinAddress]
                ELSE sys_addr

-----------------------------------------------------------------------------
(* The bus state machine.  R is the record of its registers after the        *)
(* assignments made in every state; a state's action overrides it.  served  *)
(* is not a register: it remembers the cycle that was accepted in BS_IDLE.  *)

Mode == IF b.m_tick = 0 /\ bus_tick = 1 + SafeDelay THEN "1000"
        ELSE IF b.m_tick = 0 /\ bus_tick = 4 + SafeDelay THEN "0001"
        ELSE IF m68k_state = "S0" /\ b.m_tick = 0 /\ ~Resync THEN "0000"
        ELSE b.mode

R == [b EXCEPT
        !.mode = Mode,
        !.pause = FALSE,
        !.dtack_n = IF pin.as_d = 1 THEN 1 ELSE @,
        !.m_tick = IF @ \in {31, 63} \/ b.m_pause THEN @ ELSE @ + 1,
        !.br_n = IF b.req_d # b.ack /\ b.bgack_n = 1 THEN 0 ELSE @,
        !.req_d = spi.req]

ToIdle(r) == b' = [r EXCEPT !.mode = "0000", !.state = "IDLE"]
Stay(r)   == b' = r
PinData  == IF latch.left = 0 THEN latch.data ELSE Old
ReadData == IF sdram.at.u = sdram.at.l THEN sdram.at.u ELSE Old
AsHigh    == pin.as_d = 1

Lock(r) == IF m68k_state = "S0" THEN FALSE
           ELSE IF m68k_state = "S1" THEN TRUE
           ELSE IF m68k_state = "S2" /\ pin.clk_d = 0 /\ pin.as_dd = 1 THEN FALSE
           ELSE r.lock

\* Mutant of BS_IDLE: the board takes a bus that is still in use.
TakesBusyBus ==
    /\ b.state = "IDLE"
    /\ b' = IF b.br_n = 0 /\ pin.bg_d = 0
            THEN [R EXCEPT !.bgack_n = 0, !.br_n = 1, !.m_pause = FALSE, !.state = "M_ABOUT_U"]
            ELSE IF m68k_state = "S2" /\ pin.clk_d = 0 /\ pin.as_dd = 0
            THEN [R EXCEPT !.state = "ABIN_U", !.served = 0]
            ELSE [R EXCEPT !.dtack_n = 1, !.m_tick = 0, !.m_pause = TRUE]

BS_IDLE ==
    LET r == [R EXCEPT !.dtack_n = 1, !.req = "none", !.exmem_req = 0,
                       !.enabled = reg3.en, !.m_tick = 0, !.m_pause = TRUE,
                       !.bgack_n = 1, !.as_n = 1, !.lock = Lock(R)]
    IN /\ b.state = "IDLE"
       /\ b' = IF b.br_n = 0 /\ pin.bg_d = 0 /\ pin.as_d = 1 /\ pin.dtack[1] = 1
               THEN [r EXCEPT !.mode = "1000", !.bgack_n = 0, !.br_n = 1,
                              !.m_pause = FALSE, !.state = "M_ABOUT_U"]
               ELSE IF m68k_state = "S2" /\ pin.clk_d = 0 /\ pin.as_dd = 0
               THEN [r EXCEPT !.state = "ABIN_U", !.watchdog = WatchdogInit, !.served = 0]
               ELSE r

BS_S_ABIN_U ==
    LET r == [R EXCEPT !.rw = pin.rw_d]
        k == sys_addr.u.kind
    IN /\ b.state = "ABIN_U"
       /\ IF AsHigh THEN ToIdle(r)
          ELSE IF bus_tick < 9 + SafeDelay THEN Stay(r)
          ELSE IF k = "reserved" THEN ToIdle([r EXCEPT !.lock = FALSE])
          ELSE IF k \in Memory /\ On(k)
          THEN b' = [r EXCEPT
                        !.dtack_n = IF setup.nowait /\ k \in b.enabled /\ sdram.lock
                                    THEN 0 ELSE @,
                        !.state = "EXMEM_FORK"]
          ELSE b' = [r EXCEPT !.lock = FALSE,
                              !.state = IF k \in Iacks THEN "INT" ELSE "ABIN_L"]

\* Mutant of BS_S_ABIN_L: a read gets its DTACK with the address, as a write does.
EarlyReadDtack ==
    /\ b.state = "ABIN_L"
    /\ IF AsHigh THEN ToIdle(R)
       ELSE IF bus_tick < 13 + SafeDelay THEN Stay(R)
       ELSE b' = [R EXCEPT !.dtack_n = IF sys_addr.l.kind \in EarlyWrites THEN 0 ELSE @,
                           !.state = IF b.rw = 1 THEN "DBOUT" ELSE "DBIN_P"]

BS_S_ABIN_L ==
    /\ b.state = "ABIN_L"
    /\ IF AsHigh THEN ToIdle(R)
       ELSE IF bus_tick < 13 + SafeDelay THEN Stay(R)
       ELSE IF b.rw = 1 THEN b' = [R EXCEPT !.mode = "0101", !.state = "DBOUT"]
       ELSE b' = [R EXCEPT !.dtack_n = IF sys_addr.l.kind \in EarlyWrites /\ On(sys_addr.l.kind)
                                       THEN 0 ELSE @,
                           !.state = "DBIN_P"]

(* Expansion memory.                                                        *)
\* Mutant of BS_S_EXMEM_FORK: the DTACK of another device does not end the detection.
ClaimsAnswered ==
    LET k == sys_addr.u.kind IN
    /\ b.state = "EXMEM_FORK"
    /\ b' = IF k \in b.enabled
            THEN [R EXCEPT !.state = IF b.rw = 1 THEN "EXMEM_RD" ELSE "EXMEM_WR"]
            ELSE IF b.watchdog = 0 THEN [R EXCEPT !.enabled = @ \cup {k}, !.update = ~@]
            ELSE [R EXCEPT !.pause = TRUE, !.watchdog = @ - 1]

BS_S_EXMEM_FORK ==
    LET k == sys_addr.u.kind IN
    /\ b.state = "EXMEM_FORK"
    /\ IF ~On(k) THEN ToIdle([R EXCEPT !.exmem_req = 0])
       ELSE IF k \in b.enabled
       THEN b' = IF b.rw = 1
                 THEN [R EXCEPT !.exmem_req = 1, !.mode = "0101", !.state = "EXMEM_RD"]
                 ELSE [R EXCEPT !.state = "EXMEM_WR"]
       ELSE IF ~setup.detect \/ k = "mem1" THEN ToIdle([R EXCEPT !.exmem_req = 0])
       ELSE IF AsHigh \/ pin.dtack[1] = 0 THEN ToIdle(R)
       ELSE IF b.watchdog = 0
       THEN b' = [R EXCEPT !.pause = TRUE, !.enabled = @ \cup {k}, !.update = ~@,
                           !.exmem_req = IF b.rw = 1 THEN 1 ELSE @]
       ELSE b' = [R EXCEPT !.pause = TRUE, !.exmem_req = 0, !.watchdog = @ - 1]

BS_S_EXMEM_RD ==
    /\ b.state = "EXMEM_RD"
    /\ b' = [R EXCEPT !.mode = "0101", !.state = "EXMEM_RD_FIN"]

\* Mutant of BS_S_EXMEM_RD_FIN: DTACK without waiting for the memory.
DtackBeforeReady ==
    /\ b.state = "EXMEM_RD_FIN"
    /\ b' = [R EXCEPT !.data = ReadData, !.dtack_n = 0, !.state = "EXMEM_RD_FIN_2"]

BS_S_EXMEM_RD_FIN ==
    /\ b.state = "EXMEM_RD_FIN"
    /\ b' = IF sdram.ready
            THEN [R EXCEPT !.data = ReadData, !.mode = "0100",
                           !.dtack_n = IF sys_addr.u.kind # "mem1" THEN 0 ELSE @,
                           !.exmem_req = 0, !.state = "EXMEM_RD_FIN_2"]
            ELSE [R EXCEPT !.mode = IF bus_tick = 17 /\ setup.nowait THEN "0100" ELSE @]

BS_S_EXMEM_RD_FIN_2 ==
    /\ b.state = "EXMEM_RD_FIN_2"
    /\ LET r == [R EXCEPT !.lock = FALSE]
       IN IF AsHigh THEN ToIdle(r) ELSE Stay(r)

\* Mutant of BS_S_EXMEM_WR: the data is taken before the latch has it.
NoLatchWait ==
    /\ b.state = "EXMEM_WR"
    /\ IF bus_tick < 15 + SafeDelay THEN Stay(R)
       ELSE b' = [R EXCEPT !.idata = PinData, !.exmem_req = 1, !.mode = "0011",
                           !.dtack_n = 0, !.state = "EXMEM_WR_FIN"]

BS_S_EXMEM_WR ==
    /\ b.state = "EXMEM_WR"
    /\ LET own == sys_addr.u.kind # "mem1"
           r   == [R EXCEPT !.dtack_n = IF own /\ setup.nowait THEN 0 ELSE @]
       IN IF bus_tick < 15 + SafeDelay THEN Stay(r)
          ELSE IF bus_tick < 24 + SafeDelay THEN b' = [r EXCEPT !.mode = "0011"]
          ELSE b' = [r EXCEPT !.idata = PinData, !.exmem_req = 1, !.mode = "0010",
                              !.dtack_n = IF own THEN 0 ELSE @,
                              !.state = "EXMEM_WR_FIN"]

\* Mutant of BS_S_EXMEM_WR_FIN: the request goes away before AS is high.
LeavesAtOnce ==
    b.state = "EXMEM_WR_FIN" /\ ToIdle([R EXCEPT !.lock = FALSE, !.exmem_req = 0])

BS_S_EXMEM_WR_FIN ==
    /\ b.state = "EXMEM_WR_FIN"
    /\ LET r == [R EXCEPT !.lock = FALSE]
       IN IF AsHigh THEN ToIdle([r EXCEPT !.exmem_req = 0]) ELSE Stay(r)

(* Peripheral cycles.                                                       *)
\* Mutant of BS_S_DBIN_P: the data is taken at once.
NoSettling ==
    /\ b.state = "DBIN_P"
    /\ IF AsHigh THEN ToIdle(R)
       ELSE IF bus_tick < 15 + SafeDelay THEN Stay(R)
       ELSE b' = [R EXCEPT !.mode = "0011", !.idata = PinData, !.state = "DBIN"]

BS_S_DBIN_P ==
    /\ b.state = "DBIN_P"
    /\ IF AsHigh THEN ToIdle(R)
       ELSE IF bus_tick < 15 + SafeDelay THEN Stay(R)
       ELSE IF pin.ds_d = 1 \/ bus_tick < 24 + SafeDelay
       THEN b' = [R EXCEPT !.mode = "0011"]
       ELSE b' = [R EXCEPT !.mode = "0011", !.idata = PinData, !.state = "DBIN"]

BS_S_DBIN ==
    LET k == sys_addr.l.kind IN
    /\ b.state = "DBIN"
    /\ IF k \in Peripherals /\ On(k)
       THEN b' = [R EXCEPT !.req = k, !.idata = PinData, !.state = "FIN_WAIT",
                           !.dtack_n = IF k \in {"kx", "midi"} THEN 0 ELSE @]
       ELSE ToIdle(R)

BS_S_DBOUT ==
    LET k == sys_addr.l.kind IN
    /\ b.state = "DBOUT"
    /\ IF k \in {"kx", "midi", "merc"} /\ On(k)
       THEN b' = [R EXCEPT !.req = k, !.state = "FIN_WAIT"]
       ELSE ToIdle(R)

\* Mutant of BS_S_FIN_WAIT: the request stays up after the acknowledge.
RequestKept ==
    /\ b.state = "FIN_WAIT"
    /\ b' = IF per.s # "ACK" THEN [R EXCEPT !.data = per.of]
            ELSE [R EXCEPT !.dtack_n = 0, !.state = IF b.rw = 0 THEN "FIN" ELSE "FIN_RD"]

BS_S_FIN_WAIT ==
    /\ b.state = "FIN_WAIT"
    /\ LET r == [R EXCEPT !.data = per.of, !.req = "none"]
       IN IF per.s # "ACK" THEN Stay([R EXCEPT !.data = per.of])
          ELSE IF b.req = "snoop" THEN ToIdle(r)
          ELSE b' = IF b.rw = 0
                    THEN [r EXCEPT !.dtack_n = 0, !.state = "FIN"]
                    ELSE [r EXCEPT !.dtack_n = IF b.req = "kx" THEN 0 ELSE @,
                                   !.state = "FIN_RD"]

BS_S_FIN_RD ==
    /\ b.state = "FIN_RD"
    /\ b' = [R EXCEPT !.mode = "0100", !.wait = 3, !.state = "FIN_RD_WAIT"]

\* Mutant of BS_S_FIN_RD_WAIT: a read gets no DTACK.
NoReadDtack ==
    /\ b.state = "FIN_RD_WAIT"
    /\ b' = IF b.wait = 0 THEN [R EXCEPT !.state = "FIN"] ELSE [R EXCEPT !.wait = @ - 1]

BS_S_FIN_RD_WAIT ==
    /\ b.state = "FIN_RD_WAIT"
    /\ b' = IF b.wait = 0 THEN [R EXCEPT !.dtack_n = 0, !.state = "FIN"]
            ELSE [R EXCEPT !.wait = @ - 1]

BS_S_FIN ==
    /\ b.state = "FIN"
    /\ LET r == [R EXCEPT !.mode = IF b.rw = 1 THEN "0100" ELSE "0010"]
       IN IF AsHigh THEN ToIdle([r EXCEPT !.dtack_n = 1]) ELSE Stay(r)

(* Interrupt acknowledge.                                                   *)
\* Mutant of BS_S_INT: the board answers every acknowledge cycle.
AnswersAnyIack ==
    /\ b.state = "INT"
    /\ IF bus_tick < 15 + SafeDelay THEN Stay(R)
       ELSE b' = [R EXCEPT !.mode = "0101", !.state = "IACK"]

BS_S_INT ==
    /\ b.state = "INT"
    /\ IF bus_tick < 15 + SafeDelay THEN Stay(R)
       ELSE IF sys_addr.u.kind = "iack"
       THEN b' = [R EXCEPT !.mode = "0101", !.state = "IACK"]
       ELSE IF sys_addr.u.kind = "iack0"
       THEN b' = [R EXCEPT !.mode = "0000", !.state = "FAIL"]
       ELSE ToIdle(R)

BS_S_IACK ==
    \/ b.state = "IACK" /\ b' = [R EXCEPT !.data = sys_addr.u.age, !.state = "IACK2"]
    \/ b.state = "IACK2" /\ b' = [R EXCEPT !.state = "FIN_RD"]

BS_S_FAIL == b.state = "FAIL" /\ b' = [R EXCEPT !.state = "IDLE"]

(* Bus master cycles.  UDS, LDS and R/W follow AS and are left out.         *)
BS_M_ABOUT_U ==
    /\ b.state = "M_ABOUT_U"
    /\ b' = IF b.m_tick < 2 THEN [R EXCEPT !.mode = "1000"]
            ELSE IF b.m_tick < 4 THEN [R EXCEPT !.mode = "1001"]
            ELSE IF b.m_tick < 6 THEN [R EXCEPT !.mode = "1011"]
            ELSE IF b.m_tick < 12 THEN R
            ELSE [R EXCEPT !.state = "M_ABOUT_L"]

BS_M_ABOUT_L ==
    /\ b.state = "M_ABOUT_L"
    /\ b' = IF b.m_tick < 14 THEN [R EXCEPT !.mode = "1111"]
            ELSE IF b.m_tick < 20 THEN R
            ELSE IF spi.rw = 1 THEN [R EXCEPT !.counter = CounterInit, !.state = "M_DBIN_WAIT"]
            ELSE [R EXCEPT !.state = "M_DBOUT"]

\* Mutant of Await: the counter is forgotten.
NoTimeout(r, dtack_n, answered) == b' = IF dtack_n = 0 THEN answered ELSE r

\* The wait of a master cycle: for a DTACK, or for busmas_counter to run out.
Await(r, dtack_n, answered) ==
    b' = IF dtack_n = 0 THEN answered
         ELSE IF b.counter = 0 THEN [r EXCEPT !.berr = TRUE, !.state = "M_FIN_WAIT"]
         ELSE [r EXCEPT !.counter = @ - 1]

BS_M_DBIN_WAIT ==
    /\ b.state = "M_DBIN_WAIT"
    /\ LET r == [R EXCEPT !.mode = "1110", !.as_n = 0]
       IN Await(r, pin.dtack[3],
                [r EXCEPT !.m_tick = 32, !.berr = FALSE, !.state = "M_DBIN"])

BS_M_DBIN ==
    /\ b.state = "M_DBIN"
    /\ b' = IF b.m_tick < 37 THEN R
            ELSE IF b.m_tick < 44 THEN [R EXCEPT !.mode = "1010"]
            ELSE IF b.m_tick < 50 THEN R
            ELSE [R EXCEPT !.state = "M_FIN_WAIT"]

BS_M_DBOUT ==
    /\ b.state = "M_DBOUT"
    /\ b' = IF b.m_tick < 25 THEN [R EXCEPT !.mode = "1101"]
            ELSE IF b.m_tick < 27 THEN [R EXCEPT !.mode = "1100"]
            ELSE IF b.m_tick < 31 THEN R
            ELSE [R EXCEPT !.counter = CounterInit, !.state = "M_DBOUT_WAIT"]

BS_M_DBOUT_WAIT ==
    /\ b.state = "M_DBOUT_WAIT"
    /\ LET r == [R EXCEPT !.as_n = 0]
       IN Await(r, pin.dtack[1], [r EXCEPT !.berr = FALSE, !.state = "M_FIN_WAIT"])

BS_M_FIN_WAIT ==
    /\ b.state = "M_FIN_WAIT"
    /\ LET r == [R EXCEPT !.as_n = 1]
       IN b' = IF spi.req = 1
               THEN [r EXCEPT !.ack = 1, !.mode = IF spi.rw = 1 THEN "1010" ELSE "1100"]
               ELSE [r EXCEPT !.ack = 0, !.mode = "1000", !.state = "M_FIN"]

BS_M_FIN ==
    /\ b.state = "M_FIN"
    /\ LET r == [R EXCEPT !.m_pause = TRUE, !.br_n = 1, !.as_n = 1]
       IN IF pin.as_d = 0 \/ DtackPin THEN Stay(r)
          ELSE ToIdle([r EXCEPT !.bgack_n = 1])

-----------------------------------------------------------------------------
(* The processes beside the bus state machine.                              *)

\* The 16374 takes the data bus when the mode becomes 0011 (a write's data is
\* there from S3 to S7), and the FPGA sees it when the GreenPAK has switched.
DataLatch ==
    latch' = IF b'.mode = "0011" /\ b.mode # "0011"
             THEN [data |-> IF CpuWr /\ cpu.s # "S2" THEN 0 ELSE Old, left |-> SwitchTicks]
             ELSE [latch EXCEPT !.left = IF @ = 0 THEN 0 ELSE @ - 1]

\* A peripheral accepts a request, reads the bus at the ages of SampleAges,
\* and acknowledges until the request is withdrawn.
Peripheral ==
    LET reads == per.age \in SampleAges[b.req]
        good  == pin.ds_d = 0 /\ sys_addr.l.age = per.of /\ (b.rw = 0 => b.idata = per.of)
    IN CASE per.s = "IDLE" /\ b.req # "none" ->
              \E n \in AckLatency[b.req] :
                per' = [s |-> "BUSY", age |-> 1, left |-> n, of |-> sys_addr.l.age,
                        intact |-> 0 \in SampleAges[b.req]
                                   => pin.ds_d = 0 /\ (b.rw = 0 => b.idata = sys_addr.l.age)]
         [] per.s = "BUSY" /\ b.req # "none" ->
              per' = [per EXCEPT !.s = IF per.left = 0 THEN "ACK" ELSE @,
                                 !.left = IF @ = 0 THEN 0 ELSE @ - 1,
                                 !.age = IF @ < 7 THEN @ + 1 ELSE @,
                                 !.intact = @ /\ (reads => good)]
         [] per.s # "IDLE" /\ b.req = "none" -> per' = [per EXCEPT !.s = "IDLE"]
         [] OTHER -> UNCHANGED per

\* The register process takes a detected block over when it is not busy.
UpdateReg3 ==
    reg3' = IF b.update # reg3.ack /\ ~(b.req = "kx" /\ per.s # "ACK")
                                   /\ ~(b.req = "none" /\ per.s = "ACK")
            THEN [en |-> b.enabled, ack |-> b.update] ELSE reg3

ExMemory ==
    ex' = CASE ex.s = "IDLE" /\ b.exmem_req = 1 /\ sdram.busy = 0 ->
                 [s |-> IF b.rw = 0 THEN "WR_REQ" ELSE "RD_REQ", en |-> TRUE,
                  data |-> b.idata, ds |-> pin.ds_d]
            [] ex.s = "WR_REQ" ->
                 [ex EXCEPT !.en = sdram.busy = 0, !.s = IF sdram.busy = 0 THEN @ ELSE "WR_ACK"]
            [] ex.s = "RD_REQ" ->
                 [ex EXCEPT !.en = sdram.busy = 0, !.s = IF sdram.busy = 0 THEN @ ELSE "RD_WAIT"]
            [] ex.s = "RD_WAIT" /\ sdram.ready -> [ex EXCEPT !.s = "RD_ACK"]
            [] ex.s \in {"WR_ACK", "RD_ACK"} /\ b.exmem_req = 0 -> [ex EXCEPT !.s = "IDLE"]
            [] OTHER -> ex

\* The SDRAM controller (external): one command at a time, whose address it
\* follows while the enable is high; a refresh at any time the lock is not held
\* and no command waits.
Sdram ==
    LET free    == sdram.busy = 0
        next    == [sdram EXCEPT !.busy = IF free THEN 0 ELSE @ - 1, !.lock = b.lock,
                                 !.ready = sdram.busy = 1 /\ sdram.op = "read",
                                 !.at = IF ex.en THEN [u |-> sys_addr.u.age, l |-> sys_addr.l.age] ELSE @]
        run(op) == [next EXCEPT !.op = op, !.busy = ReadLatency, !.data = ex.data, !.ds = ex.ds]
    IN IF free /\ ex.en
       THEN sdram' = run(IF ex.s = "RD_REQ" THEN "read" ELSE "write")
       ELSE \/ sdram' = next
            \/ /\ free /\ ~b.lock /\ setup.refresh > 0
               /\ sdram' = [next EXCEPT !.op = "refresh", !.busy = setup.refresh, !.lock = FALSE]

\* The bus master commands of the SPI state machine: SPI_CMD_BM_READ or WRITE ("CMD"),
\* its WAIT state, and SPI_FIN, which ends when the host raises CS.  Any byte the host
\* sends in SPI_IDLE is the next command.
Spi ==
    LET s == [spi EXCEPT !.ack_d = b.ack] IN
    CASE spi.s = "IDLE" ->
           \/ spi' = s
           \/ setup.rws # {} /\ spi' = [s EXCEPT !.s = "CMD"]
      [] spi.s = "CMD" ->
           \E rw \in setup.rws : spi' = [s EXCEPT !.s = "WAIT", !.req = 1, !.rw = rw]
      [] spi.s = "WAIT" ->
           spi' = [s EXCEPT !.req = IF spi.ack_d = 1 THEN 0 ELSE 1,
                            !.s = IF spi.ack_d = 1 THEN "FIN" ELSE @]
      [] spi.s = "FIN" ->
           spi' = s \/ spi' = [s EXCEPT !.s = "IDLE"]

-----------------------------------------------------------------------------
BusInit ==
    /\ CpuInit
    /\ pin = [clk_d |-> 0, clk_dd |-> 0, as_s |-> 1, as_d |-> 1, as_dd |-> 1, rw_d |-> 1,
              ds_d |-> 1, dtack |-> <<1, 1, 1, 1, 1>>, bg_d |-> 1]
    /\ m68k_state = "S0" /\ bus_tick = 0
    /\ sys_addr = [u |-> [kind |-> "none", age |-> Old], l |-> [kind |-> "none", age |-> Old]]
    /\ b = [state |-> "IDLE", mode |-> "0000", dtack_n |-> 1, rw |-> 1, req |-> "none",
            exmem_req |-> 0, lock |-> FALSE, enabled |-> {}, watchdog |-> 0, pause |-> FALSE,
            data |-> Old, idata |-> Old, wait |-> 0, update |-> FALSE,
            m_tick |-> 0, m_pause |-> TRUE, br_n |-> 1, bgack_n |-> 1, as_n |-> 1,
            req_d |-> 0, ack |-> 0, counter |-> 0, berr |-> FALSE, served |-> Old]
    /\ latch = [data |-> Old, left |-> 0]
    /\ reg3 = [en |-> setup.enabled, ack |-> FALSE]
    /\ per = [s |-> "IDLE", age |-> 0, left |-> 0, of |-> Old, intact |-> TRUE]
    /\ ex = [s |-> "IDLE", en |-> FALSE, data |-> Old, ds |-> 1]
    /\ sdram = [busy |-> 0, op |-> "none", at |-> [u |-> Old, l |-> Old],
                data |-> Old, ds |-> 1, ready |-> FALSE, lock |-> FALSE]
    /\ spi = [s |-> "IDLE", req |-> 0, rw |-> 1, ack_d |-> 0]

\* The CPU begins its next cycle: whatever the board holds grows older.
Older(age) == IF age < Old THEN age + 1 ELSE Old
BeginCycle ==
    /\ CpuBegin(b.bgack_n)
    /\ sys_addr' = [h \in {"u", "l"} |-> [sys_addr[h] EXCEPT !.age = Older(@)]]
    /\ b' = [b EXCEPT !.data = Older(@), !.idata = Older(@), !.served = Older(@)]
    /\ latch' = [latch EXCEPT !.data = Older(@)]
    /\ per' = [per EXCEPT !.of = Older(@)]
    /\ ex' = [ex EXCEPT !.data = Older(@)]
    /\ sdram' = [sdram EXCEPT !.data = Older(@), !.at = [h \in {"u", "l"} |-> Older(@[h])]]
    /\ UNCHANGED <<pin, m68k_state, bus_tick, reg3, spi>>

\* Everything that happens at a clock edge beside the bus state machine.
Edge ==
    /\ Sample /\ Tracker /\ AddressLatch /\ DataLatch
    /\ Peripheral /\ UpdateReg3 /\ ExMemory /\ Sdram /\ Spi
    /\ BusTick(DtackSeen, b.br_n, b.bgack_n, AsPin, b.as_n = 1 /\ b'.as_n = 0)

Next ==
    \/ BeginCycle
    \/ BS_IDLE /\ Edge
    \/ BS_S_ABIN_U /\ Edge
    \/ BS_S_ABIN_L /\ Edge
    \/ BS_S_EXMEM_FORK /\ Edge
    \/ BS_S_EXMEM_RD /\ Edge
    \/ BS_S_EXMEM_RD_FIN /\ Edge
    \/ BS_S_EXMEM_RD_FIN_2 /\ Edge
    \/ BS_S_EXMEM_WR /\ Edge
    \/ BS_S_EXMEM_WR_FIN /\ Edge
    \/ BS_S_DBIN_P /\ Edge
    \/ BS_S_DBIN /\ Edge
    \/ BS_S_DBOUT /\ Edge
    \/ BS_S_FIN_WAIT /\ Edge
    \/ BS_S_FIN_RD /\ Edge
    \/ BS_S_FIN_RD_WAIT /\ Edge
    \/ BS_S_FIN /\ Edge
    \/ BS_S_INT /\ Edge
    \/ BS_S_IACK /\ Edge
    \/ BS_S_FAIL /\ Edge
    \/ BS_M_ABOUT_U /\ Edge
    \/ BS_M_ABOUT_L /\ Edge
    \/ BS_M_DBIN_WAIT /\ Edge
    \/ BS_M_DBIN /\ Edge
    \/ BS_M_DBOUT /\ Edge
    \/ BS_M_DBOUT_WAIT /\ Edge
    \/ BS_M_FIN_WAIT /\ Edge
    \/ BS_M_FIN /\ Edge

Spec     == BusInit /\ [][Next]_vars
FairSpec == Spec /\ WF_vars(Next)

-----------------------------------------------------------------------------
\* The types of the board's registers; the S-state and the tick stay in step
\* (bus_tick counts to 31 until S6 and from 32 after it).
TypeOK ==
    /\ m68k_state \in M68kStates /\ bus_tick \in 0..63
    /\ b.state \in BusStates /\ b.m_tick \in 0..63 /\ b.enabled \subseteq Memory
    /\ b.req \in Peripherals \cup {"none"}
    /\ b.state = "FIN_WAIT" <=> b.req # "none"
    /\ {sys_addr.u.age, sys_addr.l.age, b.data, b.idata, b.served, latch.data,
        per.of, ex.data, sdram.data} \subseteq 0..Old

\* The board holds DTACK low in a cycle of the CPU, or drives the data bus, only if
\* it accepted that very cycle and the cycle is one it answers.  Block 1 it leaves to
\* the main board in the wait mode, and in EXMEM_RD_FIN and EXMEM_WR in both; in the
\* no-wait mode BS_S_ABIN_U (2063) makes no exception for it and answers first.
\* Excepted is the answer to a write of Mercury that comes so late that the CPU is in
\* its next cycle already (Overrun): BS_S_FIN_WAIT does not look at AS.
Own(c) == /\ \/ c.kind \in {"mem", "kx", "midi", "merc", "iack"}
             \/ c.kind = "area" /\ c.rw = 0
             \/ c.kind = "mem1" /\ setup.nowait
          /\ On(c.kind)
Overrun == /\ [kind |-> "merc", rw |-> 0] \in setup.cycles
           /\ b.state \in {"FIN_WAIT", "FIN"} /\ b.rw = 0 /\ b.served > 0
AnswersOnlyItsOwn ==
    CpuAs => /\ b.dtack_n = 0 => Overrun \/ (b.served = 0 /\ Own(cpu.cyc))
             /\ b.mode = "0100" => /\ b.served = 0 /\ cpu.cyc.rw = 1
                                   /\ Own(cpu.cyc) \/ cpu.cyc.kind = "mem1"

\* When the CPU latches the data of a read the board answers, the board drives the
\* data bus with the data of that cycle.  The data is on the bus already when DTACK
\* falls (BS_S_FIN_RD_WAIT: "assert DTACK only once the data is surely on the bus"),
\* but for what is answered early: memory in the no-wait mode, and the board's own
\* registers, for which BS_S_FIN_WAIT (2365) asserts DTACK with the data and before
\* BS_S_FIN_RD puts it on the bus.  The read that claims a block by timeout has no data.
Claiming == cpu.cyc.kind = "mem" /\ setup.detect /\ b.watchdog = 0
DataInTime ==
    cpu.cyc.rw = 1 /\ ~Claiming /\ ~Overrun =>
        /\ Latches /\ Own(cpu.cyc) => b.data = 0 /\ b.mode = "0100"
        /\ b.dtack_n = 0 /\ CpuAs /\ ~(setup.nowait /\ cpu.cyc.kind \in Memory) =>
              b.data = 0 /\ (b.mode = "0100" \/ cpu.cyc.kind = "kx")

\* Whenever a peripheral reads the address, the strobes or the data of its request
\* they are those of the cycle that made the request, and an SDRAM write stores the
\* data of a cycle at the address of that cycle, with the cycle's byte strobes.
\* Excepted is block 1 in the wait mode: if the main board answers without a wait
\* state, bus_tick begins again at 32 with S6 and cuts short what EXMEM_WR waits for the
\* 16374 (2189: "wait 9 clocks for the 16374 to have switched").
CutShort == ~setup.nowait /\ sys_addr.u.kind = "mem1"
TakenIntact ==
    /\ per.intact
    /\ sdram.op = "write" /\ sdram.busy = 1 /\ ~CutShort =>
           sdram.at.u = sdram.data /\ sdram.at.l = sdram.data /\ sdram.ds = 0

\* The bus state machine does not withdraw a memory write before the memory
\* controller has taken it.
WriteNotLost ==
    [][b.state = "EXMEM_WR_FIN" /\ b'.state = "IDLE" => ex.s \in {"WR_REQ", "WR_ACK"}]_vars

\* Autodetection never claims a block that another device answers.
ClaimsOnlyFree == "memx" \notin b.enabled \cup reg3.en

\* The board drives the bus as its master only after the CPU released it, and
\* gives it back only with its strobes released.
MasterExclusive ==
    /\ b.bgack_n = 0 => ~CpuAs
    /\ b.as_n = 0 => b.bgack_n = 0

\* Every cycle the CPU starts ends, and every command of the SPI port is acknowledged,
\* also when nobody answers.
CyclesEnd == (CpuAs ~> ~CpuAs) /\ (spi.req = 1 ~> spi.req = 0)
=============================================================================
