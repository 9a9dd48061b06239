------------------------------- MODULE M68000 -------------------------------
(***************************************************************************)
(* The bus of an X68000 as the board sees it (external: the board's code    *)
(* only samples and drives its pins).  The 68000 runs bus cycles of S-states *)
(* S0 to S7, half a clock each, with pairs of wait states W and SW until    *)
(* DTACK is low; the main board answers the cycles that are not the board's. *)
(* Time is counted in ticks of the board's 100 MHz clock.                   *)
(***************************************************************************)
EXTENDS Integers

CONSTANTS
    Setups,      \* the machines: cycles (the bus cycles the CPU may run: [kind, rw]
                 \* records), main (ticks from AS to the main board's DTACK), off (the
                 \* kinds whose part of the board is disabled), and what the board's
                 \* model adds
    HalfPeriod,  \* ticks of half a CPU clock (5: 10 MHz)
    CpuDelay,    \* ticks from a clock edge to AS, DS and R/W
    DtackSetup,  \* ticks DTACK must be low before the edge that samples it
    Answered     \* the kinds of cycle the main board answers, besides those in off

Never   == -1
NoCycle == [kind |-> "none", rw |-> 1]

ASSUME TimingAssumption ==
    /\ HalfPeriod \in Nat /\ CpuDelay \in 0..(HalfPeriod - 1)
    /\ DtackSetup \in 0..5 /\ \A s \in Setups : s.main \subseteq Nat

VARIABLES
    setup,  \* the machine this behaviour runs in
    cpu,    \* s: the S-state or BEGIN, t: ticks in it, cyc: the cycle, bg_n: the grant
    main    \* ticks until the main board answers the current cycle

InCycle == cpu.cyc.kind # "none"
Clock   == IF cpu.s \in {"BEGIN", "S0", "S2", "S4", "SW", "S6"} THEN 1 ELSE 0

\* The strobes the CPU drives: AS from S2, DS with it on a read and from S4 on
\* a write, both up to S7; R/W is low from S2 to the end of a write.
CpuAs == /\ InCycle
         /\ \/ cpu.s = "S2" /\ cpu.t >= CpuDelay
            \/ cpu.s \in {"S3", "S4", "W", "SW", "S5", "S6"}
            \/ cpu.s = "S7" /\ cpu.t < CpuDelay
CpuDs == /\ CpuAs
         /\ cpu.cyc.rw = 0 => /\ cpu.s \notin {"S2", "S3"}
                              /\ cpu.s = "S4" => cpu.t >= CpuDelay
CpuWr == InCycle /\ cpu.cyc.rw = 0 /\ (CpuAs \/ cpu.s = "S7")

MainDtack(as) == as /\ main = 0

CpuInit ==
    /\ setup \in Setups
    /\ cpu = [s |-> "BEGIN", t |-> 0, cyc |-> NoCycle, bg_n |-> 1]
    /\ main = Never

After(dtack) ==
    CASE cpu.s = "S0" -> "S1"
      [] cpu.s = "S1" -> IF InCycle THEN "S2" ELSE "BEGIN"
      [] cpu.s = "S2" -> "S3"
      [] cpu.s = "S3" -> "S4"
      [] cpu.s \in {"S4", "SW"} -> IF dtack THEN "S5" ELSE "W"
      [] cpu.s = "W"  -> "SW"
      [] cpu.s = "S5" -> "S6"
      [] cpu.s = "S6" -> "S7"
      [] cpu.s = "S7" -> "BEGIN"

\* The CPU begins a cycle or idles for a clock; it idles while the bus is given
\* away.  This takes no time: the edge that begins S0 has happened.
CpuBegin(bgack_n) ==
    /\ cpu.s = "BEGIN"
    /\ \E cyc \in {NoCycle} \cup (IF cpu.bg_n = 0 \/ bgack_n = 0 THEN {} ELSE setup.cycles) :
        /\ cpu' = [cpu EXCEPT !.s = "S0", !.cyc = cyc]
        /\ main' \in IF cyc.kind \in Answered \cup setup.off THEN setup.main
                    ELSE {IF bgack_n = 0 THEN main ELSE Never}
    /\ UNCHANGED setup

\* BG falls after BR, but not between the start of a cycle and its AS; it
\* rises after BGACK.
Grant(br_n, bgack_n) ==
    IF bgack_n = 0 THEN 1
    ELSE IF br_n = 0 /\ (~InCycle \/ CpuAs) THEN 0
    ELSE cpu.bg_n

\* One tick of the CPU and the main board.  master: the board's own AS is about
\* to fall, and a device has to answer the board's cycle, or nobody does.
BusTick(dtack, br_n, bgack_n, as, master) ==
    /\ cpu.s # "BEGIN"
    /\ cpu' = LET c == [cpu EXCEPT !.bg_n = Grant(br_n, bgack_n)]
              IN IF cpu.t = HalfPeriod - 1 THEN [c EXCEPT !.s = After(dtack), !.t = 0]
                 ELSE [c EXCEPT !.t = @ + 1]
    /\ IF master THEN main' \in setup.main \cup {Never}
       ELSE main' = IF as /\ main > 0 THEN main - 1 ELSE main
    /\ UNCHANGED setup

\* The CPU latches the data of a read at the end of S6.
Latches == cpu.s = "S6" /\ cpu.t = HalfPeriod - 1 /\ cpu.cyc.rw = 1
=============================================================================
