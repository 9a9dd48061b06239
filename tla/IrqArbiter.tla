----------------------------- MODULE IrqArbiter -----------------------------
(***************************************************************************)
(* The interrupt arbiter of the board (RTL/X68KeplerX.vhd, the process that *)
(* drives o_irq_n) with the states BS_S_INT and BS_S_IACK of the bus state  *)
(* machine, which answer the CPU's interrupt acknowledge cycle.             *)
(*                                                                          *)
(* Everything runs on mem_clk: a step of this module is one clock edge, and *)
(* every register takes its next value from the values before the edge.     *)
(* Signals keep the polarity of the code: 0 is asserted for a name in _n.   *)
(* The sources are Mercury (p1, the higher priority) and MIDI (p2); their   *)
(* lines and the CPU are the environment.  The names that X68Bus has too,    *)
(* the bus state machine of the same file, begin with Irq here.              *)
(***************************************************************************)
EXTENDS Integers

CONSTANTS
    Vector,      \* Vector[s]: the vectors source s may present
    CheckAt,     \* ages of the acknowledge cycle at which BS_S_INT may check it
    IackHold     \* edges the CPU holds the IACK pin after that check

Mercury  == "mercury"
Midi     == "midi"
Sources  == {Mercury, Midi}
Bit      == {0, 1}
NoSource == "none"
NoVector == "zero"                \* the reset value of the vector registers
Vectors  == Vector[Mercury] \cup Vector[Midi]

ASSUME VectorAssumption == Vector[Mercury] \cap Vector[Midi] = {}
ASSUME IackAssumption == CheckAt \subseteq Nat /\ IackHold \in Nat

\* BS_S_INT makes its check after the arbiter has settled: two edges bring the
\* pin into i_iack_n_edge(1), the third updates irq_invalid and irq_int_vec.
LateCheck == \A c \in CheckAt : c >= 3

VARIABLES
    irq_edge,     \* irq_edge[s]: irq_p1_edge and irq_p2_edge, 0 the newest bit
    irq_p_n,      \* irq_p_n[s]: irq_p1_n and irq_p2_n, 0 while a request waits
    irq_p_vec,    \* irq_p_vec[s]: the vector latched with the request
    irq_int_vec,  \* the vector an acknowledge cycle returns
    irq_invalid,  \* 1 when an acknowledge cycle found no request
    o_irq_n,      \* the interrupt line to the CPU
    i_iack_n,     \* the CPU's acknowledge pin
    iack_edge,    \* i_iack_n_edge, 0 the newest bit
    irq_cpu,      \* what the CPU is doing about interrupts
    iack_age,     \* edges since the pin fell
    check_at,     \* the age at which BS_S_INT makes its check
    answer,       \* what the check decided
    owner,        \* history: the source this acknowledge cycle claimed
    served,       \* history: served[s] since its line was last seen high
    withdrawn     \* history: a request was taken back since the last cycle

arbiterVars == <<irq_edge, irq_p_n, irq_p_vec, irq_int_vec, irq_invalid,
                 o_irq_n, iack_edge>>
cpuVars     == <<i_iack_n, irq_cpu, iack_age, check_at, answer>>
irqVars     == <<arbiterVars, cpuVars, owner, served, withdrawn>>

IrqTypeOK ==
    /\ irq_edge \in [Sources -> [0..2 -> Bit]]
    /\ irq_p_n \in [Sources -> Bit]
    /\ irq_p_vec \in [Sources -> Vectors \cup {NoVector}]
    /\ irq_int_vec \in Vectors \cup {NoVector}
    /\ irq_invalid \in Bit /\ o_irq_n \in Bit /\ i_iack_n \in Bit
    /\ iack_edge \in [0..2 -> Bit]
    /\ irq_cpu \in {"run", "taken", "iack"}
    /\ iack_age \in Nat /\ check_at \in CheckAt
    /\ answer \in {"none", "vector", "fail", "ignored"}
    /\ owner \in Sources \cup {NoSource}
    /\ served \in [Sources -> BOOLEAN] /\ withdrawn \in BOOLEAN

IrqInit ==
    /\ irq_edge = [s \in Sources |-> [i \in 0..2 |-> 1]]
    /\ irq_p_n = [s \in Sources |-> 1]
    /\ irq_p_vec = [s \in Sources |-> NoVector]
    /\ irq_int_vec = NoVector /\ irq_invalid = 0
    /\ o_irq_n = 1 /\ i_iack_n = 1
    /\ iack_edge = [i \in 0..2 |-> 1]
    /\ irq_cpu = "run" /\ iack_age = 0 /\ check_at \in CheckAt /\ answer = "none"
    /\ owner = NoSource /\ withdrawn = FALSE
    /\ served = [s \in Sources |-> FALSE]

-----------------------------------------------------------------------------
(* The process that drives o_irq_n.                                         *)

\* Mutant of ShiftIn: the oldest bit is kept.
ShiftInUncut(r, b) == [i \in 0..3 |-> IF i = 0 THEN b ELSE r[i - 1]]

\* i_iack_n_edge(1 downto 0) & i_iack_n, and the same for the sources.
ShiftIn(r, b) == [i \in 0..2 |-> IF i = 0 THEN b ELSE r[i - 1]]
Falling(r) == r[2] = 1 /\ r[1] = 0
\* Mutant of Rising: irq_invalid is never cleared.
NeverRising(r) == FALSE
Rising(r)  == r[2] = 0 /\ r[1] = 1

\* Mutant of Detected: a request follows the level of its line.
DetectedLevel(s) == irq_edge[s][1]

\* The request register of s after the edge detection: dropped while the line
\* is seen high, raised when it is seen to fall, kept otherwise.
Detected(s) ==
    IF irq_edge[s][1] = 1 THEN 1
    ELSE IF Falling(irq_edge[s]) THEN 0 ELSE irq_p_n[s]

\* Mutant of Latched: the vector is taken when the line rises.
LatchedAtRise(s, v) == IF Rising(irq_edge[s]) THEN v ELSE irq_p_vec[s]

\* The vector goes with the request.
Latched(s, v) == IF Falling(irq_edge[s]) THEN v ELSE irq_p_vec[s]

\* Mutant of Claims: MIDI goes before Mercury.
ClaimsMidiFirst(s) ==
    /\ Falling(iack_edge)
    /\ irq_p_n[s] = 0
    /\ s = Mercury => irq_p_n[Midi] = 1

\* Mutant of Claims: MIDI is served with Mercury's request only.
ClaimsMidiBehind(s) ==
    /\ Falling(iack_edge)
    /\ irq_p_n[s] = 0
    /\ s = Midi => irq_p_n[Mercury] = 0

\* The falling edge of IACK claims one waiting request, Mercury's first.
Claims(s) ==
    /\ Falling(iack_edge)
    /\ irq_p_n[s] = 0
    /\ s = Midi => irq_p_n[Mercury] = 1

Claimed(none, f) ==
    IF Claims(Mercury) THEN f[Mercury]
    ELSE IF Claims(Midi) THEN f[Midi] ELSE none

Arbiter(irq_n, int_vec) ==
    /\ o_irq_n' = IF irq_p_n[Mercury] = 1 /\ irq_p_n[Midi] = 1 THEN 1 ELSE 0
    /\ iack_edge' = ShiftIn(iack_edge, i_iack_n)
    /\ irq_edge' = [s \in Sources |-> ShiftIn(irq_edge[s], irq_n[s])]
    /\ irq_p_n' = [s \in Sources |-> IF Claims(s) THEN 1 ELSE Detected(s)]
    /\ irq_p_vec' = [s \in Sources |-> Latched(s, int_vec[s])]
    /\ irq_int_vec' = Claimed(irq_int_vec, irq_p_vec)
    /\ irq_invalid' =
           IF Falling(iack_edge) /\ \A s \in Sources : irq_p_n[s] = 1 THEN 1
           ELSE IF Rising(iack_edge) THEN 0 ELSE irq_invalid

-----------------------------------------------------------------------------
(* The CPU takes an interrupt when it sees the line, and runs the           *)
(* acknowledge cycle later, at the end of the instruction it is in.         *)
CpuWait == irq_cpu \in {"run", "taken"} /\ UNCHANGED cpuVars

CpuTake ==
    /\ irq_cpu = "run" /\ o_irq_n = 0
    /\ irq_cpu' = "taken"
    /\ UNCHANGED <<i_iack_n, iack_age, check_at, answer>>

CpuStartIack ==
    /\ irq_cpu = "taken"
    /\ irq_cpu' = "iack" /\ i_iack_n' = 0 /\ iack_age' = 0
    /\ check_at' \in CheckAt
    /\ UNCHANGED answer

(* BS_S_INT looks at the cycle once: with IACK not yet seen it leaves it to *)
(* somebody else, else it returns irq_int_vec unless irq_invalid is up.     *)
BusInt ==
    /\ irq_cpu = "iack" /\ iack_age <= check_at + IackHold
    /\ iack_age' = iack_age + 1
    /\ answer' = IF iack_age # check_at THEN answer
                 ELSE IF iack_edge[1] = 1 THEN "ignored"
                 ELSE IF irq_invalid = 0 THEN "vector" ELSE "fail"
    /\ UNCHANGED <<irq_cpu, i_iack_n, check_at>>

CpuEndIack ==
    /\ irq_cpu = "iack" /\ iack_age > check_at + IackHold
    /\ irq_cpu' = "run" /\ i_iack_n' = 1 /\ iack_age' = 0 /\ answer' = "none"
    /\ UNCHANGED check_at

History ==
    /\ owner' = IF irq_cpu' = "run" THEN NoSource
                ELSE Claimed(owner, [s \in Sources |-> s])
    /\ served' = [s \in Sources |->
           (Claims(s) \/ served[s]) /\ irq_edge[s][1] = 0]
    /\ withdrawn' =
           \/ \E s \in Sources : irq_p_n[s] = 0 /\ irq_edge[s][1] = 1 /\ ~Claims(s)
           \/ withdrawn /\ (irq_cpu' = "run" => irq_cpu = "run")

IrqEdge ==
    /\ \E irq_n \in [Sources -> Bit], m \in Vector[Mercury], t \in Vector[Midi] :
          Arbiter(irq_n, [s \in Sources |-> IF s = Mercury THEN m ELSE t])
    /\ History

IrqNext ==
    \/ CpuWait /\ IrqEdge
    \/ CpuTake /\ IrqEdge
    \/ CpuStartIack /\ IrqEdge
    \/ BusInt /\ IrqEdge
    \/ CpuEndIack /\ IrqEdge

IrqSpec == IrqInit /\ [][IrqNext]_irqVars

\* The clock runs, and the CPU takes an interrupt it sees and acknowledges it.
IrqFairSpec ==
    /\ IrqSpec
    /\ WF_irqVars(IrqNext)
    /\ WF_irqVars(CpuTake /\ IrqEdge)
    /\ WF_irqVars(CpuStartIack /\ IrqEdge)

-----------------------------------------------------------------------------
(* Properties.                                                              *)

\* A line that stays asserted raises one interrupt: no request waits for a
\* source that was claimed and has not been seen high since.
OncePerAssertion ==
    \A s \in Sources : irq_p_n[s] = 0 => ~served[s]

\* The board answers an acknowledge cycle with a vector exactly when the arbiter
\* claimed a request in that cycle, and with a vector of the source it claimed: no
\* request is consumed by a cycle the board leaves unanswered, and none is answered
\* with a stale vector.
AnswerMatchesClaim ==
    /\ answer # "none" => answer # "ignored" /\ (answer = "vector" <=> owner # NoSource)
    /\ answer = "vector" => owner \in Sources /\ irq_int_vec \in Vector[owner]

\* The board leaves its own acknowledge cycle unanswered (BS_S_FAIL) only when
\* a source took a request back since the previous cycle.
FailNeedsWithdrawal == answer = "fail" => withdrawn

\* A Mercury request is claimed or taken back, whatever MIDI does, and a MIDI request
\* once Mercury has fallen silent.
RequestsServed ==
    /\ irq_p_n[Mercury] = 0 ~> irq_p_n[Mercury] = 1
    /\ <>[](irq_p_n[Mercury] = 1) => (irq_p_n[Midi] = 0 ~> irq_p_n[Midi] = 1)
=============================================================================
