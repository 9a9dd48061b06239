------------------------------ MODULE ByteQueue ------------------------------
(***************************************************************************)
(* What a MIDI output promises: the bytes the host writes go out in the     *)
(* order of the writes, each of them once and in full: a byte is on the     *)
(* line for QBits bits before the next one begins. Where a reset of the     *)
(* chip begins it cuts the byte that is on the line and may cost the one    *)
(* that is next to go out, and no other.                                    *)
(***************************************************************************)
EXTENDS Sequences, Integers

CONSTANTS QBytes, QBits, Silence     \* Silence: nothing has gone out yet

VARIABLES
    waiting,    \* the bytes written and not yet on the line
    line,       \* the byte that went out last, or is going out
    left,       \* the bits of it that are still to go out
    resetting   \* the chip is being reset

qvars == <<waiting, line, left, resetting>>

QInit == waiting = <<>> /\ line = Silence /\ left = 0 /\ resetting = FALSE

\* In one clock edge a byte may come in while another goes out or is lost.
Written == {<<>>} \cup {<<b>> : b \in QBytes}

\* A byte comes in, and the line keeps its bit or goes to the next one.
Put(new) == /\ waiting' = waiting \o new
            /\ line' = line
            /\ left' = left \/ (left > 0 /\ left' = left - 1)

\* The next byte begins, and the one before it is out.
Send(new) == /\ left = 0 /\ waiting # <<>>
             /\ line' = Head(waiting) /\ left' = QBits
             /\ waiting' = Tail(waiting) \o new

\* The edge at which a reset begins.
Cut(new) == /\ resetting' /\ ~resetting
            /\ line' = Silence /\ left' = 0
            /\ \/ waiting' = waiting \o new
               \/ waiting # <<>> /\ waiting' = Tail(waiting) \o new

QNext == /\ resetting' \in BOOLEAN
         /\ \E new \in Written : Put(new) \/ Send(new) \/ Cut(new)

QSpec == QInit /\ [][QNext]_qvars
=============================================================================
