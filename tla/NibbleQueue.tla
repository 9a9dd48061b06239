---------------------------- MODULE NibbleQueue ----------------------------
(***************************************************************************)
(* What a buffer for ADPCM nibbles promises: a byte brings its low and its  *)
(* high nibble, and they leave in the order in which they came, once each.  *)
(* It loses some only when Room of them or more wait.                       *)
(***************************************************************************)
EXTENDS Integers, Sequences

CONSTANTS Nibbles, Room

VARIABLES
    waiting,   \* the nibbles brought and not yet taken, oldest first
    out        \* the nibble that is just being taken, if any

QInit == waiting = <<>> /\ out = <<>>

\* What a late byte may leave: nothing, or all but its high nibble and the nibble
\* before it.
Losses(s) == IF Len(s) < Room THEN {}
             ELSE {<<>>, Append(SubSeq(s, 1, Len(s) - 3), s[Len(s) - 1])}

Kept(s) == {s} \cup Losses(s)

\* What waits then, and what is taken of it.
Leave(s) == out' \in {out, <<>>} /\ waiting' = s
Take(s)  == /\ out = <<>> /\ waiting # <<>> /\ out' = <<Head(waiting)>>
            /\ waiting' = IF s = <<>> THEN s ELSE Tail(s)

Bring(s) == \E lo, hi \in Nibbles :
               \/ out' \in {out, <<>>} /\ waiting' = s \o <<lo, hi>>
               \/ /\ out = <<>> /\ waiting # <<>> /\ out' = <<Head(waiting)>>
                  /\ waiting' = Tail(s) \o <<lo, hi>>

Reset == waiting' = <<>> /\ out' = <<>>

QNext == Reset \/ Bring(waiting) \/ \E s \in Kept(waiting) : Leave(s) \/ Take(s)

QSpec == QInit /\ [][QNext]_<<waiting, out>>
=============================================================================
