----------------------------- MODULE FourPhase -----------------------------
(***************************************************************************)
(* The four-phase handshake that a requester and a server promise each      *)
(* other: the request is raised when both flags are low, acknowledged,      *)
(* withdrawn after the acknowledge, and the acknowledge falls last.         *)
(***************************************************************************)
VARIABLES req, ack

Init == req = 0 /\ ack = 0

Raise   == req = 0 /\ ack = 0 /\ req' = 1 /\ ack' = 0
Accept  == req = 1 /\ ack = 0 /\ req' = 1 /\ ack' = 1
Lower   == req = 1 /\ ack = 1 /\ req' = 0 /\ ack' = 1
Release == req = 0 /\ ack = 1 /\ req' = 0 /\ ack' = 0

Next == Raise \/ Accept \/ Lower \/ Release
Spec == Init /\ [][Next]_<<req, ack>>
=============================================================================
