-------------------------- MODULE MCGreenPakWriter --------------------------
(* Instances of the writer: the depths are those of system.h. *)
EXTENDS GreenPakWriter
=============================================================================
