---------------------------- MODULE MCIrqArbiter ----------------------------
(* The interrupt arbiter with one vector of Mercury and two of MIDI.        *)
EXTENDS IrqArbiter
MCVector == [s \in Sources |-> IF s = Mercury THEN {"m"} ELSE {"t1", "t2"}]
=============================================================================
