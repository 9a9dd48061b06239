------------------------------ MODULE MCEm3802 ------------------------------
(* Instances of Em3802: a ring of three bytes, frames of two bits. *)
EXTENDS Em3802

MCBytes     == {0, 1}
MCCauses    == {TxEmpty}
BothCauses  == {Timer, TxEmpty}
SendWrites  == ({"R01"} \X BOOLEAN) \cup ({"R56"} \X Bytes)
ClearWrites == {<<"R56", 0>>, <<"R03", {Timer}>>, <<"R03", {TxEmpty}>>}
=============================================================================
