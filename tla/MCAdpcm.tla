------------------------------ MODULE MCAdpcm ------------------------------
(* An instance of Adpcm: clocks of 100 and 16 MHz, and the ring of the code.  *)
EXTENDS Adpcm

Bits        == {0, 1}
SixOrSeven  == {6, 7}
=============================================================================
