------------------------------ MODULE MCI2CBus ------------------------------
(* Instances of the I2C bus: who is hasty, and who gives up.                *)
EXTENDS I2CBus

Nobody == {}
First  == {0}
Last   == {N - 1}
=============================================================================
