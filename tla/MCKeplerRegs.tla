---------------------------- MODULE MCKeplerRegs ----------------------------
(* Instances of the settings: two registers in two blocks of the EEPROM.  *)
EXTENDS KeplerRegs

TwoRegs   == {"reg4", "reg9"}
OneEach   == [w \in TwoRegs \union {"count"} |-> IF w = "reg4" THEN 0 ELSE 1]
Bits      == {0, 1}
Normal    == {FALSE}
Anyway    == BOOLEAN
WhenIdle  == {"IDLE"}
AnyTime   == {"READ", "IDLE", "COUNT", "ERASE", "WRITE", "SET_CRC", "FIN"}
=============================================================================
