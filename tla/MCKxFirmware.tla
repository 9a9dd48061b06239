---------------------------- MODULE MCKxFirmware ----------------------------
(* Instances of the firmware: the card moves, the status byte is fought over, *)
(* or the host plays with the LED.                                            *)
EXTENDS KxFirmware

MCSetups == {[pins |-> {"det", "cs"}, regs |-> {"id"}],
             [pins |-> {"det", "int"}, regs |-> {"status"}],
             [pins |-> {}, regs |-> {"color", "bright", "blink"}]}
MCColors  == {0, 255}
MCBrights == {0, 16}
MCShades  == {Dark, "white"}
MCMix == [x \in MCColors \X MCBrights |->
             IF x[1] = 0 \/ x[2] = 0 THEN Dark ELSE "white"]
=============================================================================
