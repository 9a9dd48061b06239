----------------------------- MODULE MCMidiCtrl -----------------------------
(* Instances of MidiCtrl: reboot, which has no parameter, and a command with one. *)
EXTENDS MidiCtrl

MCFrameBytes == {Zero}
MCCommands   == {<<0, 0>>, <<1, 2>>}
=============================================================================
