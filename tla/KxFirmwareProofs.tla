-------------------------- MODULE KxFirmwareProofs --------------------------
(***************************************************************************)
(* Proofs about the firmware's loop, for any colours and any host.          *)
(*                                                                          *)
(* The core is Sound, which ties the flags of the handshake to the buzzer's *)
(* state and to the notes played: a request is up only in a melody, its     *)
(* note is the one of sound_count, and the notes played are the first       *)
(* sound_count of the table, or one less while the last is still to play.   *)
(* From it follow the type of sound_count (no read behind the table), the   *)
(* whole melody at its end, and every step of the four-phase handshake.     *)
(***************************************************************************)
EXTENDS KxFirmware, SequenceTheorems, TLAPS

Playing == mmc \in {"ATTACHING", "DETACHING"}

\* The history is the first n notes of the melody of the current state.
Played(n) == /\ heard \in Seq(Int) /\ Len(heard) = n
             /\ \A i \in 1..n : heard[i] = Melody(mmc)[i]

Sound ==
    /\ buz = "IDLE" => ack = 0
    /\ buz = "PLAYING" => req = 1 /\ ack = 0
    /\ buz = "STOPPED" => req = 1 \/ ack = 1
    /\ req = 1 => /\ Playing /\ count \in 1..3 /\ note = Melody(mmc)[count]
                  /\ Played(IF buz = "STOPPED" THEN count ELSE count - 1)
    /\ req = 0 /\ Playing => count \in 0..2 /\ Played(count)

IInv == TypeOK /\ Sound

(* The tables of the melodies.                                              *)
LEMMA Tables ==
    ASSUME NEW s
    PROVE  /\ Melody(s) \in Seq(Int) /\ Len(Melody(s)) = 3
           /\ \A i \in 1..3 : Melody(s)[i] \in {8, 10, 12}
  <1>1. <<8, 10, 12>> \in Seq(Int) /\ Len(<<8, 10, 12>>) = 3
    OBVIOUS
  <1>2. <<12, 10, 8>> \in Seq(Int) /\ Len(<<12, 10, 8>>) = 3
    OBVIOUS
  <1>3. \A i \in 1..3 : <<8, 10, 12>>[i] \in {8, 10, 12} /\ <<12, 10, 8>>[i] \in {8, 10, 12}
    OBVIOUS
  <1> QED BY <1>1, <1>2, <1>3 DEF Melody, AttachingSound, DetachingSound

(* A history of three notes that agree with the table is the table.         *)
LEMMA PlayedWhole ==
    ASSUME Played(3)
    PROVE  heard = Melody(mmc)
  <1>1. Melody(mmc) \in Seq(Int) /\ Len(Melody(mmc)) = 3
    BY Tables
  <1>2. heard \in Seq(Int) /\ Len(heard) = Len(Melody(mmc))
        /\ \A i \in 1..Len(heard) : heard[i] = Melody(mmc)[i]
    BY <1>1 DEF Played
  <1> QED BY <1>1, <1>2, SeqEqual

-----------------------------------------------------------------------------
(* What a poll may do to the frame and the place in the loop.               *)
Placed == /\ pc \in Steps \cup {"frame"}
          /\ frame \in [lamp : Leds \cup {"none"}, shows : Colours, next : Steps]
          /\ pc = "frame" <=> frame.lamp # "none"

LEMMA Framing ==
    ASSUME TypeOK, NEW l \in Leds, NEW c \in Colours, NEW n \in Steps, SetRGB(l, c, n)
    PROVE  Placed'
  BY DEF Placed, SetRGB, TypeOK, Leds, Steps

LEMMA Going ==
    ASSUME TypeOK, NEW n \in Steps, Goto(n), pc # "frame"
    PROVE  Placed'
  BY DEF Placed, Goto, TypeOK, Steps

(* Steps that touch neither the handshake nor the melody keep Sound.        *)
soundness == <<req, ack, note, buz, mmc, count, heard>>

LEMMA Quiet == Sound /\ UNCHANGED soundness => Sound'
  BY DEF Sound, soundness, Playing, Played

(* A pulled or pushed card begins a melody of no notes.                     *)
LEMMA Started ==
    ASSUME Sound, ~Playing, NEW s, Start(s), UNCHANGED <<req, ack, note, buz>>
    PROVE  Sound'
  <1>1. req # 1
    BY DEF Sound
  <1>2. heard' = <<>> /\ count' = 0
    BY DEF Start
  <1>3. <<>> \in Seq(Int) /\ Len(<<>>) = 0
    OBVIOUS
  <1>4. Played(count)'
    BY <1>2, <1>3 DEF Played
  <1> QED BY <1>1, <1>2, <1>4 DEF Sound, Playing

LEMMA InitInv == Init => IInv
  <1> SUFFICES ASSUME Init PROVE IInv
    OBVIOUS
  <1>1. Dark \in Shades /\ {0, 255} \subseteq Colors /\ {0, 16} \subseteq Brights
    BY ShadesAssumption
  <1>2. NoByte \in Levels
    BY DEF NoByte, Levels
  <1>3. NoFrame \in [lamp : Leds \cup {"none"}, shows : Colours, next : Steps]
        /\ NoFrame.lamp = "none"
    BY <1>1 DEF NoFrame, Colours, Steps, Leds
  <1>4. lamp \in [Leds -> Colours]
    BY <1>1 DEF Init, Colours
  <1>5. reg = [id |-> "KX", status |-> NoByte, color |-> 255, bright |-> 16, blink |-> "steady"]
    BY DEF Init
  <1>6. reg \in [id : {"KX", "other"}, status : Levels, color : Colors, bright : Brights, blink : Blinks]
    BY <1>1, <1>2, <1>5 DEF Blinks
  <1>7. TypeOK
    <2>1. /\ setup \in Setups /\ pin \in Levels /\ pc = "regs" /\ tmp = NoByte /\ frame = NoFrame
          /\ req = 0 /\ ack = 0 /\ note = 0 /\ buz = "IDLE" /\ over = FALSE
          /\ mmc = "INIT" /\ count = 0 /\ mmcN = 1 /\ noticed = FALSE
          /\ ctx = [color |-> 0, bright |-> 0, blink |-> "steady"] /\ led = "IDLE"
          /\ last = [color |-> 0, bright |-> 0, blink |-> "steady"] /\ rgb = Dark /\ lit = FALSE
      BY DEF Init
    <2>2. over \in BOOLEAN /\ noticed \in BOOLEAN /\ lit \in BOOLEAN
      BY <2>1, Zenon
    <2> QED BY <1>1, <1>2, <1>3, <1>4, <1>6, <2>1, <2>2 DEF TypeOK, Steps, Blinks, MmcStates
  <1>8. Sound
    BY DEF Init, Sound, Playing
  <1> QED BY <1>7, <1>8 DEF IInv

-----------------------------------------------------------------------------
(* The two machines of the handshake.                                       *)
LEMMA BuzzerStep == IInv /\ kx_buzzer_poll => IInv'
  <1> SUFFICES ASSUME IInv, kx_buzzer_poll PROVE IInv'
    OBVIOUS
  <1> USE DEF IInv
  <1>1. Placed'
    <2>1. "det_load" \in Steps
      BY DEF Steps
    <2> QED BY <2>1, Going DEF kx_buzzer_poll
  <1>2. TypeOK'
    <2>1. ack' \in {0, 1} /\ buz' \in {"IDLE", "PLAYING", "STOPPED"} /\ over' \in BOOLEAN
      BY DEF kx_buzzer_poll, BuzzerIdle, BuzzerPlaying, BuzzerStopped, TypeOK
    <2> QED BY <1>1, <2>1 DEF kx_buzzer_poll, TypeOK, Placed, hostVars, mmcVars, ledVars
  <1>3. Sound'
    <2> USE DEF kx_buzzer_poll, mmcVars
    <2>1. CASE BuzzerIdle
      BY <2>1 DEF BuzzerIdle, Sound, Playing, Played, TypeOK
    <2>2. CASE BuzzerPlaying
      <3>1. CASE over
        <4>1. /\ req = 1 /\ ack = 0 /\ Playing /\ count \in 1..3 /\ note = Melody(mmc)[count]
              /\ Played(count - 1)
          BY <2>2 DEF BuzzerPlaying, Sound
        <4>2. /\ heard' = Append(heard, note) /\ buz' = "STOPPED" /\ ack' = 0
          BY <2>2, <3>1, <4>1 DEF BuzzerPlaying
        <4>3. note \in Int
          BY DEF TypeOK
        <4>4. Played(count)'
          BY <4>1, <4>2, <4>3 DEF Played
        <4> QED BY <4>1, <4>2, <4>4 DEF Sound, Playing
      <3>2. CASE ~over
        BY <2>2, <3>2 DEF BuzzerPlaying, Sound, Playing, Played
      <3> QED BY <3>1, <3>2 DEF TypeOK
    <2>3. CASE BuzzerStopped
      BY <2>3 DEF BuzzerStopped, Sound, Playing, Played, TypeOK
    <2> QED BY <2>1, <2>2, <2>3
  <1> QED BY <1>2, <1>3

LEMMA MelodyStep ==
    ASSUME IInv, kx_mmc_poll, NEW from \in {"ATTACHING", "DETACHING"},
           NEW to \in {"ATTACHED", "DETACHED"}, NEW colour \in Colours,
           MmcMelody(from, to, colour)
    PROVE  IInv' /\ (mmc' # mmc => heard = Melody(mmc))
  <1> USE DEF IInv, MmcMelody
  <1> from = mmc /\ Playing
    BY DEF Playing
  <1>1. Placed'
    <2>1. "led_color" \in Steps /\ "mmc" \in Leds /\ pc # "frame"
      BY DEF Steps, Leds, kx_mmc_poll
    <2> QED BY <2>1, Going, Framing
  <1>2. CASE req = 0 /\ ack = 0
    <2>1. count \in 0..2 /\ Played(count)
      BY <1>2 DEF Sound
    <2>2. /\ req' = 1 /\ note' = Melody(mmc)[count + 1] /\ count' = count + 1
          /\ mmc' = mmc /\ heard' = heard /\ ack' = ack /\ buz' = buz
      BY <1>2, <2>1 DEF NoteAt, kx_mmc_poll
    <2>3. note' \in {8, 10, 12}
      BY <2>1, <2>2, Tables
    <2>4. buz = "IDLE"
      BY <1>2 DEF Sound, TypeOK
    <2>5. Sound'
      BY <2>1, <2>2, <2>4, <1>2 DEF Sound, Playing, Played
    <2>6. TypeOK'
      BY <1>1, <1>2, <2>1, <2>2, <2>3 DEF TypeOK, Placed, kx_mmc_poll, hostVars, ledVars
    <2> QED BY <2>2, <2>5, <2>6
  <1>3. CASE ~(req = 0 /\ ack = 0)
    <2>1. /\ req' = IF ack = 1 THEN 0 ELSE req
          /\ mmc' = IF ack = 1 /\ count = 3 THEN to ELSE mmc
          /\ UNCHANGED <<note, count, heard, ack, buz>>
      BY <1>3 DEF kx_mmc_poll
    <2>2. TypeOK'
      BY <1>1, <1>3, <2>1 DEF TypeOK, Placed, kx_mmc_poll, hostVars, ledVars, MmcStates
    <2>3. ack = 1 => buz = "STOPPED"
      BY DEF Sound, TypeOK
    <2>4. ack = 1 /\ count = 3 => Played(3)
      BY <2>3 DEF Sound, TypeOK
    <2>5. Sound'
      <3>1. CASE ack = 0
        BY <3>1, <2>1 DEF Sound, Playing, Played
      <3>2. CASE ack = 1 /\ count = 3
        BY <3>2, <2>1, <2>3 DEF Sound, Playing
      <3>3. CASE ack = 1 /\ count # 3
        <4>1. count \in 0..2 /\ Played(count)
          BY <3>3, <2>3 DEF Sound, TypeOK
        <4> QED BY <3>3, <4>1, <2>1, <2>3 DEF Sound, Playing, Played
      <3> QED BY <3>1, <3>2, <3>3 DEF TypeOK
    <2> QED BY <2>1, <2>2, <2>4, <2>5, PlayedWhole
  <1> QED BY <1>2, <1>3

LEMMA MmcStep == IInv /\ kx_mmc_poll => IInv'
  <1> SUFFICES ASSUME IInv, kx_mmc_poll PROVE IInv'
    OBVIOUS
  <1>1. "led_color" \in Steps /\ "mmc" \in Leds /\ pc # "frame"
    BY DEF Steps, Leds, kx_mmc_poll
  <1>2. {"red", "yellow", "green"} \subseteq Colours
    BY DEF Colours
  <1>3. CASE MmcMelody("ATTACHING", "ATTACHED", "yellow")
    BY <1>2, <1>3, MelodyStep
  <1>4. CASE MmcMelody("DETACHING", "DETACHED", "red")
    BY <1>2, <1>4, MelodyStep
  <1>5. CASE MmcInit
    <2>1. Placed'
      BY <1>1, <1>2, <1>5, Framing DEF IInv, MmcInit
    <2>2. TypeOK'
      BY <1>5, <2>1 DEF IInv, MmcInit, TypeOK, Placed, kx_mmc_poll, hostVars, ledVars, MmcStates
    <2>3. Sound'
      BY <1>5 DEF IInv, MmcInit, Sound, Playing, kx_mmc_poll
    <2> QED BY <2>2, <2>3 DEF IInv
  <1>6. CASE MmcPresent
    <2>1. Placed'
      BY <1>1, <1>2, <1>6, Going, Framing DEF IInv, MmcPresent
    <2>2. TypeOK'
      <3>1. mmc' \in MmcStates /\ count' \in 0..3 /\ mmcN' \in {0, 1}
        BY <1>6 DEF IInv, MmcPresent, Start, TypeOK, MmcStates
      <3>2. req' = req /\ note' = note
        BY <1>6 DEF MmcPresent
      <3>3. noticed' \in BOOLEAN
        BY <1>6, Zenon DEF IInv, MmcPresent, TypeOK
      <3> QED BY <2>1, <3>1, <3>2, <3>3 DEF IInv, TypeOK, Placed, kx_mmc_poll, hostVars, ledVars
    <2>3. Sound'
      <3>1. ~Playing
        BY <1>6 DEF MmcPresent, Playing
      <3>2. CASE Start("DETACHING")
        BY <1>6, <3>1, <3>2, Started DEF IInv, MmcPresent, kx_mmc_poll
      <3>3. CASE ~Start("DETACHING")
        BY <1>6, <3>1, <3>3 DEF IInv, MmcPresent, Sound, Playing, kx_mmc_poll
      <3> QED BY <3>2, <3>3
    <2> QED BY <2>2, <2>3 DEF IInv
  <1>7. CASE MmcAbsent
    <2>1. Placed'
      BY <1>1, <1>7, Going DEF IInv, MmcAbsent
    <2>2. TypeOK'
      <3>1. mmc' \in MmcStates /\ count' \in 0..3 /\ mmcN' \in {0, 1}
        BY <1>7 DEF IInv, MmcAbsent, Start, TypeOK, MmcStates
      <3>2. req' = req /\ note' = note
        BY <1>7 DEF MmcAbsent
      <3>3. noticed' \in BOOLEAN
        BY <1>7, Zenon DEF IInv, MmcAbsent, TypeOK
      <3> QED BY <2>1, <3>1, <3>2, <3>3 DEF IInv, TypeOK, Placed, kx_mmc_poll, hostVars, ledVars
    <2>3. Sound'
      <3>1. ~Playing
        BY <1>7 DEF MmcAbsent, Playing
      <3>2. CASE Start("ATTACHING")
        BY <1>7, <3>1, <3>2, Started DEF IInv, MmcAbsent, kx_mmc_poll
      <3>3. CASE ~Start("ATTACHING")
        BY <1>7, <3>1, <3>3 DEF IInv, MmcAbsent, Sound, Playing, kx_mmc_poll
      <3> QED BY <3>2, <3>3
    <2> QED BY <2>2, <2>3 DEF IInv
  <1> QED BY <1>3, <1>4, <1>5, <1>6, <1>7 DEF kx_mmc_poll

-----------------------------------------------------------------------------
(* Everything else leaves the handshake and the melody alone.               *)
LEMMA OtherStep ==
    ASSUME IInv,
           \/ PinMoves \/ HostWrite \/ HostRead \/ TimeOver \/ Regs \/ DetLoad \/ DetStore \/ DetKept
           \/ CsLoad \/ CsStore \/ FrameSent \/ LedColor \/ LedBright \/ LedBlink
           \/ kx_status_led_poll \/ IntLoad \/ IntStore \/ UNCHANGED vars
    PROVE  IInv' /\ UNCHANGED soundness
  <1>1. UNCHANGED soundness
    BY DEF soundness, PinMoves, HostWrite, HostRead, TimeOver, Regs, DetLoad, DetStore, DetKept,
           CsLoad, CsStore, FrameSent, LedColor, LedBright, LedBlink, kx_status_led_poll, IntLoad, IntStore, vars, soundVars, mmcVars
  <1>2. Sound'
    BY <1>1, Quiet DEF IInv
  <1>3. TypeOK'
    <2> USE DEF IInv, hostVars, soundVars, mmcVars, ledVars
    <2> /\ {"buzzer", "det_store", "cs_load", "cs_store", "mmc", "led_bright", "led_blink", "led",
            "int_load", "int_store", "regs"} \subseteq Steps
        /\ "status" \in Leds /\ Dark \in Shades /\ Shades \subseteq Colours
      BY ShadesAssumption DEF Steps, Leds, Colours
    <2> NoByte \in Levels
      BY DEF NoByte, Levels
    <2>1. CASE PinMoves
      <3>1. pin' \in Levels
        <4>1. PICK p \in setup.pins : pin' = [pin EXCEPT ![p] = 1 - @]
          BY <2>1 DEF PinMoves
        <4>2. p \in Pins /\ pin \in [Pins -> {0, 1}]
          BY SetupsAssumption DEF TypeOK, Levels
        <4>3. 1 - pin[p] \in {0, 1}
          BY <4>2
        <4> QED BY <4>1, <4>2, <4>3 DEF Levels
      <3> QED BY <2>1, <3>1 DEF PinMoves, TypeOK
    <2>2. CASE HostWrite
      <3>1. PICK r \in setup.regs :
              \E v \in (CASE r = "id" -> {"KX", "other"} [] r = "status" -> Levels
                          [] r = "color" -> Colors [] r = "bright" -> Brights
                          [] r = "blink" -> Blinks) :
                reg' = [reg EXCEPT ![r] = v]
        BY <2>2 DEF HostWrite
      <3>2. r \in {"id", "status", "color", "bright", "blink"}
        BY SetupsAssumption DEF TypeOK
      <3>3. reg' \in [id : {"KX", "other"}, status : Levels, color : Colors,
                    bright : Brights, blink : Blinks]
        BY <3>1, <3>2 DEF TypeOK
      <3>4. Placed'
        BY <2>2 DEF HostWrite, Stretch, TypeOK, Placed, Colours
      <3> QED BY <2>2, <3>3, <3>4 DEF HostWrite, TypeOK, Placed
    <2>3. CASE HostRead
      <3>1. Placed'
        BY <2>3 DEF HostRead, Stretch, TypeOK, Placed, Colours
      <3> QED BY <2>3, <3>1 DEF HostRead, TypeOK, Placed
    <2>4. CASE TimeOver
      BY <2>4 DEF TimeOver, TypeOK
    <2>5. CASE Regs
      <3>1. Placed'
        BY <2>5, Going DEF Regs
      <3> QED BY <2>5, <3>1 DEF Regs, TypeOK, Placed
    <2>6. CASE DetLoad
      <3>1. Placed'
        BY <2>6, Going DEF DetLoad
      <3>2. tmp' \in Levels
        BY <2>6 DEF DetLoad, TypeOK, Levels, Pins
      <3> QED BY <2>6, <3>1, <3>2 DEF DetLoad, TypeOK, Placed
    <2>7. CASE DetStore
      <3>1. Placed'
        BY <2>7, Going DEF DetStore
      <3> QED BY <2>7, <3>1 DEF DetStore, TypeOK, Placed
    <2>8. CASE FrameSent
      <3>1. Placed'
        BY <2>8 DEF FrameSent, TypeOK, Placed, NoFrame, Steps, Colours
      <3>2. lamp' \in [Leds -> Colours]
        BY <2>8 DEF FrameSent, TypeOK
      <3> QED BY <2>8, <3>1, <3>2 DEF FrameSent, TypeOK, Placed
    <2>9. CASE LedColor
      <3>1. Placed'
        BY <2>9, Going DEF LedColor
      <3> QED BY <2>9, <3>1 DEF LedColor, TypeOK, Placed
    <2>10. CASE LedBlink
      <3>1. Placed'
        BY <2>10, Going DEF LedBlink
      <3> QED BY <2>10, <3>1 DEF LedBlink, TypeOK, Placed
    <2>11. CASE kx_status_led_poll
      <3>1. pc # "frame" /\ (LedIdle \/ LedUpdating)
        BY <2>11 DEF kx_status_led_poll
      <3>2. CASE LedIdle
        <4>1. Placed'
          BY <3>1, <3>2, Going, Framing DEF LedIdle, TypeOK
        <4>2. last' = ctx \/ last' = last
          BY <3>2 DEF LedIdle
        <4>3. last' \in [color : Colors, bright : Brights, blink : Blinks]
          BY <4>2 DEF TypeOK
        <4>4. lit' \in BOOLEAN
          BY <3>2, Zenon DEF LedIdle, TypeOK
        <4>5. led' \in {"IDLE", "UPDATING"} /\ rgb' = rgb
          BY <3>2 DEF LedIdle
        <4> QED BY <2>11, <4>1, <4>3, <4>4, <4>5 DEF kx_status_led_poll, TypeOK, Placed
      <3>3. CASE LedUpdating
        <4>1. Mix[last.color, last.bright] \in Shades
          BY ShadesAssumption DEF TypeOK
        <4>2. Placed'
          BY <3>3, <4>1, Framing DEF LedUpdating, TypeOK
        <4>3. led' = "IDLE" /\ rgb' \in Shades /\ last' = last /\ lit' = lit
          BY <3>3, <4>1 DEF LedUpdating
        <4> QED BY <2>11, <4>2, <4>3 DEF kx_status_led_poll, TypeOK, Placed
      <3> QED BY <3>1, <3>2, <3>3
    <2>12. CASE IntLoad
      <3>1. Placed'
        BY <2>12, Going DEF IntLoad
      <3>2. tmp' \in Levels
        BY <2>12 DEF IntLoad, TypeOK, Levels, Pins
      <3> QED BY <2>12, <3>1, <3>2 DEF IntLoad, TypeOK, Placed
    <2>13. CASE IntStore
      <3>1. Placed'
        BY <2>13, Going DEF IntStore
      <3> QED BY <2>13, <3>1 DEF IntStore, TypeOK, Placed
    <2>14. CASE UNCHANGED vars
      BY <2>14 DEF vars, TypeOK
    <2>15. CASE LedBright
      <3>1. Placed'
        BY <2>15, Going DEF LedBright
      <3> QED BY <2>15, <3>1 DEF LedBright, TypeOK, Placed
    <2>16. CASE DetKept
      <3>1. Placed'
        BY <2>16, Going DEF DetKept
      <3>2. tmp' \in Levels
        BY <2>16 DEF DetKept, TypeOK, Levels, Pins
      <3> QED BY <2>16, <3>1, <3>2 DEF DetKept, TypeOK, Placed
    <2>17. CASE CsLoad
      <3>1. Placed'
        BY <2>17, Going DEF CsLoad
      <3>2. tmp' \in Levels
        BY <2>17 DEF CsLoad, TypeOK, Levels, Pins
      <3> QED BY <2>17, <3>1, <3>2 DEF CsLoad, TypeOK, Placed
    <2>18. CASE CsStore
      <3>1. Placed'
        BY <2>18, Going DEF CsStore
      <3> QED BY <2>18, <3>1 DEF CsStore, TypeOK, Placed
    <2> QED BY <2>1, <2>2, <2>3, <2>4, <2>5, <2>6, <2>7, <2>8, <2>9, <2>10, <2>11, <2>12, <2>13,
               <2>14, <2>15, <2>16, <2>17, <2>18
  <1> QED BY <1>1, <1>2, <1>3 DEF IInv

LEMMA StepInv == IInv /\ [Next]_vars => IInv'
  BY BuzzerStep, MmcStep, OtherStep DEF Next, Loop

LEMMA Invariant == Spec => []IInv
  <1>1. Init => IInv
    BY InitInv
  <1>2. IInv /\ [Next]_vars => IInv'
    BY StepInv
  <1> QED BY <1>1, <1>2, PTL DEF Spec

-----------------------------------------------------------------------------
\* The types hold for any colours and any host: sound_count never indexes behind the
\* table of a melody (kx_mmc.h:79, 150), and setRGB has an LED to send to.
THEOREM Typing == Spec => []TypeOK
  BY Invariant, PTL DEF IInv

\* No way of pulling and pushing the card cuts a melody short, skips a note or plays
\* one twice (the polls of kx_mmc.h and kx_buzzer.h).
THEOREM WholeMelodies == Spec => MelodyWhole
  <1>1. IInv /\ [Next]_vars
        => [(mmc \in {"ATTACHING", "DETACHING"} /\ mmc' # mmc) => heard = Melody(mmc)]_vars
    <2> SUFFICES ASSUME IInv, Next, Playing, mmc' # mmc PROVE heard = Melody(mmc)
      BY DEF Playing
    <2>1. kx_mmc_poll
      <3>1. ~(\/ PinMoves \/ HostWrite \/ HostRead \/ TimeOver \/ Regs \/ DetLoad \/ DetStore
              \/ DetKept \/ CsLoad \/ CsStore \/ FrameSent \/ LedColor \/ LedBright \/ LedBlink
              \/ kx_status_led_poll \/ IntLoad \/ IntStore)
        BY OtherStep DEF soundness
      <3>2. ~kx_buzzer_poll
        BY DEF kx_buzzer_poll, mmcVars
      <3> QED BY <3>1, <3>2 DEF Next, Loop
    <2>2. {"red", "yellow"} \subseteq Colours
      BY DEF Colours
    <2>3. \/ MmcMelody("ATTACHING", "ATTACHED", "yellow")
          \/ MmcMelody("DETACHING", "DETACHED", "red")
      BY <2>1 DEF kx_mmc_poll, MmcInit, MmcPresent, MmcAbsent, Playing
    <2> QED BY <2>1, <2>2, <2>3, MelodyStep
  <1> QED BY <1>1, Invariant, PTL DEF MelodyWhole, Spec

\* A removal the slot has noticed is shown on MMC_n before the slot takes the next
\* card (kx_mmc.h:98-102, 113-117, 167-174).
THEOREM SwapsShown == Spec => []SwapShown
  <1>1. Init => SwapShown
    BY DEF Init, SwapShown
  <1>2. SwapShown /\ [Next]_vars => SwapShown'
    <2> SUFFICES ASSUME SwapShown, [Next]_vars PROVE SwapShown'
      OBVIOUS
    <2>1. CASE kx_mmc_poll
      BY <2>1 DEF kx_mmc_poll, MmcInit, MmcMelody, MmcPresent, MmcAbsent, Start, SwapShown
    <2>2. CASE ~kx_mmc_poll
      <3>1. UNCHANGED <<mmc, noticed>>
        BY <2>2 DEF Next, Loop, PinMoves, HostWrite, HostRead, TimeOver, Regs, DetLoad, DetStore,
                    DetKept, CsLoad, CsStore, FrameSent, LedColor, LedBright, LedBlink, kx_status_led_poll, IntLoad, IntStore, vars,
                    mmcVars, kx_buzzer_poll
      <3> QED BY <3>1 DEF SwapShown
    <2> QED BY <2>1, <2>2
  <1> QED BY <1>1, <1>2, PTL DEF Spec

\* The flags of kx_context.h that the slot and the buzzer share implement the
\* four-phase handshake: every step of the loop is one of its steps or none.
THEOREM KeepsFourPhase == Spec => FourPhaseKept
  <1>1. Init => Handshake!Init
    BY DEF Init, Handshake!Init
  <1>2. IInv /\ [Next]_vars => [Handshake!Next]_<<req, ack>>
    <2> SUFFICES ASSUME IInv, [Next]_vars PROVE [Handshake!Next]_<<req, ack>>
      OBVIOUS
    <2> USE DEF IInv, Handshake!Next, Handshake!Raise, Handshake!Accept, Handshake!Lower,
                Handshake!Release
    <2>1. CASE kx_buzzer_poll
      <3>1. buz = "PLAYING" \/ buz = "IDLE" \/ buz = "STOPPED"
        BY DEF TypeOK
      <3> QED BY <2>1, <3>1 DEF kx_buzzer_poll, BuzzerIdle, BuzzerPlaying, BuzzerStopped, Sound, TypeOK
    <2>2. CASE kx_mmc_poll
      <3>1. ack' = ack
        BY <2>2 DEF kx_mmc_poll
      <3>2. CASE \E f, t, c : MmcMelody(f, t, c)
        BY <3>1, <3>2 DEF MmcMelody, TypeOK
      <3>3. CASE MmcInit \/ MmcPresent \/ MmcAbsent
        BY <3>1, <3>3 DEF MmcInit, MmcPresent, MmcAbsent
      <3> QED BY <2>2, <3>2, <3>3 DEF kx_mmc_poll
    <2>3. CASE ~kx_buzzer_poll /\ ~kx_mmc_poll
      BY <2>3, OtherStep DEF Next, Loop, soundness
    <2> QED BY <2>1, <2>2, <2>3
  <1> QED BY <1>1, <1>2, Invariant, PTL DEF Spec, FourPhaseKept, Handshake!Spec
=============================================================================
