----------------------------- MODULE KxFirmware -----------------------------
(***************************************************************************)
(* The firmware of the board's CH32V003 (src/CH32v003): a loop that polls   *)
(* the buzzer, the memory card slot, the status LED and the WM8804 pin in   *)
(* turn, and shares an array of registers with the interrupt handler of an  *)
(* I2C slave.                                                               *)
(*                                                                          *)
(* A step is one poll of the loop, or the part of a poll between two        *)
(* accesses to what the interrupt handler may change: each load and store of *)
(* register 2, the three loads of the LED's registers, and the frame of bits *)
(* that setRGB sends with interrupts enabled.                               *)
(***************************************************************************)
EXTENDS Integers, Sequences

CONSTANTS
    Setups,   \* [pins, regs]: the inputs that move and the registers the host writes
    Colors, Brights,  \* what registers 3 and 4 may hold
    Shades,   \* what the status LED may show of them
    Mix       \* Mix[c, n]: the colour c at the brightness n, scaled to the LED

Dark == "dark"    \* what a colour or a brightness of zero shows
Torn == "torn"    \* what an LED shows after a frame an interrupt has stretched

Pins   == {"det", "cs", "int"}      \* MMC_DET_n, MMC_CS_n, WM8804_INT_n
Levels == [Pins -> {0, 1}]

ASSUME SetupsAssumption ==
    \A s \in Setups : s.pins \subseteq Pins /\ s.regs \subseteq {"id", "status", "color", "bright", "blink"}
ASSUME ShadesAssumption ==
    /\ Dark \in Shades /\ Torn \notin Shades
    /\ Colors \subseteq Nat /\ Brights \subseteq Nat
    /\ {0, 16} \subseteq Brights /\ {0, 255} \subseteq Colors
    /\ Mix \in [Colors \X Brights -> Shades]

VARIABLES
    setup,    \* the element of Setups this behaviour runs in
    pin,      \* the input pins
    reg,      \* i2c_registers: id (0, 1), status (2), color (3), bright (4), blink (5)
    pc,       \* the part of the loop that runs next
    tmp,      \* register 2 between its load and its store, and NoByte elsewhere
    frame,    \* the frame setRGB is sending: the LED and what it will show
    req, ack, note,    \* the buzzer's request and acknowledge, and the note asked for
    buz, over,         \* kx_buzzer_context.state; the note's time is over
    mmc, count,        \* kx_mmc_state: state and sound_count
    mmcN,              \* the MMC_n output
    lamp,              \* what the two WS2812 show: "mmc" and "status"
    ctx,               \* the context's copy of the LED's registers
    led, last, rgb, lit,  \* kx_status_led_context: state, last_*, r g b, flag
    heard,             \* the notes played to their end in the current melody (history)
    noticed            \* a removal was noticed and MMC_n has not been high since (history)
hostVars  == <<setup, pin>>
soundVars == <<req, ack, note>>
mmcVars   == <<mmc, count, mmcN, noticed>>
ledVars   == <<ctx, led, last, rgb, lit>>
vars == <<hostVars, reg, pc, tmp, frame, soundVars, buz, over, mmcVars, lamp, ledVars, heard>>

MmcStates == {"INIT", "ATTACHING", "ATTACHED", "READY", "DETACHING", "DETACHED"}
Steps == {"regs", "buzzer", "det_load", "det_store", "cs_load", "cs_store", "mmc", "led_color",
          "led_bright", "led_blink", "led", "int_load", "int_store"}
Blinks == {"steady", "blink"}
Leds   == {"mmc", "status"}
Colours == Shades \cup {"red", "yellow", "green", Torn}
NoByte  == [p \in Pins |-> 0]
NoFrame == [lamp |-> "none", shows |-> Dark, next |-> "regs"]

AttachingSound == <<8, 10, 12>>
DetachingSound == <<12, 10, 8>>
Melody(s) == IF s = "ATTACHING" THEN AttachingSound ELSE DetachingSound

\* The byte read from a melody's table: behind its end, whatever lies there.
Behind == 255
NoteAt(s, i) == IF i < 3 THEN Melody(s)[i + 1] ELSE Behind

-----------------------------------------------------------------------------
(* The world outside the loop.                                              *)

PinMoves ==
    /\ \E p \in setup.pins : pin' = [pin EXCEPT ![p] = 1 - @]
    /\ UNCHANGED <<setup, reg, pc, tmp, frame, soundVars, buz, over, mmcVars, lamp, ledVars, heard>>

\* A byte the host writes is stored by the interrupt handler (external) whatever
\* the loop is doing; a frame it interrupts is stretched.
Stretch == IF pc = "frame" THEN [frame EXCEPT !.shows = Torn] ELSE frame

HostWrite ==
    /\ \E r \in setup.regs :
         \E v \in (CASE r = "id" -> {"KX", "other"} [] r = "status" -> Levels
                     [] r = "color" -> Colors [] r = "bright" -> Brights
                     [] r = "blink" -> Blinks) :
           reg' = [reg EXCEPT ![r] = v]
    /\ frame' = Stretch
    /\ UNCHANGED <<hostVars, pc, tmp, soundVars, buz, over, mmcVars, lamp, ledVars, heard>>

HostRead ==
    /\ setup.regs # {} /\ pc = "frame" /\ frame' = Stretch
    /\ UNCHANGED <<hostVars, reg, pc, tmp, soundVars, buz, over, mmcVars, lamp, ledVars, heard>>

\* The time of a note (40 ms << buzzer_length) passes.
TimeOver ==
    /\ buz = "PLAYING" /\ ~over /\ over' = TRUE
    /\ UNCHANGED <<hostVars, reg, pc, tmp, frame, soundVars, buz, mmcVars, lamp, ledVars, heard>>

-----------------------------------------------------------------------------
(* setRGB: the loop goes on at next when the frame is out.                  *)

SetRGB(l, colour, next) == /\ frame' = [lamp |-> l, shows |-> colour, next |-> next]
                           /\ pc' = "frame"
Goto(next) == pc' = next /\ UNCHANGED frame

FrameSent ==
    /\ pc = "frame"
    /\ lamp' = [lamp EXCEPT ![frame.lamp] = frame.shows]
    /\ pc' = frame.next /\ frame' = NoFrame
    /\ UNCHANGED <<hostVars, reg, tmp, soundVars, buz, over, mmcVars, ledVars, heard>>

\* The head of the loop: the identification is restored.  What it loads into the
\* context is loaded again before anybody reads it, so that one step is enough.
Regs ==
    /\ pc = "regs" /\ Goto("buzzer")
    /\ reg' = [reg EXCEPT !.id = "KX"]
    /\ ctx' = [color |-> reg.color, bright |-> reg.bright, blink |-> reg.blink]
    /\ UNCHANGED <<hostVars, tmp, soundVars, buz, over, mmcVars, lamp, led, last, rgb, lit, heard>>

-----------------------------------------------------------------------------
(* kx_buzzer_poll *)

BuzzerIdle ==
    /\ buz = "IDLE"
    /\ IF req = 1 THEN buz' = "PLAYING" /\ over' = FALSE ELSE UNCHANGED <<buz, over>>
    /\ UNCHANGED <<ack, heard>>

BuzzerPlaying ==
    /\ buz = "PLAYING"
    /\ buz' = IF req = 0 \/ over THEN "STOPPED" ELSE buz
    /\ heard' = IF req = 1 /\ over THEN Append(heard, note) ELSE heard
    /\ UNCHANGED <<ack, over>>

BuzzerStopped ==
    /\ buz = "STOPPED"
    /\ IF req = 0 THEN ack' = 0 /\ buz' = "IDLE" ELSE ack' = 1 /\ UNCHANGED buz
    /\ UNCHANGED <<over, heard>>

kx_buzzer_poll ==
    /\ pc = "buzzer" /\ Goto("det_load")
    /\ BuzzerIdle \/ BuzzerPlaying \/ BuzzerStopped
    /\ UNCHANGED <<hostVars, reg, tmp, req, note, mmcVars, lamp, ledVars>>

-----------------------------------------------------------------------------
(* kx_mmc_poll *)

\* Mutant of DetLoad: the bit is only ever set.
SetsOnly ==
    /\ pc = "det_load" /\ Goto("det_store")
    /\ tmp' = [reg.status EXCEPT !["det"] = IF pin["det"] = 1 THEN 1 ELSE @]
    /\ UNCHANGED <<hostVars, reg, soundVars, buz, over, mmcVars, lamp, ledVars, heard>>

\* The bits of MMC_DET_n and MMC_CS_n are replaced in turn: a pin is read, register 2
\* loaded, a bit changed, the byte stored.  (No write of the host depends on a pin, so
\* that the pin may as well be read with the load.)
DetLoad ==
    /\ pc = "det_load" /\ Goto("det_store")
    /\ tmp' = [reg.status EXCEPT !["det"] = pin["det"]]
    /\ UNCHANGED <<hostVars, reg, soundVars, buz, over, mmcVars, lamp, ledVars, heard>>

DetStore ==
    /\ pc = "det_store" /\ Goto("cs_load")
    /\ reg' = [reg EXCEPT !.status = tmp] /\ tmp' = NoByte
    /\ UNCHANGED <<hostVars, soundVars, buz, over, mmcVars, lamp, ledVars, heard>>

\* The context's pointer has lost the volatile of the array, and a build may keep the
\* byte in a register of the CPU for both bits.
DetKept ==
    /\ pc = "det_store" /\ Goto("cs_store")
    /\ tmp' = [tmp EXCEPT !["cs"] = pin["cs"]]
    /\ UNCHANGED <<hostVars, reg, soundVars, buz, over, mmcVars, lamp, ledVars, heard>>

CsLoad ==
    /\ pc = "cs_load" /\ Goto("cs_store")
    /\ tmp' = [reg.status EXCEPT !["cs"] = pin["cs"]]
    /\ UNCHANGED <<hostVars, reg, soundVars, buz, over, mmcVars, lamp, ledVars, heard>>

CsStore ==
    /\ pc = "cs_store" /\ Goto("mmc")
    /\ reg' = [reg EXCEPT !.status = tmp] /\ tmp' = NoByte
    /\ UNCHANGED <<hostVars, soundVars, buz, over, mmcVars, lamp, ledVars, heard>>

MmcInit ==
    /\ mmc = "INIT"
    /\ IF pin["det"] = 1 THEN mmc' = "DETACHED" /\ SetRGB("mmc", "red", "led_color")
       ELSE mmc' = "ATTACHED" /\ SetRGB("mmc", "yellow", "led_color")
    /\ UNCHANGED <<req, note, count, mmcN, noticed, heard>>

\* ATTACHING and DETACHING play a melody, a note per handshake with the buzzer.
\* Mutant of MmcMelody: a card pulled out while its melody plays ends it at once.
AbortsMelody(from, to, colour) ==
    /\ mmc = from
    /\ IF from = "ATTACHING" /\ pin["det"] = 1
       THEN /\ mmc' = "DETACHED" /\ req' = 0 /\ Goto("led_color") /\ UNCHANGED <<note, count>>
       ELSE IF req = 0 /\ ack = 0
       THEN /\ req' = 1 /\ note' = NoteAt(from, count) /\ count' = count + 1
            /\ UNCHANGED mmc /\ Goto("led_color")
       ELSE /\ req' = IF ack = 1 THEN 0 ELSE req
            /\ IF ack = 1 /\ count = 3
               THEN mmc' = to /\ SetRGB("mmc", colour, "led_color")
               ELSE UNCHANGED mmc /\ Goto("led_color")
            /\ UNCHANGED <<note, count>>
    /\ UNCHANGED <<mmcN, noticed, heard>>

\* Mutant of MmcMelody: the request is withdrawn after the last note only.
WithdrawsLast(from, to, colour) ==
    /\ mmc = from
    /\ IF req = 0 /\ ack = 0
       THEN /\ req' = 1 /\ note' = NoteAt(from, count) /\ count' = count + 1
            /\ UNCHANGED mmc /\ Goto("led_color")
       ELSE /\ IF ack = 1 /\ count = 3
               THEN req' = 0 /\ mmc' = to /\ SetRGB("mmc", colour, "led_color")
               ELSE UNCHANGED <<req, mmc>> /\ Goto("led_color")
            /\ UNCHANGED <<note, count>>
    /\ UNCHANGED <<mmcN, noticed, heard>>

\* Mutant of MmcMelody: the melody ends when its last note has been asked for.
EndsEarly(from, to, colour) ==
    /\ mmc = from
    /\ IF req = 0 /\ ack = 0
       THEN /\ req' = 1 /\ note' = NoteAt(from, count) /\ count' = count + 1
            /\ UNCHANGED mmc /\ Goto("led_color")
       ELSE /\ req' = IF ack = 1 THEN 0 ELSE req
            /\ IF count = 3
               THEN mmc' = to /\ SetRGB("mmc", colour, "led_color")
               ELSE UNCHANGED mmc /\ Goto("led_color")
            /\ UNCHANGED <<note, count>>
    /\ UNCHANGED <<mmcN, noticed, heard>>

MmcMelody(from, to, colour) ==
    /\ mmc = from
    /\ IF req = 0 /\ ack = 0
       THEN /\ req' = 1 /\ note' = NoteAt(from, count) /\ count' = count + 1
            /\ UNCHANGED mmc /\ Goto("led_color")
       ELSE /\ req' = IF ack = 1 THEN 0 ELSE req
            /\ IF ack = 1 /\ count = 3
               THEN mmc' = to /\ SetRGB("mmc", colour, "led_color")
               ELSE UNCHANGED mmc /\ Goto("led_color")
            /\ UNCHANGED <<note, count>>
    /\ UNCHANGED <<mmcN, noticed, heard>>

\* Mutant of Start: sound_count keeps its value.
CountKept(s) == mmc' = s /\ heard' = <<>> /\ UNCHANGED count

\* A melody begins: its state, sound_count and the history of its notes.
Start(s) == mmc' = s /\ count' = 0 /\ heard' = <<>>

\* Mutant of MmcPresent: a removal goes straight back to the detached state's check.
SwapsQuietly ==
    /\ mmc \in {"ATTACHED", "READY"} /\ mmcN' = 0
    /\ IF pin["det"] = 1 THEN Start("ATTACHING") /\ noticed' = TRUE /\ Goto("led_color")
       ELSE IF (pin["cs"] = 0) # (mmc = "READY")
       THEN /\ mmc' = IF mmc = "READY" THEN "ATTACHED" ELSE "READY"
            /\ SetRGB("mmc", IF mmc = "READY" THEN "yellow" ELSE "green", "led_color")
            /\ UNCHANGED <<count, noticed, heard>>
       ELSE Goto("led_color") /\ UNCHANGED <<mmc, count, noticed, heard>>
    /\ UNCHANGED <<req, note>>

\* ATTACHED and READY differ in the chip select and the colour.
MmcPresent ==
    /\ mmc \in {"ATTACHED", "READY"} /\ mmcN' = 0
    /\ IF pin["det"] = 1 THEN Start("DETACHING") /\ noticed' = TRUE /\ Goto("led_color")
       ELSE IF (pin["cs"] = 0) # (mmc = "READY")
       THEN /\ mmc' = IF mmc = "READY" THEN "ATTACHED" ELSE "READY"
            /\ SetRGB("mmc", IF mmc = "READY" THEN "yellow" ELSE "green", "led_color")
            /\ UNCHANGED <<count, noticed, heard>>
       ELSE Goto("led_color") /\ UNCHANGED <<mmc, count, noticed, heard>>
    /\ UNCHANGED <<req, note>>

MmcAbsent ==
    /\ mmc = "DETACHED" /\ mmcN' = 1 /\ noticed' = FALSE
    /\ IF pin["det"] = 0 THEN Start("ATTACHING") ELSE UNCHANGED <<mmc, count, heard>>
    /\ Goto("led_color") /\ UNCHANGED <<req, note>>

kx_mmc_poll ==
    /\ pc = "mmc"
    /\ \/ MmcInit
       \/ MmcMelody("ATTACHING", "ATTACHED", "yellow")
       \/ MmcPresent
       \/ MmcMelody("DETACHING", "DETACHED", "red")
       \/ MmcAbsent
    /\ UNCHANGED <<hostVars, reg, tmp, ack, buz, over, lamp, ledVars>>

-----------------------------------------------------------------------------
(* kx_status_led_poll and kx_wm8804_poll *)

LedColor ==
    /\ pc = "led_color" /\ Goto("led_bright")
    /\ ctx' = [ctx EXCEPT !.color = reg.color]
    /\ UNCHANGED <<hostVars, reg, tmp, soundVars, buz, over, mmcVars, lamp,
                   led, last, rgb, lit, heard>>

LedBright ==
    /\ pc = "led_bright" /\ Goto("led_blink")
    /\ ctx' = [ctx EXCEPT !.bright = reg.bright]
    /\ UNCHANGED <<hostVars, reg, tmp, soundVars, buz, over, mmcVars, lamp,
                   led, last, rgb, lit, heard>>

LedBlink ==
    /\ pc = "led_blink" /\ Goto("led")
    /\ ctx' = [ctx EXCEPT !.blink = reg.blink]
    /\ UNCHANGED <<hostVars, reg, tmp, soundVars, buz, over, mmcVars, lamp,
                   led, last, rgb, lit, heard>>

\* Mutant of LedIdle: blinking is not compared, so that its end is never noticed.
MissesBlink ==
    /\ led = "IDLE" /\ UNCHANGED rgb
    /\ IF last.color # ctx.color \/ last.bright # ctx.bright
       THEN last' = ctx /\ led' = "UPDATING" /\ Goto("int_load") /\ UNCHANGED lit
       ELSE /\ UNCHANGED <<last, led>>
            /\ \/ Goto("int_load") /\ UNCHANGED lit
               \/ /\ last.blink = "blink" /\ lit' = ~lit
                  /\ SetRGB("status", IF lit THEN Dark ELSE rgb, "int_load")

\* When blinking, the time since the last change may or may not be over.
LedIdle ==
    /\ led = "IDLE" /\ UNCHANGED rgb
    /\ IF last # ctx
       THEN last' = ctx /\ led' = "UPDATING" /\ Goto("int_load") /\ UNCHANGED lit
       ELSE /\ UNCHANGED <<last, led>>
            /\ \/ Goto("int_load") /\ UNCHANGED lit
               \/ /\ last.blink = "blink" /\ lit' = ~lit
                  /\ SetRGB("status", IF lit THEN Dark ELSE rgb, "int_load")

LedUpdating ==
    /\ led = "UPDATING" /\ led' = "IDLE"
    /\ rgb' = Mix[last.color, last.bright] /\ SetRGB("status", rgb', "int_load")
    /\ UNCHANGED <<last, lit>>

kx_status_led_poll ==
    /\ pc = "led" /\ (LedIdle \/ LedUpdating)
    /\ UNCHANGED <<hostVars, reg, tmp, soundVars, buz, over, mmcVars, lamp, ctx, heard>>

IntLoad ==
    /\ pc = "int_load" /\ Goto("int_store")
    /\ tmp' = [reg.status EXCEPT !["int"] = pin["int"]]
    /\ UNCHANGED <<hostVars, reg, soundVars, buz, over, mmcVars, lamp, ledVars, heard>>

IntStore ==
    /\ pc = "int_store" /\ Goto("regs")
    /\ reg' = [reg EXCEPT !.status = tmp] /\ tmp' = NoByte
    /\ UNCHANGED <<hostVars, soundVars, buz, over, mmcVars, lamp, ledVars, heard>>

-----------------------------------------------------------------------------
Init ==
    /\ setup \in Setups /\ pin \in Levels /\ \A p \in Pins \ setup.pins : pin[p] = 1
    /\ reg = [id |-> "KX", status |-> NoByte, color |-> 255, bright |-> 16, blink |-> "steady"]
    /\ pc = "regs" /\ tmp = NoByte /\ frame = NoFrame
    /\ req = 0 /\ ack = 0 /\ note = 0 /\ buz = "IDLE" /\ over = FALSE
    /\ mmc = "INIT" /\ count = 0 /\ mmcN = 1 /\ lamp = [l \in Leds |-> Dark]
    /\ ctx = [color |-> 0, bright |-> 0, blink |-> "steady"] /\ led = "IDLE"
    /\ last = [color |-> 0, bright |-> 0, blink |-> "steady"] /\ rgb = Dark /\ lit = FALSE
    /\ heard = <<>> /\ noticed = FALSE

Loop == \/ Regs \/ kx_buzzer_poll \/ DetLoad \/ DetStore \/ DetKept \/ CsLoad \/ CsStore
        \/ kx_mmc_poll \/ FrameSent \/ LedColor \/ LedBright \/ LedBlink \/ kx_status_led_poll \/ IntLoad \/ IntStore

Next == Loop \/ PinMoves \/ HostWrite \/ HostRead \/ TimeOver

\* The loop never waits for anybody, and a note's time passes.
Spec     == Init /\ [][Next]_vars
FairSpec == Spec /\ WF_vars(Loop) /\ WF_vars(TimeOver)

-----------------------------------------------------------------------------
\* The types of the state: among them that sound_count never leaves the table of a
\* melody and that a note is always one of the table.
TypeOK ==
    /\ setup \in Setups /\ pin \in Levels
    /\ reg \in [id : {"KX", "other"}, status : Levels, color : Colors, bright : Brights, blink : Blinks]
    /\ tmp \in Levels /\ pc \in Steps \cup {"frame"}
    /\ frame \in [lamp : Leds \cup {"none"}, shows : Colours, next : Steps]
    /\ pc = "frame" <=> frame.lamp # "none"
    /\ lamp \in [Leds -> Colours]
    /\ req \in {0, 1} /\ ack \in {0, 1} /\ note \in {0, 8, 10, 12}
    /\ buz \in {"IDLE", "PLAYING", "STOPPED"} /\ over \in BOOLEAN
    /\ mmc \in MmcStates /\ count \in 0..3 /\ mmcN \in {0, 1} /\ noticed \in BOOLEAN
    /\ ctx \in [color : Colors, bright : Brights, blink : Blinks]
    /\ last \in [color : Colors, bright : Brights, blink : Blinks]
    /\ led \in {"IDLE", "UPDATING"} /\ rgb \in Shades /\ lit \in BOOLEAN

\* A melody is heard whole: when the slot's state leaves ATTACHING or DETACHING the
\* buzzer has played the three notes of the table to the end, each once and in order.
MelodyWhole ==
    [][(mmc \in {"ATTACHING", "DETACHING"} /\ mmc' # mmc) => heard = Melody(mmc)]_vars

\* A card swap that was noticed is seen outside: between the removal and the next
\* access MMC_n has been high (kx_mmc_poll lets it go only in DETACHED).
SwapShown == noticed => mmc \in {"DETACHING", "DETACHED"}

\* The flags the slot and the buzzer share make a four-phase handshake, whatever the
\* card does meanwhile.
Handshake == INSTANCE FourPhase
FourPhaseKept == Handshake!Spec

\* A card that stays in ends attached with MMC_n low, and a slot that stays empty
\* ends detached with MMC_n high; the LED shows it unless its frame was torn.
MmcSettles ==
    /\ <>[](pin["det"] = 0) => <>[](/\ mmc \in {"ATTACHED", "READY"} /\ mmcN = 0
                                    /\ lamp["mmc"] # "red")
    /\ <>[](pin["det"] = 1) => <>[](/\ mmc = "DETACHED" /\ mmcN = 1
                                    /\ lamp["mmc"] \in {"red", Torn})

\* Once the host stops, the status bits follow pins that stay and the identification
\* is restored, as no store of an old byte survives; the status LED ends at the colour
\* and brightness of its registers if they do not ask for blinking, however the writes
\* fell between the three loads, and unless its frame was torn.  What is shown before
\* that may be of an old colour and a new brightness; a bit of register 2 that the host
\* wrote may be lost.
HostStops == <>[][~HostWrite]_vars
RegistersSettle ==
    /\ \A p \in Pins, v \in {0, 1} :
           HostStops /\ <>[](pin[p] = v) => <>[](reg.status[p] = v /\ reg.id = "KX")
    /\ \A c \in Colors, n \in Brights :
           <>[](reg.color = c /\ reg.bright = n /\ reg.blink = "steady") =>
               <>[](lamp["status"] \in {Mix[c, n], Torn})
=============================================================================
