------------------------------ MODULE MidiCtrl ------------------------------
(***************************************************************************)
(* The MIDI output of the board (RTL/midi/midi_ctrl.vhd): it passes a       *)
(* source on, or sends a message of its own, which is either a control      *)
(* message for the mt32-pi, written by the host to REG10, or "all notes     *)
(* off" and "all sound off" for every channel after a reset. With it the    *)
(* parts of RTL/X68KeplerX.vhd that make the two requests, and the MIDI     *)
(* controller's transmitter (TxFrame), which is suspended while a message   *)
(* goes out.                                                                *)
(*                                                                          *)
(* A step is one edge of sys_clk, or a reset of the X68000. sfttx is the    *)
(* bit clock of the messages; the transmitter has its own.                  *)
(***************************************************************************)
EXTENDS TxFrame, Sequences

CONSTANTS
    Commands,       \* what the host writes to REG10: <<command, parameter>>
    LastChannel,    \* the channels are 0 .. LastChannel, in the code 15
    WaitTicks,      \* bit times of a pause between two messages
    SendBits,       \* bits that the sender shifts for a byte
    Gap             \* edges between two bit clocks, at least

Channels == 0 .. LastChannel
Nothing  == <<"none", 0>>
Zero     == 0

ASSUME SourceAssumption  == FrameBytes = {Zero}
ASSUME CommandAssumption == Commands \subseteq (0 .. 4) \X (0 .. 255)
ASSUME SizeAssumption    == /\ LastChannel \in 0 .. 15 /\ WaitTicks \in Nat
                            /\ SendBits \in Nat \ {0}
                            /\ Gap \in Nat /\ Gap >= 2

VARIABLES
    mt32pi_req, reg10,      \* the request of the register process, its data
    bus_state, busy,        \* the bus FSM, bit 15 of odata
    command, param,         \* the message that was asked for
    exmes_req, exmes_ack,   \* its request
    restored,               \* gpeeprom_restore_counter is at its end
    anoff_req, anoff_ack,   \* midi_all_notes_off_req and _ack
    finished,               \* midi_all_notes_off_req_finished
    mctrl_state, channel, wait_counter,
    sendword, send_req, send_ack, bit_counter,
    gap,                    \* edges until the bit clock may come
    source,                 \* the transmitter of the MIDI controller
    sent,                   \* history: the bytes sent since IDLE was left
    disturbed               \* history: REG10 written since the command's turn

hostVars   == <<mt32pi_req, reg10, restored, anoff_req, finished>>
busVars    == <<bus_state, busy, command, param, exmes_req>>
mctrlVars  == <<mctrl_state, exmes_ack, anoff_ack, channel, wait_counter,
                sendword, send_req>>
senderVars == <<send_ack, bit_counter, gap, sent>>
vars == <<hostVars, busVars, mctrlVars, senderVars, source, disturbed>>

----------------------------------------------------------------------------
(* The states of the message control. *)

\* The byte that a state sends.
Word == [MCTRL_SEND_F0        |-> <<"F0", 0>>,
         MCTRL_SEND_7D        |-> <<"7D", 0>>,
         MCTRL_SEND_COMMAND   |-> <<"command", command>>,
         MCTRL_SEND_PARAMETER |-> <<"param", param>>,
         MCTRL_SEND_F7        |-> <<"F7", 0>>,
         MCTRL_ANOFF_SEND_Bn  |-> <<"Bn", channel>>,
         MCTRL_ANOFF_SEND_7B  |-> <<"7B", 0>>,
         MCTRL_ANOFF_SEND_00  |-> <<"00", 0>>,
         MCTRL_ASOFF_SEND_Bn  |-> <<"Bn", channel>>,
         MCTRL_ASOFF_SEND_78  |-> <<"78", 0>>,
         MCTRL_ASOFF_SEND_00  |-> <<"00", 0>>]

\* Mutant of AfterCommand: the parameter is left out of every message.
AfterCommandShort == "MCTRL_SEND_F7"

\* Command 0, reboot, has no parameter.
AfterCommand == IF command = 0 THEN "MCTRL_SEND_F7" ELSE "MCTRL_SEND_PARAMETER"

\* The state that follows when the byte is out.
Follows ==
        [MCTRL_SEND_F0        |-> "MCTRL_SEND_7D",
         MCTRL_SEND_7D        |-> "MCTRL_SEND_COMMAND",
         MCTRL_SEND_COMMAND   |-> AfterCommand,
         MCTRL_SEND_PARAMETER |-> "MCTRL_SEND_F7",
         MCTRL_SEND_F7        |-> "MCTRL_FIN",
         MCTRL_ANOFF_SEND_Bn  |-> "MCTRL_ANOFF_SEND_7B",
         MCTRL_ANOFF_SEND_7B  |-> "MCTRL_ANOFF_SEND_00",
         MCTRL_ANOFF_SEND_00  |-> "MCTRL_ANOFF_WAIT",
         MCTRL_ASOFF_SEND_Bn  |-> "MCTRL_ASOFF_SEND_78",
         MCTRL_ASOFF_SEND_78  |-> "MCTRL_ASOFF_SEND_00",
         MCTRL_ASOFF_SEND_00  |-> "MCTRL_ASOFF_WAIT"]

Waits  == {"MCTRL_ANOFF_WAIT", "MCTRL_ASOFF_WAIT"}
States == DOMAIN Word \cup Waits \cup {"MCTRL_IDLE", "MCTRL_FIN"}

\* iactive, which is also the transmitter's SUSPEND.
Active == mctrl_state # "MCTRL_IDLE"

----------------------------------------------------------------------------
(* A control message whole, and the bytes that silence every channel. *)

Message == <<<<"F0", 0>>, <<"7D", 0>>, <<"command", command>>>>
           \o (IF command = 0 THEN <<>> ELSE <<<<"param", param>>>>)
           \o <<<<"F7", 0>>>>

SilenceOf(c) == <<<<"Bn", c>>, <<"7B", 0>>, <<"00", 0>>,
                  <<"Bn", c>>, <<"78", 0>>, <<"00", 0>>>>
Silence == [i \in 1 .. 6 * (LastChannel + 1) |->
               SilenceOf((i - 1) \div 6)[((i - 1) % 6) + 1]]

\* Every register holds a value of its range, and no message is longer than the
\* one that silences every channel.
TypeOK ==
    /\ mt32pi_req \in BOOLEAN /\ reg10 \in Commands
    /\ restored \in BOOLEAN /\ anoff_req \in BOOLEAN /\ finished \in BOOLEAN
    /\ bus_state \in {"BUS_IDLE", "BUS_WR_ACK", "BUS_RD_ACK"} /\ busy \in BOOLEAN
    /\ command \in 0 .. 4 /\ param \in 0 .. 255 /\ exmes_req \in BOOLEAN
    /\ mctrl_state \in States /\ exmes_ack \in BOOLEAN /\ anoff_ack \in BOOLEAN
    /\ channel \in Channels /\ wait_counter \in 0 .. WaitTicks
    /\ sendword[2] \in 0 .. 255
    /\ send_req \in BOOLEAN /\ send_ack \in BOOLEAN
    /\ bit_counter \in 0 .. SendBits /\ gap \in 0 .. Gap
    /\ source \in Frames /\ disturbed \in BOOLEAN
    /\ Len(sent) <= Len(Silence)

Init ==
    /\ mt32pi_req = FALSE /\ reg10 \in Commands /\ busy = FALSE
    /\ restored = FALSE /\ anoff_req = FALSE /\ finished = FALSE
    /\ bus_state = "BUS_IDLE" /\ command = 0 /\ param = 0 /\ exmes_req = TRUE
    /\ mctrl_state = "MCTRL_IDLE" /\ exmes_ack = FALSE /\ anoff_ack = FALSE
    /\ channel = 0 /\ wait_counter = 0 /\ sendword = Nothing /\ send_req = FALSE
    /\ bit_counter = 0 /\ send_ack = FALSE /\ gap = 0
    /\ source = FrameReset(Zero) /\ sent = <<>> /\ disturbed = FALSE

\* sys_rstn: busy and midi_all_notes_off_req have no reset, nor has the
\* wait counter.
Reset ==
    /\ mt32pi_req' = FALSE /\ restored' = FALSE /\ finished' = FALSE
    /\ bus_state' = "BUS_IDLE" /\ command' = 0 /\ param' = 0 /\ exmes_req' = TRUE
    /\ mctrl_state' = "MCTRL_IDLE" /\ exmes_ack' = FALSE /\ anoff_ack' = FALSE
    /\ channel' = 0 /\ sendword' = Nothing /\ send_req' = FALSE
    /\ bit_counter' = 0 /\ send_ack' = FALSE /\ gap' = 0
    /\ source' = FrameReset(Zero) /\ sent' = <<>> /\ disturbed' = FALSE
    /\ UNCHANGED <<reg10, busy, anoff_req, wait_counter>>

----------------------------------------------------------------------------
(* The register process. *)

\* sys_rw while mt32pi_req is up: only a write to REG10 raises it, and the
\* cycle is not over before the request is taken.
SysRw == 0

\* The host of the header looks at bit 15 first. A read never reaches
\* midi_ctrl, so the bit stays 0 and the host may write at any time.
MayWrite == ~busy

\* A write to REG10 raises mt32pi_req; the acknowledge takes it away. The next
\* write comes when the bus FSM is back in BUS_IDLE.
Register ==
    \/ /\ ~mt32pi_req /\ bus_state = "BUS_IDLE" /\ MayWrite
       /\ mt32pi_req' = TRUE /\ reg10' \in Commands
    \/ /\ mt32pi_req' = (mt32pi_req /\ bus_state = "BUS_IDLE")
       /\ UNCHANGED reg10

\* Mutant of AllNotesOff: the end of it is not noted.
AllNotesOffEndless ==
    /\ restored' \in {restored, TRUE}
    /\ anoff_req' = IF restored THEN ~anoff_ack ELSE anoff_req
    /\ UNCHANGED finished

\* When the settings are restored, all notes off is asked for once.
AllNotesOff ==
    /\ restored' \in {restored, TRUE}
    /\ IF restored /\ ~finished
       THEN /\ anoff_req' = ~anoff_ack
            /\ finished'  = anoff_ack
       ELSE UNCHANGED <<anoff_req, finished>>

----------------------------------------------------------------------------
(* midi_ctrl. *)

\* Mutant of Kept: the request waits for the acknowledge to go.
KeptLong == exmes_req

\* exmes_req falls in any edge in which exmes_ack is 0.
Kept == exmes_ack /\ exmes_req

\* A write to REG10 is taken.
Taken == bus_state = "BUS_IDLE" /\ mt32pi_req /\ SysRw = 0

\* The bus FSM, and exmes_req, which a write raises.
Bus ==
    LET write == Taken
        read  == bus_state = "BUS_IDLE" /\ mt32pi_req /\ SysRw = 1
    IN  /\ bus_state' = IF write THEN "BUS_WR_ACK" ELSE IF read THEN "BUS_RD_ACK"
                        ELSE IF mt32pi_req THEN bus_state ELSE "BUS_IDLE"
        /\ exmes_req' = (write \/ Kept)
        /\ command'   = IF write THEN reg10[1] ELSE command
        /\ param'     = IF write THEN reg10[2] ELSE param
        /\ busy'      = IF read THEN Active ELSE busy

\* MCTRL_IDLE: a message begins when the source is not sending.
Idle ==
    /\ mctrl_state = "MCTRL_IDLE"
    /\ send_req' = FALSE
    /\ LET begins == ~source.DRCNT
       IN  /\ mctrl_state' = IF begins /\ exmes_req THEN "MCTRL_SEND_F0"
                             ELSE IF begins /\ anoff_req THEN "MCTRL_ANOFF_SEND_Bn"
                             ELSE mctrl_state
           /\ channel' = IF begins /\ ~exmes_req /\ anoff_req THEN 0 ELSE channel
    /\ UNCHANGED <<exmes_ack, anoff_ack, wait_counter, sendword>>

\* The states that send a byte: it is on offer until the sender has sent it.
Send ==
    /\ mctrl_state \in DOMAIN Word
    /\ sendword' = Word[mctrl_state]
    /\ send_req' = ~send_ack
    /\ mctrl_state'  = IF send_ack THEN Follows[mctrl_state] ELSE mctrl_state
    /\ exmes_ack'    = (exmes_ack \/ (send_ack /\ mctrl_state = "MCTRL_SEND_F7"))
    /\ wait_counter' = IF send_ack /\ Follows[mctrl_state] \in Waits THEN WaitTicks
                       ELSE wait_counter
    /\ UNCHANGED <<anoff_ack, channel>>

\* Mutant of AtLast: the last channel is left out.
AtLastShort == channel + 1 >= LastChannel

\* Mutant of AtLast: the channels are counted one too far.
AtLastLong == channel > LastChannel

\* The channel just silenced is the last.
AtLast == channel = LastChannel

\* The pauses after a message to a channel; the last one ends the whole.
Pause(sfttx) ==
    /\ mctrl_state \in Waits
    /\ IF wait_counter > 0
       THEN /\ wait_counter' = IF sfttx THEN wait_counter - 1 ELSE wait_counter
            /\ UNCHANGED <<mctrl_state, anoff_ack, channel, send_req>>
       ELSE /\ UNCHANGED wait_counter
            /\ IF mctrl_state = "MCTRL_ANOFF_WAIT"
               THEN /\ mctrl_state' = "MCTRL_ASOFF_SEND_Bn"
                    /\ UNCHANGED <<anoff_ack, channel, send_req>>
               ELSE /\ send_req' = FALSE
                    /\ anoff_ack' = (anoff_ack \/ AtLast)
                    /\ channel' = IF AtLast THEN channel ELSE channel + 1
                    /\ mctrl_state' = IF AtLast THEN "MCTRL_FIN"
                                      ELSE "MCTRL_ANOFF_SEND_Bn"
    /\ UNCHANGED <<exmes_ack, sendword>>

\* MCTRL_FIN: the acknowledge is withdrawn when the request is.
Fin ==
    /\ mctrl_state = "MCTRL_FIN"
    /\ exmes_ack' = (exmes_ack /\ exmes_req)
    /\ anoff_ack' = (anoff_ack /\ anoff_req)
    /\ mctrl_state' = IF <<exmes_ack', anoff_ack'>> # <<exmes_ack, anoff_ack>>
                      THEN "MCTRL_IDLE" ELSE mctrl_state
    /\ UNCHANGED <<channel, wait_counter, sendword, send_req>>

\* The bits of a byte; send_ack comes with the last and lasts one edge.
Sender(sfttx) ==
    LET load == sfttx /\ bit_counter = 0 /\ send_req
    IN  /\ sfttx => gap = 0
        /\ gap' = IF sfttx THEN Gap ELSE IF gap > 0 THEN gap - 1 ELSE 0
        /\ bit_counter' = IF load THEN SendBits
                          ELSE IF sfttx /\ bit_counter > 0 THEN bit_counter - 1
                          ELSE bit_counter
        /\ send_ack' = (sfttx /\ bit_counter = 1)
        /\ sent' = IF ~Active THEN <<>> ELSE IF load THEN Append(sent, sendword)
                   ELSE sent

\* The states from which on a write comes too late for its message.
Late == {"MCTRL_SEND_COMMAND", "MCTRL_SEND_PARAMETER", "MCTRL_SEND_F7", "MCTRL_FIN"}
Disturbed == disturbed' = (mctrl_state \in Late /\ (disturbed \/ Taken))

\* The transmitter of the MIDI controller, fed at any edge.
Source(feed, tick) == source' = FrameNext(source, feed, Zero, tick, Active)

Edge(sfttx, feed, tick) ==
    /\ Register /\ AllNotesOff /\ Bus
    /\ Idle \/ Send \/ Pause(sfttx) \/ Fin
    /\ Sender(sfttx) /\ Source(feed, tick) /\ Disturbed

Next == (\E sfttx, feed, tick \in BOOLEAN : Edge(sfttx, feed, tick)) \/ Reset

Spec == Init /\ [][Next]_vars

\* The clock runs, and both bit clocks with it; the restore loop ends, as the
\* reset was held until the EEPROM had been read.
Runs == \E feed \in BOOLEAN :
            \/ gap = 0 /\ Edge(TRUE, feed, TRUE)
            \/ gap > 0 /\ Edge(FALSE, feed, TRUE)
FairSpec == Spec /\ WF_vars(Runs) /\ WF_vars(Runs /\ restored')

----------------------------------------------------------------------------
(* Properties. *)

\* A control message by its parts: F0 7D, a command, at most one parameter, F7.
Framed(s) == /\ Len(s) \in {4, 5} /\ s[1] = <<"F0", 0>> /\ s[2] = <<"7D", 0>>
             /\ s[3][1] = "command" /\ s[Len(s)] = <<"F7", 0>>
             /\ Len(s) = 5 => s[4][1] = "param"

\* Whenever the host writes REG10, a control message is acknowledged with its frame whole
\* (the header's "F0 7D command parameter F7"), and with the command and the parameter of
\* one write, the last, if none was taken from the command's turn on; such a write may put
\* the parameter of one command behind another, or leave it out. All notes off is
\* acknowledged when every channel has been told both "all notes off" and "all sound
\* off", in order, whatever the host wrote meanwhile.
MessagesWhole ==
    /\ exmes_ack => Framed(sent) /\ (disturbed \/ sent = Message)
    /\ anoff_ack => sent = Silence

\* A write taken in the edge of F7's acknowledge: the request then waits for the
\* acknowledge to go, and MCTRL_FIN for the request.
Locked == exmes_ack /\ exmes_req /\ disturbed

\* All notes off comes after every reset, if the source pauses now and then and the
\* host does not write control messages, which go first, for ever; and the output
\* comes back to the source after every message. A write in the one edge that locks
\* MCTRL_FIN is excepted by name: then nothing goes out until a reset.
MessagesEnd ==
    /\ ([]<>~source.DRCNT /\ <>[]~mt32pi_req) =>
          ((restored /\ ~finished) ~> (finished \/ ~restored \/ Locked))
    /\ Active ~> (~Active \/ Locked)
=============================================================================
