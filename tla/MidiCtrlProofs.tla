--------------------------- MODULE MidiCtrlProofs ---------------------------
(***************************************************************************)
(* The messages of MidiCtrl for every set of commands, number of channels,   *)
(* length of the pauses and rate of the bit clock, whatever the source       *)
(* sends and at whatever edge the X68000 is reset.                           *)
(*                                                                          *)
(* A message is followed byte by byte.  Count says how many bytes have gone  *)
(* out when a state begins, Gone whether the byte of the state has; a byte   *)
(* goes once to the sender because its acknowledge and the next request      *)
(* cannot meet a bit clock (Pace).  From there, what was sent is what the    *)
(* states so far have said (Spoken).  The host may write REG10 at any edge:  *)
(* the first two bytes of a control message say nothing of its command, and  *)
(* from the command's turn on a write is remembered (disturbed), after which *)
(* only the kinds of the bytes are known (Shape).                            *)
(***************************************************************************)
EXTENDS MidiCtrl, TLAPS

\* The states that send a byte of a control message, and of "all notes off".

Sending == {"MCTRL_SEND_F0", "MCTRL_SEND_7D", "MCTRL_SEND_COMMAND",
            "MCTRL_SEND_PARAMETER", "MCTRL_SEND_F7"}
Silencing == {"MCTRL_ANOFF_SEND_Bn", "MCTRL_ANOFF_SEND_7B", "MCTRL_ANOFF_SEND_00",
              "MCTRL_ASOFF_SEND_Bn", "MCTRL_ASOFF_SEND_78", "MCTRL_ASOFF_SEND_00"}

LEMMA StatesAre == DOMAIN Word = Sending \cup Silencing /\ DOMAIN Follows = Sending \cup Silencing
  BY DEF Word, Follows, Sending, Silencing

\* The bytes that silence every channel.
All == 6 * (LastChannel + 1)

\* The bytes that have gone out when a state begins, at most.
Count == [MCTRL_SEND_F0 |-> 0, MCTRL_SEND_7D |-> 1, MCTRL_SEND_COMMAND |-> 2,
          MCTRL_SEND_PARAMETER |-> 3, MCTRL_SEND_F7 |-> 4,
          MCTRL_ANOFF_SEND_Bn |-> 6 * channel,     MCTRL_ANOFF_SEND_7B |-> 6 * channel + 1,
          MCTRL_ANOFF_SEND_00 |-> 6 * channel + 2, MCTRL_ANOFF_WAIT    |-> 6 * channel + 3,
          MCTRL_ASOFF_SEND_Bn |-> 6 * channel + 3, MCTRL_ASOFF_SEND_78 |-> 6 * channel + 4,
          MCTRL_ASOFF_SEND_00 |-> 6 * channel + 5, MCTRL_ASOFF_WAIT    |-> 6 * channel + 6,
          MCTRL_FIN |-> All, MCTRL_IDLE |-> All]

\* The byte of the state has gone to the sender.
Gone == IF bit_counter > 0 \/ send_ack THEN 1 ELSE 0

\* What sendword may hold: the name of a byte, with its value where that matters.
Any == {"none", "F0", "7D", "command", "param", "F7", "Bn", "7B", "00", "78"} \X (0 .. 255)

Registers ==
    /\ mt32pi_req \in BOOLEAN /\ reg10 \in Commands
    /\ restored \in BOOLEAN /\ anoff_req \in BOOLEAN /\ finished \in BOOLEAN
    /\ bus_state \in {"BUS_IDLE", "BUS_WR_ACK", "BUS_RD_ACK"} /\ busy \in BOOLEAN
    /\ command \in 0 .. 4 /\ param \in 0 .. 255 /\ exmes_req \in BOOLEAN
    /\ source \in Frames /\ disturbed \in BOOLEAN

Control ==
    /\ mctrl_state \in Sending \cup Silencing \cup Waits \cup {"MCTRL_IDLE", "MCTRL_FIN"}
    /\ exmes_ack \in BOOLEAN /\ anoff_ack \in BOOLEAN
    /\ channel \in Channels /\ wait_counter \in 0 .. WaitTicks
    /\ sendword \in Any
    /\ send_req \in BOOLEAN /\ send_ack \in BOOLEAN
    /\ bit_counter \in 0 .. SendBits /\ gap \in 0 .. Gap

\* A byte is asked for and sent in the states that send only, and the bit clock keeps off
\* the edge of its acknowledge.
Pace ==
    /\ send_ack => bit_counter = 0 /\ gap = Gap /\ send_req
    /\ bit_counter > 0 => send_req
    /\ send_req => mctrl_state \in Sending \cup Silencing

Counted == sent \in Seq(Any) /\ Len(sent) <= Count[mctrl_state] + Gone

Typed == Registers /\ Control /\ Pace /\ Counted

-----------------------------------------------------------------------------
(* Ranges and counts. *)

\* The two requests, the bus state machine and the source.
LEMMA RegistersStay ==
    ASSUME Registers, Control,
           NEW feed \in BOOLEAN, NEW tick \in BOOLEAN,
           Register, AllNotesOff, Bus, Source(feed, tick), Disturbed
    PROVE  Registers'
  <1>1. mt32pi_req' \in BOOLEAN /\ reg10' \in Commands
    <2>1. CASE mt32pi_req' = TRUE /\ reg10' \in Commands BY <2>1
    <2>2. CASE mt32pi_req' = (mt32pi_req /\ bus_state = "BUS_IDLE") /\ reg10' = reg10
      BY <2>2, Zenon DEF Registers
    <2> QED BY <2>1, <2>2, Zenon DEF Register
  <1>2. restored' \in BOOLEAN /\ anoff_req' \in BOOLEAN /\ finished' \in BOOLEAN
    BY DEF AllNotesOff, Registers, Control
  <1>3. reg10[1] \in 0 .. 4 /\ reg10[2] \in 0 .. 255
    BY CommandAssumption DEF Registers
  <1>4. bus_state' \in {"BUS_IDLE", "BUS_WR_ACK", "BUS_RD_ACK"} /\ busy' \in BOOLEAN
    BY DEF Bus, Registers, Active, Taken
  <1>5. exmes_req' \in BOOLEAN
    BY Zenon DEF Bus
  <1>6. command' \in 0 .. 4 /\ param' \in 0 .. 255
    BY <1>3 DEF Bus, Registers, Taken
  <1>7. source' \in Frames
    <2>1. /\ DOMAIN source = {"EXDATA", "NXTBUF", "SFTBUF", "BITCNT", "DRCNT"}
          /\ source.EXDATA \in BOOLEAN /\ source.DRCNT \in BOOLEAN
          /\ source.NXTBUF \in FrameBytes /\ source.SFTBUF \in FrameBytes
          /\ source.BITCNT \in 0 .. FrameBits
      BY DEF Registers, Frames
    <2>2. Zero \in FrameBytes /\ FrameBits \in 0 .. FrameBits
      BY SourceAssumption, FrameAssumption
    <2> DEFINE f == FrameNext(source, feed, Zero, tick, Active)
    <2>3. f.BITCNT \in 0 .. FrameBits /\ f.NXTBUF \in FrameBytes /\ f.SFTBUF \in FrameBytes
      BY <2>1, <2>2, FrameAssumption DEF FrameNext
    <2>4. f.EXDATA \in BOOLEAN /\ f.DRCNT \in BOOLEAN
      BY <2>1 DEF FrameNext, Starts
    <2>5. f \in Frames BY <2>3, <2>4 DEF FrameNext, Frames
    <2> QED BY <2>5 DEF Source
  <1>8. disturbed' \in BOOLEAN
    BY Zenon DEF Disturbed
  <1> QED BY <1>1, <1>2, <1>4, <1>5, <1>6, <1>7, <1>8 DEF Registers

\* What an edge of the sender comes to: it takes a byte, holds it, or has acknowledged it.
LEMMA SenderDoes ==
    ASSUME Control, Pace, NEW sfttx \in BOOLEAN, Sender(sfttx)
    PROVE  /\ bit_counter' \in 0 .. SendBits /\ gap' \in 0 .. Gap /\ send_ack' \in BOOLEAN
           /\ send_ack' => bit_counter' = 0 /\ gap' = Gap /\ bit_counter > 0
           /\ bit_counter' > 0 => send_req /\ ~send_ack
           /\ ~Active => sent' = <<>>
           /\ Active => \/ send_req /\ ~send_ack /\ Gone = 0 /\ Gone' = 1 /\ sent' = Append(sent, sendword)
                        \/ sent' = sent /\ ~send_ack /\ Gone' = Gone
                        \/ sent' = sent /\ send_ack /\ Gone = 1 /\ Gone' = 0
           /\ ~send_req => Gone' = 0 /\ Gone = 0 /\ ~send_ack
  <1>1. SendBits \in Nat \ {0} /\ Gap \in Nat /\ Gap >= 2 BY SizeAssumption
  <1>2. /\ bit_counter \in 0 .. SendBits /\ gap \in 0 .. Gap /\ send_req \in BOOLEAN
        /\ send_ack \in BOOLEAN BY DEF Control
  <1>3. send_ack' = (sfttx /\ bit_counter = 1) /\ (sfttx => gap = 0)
        /\ gap' = IF sfttx THEN Gap ELSE IF gap > 0 THEN gap - 1 ELSE 0
    BY DEF Sender
  <1>4. bit_counter' = IF sfttx /\ bit_counter = 0 /\ send_req THEN SendBits
                       ELSE IF sfttx /\ bit_counter > 0 THEN bit_counter - 1 ELSE bit_counter
    BY DEF Sender
  <1>5. send_ack => ~sfttx BY <1>1, <1>3 DEF Pace
  <1>6. sent' = IF ~Active THEN <<>> ELSE IF sfttx /\ bit_counter = 0 /\ send_req
                THEN Append(sent, sendword) ELSE sent
    BY DEF Sender
  <1>7. bit_counter' \in 0 .. SendBits /\ gap' \in 0 .. Gap /\ send_ack' \in BOOLEAN
    BY <1>1, <1>2, <1>3, <1>4
  <1>8. send_ack' => bit_counter' = 0 /\ gap' = Gap /\ bit_counter > 0
    <2>1. send_ack' => sfttx /\ bit_counter = 1 BY <1>3, Zenon
    <2> QED BY <2>1, <1>3, <1>4
  <1>9. bit_counter' > 0 => send_req /\ ~send_ack
    BY <1>1, <1>2, <1>3, <1>4, <1>5 DEF Pace
  <1>10. CASE sfttx /\ bit_counter = 0 /\ send_req
    <2>1. Gone = 0 /\ Gone' = 1 /\ ~send_ack BY <1>1, <1>4, <1>5, <1>10 DEF Gone
    <2> QED BY <2>1, <1>6, <1>7, <1>8, <1>9, <1>10
  <1>11. CASE ~(sfttx /\ bit_counter = 0 /\ send_req)
    <2>1. CASE send_ack
      <3>1. Gone = 1 /\ Gone' = 0 BY <1>1, <1>2, <1>3, <1>4, <1>5, <2>1 DEF Gone, Pace
      <3> QED BY <3>1, <2>1, <1>6, <1>7, <1>8, <1>9, <1>11 DEF Pace
    <2>2. CASE ~send_ack
      <3>1. Gone' = Gone BY <1>1, <1>2, <1>3, <1>4, <1>11, <2>2 DEF Gone
      <3>2. ~send_req => Gone = 0 BY <1>2, <2>2 DEF Gone, Pace
      <3> QED BY <3>1, <3>2, <2>2, <1>6, <1>7, <1>8, <1>9, <1>11
    <2> QED BY <2>1, <2>2
  <1> QED BY <1>10, <1>11

\* The bytes of a channel are among those of all.
LEMMA Numbers ==
    /\ LastChannel \in 0 .. 15 /\ WaitTicks \in Nat /\ All \in Nat /\ All >= 6
    /\ \A c \in Channels : 6 * c \in Nat /\ 6 * c + 6 <= All /\ c \in 0 .. 255
  BY SizeAssumption DEF All, Channels

\* One lemma for each action of the message control.
LEMMA IdleStays ==
    ASSUME Typed, NEW sfttx \in BOOLEAN, Idle, Sender(sfttx)
    PROVE  Control' /\ Pace' /\ Counted'
  <1>1. /\ mctrl_state = "MCTRL_IDLE" /\ send_req' = FALSE
        /\ UNCHANGED <<exmes_ack, anoff_ack, wait_counter, sendword>>
        /\ mctrl_state' \in {"MCTRL_IDLE", "MCTRL_SEND_F0", "MCTRL_ANOFF_SEND_Bn"}
        /\ channel' \in Channels
    BY Numbers DEF Idle, Typed, Control, Channels
  <1>2. ~send_req BY <1>1 DEF Typed, Pace, Sending, Silencing
  <1>3. /\ bit_counter' \in 0 .. SendBits /\ gap' \in 0 .. Gap /\ send_ack' \in BOOLEAN
        /\ ~(bit_counter' > 0) /\ ~send_ack' /\ sent' = <<>>
    BY <1>1, <1>2, SenderDoes DEF Typed, Active, Gone
  <1>4. Control' BY <1>1, <1>3 DEF Typed, Control, Sending, Silencing
  <1>5. Pace' BY <1>1, <1>3 DEF Pace
  <1>6. Count[mctrl_state]' \in Nat /\ Gone' \in 0 .. 1
    BY <1>1, Numbers DEF Count, Gone
  <1> QED BY <1>3, <1>4, <1>5, <1>6 DEF Counted, Any

\* The sender's step in a state that is left or stays: what it has sent is still counted.
LEMMA StillCounted ==
    ASSUME Typed, NEW sfttx \in BOOLEAN, Sender(sfttx), Active, NEW n \in Nat,
           Count[mctrl_state] \in Nat,
           send_ack => n >= Count[mctrl_state] + 1,
           ~send_ack => n >= Count[mctrl_state]
    PROVE  sent' \in Seq(Any) /\ Len(sent') \in Nat /\ Len(sent') <= n + Gone'
  <1>1. \/ send_req /\ ~send_ack /\ Gone = 0 /\ Gone' = 1 /\ sent' = Append(sent, sendword)
        \/ sent' = sent /\ ~send_ack /\ Gone' = Gone
        \/ sent' = sent /\ send_ack /\ Gone = 1 /\ Gone' = 0
    BY SenderDoes DEF Typed
  <1>2. sent \in Seq(Any) /\ Len(sent) \in Nat /\ Len(sent) <= Count[mctrl_state] + Gone
        /\ sendword \in Any
    BY DEF Typed, Counted, Control
  <1>3. Gone \in 0 .. 1 BY DEF Gone
  <1> QED BY <1>1, <1>2, <1>3

LEMMA SendStays ==
    ASSUME Typed, NEW sfttx \in BOOLEAN, Send, Sender(sfttx)
    PROVE  Control' /\ Pace' /\ Counted'
  <1>1. /\ mctrl_state \in Sending \cup Silencing /\ sendword' = Word[mctrl_state]
        /\ send_req' = ~send_ack /\ UNCHANGED <<anoff_ack, channel>>
        /\ mctrl_state' = IF send_ack THEN Follows[mctrl_state] ELSE mctrl_state
        /\ exmes_ack' = (exmes_ack \/ (send_ack /\ mctrl_state = "MCTRL_SEND_F7"))
        /\ wait_counter' = IF send_ack /\ Follows[mctrl_state] \in Waits THEN WaitTicks
                           ELSE wait_counter
    BY StatesAre DEF Send
  <1>2. Active BY <1>1 DEF Active, Sending, Silencing
  <1>3. /\ bit_counter' \in 0 .. SendBits /\ gap' \in 0 .. Gap /\ send_ack' \in BOOLEAN
        /\ send_ack' => bit_counter' = 0 /\ gap' = Gap /\ bit_counter > 0
        /\ bit_counter' > 0 => send_req /\ ~send_ack
    BY SenderDoes DEF Typed
  <1>4. channel \in Channels /\ channel \in 0 .. 255 /\ command \in 0 .. 4 /\ param \in 0 .. 255
        /\ 6 * channel \in Nat /\ 6 * channel + 6 <= All
    BY Numbers DEF Typed, Registers, Control
  <1>5. Word[mctrl_state] \in Any
    <2>1. \A i \in 0 .. 255 : /\ <<"F0", i>> \in Any /\ <<"7D", i>> \in Any /\ <<"F7", i>> \in Any
                              /\ <<"Bn", i>> \in Any /\ <<"7B", i>> \in Any /\ <<"00", i>> \in Any
                              /\ <<"78", i>> \in Any /\ <<"command", i>> \in Any
                              /\ <<"param", i>> \in Any
      BY DEF Any
    <2>2. Word[mctrl_state] \in {<<"F0", 0>>, <<"7D", 0>>, <<"F7", 0>>, <<"command", command>>,
                                <<"param", param>>, <<"Bn", channel>>, <<"7B", 0>>, <<"00", 0>>,
                                <<"78", 0>>}
      BY <1>1 DEF Word, Sending, Silencing
    <2>3. command \in 0 .. 255 /\ 0 \in 0 .. 255 BY <1>4
    <2> QED BY <1>4, <2>1, <2>2, <2>3
  <1>6. Follows[mctrl_state] \in Sending \cup Silencing \cup Waits \cup {"MCTRL_FIN"}
    BY <1>1 DEF Follows, AfterCommand, Sending, Silencing, Waits
  <1>7. exmes_ack' \in BOOLEAN BY <1>1, Zenon
  <1>8. Control'
    BY <1>1, <1>3, <1>5, <1>6, <1>7, Numbers DEF Typed, Control
  <1>9. Pace'
    <2>1. send_ack => ~(bit_counter > 0) BY DEF Typed, Pace
    <2>2. send_ack' => ~send_ack BY <1>3, <2>1
    <2>3. ~send_ack => mctrl_state' \in Sending \cup Silencing BY <1>1
    <2>4. send_req' <=> ~send_ack BY <1>1
    <2> QED BY <1>3, <2>2, <2>3, <2>4 DEF Pace
  <1>10. Count[mctrl_state] \in Nat /\ Count[mctrl_state]' \in Nat
         /\ (send_ack => Count[mctrl_state]' >= Count[mctrl_state] + 1)
         /\ (~send_ack => Count[mctrl_state]' >= Count[mctrl_state])
    <2>1. CASE send_ack
      BY <1>1, <1>4, <2>1, Numbers DEF Count, Follows, AfterCommand, Sending, Silencing
    <2>2. CASE ~send_ack
      BY <1>1, <1>4, <2>2 DEF Count, Sending, Silencing
    <2> QED BY <2>1, <2>2
  <1>11. sent' \in Seq(Any) /\ Len(sent') <= Count[mctrl_state]' + Gone'
    BY <1>2, <1>10, StillCounted
  <1> QED BY <1>8, <1>9, <1>11 DEF Counted

LEMMA PauseStays ==
    ASSUME Typed, NEW sfttx \in BOOLEAN, Pause(sfttx), Sender(sfttx)
    PROVE  Control' /\ Pace' /\ Counted'
  <1>1. mctrl_state \in Waits /\ Active /\ ~send_req /\ ~send_ack
    BY DEF Pause, Typed, Pace, Waits, Active, Sending, Silencing
  <1>2. /\ bit_counter' \in 0 .. SendBits /\ gap' \in 0 .. Gap /\ ~send_ack'
        /\ ~(bit_counter' > 0) /\ send_ack' \in BOOLEAN
    BY <1>1, SenderDoes DEF Typed, Gone
  <1>3. channel \in Channels /\ 6 * channel \in Nat /\ 6 * channel + 6 <= All /\ All \in Nat
    BY Numbers DEF Typed, Control
  <1>4. wait_counter' \in 0 .. WaitTicks BY Numbers DEF Pause, Typed, Control
  <1>5. UNCHANGED <<exmes_ack, sendword>> /\ send_req' = FALSE
    BY <1>1 DEF Pause, Typed, Control
  <1>6. anoff_ack' \in BOOLEAN BY Zenon DEF Pause, Typed, Control
  <1>7. channel' \in Channels
    BY <1>3, Numbers DEF Pause, AtLast, Channels
  <1>8. mctrl_state' \in Waits \cup {"MCTRL_ASOFF_SEND_Bn", "MCTRL_ANOFF_SEND_Bn", "MCTRL_FIN"}
    BY <1>1 DEF Pause
  <1>9. Control' BY <1>2, <1>4, <1>5, <1>6, <1>7, <1>8 DEF Typed, Control, Silencing
  <1>10. Pace' BY <1>1, <1>2, <1>5 DEF Pace
  <1>11. Count[mctrl_state] \in Nat /\ Count[mctrl_state]' \in Nat
         /\ Count[mctrl_state]' >= Count[mctrl_state]
    <2>1. CASE wait_counter > 0
      BY <1>1, <1>3, <2>1 DEF Pause, Count, Waits
    <2>2. CASE ~(wait_counter > 0) /\ mctrl_state = "MCTRL_ANOFF_WAIT"
      <3>1. mctrl_state' = "MCTRL_ASOFF_SEND_Bn" /\ channel' = channel BY <2>2 DEF Pause
      <3> QED BY <1>3, <2>2, <3>1 DEF Count
    <2>3. CASE ~(wait_counter > 0) /\ mctrl_state = "MCTRL_ASOFF_WAIT"
      <3>1. \/ mctrl_state' = "MCTRL_FIN" /\ channel' = channel
            \/ mctrl_state' = "MCTRL_ANOFF_SEND_Bn" /\ channel' = channel + 1
        BY <2>3 DEF Pause
      <3>2. Count[mctrl_state] = 6 * channel + 6 BY <2>3 DEF Count
      <3>3. Count[mctrl_state]' = IF mctrl_state' = "MCTRL_FIN" THEN All ELSE 6 * channel'
        BY <3>1 DEF Count, All
      <3> QED BY <1>3, <3>1, <3>2, <3>3, Numbers DEF Channels
    <2> QED BY <1>1, <2>1, <2>2, <2>3 DEF Waits
  <1>12. sent' \in Seq(Any) /\ Len(sent') <= Count[mctrl_state]' + Gone'
    BY <1>1, <1>11, StillCounted
  <1> QED BY <1>9, <1>10, <1>12 DEF Counted

LEMMA FinStays ==
    ASSUME Typed, NEW sfttx \in BOOLEAN, Fin, Sender(sfttx)
    PROVE  Control' /\ Pace' /\ Counted'
  <1>1. mctrl_state = "MCTRL_FIN" /\ Active /\ ~send_req /\ ~send_ack
    BY DEF Fin, Typed, Pace, Active, Sending, Silencing
  <1>2. /\ bit_counter' \in 0 .. SendBits /\ gap' \in 0 .. Gap /\ ~send_ack'
        /\ ~(bit_counter' > 0) /\ send_ack' \in BOOLEAN
    BY <1>1, SenderDoes DEF Typed, Gone
  <1>3. UNCHANGED <<channel, wait_counter, sendword, send_req>>
        /\ mctrl_state' \in {"MCTRL_FIN", "MCTRL_IDLE"}
    BY <1>1 DEF Fin
  <1>4. exmes_ack' \in BOOLEAN /\ anoff_ack' \in BOOLEAN BY Zenon DEF Fin
  <1>5. Control' BY <1>2, <1>3, <1>4 DEF Typed, Control
  <1>6. Pace' BY <1>1, <1>2, <1>3 DEF Pace
  <1>7. Count[mctrl_state] = All /\ Count[mctrl_state]' = All /\ All \in Nat
    BY <1>1, <1>3, Numbers DEF Count, All
  <1>8. sent' \in Seq(Any) /\ Len(sent') <= Count[mctrl_state]' + Gone'
    BY <1>1, <1>7, StillCounted
  <1> QED BY <1>5, <1>6, <1>8 DEF Counted

LEMMA NoBytes ==
    ASSUME NEW s, s = <<>>, NEW n \in Nat, NEW g \in 0 .. 1
    PROVE  s \in Seq(Any) /\ Len(s) <= n + g
  OBVIOUS

LEMMA ResetStays ==
    ASSUME Typed, Reset
    PROVE  Typed'
  <1>1. Registers'
    <2>1. source' \in Frames
      BY SourceAssumption, FrameAssumption DEF Reset, FrameReset, Frames
    <2>2. /\ mt32pi_req' \in BOOLEAN /\ restored' \in BOOLEAN /\ anoff_req' \in BOOLEAN
          /\ finished' \in BOOLEAN /\ busy' \in BOOLEAN /\ exmes_req' \in BOOLEAN
          /\ disturbed' \in BOOLEAN
      BY Zenon DEF Reset, Typed, Registers
    <2>3. /\ reg10' \in Commands /\ command' \in 0 .. 4 /\ param' \in 0 .. 255
          /\ bus_state' = "BUS_IDLE"
      BY DEF Reset, Typed, Registers
    <2> QED BY <2>1, <2>2, <2>3 DEF Registers
  <1>2. Control'
    <2>1. /\ send_req' \in BOOLEAN /\ send_ack' \in BOOLEAN /\ exmes_ack' \in BOOLEAN
          /\ anoff_ack' \in BOOLEAN
      BY Zenon DEF Reset
    <2>2. sendword' \in Any BY DEF Reset, Nothing, Any
    <2>3. /\ mctrl_state' = "MCTRL_IDLE" /\ channel' = 0 /\ wait_counter' \in 0 .. WaitTicks
          /\ bit_counter' = 0 /\ gap' = 0
      BY DEF Reset, Typed, Control
    <2> QED BY <2>1, <2>2, <2>3, Numbers, SizeAssumption DEF Control, Channels
  <1>3. Pace' BY DEF Reset, Pace
  <1>4. sent' = <<>> /\ Gone' \in 0 .. 1 /\ Count[mctrl_state]' = All /\ All \in Nat
    BY Numbers DEF Reset, Gone, Count, All
  <1>5. Counted' BY <1>4, NoBytes DEF Counted
  <1> QED BY <1>1, <1>2, <1>3, <1>5 DEF Typed

LEMMA TypedAlways == Spec => []Typed
  <1>1. Init => Typed
    <2> SUFFICES ASSUME Init PROVE Typed OBVIOUS
    <2>1. Registers
      <3>1. source \in Frames
        BY SourceAssumption, FrameAssumption DEF Init, FrameReset, Frames
      <3>2. /\ mt32pi_req \in BOOLEAN /\ restored \in BOOLEAN /\ anoff_req \in BOOLEAN
            /\ finished \in BOOLEAN /\ busy \in BOOLEAN /\ exmes_req \in BOOLEAN
            /\ disturbed \in BOOLEAN
        BY Zenon DEF Init
      <3>3. /\ reg10 \in Commands /\ command \in 0 .. 4 /\ param \in 0 .. 255
            /\ bus_state = "BUS_IDLE"
        BY DEF Init
      <3> QED BY <3>1, <3>2, <3>3 DEF Registers
    <2>2. Control
      <3>1. /\ send_req \in BOOLEAN /\ send_ack \in BOOLEAN /\ exmes_ack \in BOOLEAN
            /\ anoff_ack \in BOOLEAN
        BY Zenon DEF Init
      <3>2. sendword \in Any BY DEF Init, Nothing, Any
      <3>3. /\ mctrl_state = "MCTRL_IDLE" /\ channel = 0 /\ wait_counter = 0
            /\ bit_counter = 0 /\ gap = 0
        BY DEF Init
      <3> QED BY <3>1, <3>2, <3>3, Numbers, SizeAssumption DEF Control, Channels
    <2>3. Pace BY DEF Init, Pace
    <2>4. sent = <<>> /\ Gone \in 0 .. 1 /\ Count[mctrl_state] = All /\ All \in Nat
      BY Numbers DEF Init, Gone, Count, All
    <2> QED BY <2>1, <2>2, <2>3, <2>4 DEF Typed, Counted
  <1>2. Typed /\ [Next]_vars => Typed'
    <2> SUFFICES ASSUME Typed, [Next]_vars PROVE Typed' OBVIOUS
    <2>1. CASE \E sfttx, feed, tick \in BOOLEAN : Edge(sfttx, feed, tick)
      <3>1. PICK sfttx \in BOOLEAN, feed \in BOOLEAN, tick \in BOOLEAN : Edge(sfttx, feed, tick)
        BY <2>1
      <3>2. Registers' BY <3>1, RegistersStay DEF Typed, Edge
      <3>3. Control' /\ Pace' /\ Counted'
        BY <3>1, IdleStays, SendStays, PauseStays, FinStays DEF Edge
      <3> QED BY <3>2, <3>3 DEF Typed
    <2>2. CASE Reset BY <2>2, ResetStays
    <2>3. CASE UNCHANGED vars
      BY <2>3 DEF vars, hostVars, busVars, mctrlVars, senderVars, Typed, Registers, Control,
         Pace, Counted, Count, Gone
    <2> QED BY <2>1, <2>2, <2>3 DEF Next
  <1> QED BY <1>1, <1>2, PTL DEF Spec

LEMMA SilenceLen == Len(Silence) = All /\ DOMAIN Silence = 1 .. All
  BY Numbers, SizeAssumption DEF Silence, All

\* Every register of the MIDI output holds a value of its range and no message is longer
\* than the one that silences every channel.
THEOREM Typing == Spec => []TypeOK
  <1>1. Typed => TypeOK
    <2> SUFFICES ASSUME Typed PROVE TypeOK OBVIOUS
    <2>1. mctrl_state \in States BY StatesAre DEF Typed, Control, States
    <2>2. sendword[2] \in 0 .. 255 BY DEF Typed, Control, Any
    <2>3. Len(sent) <= Len(Silence)
      <3>1. channel \in Channels /\ 6 * channel \in Nat /\ 6 * channel + 6 <= All
            /\ All \in Nat /\ All >= 6
        BY Numbers DEF Typed, Control
      <3>2. sent \in Seq(Any) /\ Len(sent) \in Nat /\ Len(sent) <= Count[mctrl_state] + Gone
        BY DEF Typed, Counted
      <3>3. CASE mctrl_state \in Sending \cup Silencing
        <4>1. Count[mctrl_state] \in Nat /\ Count[mctrl_state] + 1 <= All
          BY <3>1, <3>3 DEF Count, Sending, Silencing
        <4> QED BY <3>2, <4>1, <3>1, SilenceLen DEF Gone
      <3>4. CASE mctrl_state \in Waits \cup {"MCTRL_IDLE", "MCTRL_FIN"}
        <4>1. Count[mctrl_state] \in Nat /\ Count[mctrl_state] <= All
          BY <3>1, <3>4 DEF Count, Waits, All
        <4>2. Gone = 0
          BY <3>4 DEF Typed, Pace, Gone, Waits, Sending, Silencing
        <4> QED BY <3>2, <4>1, <4>2, <3>1, SilenceLen
      <3> QED BY <3>3, <3>4 DEF Typed, Control
    <2> QED BY <2>1, <2>2, <2>3 DEF Typed, Registers, Control, TypeOK
  <1> QED BY <1>1, TypedAlways, PTL

-----------------------------------------------------------------------------
(* The bytes of a message. *)

\* What a control message has said when a state begins.
Said == [MCTRL_SEND_F0        |-> <<>>,
         MCTRL_SEND_7D        |-> <<<<"F0", 0>>>>,
         MCTRL_SEND_COMMAND   |-> <<<<"F0", 0>>, <<"7D", 0>>>>,
         MCTRL_SEND_PARAMETER |-> <<<<"F0", 0>>, <<"7D", 0>>, <<"command", command>>>>,
         MCTRL_SEND_F7        |->
            <<<<"F0", 0>>, <<"7D", 0>>, <<"command", command>>>>
            \o (IF command = 0 THEN <<>> ELSE <<<<"param", param>>>>)]

\* The first n bytes that silence the channels.
Upto(n) == [i \in 1 .. n |-> Silence[i]]

\* What the states have said, up to the byte in hand.
Spoken ==
    /\ mctrl_state \in {"MCTRL_SEND_F0", "MCTRL_SEND_7D"} => ~disturbed
    /\ mctrl_state \in Sending /\ ~disturbed =>
          /\ sent = IF Gone = 1 THEN Append(Said[mctrl_state], Word[mctrl_state]) ELSE Said[mctrl_state]
          /\ send_req => sendword = Word[mctrl_state]
          /\ mctrl_state = "MCTRL_SEND_PARAMETER" => command # 0
    /\ mctrl_state \in Silencing \cup Waits => sent = Upto(Count[mctrl_state] + Gone)
    /\ mctrl_state \in Silencing /\ send_req => sendword = Word[mctrl_state]

\* The kinds of the bytes of a control message, whatever is written from the
\* command's turn on.
Begun(s) == s[1] = <<"F0", 0>> /\ s[2] = <<"7D", 0>>

ShapeCommand == mctrl_state = "MCTRL_SEND_COMMAND" =>
    /\ Len(sent) = 2 + Gone /\ Begun(sent)
    /\ Gone = 1 => sent[3][1] = "command"
    /\ send_req => sendword[1] = "command"

ShapeParameter == mctrl_state = "MCTRL_SEND_PARAMETER" =>
    /\ Len(sent) = 3 + Gone /\ Begun(sent) /\ sent[3][1] = "command"
    /\ Gone = 1 => sent[4][1] = "param"
    /\ send_req => sendword[1] = "param"

ShapeF7 == mctrl_state = "MCTRL_SEND_F7" =>
    /\ Len(sent) \in {3 + Gone, 4 + Gone} /\ Begun(sent) /\ sent[3][1] = "command"
    /\ Len(sent) = 4 + Gone => sent[4][1] = "param"
    /\ Gone = 1 => sent[Len(sent)] = <<"F7", 0>>
    /\ send_req => sendword = <<"F7", 0>>

Shape == ShapeCommand /\ ShapeParameter /\ ShapeF7

Acknowledged ==
    /\ exmes_ack => /\ mctrl_state = "MCTRL_FIN" /\ ~anoff_ack
                    /\ Framed(sent) /\ (disturbed \/ sent = Message)
    /\ anoff_ack => mctrl_state = "MCTRL_FIN" /\ sent = Silence

Whole == Spoken /\ Shape /\ Acknowledged

\* A state of "all notes off" sends the next byte of Silence.
LEMMA NextByte ==
    ASSUME Typed, mctrl_state \in Silencing
    PROVE  Append(Upto(Count[mctrl_state]), Word[mctrl_state]) = Upto(Count[mctrl_state] + 1)
  <1> DEFINE n == Count[mctrl_state]
  <1>1. channel \in Channels /\ 6 * channel \in Nat /\ 6 * channel + 6 <= All /\ channel \in Nat
    BY Numbers DEF Typed, Control
  <1>2. n \in 6 * channel .. 6 * channel + 5 /\ n + 1 \in 1 .. All /\ n \in Nat
    BY <1>1, Numbers DEF Count, Silencing
  <1>3. Silence[n + 1] = SilenceOf(n \div 6)[(n % 6) + 1]
    <2>1. Silence = [i \in 1 .. All |-> SilenceOf((i - 1) \div 6)[((i - 1) % 6) + 1]]
      BY DEF Silence, All
    <2>2. (n + 1) - 1 = n BY <1>2
    <2> HIDE DEF n
    <2> QED BY <1>2, <2>1, <2>2
  <1>4. Word[mctrl_state] = SilenceOf(channel)[(n - 6 * channel) + 1]
    <2>2. CASE mctrl_state = "MCTRL_ANOFF_SEND_Bn"
      <3>1. Word[mctrl_state] = <<"Bn", channel>> /\ n = 6 * channel
        BY <2>2 DEF Word, Count
      <3>2. SilenceOf(channel)[1] = <<"Bn", channel>> BY DEF SilenceOf
      <3>3. (n - 6 * channel) + 1 = 1
        <4> HIDE DEF n
        <4> QED BY <1>1, <3>1
      <3> HIDE DEF n
      <3> QED BY <3>1, <3>2, <3>3
    <2>3. CASE mctrl_state = "MCTRL_ANOFF_SEND_7B"
      <3>1. Word[mctrl_state] = <<"7B", 0>> /\ n = 6 * channel + 1
        BY <2>3 DEF Word, Count
      <3>2. SilenceOf(channel)[2] = <<"7B", 0>> BY DEF SilenceOf
      <3>3. (n - 6 * channel) + 1 = 2
        <4> HIDE DEF n
        <4> QED BY <1>1, <3>1
      <3> HIDE DEF n
      <3> QED BY <3>1, <3>2, <3>3
    <2>4. CASE mctrl_state = "MCTRL_ANOFF_SEND_00"
      <3>1. Word[mctrl_state] = <<"00", 0>> /\ n = 6 * channel + 2
        BY <2>4 DEF Word, Count
      <3>2. SilenceOf(channel)[3] = <<"00", 0>> BY DEF SilenceOf
      <3>3. (n - 6 * channel) + 1 = 3
        <4> HIDE DEF n
        <4> QED BY <1>1, <3>1
      <3> HIDE DEF n
      <3> QED BY <3>1, <3>2, <3>3
    <2>5. CASE mctrl_state = "MCTRL_ASOFF_SEND_Bn"
      <3>1. Word[mctrl_state] = <<"Bn", channel>> /\ n = 6 * channel + 3
        BY <2>5 DEF Word, Count
      <3>2. SilenceOf(channel)[4] = <<"Bn", channel>> BY DEF SilenceOf
      <3>3. (n - 6 * channel) + 1 = 4
        <4> HIDE DEF n
        <4> QED BY <1>1, <3>1
      <3> HIDE DEF n
      <3> QED BY <3>1, <3>2, <3>3
    <2>6. CASE mctrl_state = "MCTRL_ASOFF_SEND_78"
      <3>1. Word[mctrl_state] = <<"78", 0>> /\ n = 6 * channel + 4
        BY <2>6 DEF Word, Count
      <3>2. SilenceOf(channel)[5] = <<"78", 0>> BY DEF SilenceOf
      <3>3. (n - 6 * channel) + 1 = 5
        <4> HIDE DEF n
        <4> QED BY <1>1, <3>1
      <3> HIDE DEF n
      <3> QED BY <3>1, <3>2, <3>3
    <2>7. CASE mctrl_state = "MCTRL_ASOFF_SEND_00"
      <3>1. Word[mctrl_state] = <<"00", 0>> /\ n = 6 * channel + 5
        BY <2>7 DEF Word, Count
      <3>2. SilenceOf(channel)[6] = <<"00", 0>> BY DEF SilenceOf
      <3>3. (n - 6 * channel) + 1 = 6
        <4> HIDE DEF n
        <4> QED BY <1>1, <3>1
      <3> HIDE DEF n
      <3> QED BY <3>1, <3>2, <3>3
    <2> QED BY <2>2, <2>3, <2>4, <2>5, <2>6, <2>7 DEF Silencing
  <1>5. n \div 6 = channel /\ n % 6 = n - 6 * channel
    <2> HIDE DEF n
    <2> QED BY <1>1, <1>2
  <1>6. Word[mctrl_state] = Silence[n + 1] BY <1>3, <1>4, <1>5
  <1> HIDE DEF n
  <1>7. Upto(n) \in Seq(Any \cup {Silence[i] : i \in 1 .. n}) /\ Len(Upto(n)) = n
    BY <1>2 DEF Upto
  <1>8. Append(Upto(n), Silence[n + 1]) = Upto(n + 1)
    BY <1>2, <1>7 DEF Upto
  <1> QED BY <1>6, <1>8 DEF n

\* Sequences of two, which the provers build from their parts only.
LEMMA PairOf ==
    ASSUME NEW S, NEW x \in S, NEW y \in S, NEW s, s = <<x>>, NEW t, t = Append(s, y)
    PROVE  t \in Seq(S) /\ Len(t) = 2 /\ t[1] = x /\ t[2] = y
  OBVIOUS

LEMMA OfTwo ==
    ASSUME NEW S, NEW t \in Seq(S), Len(t) = 2
    PROVE  t = <<t[1], t[2]>>
  OBVIOUS

LEMMA OneMore ==
    ASSUME NEW x, NEW y
    PROVE  Append(<<x>>, y) = <<x, y>>
  <1>1. PICK S : S = {x, y} OBVIOUS
  <1>2. PICK s : s = <<x>> OBVIOUS
  <1>3. PICK t : t = Append(s, y) OBVIOUS
  <1>4. t \in Seq(S) /\ Len(t) = 2 /\ t[1] = x /\ t[2] = y
    BY <1>1, <1>2, <1>3, PairOf
  <1>5. t = <<t[1], t[2]>>
    BY <1>4, OfTwo
  <1> QED BY <1>2, <1>3, <1>4, <1>5, Zenon

\* A state of a control message appends its byte to what the states before have said.
LEMMA Spelled ==
    ASSUME Registers
    PROVE  /\ Append(Said["MCTRL_SEND_F0"], Word["MCTRL_SEND_F0"]) = Said["MCTRL_SEND_7D"]
           /\ Append(Said["MCTRL_SEND_7D"], Word["MCTRL_SEND_7D"]) = Said["MCTRL_SEND_COMMAND"]
           /\ Append(Said["MCTRL_SEND_COMMAND"], Word["MCTRL_SEND_COMMAND"]) = Said[AfterCommand]
           /\ command # 0 => Append(Said["MCTRL_SEND_PARAMETER"], Word["MCTRL_SEND_PARAMETER"])
                               = Said["MCTRL_SEND_F7"]
           /\ Append(Said["MCTRL_SEND_F7"], Word["MCTRL_SEND_F7"]) = Message
  <1>1. Append(Said["MCTRL_SEND_F0"], Word["MCTRL_SEND_F0"]) = Said["MCTRL_SEND_7D"]
    BY DEF Said, Word
  <1>2. Append(Said["MCTRL_SEND_7D"], Word["MCTRL_SEND_7D"]) = Said["MCTRL_SEND_COMMAND"]
    <2>1. /\ Said["MCTRL_SEND_7D"] = <<<<"F0", 0>>>> /\ Word["MCTRL_SEND_7D"] = <<"7D", 0>>
          /\ Said["MCTRL_SEND_COMMAND"] = <<<<"F0", 0>>, <<"7D", 0>>>>
      BY DEF Said, Word
    <2> QED BY <2>1, OneMore, Zenon
  <1>3. Append(Said["MCTRL_SEND_COMMAND"], Word["MCTRL_SEND_COMMAND"]) = Said[AfterCommand]
    BY DEF Said, Word, AfterCommand
  <1>4. command # 0 => Append(Said["MCTRL_SEND_PARAMETER"], Word["MCTRL_SEND_PARAMETER"])
                               = Said["MCTRL_SEND_F7"]
    <2>1. CASE command # 0
      <3>1. Said["MCTRL_SEND_F7"] = <<<<"F0", 0>>, <<"7D", 0>>, <<"command", command>>>>
                                    \o <<<<"param", param>>>>
        BY <2>1 DEF Said
      <3>2. Said["MCTRL_SEND_PARAMETER"] = <<<<"F0", 0>>, <<"7D", 0>>, <<"command", command>>>>
            /\ Word["MCTRL_SEND_PARAMETER"] = <<"param", param>>
        BY DEF Said, Word
      <3> QED BY <3>1, <3>2
    <2> QED BY <2>1
  <1>5. Append(Said["MCTRL_SEND_F7"], Word["MCTRL_SEND_F7"]) = Message
    BY DEF Said, Word, Message
  <1> QED BY <1>1, <1>2, <1>3, <1>4, <1>5

\* Without a write the command and its parameter stay.
LEMMA Unwritten == Bus /\ ~Taken => command' = command /\ param' = param
  BY DEF Bus

LEMMA UptoEnds ==
    Upto(0) = <<>> /\ Upto(All) = Silence
  <1>1. Upto(0) = <<>>
    BY DEF Upto
  <1>2. Silence = [i \in 1 .. All |-> Silence[i]]
    BY DEF Silence, All
  <1> QED BY <1>1, <1>2 DEF Upto

\* The bytes of a state are those of the state and of the message; the message is that
\* of the registers that hold it.
LEMMA SameMessage ==
    ASSUME command' = command, param' = param, channel' = channel, NEW st
    PROVE  Said'[st] = Said[st] /\ Word'[st] = Word[st] /\ Message' = Message
           /\ Count'[st] = Count[st]
  BY DEF Said, Word, Message, Count

\* A byte more.
LEMMA AppendIs ==
    ASSUME NEW s \in Seq(Any), NEW x \in Any
    PROVE  LET t == Append(s, x)
           IN  /\ t \in Seq(Any) /\ Len(t) = Len(s) + 1 /\ t[Len(s) + 1] = x
               /\ \A i \in 1 .. Len(s) : t[i] = s[i]
  OBVIOUS

\* What a sending state does next with a message that is not disturbed: its first two
\* bytes are the same for every command, and later there was no write.
LEMMA KeptWords ==
    ASSUME Typed, Whole, Send, Bus, Disturbed, mctrl_state \in Sending, ~disturbed'
    PROVE  /\ ~disturbed
           /\ Said'[mctrl_state'] = Said[mctrl_state']
           /\ ~send_ack => Word'[mctrl_state] = Word[mctrl_state]
           /\ mctrl_state' = "MCTRL_FIN" => Message' = Message
           /\ mctrl_state' = "MCTRL_SEND_PARAMETER" => command' # 0
  <1>1. /\ mctrl_state' = IF send_ack THEN Follows[mctrl_state] ELSE mctrl_state
        /\ channel' = channel
    BY DEF Send
  <1>2. CASE mctrl_state \in {"MCTRL_SEND_F0", "MCTRL_SEND_7D"}
    <2>1. ~disturbed BY <1>2 DEF Whole, Spoken
    <2>2. mctrl_state' \in {"MCTRL_SEND_F0", "MCTRL_SEND_7D", "MCTRL_SEND_COMMAND"}
      BY <1>1, <1>2 DEF Follows
    <2>3. Said'[mctrl_state'] = Said[mctrl_state']
      <3>1. /\ Said["MCTRL_SEND_F0"] = <<>> /\ Said["MCTRL_SEND_7D"] = <<<<"F0", 0>>>>
            /\ Said["MCTRL_SEND_COMMAND"] = <<<<"F0", 0>>, <<"7D", 0>>>>
        BY DEF Said
      <3>2. /\ Said'["MCTRL_SEND_F0"] = <<>> /\ Said'["MCTRL_SEND_7D"] = <<<<"F0", 0>>>>
            /\ Said'["MCTRL_SEND_COMMAND"] = <<<<"F0", 0>>, <<"7D", 0>>>>
        BY DEF Said
      <3> QED BY <2>2, <3>1, <3>2
    <2>4. Word'[mctrl_state] = Word[mctrl_state] BY <1>2 DEF Word
    <2> QED BY <2>1, <2>2, <2>3, <2>4
  <1>3. CASE mctrl_state \in Late
    <2>1. ~disturbed /\ ~Taken BY <1>3 DEF Disturbed
    <2>2. command' = command /\ param' = param BY <2>1, Unwritten
    <2>3. /\ Said'[mctrl_state'] = Said[mctrl_state'] /\ Word'[mctrl_state] = Word[mctrl_state]
          /\ Message' = Message
      BY <1>1, <2>2, SameMessage
    <2>4. ASSUME mctrl_state' = "MCTRL_SEND_PARAMETER" PROVE command # 0
      <3>1. CASE send_ack
        BY <1>1, <3>1, <2>4 DEF Follows, AfterCommand, Sending
      <3>2. CASE ~send_ack
        BY <1>1, <3>2, <2>1, <2>4 DEF Whole, Spoken, Sending
      <3> QED BY <3>1, <3>2
    <2> QED BY <2>1, <2>2, <2>3, <2>4
  <1> QED BY <1>2, <1>3 DEF Sending, Late

\* Again one lemma for each action.
LEMMA IdleWhole ==
    ASSUME Typed, Whole, NEW sfttx \in BOOLEAN, Idle, Sender(sfttx), Disturbed
    PROVE  Whole'
  <1>1. /\ mctrl_state = "MCTRL_IDLE" /\ send_req' = FALSE
        /\ exmes_ack' = exmes_ack /\ anoff_ack' = anoff_ack
        /\ \/ mctrl_state' \in {"MCTRL_IDLE", "MCTRL_SEND_F0"}
           \/ mctrl_state' = "MCTRL_ANOFF_SEND_Bn" /\ channel' = 0
    BY DEF Idle
  <1>2. ~send_req /\ ~disturbed'
    BY <1>1 DEF Typed, Pace, Sending, Silencing, Disturbed, Late
  <1>3. Gone' = 0 /\ sent' = <<>>
    BY <1>1, <1>2, SenderDoes DEF Typed, Active
  <1>4. Spoken'
    <2>1. CASE mctrl_state' = "MCTRL_IDLE"
      BY <1>1, <2>1 DEF Spoken, Sending, Silencing, Waits
    <2>2. CASE mctrl_state' = "MCTRL_SEND_F0"
      <3>1. Said'["MCTRL_SEND_F0"] = <<>> BY DEF Said
      <3> QED BY <1>1, <1>2, <1>3, <2>2, <3>1 DEF Spoken, Sending, Silencing, Waits
    <2>3. CASE mctrl_state' = "MCTRL_ANOFF_SEND_Bn" /\ channel' = 0
      <3>1. Count'["MCTRL_ANOFF_SEND_Bn"] = 0 BY <2>3 DEF Count
      <3>2. Count[mctrl_state]' + Gone' = 0 BY <1>3, <2>3, <3>1
      <3>3. Upto(Count[mctrl_state] + Gone)' = <<>>
        BY <3>2, UptoEnds DEF Upto
      <3> QED BY <1>1, <1>3, <2>3, <3>3 DEF Spoken, Sending, Silencing, Waits
    <2> QED BY <1>1, <2>1, <2>2, <2>3
  <1>5. Acknowledged'
    BY <1>1 DEF Whole, Acknowledged
  <1>6. Shape'
    BY <1>1 DEF Shape, ShapeCommand, ShapeParameter, ShapeF7
  <1> QED BY <1>4, <1>5, <1>6 DEF Whole

\* The kinds of the bytes, which no write can change.
LEMMA SendShape ==
    ASSUME Typed, Whole, NEW sfttx \in BOOLEAN, Send, Sender(sfttx)
    PROVE  /\ Shape'
           /\ mctrl_state' = "MCTRL_FIN" => mctrl_state = "MCTRL_SEND_F7" /\ Framed(sent')
  <1>1. /\ mctrl_state \in Sending \cup Silencing /\ sendword' = Word[mctrl_state]
        /\ send_req' = ~send_ack
        /\ mctrl_state' = IF send_ack THEN Follows[mctrl_state] ELSE mctrl_state
    BY StatesAre DEF Send
  <1>2. \/ send_req /\ ~send_ack /\ Gone = 0 /\ Gone' = 1 /\ sent' = Append(sent, sendword)
        \/ sent' = sent /\ ~send_ack /\ Gone' = Gone
        \/ sent' = sent /\ send_ack /\ Gone = 1 /\ Gone' = 0
    BY <1>1, SenderDoes DEF Typed, Active, Sending, Silencing
  <1>3. sent \in Seq(Any) /\ sendword \in Any /\ Len(sent) \in Nat /\ Gone \in {0, 1}
    BY DEF Typed, Control, Counted, Gone
  <1>4. sent' = Append(sent, sendword) =>
           /\ Len(sent') = Len(sent) + 1 /\ sent'[Len(sent) + 1] = sendword
           /\ \A i \in 1 .. Len(sent) : sent'[i] = sent[i]
    BY <1>3, AppendIs
  <1>5. CASE mctrl_state \in Silencing \cup {"MCTRL_SEND_F0"}
    <2>1. mctrl_state' \in Silencing \cup Waits \cup {"MCTRL_SEND_F0", "MCTRL_SEND_7D"}
      BY <1>1, <1>5 DEF Follows, Silencing, Waits
    <2> QED BY <2>1 DEF Shape, ShapeCommand, ShapeParameter, ShapeF7, Silencing, Waits
  <1>6. CASE mctrl_state = "MCTRL_SEND_7D"
    <2>1. CASE ~send_ack
      BY <1>1, <1>6, <2>1 DEF Shape, ShapeCommand, ShapeParameter, ShapeF7
    <2>2. CASE send_ack
      <3>1. mctrl_state' = "MCTRL_SEND_COMMAND" /\ ~send_req' /\ Gone' = 0
        BY <1>1, <1>2, <1>6, <2>2 DEF Follows
      <3>2. sent = Append(Said["MCTRL_SEND_7D"], Word["MCTRL_SEND_7D"]) /\ sent' = sent
        BY <1>2, <1>6, <2>2 DEF Whole, Spoken, Sending
      <3>3. sent' = <<<<"F0", 0>>, <<"7D", 0>>>>
        BY <3>2, Spelled DEF Typed, Said
      <3>4. Len(sent') = 2 /\ Begun(sent') BY <3>3 DEF Begun
      <3> QED BY <3>1, <3>4 DEF Shape, ShapeCommand, ShapeParameter, ShapeF7
    <2> QED BY <2>1, <2>2
  <1>7. CASE mctrl_state = "MCTRL_SEND_COMMAND"
    <2>1. /\ Len(sent) = 2 + Gone /\ sent[1] = <<"F0", 0>> /\ sent[2] = <<"7D", 0>>
          /\ Gone = 1 => sent[3][1] = "command"
          /\ send_req => sendword[1] = "command"
      BY <1>7 DEF Whole, Shape, ShapeCommand, Begun
    <2>2. sendword'[1] = "command" BY <1>1, <1>7 DEF Word
    <2>3. sent'[1] = <<"F0", 0>> /\ sent'[2] = <<"7D", 0>> BY <1>2, <1>3, <1>4, <2>1
    <2>4. CASE ~send_ack
      <3>1. Len(sent') = 2 + Gone' /\ (Gone' = 1 => sent'[3][1] = "command")
        BY <1>2, <1>3, <1>4, <2>1, <2>4
      <3> QED BY <1>1, <1>7, <2>2, <2>3, <2>4, <3>1 DEF Shape, ShapeCommand, ShapeParameter, ShapeF7, Begun
    <2>5. CASE send_ack
      <3>1. Len(sent') = 3 /\ Gone' = 0 /\ sent'[3][1] = "command" /\ ~send_req'
        <4>1. sent' = sent /\ Gone = 1 /\ Gone' = 0 BY <1>2, <2>5
        <4>2. ~send_req' BY <1>1, <2>5, Zenon
        <4> QED BY <1>3, <2>1, <4>1, <4>2
      <3>2. mctrl_state' \in {"MCTRL_SEND_F7", "MCTRL_SEND_PARAMETER"}
        BY <1>1, <1>7, <2>5 DEF Follows, AfterCommand
      <3> QED BY <2>3, <3>1, <3>2 DEF Shape, ShapeCommand, ShapeParameter, ShapeF7, Begun
    <2> QED BY <2>4, <2>5
  <1>8. CASE mctrl_state = "MCTRL_SEND_PARAMETER"
    <2>1. /\ Len(sent) = 3 + Gone /\ sent[1] = <<"F0", 0>> /\ sent[2] = <<"7D", 0>>
          /\ sent[3][1] = "command"
          /\ Gone = 1 => sent[4][1] = "param"
          /\ send_req => sendword[1] = "param"
      BY <1>8 DEF Whole, Shape, ShapeParameter, Begun
    <2>2. sendword'[1] = "param" BY <1>1, <1>8 DEF Word
    <2>3. sent'[1] = <<"F0", 0>> /\ sent'[2] = <<"7D", 0>> /\ sent'[3][1] = "command"
      BY <1>2, <1>3, <1>4, <2>1
    <2>4. CASE ~send_ack
      <3>1. Len(sent') = 3 + Gone' /\ (Gone' = 1 => sent'[4][1] = "param")
        BY <1>2, <1>3, <1>4, <2>1, <2>4
      <3> QED BY <1>1, <1>8, <2>2, <2>3, <2>4, <3>1 DEF Shape, ShapeCommand, ShapeParameter, ShapeF7, Begun
    <2>5. CASE send_ack
      <3>1. Len(sent') = 4 /\ Gone' = 0 /\ sent'[4][1] = "param" /\ ~send_req'
        <4>1. sent' = sent /\ Gone = 1 /\ Gone' = 0 BY <1>2, <2>5
        <4>2. ~send_req' BY <1>1, <2>5, Zenon
        <4> QED BY <1>3, <2>1, <4>1, <4>2
      <3>2. mctrl_state' = "MCTRL_SEND_F7"
        BY <1>1, <1>8, <2>5 DEF Follows
      <3> QED BY <2>3, <3>1, <3>2 DEF Shape, ShapeCommand, ShapeParameter, ShapeF7, Begun
    <2> QED BY <2>4, <2>5
  <1>9. CASE mctrl_state = "MCTRL_SEND_F7"
    <2>1. /\ Len(sent) \in {3 + Gone, 4 + Gone} /\ sent[1] = <<"F0", 0>> /\ sent[2] = <<"7D", 0>>
          /\ sent[3][1] = "command"
          /\ Len(sent) = 4 + Gone => sent[4][1] = "param"
          /\ Gone = 1 => sent[Len(sent)] = <<"F7", 0>>
          /\ send_req => sendword = <<"F7", 0>>
      BY <1>9 DEF Whole, Shape, ShapeF7, Begun
    <2>2. sendword' = <<"F7", 0>> BY <1>1, <1>9 DEF Word
    <2>3. sent'[1] = <<"F0", 0>> /\ sent'[2] = <<"7D", 0>> /\ sent'[3][1] = "command"
      BY <1>2, <1>3, <1>4, <2>1
    <2>4. CASE ~send_ack
      <3>1. /\ Len(sent') \in {3 + Gone', 4 + Gone'}
            /\ Len(sent') = 4 + Gone' => sent'[4][1] = "param"
            /\ Gone' = 1 => sent'[Len(sent')] = <<"F7", 0>>
        <4>1. CASE sent' = sent /\ Gone' = Gone BY <2>1, <4>1
        <4>2. CASE send_req /\ Gone = 0 /\ Gone' = 1 /\ sent' = Append(sent, sendword)
          <5>1. /\ Len(sent') = Len(sent) + 1 /\ sent'[Len(sent) + 1] = <<"F7", 0>>
                /\ Len(sent) = 4 => sent'[4] = sent[4]
            BY <1>3, <1>4, <2>1, <4>2
          <5>2. Len(sent') \in {4, 5} /\ (Len(sent') = 5 => Len(sent) = 4)
            BY <1>3, <2>1, <4>2, <5>1
          <5>3. Len(sent') = 5 => sent'[4][1] = "param"
            BY <1>3, <2>1, <4>2, <5>1, <5>2
          <5>4. sent'[Len(sent')] = <<"F7", 0>> BY <1>3, <5>1
          <5> QED BY <4>2, <5>2, <5>3, <5>4
        <4> QED BY <1>2, <2>4, <4>1, <4>2
      <3> QED BY <1>1, <1>9, <2>2, <2>3, <2>4, <3>1 DEF Shape, ShapeCommand, ShapeParameter, ShapeF7, Begun
    <2>5. CASE send_ack
      <3>1. sent' = sent /\ Gone = 1 BY <1>2, <2>5
      <3>2. mctrl_state' = "MCTRL_FIN"
        BY <1>1, <1>9, <2>5 DEF Follows
      <3>3. Framed(sent') BY <1>3, <2>1, <3>1 DEF Framed
      <3> QED BY <1>9, <3>2, <3>3 DEF Shape, ShapeCommand, ShapeParameter, ShapeF7
    <2> QED BY <2>4, <2>5
  <1> QED BY <1>1, <1>5, <1>6, <1>7, <1>8, <1>9 DEF Sending

LEMMA SendWhole ==
    ASSUME Typed, Whole, NEW sfttx \in BOOLEAN, Send, Sender(sfttx), Bus, Disturbed
    PROVE  Whole'
  <1>1. /\ mctrl_state \in Sending \cup Silencing /\ sendword' = Word[mctrl_state]
        /\ send_req' = ~send_ack /\ anoff_ack' = anoff_ack /\ channel' = channel
        /\ mctrl_state' = IF send_ack THEN Follows[mctrl_state] ELSE mctrl_state
        /\ exmes_ack' = (exmes_ack \/ (send_ack /\ mctrl_state = "MCTRL_SEND_F7"))
    BY StatesAre DEF Send
  <1>2. Active /\ mctrl_state # "MCTRL_FIN"
    BY <1>1 DEF Active, Sending, Silencing
  <1>3. \/ send_req /\ ~send_ack /\ Gone = 0 /\ Gone' = 1 /\ sent' = Append(sent, sendword)
        \/ sent' = sent /\ ~send_ack /\ Gone' = Gone
        \/ sent' = sent /\ send_ack /\ Gone = 1 /\ Gone' = 0
    BY <1>2, SenderDoes DEF Typed
  <1>4. ~exmes_ack /\ ~anoff_ack
    BY <1>2 DEF Whole, Acknowledged
  <1>5. /\ Shape'
        /\ mctrl_state' = "MCTRL_FIN" => mctrl_state = "MCTRL_SEND_F7" /\ Framed(sent')
    BY SendShape
  <1>6. Gone \in {0, 1} BY DEF Gone
  <1>7. CASE mctrl_state \in Sending
    <2>0. /\ mctrl_state' \in Sending \cup {"MCTRL_FIN"} /\ mctrl_state' \notin Silencing \cup Waits
          /\ mctrl_state' \in {"MCTRL_SEND_F0", "MCTRL_SEND_7D"}
                => mctrl_state \in {"MCTRL_SEND_F0", "MCTRL_SEND_7D"}
      BY <1>1, <1>7 DEF Follows, AfterCommand, Sending, Silencing, Waits
    <2>1. mctrl_state' \in {"MCTRL_SEND_F0", "MCTRL_SEND_7D"} => ~disturbed'
      BY <2>0 DEF Disturbed, Late
    \* a message that no write has disturbed
    <2>2. ASSUME ~disturbed'
          PROVE  /\ mctrl_state' \in Sending =>
                      /\ sent' = IF Gone' = 1 THEN Append(Said'[mctrl_state'], Word'[mctrl_state'])
                                 ELSE Said'[mctrl_state']
                      /\ send_req' => sendword' = Word'[mctrl_state']
                      /\ mctrl_state' = "MCTRL_SEND_PARAMETER" => command' # 0
                 /\ mctrl_state' = "MCTRL_FIN" => sent' = Message'
      <3>1. /\ ~disturbed
            /\ Said'[mctrl_state'] = Said[mctrl_state']
            /\ ~send_ack => Word'[mctrl_state] = Word[mctrl_state]
            /\ mctrl_state' = "MCTRL_FIN" => Message' = Message
            /\ mctrl_state' = "MCTRL_SEND_PARAMETER" => command' # 0
        BY <1>7, <2>2, KeptWords
      <3>2. /\ sent = IF Gone = 1 THEN Append(Said[mctrl_state], Word[mctrl_state])
                      ELSE Said[mctrl_state]
            /\ send_req => sendword = Word[mctrl_state]
            /\ mctrl_state = "MCTRL_SEND_PARAMETER" => command # 0
        BY <1>7, <3>1 DEF Whole, Spoken
      <3>3. CASE ~send_ack
        <4>1. mctrl_state' = mctrl_state /\ sendword' = Word'[mctrl_state']
          BY <1>1, <3>1, <3>3
        <4>2. CASE sent' = sent /\ Gone' = Gone
          BY <1>2, <3>1, <3>2, <3>3, <4>1, <4>2
        <4>3. CASE send_req /\ Gone = 0 /\ Gone' = 1 /\ sent' = Append(sent, sendword)
          BY <1>2, <3>1, <3>2, <3>3, <4>1, <4>3
        <4> QED BY <1>3, <3>3, <4>2, <4>3
      <3>4. CASE send_ack
        <4>1. sent' = Append(Said[mctrl_state], Word[mctrl_state]) /\ ~send_req' /\ Gone' = 0
              /\ mctrl_state' = Follows[mctrl_state]
          BY <1>1, <1>3, <3>2, <3>4
        <4>2. CASE mctrl_state = "MCTRL_SEND_F7"
          <5>1. mctrl_state' = "MCTRL_FIN" BY <4>1, <4>2 DEF Follows
          <5>2. sent' = Message' BY <3>1, <4>1, <4>2, <5>1, Spelled DEF Typed
          <5> QED BY <5>1, <5>2 DEF Sending
        <4>3. CASE mctrl_state # "MCTRL_SEND_F7"
          <5>1. mctrl_state' \in Sending /\ sent' = Said[mctrl_state']
            <6>1. CASE mctrl_state \in {"MCTRL_SEND_F0", "MCTRL_SEND_7D"}
              BY <4>1, <6>1, Spelled DEF Follows, Sending, Typed
            <6>2. CASE mctrl_state = "MCTRL_SEND_COMMAND"
              <7>1. mctrl_state' = AfterCommand /\ AfterCommand \in Sending
                BY <4>1, <6>2 DEF Follows, AfterCommand, Sending
              <7> QED BY <4>1, <6>2, <7>1, Spelled DEF Typed
            <6>3. CASE mctrl_state = "MCTRL_SEND_PARAMETER"
              <7>1. mctrl_state' = "MCTRL_SEND_F7" BY <4>1, <6>3 DEF Follows
              <7> QED BY <3>2, <4>1, <6>3, <7>1, Spelled DEF Typed, Sending
            <6> QED BY <1>7, <4>3, <6>1, <6>2, <6>3 DEF Sending
          <5> QED BY <3>1, <4>1, <5>1 DEF Sending
        <4> QED BY <4>2, <4>3
      <3> QED BY <3>3, <3>4
    <2>3. Spoken' BY <2>0, <2>1, <2>2 DEF Spoken
    <2>4. Acknowledged'
      <3>1. exmes_ack' => mctrl_state' = "MCTRL_FIN"
        <4>1. ASSUME exmes_ack' PROVE send_ack /\ mctrl_state = "MCTRL_SEND_F7"
          BY <1>1, <1>4, <4>1, Zenon
        <4> QED BY <1>1, <4>1 DEF Follows
      <3> QED BY <1>1, <1>4, <1>5, <2>2, <3>1 DEF Acknowledged
    <2> QED BY <1>5, <2>3, <2>4 DEF Whole
  <1>8. CASE mctrl_state \in Silencing
    <2>1. /\ sent = Upto(Count[mctrl_state] + Gone) /\ (send_req => sendword = Word[mctrl_state])
      BY <1>8 DEF Whole, Spoken
    <2>2. /\ Word'[mctrl_state] = Word[mctrl_state] /\ \A st : Count'[st] = Count[st]
          /\ Count[mctrl_state] \in Nat /\ mctrl_state # "MCTRL_SEND_F7"
      BY <1>1, <1>8, Numbers DEF Word, Count, Silencing, Typed, Control
    <2>3. mctrl_state' \in Silencing \cup Waits /\ mctrl_state' \notin Sending
      BY <1>1, <1>8 DEF Follows, Sending, Silencing, Waits
    <2>4. sent' = Upto(Count[mctrl_state] + Gone)'
      <3>1. CASE sent' = sent /\ ~send_ack /\ Gone' = Gone
        BY <1>1, <2>1, <2>2, <3>1 DEF Upto
      <3>2. CASE send_req /\ ~send_ack /\ Gone = 0 /\ Gone' = 1 /\ sent' = Append(sent, sendword)
        <4>1. Count[mctrl_state]' + Gone' = Count[mctrl_state] + 1
              /\ Count[mctrl_state] + Gone = Count[mctrl_state]
          BY <1>1, <2>2, <3>2
        <4>2. sent' = Upto(Count[mctrl_state] + 1)
          BY <1>8, <2>1, <3>2, <4>1, NextByte
        <4> QED BY <4>1, <4>2 DEF Upto
      <3>3. CASE sent' = sent /\ send_ack /\ Gone = 1 /\ Gone' = 0
        <4>1. Count[mctrl_state'] = Count[mctrl_state] + 1
          BY <1>1, <1>8, <3>3, Numbers DEF Follows, Count, Silencing, Typed, Control
        <4>2. Count[mctrl_state]' + Gone' = Count[mctrl_state] + Gone
          BY <2>2, <3>3, <4>1
        <4> QED BY <2>1, <3>3, <4>2 DEF Upto
      <3> QED BY <1>3, <3>1, <3>2, <3>3
    <2>5. send_req' /\ mctrl_state' \in Silencing => sendword' = Word'[mctrl_state']
      BY <1>1, <2>2
    <2>6. Spoken' BY <2>3, <2>4, <2>5 DEF Spoken, Silencing, Waits
    <2>7. Acknowledged' BY <1>1, <1>4, <2>2 DEF Acknowledged
    <2> QED BY <1>5, <2>6, <2>7 DEF Whole
  <1> QED BY <1>1, <1>7, <1>8

LEMMA PauseWhole ==
    ASSUME Typed, Whole, NEW sfttx \in BOOLEAN, Pause(sfttx), Sender(sfttx)
    PROVE  Whole'
  <1>1. mctrl_state \in Waits /\ Active /\ ~send_req /\ mctrl_state # "MCTRL_FIN"
    BY DEF Pause, Typed, Pace, Waits, Active, Sending, Silencing
  <1>4. Gone = 0 /\ Gone' = 0 /\ sent' = sent
    BY <1>1, SenderDoes DEF Typed
  <1>5. ~exmes_ack /\ ~anoff_ack /\ sent = Upto(Count[mctrl_state] + Gone)
    BY <1>1 DEF Whole, Acknowledged, Spoken
  <1>6. channel \in Channels /\ 6 * channel \in Nat /\ channel \in Nat
    BY Numbers DEF Typed, Control
  <1>7. exmes_ack' = exmes_ack /\ ~send_req'
    BY <1>1 DEF Pause
  <1>0. Shape'
    <2>1. mctrl_state' \in Waits \cup {"MCTRL_ASOFF_SEND_Bn", "MCTRL_ANOFF_SEND_Bn", "MCTRL_FIN"}
      BY <1>1 DEF Pause
    <2> QED BY <2>1 DEF Shape, ShapeCommand, ShapeParameter, ShapeF7, Waits
  <1>8. CASE wait_counter > 0
    <2>1. mctrl_state' = mctrl_state /\ anoff_ack' = anoff_ack /\ channel' = channel
      BY <1>8 DEF Pause
    <2>2. Count'[mctrl_state'] = Count[mctrl_state] BY <2>1 DEF Count
    <2>3. sent' = Upto(Count[mctrl_state] + Gone)'
      BY <1>4, <1>5, <2>2 DEF Upto
    <2>4. Spoken' BY <1>1, <1>7, <2>1, <2>3 DEF Spoken, Sending, Waits
    <2>5. Acknowledged' BY <1>5, <1>7, <2>1 DEF Acknowledged
    <2> QED BY <1>0, <2>4, <2>5 DEF Whole
  <1>9. CASE ~(wait_counter > 0) /\ mctrl_state = "MCTRL_ANOFF_WAIT"
    <2>1. mctrl_state' = "MCTRL_ASOFF_SEND_Bn" /\ anoff_ack' = anoff_ack /\ channel' = channel
      BY <1>9 DEF Pause
    <2>2. Count'[mctrl_state'] = Count[mctrl_state] BY <1>9, <2>1 DEF Count
    <2>3. sent' = Upto(Count[mctrl_state] + Gone)'
      BY <1>4, <1>5, <2>2 DEF Upto
    <2>4. Spoken' BY <1>1, <1>7, <2>1, <2>3 DEF Spoken, Sending
    <2>5. Acknowledged' BY <1>5, <1>7, <2>1 DEF Acknowledged
    <2> QED BY <1>0, <2>4, <2>5 DEF Whole
  <1>10. CASE ~(wait_counter > 0) /\ mctrl_state = "MCTRL_ASOFF_WAIT"
    <2>1. Count[mctrl_state] = 6 * channel + 6 BY <1>10 DEF Count
    <2>2. /\ mctrl_state' = IF AtLast THEN "MCTRL_FIN" ELSE "MCTRL_ANOFF_SEND_Bn"
          /\ channel' = IF AtLast THEN channel ELSE channel + 1
          /\ anoff_ack' = (anoff_ack \/ AtLast)
      BY <1>10 DEF Pause
    <2>3. CASE AtLast
      <3>1. sent = Silence
        <4>1. Count[mctrl_state] + Gone = All
          BY <1>4, <1>6, <2>1, <2>3, Numbers DEF AtLast, All
        <4> QED BY <1>5, <4>1, UptoEnds
      <3>2. sent' = Silence' BY <1>4, <3>1 DEF Silence
      <3>3. mctrl_state' = "MCTRL_FIN" BY <2>2, <2>3
      <3>4. Spoken' BY <1>1, <1>7, <3>3 DEF Spoken, Sending, Silencing, Waits
      <3>5. Acknowledged' BY <1>5, <1>7, <3>2, <3>3 DEF Acknowledged
      <3> QED BY <1>0, <3>4, <3>5 DEF Whole
    <2>4. CASE ~AtLast
      <3>1. mctrl_state' = "MCTRL_ANOFF_SEND_Bn" /\ channel' = channel + 1 /\ ~anoff_ack'
        BY <1>5, <2>2, <2>4
      <3>2. Count'[mctrl_state'] = 6 * (channel + 1) BY <3>1 DEF Count
      <3>3. Count[mctrl_state]' + Gone' = Count[mctrl_state] + Gone
        BY <1>4, <1>6, <2>1, <3>2
      <3>4. sent' = Upto(Count[mctrl_state] + Gone)'
        BY <1>4, <1>5, <3>3 DEF Upto
      <3>5. Spoken' BY <1>1, <1>7, <3>1, <3>4 DEF Spoken, Sending
      <3>6. Acknowledged' BY <1>5, <1>7, <3>1 DEF Acknowledged
      <3> QED BY <1>0, <3>5, <3>6 DEF Whole
    <2> QED BY <2>3, <2>4
  <1> QED BY <1>1, <1>8, <1>9, <1>10 DEF Waits

LEMMA FinWhole ==
    ASSUME Typed, Whole, NEW sfttx \in BOOLEAN, Fin, Sender(sfttx), Bus, Disturbed
    PROVE  Whole'
  <1>1. mctrl_state = "MCTRL_FIN" /\ Active /\ ~send_req
    BY DEF Fin, Typed, Pace, Active, Sending, Silencing
  <1>4. sent' = sent
    BY <1>1, SenderDoes DEF Typed
  <1>5. /\ exmes_ack' = (exmes_ack /\ exmes_req) /\ anoff_ack' = (anoff_ack /\ anoff_req)
        /\ mctrl_state' = IF <<exmes_ack', anoff_ack'>> # <<exmes_ack, anoff_ack>>
                          THEN "MCTRL_IDLE" ELSE mctrl_state
        /\ send_req' = send_req
    BY DEF Fin
  <1>6. Silence' = Silence BY DEF Silence
  <1>2. disturbed' \/ (~disturbed /\ Message' = Message)
    <2>1. ASSUME ~disturbed' PROVE ~disturbed /\ ~Taken
      BY <1>1, <2>1 DEF Disturbed, Late
    <2>2. ~Taken => Message' = Message
      BY Unwritten DEF Message
    <2> QED BY <2>1, <2>2
  <1>7. mctrl_state' \in {"MCTRL_FIN", "MCTRL_IDLE"} BY <1>1, <1>5
  <1>8. Spoken' BY <1>1, <1>5, <1>7 DEF Spoken, Sending, Silencing, Waits
  <1>3. Shape' BY <1>7 DEF Shape, ShapeCommand, ShapeParameter, ShapeF7
  <1>9. exmes_ack => ~anoff_ack BY DEF Whole, Acknowledged
  <1>10. exmes_ack \in BOOLEAN /\ anoff_ack \in BOOLEAN BY DEF Typed, Control
  <1>11. ASSUME exmes_ack'
         PROVE  /\ mctrl_state' = "MCTRL_FIN" /\ ~anoff_ack'
                /\ Framed(sent') /\ (disturbed' \/ sent' = Message')
    <2>1. exmes_ack = TRUE /\ exmes_ack' = TRUE /\ anoff_ack = FALSE /\ anoff_ack' = FALSE
      BY <1>5, <1>9, <1>10, <1>11
    <2>2. Framed(sent) /\ (disturbed \/ sent = Message)
      BY <2>1 DEF Whole, Acknowledged
    <2> QED BY <1>1, <1>2, <1>4, <1>5, <2>1, <2>2
  <1>12. ASSUME anoff_ack' PROVE mctrl_state' = "MCTRL_FIN" /\ sent' = Silence'
    <2>1. anoff_ack = TRUE /\ anoff_ack' = TRUE /\ exmes_ack = FALSE /\ exmes_ack' = FALSE
      BY <1>5, <1>9, <1>10, <1>12
    <2>2. sent = Silence BY <2>1 DEF Whole, Acknowledged
    <2> QED BY <1>1, <1>4, <1>5, <1>6, <2>1, <2>2
  <1>13. Acknowledged' BY <1>11, <1>12 DEF Acknowledged
  <1> QED BY <1>3, <1>8, <1>13 DEF Whole

\* A control message is acknowledged with its frame whole, and with the command and the
\* parameter of one write unless one was taken from the command's turn on; when all notes
\* off is acknowledged, every channel has been silenced. The host may write REG10 at any
\* edge (midi_ctrl.vhd, MCTRL_SEND_F0 to MCTRL_ASOFF_WAIT).
THEOREM WholeMessages == Spec => []MessagesWhole
  <1>1. Init => Whole
    BY DEF Init, Whole, Spoken, Shape, ShapeCommand, ShapeParameter, ShapeF7, Acknowledged,
       Sending, Silencing, Waits
  <1>2. Typed /\ Whole /\ [Next]_vars => Whole'
    <2> SUFFICES ASSUME Typed, Whole, [Next]_vars PROVE Whole' OBVIOUS
    <2>1. CASE \E sfttx, feed, tick \in BOOLEAN : Edge(sfttx, feed, tick)
      <3>1. PICK sfttx \in BOOLEAN, feed \in BOOLEAN, tick \in BOOLEAN : Edge(sfttx, feed, tick)
        BY <2>1
      <3> QED BY <3>1, IdleWhole, SendWhole, PauseWhole, FinWhole DEF Edge
    <2>2. CASE Reset
      BY <2>2 DEF Reset, Whole, Spoken, Shape, ShapeCommand, ShapeParameter, ShapeF7, Acknowledged,
         Sending, Silencing, Waits
    <2>3. CASE UNCHANGED vars
      <3>1. /\ mctrl_state' = mctrl_state /\ sent' = sent /\ sendword' = sendword
            /\ send_req' = send_req /\ exmes_ack' = exmes_ack /\ anoff_ack' = anoff_ack
            /\ command' = command /\ disturbed' = disturbed
            /\ param' = param /\ channel' = channel /\ send_ack' = send_ack
            /\ bit_counter' = bit_counter
        BY <2>3 DEF vars, hostVars, busVars, mctrlVars, senderVars
      <3>2. /\ Said'[mctrl_state'] = Said[mctrl_state] /\ Word'[mctrl_state'] = Word[mctrl_state]
            /\ Count'[mctrl_state'] = Count[mctrl_state] /\ Gone' = Gone
            /\ Silence' = Silence /\ Message' = Message
        BY <3>1, SameMessage DEF Gone, Silence
      <3>3. Upto(Count[mctrl_state] + Gone)' = Upto(Count[mctrl_state] + Gone)
        BY <3>2 DEF Upto
      <3>4. Spoken' BY <3>1, <3>2, <3>3 DEF Whole, Spoken
      <3>5. Shape' BY <3>1, <3>2 DEF Whole, Shape, ShapeCommand, ShapeParameter, ShapeF7
      <3> QED BY <3>1, <3>2, <3>4, <3>5 DEF Whole, Acknowledged
    <2> QED BY <2>1, <2>2, <2>3 DEF Next
  <1>3. Whole => MessagesWhole
    BY DEF Whole, Acknowledged, MessagesWhole
  <1> QED BY <1>1, <1>2, <1>3, TypedAlways, PTL DEF Spec
=============================================================================
