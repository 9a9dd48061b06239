------------------------------- MODULE Adpcm -------------------------------
(***************************************************************************)
(* The copy of the ADPCM chip (RTL/adpcm/e6258.vhd).  It listens to the     *)
(* CPU's writes on sys_clk, hands each over to snd_clk with a request that  *)
(* changes its level, and keeps the nibbles in a ring until the player's    *)
(* divider asks for one.                                                    *)
(*                                                                          *)
(* A step is an edge of sys_clk; in some of them snd_clk has its edge too,  *)
(* and then either level of a register that changes may be sampled.  Left   *)
(* out: drq, which is open, the lamps of the overlay, and the divider,      *)
(* which may come to its end at any edge but the one of a read.             *)
(***************************************************************************)
EXTENDS Integers, Sequences

CONSTANTS
    Nibbles,   \* the values of four bits
    Size,      \* fifosize, the length of nxtbuf
    Periods,   \* the edges of sys_clk from one edge of snd_clk to the next
    Gap        \* the least number of edges from a cycle's end to the next request

ASSUME SizeAssumption == Size \in Nat /\ Size >= 4
ASSUME PeriodsAssumption ==
    Periods \subseteq Nat \ {0} /\ \E p \in Periods : \A q \in Periods : q <= p
ASSUME GapAssumption == Gap \in Nat
ASSUME NibblesAssumption == Nibbles # {}

Longest  == CHOOSE p \in Periods : \A q \in Periods : q <= p
Zero     == CHOOSE n \in Nibbles : TRUE
Commands == {"start", "record", "stop"}
Writes   == [command : Commands] \cup [lo : Nibbles, hi : Nibbles]
IsData(b) == "lo" \in DOMAIN b

VARIABLES
    req, wait,                 \* adpcm_req; the edges until it may rise again
    state, ack, idatabuf,      \* the handshake; the byte with its address
    datwr_req,                 \* changes with every write
    until,                     \* edges of sys_clk to the next one of snd_clk
    datwr_req_d, datwr_ack,    \* the request as snd_clk has seen and answered it
    playen, recen,
    nxtbuf, nxtbuf_r, nxtbuf_w,
    datuse, out                \* a nibble is being read; which (playdat, while playwr)
bus   == <<req, wait>>
sys   == <<state, ack, idatabuf, datwr_req>>
snd   == <<datwr_req_d, datwr_ack, playen, recen, nxtbuf, nxtbuf_r, nxtbuf_w, datuse, out>>
vars  == <<bus, sys, until, snd>>

-----------------------------------------------------------------------------
(* sys_clk                                                                  *)

\* BS_S_DBIN and BS_S_FIN_WAIT: a four-phase request; the CPU's next cycle comes later.
HostBegins == req = 0 /\ wait = 0 /\ req' = 1 /\ UNCHANGED wait
HostEnds   == req = 1 /\ ack = 1 /\ req' = 0 /\ wait' = Gap
HostWaits  == /\ ~(req = 1 /\ ack = 1) /\ UNCHANGED req
              /\ wait' = IF req = 0 /\ wait > 0 THEN wait - 1 ELSE wait
Host == HostBegins \/ HostEnds \/ HostWaits

\* Mutant of Latch: the request is a pulse as long as the handshake.
Pulses ==
    /\ state = "IDLE" /\ ack' = 0
    /\ IF req = 1
       THEN state' = "WR_REQ" /\ idatabuf' \in Writes /\ datwr_req' = 1
       ELSE datwr_req' = 0 /\ UNCHANGED <<state, idatabuf>>

Latch ==
    /\ state = "IDLE" /\ ack' = 0
    /\ IF req = 1
       THEN state' = "WR_REQ" /\ idatabuf' \in Writes /\ datwr_req' = 1 - datwr_req
       ELSE UNCHANGED <<state, idatabuf, datwr_req>>

Answer ==
    /\ state # "IDLE"
    /\ state' = IF state = "WR_REQ" THEN "WR_WAIT"
                ELSE IF state = "WR_ACK" /\ req = 0 THEN "IDLE" ELSE "WR_ACK"
    /\ ack' = IF state = "WR_WAIT" \/ (state = "WR_ACK" /\ req = 1) THEN 1 ELSE 0
    /\ UNCHANGED <<idatabuf, datwr_req>>

SysEdge == Host /\ (Latch \/ Answer)

-----------------------------------------------------------------------------
(* snd_clk                                                                  *)

Up(p, n) == (p + n) % Size
bufcount == (nxtbuf_w - nxtbuf_r) % Size

Arrived == datwr_req_d # datwr_ack

\* A command; start goes before record, and record before stop.
Command ==
    /\ playen' = (idatabuf.command = "start" \/ (playen /\ idatabuf.command # "stop"))
    /\ recen'  = (idatabuf.command = "record" \/ (recen /\ idatabuf.command # "stop"))
    /\ UNCHANGED <<nxtbuf, nxtbuf_w>>

\* Mutant of Data: the write address runs on behind the ring.
RunsOn ==
    /\ nxtbuf' = [nxtbuf EXCEPT ![nxtbuf_w] = idatabuf.lo, ![Up(nxtbuf_w, 1)] = idatabuf.hi]
    /\ nxtbuf_w' = nxtbuf_w + 2 /\ UNCHANGED <<playen, recen>>

\* Two nibbles; bufcount is short of a bit, so that a ring filled to the last place
\* counts as empty.
Data ==
    /\ IF bufcount <= Size - 2
       THEN /\ nxtbuf' = [nxtbuf EXCEPT ![nxtbuf_w] = idatabuf.lo, ![Up(nxtbuf_w, 1)] = idatabuf.hi]
            /\ nxtbuf_w' = Up(nxtbuf_w, 2)
       ELSE /\ nxtbuf' = [nxtbuf EXCEPT ![Up(nxtbuf_w, Size - 1)] = idatabuf.lo,
                                        ![nxtbuf_w] = idatabuf.hi]
            /\ UNCHANGED nxtbuf_w
    /\ UNCHANGED <<playen, recen>>

TakeWrite ==
    /\ datwr_ack' = datwr_req_d
    /\ IF ~Arrived THEN UNCHANGED <<playen, recen, nxtbuf, nxtbuf_w>>
       ELSE IF IsData(idatabuf) THEN Data ELSE Command

\* The read address follows the read by an edge.
Play(due) ==
    /\ datuse' = (due /\ bufcount > 0)
    /\ out' = IF due /\ bufcount > 0 THEN <<nxtbuf[nxtbuf_r]>> ELSE <<>>
    /\ nxtbuf_r' = IF datuse /\ bufcount > 0 THEN Up(nxtbuf_r, 1) ELSE nxtbuf_r

SndEdge ==
    /\ datwr_req_d' \in {datwr_req, datwr_req'}
    /\ TakeWrite
    /\ \E due \in BOOLEAN : (due => playen /\ ~datuse) /\ Play(due)

-----------------------------------------------------------------------------
Init ==
    /\ req = 0 /\ wait = 0 /\ state = "IDLE" /\ ack = 0 /\ idatabuf = [command |-> "stop"]
    /\ datwr_req = 0 /\ until \in Periods
    /\ datwr_req_d = 0 /\ datwr_ack = 0 /\ playen = FALSE /\ recen = FALSE
    /\ nxtbuf = [i \in 0 .. Size - 1 |-> Zero] /\ nxtbuf_r = 0 /\ nxtbuf_w = 0
    /\ datuse = FALSE /\ out = <<>>

\* The clocks: an edge of sys_clk alone, or of both.
SysOnly == until > 1 /\ until' = until - 1 /\ SysEdge /\ UNCHANGED snd
Both    == until = 1 /\ until' \in Periods /\ SysEdge /\ SndEdge

\* sys_rstn clears everything but the state of the handshake, and the bus with it.
Reset ==
    /\ req' = 0 /\ wait' = Gap /\ ack' = 0 /\ idatabuf' = [command |-> "stop"] /\ datwr_req' = 0
    /\ datwr_req_d' = 0 /\ datwr_ack' = 0 /\ playen' = FALSE /\ recen' = FALSE
    /\ nxtbuf' = [i \in 0 .. Size - 1 |-> Zero] /\ nxtbuf_r' = 0 /\ nxtbuf_w' = 0
    /\ datuse' = FALSE /\ out' = <<>>
    /\ UNCHANGED <<state, until>>

Next == SysOnly \/ Both \/ Reset
Spec == Init /\ [][Next]_vars

-----------------------------------------------------------------------------
\* The types of the registers, with what the handover relies on: a byte is answered by
\* snd_clk before the CPU can write the next one.
TypeOK ==
    /\ req \in {0, 1} /\ wait \in 0 .. Gap /\ ack \in {0, 1}
    /\ state \in {"IDLE", "WR_REQ", "WR_WAIT", "WR_ACK"} /\ idatabuf \in Writes
    /\ datwr_req \in {0, 1} /\ datwr_req_d \in {0, 1} /\ datwr_ack \in {0, 1}
    /\ req = 1 /\ state = "IDLE" => datwr_ack = datwr_req
    /\ until \in 1 .. Longest
    /\ playen \in BOOLEAN /\ recen \in BOOLEAN /\ datuse \in BOOLEAN
    /\ nxtbuf \in [0 .. Size - 1 -> Nibbles]
    /\ nxtbuf_r \in 0 .. Size - 1 /\ nxtbuf_w \in 0 .. Size - 1
    /\ out \in {<<>>} \cup {<<n>> : n \in Nibbles}

\* The nibbles that wait: in the ring, without the one being read, and on their way.
Ring == [i \in 1 .. bufcount |-> nxtbuf[Up(nxtbuf_r, i - 1)]]
InRing  == IF datuse /\ Ring # <<>> THEN Tail(Ring) ELSE Ring
OnItsWay == IF datwr_req # datwr_ack /\ IsData(idatabuf) THEN <<idatabuf.lo, idatabuf.hi>> ELSE <<>>

Queue == INSTANCE NibbleQueue WITH Room <- Size, waiting <- InRing \o OnItsWay

\* Every nibble the CPU writes is played once and in order, through both clocks, as
\* long as fewer than four wait; then a late byte takes others with it (the comment in
\* the code, "the last two data are overwritten", tells of the odd case only).
NibblesInOrder == Queue!QSpec
=============================================================================
