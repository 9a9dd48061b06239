---------------------------- MODULE AdpcmProofs ----------------------------
(***************************************************************************)
(* That no byte is lost or taken twice between the two clocks of Adpcm, and *)
(* that its ring implements NibbleQueue, for any nibbles, length of the     *)
(* ring and ratio of the clocks.                                            *)
(***************************************************************************)
EXTENDS Adpcm, SequenceTheorems, TLAPS

\* The CPU takes longer from a cycle to the next than snd_clk needs for two edges.
SlowCpu == Gap >= 2 * Longest

Unanswered == datwr_req # datwr_ack

\* The edges of sys_clk until snd_clk has answered.
Left == until + (IF datwr_req_d # datwr_req THEN Longest ELSE 0)

\* A byte on its way is answered before the CPU's next request, however the edges fall.
Handover ==
    /\ ack = 1 => state = "WR_ACK"
    /\ ~Unanswered => datwr_req_d = datwr_req
    /\ Unanswered => /\ state # "IDLE" \/ req = 0
                     /\ req = 0 => Gap - wait + Left <= 2 * Longest

Types ==
    /\ req \in {0, 1} /\ wait \in 0 .. Gap /\ ack \in {0, 1}
    /\ state \in {"IDLE", "WR_REQ", "WR_WAIT", "WR_ACK"} /\ idatabuf \in Writes
    /\ datwr_req \in {0, 1} /\ datwr_req_d \in {0, 1} /\ datwr_ack \in {0, 1}
    /\ until \in 1 .. Longest
    /\ playen \in BOOLEAN /\ recen \in BOOLEAN /\ datuse \in BOOLEAN
    /\ nxtbuf \in [0 .. Size - 1 -> Nibbles]
    /\ nxtbuf_r \in 0 .. Size - 1 /\ nxtbuf_w \in 0 .. Size - 1
    /\ out \in {<<>>} \cup {<<n>> : n \in Nibbles}

-----------------------------------------------------------------------------
LEMMA LongestType == Longest \in Nat \ {0} /\ \A p \in Periods : p \in 1 .. Longest
<1>1. \E p \in Periods : \A q \in Periods : q <= p
  BY PeriodsAssumption
<1>2. Longest \in Periods /\ \A q \in Periods : q <= Longest
  BY <1>1 DEF Longest
<1> QED BY <1>2, PeriodsAssumption

LEMMA ZeroType == Zero \in Nibbles
  BY NibblesAssumption DEF Zero

\* The addresses of the ring without a remainder.
LEMMA Addresses ==
    ASSUME NEW p \in 0 .. Size - 1, NEW n \in 0 .. Size
    PROVE  Up(p, n) = (IF p + n < Size THEN p + n ELSE p + n - Size)
<1>1. CASE p + n < Size BY <1>1, SizeAssumption DEF Up
<1>2. CASE p + n >= Size
  <2>1. p + n = 1 * Size + (p + n - Size) /\ p + n - Size \in 0 .. Size - 1
    BY <1>2, SizeAssumption
  <2> QED BY <2>1, <1>2, SizeAssumption, SMTT(30) DEF Up
<1> QED BY <1>1, <1>2, SizeAssumption

LEMMA Counts ==
    ASSUME Types
    PROVE  bufcount = (IF nxtbuf_w >= nxtbuf_r THEN nxtbuf_w - nxtbuf_r
                                               ELSE nxtbuf_w - nxtbuf_r + Size)
<1>1. nxtbuf_r \in 0 .. Size - 1 /\ nxtbuf_w \in 0 .. Size - 1 /\ Size \in Nat
  BY SizeAssumption DEF Types
<1>2. CASE nxtbuf_w >= nxtbuf_r BY <1>1, <1>2, SizeAssumption DEF bufcount
<1>3. CASE nxtbuf_w < nxtbuf_r BY <1>1, <1>3, SizeAssumption, SMTT(30) DEF bufcount
<1> QED BY <1>1, <1>2, <1>3

LEMMA CountsNext ==
    ASSUME Types'
    PROVE  bufcount' = (IF nxtbuf_w' >= nxtbuf_r' THEN nxtbuf_w' - nxtbuf_r'
                                                  ELSE nxtbuf_w' - nxtbuf_r' + Size)
<1>1. nxtbuf_r' \in 0 .. Size - 1 /\ nxtbuf_w' \in 0 .. Size - 1 /\ Size \in Nat
  BY SizeAssumption DEF Types
<1>2. CASE nxtbuf_w' >= nxtbuf_r' BY <1>1, <1>2, SizeAssumption DEF bufcount
<1>3. CASE nxtbuf_w' < nxtbuf_r' BY <1>1, <1>3, SizeAssumption, SMTT(30) DEF bufcount
<1> QED BY <1>1, <1>2, <1>3

LEMMA BytesOfWrites ==
    /\ [command |-> "stop"] \in Writes
    /\ \A b \in Writes : IsData(b) => b.lo \in Nibbles /\ b.hi \in Nibbles
BY DEF Writes, IsData, Commands

-----------------------------------------------------------------------------
(* The types and the handover.                                              *)

LEMMA InitTypes == Init => Types /\ Handover
<1> SUFFICES ASSUME Init PROVE Types /\ Handover
  OBVIOUS
<1>1. Types
  <2>1. until \in 1 .. Longest BY LongestType DEF Init
  <2>2. nxtbuf \in [0 .. Size - 1 -> Nibbles] BY ZeroType DEF Init
  <2>3. idatabuf \in Writes BY BytesOfWrites DEF Init
  <2>4. wait \in 0 .. Gap BY GapAssumption DEF Init
  <2>5. nxtbuf_r \in 0 .. Size - 1 /\ nxtbuf_w \in 0 .. Size - 1
    BY SizeAssumption DEF Init
  <2> QED BY <2>1, <2>2, <2>3, <2>4, <2>5 DEF Init, Types
<1>2. Handover
  BY DEF Init, Handover, Unanswered
<1> QED BY <1>1, <1>2

\* What an edge of sys_clk does to its registers.
SysTypes ==
    /\ req \in {0, 1} /\ wait \in 0 .. Gap /\ ack \in {0, 1}
    /\ state \in {"IDLE", "WR_REQ", "WR_WAIT", "WR_ACK"} /\ idatabuf \in Writes
    /\ datwr_req \in {0, 1}
    /\ ack = 1 => state = "WR_ACK"

LEMMA SysStep == ASSUME SysTypes, SysEdge PROVE SysTypes'
<1>1. req' \in {0, 1} /\ wait' \in 0 .. Gap
  BY GapAssumption DEF SysTypes, SysEdge, Host, HostBegins, HostEnds, HostWaits
<1>2. CASE Latch
  BY <1>1, <1>2 DEF SysTypes, Latch
<1>3. CASE Answer
  BY <1>1, <1>3 DEF SysTypes, Answer
<1> QED BY <1>2, <1>3 DEF SysEdge

\* The player and the ring, whatever the byte.
SndTypes ==
    /\ playen \in BOOLEAN /\ recen \in BOOLEAN /\ datuse \in BOOLEAN
    /\ nxtbuf \in [0 .. Size - 1 -> Nibbles]
    /\ nxtbuf_r \in 0 .. Size - 1 /\ nxtbuf_w \in 0 .. Size - 1
    /\ out \in {<<>>} \cup {<<n>> : n \in Nibbles}

LEMMA SndStep == ASSUME Types, SndEdge PROVE SndTypes'
<1>1. \A p \in 0 .. Size - 1 : \A n \in {1, 2, Size - 1} : Up(p, n) \in 0 .. Size - 1
  <2> SUFFICES ASSUME NEW p \in 0 .. Size - 1, NEW n \in {1, 2, Size - 1}
               PROVE  Up(p, n) \in 0 .. Size - 1
    OBVIOUS
  <2>1. n \in 0 .. Size BY SizeAssumption
  <2>2. Up(p, n) = (IF p + n < Size THEN p + n ELSE p + n - Size)
    BY <2>1, Addresses, Zenon
  <2>3. p \in Nat /\ n \in Nat /\ p < Size /\ n <= Size /\ Size \in Nat
    BY <2>1, SizeAssumption
  <2> QED BY <2>2, <2>3
<1>2. nxtbuf_r' \in 0 .. Size - 1 /\ datuse' \in BOOLEAN /\ out' \in {<<>>} \cup {<<n>> : n \in Nibbles}
  BY <1>1 DEF Types, SndEdge, Play
<1>3. CASE ~Arrived
  BY <1>2, <1>3 DEF Types, SndTypes, SndEdge, TakeWrite
<1>4. CASE Arrived /\ IsData(idatabuf)
  <2>1. Data /\ idatabuf.lo \in Nibbles /\ idatabuf.hi \in Nibbles
    BY <1>4, BytesOfWrites DEF Types, SndEdge, TakeWrite
  <2>2. nxtbuf' \in [0 .. Size - 1 -> Nibbles] /\ nxtbuf_w' \in 0 .. Size - 1
    BY <2>1, <1>1 DEF Data, Types
  <2> QED BY <1>2, <2>1, <2>2 DEF Data, Types, SndTypes
<1>5. CASE Arrived /\ ~IsData(idatabuf)
  BY <1>2, <1>5 DEF Types, SndTypes, SndEdge, TakeWrite, Command
<1> QED BY <1>3, <1>4, <1>5

LEMMA TypesStay == ASSUME SlowCpu, Types, Handover, [Next]_vars PROVE Types' /\ Handover'
<1>0. SysTypes BY DEF SysTypes, Types, Handover
<1>a. Longest \in Nat \ {0} BY LongestType
<1>1. CASE SysOnly
  <2>1. SysTypes' BY <1>0, <1>1, SysStep DEF SysOnly
  <2>2. Types'
    BY <1>1, <1>a, <2>1 DEF SysOnly, SysTypes, Types, snd
  <2>3. Handover'
    <3>1. CASE Latch /\ req = 1
      BY <1>1, <2>1, <3>1 DEF SysOnly, SysEdge, snd, SysTypes, Types, Handover, Unanswered, Latch, Host, HostBegins, HostEnds, HostWaits
    <3>2. CASE ~(Latch /\ req = 1)
      <4>1. datwr_req' = datwr_req /\ UNCHANGED <<datwr_req_d, datwr_ack>> /\ (state # "IDLE" /\ req' = 1 => state' # "IDLE" \/ req = 0)
        BY <1>1, <3>2 DEF SysOnly, SysEdge, snd, Latch, Answer, Types, Host, HostBegins, HostEnds, HostWaits
      <4>2. ASSUME Unanswered PROVE req' = 1 => req = 1
        BY <4>2, <1>1, <1>a, GapAssumption DEF SysOnly, SysEdge, Host, HostBegins, HostEnds, HostWaits, Types, Handover, SlowCpu, Left
      <4>3. ASSUME Unanswered, req' = 0 PROVE Gap - wait' + Left' <= 2 * Longest
        BY <4>1, <4>3, <1>1, <1>a, GapAssumption DEF SysOnly, SysEdge, Host, HostBegins, HostEnds, HostWaits, Types, Handover, SlowCpu, Left
      <4> QED BY <2>1, <4>1, <4>2, <4>3 DEF Handover, Unanswered, SysTypes, Types
    <3> QED BY <3>1, <3>2
  <2> QED BY <2>2, <2>3
<1>2. CASE Both
  <2>1. SysTypes' BY <1>0, <1>2, SysStep DEF Both
  <2>2. SndTypes' BY <1>2, SndStep DEF Both
  <2>3. until' \in 1 .. Longest BY <1>2, LongestType DEF Both
  <2>4. datwr_req_d' \in {datwr_req, datwr_req'} /\ datwr_ack' = datwr_req_d
    BY <1>2 DEF Both, SndEdge, TakeWrite
  <2>5. Types'
    BY <2>1, <2>2, <2>3, <2>4 DEF Types, SysTypes, SndTypes
  <2>6. Handover'
    <3>1. CASE Latch /\ req = 1
      BY <1>2, <2>1, <2>4, <3>1 DEF Both, SysEdge, SysTypes, Types, Handover, Unanswered, Latch, Host, HostBegins, HostEnds, HostWaits
    <3>2. CASE ~(Latch /\ req = 1)
      <4>1. datwr_req' = datwr_req /\ (state # "IDLE" /\ req' = 1 => state' # "IDLE" \/ req = 0)
        BY <1>2, <3>2 DEF Both, SysEdge, Latch, Answer, Types, Host, HostBegins, HostEnds, HostWaits
      <4>2. ASSUME Unanswered PROVE req' = 1 => req = 1
        BY <4>2, <1>2, <1>a, GapAssumption DEF Both, SysEdge, Host, HostBegins, HostEnds, HostWaits, Types, Handover, SlowCpu, Left
      <4>3. Unanswered' => Unanswered /\ datwr_req_d # datwr_req
        BY <2>4, <4>1 DEF Unanswered, Handover
      <4>4. ASSUME Unanswered', req' = 0 PROVE Gap - wait' + Left' <= 2 * Longest
        BY <2>3, <2>4, <4>1, <4>3, <4>4, <1>2, <1>a, GapAssumption DEF Both, SysEdge, Host, HostBegins, HostEnds, HostWaits, Types, Handover, SlowCpu, Left
      <4> QED BY <2>1, <2>4, <4>1, <4>2, <4>3, <4>4 DEF Handover, Unanswered, SysTypes, Types
    <3> QED BY <3>1, <3>2
  <2> QED BY <2>5, <2>6
<1>3. CASE Reset
  BY <1>3, ZeroType, BytesOfWrites, SizeAssumption, GapAssumption DEF Reset, Types, Handover, Unanswered
<1>4. CASE UNCHANGED vars
  BY <1>4 DEF vars, bus, sys, snd, Types, Handover, Unanswered, Left
<1> QED BY <1>1, <1>2, <1>3, <1>4 DEF Next

\* The registers keep their types, and every byte is answered before the CPU can write
\* the next one (datwr_req, datwr_ack): for any lengths and clocks, if the CPU is slow
\* enough for two edges of snd_clk.
THEOREM Typing == ASSUME SlowCpu PROVE Spec => []TypeOK
<1>1. Types /\ Handover => TypeOK
  BY DEF Types, Handover, TypeOK, Unanswered
<1> QED BY <1>1, InitTypes, TypesStay, PTL DEF Spec
-----------------------------------------------------------------------------
(* The ring as a sequence.                                                  *)

At(b, r, n) == [i \in 1 .. n |-> b[Up(r, i - 1)]]

LEMMA UpType ==
    ASSUME NEW p \in 0 .. Size - 1, NEW n \in 0 .. Size
    PROVE  Up(p, n) \in 0 .. Size - 1
<1>1. Up(p, n) = (IF p + n < Size THEN p + n ELSE p + n - Size)
  BY Addresses
<1> QED BY <1>1, SizeAssumption

LEMMA AtType ==
    ASSUME NEW b \in [0 .. Size - 1 -> Nibbles], NEW r \in 0 .. Size - 1, NEW n \in 0 .. Size
    PROVE  /\ At(b, r, n) \in Seq(Nibbles) /\ Len(At(b, r, n)) = n
           /\ \A i \in 1 .. n : At(b, r, n)[i] = b[Up(r, i - 1)]
<1>1. \A i \in 1 .. n : i - 1 \in 0 .. Size /\ b[Up(r, i - 1)] \in Nibbles
  BY UpType, SizeAssumption
<1>2. At(b, r, n) \in [1 .. n -> Nibbles] /\ n \in Nat
  BY <1>1, SizeAssumption DEF At
<1> QED BY <1>2, SizeAssumption DEF At

\* A read.
LEMMA Popped ==
    ASSUME NEW b \in [0 .. Size - 1 -> Nibbles], NEW r \in 0 .. Size - 1, NEW n \in 1 .. Size
    PROVE  At(b, Up(r, 1), n - 1) = Tail(At(b, r, n))
<1>1. n \in 0 .. Size /\ n - 1 \in 0 .. Size /\ 1 \in 0 .. Size /\ Up(r, 1) \in 0 .. Size - 1
  BY UpType, SizeAssumption
<1>2. /\ At(b, r, n) \in Seq(Nibbles) /\ Len(At(b, r, n)) = n
      /\ At(b, Up(r, 1), n - 1) \in Seq(Nibbles) /\ Len(At(b, Up(r, 1), n - 1)) = n - 1
  BY <1>1, AtType
<1>3. /\ Tail(At(b, r, n)) \in Seq(Nibbles) /\ Len(Tail(At(b, r, n))) = n - 1
      /\ \A i \in 1 .. n - 1 : Tail(At(b, r, n))[i] = At(b, r, n)[i + 1]
  BY <1>2, HeadTailProperties, EmptySeq
<1>4. ASSUME NEW i \in 1 .. n - 1
      PROVE  At(b, Up(r, 1), n - 1)[i] = At(b, r, n)[i + 1]
  <2>1. i - 1 \in 0 .. Size /\ i \in 0 .. Size /\ i \in 1 .. n - 1 /\ i + 1 \in 1 .. n /\ i + 1 - 1 = i
    BY SizeAssumption
  <2>2. Up(Up(r, 1), i - 1) = Up(r, i)
    BY <1>1, <2>1, Addresses, SizeAssumption
  <2>3. \A j \in 1 .. n : At(b, r, n)[j] = b[Up(r, j - 1)]
    BY <1>1, AtType
  <2>4. At(b, r, n)[i + 1] = b[Up(r, i + 1 - 1)]
    BY <2>1, <2>3
  <2>5. \A j \in 1 .. n - 1 : At(b, Up(r, 1), n - 1)[j] = b[Up(Up(r, 1), j - 1)]
    BY <1>1, AtType
  <2>6. At(b, Up(r, 1), n - 1)[i] = b[Up(Up(r, 1), i - 1)]
    BY <2>1, <2>5
  <2> QED BY <2>1, <2>2, <2>4, <2>6
<1> QED BY <1>2, <1>3, <1>4, SeqEqual

\* A byte for which there is room.
LEMMA Pushed ==
    ASSUME NEW b \in [0 .. Size - 1 -> Nibbles], NEW r \in 0 .. Size - 1, NEW n \in 0 .. Size - 2,
           NEW lo \in Nibbles, NEW hi \in Nibbles
    PROVE  At([b EXCEPT ![Up(r, n)] = lo, ![Up(Up(r, n), 1)] = hi], r, n + 2)
               = At(b, r, n) \o <<lo, hi>>
<1> DEFINE B == [b EXCEPT ![Up(r, n)] = lo, ![Up(Up(r, n), 1)] = hi]
<1>1. n \in 0 .. Size /\ n + 1 \in 0 .. Size /\ n + 2 \in 0 .. Size /\ 1 \in 0 .. Size
  BY SizeAssumption
<1>2. Up(r, n) \in 0 .. Size - 1 /\ Up(r, n + 1) \in 0 .. Size - 1
  BY <1>1, UpType
<1>3. Up(Up(r, n), 1) = Up(r, n + 1) /\ Up(r, n) # Up(r, n + 1)
  <2>1. /\ Up(r, n) = (IF r + n < Size THEN r + n ELSE r + n - Size)
        /\ Up(r, n + 1) = (IF r + (n + 1) < Size THEN r + (n + 1) ELSE r + (n + 1) - Size)
    BY <1>1, Addresses
  <2>2. Up(Up(r, n), 1) = (IF Up(r, n) + 1 < Size THEN Up(r, n) + 1 ELSE Up(r, n) + 1 - Size)
    BY <1>1, <1>2, Addresses
  <2> QED BY <2>1, <2>2, SizeAssumption
<1>4. B \in [0 .. Size - 1 -> Nibbles]
  BY <1>2, <1>3
<1>5. /\ At(b, r, n) \in Seq(Nibbles) /\ Len(At(b, r, n)) = n
      /\ At(B, r, n + 2) \in Seq(Nibbles) /\ Len(At(B, r, n + 2)) = n + 2
  BY <1>1, <1>4, AtType
<1>6. /\ <<lo, hi>> \in Seq(Nibbles) /\ Len(<<lo, hi>>) = 2
      /\ At(b, r, n) \o <<lo, hi>> \in Seq(Nibbles) /\ Len(At(b, r, n) \o <<lo, hi>>) = n + 2
      /\ \A i \in 1 .. n + 2 : (At(b, r, n) \o <<lo, hi>>)[i]
                                   = IF i <= n THEN At(b, r, n)[i] ELSE <<lo, hi>>[i - n]
  <2>1. <<lo, hi>> \in Seq(Nibbles) /\ Len(<<lo, hi>>) = 2
    OBVIOUS
  <2> QED BY <2>1, <1>5, ConcatProperties
<1>7. ASSUME NEW i \in 1 .. n + 2
      PROVE  At(B, r, n + 2)[i] = (At(b, r, n) \o <<lo, hi>>)[i]
  <2> HIDE DEF B
  <2>1. At(B, r, n + 2)[i] = B[Up(r, i - 1)]
    <3>1. \A j \in 1 .. n + 2 : At(B, r, n + 2)[j] = B[Up(r, j - 1)]
      BY <1>1, <1>4, AtType
    <3> QED BY <3>1
  <2> USE DEF B
  <2>2. CASE i <= n
    <3>1. i - 1 \in 0 .. Size /\ i \in 1 .. n BY <2>2, SizeAssumption
    <3>2. Up(r, i - 1) # Up(r, n) /\ Up(r, i - 1) # Up(r, n + 1) /\ Up(r, i - 1) \in 0 .. Size - 1
      <4>1. /\ Up(r, n) = (IF r + n < Size THEN r + n ELSE r + n - Size)
            /\ Up(r, n + 1) = (IF r + (n + 1) < Size THEN r + (n + 1) ELSE r + (n + 1) - Size)
        BY <1>1, Addresses
      <4>2. Up(r, i - 1) = (IF r + (i - 1) < Size THEN r + (i - 1) ELSE r + (i - 1) - Size)
        BY <3>1, Addresses
      <4> QED BY <4>1, <4>2, <3>1, <2>2, SizeAssumption
    <3>3. B[Up(r, i - 1)] = b[Up(r, i - 1)]
      BY <3>2, <1>3
    <3>4. At(b, r, n)[i] = b[Up(r, i - 1)]
      BY <3>1, <1>1, AtType
    <3> QED BY <2>1, <2>2, <3>3, <3>4, <1>6
  <2>0. (At(b, r, n) \o <<lo, hi>>)[i] = IF i <= n THEN At(b, r, n)[i] ELSE <<lo, hi>>[i - n]
    BY <1>6
  <2>3. CASE i = n + 1
    <3>1. i - 1 = n /\ i - n = 1 /\ ~(i <= n) BY <2>3
    <3>2. B[Up(r, n)] = lo BY <1>2, <1>3
    <3>3. <<lo, hi>>[1] = lo OBVIOUS
    <3> QED BY <2>0, <2>1, <3>1, <3>2, <3>3
  <2>4. CASE i = n + 2
    <3>1. i - 1 = n + 1 /\ i - n = 2 /\ ~(i <= n) /\ i \in 1 .. n + 2 BY <2>4
    <3>2. B[Up(r, n + 1)] = hi BY <1>2, <1>3
    <3>3. <<lo, hi>>[i - n] = hi BY <3>1
    <3>4. B[Up(r, i - 1)] = hi BY <3>1, <3>2
    <3>5. (At(b, r, n) \o <<lo, hi>>)[i] = hi BY <2>0, <3>1, <3>3
    <3>6. At(B, r, n + 2)[i] = hi BY <2>1, <3>4
    <3> QED BY <3>5, <3>6
  <2>5. i <= n \/ i = n + 1 \/ i = n + 2 BY SizeAssumption
  <2> QED BY <2>2, <2>3, <2>4, <2>5
<1> QED BY <1>5, <1>6, <1>7, SeqEqual

\* A byte that comes when one place is free, in the ring and as a sequence.
Overwritten(b, w, lo, hi) == [b EXCEPT ![Up(w, Size - 1)] = lo, ![w] = hi]
Late(s, n) == [s EXCEPT ![Len(s)] = n]

LEMMA Replaced ==
    ASSUME NEW b \in [0 .. Size - 1 -> Nibbles], NEW r \in 0 .. Size - 1,
           NEW lo \in Nibbles, NEW hi \in Nibbles
    PROVE  At(Overwritten(b, Up(r, Size - 1), lo, hi), r, Size - 1) = Late(At(b, r, Size - 1), lo)
<1> DEFINE B == [b EXCEPT ![Up(Up(r, Size - 1), Size - 1)] = lo, ![Up(r, Size - 1)] = hi]
<1>1. Size - 1 \in 0 .. Size /\ Size - 2 \in 0 .. Size /\ Size - 1 \in 1 .. Size - 1
  BY SizeAssumption
<1>2. Up(r, Size - 1) \in 0 .. Size - 1 /\ Up(r, Size - 2) \in 0 .. Size - 1
  BY <1>1, UpType
<1>a. /\ Up(r, Size - 1) = (IF r + (Size - 1) < Size THEN r + (Size - 1) ELSE r + (Size - 1) - Size)
      /\ Up(r, Size - 2) = (IF r + (Size - 2) < Size THEN r + (Size - 2) ELSE r + (Size - 2) - Size)
  BY <1>1, Addresses
<1>3. Up(Up(r, Size - 1), Size - 1) = Up(r, Size - 2) /\ Up(r, Size - 2) # Up(r, Size - 1)
  <2>1. Up(Up(r, Size - 1), Size - 1)
            = (IF Up(r, Size - 1) + (Size - 1) < Size THEN Up(r, Size - 1) + (Size - 1)
                                                      ELSE Up(r, Size - 1) + (Size - 1) - Size)
    BY <1>1, <1>2, Addresses
  <2> QED BY <1>a, <2>1, SizeAssumption
<1>4. B \in [0 .. Size - 1 -> Nibbles]
  BY <1>2, <1>3
<1>5. /\ At(b, r, Size - 1) \in Seq(Nibbles) /\ Len(At(b, r, Size - 1)) = Size - 1
      /\ At(B, r, Size - 1) \in Seq(Nibbles) /\ Len(At(B, r, Size - 1)) = Size - 1
  BY <1>1, <1>4, AtType
<1>6. /\ [At(b, r, Size - 1) EXCEPT ![Size - 1] = lo] \in Seq(Nibbles)
      /\ Len([At(b, r, Size - 1) EXCEPT ![Size - 1] = lo]) = Size - 1
      /\ \A i \in 1 .. Size - 1 : [At(b, r, Size - 1) EXCEPT ![Size - 1] = lo][i]
                                      = IF i = Size - 1 THEN lo ELSE At(b, r, Size - 1)[i]
  BY <1>1, <1>5, ExceptSeq
<1>7. ASSUME NEW i \in 1 .. Size - 1
      PROVE  At(B, r, Size - 1)[i] = IF i = Size - 1 THEN lo ELSE At(b, r, Size - 1)[i]
  <2> HIDE DEF B
  <2>1. At(B, r, Size - 1)[i] = B[Up(r, i - 1)] /\ At(b, r, Size - 1)[i] = b[Up(r, i - 1)]
    <3>1. \A j \in 1 .. Size - 1 : /\ At(B, r, Size - 1)[j] = B[Up(r, j - 1)]
                                  /\ At(b, r, Size - 1)[j] = b[Up(r, j - 1)]
      BY <1>1, <1>4, AtType
    <3> QED BY <3>1
  <2> USE DEF B
  <2>2. CASE i = Size - 1
    <3>1. i - 1 = Size - 2 BY <2>2, SizeAssumption
    <3> QED BY <2>1, <2>2, <3>1, <1>2, <1>3
  <2>3. CASE i # Size - 1
    <3>1. i - 1 \in 0 .. Size /\ i < Size - 1 BY <2>3, SizeAssumption
    <3>2. Up(r, i - 1) # Up(r, Size - 2) /\ Up(r, i - 1) # Up(r, Size - 1) /\ Up(r, i - 1) \in 0 .. Size - 1
      <4>1. Up(r, i - 1) = (IF r + (i - 1) < Size THEN r + (i - 1) ELSE r + (i - 1) - Size)
        BY <3>1, Addresses
      <4> QED BY <1>a, <4>1, <3>1, SizeAssumption
    <3>3. B[Up(r, i - 1)] = b[Up(r, i - 1)]
      BY <3>2, <1>3
    <3> QED BY <2>1, <2>3, <3>3
  <2> QED BY <2>2, <2>3
<1> DEFINE C == [At(b, r, Size - 1) EXCEPT ![Size - 1] = lo]
<1>8. \A i \in 1 .. Len(At(B, r, Size - 1)) : At(B, r, Size - 1)[i] = C[i]
  BY <1>5, <1>6, <1>7
<1> HIDE DEF B, C
<1>9. At(B, r, Size - 1) = C
  BY <1>5, <1>6, <1>8, SeqEqual DEF C
<1> QED BY <1>5, <1>9 DEF B, C, Overwritten, Late

\* The addresses say where the next nibble goes.
LEMMA Places ==
    ASSUME Types
    PROVE  bufcount \in 0 .. Size - 1 /\ nxtbuf_w = Up(nxtbuf_r, bufcount)
<1>1. nxtbuf_r \in 0 .. Size - 1 /\ nxtbuf_w \in 0 .. Size - 1
  BY DEF Types
<1>2. bufcount = (IF nxtbuf_w >= nxtbuf_r THEN nxtbuf_w - nxtbuf_r
                                          ELSE nxtbuf_w - nxtbuf_r + Size)
  BY Counts
<1>3. bufcount \in 0 .. Size /\ bufcount \in 0 .. Size - 1
  BY <1>1, <1>2, SizeAssumption
<1>4. Up(nxtbuf_r, bufcount) = (IF nxtbuf_r + bufcount < Size THEN nxtbuf_r + bufcount
                                                              ELSE nxtbuf_r + bufcount - Size)
  BY <1>1, <1>3, Addresses
<1> QED BY <1>1, <1>2, <1>3, <1>4, SizeAssumption

\* The ring after an edge: n nibbles before the read, and all places taken count as none.
LEMMA RingNext ==
    ASSUME Types, Types', NEW n \in 0 .. Size, nxtbuf_w' = Up(nxtbuf_r, n)
    PROVE  /\ nxtbuf_r' = nxtbuf_r => Ring' = (IF n < Size THEN At(nxtbuf', nxtbuf_r, n) ELSE <<>>)
           /\ n > 0 /\ nxtbuf_r' = Up(nxtbuf_r, 1) => Ring' = Tail(At(nxtbuf', nxtbuf_r, n))
<1>1. /\ nxtbuf_r \in 0 .. Size - 1 /\ nxtbuf_r' \in 0 .. Size - 1 /\ nxtbuf_w' \in 0 .. Size - 1
      /\ nxtbuf' \in [0 .. Size - 1 -> Nibbles] /\ 1 \in 0 .. Size
  BY SizeAssumption DEF Types
<1>2. bufcount' = (IF nxtbuf_w' >= nxtbuf_r' THEN nxtbuf_w' - nxtbuf_r'
                                             ELSE nxtbuf_w' - nxtbuf_r' + Size)
  BY CountsNext
<1>3. /\ Up(nxtbuf_r, n) = (IF nxtbuf_r + n < Size THEN nxtbuf_r + n ELSE nxtbuf_r + n - Size)
      /\ Up(nxtbuf_r, 1) = (IF nxtbuf_r + 1 < Size THEN nxtbuf_r + 1 ELSE nxtbuf_r + 1 - Size)
  BY <1>1, Addresses
<1>4. Ring' = At(nxtbuf', nxtbuf_r', bufcount')
  BY DEF Ring, At, Up
<1>5. ASSUME nxtbuf_r' = nxtbuf_r
      PROVE  Ring' = (IF n < Size THEN At(nxtbuf', nxtbuf_r, n) ELSE <<>>)
  <2>1. bufcount' = (IF n < Size THEN n ELSE 0)
    BY <1>1, <1>2, <1>3, <1>5, SizeAssumption
  <2>2. At(nxtbuf', nxtbuf_r, 0) = <<>>
    BY DEF At
  <2> QED BY <1>4, <1>5, <2>1, <2>2
<1>6. ASSUME n > 0, nxtbuf_r' = Up(nxtbuf_r, 1)
      PROVE  Ring' = Tail(At(nxtbuf', nxtbuf_r, n))
  <2>1. bufcount' = n - 1
    BY <1>1, <1>2, <1>3, <1>6, SizeAssumption
  <2>2. n \in 1 .. Size BY <1>6
  <2> QED BY <1>1, <1>4, <1>6, <2>1, <2>2, Popped
<1> QED BY <1>5, <1>6

-----------------------------------------------------------------------------
(* The queue.                                                               *)

\* What two nibbles behind a sequence do to its head, its tail and what it may lose.
LEMMA Behind ==
    ASSUME NEW s \in Seq(Nibbles), NEW t \in Seq(Nibbles), s # <<>>
    PROVE  s \o t # <<>> /\ Head(s \o t) = s[1] /\ Tail(s \o t) = Tail(s) \o t
<1>1. Len(s) \in Nat \ {0} BY EmptySeq
<1>2. /\ s \o t \in Seq(Nibbles) /\ Len(s \o t) = Len(s) + Len(t) /\ Len(t) \in Nat
      /\ \A i \in 1 .. Len(s) + Len(t) : (s \o t)[i] = IF i <= Len(s) THEN s[i] ELSE t[i - Len(s)]
  BY ConcatProperties, LenProperties
<1>3. s \o t # <<>> BY <1>1, <1>2
<1>4. /\ Tail(s) \in Seq(Nibbles) /\ Len(Tail(s)) = Len(s) - 1
      /\ \A i \in 1 .. Len(s) - 1 : Tail(s)[i] = s[i + 1]
  BY HeadTailProperties
<1>5. /\ Tail(s) \o t \in Seq(Nibbles) /\ Len(Tail(s) \o t) = Len(s) - 1 + Len(t)
      /\ \A i \in 1 .. Len(s) - 1 + Len(t) :
             (Tail(s) \o t)[i] = IF i <= Len(s) - 1 THEN Tail(s)[i] ELSE t[i - (Len(s) - 1)]
  BY <1>4, ConcatProperties
<1>6. /\ Tail(s \o t) \in Seq(Nibbles) /\ Len(Tail(s \o t)) = Len(s) + Len(t) - 1
      /\ \A i \in 1 .. Len(s) + Len(t) - 1 : Tail(s \o t)[i] = (s \o t)[i + 1]
  BY <1>2, <1>3, HeadTailProperties
<1>7. ASSUME NEW i \in 1 .. Len(s) + Len(t) - 1
      PROVE  Tail(s \o t)[i] = (Tail(s) \o t)[i]
  <2>1. i + 1 \in 1 .. Len(s) + Len(t) /\ i \in 1 .. Len(s) - 1 + Len(t)
    BY <1>1, <1>2
  <2>2. Tail(s \o t)[i] = IF i + 1 <= Len(s) THEN s[i + 1] ELSE t[i + 1 - Len(s)]
    BY <2>1, <1>2, <1>6
  <2>3. (Tail(s) \o t)[i] = IF i <= Len(s) - 1 THEN s[i + 1] ELSE t[i - (Len(s) - 1)]
    BY <2>1, <1>4, <1>5, <1>1
  <2>4. i + 1 - Len(s) = i - (Len(s) - 1) /\ (i + 1 <= Len(s) <=> i <= Len(s) - 1)
    BY <1>1
  <2> QED BY <2>2, <2>3, <2>4
<1>8. Tail(s \o t) = Tail(s) \o t
  <2>1. /\ Len(Tail(s \o t)) = Len(Tail(s) \o t)
        /\ \A i \in 1 .. Len(Tail(s \o t)) : Tail(s \o t)[i] = (Tail(s) \o t)[i]
    BY <1>1, <1>2, <1>5, <1>6, <1>7
  <2> QED BY <2>1, <1>5, <1>6, SeqEqual
<1>9. Head(s \o t) = s[1]
  BY <1>1, <1>2, <1>3
<1> QED BY <1>3, <1>8, <1>9


LEMMA LateType ==
    ASSUME NEW s \in Seq(Nibbles), NEW n \in Nibbles, s # <<>>
    PROVE  /\ Late(s, n) \in Seq(Nibbles) /\ Len(Late(s, n)) = Len(s)
           /\ \A i \in 1 .. Len(s) : Late(s, n)[i] = IF i = Len(s) THEN n ELSE s[i]
<1>1. Len(s) \in 1 .. Len(s) BY EmptySeq
<1> QED BY <1>1, ExceptSeq DEF Late

LEMMA LateByte ==
    ASSUME NEW s \in Seq(Nibbles), NEW lo \in Nibbles, NEW hi \in Nibbles, Len(s) >= Size - 2
    PROVE  /\ Late(s, lo) \in Seq(Nibbles) /\ Len(Late(s, lo)) = Len(s)
           /\ Late(s, lo) # <<>> /\ s # <<>>
           /\ Head(Late(s, lo)) = s[1]
           /\ Len(s) >= Size - 1 => Tail(Late(s, lo)) = Late(Tail(s), lo)
           /\ Queue!Losses(s \o <<lo, hi>>) = {<<>>, Late(s, lo)}
<1>1. Len(s) \in Nat /\ Len(s) >= 2 /\ Len(s) \in 1 .. Len(s)
  BY LenProperties, SizeAssumption
<1>2. s # <<>> BY <1>1
<1>3. /\ Late(s, lo) \in Seq(Nibbles) /\ Len(Late(s, lo)) = Len(s)
      /\ \A i \in 1 .. Len(s) : Late(s, lo)[i] = IF i = Len(s) THEN lo ELSE s[i]
  BY <1>2, LateType
<1>4. Late(s, lo) # <<>> BY <1>1, <1>3
<1>5. Head(Late(s, lo)) = s[1]
  BY <1>1, <1>3, <1>4
<1>6. ASSUME Len(s) >= Size - 1 PROVE Tail(Late(s, lo)) = Late(Tail(s), lo)
  <2>1. /\ Tail(s) \in Seq(Nibbles) /\ Len(Tail(s)) = Len(s) - 1
        /\ \A i \in 1 .. Len(s) - 1 : Tail(s)[i] = s[i + 1]
    BY <1>2, HeadTailProperties
  <2>2. /\ Tail(Late(s, lo)) \in Seq(Nibbles) /\ Len(Tail(Late(s, lo))) = Len(s) - 1
        /\ \A i \in 1 .. Len(s) - 1 : Tail(Late(s, lo))[i] = Late(s, lo)[i + 1]
    BY <1>3, <1>4, HeadTailProperties
  <2>3. /\ Late(Tail(s), lo) \in Seq(Nibbles) /\ Len(Late(Tail(s), lo)) = Len(s) - 1
        /\ \A i \in 1 .. Len(s) - 1 : Late(Tail(s), lo)[i] = IF i = Len(s) - 1 THEN lo ELSE Tail(s)[i]
    <3>1. Tail(s) # <<>>
      <4>1. Len(Tail(s)) # 0 BY <1>1, <2>1
      <4> QED BY <4>1, EmptySeq
    <3>2. /\ Late(Tail(s), lo) \in Seq(Nibbles) /\ Len(Late(Tail(s), lo)) = Len(Tail(s))
          /\ \A i \in 1 .. Len(Tail(s)) :
                 Late(Tail(s), lo)[i] = IF i = Len(Tail(s)) THEN lo ELSE Tail(s)[i]
      BY <2>1, <3>1, LateType
    <3> QED BY <2>1, <3>2
  <2>4. ASSUME NEW i \in 1 .. Len(s) - 1
        PROVE  Tail(Late(s, lo))[i] = Late(Tail(s), lo)[i]
    <3>1. i + 1 \in 1 .. Len(s) /\ (i + 1 = Len(s) <=> i = Len(s) - 1) BY <1>1
    <3>2. Tail(Late(s, lo))[i] = IF i + 1 = Len(s) THEN lo ELSE s[i + 1]
      BY <3>1, <1>3, <2>2
    <3>3. Late(Tail(s), lo)[i] = IF i = Len(s) - 1 THEN lo ELSE s[i + 1]
      BY <2>1, <2>3
    <3>4. CASE i = Len(s) - 1 BY <3>1, <3>2, <3>3, <3>4
    <3>5. CASE i # Len(s) - 1 BY <3>1, <3>2, <3>3, <3>5
    <3> QED BY <3>4, <3>5
  <2>5. /\ Len(Tail(Late(s, lo))) = Len(Late(Tail(s), lo))
        /\ \A i \in 1 .. Len(Tail(Late(s, lo))) : Tail(Late(s, lo))[i] = Late(Tail(s), lo)[i]
    BY <1>1, <2>2, <2>3, <2>4
  <2> QED BY <2>2, <2>3, <2>5, SeqEqual
<1>7. Queue!Losses(s \o <<lo, hi>>) = {<<>>, Late(s, lo)}
  <2> DEFINE t == s \o <<lo, hi>>
             u == SubSeq(t, 1, Len(t) - 3)
             v == Append(u, t[Len(t) - 1])
  <2>1. /\ t \in Seq(Nibbles) /\ Len(t) = Len(s) + 2
        /\ \A i \in 1 .. Len(s) + 2 : t[i] = IF i <= Len(s) THEN s[i] ELSE <<lo, hi>>[i - Len(s)]
    <3>1. <<lo, hi>> \in Seq(Nibbles) /\ Len(<<lo, hi>>) = 2
      OBVIOUS
    <3> QED BY <3>1, ConcatProperties
  <2>2. t[Len(t) - 1] = lo
    <3>1. Len(t) - 1 = Len(s) + 1 /\ Len(s) + 1 \in 1 .. Len(s) + 2
      BY <1>1, <2>1
    <3>2. t[Len(s) + 1] = <<lo, hi>>[Len(s) + 1 - Len(s)] BY <1>1, <2>1, <3>1
    <3>3. Len(s) + 1 - Len(s) = 1 BY <1>1
    <3> QED BY <3>1, <3>2, <3>3
  <2> HIDE DEF t
  <2>3. /\ u \in Seq(Nibbles) /\ Len(u) = Len(s) - 1
        /\ \A i \in 1 .. Len(s) - 1 : u[i] = s[i]
    <3>1. Len(t) - 3 = Len(s) - 1 /\ \A i \in 1 .. Len(t) - 3 : t[i] \in Nibbles
      BY <1>1, <2>1, ElementOfSeq
    <3>2. /\ u \in Seq(Nibbles) /\ Len(u) = (IF 1 <= Len(t) - 3 THEN Len(t) - 3 - 1 + 1 ELSE 0)
          /\ \A i \in 1 .. Len(t) - 3 - 1 + 1 : u[i] = t[1 + i - 1]
      BY <1>1, <2>1, <3>1, SubSeqProperties
    <3>3. ASSUME NEW i \in 1 .. Len(s) - 1 PROVE u[i] = s[i]
      <4>1. i \in 1 .. Len(t) - 3 - 1 + 1 /\ 1 + i - 1 = i /\ i \in 1 .. Len(s) + 2 /\ i <= Len(s)
        BY <1>1, <2>1
      <4> QED BY <2>1, <3>2, <4>1
    <3> QED BY <1>1, <2>1, <3>2, <3>3
  <2> HIDE DEF u
  <2>4. /\ v \in Seq(Nibbles) /\ Len(v) = Len(s)
        /\ \A i \in 1 .. Len(s) - 1 : v[i] = s[i]
        /\ v[Len(s)] = lo
    <3>1. /\ v \in Seq(Nibbles) /\ Len(v) = Len(u) + 1
          /\ \A i \in 1 .. Len(u) : v[i] = u[i]
          /\ v[Len(u) + 1] = lo
      BY <2>2, <2>3, AppendProperties
    <3>2. Len(u) + 1 = Len(s) BY <1>1, <2>3
    <3> QED BY <2>3, <3>1, <3>2
  <2> HIDE DEF v
  <2>5. \A i \in 1 .. Len(v) : v[i] = Late(s, lo)[i]
    BY <1>1, <1>3, <2>4
  <2>6. v = Late(s, lo)
    BY <1>3, <2>4, <2>5, SeqEqual
  <2>7. ~(Len(t) < Size) BY <1>1, <2>1, SizeAssumption
  <2> QED BY <2>6, <2>7 DEF Queue!Losses, t, u, v
<1> QED BY <1>2, <1>3, <1>4, <1>5, <1>6, <1>7

LEMMA Sequences ==
    ASSUME Types
    PROVE  /\ Ring \in Seq(Nibbles) /\ Len(Ring) = bufcount /\ (Ring = <<>> <=> bufcount = 0)
           /\ bufcount > 0 => Ring[1] = nxtbuf[nxtbuf_r]
           /\ InRing \in Seq(Nibbles) /\ OnItsWay \in Seq(Nibbles)
<1>1. bufcount \in 0 .. Size /\ nxtbuf_r \in 0 .. Size - 1 /\ nxtbuf \in [0 .. Size - 1 -> Nibbles]
  <2>1. bufcount \in 0 .. Size - 1 BY Places
  <2>2. nxtbuf_r \in 0 .. Size - 1 /\ nxtbuf \in [0 .. Size - 1 -> Nibbles] BY DEF Types
  <2> QED BY <2>1, <2>2, SizeAssumption
<1>2. Ring = At(nxtbuf, nxtbuf_r, bufcount) BY DEF Ring, At
<1>3. /\ Ring \in Seq(Nibbles) /\ Len(Ring) = bufcount
      /\ \A i \in 1 .. bufcount : Ring[i] = nxtbuf[Up(nxtbuf_r, i - 1)]
  BY <1>1, <1>2, AtType
<1>4. Ring = <<>> <=> bufcount = 0
  BY <1>1, <1>3, EmptySeq
<1>5. bufcount > 0 => Ring[1] = nxtbuf[nxtbuf_r]
  <2>1. Up(nxtbuf_r, 0) = nxtbuf_r
    <3>1. 0 \in 0 .. Size BY SizeAssumption
    <3>2. Up(nxtbuf_r, 0) = (IF nxtbuf_r + 0 < Size THEN nxtbuf_r + 0 ELSE nxtbuf_r + 0 - Size)
      BY <1>1, <3>1, Addresses
    <3> QED BY <1>1, <3>2, SizeAssumption
  <2>2. ASSUME bufcount > 0 PROVE Ring[1] = nxtbuf[Up(nxtbuf_r, 1 - 1)]
    BY <1>1, <1>3, <2>2
  <2> QED BY <2>1, <2>2
<1>6. InRing \in Seq(Nibbles)
  BY <1>3, HeadTailProperties DEF InRing
<1>7. OnItsWay \in Seq(Nibbles)
  <2>1. IsData(idatabuf) => idatabuf.lo \in Nibbles /\ idatabuf.hi \in Nibbles
    BY BytesOfWrites DEF Types
  <2> QED BY <2>1 DEF OnItsWay
<1> QED BY <1>3, <1>4, <1>5, <1>6, <1>7

LEMMA InRingNext == ASSUME Types' PROVE InRing' \in Seq(Nibbles)
<1>1. /\ nxtbuf_r' \in 0 .. Size - 1 /\ nxtbuf_w' \in 0 .. Size - 1
      /\ nxtbuf' \in [0 .. Size - 1 -> Nibbles]
  BY DEF Types
<1>2. bufcount' \in 0 .. Size
  BY <1>1, CountsNext, SizeAssumption
<1>3. Ring' = At(nxtbuf', nxtbuf_r', bufcount') BY DEF Ring, At, Up
<1>4. Ring' \in Seq(Nibbles)
  BY <1>1, <1>2, <1>3, AtType
<1> QED BY <1>4, HeadTailProperties DEF InRing

\* A nibble is out only in the edge in which it is read.
Reads == out # <<>> => datuse

\* What the player does when the edge leaves n nibbles from the read address on.
LEMMA PlayStep ==
    ASSUME Types, Types', Reads, NEW due \in BOOLEAN, Play(due), due => ~datuse,
           NEW n \in bufcount .. Size, nxtbuf_w' = Up(nxtbuf_r, n),
           NEW b, b = At(nxtbuf', nxtbuf_r, n)
    PROVE  \/ /\ datuse /\ bufcount > 0 /\ out' = <<>> /\ InRing' = Tail(b)
           \/ /\ ~(datuse /\ bufcount > 0) /\ out' = <<>>
              /\ InRing' = (IF n < Size THEN b ELSE <<>>)
           \/ /\ ~datuse /\ bufcount > 0 /\ out = <<>> /\ out' = <<nxtbuf[nxtbuf_r]>>
              /\ InRing' = (IF n < Size THEN Tail(b) ELSE <<>>)
<1>1. bufcount \in 0 .. Size - 1 BY Places
<1>2. n \in 0 .. Size /\ n \in Nat BY <1>1, SizeAssumption
<1>3. nxtbuf_r' = nxtbuf_r => Ring' = (IF n < Size THEN b ELSE <<>>)
  BY <1>2, RingNext
<1>4. n > 0 /\ nxtbuf_r' = Up(nxtbuf_r, 1) => Ring' = Tail(b)
  BY <1>2, RingNext
<1>5. InRing' = (IF datuse' /\ Ring' # <<>> THEN Tail(Ring') ELSE Ring')
  BY DEF InRing
<1>6. CASE datuse /\ bufcount > 0
  <2>1. n > 0 BY <1>1, <1>2, <1>6
  <2> QED BY <1>4, <1>5, <1>6, <2>1 DEF Play
<1>7. CASE ~(datuse /\ bufcount > 0) /\ ~(due /\ bufcount > 0)
  BY <1>3, <1>5, <1>7 DEF Play
<1>8. CASE ~datuse /\ due /\ bufcount > 0
  <2>1. nxtbuf' \in [0 .. Size - 1 -> Nibbles] /\ nxtbuf_r \in 0 .. Size - 1 BY DEF Types
  <2>2. Len(b) = n BY <1>2, <2>1, AtType
  <2>3. b # <<>>
    <3>1. Len(b) # 0 BY <1>1, <1>2, <1>8, <2>2
    <3> QED BY <3>1, EmptySeq
  <2> QED BY <1>3, <1>5, <1>8, <2>3 DEF Play, Reads
<1> QED BY <1>6, <1>7, <1>8

Waiting == InRing \o OnItsWay

\* An edge of snd_clk that takes no data.
LEMMA QuietEdge ==
    ASSUME Types, Types', Reads, SndEdge, UNCHANGED <<nxtbuf, nxtbuf_w>>
    PROVE  \/ out' = <<>> /\ InRing' = InRing
           \/ /\ out = <<>> /\ InRing # <<>> /\ out' = <<InRing[1]>> /\ InRing' = Tail(InRing)
<1>1. PICK due \in BOOLEAN : (due => ~datuse) /\ Play(due)
  BY DEF SndEdge
<1>2. bufcount \in bufcount .. Size /\ bufcount < Size /\ nxtbuf_w' = Up(nxtbuf_r, bufcount)
  BY Places, SizeAssumption
<1>3. Ring = At(nxtbuf', nxtbuf_r, bufcount) BY DEF Ring, At
<1>4. \/ /\ datuse /\ bufcount > 0 /\ out' = <<>> /\ InRing' = Tail(Ring)
      \/ /\ ~(datuse /\ bufcount > 0) /\ out' = <<>> /\ InRing' = Ring
      \/ /\ ~datuse /\ bufcount > 0 /\ out = <<>> /\ out' = <<nxtbuf[nxtbuf_r]>>
         /\ InRing' = Tail(Ring)
  BY <1>1, <1>2, <1>3, PlayStep
<1>5. /\ Ring = <<>> <=> bufcount = 0
      /\ bufcount > 0 => Ring[1] = nxtbuf[nxtbuf_r]
      /\ bufcount \in Nat
  BY Sequences, Places
<1>6. InRing = (IF datuse /\ bufcount > 0 THEN Tail(Ring) ELSE Ring)
  BY <1>5 DEF InRing
<1> QED BY <1>4, <1>5, <1>6

\* An edge of snd_clk that takes a byte of data.
LEMMA DataEdge ==
    ASSUME Types, Types', Reads, SndEdge, Data,
           NEW lo \in Nibbles, NEW hi \in Nibbles, lo = idatabuf.lo, hi = idatabuf.hi
    PROVE  \E s \in Queue!Kept(InRing \o <<lo, hi>>) :
               \/ out' = <<>> /\ InRing' = s
               \/ /\ out = <<>> /\ InRing \o <<lo, hi>> # <<>>
                  /\ out' = <<Head(InRing \o <<lo, hi>>)>>
                  /\ InRing' = IF s = <<>> THEN s ELSE Tail(s)
<1>1. PICK due \in BOOLEAN : (due => ~datuse) /\ Play(due)
  BY DEF SndEdge
<1>2. /\ bufcount \in 0 .. Size - 1 /\ nxtbuf_w = Up(nxtbuf_r, bufcount)
      /\ nxtbuf_r \in 0 .. Size - 1 /\ nxtbuf \in [0 .. Size - 1 -> Nibbles]
  BY Places DEF Types
<1>3. /\ Ring \in Seq(Nibbles) /\ Len(Ring) = bufcount /\ (Ring = <<>> <=> bufcount = 0)
      /\ bufcount > 0 => Ring[1] = nxtbuf[nxtbuf_r]
      /\ Ring = At(nxtbuf, nxtbuf_r, bufcount)
      /\ <<lo, hi>> \in Seq(Nibbles) /\ Len(<<lo, hi>>) = 2
  <2>1. Ring = At(nxtbuf, nxtbuf_r, bufcount) BY DEF Ring, At
  <2>2. <<lo, hi>> \in Seq(Nibbles) /\ Len(<<lo, hi>>) = 2 OBVIOUS
  <2> QED BY <2>1, <2>2, Sequences
<1> DEFINE x == <<lo, hi>>
<1>4. InRing = (IF datuse /\ bufcount > 0 THEN Tail(Ring) ELSE Ring)
  BY <1>3 DEF InRing
<1>5. /\ Len(InRing) \in Nat /\ InRing \in Seq(Nibbles)
      /\ Len(InRing) = (IF datuse /\ bufcount > 0 THEN bufcount - 1 ELSE bufcount)
      /\ Len(InRing \o x) = Len(InRing) + 2
  <2>1. Ring # <<>> => Tail(Ring) \in Seq(Nibbles) /\ Len(Tail(Ring)) = Len(Ring) - 1
    BY <1>3, HeadTailProperties
  <2>2. InRing \in Seq(Nibbles) BY Sequences
  <2>3. Len(InRing) = (IF datuse /\ bufcount > 0 THEN bufcount - 1 ELSE bufcount)
    BY <1>2, <1>3, <1>4, <2>1
  <2> QED BY <1>3, <2>2, <2>3, LenProperties, ConcatProperties
<1>6. InRing \o x \in Queue!Kept(InRing \o x)
  BY DEF Queue!Kept
<1>7. bufcount > 0 => /\ Ring \o x # <<>> /\ Head(Ring \o x) = Ring[1] /\ Tail(Ring \o x) = Tail(Ring) \o x
  BY <1>3, Behind
<1>8. CASE bufcount <= Size - 2
  <2>1. bufcount \in 0 .. Size - 2 /\ bufcount + 2 \in bufcount .. Size
    BY <1>2, <1>8, SizeAssumption
  <2>2. nxtbuf' = [nxtbuf EXCEPT ![Up(nxtbuf_r, bufcount)] = lo, ![Up(Up(nxtbuf_r, bufcount), 1)] = hi]
    BY <1>2, <1>8 DEF Data
  <2>3. Ring \o x = At(nxtbuf', nxtbuf_r, bufcount + 2)
    <3>1. At([nxtbuf EXCEPT ![Up(nxtbuf_r, bufcount)] = lo, ![Up(Up(nxtbuf_r, bufcount), 1)] = hi],
             nxtbuf_r, bufcount + 2) = At(nxtbuf, nxtbuf_r, bufcount) \o <<lo, hi>>
      BY <1>2, <2>1, Pushed
    <3> QED BY <1>3, <2>2, <3>1
  <2>4. nxtbuf_w' = Up(nxtbuf_r, bufcount + 2)
    <3>1. bufcount \in 0 .. Size /\ bufcount + 2 \in 0 .. Size /\ 2 \in 0 .. Size
      BY <2>1, SizeAssumption
    <3>2. /\ Up(nxtbuf_r, bufcount) = (IF nxtbuf_r + bufcount < Size THEN nxtbuf_r + bufcount
                                                                     ELSE nxtbuf_r + bufcount - Size)
          /\ Up(nxtbuf_r, bufcount + 2) = (IF nxtbuf_r + (bufcount + 2) < Size THEN nxtbuf_r + (bufcount + 2)
                                                                     ELSE nxtbuf_r + (bufcount + 2) - Size)
      BY <1>2, <3>1, Addresses
    <3>3. nxtbuf_w \in 0 .. Size - 1 BY DEF Types
    <3>4. Up(nxtbuf_w, 2) = (IF nxtbuf_w + 2 < Size THEN nxtbuf_w + 2 ELSE nxtbuf_w + 2 - Size)
      BY <3>1, <3>3, Addresses
    <3>5. nxtbuf_w' = Up(nxtbuf_w, 2) BY <1>8 DEF Data
    <3> QED BY <1>2, <2>1, <3>2, <3>3, <3>4, <3>5, SizeAssumption
  <2> HIDE DEF x
  <2>5. \/ /\ datuse /\ bufcount > 0 /\ out' = <<>> /\ InRing' = Tail(Ring \o x)
        \/ /\ ~(datuse /\ bufcount > 0) /\ out' = <<>>
           /\ InRing' = (IF bufcount + 2 < Size THEN Ring \o x ELSE <<>>)
        \/ /\ ~datuse /\ bufcount > 0 /\ out = <<>> /\ out' = <<nxtbuf[nxtbuf_r]>>
           /\ InRing' = (IF bufcount + 2 < Size THEN Tail(Ring \o x) ELSE <<>>)
    BY <1>1, <2>1, <2>3, <2>4, PlayStep
  <2>6. ASSUME ~(datuse /\ bufcount > 0), ~(bufcount + 2 < Size)
        PROVE  <<>> \in Queue!Kept(InRing \o x)
    <3>1. ~(Len(InRing \o x) < Size) BY <1>2, <1>5, <2>6, SizeAssumption
    <3> QED BY <3>1 DEF Queue!Kept, Queue!Losses
  <2>7. CASE datuse /\ bufcount > 0
    <3>1. out' = <<>> /\ InRing' = InRing \o x
      BY <1>4, <1>7, <2>5, <2>7
    <3> QED BY <1>6, <3>1 DEF x
  <2>8. CASE ~(datuse /\ bufcount > 0)
    <3>1. InRing = Ring BY <1>4, <2>8
    <3>2. CASE bufcount + 2 < Size
      <4>1. \/ out' = <<>> /\ InRing' = InRing \o x
            \/ /\ out = <<>> /\ InRing \o x # <<>> /\ out' = <<Head(InRing \o x)>>
               /\ InRing' = Tail(InRing \o x)
        BY <1>3, <1>7, <2>5, <2>8, <3>1, <3>2
      <4> QED BY <1>6, <4>1 DEF x
    <3>3. CASE ~(bufcount + 2 < Size)
      <4>1. \/ out' = <<>> /\ InRing' = <<>>
            \/ /\ out = <<>> /\ InRing \o x # <<>> /\ out' = <<Head(InRing \o x)>>
               /\ InRing' = <<>>
        BY <1>3, <1>7, <2>5, <2>8, <3>1, <3>3
      <4> QED BY <2>6, <2>8, <3>3, <4>1 DEF x
    <3> QED BY <3>2, <3>3
  <2> QED BY <2>7, <2>8
<1>9. CASE ~(bufcount <= Size - 2)
  <2>1. bufcount = Size - 1 /\ bufcount > 0 /\ bufcount \in bufcount .. Size /\ bufcount < Size
    BY <1>2, <1>9, SizeAssumption
  <2>2. /\ nxtbuf' = Overwritten(nxtbuf, Up(nxtbuf_r, Size - 1), lo, hi)
        /\ nxtbuf_w' = Up(nxtbuf_r, bufcount)
    BY <1>2, <1>9, <2>1 DEF Data, Overwritten
  <2>3. Late(Ring, lo) = At(nxtbuf', nxtbuf_r, bufcount)
    BY <1>2, <1>3, <2>1, <2>2, Replaced
  <2>4. \/ /\ datuse /\ bufcount > 0 /\ out' = <<>> /\ InRing' = Tail(Late(Ring, lo))
        \/ /\ ~(datuse /\ bufcount > 0) /\ out' = <<>> /\ InRing' = Late(Ring, lo)
        \/ /\ ~datuse /\ bufcount > 0 /\ out = <<>> /\ out' = <<nxtbuf[nxtbuf_r]>>
           /\ InRing' = Tail(Late(Ring, lo))
    BY <1>1, <2>1, <2>2, <2>3, PlayStep
  <2>5. Tail(Late(Ring, lo)) = Late(Tail(Ring), lo)
    <3>1. Len(Ring) >= Size - 2 /\ Len(Ring) >= Size - 1
      BY <1>3, <2>1, SizeAssumption
    <3> QED BY <1>3, <3>1, LateByte
  <2>6. Late(InRing, lo) \in Queue!Kept(InRing \o x) /\ Late(InRing, lo) # <<>>
    <3>1. Len(InRing) >= Size - 2 BY <1>5, <2>1, SizeAssumption
    <3> QED BY <1>5, <3>1, LateByte DEF Queue!Kept
  <2> HIDE DEF x
  <2>7. CASE datuse
    <3>1. out' = <<>> /\ InRing' = Late(InRing, lo)
      BY <1>4, <2>1, <2>4, <2>5, <2>7
    <3> QED BY <2>6, <3>1 DEF x
  <2>8. CASE ~datuse
    <3>1. InRing = Ring BY <1>4, <2>8
    <3>2. \/ out' = <<>> /\ InRing' = Late(InRing, lo)
          \/ /\ out = <<>> /\ InRing \o x # <<>> /\ out' = <<Head(InRing \o x)>>
             /\ InRing' = Tail(Late(InRing, lo))
      BY <1>3, <1>7, <2>1, <2>4, <2>8, <3>1
    <3> QED BY <2>6, <3>2 DEF x
  <2> QED BY <2>7, <2>8
<1> QED BY <1>8, <1>9

-----------------------------------------------------------------------------
(* The refinement.                                                          *)

LEMMA QueueInit == Init => Queue!QInit
<1> SUFFICES ASSUME Init PROVE Queue!QInit
  OBVIOUS
<1>1. bufcount = 0
  BY SizeAssumption DEF Init, bufcount
<1>2. Ring = <<>> /\ OnItsWay = <<>>
  BY <1>1 DEF Init, Ring, OnItsWay
<1>3. InRing = <<>> /\ out = <<>>
  BY <1>2 DEF Init, InRing
<1> QED BY <1>2, <1>3 DEF Queue!QInit

\* A byte sets out only when none is on its way.
LEMMA Departs ==
    ASSUME Types, Handover, Latch, req = 1
    PROVE  OnItsWay = <<>> /\ datwr_req_d = datwr_req /\ datwr_ack = datwr_req
<1>1. ~Unanswered BY DEF Latch, Handover
<1> QED BY <1>1 DEF Handover, Unanswered, OnItsWay

LEMMA NewByte ==
    ASSUME Types, Types', Latch, req = 1, datwr_ack' = datwr_req
    PROVE  OnItsWay' = <<>> \/ \E lo, hi \in Nibbles : OnItsWay' = <<lo, hi>>
<1>1. (IsData(idatabuf) => idatabuf.lo \in Nibbles /\ idatabuf.hi \in Nibbles)'
  BY BytesOfWrites DEF Types
<1>2. OnItsWay' = (IF datwr_req' # datwr_ack' /\ IsData(idatabuf)'
                   THEN <<idatabuf'.lo, idatabuf'.hi>> ELSE <<>>)
  BY DEF OnItsWay
<1> QED BY <1>1, <1>2

\* An edge in which nothing is taken for data: what it does to the queue.
LEMMA QuietStep ==
    ASSUME InRing \in Seq(Nibbles), OnItsWay \in Seq(Nibbles),
           \/ out' \in {out, <<>>} /\ InRing' = InRing
           \/ /\ out = <<>> /\ InRing # <<>> /\ out' = <<InRing[1]>> /\ InRing' = Tail(InRing),
           \/ OnItsWay' = OnItsWay
           \/ OnItsWay = <<>> /\ \E lo, hi \in Nibbles : OnItsWay' = <<lo, hi>>
    PROVE  Queue!QNext
<1>1. Waiting \in Queue!Kept(Waiting) BY DEF Queue!Kept
<1>2. InRing # <<>> => /\ Waiting # <<>> /\ Head(Waiting) = InRing[1]
                       /\ Tail(Waiting) = Tail(InRing) \o OnItsWay
  BY Behind DEF Waiting
<1>3. Waiting' = InRing' \o OnItsWay' BY DEF Waiting
<1>4. CASE OnItsWay' = OnItsWay
  <2>1. Queue!Leave(Waiting) \/ Queue!Take(Waiting)
    BY <1>2, <1>3, <1>4 DEF Waiting, Queue!Leave, Queue!Take
  <2> QED BY <1>1, <2>1 DEF Queue!QNext, Waiting
<1>5. CASE OnItsWay = <<>> /\ \E lo, hi \in Nibbles : OnItsWay' = <<lo, hi>>
  <2>1. PICK lo \in Nibbles, hi \in Nibbles : OnItsWay' = <<lo, hi>>
    BY <1>5
  <2>2. Waiting = InRing /\ (InRing # <<>> => Tail(InRing) \in Seq(Nibbles))
    BY <1>5, ConcatEmptySeq, HeadTailProperties DEF Waiting
  <2>3. \/ out' \in {out, <<>>} /\ Waiting' = Waiting \o <<lo, hi>>
        \/ /\ out = <<>> /\ Waiting # <<>> /\ out' = <<Head(Waiting)>>
           /\ Waiting' = Tail(Waiting) \o <<lo, hi>>
    BY <1>2, <1>3, <2>1, <2>2
  <2>4. Queue!Bring(Waiting)
    BY <2>3 DEF Queue!Bring, Waiting
  <2> QED BY <2>4 DEF Queue!QNext, Waiting
<1> QED BY <1>4, <1>5

LEMMA QueueStep ==
    ASSUME SlowCpu, Types, Handover, Reads, [Next]_vars
    PROVE  Queue!QNext \/ UNCHANGED <<InRing \o OnItsWay, out>>
<1>0. Types' BY TypesStay
<1>a. InRing \in Seq(Nibbles) /\ OnItsWay \in Seq(Nibbles)
  BY Sequences
<1>1. CASE SysOnly
  <2>1. UNCHANGED <<InRing, out, datwr_req_d, datwr_ack>>
    BY <1>1 DEF SysOnly, snd, InRing, Ring, bufcount, Up
  <2>2. CASE Latch /\ req = 1
    BY <1>0, <1>a, <2>1, <2>2, Departs, NewByte, QuietStep
  <2>3. CASE ~(Latch /\ req = 1)
    <3>1. UNCHANGED <<datwr_req, idatabuf>>
      BY <1>1, <2>3 DEF SysOnly, SysEdge, Latch, Answer
    <3>2. OnItsWay' = OnItsWay BY <2>1, <3>1 DEF OnItsWay, IsData
    <3> QED BY <2>1, <3>2
  <2> QED BY <2>2, <2>3
<1>2. CASE Both
  <2>1. SndEdge /\ datwr_ack' = datwr_req_d BY <1>2 DEF Both, SndEdge, TakeWrite
  <2>2. CASE Arrived /\ IsData(idatabuf)
    <3>1. Data BY <2>1, <2>2 DEF SndEdge, TakeWrite
    <3>2. datwr_req_d = datwr_req /\ datwr_req # datwr_ack
      BY <2>2 DEF Arrived, Handover, Unanswered, Types
    <3>3. ~(Latch /\ req = 1) BY <3>2, Departs
    <3>4. UNCHANGED <<datwr_req, idatabuf>>
      BY <1>2, <3>3 DEF Both, SysEdge, Latch, Answer
    <3>5. OnItsWay = <<idatabuf.lo, idatabuf.hi>> /\ OnItsWay' = <<>>
      BY <2>1, <2>2, <3>2, <3>4 DEF OnItsWay
    <3>6. idatabuf.lo \in Nibbles /\ idatabuf.hi \in Nibbles
      BY <2>2, BytesOfWrites DEF Types
    <3>7. PICK s \in Queue!Kept(Waiting) :
              \/ out' = <<>> /\ InRing' = s
              \/ /\ out = <<>> /\ Waiting # <<>> /\ out' = <<Head(Waiting)>>
                 /\ InRing' = IF s = <<>> THEN s ELSE Tail(s)
      BY <1>0, <2>1, <3>1, <3>5, <3>6, DataEdge DEF Waiting
    <3>8. Waiting' = InRing'
      <4>1. InRing' \in Seq(Nibbles) BY <1>0, InRingNext
      <4> QED BY <3>5, <4>1, ConcatEmptySeq DEF Waiting
    <3>9. Queue!Leave(s) \/ Queue!Take(s)
      BY <3>7, <3>8 DEF Queue!Leave, Queue!Take, Waiting
    <3> QED BY <3>7, <3>9 DEF Queue!QNext, Waiting
  <2>3. CASE ~(Arrived /\ IsData(idatabuf))
    <3>1. UNCHANGED <<nxtbuf, nxtbuf_w>>
      BY <2>1, <2>3 DEF SndEdge, TakeWrite, Command
    <3>2. \/ out' = <<>> /\ InRing' = InRing
          \/ /\ out = <<>> /\ InRing # <<>> /\ out' = <<InRing[1]>> /\ InRing' = Tail(InRing)
      BY <1>0, <2>1, <3>1, QuietEdge
    <3>3. CASE Latch /\ req = 1
      <4>1. OnItsWay = <<>> /\ datwr_ack' = datwr_req
        BY <2>1, <3>3, Departs
      <4> QED BY <1>0, <1>a, <3>2, <3>3, <4>1, NewByte, QuietStep
    <3>4. CASE ~(Latch /\ req = 1)
      <4>1. UNCHANGED <<datwr_req, idatabuf>>
        BY <1>2, <3>4 DEF Both, SysEdge, Latch, Answer
      <4>2. OnItsWay' = OnItsWay
        BY <2>1, <2>3, <4>1 DEF OnItsWay, IsData, Arrived, Handover, Unanswered, Types
      <4> QED BY <1>a, <3>2, <4>2, QuietStep
    <3> QED BY <3>3, <3>4
  <2> QED BY <2>2, <2>3
<1>3. CASE Reset
  <2>1. bufcount' = 0 /\ out' = <<>> /\ OnItsWay' = <<>>
    BY <1>3, SizeAssumption DEF Reset, bufcount, OnItsWay
  <2>2. Ring' = <<>> BY <2>1 DEF Ring
  <2>3. InRing' \o OnItsWay' = <<>> BY <2>1, <2>2 DEF InRing
  <2> QED BY <2>1, <2>3 DEF Queue!QNext, Queue!Reset
<1>4. CASE UNCHANGED vars
  BY <1>4 DEF vars, bus, sys, snd, InRing, Ring, bufcount, Up, OnItsWay, IsData
<1> QED BY <1>1, <1>2, <1>3, <1>4 DEF Next

LEMMA ReadsStay ==
    /\ Init => Reads
    /\ Reads /\ [Next]_vars => Reads'
<1>1. Init => Reads BY DEF Init, Reads
<1>2. ASSUME Reads, SndEdge PROVE Reads'
  BY <1>2 DEF SndEdge, Play, Reads
<1>3. ASSUME Reads, UNCHANGED snd \/ Reset PROVE Reads'
  BY <1>3 DEF snd, Reset, Reads
<1> QED BY <1>1, <1>2, <1>3 DEF Next, SysOnly, Both, vars

\* Every nibble the CPU writes is played once and in order, through both clocks and the
\* ring, and some are lost only when a whole ring waits: Adpcm implements NibbleQueue
\* for any nibbles, ring and clocks, if the CPU is slow enough for two edges of snd_clk.
THEOREM KeepsQueue == ASSUME SlowCpu PROVE Spec => NibblesInOrder
<1>1. Types /\ Handover /\ Reads /\ [Next]_vars => Types' /\ Handover' /\ Reads'
  BY TypesStay, ReadsStay
<1>2. Types /\ Handover /\ Reads /\ [Next]_vars => [Queue!QNext]_<<InRing \o OnItsWay, out>>
  BY QueueStep
<1> QED BY <1>1, <1>2, InitTypes, ReadsStay, QueueInit, PTL DEF Spec, NibblesInOrder, Queue!QSpec

=============================================================================
