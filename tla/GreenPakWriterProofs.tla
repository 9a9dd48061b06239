------------------------ MODULE GreenPakWriterProofs ------------------------
(***************************************************************************)
(* The writer, for any number of blocks, any depths, and any faults of bus    *)
(* and device.                                                              *)
(*                                                                          *)
(* It stays in step with its bus until a transfer fails: while none has, main *)
(* goes on only when the DMA controller has fetched everything, so that only  *)
(* the command it polls for can be unfetched (OneAhead), and asks for an       *)
(* answer only when it has taken the last one (OneAnswer).                   *)
(*                                                                          *)
(* Until then no block mixes two programs, and a completed run has written    *)
(* them all: the commands of a block go to the device in their order          *)
(* (InOrder), what has taken effect shows in the memory unless it was refused *)
(* (Written), and a read main waits for is the last command (ReadLast).       *)
(*                                                                          *)
(* With transfers that fail, the depths still hold: a transfer not fetched     *)
(* counts against the queue, a command fetched against the words between the   *)
(* DMA controller and the wires (Depths), and main leaves at most one answer    *)
(* behind in each of the two verifications (Answers).                        *)
(***************************************************************************)
EXTENDS GreenPakWriter, SequenceTheorems, FiniteSetTheorems, TLAPS

Entry == [cmd : Commands, got : Commands \cup {Nothing}]

Typed ==
    /\ phase \in 1 .. End /\ block \in Blocks /\ op \in Ops
    /\ step \in {"build", "poll", "timeout", "level", "over"} /\ (phase = End <=> step = "over")
    /\ buffer \in [Ops -> Commands \cup {Nothing}]
    /\ wire \in Seq(Entry) /\ fetched \in 0 .. Len(wire)
    /\ rx \in Seq(Commands) /\ failed \in BOOLEAN

OneAhead ==
    /\ step # "timeout"
    /\ step # "poll" => fetched = Len(wire)
    /\ step = "poll" => fetched >= Len(wire) - 1

\* An answer main waits for is asked for once: the read is under way or in the FIFO.
Reads == {i \in 1 .. Len(wire) : wire[i].cmd.op = "rd"}
OneAnswer ==
    /\ Len(rx) <= 1 /\ \A i, j \in Reads : i = j
    /\ rx # <<>> => Reads = {}
    /\ (rx # <<>> \/ Reads # {}) => step \in {"poll", "level"} /\ op = "rd"
    /\ \A i \in Reads : wire[i].cmd = Named("rd")
    /\ \A i \in 1 .. Len(rx) : rx[i] = Named("rd")

Faithful ==
    /\ \A i \in 1 .. fetched : wire[i].got = wire[i].cmd
    /\ \A i \in fetched + 1 .. Len(wire) : buffer[wire[i].cmd.op] = wire[i].cmd

Inv == Typed /\ (~failed => OneAhead /\ OneAnswer /\ Faithful)

-----------------------------------------------------------------------------
\* The phases main goes on to are phases.
LEMMA PhasesGoOn ==
    ASSUME phase \in 1 .. End, phase # End, NEW ok \in BOOLEAN
    PROVE  After(ok) \in 1 .. End
  BY DEF After, End

LEMMA NextPhase ==
    ASSUME Typed, step # "over", NEW ok \in BOOLEAN, Enter(After(ok)) \/ (ok /\ NextBlock)
    PROVE  /\ phase' \in 1 .. End /\ block' \in Blocks /\ op' \in Ops
           /\ step' \in {"build", "over"} /\ (phase' = End <=> step' = "over")
  <1>1. CASE Enter(After(ok))
    <2>1. After(ok) \in 1 .. End BY PhasesGoOn DEF Typed
    <2>2. First(After(ok)) \in Ops BY DEF First, Ops
    <2>3. 0 \in Blocks BY BlocksAssumption DEF Blocks
    <2> QED BY <1>1, <2>1, <2>2, <2>3 DEF Enter
  <1>2. CASE ok /\ NextBlock /\ block = LastBlock
    <2>1. Enter(After(TRUE)) BY <1>2 DEF NextBlock
    <2>2. After(TRUE) \in 1 .. End BY PhasesGoOn DEF Typed
    <2>3. First(After(TRUE)) \in Ops BY DEF First, Ops
    <2>4. 0 \in Blocks BY BlocksAssumption DEF Blocks
    <2> QED BY <2>1, <2>2, <2>3, <2>4 DEF Enter
  <1>3. CASE ok /\ NextBlock /\ block # LastBlock
    <2>1. First(phase) \in Ops BY DEF First, Ops
    <2> QED BY <1>3, <2>1, BlocksAssumption DEF NextBlock, Typed, Blocks
  <1> QED BY <1>1, <1>2, <1>3

\* What is taken off the wires leaves the rest as it was.
LEMMA Taken ==
    ASSUME Typed, fetched > 0, Take
    PROVE  /\ wire' \in Seq(Entry) /\ fetched' \in 0 .. Len(wire') /\ Len(wire') = Len(wire) - 1
           /\ \A i \in 1 .. Len(wire') : wire'[i] = wire[i + 1]
  <1>1. wire # <<>> BY DEF Typed
  <1>2. /\ Tail(wire) \in Seq(Entry) /\ Len(Tail(wire)) = Len(wire) - 1
        /\ \A i \in 1 .. Len(Tail(wire)) : Tail(wire)[i] = wire[i + 1]
    BY <1>1, HeadTailProperties DEF Typed
  <1> QED BY <1>2 DEF Typed, Take

\* With that the orders of the wires stay what they were.
LEMMA TakenInStep ==
    ASSUME Inv, fetched > 0, Take, UNCHANGED <<mainVars, buffer, failed>>, ~failed
    PROVE  /\ OneAhead' /\ Faithful'
           /\ \A i \in Reads' : i + 1 \in Reads /\ wire'[i].cmd = Named("rd")
           /\ \A i, j \in Reads' : i = j
  <1>1. /\ wire' \in Seq(Entry) /\ fetched' \in 0 .. Len(wire') /\ Len(wire') = Len(wire) - 1
        /\ \A i \in 1 .. Len(wire') : wire'[i] = wire[i + 1]
        /\ fetched' = fetched - 1
    BY Taken DEF Inv, Take
  <1>2. Len(wire) \in Nat /\ fetched \in Nat BY DEF Inv, Typed
  <1>3. OneAhead' BY <1>1, <1>2 DEF Inv, OneAhead, mainVars
  <1>4. Faithful'
    <2>1. ASSUME NEW i \in 1 .. fetched' PROVE wire'[i].got = wire'[i].cmd
      <3>1. i + 1 \in 1 .. fetched /\ i \in 1 .. Len(wire') BY <1>1, <1>2
      <3> QED BY <3>1, <1>1 DEF Inv, Faithful
    <2>2. ASSUME NEW i \in fetched' + 1 .. Len(wire') PROVE buffer'[wire'[i].cmd.op] = wire'[i].cmd
      <3>1. i + 1 \in fetched + 1 .. Len(wire) /\ i \in 1 .. Len(wire') BY <1>1, <1>2
      <3> QED BY <3>1, <1>1 DEF Inv, Faithful
    <2> QED BY <2>1, <2>2 DEF Faithful
  <1>5. \A i \in Reads' : i + 1 \in Reads /\ wire'[i].cmd = Named("rd")
    BY <1>1, <1>2 DEF Inv, OneAnswer, Reads
  <1>6. ASSUME NEW i \in Reads', NEW j \in Reads' PROVE i = j
    <2>1. i + 1 = j + 1 BY <1>5 DEF Inv, OneAnswer
    <2> QED BY <2>1 DEF Reads
  <1> QED BY <1>3, <1>4, <1>5, <1>6

-----------------------------------------------------------------------------
\* The types are kept by every step.
LEMMA TypedStays == Typed /\ [Next]_vars => Typed'
  <1> SUFFICES ASSUME Typed, [Next]_vars PROVE Typed' OBVIOUS
  <1>1. ASSUME NEW o \in Ops, Build(o) PROVE Typed'
    <2>1. phase \in 1 .. 6 BY <1>1 DEF Typed, Build, End
    <2>2. Rom \in Roms BY <2>1 DEF Rom, Phases, Roms
    <2>3. Named(o) \in Commands BY <2>2, <1>1 DEF Named, Commands, Typed
    <2>4. buffer' \in [Ops -> Commands \cup {Nothing}] BY <1>1, <2>3 DEF Build, Typed
    <2>5. [cmd |-> Named(o), got |-> Nothing] \in Entry BY <2>3 DEF Entry
    <2>6. CASE HasRoom
      <3>1. wire' = Append(wire, [cmd |-> Named(o), got |-> Nothing]) /\ step' = "poll"
        BY <1>1, <2>6 DEF Build, Transfer
      <3>2. wire' \in Seq(Entry) /\ Len(wire') = Len(wire) + 1
        BY <3>1, <2>5, AppendProperties DEF Typed
      <3> QED BY <3>1, <3>2, <2>4, <1>1 DEF Typed, Build
    <2>7. CASE ~HasRoom
      <3>1. UNCHANGED wire /\ step' = "timeout" BY <1>1, <2>7 DEF Build, Transfer
      <3> QED BY <3>1, <2>4, <1>1 DEF Typed, Build
    <2> QED BY <2>6, <2>7
  <1>2. CASE Polled
    <2>1. CASE op = "wr"
      <3>1. NextBlock /\ step # "over" BY <1>2, <2>1 DEF Polled
      <3> QED BY <3>1, <1>2, NextPhase DEF Polled, Typed
    <2>2. CASE op # "wr" BY <1>2, <2>2 DEF Polled, Typed, Ops, End
    <2> QED BY <2>1, <2>2
  <1>3. CASE TimedOut
    <2>1. CASE op = "er" BY <1>3, <2>1 DEF TimedOut, Typed, Ops, End
    <2>2. CASE op # "er"
      <3>1. Enter(After(FALSE)) /\ step # "over" BY <1>3, <2>2 DEF TimedOut
      <3> QED BY <3>1, <1>3, NextPhase DEF TimedOut, Typed
    <2> QED BY <2>1, <2>2
  <1>4. CASE ReadLevel
    <2>1. rx # <<>> /\ NextBlock /\ step # "over" BY <1>4 DEF ReadLevel, Typed
    <2>2. Tail(rx) \in Seq(Commands) BY <2>1, HeadTailProperties DEF Typed
    <2> QED BY <2>1, <2>2, <1>4, NextPhase DEF ReadLevel, Typed
  <1>5. CASE Fetch
    <2> DEFINE k == fetched + 1
               e == [wire[k] EXCEPT !.got = buffer[wire[k].cmd.op]]
    <2>1. k \in 1 .. Len(wire) BY <1>5 DEF Fetch, Busy, Typed
    <2>2. wire[k] \in Entry BY <2>1, ElementOfSeq DEF Typed
    <2>3. e \in Entry BY <2>2 DEF Entry, Typed, Commands
    <2>4. wire' = [wire EXCEPT ![k] = e] BY <1>5 DEF Fetch
    <2>5. wire' \in Seq(Entry) /\ Len(wire') = Len(wire)
      BY <2>1, <2>3, <2>4, ExceptSeq DEF Typed
    <2> QED BY <2>1, <2>5, <1>5 DEF Fetch, Typed, mainVars
  <1>6. CASE Accept
    <2>1. wire' \in Seq(Entry) /\ fetched' \in 0 .. Len(wire') BY <1>6, Taken DEF Accept
    <2>2. rx' \in Seq(Commands)
      <3> DEFINE c == Head(wire).got
      <3>1. Head(wire) \in Entry BY <1>6, HeadTailProperties DEF Accept, Typed
      <3>2. c.op = "rd" => c \in Commands BY <3>1 DEF Entry, Nothing
      <3>3. UNCHANGED rx \/ (c.op = "rd" /\ rx' = Append(rx, c)) BY <1>6 DEF Accept
      <3>4. rx \in Seq(Commands) BY DEF Typed
      <3> HIDE DEF c
      <3>5. CASE c.op = "rd" /\ rx' = Append(rx, c) BY <3>2, <3>4, <3>5, AppendProperties
      <3> QED BY <3>3, <3>4, <3>5
    <2> QED BY <1>6, <2>1, <2>2 DEF Accept, Typed, mainVars
  <1>7. CASE Refuse
    <2>1. wire' \in Seq(Entry) /\ fetched' \in 0 .. Len(wire') BY <1>7, Taken DEF Refuse
    <2> QED BY <1>7, <2>1 DEF Refuse, Typed, mainVars
  <1>8. CASE Flush
    <2>1. wire' \in Seq(Entry) /\ fetched' \in 0 .. Len(wire') BY <1>8, Taken DEF Flush
    <2> QED BY <1>8, <2>1 DEF Flush, Typed, mainVars
  <1>9. CASE DeviceReady \/ Stall \/ Unstall \/ i2c_callback \/ UNCHANGED vars
    BY <1>9 DEF DeviceReady, Stall, Unstall, i2c_callback, vars, Typed, mainVars
  <1> QED BY <1>1, <1>2, <1>3, <1>4, <1>5, <1>6, <1>7, <1>8, <1>9
      DEF Next, Main, Bus, BuildRead, BuildErase, BuildWrite, Ops

-----------------------------------------------------------------------------
\* The invariant is kept by every step.
LEMMA InvStays == Inv /\ [Next]_vars => Inv'
  <1> SUFFICES ASSUME Inv, [Next]_vars PROVE Inv' OBVIOUS
  <1>0. Typed' BY TypedStays DEF Inv
  <1> SUFFICES ASSUME ~failed' PROVE (OneAhead /\ OneAnswer /\ Faithful)' BY <1>0 DEF Inv
  <1> USE <1>0
  <1>1. ~failed
    BY DEF Inv, Typed, Next, Main, Bus, BuildRead, BuildErase, BuildWrite, Build, Polled, TimedOut,
           ReadLevel, Fetch, Accept, Refuse, Flush, DeviceReady, Stall, Unstall, i2c_callback, vars
  <1>2. Typed /\ OneAhead /\ OneAnswer /\ Faithful BY <1>1 DEF Inv
  <1>3. Len(wire) \in Nat /\ fetched \in 0 .. Len(wire) BY <1>2 DEF Typed
  <1>4. ASSUME NEW o \in Ops, Build(o) PROVE (OneAhead /\ OneAnswer /\ Faithful)'
    <2>1. fetched = Len(wire) BY <1>2, <1>4 DEF OneAhead, Build
    <2>2. HasRoom BY <2>1, <1>3, DepthsAssumption DEF HasRoom
    <2>3. /\ wire' = Append(wire, [cmd |-> Named(o), got |-> Nothing]) /\ step' = "poll"
          /\ fetched' = fetched /\ rx' = rx /\ op' = op /\ op = o
          /\ phase' = phase /\ block' = block /\ buffer' = [buffer EXCEPT ![o] = Named(o)]
      BY <1>4, <2>2 DEF Build, Transfer
    <2>4. /\ Len(wire') = Len(wire) + 1
          /\ \A i \in 1 .. Len(wire) : wire'[i] = wire[i]
          /\ wire'[Len(wire) + 1] = [cmd |-> Named(o), got |-> Nothing]
      <3>1. wire \in Seq(Entry) BY <1>2 DEF Typed
      <3> QED BY <3>1, <2>3, AppendProperties
    <2>5. OneAhead' BY <2>1, <2>3, <2>4, <1>3 DEF OneAhead
    <2>6. rx = <<>> /\ Reads = {} BY <1>2, <1>4 DEF OneAnswer, Build
    <2>7. Reads' \subseteq {Len(wire) + 1} BY <2>4, <2>6, <1>3 DEF Reads
    <2>8. Named("rd")' = Named("rd") BY <2>3 DEF Named, Rom
    <2>9. Reads' # {} => o = "rd" BY <2>7, <2>4 DEF Reads, Named
    <2>10. OneAnswer' BY <2>3, <2>4, <2>6, <2>7, <2>8, <2>9 DEF OneAnswer
    <2>11. Faithful'
      <3>1. ASSUME NEW i \in 1 .. fetched' PROVE wire'[i].got = wire'[i].cmd
        BY <2>1, <2>3, <2>4, <1>2, <1>3 DEF Faithful
      <3>2. ASSUME NEW i \in fetched' + 1 .. Len(wire') PROVE buffer'[wire'[i].cmd.op] = wire'[i].cmd
        <4>1. i = Len(wire) + 1 BY <2>1, <2>3, <2>4, <1>3
        <4>2. Named(o).op = o BY DEF Named
        <4>3. buffer'[o] = Named(o) BY <2>3, <1>2, <1>4 DEF Typed
        <4> QED BY <4>1, <4>2, <4>3, <2>4
      <3> QED BY <3>1, <3>2 DEF Faithful
    <2> QED BY <2>5, <2>10, <2>11
  <1>5. CASE Polled
    <2>1. fetched = Len(wire) /\ UNCHANGED <<buffer, wire, fetched, rx>>
      BY <1>5, <1>3 DEF Polled, Busy
    <2>2. CASE op = "rd"
      <3>1. step' = "level" /\ UNCHANGED <<phase, block, op>> BY <1>5, <2>2 DEF Polled
      <3>2. Named("rd")' = Named("rd") /\ Reads' = Reads BY <3>1, <2>1 DEF Named, Rom, Reads
      <3> QED BY <1>2, <2>1, <2>2, <3>1, <3>2 DEF OneAhead, OneAnswer, Faithful
    <2>3. CASE op # "rd"
      <3>1. step' \in {"build", "over"}
        <4>1. CASE op = "er" BY <4>1, <1>5 DEF Polled
        <4>2. CASE op = "wr" BY <4>2, <1>5, <1>2, NextPhase DEF Polled
        <4> QED BY <4>1, <4>2, <2>3, <1>2 DEF Typed, Ops
      <3>2. rx = <<>> /\ Reads = {} BY <2>3, <1>2 DEF OneAnswer
      <3>3. Reads' = {} BY <3>2, <2>1 DEF Reads
      <3> QED BY <1>2, <2>1, <3>1, <3>2, <3>3 DEF OneAhead, OneAnswer, Faithful
    <2> QED BY <2>2, <2>3
  <1>6. CASE TimedOut BY <1>6 DEF TimedOut
  <1>7. CASE ReadLevel
    <2>1. /\ NextBlock /\ step = "level" /\ rx' = Tail(rx) /\ rx # <<>>
          /\ UNCHANGED <<buffer, wire, fetched>>
      BY <1>7, <1>2 DEF ReadLevel, Typed
    <2>2. step' \in {"build", "over"} BY <2>1, <1>2, NextPhase
    <2>3. fetched = Len(wire) BY <2>1, <1>2 DEF OneAhead
    <2>4. Len(Tail(rx)) = Len(rx) - 1 /\ Tail(rx) \in Seq(Commands) /\ Len(rx) \in Nat
      BY <2>1, <1>2, HeadTailProperties DEF Typed
    <2>5. Len(rx') = 0 BY <2>1, <2>4, <1>0, <1>2 DEF OneAnswer, Typed
    <2>6. rx' = <<>> BY <2>5, <1>0, EmptySeq DEF Typed
    <2>7. Reads' = {} BY <2>1, <1>2 DEF OneAnswer, Reads
    <2> QED BY <1>2, <2>1, <2>2, <2>3, <2>5, <2>6, <2>7 DEF OneAhead, OneAnswer, Faithful
  <1>8. CASE Fetch
    <2> DEFINE k == fetched + 1
               e == [wire[k] EXCEPT !.got = buffer[wire[k].cmd.op]]
    <2>1. k \in 1 .. Len(wire) BY <1>8, <1>3 DEF Fetch, Busy
    <2>2. wire[k] \in Entry BY <2>1, <1>2, ElementOfSeq DEF Typed
    <2>3. e.cmd = wire[k].cmd /\ e.got = wire[k].cmd
      BY <2>1, <2>2, <1>2, <1>3 DEF Entry, Faithful
    <2>4. wire' = [wire EXCEPT ![k] = e] /\ fetched' = k /\ UNCHANGED <<mainVars, buffer, rx>>
      BY <1>8 DEF Fetch
    <2>5. /\ Len(wire') = Len(wire) /\ wire'[k] = e
          /\ \A i \in 1 .. Len(wire) : i # k => wire'[i] = wire[i]
      <3>1. e \in Entry BY <2>2, <1>2 DEF Entry, Typed, Commands
      <3> QED BY <3>1, <2>1, <2>4, <1>2, ExceptSeq DEF Typed
    <2>6. \A i \in 1 .. Len(wire) : wire'[i].cmd = wire[i].cmd BY <2>3, <2>5
    <2>7. Reads' = Reads /\ Named("rd")' = Named("rd")
      BY <2>4, <2>5, <2>6 DEF Reads, Named, Rom, mainVars
    <2>8. OneAhead' BY <1>2, <1>3, <2>1, <2>4, <2>5 DEF OneAhead, mainVars
    <2>9. OneAnswer' BY <1>2, <2>4, <2>6, <2>7 DEF OneAnswer, mainVars, Reads
    <2>10. Faithful'
      <3>1. ASSUME NEW i \in 1 .. fetched' PROVE wire'[i].got = wire'[i].cmd
        <4>1. CASE i = k BY <4>1, <2>3, <2>5
        <4>2. CASE i # k BY <4>2, <1>2, <1>3, <2>1, <2>4, <2>5 DEF Faithful
        <4> QED BY <4>1, <4>2
      <3>2. ASSUME NEW i \in fetched' + 1 .. Len(wire') PROVE buffer'[wire'[i].cmd.op] = wire'[i].cmd
        BY <1>2, <1>3, <2>1, <2>4, <2>5, <2>6 DEF Faithful
      <3> QED BY <3>1, <3>2 DEF Faithful
    <2> QED BY <2>8, <2>9, <2>10
  <1>9. ASSUME fetched > 0, Take, UNCHANGED <<mainVars, buffer, failed>>, UNCHANGED rx
        PROVE  (OneAhead /\ OneAnswer /\ Faithful)'
    <2>1. /\ OneAhead' /\ Faithful' /\ \A i, j \in Reads' : i = j
          /\ \A i \in Reads' : i + 1 \in Reads /\ wire'[i].cmd = Named("rd")
      BY <1>9, <1>1, TakenInStep
    <2>2. Named("rd")' = Named("rd") BY <1>9 DEF Named, Rom, mainVars
    <2>3. OneAnswer' BY <1>2, <1>9, <2>1, <2>2 DEF OneAnswer, mainVars
    <2> QED BY <2>1, <2>3
  <1>10. CASE Accept
    <2> DEFINE c == Head(wire).got
    <2>1. CASE UNCHANGED rx BY <2>1, <1>9, <1>10 DEF Accept
    <2>2. CASE rx' = Append(rx, c) /\ c.op = "rd"
      <3>1. /\ OneAhead' /\ Faithful' /\ \A i, j \in Reads' : i = j
            /\ \A i \in Reads' : i + 1 \in Reads /\ wire'[i].cmd = Named("rd")
        BY <1>10, <1>1, TakenInStep DEF Accept
      <3>2. Head(wire) = wire[1] /\ 1 \in 1 .. fetched /\ 1 \in 1 .. Len(wire)
        <4>1. wire # <<>> BY <1>10, <1>2 DEF Accept, Typed
        <4> QED BY <4>1, <1>10, <1>2, <1>3, HeadTailProperties DEF Accept, Typed
      <3>3. c = wire[1].cmd BY <3>2, <1>2 DEF Faithful
      <3>4. 1 \in Reads BY <2>2, <3>2, <3>3 DEF Reads
      <3>5. c = Named("rd") /\ rx = <<>> BY <3>3, <3>4, <1>2 DEF OneAnswer
      <3>6. rx' = <<c>> BY <2>2, <3>5
      <3>7. Reads' = {}
        <4>1. ASSUME NEW i \in Reads' PROVE FALSE
          <5>1. i + 1 = 1 BY <4>1, <3>1, <3>4, <1>2 DEF OneAnswer
          <5> QED BY <5>1 DEF Reads
        <4> QED BY <4>1
      <3>8. Named("rd")' = Named("rd") BY <1>10 DEF Accept, Named, Rom, mainVars
      <3>9. OneAnswer' BY <1>2, <1>10, <3>4, <3>5, <3>6, <3>7, <3>8 DEF OneAnswer, Accept, mainVars
      <3> QED BY <3>1, <3>9
    <2> QED BY <2>1, <2>2, <1>10 DEF Accept
  <1>11. CASE Refuse BY <1>9, <1>11 DEF Refuse
  <1>12. CASE Flush BY <1>9, <1>12 DEF Flush
  <1>13. CASE DeviceReady \/ Stall \/ Unstall \/ i2c_callback \/ UNCHANGED vars
    <2>1. UNCHANGED <<mainVars, buffer, wire, fetched, rx>>
      BY <1>13 DEF DeviceReady, Stall, Unstall, i2c_callback, vars
    <2> QED BY <1>2, <2>1 DEF OneAhead, OneAnswer, Faithful, mainVars, Reads, Named, Rom
  <1> QED BY <1>4, <1>5, <1>6, <1>7, <1>8, <1>10, <1>11, <1>12, <1>13
      DEF Next, Main, Bus, BuildRead, BuildErase, BuildWrite, Ops

\* The invariant holds in every state.
LEMMA InvAlways == Spec => []Inv
  <1>1. Init => Inv
    <2> SUFFICES ASSUME Init PROVE Inv OBVIOUS
    <2>0. <<>> \in Seq(Entry) /\ <<>> \in Seq(Commands) /\ Len(<<>>) = 0 /\ 0 \in Blocks
      BY EmptySeq, BlocksAssumption DEF Blocks
    <2>1. Typed
      <3>1. buffer \in [Ops -> Commands \cup {Nothing}] BY DEF Init
      <3>2. /\ phase = 1 /\ block = 0 /\ op = "rd" /\ step = "build" /\ wire = <<>> /\ fetched = 0
            /\ rx = <<>>
        BY DEF Init
      <3>3. wire \in Seq(Entry) /\ fetched \in 0 .. Len(wire) /\ rx \in Seq(Commands)
        BY <2>0, <3>2
      <3>4. /\ phase \in 1 .. End /\ op \in Ops /\ (phase = End <=> step = "over")
            /\ step \in {"build", "poll", "timeout", "level", "over"}
        BY <3>2 DEF Ops, End
      <3>5. block \in Blocks /\ failed \in BOOLEAN BY <2>0 DEF Init
      <3> QED BY <3>1, <3>3, <3>4, <3>5 DEF Typed
    <2>2. wire = <<>> /\ rx = <<>> /\ fetched = 0 /\ step = "build" /\ Len(wire) = 0 /\ Len(rx) = 0
      BY DEF Init
    <2>3. Reads = {} BY <2>2 DEF Reads
    <2>4. OneAhead /\ OneAnswer /\ Faithful BY <2>2, <2>3 DEF OneAhead, OneAnswer, Faithful
    <2> QED BY <2>1, <2>4 DEF Inv
  <1> QED BY <1>1, InvStays, PTL DEF Spec

\* Until a transfer fails, every command is sent as main built it and every answer is
\* the one read_gp_rom waits for (main.c, alt_msgdma_descriptor_sync_transfer).
THEOREM StaysInStep == Spec => []InStep
  <1>1. Inv => InStep BY DEF Inv, InStep, OneAnswer, Faithful, Named, Reads
  <1> QED BY <1>1, InvAlways, PTL
-----------------------------------------------------------------------------
(* What has become of each block.                                           *)

Erase(r, b) == [op |-> "er", rom |-> r, block |-> b]
Write(r, b) == [op |-> "wr", rom |-> r, block |-> b]
OnWire(c)   == \E i \in 1 .. Len(wire) : wire[i].cmd = c

\* The phase in which a memory is written, and what main has sent of a block.
WritePhase(r) == IF r = "nvm" THEN 3 ELSE 5
PastBlock(r, b) == phase > WritePhase(r) \/ (phase = WritePhase(r) /\ block > b)
AtBlock(r, b)   == phase = WritePhase(r) /\ block = b
EraseSent(r, b) == PastBlock(r, b) \/ (AtBlock(r, b) /\ (op = "wr" \/ step = "poll"))
WriteSent(r, b) == PastBlock(r, b) \/ (AtBlock(r, b) /\ op = "wr" /\ step = "poll")

\* A block's erase and write are under way once at most, in that order, and only when
\* they have been sent.
InOrder(r, b) ==
    /\ OnWire(Erase(r, b)) => EraseSent(r, b)
    /\ OnWire(Write(r, b)) => WriteSent(r, b)
    /\ WriteSent(r, b) /\ OnWire(Erase(r, b)) => OnWire(Write(r, b))
    /\ \A i, j \in 1 .. Len(wire) :
         /\ wire[i].cmd = Write(r, b) /\ wire[j].cmd = Write(r, b) => i = j
         /\ wire[i].cmd = Erase(r, b) /\ wire[j].cmd = Write(r, b) => i < j

\* Until its write is taken a block is erased as soon as its erase is taken, and then
\* it is written, unless one of the two was lost.
Written(r, b) ==
    Erase(r, b) \in lost
    \/ /\ mem[r][b] # "mixed"
       /\ EraseSent(r, b) /\ ~OnWire(Erase(r, b)) /\ (OnWire(Write(r, b)) \/ ~WriteSent(r, b))
            => mem[r][b] = "erased"
       /\ WriteSent(r, b) /\ ~OnWire(Write(r, b)) =>
            Write(r, b) \in lost \/ mem[r][b] = "written"

\* The answer to the last read is behind everything that was sent.
ReadLast ==
    /\ phase \in {3, 5} <=> op \in {"er", "wr"}
    /\ step = "level" => op = "rd"
    /\ step \in {"poll", "level"} /\ op = "rd" => wire = <<>> \/ wire[Len(wire)].cmd.op = "rd"
    /\ step = "over" => wire = <<>>

Memories ==
    /\ mem \in [Roms -> [Blocks -> {"old", "erased", "written", "mixed"}]]
    /\ ~failed => ReadLast /\ \A r \in Roms, b \in Blocks : InOrder(r, b) /\ Written(r, b)

\* Where main goes on from a block that is done, nothing it has sent is forgotten, and
\* it ends after a read only.
LEMMA SentStays ==
    ASSUME Typed, ReadLast, Polled \/ ReadLevel, NEW r \in Roms, NEW b \in Blocks
    PROVE  EraseSent(r, b)' = EraseSent(r, b) /\ WriteSent(r, b)' = WriteSent(r, b)
  <1>0. phase \in 1 .. 7 /\ block \in 0 .. LastBlock /\ b \in 0 .. LastBlock /\ LastBlock \in Nat
    BY BlocksAssumption DEF Typed, End, Blocks
  <1>1. WritePhase(r) \in {3, 5} BY DEF WritePhase
  <1>2. CASE Polled /\ op = "er"
    <2>1. step = "poll" /\ op' = "wr" /\ step' = "build" /\ UNCHANGED <<phase, block>>
      BY <1>2 DEF Polled
    <2>2. PastBlock(r, b)' = PastBlock(r, b) /\ AtBlock(r, b)' = AtBlock(r, b)
      BY <2>1 DEF PastBlock, AtBlock
    <2> QED BY <1>2, <2>1, <2>2 DEF EraseSent, WriteSent
  <1>3. CASE Polled /\ op = "rd"
    <2>1. UNCHANGED <<phase, block, op>> /\ phase \notin {3, 5}
      BY <1>3 DEF Polled, ReadLast
    <2> QED BY <1>0, <1>1, <2>1 DEF EraseSent, WriteSent, PastBlock, AtBlock
  <1>4. ASSUME NextBlock, op = "wr" => step = "poll", op # "er"
        PROVE  EraseSent(r, b)' = EraseSent(r, b) /\ WriteSent(r, b)' = WriteSent(r, b)
    <2>1. phase # 7 => After(TRUE) = phase + 1 BY DEF After
    <2>2. CASE block = LastBlock
      <3>1. phase' = After(TRUE) /\ block' = 0 /\ op' = First(After(TRUE)) /\ step' \in {"build", "over"}
        BY <1>4, <2>2 DEF NextBlock, Enter
      <3>2. phase' = phase + 1 BY <3>1 DEF After
      <3>3. op' = "wr" => FALSE BY <3>1 DEF First
      <3>4. phase \in {3, 5} <=> op = "wr" BY <1>4 DEF ReadLast, Typed, Ops
      <3>5. op' # "wr" /\ step' # "poll" /\ ~(block' > b)
        <4>1. op' # "wr" BY <3>3
        <4>2. step' # "poll" BY <3>1
        <4>3. ~(block' > b) BY <1>0, <3>1
        <4> QED BY <4>1, <4>2, <4>3
      <3>6. EraseSent(r, b)' = (phase' > WritePhase(r)) /\ WriteSent(r, b)' = (phase' > WritePhase(r))
        BY <3>5 DEF EraseSent, WriteSent, PastBlock
      <3>7. CASE op = "wr"
        <4>1. EraseSent(r, b) = (phase >= WritePhase(r)) /\ WriteSent(r, b) = (phase >= WritePhase(r))
          BY <1>0, <1>1, <1>4, <2>2, <3>7 DEF EraseSent, WriteSent, PastBlock, AtBlock
        <4> QED BY <1>0, <1>1, <3>2, <3>6, <4>1
      <3>8. CASE op # "wr"
        <4>1. phase # WritePhase(r) BY <1>1, <3>4, <3>8
        <4>2. EraseSent(r, b) = (phase > WritePhase(r)) /\ WriteSent(r, b) = (phase > WritePhase(r))
          BY <1>0, <1>1, <4>1 DEF EraseSent, WriteSent, PastBlock, AtBlock
        <4> QED BY <1>0, <1>1, <3>2, <3>6, <4>1, <4>2
      <3> QED BY <3>7, <3>8
    <2>3. CASE block # LastBlock
      <3>1. block' = block + 1 /\ op' = First(phase) /\ step' = "build" /\ phase' = phase
        BY <1>4, <2>3 DEF NextBlock
      <3>2. op' = "wr" => FALSE BY <3>1 DEF First
      <3>3. phase \in {3, 5} <=> op = "wr" BY <1>4 DEF ReadLast, Typed, Ops
      <3> QED BY <1>0, <1>1, <1>4, <3>1, <3>2, <3>3 DEF EraseSent, WriteSent, PastBlock, AtBlock
    <2> QED BY <2>2, <2>3
  <1>5. CASE Polled /\ op = "wr"
    BY <1>4, <1>5 DEF Polled
  <1>6. CASE ReadLevel
    BY <1>4, <1>6 DEF ReadLevel, ReadLast
  <1> QED BY <1>2, <1>3, <1>5, <1>6 DEF Typed, Ops

\* What was sent, and what is said of a block, while main stands still.
LEMMA SentSame ==
    ASSUME UNCHANGED mainVars, NEW r, NEW b
    PROVE  EraseSent(r, b)' = EraseSent(r, b) /\ WriteSent(r, b)' = WriteSent(r, b)
  BY DEF mainVars, EraseSent, WriteSent, PastBlock, AtBlock

\* A step that leaves the commands under way as they are keeps their order.
LEMMA WireSame ==
    ASSUME Len(wire') = Len(wire), \A i \in 1 .. Len(wire) : wire'[i].cmd = wire[i].cmd,
           NEW r \in Roms, NEW b \in Blocks, InOrder(r, b) /\ Written(r, b),
           EraseSent(r, b)' = EraseSent(r, b) /\ WriteSent(r, b)' = WriteSent(r, b),
           UNCHANGED <<mem, lost>>
    PROVE  InOrder(r, b)' /\ Written(r, b)'
  <1>1. \A c : OnWire(c)' = OnWire(c) BY DEF OnWire
  <1>2. InOrder(r, b)' BY <1>1 DEF InOrder, Erase, Write
  <1>3. Written(r, b)' BY <1>1 DEF Written, Erase, Write
  <1> QED BY <1>2, <1>3

\* The first command is taken: only that one is no longer under way, and if it is a
\* write, neither is the erase of its block.
LEMMA TakenOrder ==
    ASSUME Typed, fetched > 0, Take, UNCHANGED mainVars, NEW r \in Roms, NEW b \in Blocks, InOrder(r, b)
    PROVE  /\ InOrder(r, b)'
           /\ \A c : OnWire(c)' => OnWire(c)
           /\ \A c : OnWire(c) /\ wire[1].cmd # c => OnWire(c)'
           /\ OnWire(wire[1].cmd)
           /\ wire[1].cmd = Write(r, b) => ~OnWire(Write(r, b))' /\ ~OnWire(Erase(r, b))
  <1> DEFINE W == Write(r, b)
             E == Erase(r, b)
  <1>1. /\ Len(wire') = Len(wire) - 1 /\ Len(wire) \in Nat /\ Len(wire) > 0
        /\ \A i \in 1 .. Len(wire') : wire'[i] = wire[i + 1]
    BY Taken DEF Typed
  <1>2. \A c : OnWire(c)' => OnWire(c)
    <2> SUFFICES ASSUME NEW c, NEW i \in 1 .. Len(wire'), wire'[i].cmd = c PROVE OnWire(c) BY DEF OnWire
    <2>1. i + 1 \in 1 .. Len(wire) /\ wire[i + 1].cmd = c BY <1>1
    <2> QED BY <2>1 DEF OnWire
  <1>3. \A c : OnWire(c) /\ wire[1].cmd # c => OnWire(c)'
    <2> SUFFICES ASSUME NEW c, NEW i \in 1 .. Len(wire), wire[i].cmd = c, wire[1].cmd # c
                 PROVE  OnWire(c)'
      BY DEF OnWire
    <2>1. i # 1 OBVIOUS
    <2>2. i - 1 \in 1 .. Len(wire') /\ wire'[i - 1] = wire[(i - 1) + 1] /\ (i - 1) + 1 = i
      BY <1>1, <2>1
    <2> QED BY <2>2 DEF OnWire
  <1>4. OnWire(wire[1].cmd) BY <1>1 DEF OnWire
  <1>5. \A i, j \in 1 .. Len(wire) : (wire[i].cmd = W /\ wire[j].cmd = W => i = j)
                                  /\ (wire[i].cmd = E /\ wire[j].cmd = W => i < j)
    BY DEF InOrder
  <1>6. wire[1].cmd = W => ~OnWire(W)' /\ ~OnWire(E)
    <2> SUFFICES ASSUME wire[1].cmd = W PROVE ~OnWire(W)' /\ ~OnWire(E) OBVIOUS
    <2>1. ASSUME NEW i \in 1 .. Len(wire'), wire'[i].cmd = W PROVE FALSE
      <3>1. i + 1 \in 1 .. Len(wire) /\ wire[i + 1].cmd = W /\ 1 \in 1 .. Len(wire) BY <1>1, <2>1
      <3>2. i + 1 = 1 BY <1>5, <3>1
      <3> QED BY <3>2
    <2>2. ASSUME NEW i \in 1 .. Len(wire), wire[i].cmd = E PROVE FALSE
      <3>1. i < 1 BY <1>1, <1>5, <2>2
      <3> QED BY <3>1
    <2>3. W' = W /\ E' = E BY DEF Write, Erase
    <2> QED BY <2>1, <2>2, <2>3 DEF OnWire
  <1>7. EraseSent(r, b)' = EraseSent(r, b) /\ WriteSent(r, b)' = WriteSent(r, b) BY SentSame
  <1>8. \A i, j \in 1 .. Len(wire') : (wire'[i].cmd = W /\ wire'[j].cmd = W => i = j)
                                   /\ (wire'[i].cmd = E /\ wire'[j].cmd = W => i < j)
    <2> SUFFICES ASSUME NEW i \in 1 .. Len(wire'), NEW j \in 1 .. Len(wire')
                 PROVE  (wire'[i].cmd = W /\ wire'[j].cmd = W => i = j)
                        /\ (wire'[i].cmd = E /\ wire'[j].cmd = W => i < j)
      OBVIOUS
    <2>1. /\ i + 1 \in 1 .. Len(wire) /\ wire'[i] = wire[i + 1]
          /\ j + 1 \in 1 .. Len(wire) /\ wire'[j] = wire[j + 1]
      BY <1>1
    <2>2. (wire[i + 1].cmd = W /\ wire[j + 1].cmd = W => i + 1 = j + 1)
          /\ (wire[i + 1].cmd = E /\ wire[j + 1].cmd = W => i + 1 < j + 1)
      BY <1>5, <2>1
    <2> HIDE DEF W, E
    <2> QED BY <2>1, <2>2
  <1>9. WriteSent(r, b) /\ OnWire(E)' => OnWire(W)'
    <2>1. WriteSent(r, b) /\ OnWire(E) => OnWire(W) BY DEF InOrder
    <2> QED BY <1>2, <1>3, <1>6, <2>1
  <1>10. InOrder(r, b)'
    <2>1. OnWire(E)' => EraseSent(r, b)' BY <1>2, <1>7 DEF InOrder
    <2>2. OnWire(W)' => WriteSent(r, b)' BY <1>2, <1>7 DEF InOrder
    <2> QED BY <1>7, <1>8, <1>9, <2>1, <2>2 DEF InOrder, Erase, Write
  <1> QED BY <1>2, <1>3, <1>4, <1>6, <1>10

\* A command names one block.
LEMMA Names ==
    ASSUME NEW c \in Commands, NEW r \in Roms, NEW b \in Blocks
    PROVE  /\ c = Erase(r, b) <=> c.op = "er" /\ c.rom = r /\ c.block = b
           /\ c = Write(r, b) <=> c.op = "wr" /\ c.rom = r /\ c.block = b
  BY DEF Commands, Erase, Write

LEMMA WriteAfterErase ==
    ASSUME NEW r, NEW b, WriteSent(r, b)
    PROVE  EraseSent(r, b)
  BY DEF WriteSent, EraseSent

\* A taken command does to its block what it says, and to no other.
LEMMA AcceptWritten ==
    ASSUME Inv, ~failed, Accept, mem \in [Roms -> [Blocks -> {"old", "erased", "written", "mixed"}]],
           NEW r \in Roms, NEW b \in Blocks, InOrder(r, b), Written(r, b)
    PROVE  Written(r, b)'
  <1> DEFINE W == Write(r, b)
             E == Erase(r, b)
             c == Head(wire).got
  <1>1. /\ fetched > 0 /\ Take /\ UNCHANGED mainVars /\ lost' = lost
    BY DEF Accept
  <1>2. Typed /\ Faithful BY DEF Inv
  <1>3. Head(wire) = wire[1] /\ 1 \in 1 .. fetched /\ 1 \in 1 .. Len(wire) /\ wire[1] \in Entry
    <2>1. wire # <<>> BY <1>1, <1>2 DEF Typed
    <2> QED BY <2>1, <1>1, <1>2, HeadTailProperties DEF Typed
  <1>4. c = wire[1].cmd /\ c \in Commands BY <1>2, <1>3 DEF Faithful, Entry
  <1>5. /\ OnWire(E)' => OnWire(E)
        /\ OnWire(W)' => OnWire(W)
        /\ OnWire(E) /\ c # E => OnWire(E)'
        /\ OnWire(W) /\ c # W => OnWire(W)'
        /\ OnWire(c)
        /\ c = W => ~OnWire(W)' /\ ~OnWire(E)
    BY <1>1, <1>2, <1>4, TakenOrder
  <1>6. EraseSent(r, b)' = EraseSent(r, b) /\ WriteSent(r, b)' = WriteSent(r, b) BY <1>1, SentSame
  <1>7. E' = E /\ W' = W BY DEF Erase, Write
  <1> SUFFICES ASSUME E \notin lost PROVE Written(r, b)' BY <1>1, <1>7 DEF Written
  <1>8. /\ mem[r][b] # "mixed"
        /\ EraseSent(r, b) /\ ~OnWire(E) /\ (OnWire(W) \/ ~WriteSent(r, b)) => mem[r][b] = "erased"
        /\ WriteSent(r, b) /\ ~OnWire(W) => W \in lost \/ mem[r][b] = "written"
    BY DEF Written
  <1>9. /\ c.op = "rd" => mem' = mem
        /\ c.op = "er" => mem' = [mem EXCEPT ![c.rom][c.block] = "erased"]
        /\ c.op = "wr" => mem' = [mem EXCEPT ![c.rom][c.block] =
                                     IF @ = "erased" THEN "written" ELSE "mixed"]
        /\ c.op \in Ops /\ c.rom \in Roms /\ c.block \in Blocks
    BY <1>4 DEF Accept, Commands
  <1>10. CASE c = E
    <2>1. mem'[r][b] = "erased" BY <1>4, <1>9, <1>10, Names
    <2>2. E # W BY DEF Erase, Write
    <2>3. WriteSent(r, b) => OnWire(W)' BY <1>5, <1>10, <2>2 DEF InOrder
    <2> QED BY <1>6, <1>7, <2>1, <2>3 DEF Written
  <1>11. CASE c = W
    <2>1. mem'[r][b] = IF mem[r][b] = "erased" THEN "written" ELSE "mixed"
      BY <1>4, <1>9, <1>11, Names
    <2>2. WriteSent(r, b) /\ EraseSent(r, b) BY <1>5, <1>11, WriteAfterErase DEF InOrder
    <2>3. mem'[r][b] = "written" BY <1>5, <1>8, <1>11, <2>1, <2>2
    <2> QED BY <1>5, <1>6, <1>7, <1>11, <2>2, <2>3 DEF Written
  <1>12. CASE c # E /\ c # W
    <2>1. mem'[r][b] = mem[r][b]
      <3>1. CASE c.op = "rd" BY <1>9, <3>1
      <3>2. CASE c.op # "rd"
        <4>1. c.rom # r \/ c.block # b BY <1>4, <1>9, <1>12, <3>2, Names DEF Ops
        <4> HIDE DEF c
        <4> QED BY <1>9, <3>2, <4>1 DEF Ops
      <3> QED BY <3>1, <3>2
    <2>2. (OnWire(E)' <=> OnWire(E)) /\ (OnWire(W)' <=> OnWire(W)) BY <1>5, <1>12
    <2> QED BY <1>1, <1>6, <1>7, <1>8, <2>1, <2>2 DEF Written
  <1> QED BY <1>10, <1>11, <1>12

\* A command that is lost is remembered.
LEMMA LostWritten ==
    ASSUME Typed, fetched > 0, Take, UNCHANGED <<mainVars, mem>>, lost' = lost \cup {Head(wire).cmd},
           NEW r \in Roms, NEW b \in Blocks, InOrder(r, b), Written(r, b)
    PROVE  Written(r, b)'
  <1> DEFINE W == Write(r, b)
             E == Erase(r, b)
             c == wire[1].cmd
  <1>1. Head(wire) = wire[1]
    <2>1. wire # <<>> BY DEF Typed
    <2> QED BY <2>1, HeadTailProperties DEF Typed
  <1>2. /\ OnWire(E)' => OnWire(E)
        /\ OnWire(W)' => OnWire(W)
        /\ OnWire(E) /\ c # E => OnWire(E)'
        /\ OnWire(W) /\ c # W => OnWire(W)'
        /\ OnWire(c)
        /\ c = W => ~OnWire(W)' /\ ~OnWire(E)
    BY TakenOrder
  <1>3. EraseSent(r, b)' = EraseSent(r, b) /\ WriteSent(r, b)' = WriteSent(r, b) BY SentSame
  <1>4. lost' = lost \cup {c} /\ E' = E /\ W' = W BY <1>1 DEF Erase, Write
  <1>5. CASE c = E \/ E \in lost BY <1>4, <1>5 DEF Written
  <1>6. CASE c = W /\ E \notin lost
    <2>1. WriteSent(r, b) /\ mem[r][b] # "mixed" BY <1>2, <1>6 DEF InOrder, Written
    <2> QED BY <1>2, <1>3, <1>4, <1>6, <2>1 DEF Written
  <1>7. CASE c # E /\ c # W /\ E \notin lost
    <2>1. (OnWire(E)' <=> OnWire(E)) /\ (OnWire(W)' <=> OnWire(W)) BY <1>2, <1>7
    <2> QED BY <1>3, <1>4, <1>7, <2>1 DEF Written
  <1> QED BY <1>5, <1>6, <1>7

\* Each memory has a phase in which it is written.
LEMMA WritePhases ==
    ASSUME phase \in 1 .. 6
    PROVE  /\ Rom \in Roms
           /\ \A r \in Roms : phase = WritePhase(r) => Rom = r
           /\ phase \in {3, 5} => phase = WritePhase(Rom)
  BY DEF Rom, Phases, Roms, WritePhase

\* Until a transfer has failed a command finds room, behind all that was sent.
LEMMA Sends ==
    ASSUME Inv, ~failed, NEW o \in Ops, Build(o)
    PROVE  /\ Len(wire') = Len(wire) + 1 /\ Len(wire) \in Nat
           /\ \A i \in 1 .. Len(wire) : wire'[i] = wire[i]
           /\ wire'[Len(wire) + 1].cmd = Named(o)
           /\ step = "build" /\ step' = "poll" /\ op = o /\ Named(o) \in Commands
           /\ UNCHANGED <<phase, block, op, rx, mem, lost>>
  <1>1. /\ Typed /\ fetched = Len(wire) /\ step = "build" /\ op = o
        /\ UNCHANGED <<phase, block, op, rx, mem, lost>>
    BY DEF Inv, OneAhead, Build, device
  <1>2. wire \in Seq(Entry) /\ Len(wire) \in Nat BY <1>1 DEF Typed
  <1>3. wire' = Append(wire, [cmd |-> Named(o), got |-> Nothing]) /\ step' = "poll"
    <2>1. HasRoom BY <1>1, <1>2, DepthsAssumption DEF HasRoom
    <2> QED BY <2>1 DEF Build, Transfer
  <1>4. phase \in 1 .. 6 BY <1>1 DEF Typed, End
  <1>5. Named(o) \in Commands BY <1>1, <1>4, WritePhases DEF Named, Commands, Typed
  <1> QED BY <1>1, <1>2, <1>3, <1>5, AppendProperties

LEMMA BuildOrder ==
    ASSUME Inv, ~failed, ReadLast, NEW o \in Ops, Build(o), NEW r \in Roms, NEW b \in Blocks,
           InOrder(r, b), Written(r, b)
    PROVE  InOrder(r, b)' /\ Written(r, b)'
  <1> DEFINE W == Write(r, b)
             E == Erase(r, b)
             c == Named(o)
  <1>1. /\ Len(wire') = Len(wire) + 1 /\ Len(wire) \in Nat
        /\ \A i \in 1 .. Len(wire) : wire'[i] = wire[i]
        /\ wire'[Len(wire) + 1].cmd = c
        /\ step = "build" /\ step' = "poll" /\ op = o /\ c \in Commands
        /\ UNCHANGED <<phase, block, op, rx, mem, lost>>
    BY Sends
  <1>2. phase \in 1 .. 6 /\ Rom \in Roms
    BY <1>1, WritePhases DEF Inv, Typed, End
  <1>3. E' = E /\ W' = W /\ E # W BY DEF Erase, Write
  <1>4. (c = E <=> o = "er" /\ Rom = r /\ block = b) /\ (c = W <=> o = "wr" /\ Rom = r /\ block = b)
    BY <1>1, Names DEF Named
  <1>5. \A d : OnWire(d)' <=> OnWire(d) \/ d = c
    <2> SUFFICES ASSUME NEW d PROVE OnWire(d)' <=> OnWire(d) \/ d = c OBVIOUS
    <2>1. OnWire(d) => OnWire(d)' BY <1>1 DEF OnWire
    <2>2. d = c => OnWire(d)'
      <3>1. Len(wire) + 1 \in 1 .. Len(wire') BY <1>1
      <3> QED BY <1>1, <3>1 DEF OnWire
    <2>3. OnWire(d)' => OnWire(d) \/ d = c
      <3> SUFFICES ASSUME NEW i \in 1 .. Len(wire'), wire'[i].cmd = d, d # c PROVE OnWire(d)
        BY DEF OnWire
      <3>1. i # Len(wire) + 1 BY <1>1
      <3>2. i \in 1 .. Len(wire) BY <1>1, <3>1
      <3> QED BY <1>1, <3>2 DEF OnWire
    <2> QED BY <2>1, <2>2, <2>3
  <1> HIDE DEF c
  <1>6. PastBlock(r, b)' = PastBlock(r, b) /\ AtBlock(r, b)' = AtBlock(r, b)
    BY <1>1 DEF PastBlock, AtBlock
  <1>7. CASE c = E
    <2>1. op = "er" /\ AtBlock(r, b) /\ ~PastBlock(r, b)
      <3>1. phase \in {3, 5} /\ phase = WritePhase(r)
        BY <1>1, <1>2, <1>4, <1>7, WritePhases DEF ReadLast
      <3> QED BY <1>1, <1>4, <1>7, <3>1 DEF AtBlock, PastBlock, Blocks
    <2>2. ~EraseSent(r, b) /\ ~WriteSent(r, b) /\ EraseSent(r, b)' /\ ~WriteSent(r, b)'
      BY <1>1, <1>6, <2>1 DEF EraseSent, WriteSent
    <2>3. ~OnWire(W)' BY <1>3, <1>5, <1>7, <2>2 DEF InOrder
    <2>4. OnWire(E)' BY <1>5, <1>7
    <2>5. InOrder(r, b)' BY <1>3, <2>2, <2>3 DEF InOrder, OnWire
    <2>6. Written(r, b)' BY <1>1, <1>3, <2>2, <2>4 DEF Written
    <2> QED BY <2>5, <2>6
  <1>8. CASE c = W
    <2>1. op = "wr" /\ AtBlock(r, b) /\ ~PastBlock(r, b)
      <3>1. phase \in {3, 5} /\ phase = WritePhase(r)
        BY <1>1, <1>2, <1>4, <1>8, WritePhases DEF ReadLast
      <3> QED BY <1>1, <1>4, <1>8, <3>1 DEF AtBlock, PastBlock, Blocks
    <2>2. EraseSent(r, b) /\ ~WriteSent(r, b) /\ EraseSent(r, b)' /\ WriteSent(r, b)'
      BY <1>1, <1>6, <2>1 DEF EraseSent, WriteSent
    <2>3. ~OnWire(W) /\ OnWire(W)' BY <1>5, <1>8, <2>2 DEF InOrder
    <2>4. OnWire(E)' <=> OnWire(E) BY <1>3, <1>5, <1>8
    <2>5. ASSUME NEW i \in 1 .. Len(wire'), NEW j \in 1 .. Len(wire'), wire'[j].cmd = W
          PROVE  (wire'[i].cmd = W => i = j) /\ (wire'[i].cmd = E => i < j)
      <3>1. \A k \in 1 .. Len(wire') : wire'[k].cmd = W => k = Len(wire) + 1
        <4> SUFFICES ASSUME NEW k \in 1 .. Len(wire'), wire'[k].cmd = W, k # Len(wire) + 1 PROVE FALSE
          OBVIOUS
        <4>1. k \in 1 .. Len(wire) /\ wire[k].cmd = W BY <1>1
        <4> QED BY <2>3, <4>1 DEF OnWire
      <3>2. wire'[i].cmd = E => i # Len(wire) + 1 BY <1>1, <1>3, <1>8
      <3> QED BY <1>1, <2>5, <3>1, <3>2
    <2>6. InOrder(r, b)' BY <1>3, <2>2, <2>3, <2>5 DEF InOrder
    <2>7. Written(r, b)' BY <1>1, <1>3, <2>2, <2>3, <2>4 DEF Written
    <2> QED BY <2>6, <2>7
  <1>9. CASE c # E /\ c # W
    <2>1. AtBlock(r, b) => op = "rd"
      BY <1>1, <1>2, <1>4, <1>9, WritePhases DEF AtBlock, Ops
    <2>2. ~AtBlock(r, b)
      <3>1. AtBlock(r, b) => phase \in {3, 5} BY DEF AtBlock, WritePhase
      <3> QED BY <2>1, <3>1 DEF ReadLast
    <2>3. EraseSent(r, b)' = EraseSent(r, b) /\ WriteSent(r, b)' = WriteSent(r, b)
      BY <1>6, <2>2 DEF EraseSent, WriteSent
    <2>4. (OnWire(E)' <=> OnWire(E)) /\ (OnWire(W)' <=> OnWire(W)) BY <1>5, <1>9
    <2>5. ASSUME NEW i \in 1 .. Len(wire'), NEW j \in 1 .. Len(wire')
          PROVE  /\ wire'[i].cmd = W /\ wire'[j].cmd = W => i = j
                 /\ wire'[i].cmd = E /\ wire'[j].cmd = W => i < j
      <3>1. \A k \in 1 .. Len(wire') : wire'[k].cmd \in {E, W} => k \in 1 .. Len(wire) /\ wire'[k] = wire[k]
        BY <1>1, <1>9
      <3> QED BY <3>1 DEF InOrder
    <2>6. InOrder(r, b)' BY <1>3, <2>3, <2>4, <2>5 DEF InOrder
    <2>7. Written(r, b)' BY <1>1, <1>3, <2>3, <2>4 DEF Written
    <2> QED BY <2>6, <2>7
  <1> QED BY <1>7, <1>8, <1>9

LEMMA FirstOf ==
    ASSUME NEW p \in 1 .. End
    PROVE  First(p) = IF p \in {3, 5} THEN "er" ELSE "rd"
  BY DEF First, Phases, End

\* Fetching changes no command.
LEMMA FetchSame ==
    ASSUME Typed, Fetch
    PROVE  /\ Len(wire') = Len(wire) /\ Len(wire) > 0
           /\ \A i \in 1 .. Len(wire) : wire'[i].cmd = wire[i].cmd
  <1> DEFINE k == fetched + 1
             e == [wire[k] EXCEPT !.got = buffer[wire[k].cmd.op]]
  <1>1. k \in 1 .. Len(wire) BY DEF Fetch, Busy, Typed
  <1>2. wire \in Seq(Entry) /\ wire[k] \in Entry BY <1>1, ElementOfSeq DEF Typed
  <1>3. e \in Entry /\ e.cmd = wire[k].cmd BY <1>2 DEF Entry, Typed, Commands
  <1>4. wire' = [wire EXCEPT ![k] = e] BY DEF Fetch
  <1> HIDE DEF e
  <1>5. Len(wire') = Len(wire) /\ \A i \in 1 .. Len(wire) : wire'[i] = IF i = k THEN e ELSE wire[i]
    BY <1>1, <1>2, <1>3, <1>4, ExceptSeq
  <1> QED BY <1>1, <1>3, <1>5

LEMMA ReadLastStays ==
    ASSUME Inv, ~failed, ReadLast, [Next]_vars, ~failed'
    PROVE  ReadLast'
  <1>0. Typed /\ OneAnswer /\ OneAhead /\ wire \in Seq(Entry) /\ Len(wire) \in Nat
    BY DEF Inv, Typed
  <1>1. ASSUME NEW o \in Ops, Build(o) PROVE ReadLast'
    <2>1. /\ Len(wire') = Len(wire) + 1 /\ wire'[Len(wire) + 1].cmd = Named(o)
          /\ step' = "poll" /\ op = o /\ UNCHANGED <<phase, op>>
      BY <1>1, Sends
    <2> QED BY <1>0, <2>1 DEF ReadLast, Named
  <1>2. ASSUME NextBlock, step # "over", op # "er", UNCHANGED wire, op = "rd" => wire = <<>>
        PROVE  ReadLast'
    <2>1. phase \in 1 .. 6 /\ (phase \in {3, 5} <=> op = "wr")
      BY <1>0, <1>2 DEF ReadLast, Typed, Ops, End
    <2>2. After(TRUE) = phase + 1 /\ phase + 1 \in 1 .. End BY <2>1 DEF After, End
    <2>3. CASE block = LastBlock
      <3>1. phase' = phase + 1 /\ op' = First(phase + 1)
            /\ step' = IF phase + 1 = End THEN "over" ELSE "build"
        BY <1>2, <2>2, <2>3 DEF NextBlock, Enter
      <3>2. op' = IF phase' \in {3, 5} THEN "er" ELSE "rd" BY <2>2, <3>1, FirstOf
      <3>3. step' = "over" => phase = 6 BY <2>1, <3>1 DEF End
      <3>4. step' = "over" => wire = <<>> BY <1>0, <1>2, <2>1, <3>3 DEF Typed, Ops
      <3> QED BY <1>2, <3>1, <3>2, <3>4 DEF ReadLast
    <2>4. CASE block # LastBlock
      <3>1. phase' = phase /\ op' = First(phase) /\ step' = "build"
        BY <1>2, <2>4 DEF NextBlock
      <3>2. op' = IF phase' \in {3, 5} THEN "er" ELSE "rd" BY <2>1, <3>1, FirstOf DEF End
      <3> QED BY <3>1, <3>2 DEF ReadLast
    <2> QED BY <2>3, <2>4
  <1>3. CASE Polled
    <2>1. CASE op = "wr" BY <1>2, <1>3, <2>1 DEF Polled
    <2>2. CASE op # "wr" BY <1>0, <1>3, <2>2 DEF Polled, ReadLast, Typed, Ops
    <2> QED BY <2>1, <2>2
  <1>4. CASE TimedOut BY <1>4 DEF TimedOut
  <1>5. CASE ReadLevel
    <2>1. rx # <<>> /\ step = "level" /\ NextBlock /\ UNCHANGED wire /\ op = "rd"
      BY <1>0, <1>5 DEF ReadLevel, Typed, ReadLast
    <2>2. wire = <<>> BY <1>0, <2>1 DEF OneAnswer, ReadLast, Reads
    <2> QED BY <1>2, <2>1, <2>2
  <1>6. CASE Fetch
    <2>1. UNCHANGED mainVars /\ Len(wire') = Len(wire) /\ Len(wire) > 0
          /\ \A i \in 1 .. Len(wire) : wire'[i].cmd = wire[i].cmd
      BY <1>0, <1>6, FetchSame DEF Fetch
    <2>2. wire # <<>> BY <2>1
    <2>3. wire'[Len(wire')].cmd = wire[Len(wire)].cmd BY <1>0, <2>1
    <2> QED BY <2>1, <2>2, <2>3 DEF ReadLast, mainVars
  <1>7. CASE Bus
    <2>1. fetched > 0 /\ Take /\ UNCHANGED mainVars BY <1>7 DEF Bus, Accept, Refuse, Flush
    <2>2. /\ wire' \in Seq(Entry) /\ Len(wire') = Len(wire) - 1
          /\ \A i \in 1 .. Len(wire') : wire'[i] = wire[i + 1]
      BY <1>0, <2>1, Taken
    <2>3. Len(wire) > 0 BY <1>0, <2>1 DEF Typed
    <2>4. wire # <<>> BY <2>3
    <2>5. wire' = <<>> \/ wire'[Len(wire')] = wire[Len(wire)]
      <3>1. CASE Len(wire) = 1 BY <2>2, <3>1, EmptySeq
      <3>2. CASE Len(wire) # 1
        <4>1. Len(wire') \in 1 .. Len(wire') /\ Len(wire') + 1 = Len(wire) BY <1>0, <2>2, <2>3, <3>2
        <4>2. wire'[Len(wire')] = wire[Len(wire') + 1] BY <2>2, <4>1
        <4> QED BY <4>1, <4>2
      <3> QED BY <3>1, <3>2
    <2> QED BY <2>1, <2>4, <2>5 DEF ReadLast, mainVars
  <1>8. CASE DeviceReady \/ Stall \/ Unstall \/ i2c_callback \/ UNCHANGED vars
    <2>1. UNCHANGED <<mainVars, wire>>
      BY <1>8 DEF DeviceReady, Stall, Unstall, i2c_callback, vars
    <2> QED BY <2>1 DEF ReadLast, mainVars
  <1> QED BY <1>1, <1>3, <1>4, <1>5, <1>6, <1>7, <1>8
      DEF Next, Main, BuildRead, BuildErase, BuildWrite, Ops

\* The invariant about the memories is kept by every step.
LEMMA MemoriesStay == Inv /\ Memories /\ [Next]_vars => Memories'
  <1> SUFFICES ASSUME Inv, Memories, [Next]_vars PROVE Memories' OBVIOUS
  <1>0. Typed BY DEF Inv
  <1>1. mem' \in [Roms -> [Blocks -> {"old", "erased", "written", "mixed"}]]
    <2>1. CASE Accept
      <3> DEFINE c == Head(wire).got
      <3>1. wire # <<>> BY <1>0, <2>1 DEF Accept, Typed
      <3>2. Head(wire) \in Entry BY <1>0, <3>1, HeadTailProperties DEF Typed
      <3>3. c.op \in {"er", "wr"} => c \in Commands /\ c.rom \in Roms /\ c.block \in Blocks
        BY <3>2 DEF Entry, Commands, Nothing
      <3>4. \/ mem' = mem
            \/ c.op = "er" /\ mem' = [mem EXCEPT ![c.rom][c.block] = "erased"]
            \/ c.op = "wr" /\ mem' = [mem EXCEPT ![c.rom][c.block] =
                                         IF @ = "erased" THEN "written" ELSE "mixed"]
        BY <2>1 DEF Accept
      <3> HIDE DEF c
      <3> QED BY <3>3, <3>4 DEF Memories
    <2>2. CASE ~Accept
      <3>1. UNCHANGED mem
        BY <2>2 DEF Next, Main, Bus, BuildRead, BuildErase, BuildWrite, Build, Polled, TimedOut,
           ReadLevel, Fetch, Refuse, Flush, DeviceReady, Stall, Unstall, i2c_callback, vars, device
      <3> QED BY <3>1 DEF Memories
    <2> QED BY <2>1, <2>2
  <1> SUFFICES ASSUME ~failed'
               PROVE  ReadLast' /\ \A r \in Roms, b \in Blocks : InOrder(r, b)' /\ Written(r, b)'
    BY <1>1 DEF Memories
  <1>2. ~failed
    BY DEF Inv, Typed, Next, Main, Bus, BuildRead, BuildErase, BuildWrite, Build, Polled, TimedOut,
           ReadLevel, Fetch, Accept, Refuse, Flush, DeviceReady, Stall, Unstall, i2c_callback, vars
  <1>3. ReadLast /\ \A r \in Roms, b \in Blocks : InOrder(r, b) /\ Written(r, b)
    BY <1>2 DEF Memories
  <1>4. ReadLast' BY <1>2, <1>3, ReadLastStays
  <1>5. ASSUME NEW r \in Roms, NEW b \in Blocks PROVE InOrder(r, b)' /\ Written(r, b)'
    <2>0. InOrder(r, b) /\ Written(r, b) BY <1>3
    <2>1. ASSUME NEW o \in Ops, Build(o) PROVE InOrder(r, b)' /\ Written(r, b)'
      BY <1>2, <1>3, <2>0, <2>1, BuildOrder
    <2>2. CASE Polled \/ ReadLevel
      <3>1. UNCHANGED <<wire, mem, lost>> BY <2>2 DEF Polled, ReadLevel, device
      <3>2. EraseSent(r, b)' = EraseSent(r, b) /\ WriteSent(r, b)' = WriteSent(r, b)
        BY <1>0, <1>3, <2>2, SentStays
      <3> QED BY <2>0, <3>1, <3>2, WireSame
    <2>3. CASE TimedOut BY <2>3 DEF TimedOut
    <2>4. CASE Fetch
      <3>1. UNCHANGED <<mainVars, mem, lost>> BY <2>4 DEF Fetch, device
      <3> QED BY <1>0, <2>0, <2>4, <3>1, SentSame, FetchSame, WireSame
    <2>5. CASE Accept
      <3>1. fetched > 0 /\ Take /\ UNCHANGED mainVars BY <2>5 DEF Accept
      <3>2. InOrder(r, b)' BY <1>0, <2>0, <3>1, TakenOrder
      <3>3. Written(r, b)' BY <1>2, <2>0, <2>5, AcceptWritten DEF Memories
      <3> QED BY <3>2, <3>3
    <2>6. CASE Refuse \/ Flush
      <3>1. fetched > 0 /\ Take /\ UNCHANGED <<mainVars, mem>> /\ lost' = lost \cup {Head(wire).cmd}
        BY <2>6 DEF Refuse, Flush, device
      <3>2. InOrder(r, b)' BY <1>0, <2>0, <3>1, TakenOrder
      <3>3. Written(r, b)' BY <1>0, <2>0, <3>1, LostWritten
      <3> QED BY <3>2, <3>3
    <2>7. CASE DeviceReady \/ Stall \/ Unstall \/ i2c_callback \/ UNCHANGED vars
      <3>1. UNCHANGED <<mainVars, wire, mem, lost>>
        BY <2>7 DEF DeviceReady, Stall, Unstall, i2c_callback, vars, device
      <3> QED BY <2>0, <3>1, SentSame, WireSame
    <2> QED BY <2>1, <2>2, <2>3, <2>4, <2>5, <2>6, <2>7
        DEF Next, Main, Bus, BuildRead, BuildErase, BuildWrite, Ops
  <1> QED BY <1>4, <1>5

LEMMA MemoriesInit == Init => Memories
  <1> SUFFICES ASSUME Init PROVE Memories OBVIOUS
  <1>1. /\ phase = 1 /\ block = 0 /\ op = "rd" /\ step = "build" /\ wire = <<>> /\ Len(wire) = 0
        /\ mem = [r \in Roms |-> [b \in Blocks |-> "old"]]
    BY EmptySeq DEF Init
  <1>2. \A c : ~OnWire(c) BY <1>1 DEF OnWire
  <1>3. \A r, b : ~EraseSent(r, b) /\ ~WriteSent(r, b)
    BY <1>1 DEF EraseSent, WriteSent, PastBlock, AtBlock, WritePhase
  <1>4. ReadLast BY <1>1 DEF ReadLast
  <1>5. \A r \in Roms, b \in Blocks : InOrder(r, b) /\ Written(r, b)
    BY <1>1, <1>2, <1>3 DEF InOrder, Written
  <1> QED BY <1>1, <1>4, <1>5 DEF Memories

LEMMA MemoriesAlways == Spec => []Memories
  <1> QED BY MemoriesInit, MemoriesStay, InvAlways, PTL DEF Spec

\* Until a transfer fails, no block is written over its old contents, unless the device
\* refused its erase (write_gp_rom), for any number of blocks and any faults of the bus.
THEOREM NeverMixed == Spec => []NoMixture
  <1>1. Memories /\ Inv => NoMixture
    BY DEF Memories, NoMixture, Written, Erase, Inv, Typed
  <1> QED BY <1>1, MemoriesAlways, InvAlways, PTL

\* When main says that it is done, both memories are written, unless a transfer failed
\* or a command was lost.
THEOREM DoneIsWritten == Spec => []CompletedIsWritten
  <1>1. Memories /\ Inv => CompletedIsWritten
    <2> SUFFICES ASSUME Memories, Inv, step = "over", ~failed, lost = {}, NEW r \in Roms, NEW b \in Blocks
                 PROVE  mem[r][b] = "written"
      BY DEF CompletedIsWritten
    <2>1. wire = <<>> /\ Written(r, b) BY DEF Memories, ReadLast
    <2>2. phase = 7 BY DEF Inv, Typed, End
    <2>3. WriteSent(r, b) BY <2>2 DEF WriteSent, PastBlock, WritePhase
    <2>4. ~OnWire(Write(r, b)) BY <2>1, EmptySeq DEF OnWire
    <2> QED BY <2>1, <2>3, <2>4 DEF Written
  <1> QED BY <1>1, MemoriesAlways, InvAlways, PTL
-----------------------------------------------------------------------------
(* What the depths hold.                                                    *)

Of(o, k) == {i \in 1 .. k : wire[i].cmd.op = o}

\* A buffer holds a command of its kind, and what is fetched of one is a command.
Fetched ==
    /\ \A o \in Ops : buffer[o] # Nothing => buffer[o].op = o
    /\ \A i \in 1 .. Len(wire) :
         /\ buffer[wire[i].cmd.op] # Nothing
         /\ i <= fetched <=> wire[i].got # Nothing
         /\ i <= fetched => wire[i].got.op = wire[i].cmd.op

\* The answers main may leave behind: of the read of phase 4 that failed, and of the
\* last one; and the one it waits for.
Behind  == IF phase <= 4 THEN 0 ELSE IF phase <= 6 THEN 1 ELSE 2
Awaited == IF step \in {"poll", "level"} /\ op = "rd" THEN 1 ELSE 0
Answers == Cardinality(Reads) + Len(rx) <= Behind + Awaited

Depths ==
    /\ Len(wire) - fetched <= QueueDepth /\ Words(fetched) <= Buffered
    /\ stalled \in BOOLEAN /\ late \in BOOLEAN /\ stalls \in 0 .. MaxStalls
    /\ refusals \in 0 .. MaxRefusals /\ isr \subseteq {"nack"} /\ iser \subseteq {"nack"}
    /\ busy \in BOOLEAN /\ lost \subseteq Commands
    /\ phase \in {3, 5} <=> op \in {"er", "wr"}
    /\ step = "level" => op = "rd"

Counted == Fetched /\ Answers /\ Depths

\* The commands of a kind among the first ones are finitely many.
LEMMA CountType ==
    ASSUME NEW o, NEW k \in Nat
    PROVE  IsFiniteSet(Of(o, k)) /\ Cardinality(Of(o, k)) \in Nat
  <1>1. IsFiniteSet(1 .. k) BY FS_Interval
  <1>2. Of(o, k) \in SUBSET (1 .. k) BY DEF Of
  <1> QED BY <1>1, <1>2, FS_Subset, FS_CardinalityType

LEMMA CountSame ==
    ASSUME NEW o, NEW k \in Nat, \A i \in 1 .. k : wire'[i].cmd = wire[i].cmd
    PROVE  {i \in 1 .. k : wire'[i].cmd.op = o} = Of(o, k)
  BY DEF Of

\* Without the first command there are as many fewer of its kind.
LEMMA CountTaken ==
    ASSUME Typed, fetched > 0, Take, NEW o, NEW k \in 1 .. Len(wire)
    PROVE  /\ Cardinality({i \in 1 .. k - 1 : wire'[i].cmd.op = o}) \in Nat
           /\ Cardinality({i \in 1 .. k - 1 : wire'[i].cmd.op = o})
                <= Cardinality(Of(o, k)) - IF wire[1].cmd.op = o THEN 1 ELSE 0
  <1> DEFINE S == {i \in 1 .. k - 1 : wire'[i].cmd.op = o}
             T == Of(o, k) \ {1}
             f == [i \in S |-> i + 1]
  <1>0. Len(wire) \in Nat /\ k \in Nat BY DEF Typed
  <1>1. \A i \in 1 .. k - 1 : wire'[i] = wire[i + 1] /\ i + 1 \in 2 .. k
    BY <1>0, Taken
  <1>2. \A i \in S : i \in Int /\ i + 1 \in T BY <1>1 DEF Of
  <1>3. f \in Injection(S, T)
    <2>1. f \in [S -> T] BY <1>2
    <2>2. \A a, b \in S : f[a] = f[b] => a = b BY <1>2
    <2> QED BY <2>1, <2>2 DEF Injection, IsInjective
  <1>4. IsFiniteSet(Of(o, k)) /\ Cardinality(Of(o, k)) \in Nat BY <1>0, CountType
  <1>5. IsFiniteSet(T) /\ Cardinality(T) = IF 1 \in Of(o, k) THEN Cardinality(Of(o, k)) - 1
                                           ELSE Cardinality(Of(o, k))
    BY <1>4, FS_RemoveElement
  <1>6. IsFiniteSet(S) /\ Cardinality(S) <= Cardinality(T) BY <1>3, <1>5, FS_Injection
  <1>7. Cardinality(S) \in Nat BY <1>6, FS_CardinalityType
  <1>8. 1 \in Of(o, k) <=> wire[1].cmd.op = o BY <1>0 DEF Of
  <1> HIDE DEF S, T
  <1>9. Cardinality(S) <= Cardinality(Of(o, k)) - IF wire[1].cmd.op = o THEN 1 ELSE 0
    BY <1>4, <1>5, <1>6, <1>7, <1>8
  <1> QED BY <1>7, <1>9 DEF S

\* The words of the first commands, by kind.
LEMMA WordsAre ==
    ASSUME NEW k
    PROVE  Words(k) = Cardinality(Of("rd", k)) * 19 + Cardinality(Of("er", k)) * 3
                      + Cardinality(Of("wr", k)) * 18
  BY DEF Words, Of, Length

\* What has been fetched grows to what fits, and shrinks by what is taken.
LEMMA WordsTaken ==
    ASSUME Typed, fetched > 0, Take, Words(fetched) <= Buffered
    PROVE  Words(fetched)' <= Buffered
  <1> DEFINE New(o) == {i \in 1 .. fetched - 1 : wire'[i].cmd.op = o}
  <1>1. fetched \in 1 .. Len(wire) /\ fetched \in Nat /\ fetched' = fetched - 1 BY DEF Typed, Take
  <1>2. Words(fetched)' = Cardinality(New("rd")) * 19 + Cardinality(New("er")) * 3
                          + Cardinality(New("wr")) * 18
    BY <1>1 DEF Words, Length
  <1>3. \A o : /\ Cardinality(New(o)) \in Nat /\ Cardinality(Of(o, fetched)) \in Nat
               /\ Cardinality(New(o)) <= Cardinality(Of(o, fetched))
    <2> SUFFICES ASSUME NEW o
                 PROVE  /\ Cardinality(New(o)) \in Nat /\ Cardinality(Of(o, fetched)) \in Nat
                        /\ Cardinality(New(o)) <= Cardinality(Of(o, fetched))
      OBVIOUS
    <2>1. /\ Cardinality(New(o)) \in Nat
          /\ Cardinality(New(o)) <= Cardinality(Of(o, fetched)) - IF wire[1].cmd.op = o THEN 1 ELSE 0
      BY <1>1, CountTaken
    <2>2. Cardinality(Of(o, fetched)) \in Nat BY <1>1, CountType
    <2> HIDE DEF New
    <2> QED BY <2>1, <2>2
  <1> HIDE DEF New
  <1> QED BY <1>2, <1>3, WordsAre, DepthsAssumption

\* A command is put into its buffer, and its descriptor at the end of the queue if
\* there is room.
LEMMA Builds ==
    ASSUME Typed, NEW o \in Ops, Build(o)
    PROVE  /\ step = "build" /\ op = o /\ buffer' = [buffer EXCEPT ![o] = Named(o)]
           /\ Named(o) # Nothing /\ Named(o).op = o /\ Len(wire) \in Nat
           /\ UNCHANGED <<phase, op, fetched, rx>>
           /\ \/ UNCHANGED wire /\ step' = "timeout"
              \/ /\ HasRoom /\ step' = "poll" /\ Len(wire') = Len(wire) + 1
                 /\ \A i \in 1 .. Len(wire) : wire'[i] = wire[i]
                 /\ wire'[Len(wire) + 1] = [cmd |-> Named(o), got |-> Nothing]
  <1>1. wire \in Seq(Entry) /\ Len(wire) \in Nat BY DEF Typed
  <1>2. /\ step = "build" /\ op = o /\ buffer' = [buffer EXCEPT ![o] = Named(o)]
        /\ UNCHANGED <<phase, op, fetched, rx>> /\ Transfer(Named(o))
    BY DEF Build
  <1>3. Named(o).op = o /\ Nothing.op = "none" BY DEF Named, Nothing
  <1>4. Named(o) # Nothing BY <1>3 DEF Ops
  <1>5. CASE HasRoom
    <2>1. wire' = Append(wire, [cmd |-> Named(o), got |-> Nothing]) /\ step' = "poll"
      BY <1>2, <1>5 DEF Transfer
    <2> QED BY <1>1, <1>2, <1>3, <1>4, <1>5, <2>1, AppendProperties
  <1>6. CASE ~HasRoom
    BY <1>1, <1>2, <1>3, <1>4, <1>6 DEF Transfer
  <1> QED BY <1>5, <1>6

\* The steps that leave buffers and wires alone.
Elsewhere == Polled \/ TimedOut \/ ReadLevel \/ DeviceReady \/ Stall \/ Unstall \/ i2c_callback
             \/ UNCHANGED vars

LEMMA Elsewheres == Elsewhere => UNCHANGED <<buffer, wire, fetched, lost>>
  BY DEF Elsewhere, Polled, TimedOut, ReadLevel, DeviceReady, Stall, Unstall, i2c_callback, vars

LEMMA FetchedStays ==
    ASSUME Typed, Fetched, [Next]_vars
    PROVE  Fetched'
  <1>0. wire \in Seq(Entry) /\ Len(wire) \in Nat /\ fetched \in 0 .. Len(wire)
        /\ \A i \in 1 .. Len(wire) : wire[i] \in Entry /\ wire[i].cmd.op \in Ops
    <2>1. \A i \in 1 .. Len(wire) : wire[i] \in Entry BY ElementOfSeq DEF Typed
    <2> QED BY <2>1 DEF Typed, Entry, Commands
  <1>1. ASSUME NEW o \in Ops, Build(o) PROVE Fetched'
    <2>1. /\ buffer' = [buffer EXCEPT ![o] = Named(o)] /\ fetched' = fetched
          /\ Named(o) # Nothing /\ Named(o).op = o
      BY <1>1, Builds
    <2>2. \A p \in Ops : buffer'[p] = IF p = o THEN Named(o) ELSE buffer[p] BY <2>1 DEF Typed
    <2>3. CASE UNCHANGED wire BY <1>0, <2>1, <2>2, <2>3 DEF Fetched
    <2>4. CASE /\ Len(wire') = Len(wire) + 1
               /\ \A i \in 1 .. Len(wire) : wire'[i] = wire[i]
               /\ wire'[Len(wire) + 1] = [cmd |-> Named(o), got |-> Nothing]
      <3>1. ASSUME NEW i \in 1 .. Len(wire')
            PROVE  /\ buffer'[wire'[i].cmd.op] # Nothing
                   /\ i <= fetched' <=> wire'[i].got # Nothing
                   /\ i <= fetched' => wire'[i].got.op = wire'[i].cmd.op
        <4>1. CASE i = Len(wire) + 1 BY <1>0, <2>1, <2>2, <2>4, <4>1
        <4>2. CASE i # Len(wire) + 1
          <5>1. i \in 1 .. Len(wire) /\ wire'[i] = wire[i] BY <1>0, <2>4, <4>2
          <5> QED BY <1>0, <2>1, <2>2, <5>1 DEF Fetched
        <4> QED BY <4>1, <4>2
      <3> QED BY <2>1, <2>2, <3>1 DEF Fetched
    <2> QED BY <1>1, <2>3, <2>4, Builds
  <1>2. CASE Fetch
    <2> DEFINE k == fetched + 1
               b == buffer[wire[k].cmd.op]
               e == [wire[k] EXCEPT !.got = b]
    <2>1. k \in 1 .. Len(wire) BY <1>0, <1>2 DEF Fetch, Busy
    <2>2. wire' = [wire EXCEPT ![k] = e] /\ fetched' = k /\ buffer' = buffer BY <1>2 DEF Fetch
    <2>3. e \in Entry /\ e.cmd = wire[k].cmd /\ e.got = b BY <1>0, <2>1 DEF Entry, Typed, Commands
    <2>4. b # Nothing /\ b.op = wire[k].cmd.op BY <1>0, <2>1 DEF Fetched
    <2> HIDE DEF e, b
    <2>5. Len(wire') = Len(wire) /\ \A i \in 1 .. Len(wire) : wire'[i] = IF i = k THEN e ELSE wire[i]
      BY <1>0, <2>1, <2>2, <2>3, ExceptSeq
    <2>6. ASSUME NEW i \in 1 .. Len(wire')
          PROVE  /\ buffer'[wire'[i].cmd.op] # Nothing
                 /\ i <= fetched' <=> wire'[i].got # Nothing
                 /\ i <= fetched' => wire'[i].got.op = wire'[i].cmd.op
      <3>1. CASE i = k BY <2>1, <2>2, <2>3, <2>4, <2>5, <3>1 DEF b
      <3>2. CASE i # k
        <4>1. wire'[i] = wire[i] /\ i \in 1 .. Len(wire) /\ (i <= k <=> i <= fetched)
          BY <1>0, <2>5, <3>2
        <4> QED BY <2>2, <4>1 DEF Fetched
      <3> QED BY <3>1, <3>2
    <2> QED BY <2>2, <2>6 DEF Fetched
  <1>3. CASE Bus
    <2>1. fetched > 0 /\ Take /\ buffer' = buffer /\ fetched' = fetched - 1
      BY <1>3 DEF Bus, Accept, Refuse, Flush, Take
    <2>2. Len(wire') = Len(wire) - 1 /\ \A i \in 1 .. Len(wire') : wire'[i] = wire[i + 1]
      BY <2>1, Taken
    <2>3. ASSUME NEW i \in 1 .. Len(wire')
          PROVE  /\ buffer'[wire'[i].cmd.op] # Nothing
                 /\ i <= fetched' <=> wire'[i].got # Nothing
                 /\ i <= fetched' => wire'[i].got.op = wire'[i].cmd.op
      <3>1. i + 1 \in 1 .. Len(wire) /\ wire'[i] = wire[i + 1] /\ (i <= fetched - 1 <=> i + 1 <= fetched)
        BY <1>0, <2>2
      <3> QED BY <2>1, <3>1 DEF Fetched
    <2> QED BY <2>1, <2>3 DEF Fetched
  <1>4. CASE Elsewhere
    BY <1>4, Elsewheres DEF Fetched
  <1> QED BY <1>1, <1>2, <1>3, <1>4 DEF Next, Main, BuildRead, BuildErase, BuildWrite, Ops, Elsewhere

LEMMA DepthsStay ==
    ASSUME Typed, Fetched, Depths, [Next]_vars
    PROVE  Depths'
  <1>0. Len(wire) \in Nat /\ fetched \in 0 .. Len(wire) /\ fetched \in Nat
        /\ QueueDepth \in Nat /\ Buffered \in Nat /\ wire \in Seq(Entry)
    BY DepthsAssumption DEF Typed
  <1> DEFINE Rest == /\ stalled \in BOOLEAN /\ late \in BOOLEAN /\ stalls \in 0 .. MaxStalls
                     /\ refusals \in 0 .. MaxRefusals /\ isr \subseteq {"nack"} /\ iser \subseteq {"nack"}
                     /\ busy \in BOOLEAN /\ lost \subseteq Commands
             Where == (phase \in {3, 5} <=> op \in {"er", "wr"}) /\ (step = "level" => op = "rd")
             Queue == Len(wire) - fetched <= QueueDepth /\ Words(fetched) <= Buffered
  <1>1. Rest'
    <2>1. Rest BY DEF Depths
    <2>2. lost' \subseteq Commands
      <3>1. CASE Refuse \/ Flush
        <4>1. lost' = lost \cup {Head(wire).cmd} /\ fetched > 0 BY <3>1 DEF Refuse, Flush
        <4>2. wire # <<>> BY <1>0, <4>1
        <4>3. Head(wire) \in Entry BY <1>0, <4>2, HeadTailProperties
        <4> QED BY <2>1, <4>1, <4>3 DEF Entry
      <3>2. CASE ~(Refuse \/ Flush)
        BY <2>1, <3>2 DEF Next, Main, Bus, BuildRead, BuildErase, BuildWrite, Build, Polled, TimedOut,
           ReadLevel, Fetch, Accept, DeviceReady, Stall, Unstall, i2c_callback, vars
      <3> QED BY <3>1, <3>2
    <2>3. stalled' \in BOOLEAN /\ late' \in BOOLEAN
      BY <2>1 DEF Next, Main, Bus, BuildRead, BuildErase, BuildWrite, Build, Polled, TimedOut,
           ReadLevel, Fetch, Accept, Refuse, Flush, DeviceReady, Stall, Unstall, i2c_callback,
           vars, faults
    <2>4. stalls' \in 0 .. MaxStalls
      <3>1. CASE Stall BY <2>1, <3>1, FaultsAssumption DEF Stall
      <3>2. CASE ~Stall
        BY <2>1, <3>2 DEF Next, Main, Bus, BuildRead, BuildErase, BuildWrite, Build, Polled, TimedOut,
           ReadLevel, Fetch, Accept, Refuse, Flush, DeviceReady, Unstall, i2c_callback,
           vars, faults
      <3> QED BY <3>1, <3>2
    <2>5. refusals' \in 0 .. MaxRefusals
      <3>1. CASE Refuse BY <2>1, <3>1, FaultsAssumption DEF Refuse
      <3>2. CASE ~Refuse
        BY <2>1, <3>2 DEF Next, Main, Bus, BuildRead, BuildErase, BuildWrite, Build, Polled, TimedOut,
           ReadLevel, Fetch, Accept, Flush, DeviceReady, Stall, Unstall, i2c_callback,
           vars
      <3> QED BY <3>1, <3>2
    <2>6. isr' \subseteq {"nack"} /\ iser' \subseteq {"nack"} /\ busy' \in BOOLEAN
      BY <2>1 DEF Next, Main, Bus, BuildRead, BuildErase, BuildWrite, Build, Polled,
         TimedOut, ReadLevel, Fetch, Accept, Refuse, Flush, DeviceReady, Stall, Unstall, i2c_callback,
         vars, i2cVars, device, IntDisable, IntClear
    <2> QED BY <2>2, <2>3, <2>4, <2>5, <2>6
  <1>2. Queue'
    <2>1. ASSUME NEW o \in Ops, Build(o) PROVE Queue'
      <3>1. \/ wire' = wire
            \/ HasRoom /\ Len(wire') = Len(wire) + 1 /\ \A i \in 1 .. Len(wire) : wire'[i] = wire[i]
        BY <2>1, Builds
      <3>2. fetched' = fetched BY <2>1, Builds
      <3>3. \A i \in 1 .. fetched : wire'[i] = wire[i] BY <1>0, <3>1
      <3>4. \A o1 : {i \in 1 .. fetched : wire'[i].cmd.op = o1} = Of(o1, fetched)
        BY <1>0, <3>3, CountSame
      <3>5. Words(fetched)' = Words(fetched) BY <3>2, <3>4, WordsAre DEF Words, Length
      <3>6. Len(wire') - fetched <= QueueDepth BY <1>0, <3>1 DEF Depths, HasRoom
      <3> QED BY <3>2, <3>5, <3>6 DEF Depths
    <2>2. CASE Fetch
      <3>1. Len(wire') = Len(wire) /\ \A i \in 1 .. Len(wire) : wire'[i].cmd = wire[i].cmd
        BY <2>2, FetchSame
      <3>2. fetched' = fetched + 1 /\ fetched + 1 \in 1 .. Len(wire) /\ Words(fetched + 1) <= Buffered
        BY <1>0, <2>2 DEF Fetch, Busy
      <3>3. \A o1 : {i \in 1 .. fetched + 1 : wire'[i].cmd.op = o1} = Of(o1, fetched + 1)
        BY <1>0, <3>1, <3>2, CountSame
      <3>4. Words(fetched)' = Words(fetched + 1)
        <4> DEFINE New(o) == {i \in 1 .. fetched + 1 : wire'[i].cmd.op = o}
        <4>1. Words(fetched)' = Cardinality(New("rd")) * 19 + Cardinality(New("er")) * 3
                                + Cardinality(New("wr")) * 18
          BY <3>2 DEF Words, Length
        <4>2. \A o : New(o) = Of(o, fetched + 1) BY <3>3
        <4> HIDE DEF New
        <4> QED BY <4>1, <4>2, WordsAre
      <3> QED BY <1>0, <3>1, <3>2, <3>4 DEF Depths
    <2>3. CASE Bus
      <3>1. fetched > 0 /\ Take /\ fetched' = fetched - 1 BY <2>3 DEF Bus, Accept, Refuse, Flush, Take
      <3>2. Len(wire') = Len(wire) - 1 BY <3>1, Taken
      <3>3. Words(fetched)' <= Buffered BY <3>1, WordsTaken DEF Depths
      <3> QED BY <1>0, <3>1, <3>2, <3>3 DEF Depths
    <2>4. CASE Elsewhere BY <2>4, Elsewheres DEF Depths, Words
    <2> QED BY <2>1, <2>2, <2>3, <2>4
        DEF Next, Main, BuildRead, BuildErase, BuildWrite, Ops, Elsewhere
  <1>3. Where'
    <2>1. ASSUME NEW o \in Ops, Build(o) PROVE Where'
      BY <2>1, Builds DEF Depths
    <2>2. ASSUME NEW ok \in BOOLEAN, Enter(After(ok)) \/ (ok /\ NextBlock), step # "over" PROVE Where'
      <3>1. phase \in 1 .. End /\ phase # End BY <2>2 DEF Typed
      <3>2. After(ok) \in 1 .. End BY <3>1, PhasesGoOn
      <3>3. CASE Enter(After(ok)) BY <3>2, <3>3, FirstOf DEF Enter
      <3>4. CASE ok /\ NextBlock
        <4>1. Enter(After(TRUE)) \/ (op' = First(phase) /\ step' = "build" /\ phase' = phase)
          BY <3>4 DEF NextBlock
        <4> QED BY <3>1, <3>2, <3>4, <4>1, FirstOf DEF Enter
      <3> QED BY <2>2, <3>3, <3>4
    <2>3. CASE Polled
      <3>1. CASE op = "wr" BY <2>2, <2>3, <3>1 DEF Polled
      <3>2. CASE op # "wr" BY <2>3, <3>2 DEF Polled, Depths, Typed, Ops
      <3> QED BY <3>1, <3>2
    <2>4. CASE TimedOut
      <3>1. CASE op = "er" BY <2>4, <3>1 DEF TimedOut, Depths
      <3>2. CASE op # "er" BY <2>2, <2>4, <3>2 DEF TimedOut
      <3> QED BY <3>1, <3>2
    <2>5. CASE ReadLevel BY <2>2, <2>5 DEF ReadLevel
    <2>6. CASE Fetch \/ Bus \/ DeviceReady \/ Stall \/ Unstall \/ i2c_callback \/ UNCHANGED vars
      <3>1. UNCHANGED mainVars
        BY <2>6 DEF Fetch, Bus, Accept, Refuse, Flush, DeviceReady, Stall, Unstall, i2c_callback, vars
      <3> QED BY <3>1 DEF mainVars, Depths
    <2> QED BY <2>1, <2>3, <2>4, <2>5, <2>6 DEF Next, Main, BuildRead, BuildErase, BuildWrite, Ops
  <1> QED BY <1>1, <1>2, <1>3 DEF Depths

LEMMA AnswersStay ==
    ASSUME Typed, Typed', Fetched, Depths, Answers, [Next]_vars
    PROVE  Answers'
  <1> DEFINE R == Cardinality(Reads)
  <1>0. /\ Len(wire) \in Nat /\ Len(rx) \in Nat /\ phase \in 1 .. 7 /\ op \in Ops
        /\ Reads = Of("rd", Len(wire)) /\ IsFiniteSet(Reads) /\ R \in Nat
    <2>1. Len(wire) \in Nat /\ Len(rx) \in Nat /\ phase \in 1 .. 7 /\ op \in Ops
      BY DEF Typed, End
    <2>2. Reads = Of("rd", Len(wire)) BY DEF Reads, Of
    <2> QED BY <2>1, <2>2, CountType
  <1>1. R + Len(rx) <= Behind + Awaited /\ Behind \in Nat /\ Awaited \in Nat /\ Awaited <= 1
    BY DEF Answers, Behind, Awaited
  <1>2. ASSUME NEW o \in Ops, Build(o) PROVE Answers'
    <2>1. /\ step = "build" /\ op = o /\ UNCHANGED <<phase, op, rx>> /\ Awaited = 0 /\ Behind' = Behind
      BY <1>2, Builds DEF Awaited, Behind
    <2>2. CASE UNCHANGED wire /\ step' = "timeout"
      <3>1. Reads' = Reads /\ Awaited' = 0 BY <2>2 DEF Reads, Awaited
      <3> QED BY <1>0, <1>1, <2>1, <3>1 DEF Answers
    <2>3. CASE /\ step' = "poll" /\ Len(wire') = Len(wire) + 1
               /\ \A i \in 1 .. Len(wire) : wire'[i] = wire[i]
               /\ wire'[Len(wire) + 1] = [cmd |-> Named(o), got |-> Nothing]
      <3>1. Awaited' = (IF o = "rd" THEN 1 ELSE 0) BY <2>1, <2>3 DEF Awaited
      <3>2. Named(o).op = o BY DEF Named
      <3>3. Reads' = IF o = "rd" THEN Reads \cup {Len(wire) + 1} ELSE Reads
        BY <1>0, <2>3, <3>2 DEF Reads
      <3>4. Len(wire) + 1 \notin Reads BY <1>0 DEF Reads
      <3>5. Cardinality(Reads') = R + (IF o = "rd" THEN 1 ELSE 0)
        <4>1. CASE o = "rd"
          <5>1. Reads' = Reads \cup {Len(wire) + 1} BY <3>3, <4>1
          <5> QED BY <1>0, <3>4, <4>1, <5>1, FS_AddElement
        <4>2. CASE o # "rd" BY <1>0, <3>3, <4>2
        <4> QED BY <4>1, <4>2
      <3> QED BY <1>0, <1>1, <2>1, <3>1, <3>5 DEF Answers
    <2> QED BY <1>2, <2>2, <2>3, Builds
  <1>3. ASSUME NEW ok \in BOOLEAN, Enter(After(ok)) \/ (ok /\ NextBlock),
               step # "over", Awaited = 0 \/ (~ok /\ phase \in {1, 2, 4, 6})
        PROVE  Awaited' \in Nat /\ Behind' \in Nat /\ Behind + Awaited <= Behind' + Awaited'
    <2>1. phase \in 1 .. 6 BY <1>0, <1>3 DEF Typed, End
    <2>2. /\ step' \in {"build", "over"}
          /\ phase' \in {phase, After(ok)} /\ (~ok => phase' = After(ok))
      BY <1>3, NextPhase DEF NextBlock, Enter
    <2>3. Awaited' = 0 BY <2>2 DEF Awaited
    <2>4. After(ok) = IF ok \/ phase \in {4, 6} THEN phase + 1 ELSE IF phase < 3 THEN 7 ELSE phase + 2
      BY DEF After, End
    <2>5. CASE Awaited = 0 BY <1>1, <2>1, <2>2, <2>3, <2>4, <2>5 DEF Behind
    <2>6. CASE ~ok /\ phase \in {1, 2, 4, 6}
      <3>1. phase' = IF phase = 4 THEN 5 ELSE 7 BY <2>2, <2>4, <2>6
      <3>2. Behind' = (IF phase = 4 THEN 1 ELSE 2) /\ Behind = (IF phase = 6 THEN 1 ELSE 0)
        BY <2>6, <3>1 DEF Behind
      <3> QED BY <1>1, <2>3, <2>6, <3>2
    <2> QED BY <1>3, <2>5, <2>6
  <1>4. ASSUME UNCHANGED <<wire, rx>>, Awaited' \in Nat, Behind' \in Nat,
               Behind + Awaited <= Behind' + Awaited'
        PROVE  Answers'
    <2>1. Cardinality(Reads') = R /\ Len(rx') = Len(rx) BY <1>4 DEF Reads
    <2> HIDE DEF R
    <2> DEFINE l == Len(rx)
               b == Behind
               a == Awaited
               b1 == Behind'
               a1 == Awaited'
    <2>2. R + l <= b + a /\ b \in Nat /\ a \in Nat BY <1>1
    <2>3. a1 \in Nat /\ b1 \in Nat /\ b + a <= b1 + a1 BY <1>4
    <2>4. R \in Nat BY <1>0
    <2>5. l \in Nat BY <1>0
    <2> HIDE DEF l, b, a, b1, a1
    <2>6. R + l <= b1 + a1 BY <2>2, <2>3, <2>4, <2>5
    <2> QED BY <2>1, <2>6 DEF Answers, R, l, b1, a1
  <1>5. CASE Polled
    <2>1. UNCHANGED <<wire, rx>> BY <1>5 DEF Polled
    <2>2. CASE op = "wr"
      <3>1. NextBlock /\ step # "over" /\ Awaited = 0 BY <1>5, <2>2 DEF Polled, Awaited
      <3>2. Awaited' \in Nat /\ Behind' \in Nat /\ Behind + Awaited <= Behind' + Awaited' BY <1>3, <3>1
      <3> QED BY <1>1, <1>4, <2>1, <3>2
    <2>3. CASE op # "wr"
      <3>1. phase' = phase /\ Awaited' = Awaited BY <1>0, <1>5, <2>3 DEF Polled, Awaited, Ops
      <3> QED BY <1>1, <1>4, <2>1, <3>1 DEF Behind
    <2> QED BY <2>2, <2>3
  <1>6. CASE TimedOut
    <2>1. UNCHANGED <<wire, rx>> /\ step \in {"poll", "timeout"} BY <1>6 DEF TimedOut
    <2>2. CASE op = "er"
      <3>1. phase' = phase /\ Awaited' = 0 /\ Awaited = 0 BY <1>6, <2>2 DEF TimedOut, Awaited
      <3> QED BY <1>1, <1>4, <2>1, <3>1 DEF Behind
    <2>3. CASE op # "er"
      <3>1. Enter(After(FALSE)) BY <1>6, <2>3 DEF TimedOut
      <3>2. Awaited = 0 \/ phase \in {1, 2, 4, 6}
        BY <1>0, <2>1 DEF Awaited, Depths, Typed, End
      <3>3. Awaited' \in Nat /\ Behind' \in Nat /\ Behind + Awaited <= Behind' + Awaited' BY <1>3, <2>1, <3>1, <3>2
      <3> QED BY <1>1, <1>4, <2>1, <3>3
    <2> QED BY <2>2, <2>3
  <1>7. CASE ReadLevel
    <2>1. step = "level" /\ rx # <<>> /\ rx' = Tail(rx) /\ NextBlock /\ wire' = wire /\ op = "rd"
      BY <1>7 DEF ReadLevel, Depths, Typed
    <2>2. Len(rx') = Len(rx) - 1 BY <2>1, HeadTailProperties DEF Typed
    <2>3. Reads' = Reads /\ Awaited = 1 BY <2>1 DEF Reads, Awaited
    <2>4. phase \in 1 .. 6 BY <1>0, <2>1 DEF Typed, End
    <2>5. step' \in {"build", "over"} /\ phase' \in {phase, phase + 1}
      BY <2>1, <2>4, NextPhase DEF NextBlock, Enter, After
    <2>6. Awaited' = 0 /\ Behind <= Behind' /\ Behind' \in Nat
      BY <2>4, <2>5 DEF Awaited, Behind
    <2> QED BY <1>0, <1>1, <2>2, <2>3, <2>6 DEF Answers
  <1>8. CASE Fetch
    <2>1. Len(wire') = Len(wire) /\ (\A i \in 1 .. Len(wire) : wire'[i].cmd = wire[i].cmd)
          /\ UNCHANGED <<mainVars, rx>>
      BY <1>8, FetchSame DEF Fetch
    <2>2. Reads' = Reads BY <2>1 DEF Reads
    <2> QED BY <2>1, <2>2 DEF Answers, Awaited, Behind, mainVars
  <1>9. CASE Bus
    <2>1. fetched > 0 /\ Take /\ UNCHANGED mainVars BY <1>9 DEF Bus, Accept, Refuse, Flush
    <2>2. Len(wire') = Len(wire) - 1 /\ Len(wire) \in 1 .. Len(wire) /\ 1 <= fetched
          /\ Reads' = {i \in 1 .. Len(wire) - 1 : wire'[i].cmd.op = "rd"} /\ Head(wire) = wire[1]
      <3>1. wire # <<>> BY <2>1 DEF Typed
      <3>2. Len(wire') = Len(wire) - 1 BY <2>1, Taken
      <3> QED BY <1>0, <2>1, <3>1, <3>2, HeadTailProperties DEF Typed, Reads
    <2>3. /\ Cardinality(Reads') \in Nat
          /\ Cardinality(Reads') <= R - IF wire[1].cmd.op = "rd" THEN 1 ELSE 0
      BY <1>0, <2>1, <2>2, CountTaken
    <2>4. Awaited' = Awaited /\ Behind' = Behind BY <2>1 DEF mainVars, Awaited, Behind
    <2>5. UNCHANGED rx \/ (Len(rx') = Len(rx) + 1 /\ wire[1].cmd.op = "rd")
      <3>1. UNCHANGED rx \/ (Head(wire).got.op = "rd" /\ rx' = Append(rx, Head(wire).got))
        BY <1>9 DEF Bus, Accept, Refuse, Flush
      <3>2. wire[1].got.op = wire[1].cmd.op BY <1>0, <2>2 DEF Fetched
      <3>3. rx' = Append(rx, Head(wire).got) => Len(rx') = Len(rx) + 1
        BY DEF Typed
      <3> QED BY <2>2, <3>1, <3>2, <3>3
    <2>6. Cardinality(Reads') + Len(rx') <= R + Len(rx) BY <1>0, <2>3, <2>5
    <2> HIDE DEF R
    <2>7. Len(rx') \in Nat BY <1>0, <2>5
    <2> QED BY <1>0, <1>1, <2>3, <2>4, <2>6, <2>7 DEF Answers
  <1>10. CASE DeviceReady \/ Stall \/ Unstall \/ i2c_callback \/ UNCHANGED vars
    <2>1. UNCHANGED <<mainVars, wire, rx>>
      BY <1>10 DEF DeviceReady, Stall, Unstall, i2c_callback, vars
    <2> QED BY <2>1 DEF Answers, Reads, Behind, Awaited, mainVars
  <1> QED BY <1>2, <1>5, <1>6, <1>7, <1>8, <1>9, <1>10
      DEF Next, Main, BuildRead, BuildErase, BuildWrite, Ops

LEMMA CountedAlways == Spec => [](Typed /\ Counted)
  <1>1. Init => Counted
    <2> SUFFICES ASSUME Init PROVE Counted OBVIOUS
    <2>1. /\ phase = 1 /\ op = "rd" /\ step = "build" /\ wire = <<>> /\ rx = <<>> /\ fetched = 0
          /\ buffer = [o \in Ops |-> Nothing] /\ Len(wire) = 0 /\ Len(rx) = 0
      BY EmptySeq DEF Init
    <2>2. Fetched BY <2>1 DEF Fetched
    <2>3. Reads = {} /\ Cardinality(Reads) = 0 BY <2>1, FS_EmptySet DEF Reads
    <2>4. Answers BY <2>1, <2>3 DEF Answers, Behind, Awaited
    <2>5. \A o : Of(o, 0) = {} BY DEF Of
    <2>6. Words(0) = 0 BY <2>5, WordsAre, FS_EmptySet
    <2>7. /\ stalled \in BOOLEAN /\ late \in BOOLEAN /\ stalls \in 0 .. MaxStalls
          /\ refusals \in 0 .. MaxRefusals /\ isr \subseteq {"nack"} /\ iser \subseteq {"nack"}
          /\ busy \in BOOLEAN /\ lost \subseteq Commands
      <3>1. /\ stalled = FALSE /\ late = FALSE /\ stalls = 0 /\ refusals = 0 /\ isr = {} /\ iser = {"nack"}
            /\ busy = FALSE /\ lost = {}
        BY DEF Init
      <3>2. stalls \in 0 .. MaxStalls /\ refusals \in 0 .. MaxRefusals BY <3>1, FaultsAssumption
      <3> QED BY <3>1, <3>2
    <2>10. (phase \in {3, 5} <=> op \in {"er", "wr"}) /\ (step = "level" => op = "rd")
      <3>1. phase \notin {3, 5} /\ op \notin {"er", "wr"} /\ step # "level" BY <2>1
      <3> QED BY <3>1
    <2>8. Len(wire) - fetched <= QueueDepth /\ Words(fetched) <= Buffered
      BY <2>1, <2>6, DepthsAssumption
    <2>9. Depths BY <2>1, <2>7, <2>8, <2>10 DEF Depths
    <2> QED BY <2>2, <2>4, <2>9 DEF Counted
  <1>2. Typed /\ Counted /\ [Next]_vars => Counted'
    BY TypedStays, FetchedStays, AnswersStay, DepthsStay DEF Counted
  <1>3. Spec => []Typed
    <2>1. Inv => Typed BY DEF Inv
    <2> QED BY <2>1, InvAlways, PTL
  <1> QED BY <1>1, <1>2, <1>3, PTL DEF Spec

\* The state stays in its types, and the depths hold: a descriptor never finds the
\* queue overfull, what is fetched fits between the DMA controller and the wires, and
\* the answers stay below the FIFO's almost-full mark, for any depths and faults: main
\* leaves at most two answers behind (write_gp_rom, read_gp_rom).
THEOREM Typing == Spec => []TypeOK
  <1>1. Typed /\ Counted /\ Memories => TypeOK
    <2> SUFFICES ASSUME Typed, Counted, Memories PROVE TypeOK OBVIOUS
    <2>1. 4 * Len(rx) < 10
      <3>1. IsFiniteSet(Reads) /\ Cardinality(Reads) \in Nat /\ Len(rx) \in Nat
        <4>1. Reads = Of("rd", Len(wire)) /\ Len(wire) \in Nat /\ Len(rx) \in Nat
          BY DEF Reads, Of, Typed
        <4> QED BY <4>1, CountType
      <3>2. Behind + Awaited <= 2
        BY DEF Behind, Awaited, Typed, End, Counted, Depths
      <3>3. Behind \in Int /\ Awaited \in Int BY DEF Behind, Awaited
      <3>4. Len(rx) <= 2 BY <3>1, <3>2, <3>3 DEF Counted, Answers
      <3> QED BY <3>1, <3>4
    <2>2. \A i \in 1 .. Len(wire) : i <= fetched <=> wire[i].got # Nothing
      BY DEF Counted, Fetched
    <2>3. wire \in Seq([cmd : Commands, got : Commands \cup {Nothing}]) BY DEF Typed, Entry
    <2> QED BY <2>1, <2>2, <2>3 DEF Typed, Counted, Depths, Memories, TypeOK
  <1> QED BY <1>1, CountedAlways, MemoriesAlways, PTL
=============================================================================
