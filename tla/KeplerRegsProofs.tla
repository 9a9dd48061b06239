-------------------------- MODULE KeplerRegsProofs --------------------------
(***************************************************************************)
(* What the settings and their copy keep, whatever the registers hold, how  *)
(* they are divided into blocks, and whenever the power is cut:              *)
(*                                                                          *)
(*   Handshake  REG0 and the EEPROM driver agree on whether a save goes on,  *)
(*              until a reset of the X68000 finds the driver busy;           *)
(*   Copies     the RAM mirrors the registers, and the EEPROM as much of     *)
(*              them as the save has written;                               *)
(*   Layout     the block of the CRCs is that of the last complete save, or  *)
(*              is known to be unfinished, however many saves were cut.      *)
(***************************************************************************)
EXTENDS KeplerRegs, TLAPS

Fields == {"s", "n", "todo", "ready", "save_ack", "crc_error", "count"}
Saves  == {"complete", "begun", "open", "disturbed"}

\* The request is up exactly while REG0 holds the ID "kx"; the driver saves only
\* with the request up unless a reset took it away, and acknowledges only in
\* IS_WRITE_FIN.
Handshake ==
    /\ key \in {"00", "01", "10", "11"} /\ save_req \in {0, 1}
    /\ key = "11" <=> save_req = 1
    /\ DOMAIN g = Fields /\ DOMAIN saved = Saves
    /\ Saving /\ ~saved.disturbed => save_req = 1
    /\ g.save_ack = 1 => g.s = "FIN"

\* The board comes up with no request and no acknowledge.
LEMMA HandshakeInit == Init => Handshake
BY DEF Init, Handshake, DriverReset, Saving, Fields, Saves

\* A write to REG0 moves the key and the request together.
LEMMA KeyStep ==
    ASSUME Handshake, NEW v, WriteKey(v)
    PROVE  Handshake'
<1>1. UNCHANGED <<g, saved>>
  BY DEF WriteKey
<1>2. CASE key = "11" /\ g.save_ack = 1
  BY <1>1, <1>2 DEF WriteKey, NextKey, Handshake, Saving
<1>3. CASE key = "11" /\ g.save_ack # 1
  BY <1>1, <1>3 DEF WriteKey, NextKey, Handshake, Saving
<1>4. CASE key = "00"
  BY <1>1, <1>4 DEF WriteKey, NextKey, Handshake, Saving
<1>5. CASE key = "01"
  BY <1>1, <1>5 DEF WriteKey, NextKey, Handshake, Saving
<1>6. CASE key = "10"
  BY <1>1, <1>6 DEF WriteKey, NextKey, Handshake, Saving
<1> QED
  BY <1>2, <1>3, <1>4, <1>5, <1>6 DEF Handshake

\* A step of the EEPROM driver leaves the key and the request alone, starts a save
\* only on a request, and acknowledges it only at the end.
LEMMA DriverStep ==
    ASSUME Handshake, EepromDriver
    PROVE  Handshake'
<1>0. UNCHANGED <<key, save_req>>
  BY DEF EepromDriver, AfterPowerOn, ReadBlock, Idle, UpdateCount, EraseBlock, WriteData,
         SetCrc, WriteFin
<1>1. CASE AfterPowerOn
  BY <1>0, <1>1 DEF AfterPowerOn, ReadSetup, Handshake, Saving, Fields, Saves
<1>2. CASE ReadBlock
  BY <1>0, <1>2 DEF ReadBlock, Handshake, Saving, Fields, Saves
<1>3. CASE Idle
  BY <1>0, <1>3 DEF Idle, Handshake, Saving, Fields, Saves
<1>4. CASE UpdateCount
  BY <1>0, <1>4 DEF UpdateCount, Handshake, Saving, Fields, Saves
<1>5. CASE EraseBlock
  BY <1>0, <1>5 DEF EraseBlock, Handshake, Saving, Fields, Saves
<1>6. CASE WriteData
  BY <1>0, <1>6 DEF WriteData, Handshake, Saving, Fields, Saves
<1>7. CASE SetCrc
  BY <1>0, <1>7 DEF SetCrc, Handshake, Saving, Fields, Saves
<1>8. CASE WriteFin
  BY <1>0, <1>8 DEF WriteFin, Handshake, Saving, Fields, Saves
<1> QED
  BY <1>1, <1>2, <1>3, <1>4, <1>5, <1>6, <1>7, <1>8 DEF EepromDriver

\* Every step keeps the handshake; a reset of a busy driver is remembered.
LEMMA HandshakeNext ==
    ASSUME Handshake, [Next]_vars
    PROVE  Handshake'
<1>1. CASE RestoreLoop
  BY <1>1 DEF RestoreLoop, RestoreBegin, RestoreOne, Handshake, Saving
<1>2. CASE WriteReg
  BY <1>2 DEF WriteReg, Handshake, Saving
<1>3. CASE WriteReg0
  BY <1>3, KeyStep DEF WriteReg0
<1>4. CASE EepromDriver
  BY <1>4, DriverStep
<1>5. CASE Reset
  <2>1. saved'.disturbed = (g.s # "IDLE") /\ DOMAIN saved' = Saves
    BY <1>5 DEF Reset, Handshake, Saves
  <2>2. Saving' => saved'.disturbed
    BY <1>5, <2>1 DEF Reset, Saving
  <2> QED BY <1>5, <2>1, <2>2 DEF Reset, RegsReset, Handshake
<1>6. CASE PowerCut
  BY <1>6 DEF PowerCut, RegsReset, DriverReset, Handshake, Saving, Fields, Saves
<1>7. CASE UNCHANGED vars
  BY <1>7 DEF vars, Handshake, Saving
<1> QED
  BY <1>1, <1>2, <1>3, <1>4, <1>5, <1>6, <1>7 DEF Next, RestoreLoop, EepromDriver

\* While the EEPROM is being written the ID in REG0 is "kx" (KXR_REG0 and
\* IS_WRITE_FIN), for every set of registers, every division into blocks and any
\* number of power cuts and resets.
THEOREM IdTells == Spec => []IdTellsSaving
<1>1. Init => Handshake
  BY HandshakeInit
<1>2. Handshake /\ [Next]_vars => Handshake'
  BY HandshakeNext
<1>3. Handshake => IdTellsSaving
  BY DEF Handshake, IdTellsSaving
<1> QED
  BY <1>1, <1>2, <1>3, PTL DEF Spec

-----------------------------------------------------------------------------
(* What a save stores.                                                      *)

\* Word r of the EEPROM has been written by the save that is going on, or is read
\* again after it.
Written(r) ==
    \/ g.s \in {"READ", "FIN"}
    \/ g.s \in {"ERASE", "WRITE", "SET_CRC"} /\ BlockOf[r] < g.n
    \/ g.s = "WRITE" /\ BlockOf[r] = g.n /\ r \notin g.todo
    \/ g.s = "SET_CRC" /\ BlockOf[r] = g.n

\* The shapes of the records the steps update.
Shapes ==
    /\ DOMAIN ram = {"word", "crc", "own"} /\ DOMAIN nv = {"word", "crc", "own"}
    /\ DOMAIN ram.word = Words /\ DOMAIN nv.word = Words /\ DOMAIN reg = Regs
    /\ DOMAIN restore = {"s", "left"} /\ restore.s \in {"waiting", "loop", "finished"}
    /\ restore.left \subseteq Regs /\ (restore.s = "waiting" => restore.left = Regs)
    /\ g.n \in 0..CrcBlock /\ (g.s = "SET_CRC" => g.n \in Blocks)
    /\ g.s \in {"WAKEUP", "READ", "IDLE", "COUNT", "ERASE", "WRITE", "SET_CRC", "FIN"}

\* The blocks and the words in them.
LEMMA Numbers ==
    /\ LastBlock \in Nat /\ CrcBlock = LastBlock + 1 /\ Blocks = 0..LastBlock
    /\ \A w \in Words : BlockOf[w] \in 0..LastBlock
    /\ Regs \subseteq Words /\ Count \in Words /\ Count \notin Regs
  BY BlockAssumption, ValueAssumption DEF CrcBlock, Blocks, Words

\* No step changes the shape of a record, or leaves the blocks.
LEMMA ShapesNext ==
    ASSUME Handshake, Shapes, [Next]_vars
    PROVE  Shapes'
<1> USE Numbers
<1>1. CASE RestoreLoop
  BY <1>1 DEF RestoreLoop, RestoreBegin, RestoreOne, Shapes
<1>2. CASE WriteReg
  BY <1>2 DEF WriteReg, Shapes
<1>3. CASE WriteReg0
  BY <1>3 DEF WriteReg0, WriteKey, Shapes
<1>4. CASE AfterPowerOn
  BY <1>4 DEF AfterPowerOn, ReadSetup, Shapes, Handshake, Fields
<1>5. CASE ReadBlock
  <2>1. /\ UNCHANGED <<reg, restore, nv>> /\ g'.s \in {"READ", "IDLE"} /\ g'.n \in 0..CrcBlock
        /\ DOMAIN ram' = {"word", "crc", "own"} /\ DOMAIN ram'.word = Words
    BY <1>5 DEF ReadBlock, Shapes, Handshake, Fields
  <2> QED BY <2>1 DEF Shapes
<1>6. CASE Idle
  BY <1>6 DEF Idle, Shapes, Handshake, Fields
<1>7. CASE UpdateCount
  BY <1>7 DEF UpdateCount, Shapes, Handshake, Fields
<1>8. CASE EraseBlock
  BY <1>8 DEF EraseBlock, Shapes, Handshake, Fields
<1>9. CASE WriteData
  BY <1>9 DEF WriteData, Shapes, Handshake, Fields
<1>10. CASE SetCrc
  BY <1>10 DEF SetCrc, Shapes, Handshake, Fields
<1>11. CASE WriteFin
  BY <1>11 DEF WriteFin, Shapes, Handshake, Fields
<1>12. CASE Reset \/ PowerCut
  BY <1>12 DEF Reset, PowerCut, RegsReset, DriverReset, EmptyRam, Shapes
<1>13. CASE UNCHANGED vars
  BY <1>13 DEF vars, Shapes
<1> QED
  BY <1>1, <1>2, <1>3, <1>4, <1>5, <1>6, <1>7, <1>8, <1>9, <1>10, <1>11, <1>12, <1>13
     DEF Next, RestoreLoop

\* Until the restore loop has ended nobody asks for a save; the loop copies a RAM
\* that does not change, and afterwards RAM and registers stay equal, as do the words
\* the save has written.
Equals ==
    \A r \in Regs :
        /\ ram.word[r] = reg[r]
        /\ Written(r) => nv.word[r] = reg[r]
Copies ==
    ~saved.disturbed =>
        /\ restore.s # "finished" => /\ save_req = 0
                                     /\ IF g.ready THEN g.s = "IDLE" ELSE g.s \in {"WAKEUP", "READ", "IDLE"}
        /\ restore.s = "loop" => \A r \in Regs \ restore.left : reg[r] = ram.word[r]
        /\ restore.s # "waiting" => g.ready /\ g.s # "WAKEUP"
        /\ Loaded => Equals

Saved == Handshake /\ Shapes /\ Copies

LEMMA Equal ==
    ASSUME Saved, Settled, NEW r \in Regs
    PROVE  ram.word[r] = reg[r] /\ (Written(r) => nv.word[r] = reg[r])
<1>1. Copies
  BY DEF Saved
<1>2. Loaded /\ ~saved.disturbed
  BY DEF Settled
<1>3. Equals
  BY <1>1, <1>2 DEF Copies
<1> QED BY <1>3 DEF Equals

LEMMA SavedInit == Init => Saved
<1> SUFFICES ASSUME Init PROVE Saved
  OBVIOUS
<1>1. Handshake
  BY HandshakeInit
<1>2. Shapes
  BY BlockAssumption DEF Init, Shapes, DriverReset, EmptyRam, Sealed, Fresh, Crc, CrcBlock, Blocks
<1>3. Copies
  BY DEF Equals, Init, Copies, DriverReset, Loaded, Restored
<1> QED BY <1>1, <1>2, <1>3 DEF Saved

LEMMA LoopStep == Saved /\ RestoreLoop /\ Shapes' => Copies'
<1> SUFFICES ASSUME Saved, RestoreLoop, Shapes' PROVE Copies'
  OBVIOUS
<1> USE DEF Saved
<1>1. CASE RestoreBegin
  <2>2. /\ UNCHANGED <<reg, save_req, g, ram, nv, saved>> /\ restore.s = "waiting" /\ g.ready
        /\ restore'.s \in {"loop", "finished"} /\ restore'.left = restore.left
    BY <1>1 DEF RestoreBegin, Shapes
  <2>3. Copies'
    BY <2>2 DEF Equals, Shapes, Copies, Loaded, Restored, Written
  <2> QED BY <2>3
<1>2. CASE RestoreOne
  <2>1. CASE restore.left = {}
    <3>1. UNCHANGED <<reg, key, safe, save_req, g, ram, nv, saved>>
          /\ restore.s = "loop" /\ restore' = [restore EXCEPT !.s = "finished"]
      BY <1>2, <2>1 DEF RestoreOne
    <3>3. ~saved.disturbed => g.s = "IDLE" /\ \A r \in Regs : reg[r] = ram.word[r]
      BY <2>1, <3>1 DEF Equals, Copies
    <3>4. Copies'
      BY <3>1, <3>3 DEF Equals, Copies, Shapes, Loaded, Restored, Written
    <3> QED BY <3>4
  <2>2. CASE restore.left # {}
    <3>1. PICK r \in restore.left :
            /\ \E v \in PortReads(r) : reg' = [reg EXCEPT ![r] = v]
            /\ restore' = [restore EXCEPT !.left = @ \ {r}]
      BY <1>2, <2>2 DEF RestoreOne
    <3>2. UNCHANGED <<key, safe, save_req, g, ram, nv, saved>> /\ restore.s = "loop"
      BY <1>2 DEF RestoreOne
    <3>4. ~saved.disturbed => reg' = [reg EXCEPT ![r] = ram.word[r]]
      BY <3>1, <3>2 DEF Equals, Copies, PortReads
    <3>5. Copies'
      BY <3>1, <3>2, <3>4 DEF Equals, Copies, Shapes, Loaded, Restored
    <3> QED BY <3>5
  <2> QED BY <2>1, <2>2
<1> QED BY <1>1, <1>2 DEF RestoreLoop

\* The CPU writes a register: both copies, as the RAM is free.
LEMMA WriteStep == CpuWaits = "ram" /\ Saved /\ WriteReg /\ Shapes' => Copies'
<1> SUFFICES ASSUME CpuWaits = "ram", Saved, WriteReg, Shapes' PROVE Copies'
  OBVIOUS
<1> USE DEF Saved
<1>1. PICK r \in Regs, v \in Values :
        /\ reg' = [reg EXCEPT ![r] = v]
        /\ ram' = IF g.s = "IDLE" THEN [ram EXCEPT !.word[r] = v] ELSE ram
  BY DEF WriteReg
<1>2. g.s = "IDLE" /\ restore.s = "finished"
      /\ UNCHANGED <<key, safe, save_req, restore, g, nv, saved>>
  BY DEF WriteReg, MayWrite, Restored
<1>3. ram' = [ram EXCEPT !.word[r] = v]
  BY <1>1, <1>2
<1>5. Copies'
  BY <1>1, <1>2, <1>3 DEF Equals, Copies, Shapes, Loaded, Restored, Written, Words
<1> QED BY <1>5

LEMMA KeyWrite == CpuWaits = "ram" /\ Saved /\ WriteReg0 /\ Shapes' => Copies'
<1> SUFFICES ASSUME CpuWaits = "ram", Saved, NEW v, WriteKey(v), Shapes' PROVE Copies'
  BY DEF WriteReg0
<1> USE DEF Saved
<1>1. UNCHANGED <<reg, safe, restore, g, ram, nv, saved>>
  BY DEF WriteKey
<1>2. restore.s # "finished" /\ ~saved.disturbed => save_req' = 0
  BY DEF Equals, WriteKey, MayWrite, Restored, Copies, Handshake
<1> QED BY <1>1, <1>2 DEF Equals, Shapes, Copies, Loaded, Restored, Written

-----------------------------------------------------------------------------
(* The steps of the driver.                                                 *)

LEMMA ReadStep == Saved /\ (AfterPowerOn \/ ReadBlock) /\ Shapes' => Copies'
<1> SUFFICES ASSUME Saved, AfterPowerOn \/ ReadBlock, Shapes' PROVE Copies'
  OBVIOUS
<1> USE Numbers DEF Saved
<1>1. CASE AfterPowerOn
  <2>2. Copies'
    BY <1>1 DEF Equals, AfterPowerOn, ReadSetup, Shapes, Handshake, Fields, Copies, Loaded, Restored
  <2> QED BY <2>2
<1>2. CASE ReadBlock
  <2>1. UNCHANGED <<reg, key, safe, save_req, restore, nv, saved>> /\ g.s = "READ"
    BY <1>2 DEF ReadBlock
  <2>2. g'.s \in {"READ", "IDLE"} /\ g'.ready = g.ready /\ g'.n \in 0..CrcBlock
        /\ g'.todo = g.todo
    BY <1>2 DEF ReadBlock, Shapes, Handshake, Fields
  <2>3. /\ DOMAIN ram' = {"word", "crc", "own"} /\ DOMAIN ram'.word = Words
        /\ \A r \in Regs : ram'.word[r] \in {ram.word[r], nv.word[r]}
    BY <1>2 DEF ReadBlock, Shapes
  <2>5. CASE Loaded
    <3>1. ~saved.disturbed => \A r \in Regs : ram.word[r] = reg[r] /\ nv.word[r] = reg[r]
      BY <2>1, <2>5, Equal DEF Settled, Written
    <3>2. ~saved.disturbed => \A r \in Regs : ram'.word[r] = reg[r]
      BY <2>3, <3>1
    <3> QED BY <2>1, <2>2, <2>5, <3>1, <3>2 DEF Equals, Copies, Loaded, Restored, Shapes
  <2>6. CASE ~Loaded
    BY <2>1, <2>2, <2>6 DEF Equals, Copies, Loaded, Restored
  <2> QED BY <2>5, <2>6
<1> QED BY <1>1, <1>2

LEMMA SaveStep ==
    Saved /\ (Idle \/ UpdateCount \/ EraseBlock \/ WriteData \/ SetCrc \/ WriteFin)
        /\ Shapes' => Copies'
<1> SUFFICES ASSUME Saved, Idle \/ UpdateCount \/ EraseBlock \/ WriteData \/ SetCrc \/ WriteFin, Shapes'
             PROVE  Copies'
  OBVIOUS
<1> USE Numbers DEF Saved
<1>1. UNCHANGED <<reg, key, safe, save_req, restore>> /\ saved'.disturbed = saved.disturbed
  BY DEF Idle, UpdateCount, EraseBlock, WriteData, SetCrc, WriteFin, Handshake, Saves
<1>2. ~saved.disturbed /\ ~Idle => restore.s = "finished"
  BY DEF Equals, UpdateCount, EraseBlock, WriteData, SetCrc, WriteFin, Copies, Shapes
<1>3. CASE Idle
  <2>1. g'.s \in {"IDLE", "COUNT"} /\ g'.ready /\ UNCHANGED <<ram, nv>>
        /\ (save_req = 0 => g'.s = "IDLE")
    BY <1>3 DEF Idle, Shapes, Handshake, Fields
  <2> QED BY <1>1, <1>3, <2>1 DEF Equals, Idle, Copies, Loaded, Restored, Written
<1>4. CASE UpdateCount
  <2>1. ram' = [ram EXCEPT !.word[Count] = g.count] /\ nv' = nv
        /\ g' = [g EXCEPT !.s = "ERASE", !.n = 0]
    BY <1>4 DEF UpdateCount
  <2>3. \A r \in Regs : ram'.word[r] = ram.word[r]
    BY <2>1 DEF Shapes
  <2>4. g'.s = "ERASE" /\ g'.n = 0 /\ g'.ready = g.ready
    BY <2>1 DEF Handshake, Fields
  <2>5. \A r \in Regs : ~Written(r)'
    BY <2>4 DEF Written
  <2> QED BY <1>1, <1>2, <1>4, <2>3, <2>4, <2>5 DEF Equals, Copies, Loaded, Restored, UpdateCount, Idle
<1>5. CASE EraseBlock
  <2>1. g.s = "ERASE" /\ ram' = ram /\ g'.s = "WRITE" /\ g'.n = g.n /\ g'.ready = g.ready
        /\ g'.todo = IF g.n = CrcBlock THEN Blocks ELSE WordsOf(g.n)
    BY <1>5 DEF EraseBlock, Handshake, Fields
  <2>2. /\ DOMAIN nv' = {"word", "crc", "own"} /\ DOMAIN nv'.word = Words
        /\ \A r \in Regs : BlockOf[r] < g.n => nv'.word[r] = nv.word[r]
    BY <1>5 DEF EraseBlock, Shapes, WordsOf
  <2>4. \A r \in Regs : Written(r)' => BlockOf[r] < g.n
    BY <2>1 DEF Written, WordsOf, Shapes
  <2>5. \A r \in Regs : Written(r)' => Written(r)
    BY <2>1, <2>4 DEF Written
  <2> QED BY <1>1, <1>2, <1>5, <2>1, <2>2, <2>4, <2>5 DEF Equals, Copies, Loaded, Restored, EraseBlock, Idle
<1>6. CASE WriteData
  <2>1. g.s = "WRITE" /\ ram' = ram /\ g'.n = g.n /\ g'.ready = g.ready
    BY <1>6 DEF WriteData, Handshake, Fields
  <2>2. CASE g.todo # {}
    <3>1. PICK w \in g.todo :
            /\ nv' = IF g.n = CrcBlock THEN [nv EXCEPT !.crc[w] = ram.crc[w]]
                     ELSE [nv EXCEPT !.word[w] = ram.word[w]]
            /\ g' = [g EXCEPT !.todo = @ \ {w}]
      BY <1>6, <2>2 DEF WriteData
    <3>2. /\ DOMAIN nv' = {"word", "crc", "own"} /\ DOMAIN nv'.word = Words
          /\ \A r \in Regs : nv'.word[r] = IF r = w /\ g.n # CrcBlock THEN ram.word[r] ELSE nv.word[r]
      BY <3>1 DEF Shapes
    <3>3. g'.s = "WRITE" /\ g'.todo = g.todo \ {w}
      BY <2>1, <3>1 DEF Handshake, Fields
    <3>5. \A r \in Regs : Written(r)' => Written(r) \/ (r = w /\ g.n # CrcBlock)
      BY <2>1, <3>3 DEF Written
    <3> QED BY <1>1, <1>2, <1>6, <2>1, <3>2, <3>3, <3>5 DEF Equals, Copies, Loaded, Restored, WriteData, Idle
  <2>3. CASE g.todo = {}
    <3>1. /\ DOMAIN nv' = {"word", "crc", "own"} /\ nv'.word = nv.word
          /\ g'.s = IF g.n = CrcBlock THEN "FIN" ELSE "SET_CRC"
      BY <1>6, <2>3 DEF WriteData, Shapes, Handshake, Fields
    <3>3. \A r \in Regs : Written(r)' => Written(r)
      BY <2>1, <2>3, <3>1 DEF Written, Shapes
    <3> QED BY <1>1, <1>2, <1>6, <2>1, <3>1, <3>3 DEF Equals, Copies, Loaded, Restored, WriteData, Idle
  <2> QED BY <2>2, <2>3
<1>7. CASE SetCrc
  <2>1. g.s = "SET_CRC" /\ nv' = nv /\ g'.s = "ERASE" /\ g'.n = g.n + 1 /\ g'.ready = g.ready
        /\ g.n \in Blocks
    BY <1>7 DEF SetCrc, Handshake, Fields, Shapes
  <2>2. DOMAIN ram' = {"word", "crc", "own"} /\ ram'.word = ram.word
    BY <1>7 DEF SetCrc, Shapes
  <2>4. \A r \in Regs : Written(r)' => Written(r)
    BY <2>1 DEF Written
  <2> QED BY <1>1, <1>2, <1>7, <2>1, <2>2, <2>4 DEF Equals, Copies, Loaded, Restored, SetCrc, Idle
<1>8. CASE WriteFin
  <2>1. g.s = "FIN" /\ UNCHANGED <<ram, nv>> /\ g'.s \in {"FIN", "READ"} /\ g'.ready = g.ready
        /\ g'.n \in {g.n, CrcBlock}
    BY <1>8 DEF WriteFin, Handshake, Fields
  <2>3. \A r \in Regs : Written(r)
    BY <2>1 DEF Written
  <2> QED BY <1>1, <1>2, <1>8, <2>1, <2>3 DEF Equals, Copies, Loaded, Restored, WriteFin, Idle
<1> QED BY <1>3, <1>4, <1>5, <1>6, <1>7, <1>8

\* After a reset, or a power cut, no register has been restored.
LEMMA ResetStep == Saved /\ (Reset \/ PowerCut) /\ Shapes' => Copies'
<1> SUFFICES ASSUME Saved, Reset \/ PowerCut, Shapes' PROVE Copies'
  OBVIOUS
<1> USE Numbers DEF Saved
<1>1. restore' = [s |-> "waiting", left |-> Regs] /\ save_req' = 0 /\ reg' = [r \in Regs |-> Default]
  BY DEF Reset, PowerCut, RegsReset
<1>3. CASE Reset
  <2>1. g.ready /\ g' = g /\ (~saved'.disturbed => g.s = "IDLE")
    BY <1>3 DEF Reset, Handshake, Saves
  <2> QED BY <1>1, <2>1 DEF Equals, Copies, Loaded, Restored
<1>4. CASE PowerCut
  <2>1. ~g'.ready /\ g'.s = "WAKEUP"
    BY <1>4 DEF PowerCut, DriverReset
  <2> QED BY <1>1, <2>1 DEF Equals, Copies, Loaded, Restored
<1> QED BY <1>3, <1>4

LEMMA SavedNext ==
    ASSUME CpuWaits = "ram", Saved, [Next]_vars
    PROVE  Saved'
<1>1. Handshake'
  BY HandshakeNext DEF Saved
<1>2. CASE UNCHANGED vars
  BY <1>1, <1>2 DEF Equals, vars, Saved, Shapes, Copies, Loaded, Restored, Written
<1>3. CASE Next
  <2>1. Shapes'
    BY ShapesNext DEF Saved
  <2>2. Copies'
    BY <1>3, <2>1, LoopStep, WriteStep, KeyWrite, ReadStep, SaveStep, ResetStep
       DEF Next, RestoreLoop
  <2> QED BY <1>1, <2>1, <2>2 DEF Saved
<1> QED BY <1>2, <1>3

\* Every save stores the settings in force, and the RAM mirrors them in between, for
\* any registers, division into blocks and number of power cuts and resets, if the
\* CPU writes registers only while the RAM is free (KXR_EEPROM_WR_U0 to L1, IS_IDLE
\* and IS_WRITE_DATA of the driver) and no reset found the driver busy.
THEOREM SavesCurrent == ASSUME CpuWaits = "ram" PROVE Spec => []SavesSettings
<1>1. Init => Saved
  BY SavedInit
<1>2. Saved /\ [Next]_vars => Saved'
  BY SavedNext
<1>3. Saved => SavesSettings
  BY Equal DEF SavesSettings, Written
<1> QED
  BY <1>1, <1>2, <1>3, PTL DEF Spec
-----------------------------------------------------------------------------
(* What is in the EEPROM while a save goes on, or was interrupted.          *)

\* What the words may hold: the registers' values, the count, or nothing.
IsMemory(w) ==
    /\ w \in [Words -> Nat \union {Blank}]
    /\ \A r \in Regs : w[r] \in Values \union {Blank}
    /\ w[Count] \in (0..MaxCount) \union {Blank}

\* The words of the memories, and the words to go in the block that is written.
Contents ==
    /\ reg \in [Regs -> Values \union {Blank}]
    /\ g.count \in (0..MaxCount) \union {Blank}
    /\ IsMemory(ram.word) /\ IsMemory(nv.word)
    /\ IsMemory(saved.begun) /\ IsMemory(saved.complete)
    /\ g.s = "WRITE" => g.todo \subseteq IF g.n = CrcBlock THEN Blocks ELSE WordsOf(g.n)

\* The CRC of block n of some words, and the block of all the CRCs.
CrcIn(words, n) == [w \in WordsOf(n) |-> words[w]]
CrcsOf(words)   == [n \in Blocks |-> CrcIn(words, n)]

\* The EEPROM holds the last complete save.
Stored == nv.word = saved.complete /\ nv.crc = CrcsOf(saved.complete) /\ nv.own = nv.crc

\* Its block of CRCs is that of the last complete save, or is known to be unfinished.
Guarded == nv.own = NoCrc \/ (nv.crc = CrcsOf(saved.complete) /\ nv.own = nv.crc)

\* Where the save that is going on has come to.
Progress ==
    /\ saved.open /\ ram.word = saved.begun
    /\ \A w \in Words :
         BlockOf[w] < g.n \/ (BlockOf[w] = g.n /\ (g.s = "SET_CRC" \/ (g.s = "WRITE" /\ w \notin g.todo)))
           => nv.word[w] = saved.begun[w]
    /\ \A n \in Blocks : n < g.n => ram.crc[n] = CrcIn(saved.begun, n)
    /\ g.s = "WRITE" /\ g.n = CrcBlock =>
         nv.own = NoCrc /\ \A n \in Blocks \ g.todo : nv.crc[n] = ram.crc[n]

\* What has been read so far, if no CRC was wrong.
ReadSoFar ==
    g.n # CrcBlock /\ ~g.crc_error =>
        /\ ram.crc = CrcsOf(saved.complete)
        /\ \A w \in Words : BlockOf[w] < g.n => ram.word[w] = saved.complete[w]

Layout ==
    /\ ram.crc = [n \in Blocks |-> ram.crc[n]] /\ nv.crc = [n \in Blocks |-> nv.crc[n]]
    /\ g.crc_error \in BOOLEAN /\ saved.open \in BOOLEAN
    /\ Guarded
    /\ ~saved.open => Stored
    /\ g.s \in {"ERASE", "WRITE", "SET_CRC"} => Progress
    /\ g.s = "READ" => ReadSoFar /\ (~saved.open => ~g.crc_error)
    /\ g.s = "READ" /\ g.n = CrcBlock => ~g.crc_error

Kept == Handshake /\ Shapes /\ Contents /\ Layout

LEMMA CrcOfBlock == \A m : \A n \in Blocks : Crc(m, n) = CrcIn(m.word, n)
BY Numbers DEF Crc, CrcIn

\* The CRC of the block of CRCs is that block, and an erased one is never right.
LEMMA CrcOfCrcBlock ==
    ASSUME NEW m, m.crc = [n \in Blocks |-> m.crc[n]]
    PROVE  Crc(m, CrcBlock) = m.crc /\ m.crc # NoCrc
<1>1. Crc(m, CrcBlock) = [n \in Blocks |-> m.crc[n]]
  BY DEF Crc
<1>2. DOMAIN m.crc = Blocks
  OBVIOUS
<1>3. 0 \in Blocks
  BY Numbers
<1>4. DOMAIN NoCrc = {}
  BY DEF NoCrc
<1>5. Crc(m, CrcBlock) = m.crc
  BY <1>1
<1>6. m.crc # NoCrc
  BY <1>2, <1>3, <1>4
<1> QED BY <1>5, <1>6

\* Words with equal CRCs are equal, block by block.
LEMMA EqualCrcs ==
    ASSUME NEW a, NEW b, NEW n, CrcIn(a, n) = CrcIn(b, n), NEW w \in WordsOf(n)
    PROVE  a[w] = b[w]
<1>1. CrcIn(a, n)[w] = a[w] /\ CrcIn(b, n)[w] = b[w]
  BY DEF CrcIn
<1> QED BY <1>1

\* Memories with the same words are the same.
LEMMA EqualWords ==
    ASSUME NEW a, NEW b, IsMemory(a), IsMemory(b), \A w \in Words : a[w] = b[w]
    PROVE  a = b
BY DEF IsMemory

LEMMA KeptInit == Init => Kept
<1> SUFFICES ASSUME Init PROVE Kept
  OBVIOUS
<1> USE Numbers
<1>1. Handshake /\ Shapes
  BY SavedInit DEF Saved
<1>2. IsMemory(Fresh) /\ IsMemory([w \in Words |-> Blank])
  BY ValueAssumption DEF IsMemory, Fresh, Words, Blank
<1>3. nv.word = Fresh /\ nv.crc = CrcsOf(Fresh) /\ nv.own = Crc(nv, CrcBlock)
  BY DEF Init, Sealed, CrcsOf, CrcIn, Crc
<1>4. saved.complete = nv.word /\ saved.begun = nv.word /\ ~saved.open /\ saved.open \in BOOLEAN
  BY DEF Init
<1>5. g = DriverReset /\ ram = EmptyRam /\ reg = [r \in Regs |-> Default]
  BY DEF Init
<1>6. Contents
  BY <1>2, <1>3, <1>4, <1>5, ValueAssumption DEF Contents, DriverReset, EmptyRam
<1>7. nv.crc = [n \in Blocks |-> nv.crc[n]]
  BY <1>3 DEF CrcsOf
<1>8. Stored
  <2>1. nv.own = nv.crc
    BY <1>3, <1>7, CrcOfCrcBlock
  <2> QED BY <1>3, <1>4, <2>1 DEF Stored
<1>9. Layout
  BY <1>4, <1>5, <1>7, <1>8 DEF Layout, Guarded, Stored, DriverReset, EmptyRam
<1> QED BY <1>1, <1>6, <1>9 DEF Kept

\* What stands still while the register process runs.
LEMMA RegisterSteps ==
    ASSUME Kept, UNCHANGED <<g, nv, saved.begun, saved.complete, saved.open>>, DOMAIN saved' = Saves,
           reg' \in [Regs -> Values \union {Blank}],
           \/ ram' = ram
           \/ /\ g.s = "IDLE" /\ \E r \in Regs, v \in Values : ram' = [ram EXCEPT !.word[r] = v]
    PROVE  Contents' /\ Layout'
<1> USE Numbers
<1>1. IsMemory(ram'.word) /\ ram'.crc = ram.crc
  <2>1. CASE ram' = ram
    BY <2>1 DEF Kept, Contents
  <2>2. ASSUME NEW r \in Regs, NEW v \in Values, ram' = [ram EXCEPT !.word[r] = v]
        PROVE  IsMemory(ram'.word) /\ ram'.crc = ram.crc
    BY <2>2, ValueAssumption DEF Kept, Contents, Shapes, IsMemory
  <2> QED BY <2>1, <2>2
<1>2. Contents'
  BY <1>1 DEF Kept, Contents
<1>3. g.s \in {"READ", "ERASE", "WRITE", "SET_CRC"} => ram' = ram
  OBVIOUS
<1>4. Layout'
  BY <1>1, <1>3 DEF Kept, Layout, Guarded, Stored, Progress, ReadSoFar
<1> QED BY <1>2, <1>4

\* What a read that ends has found.
ReadWell ==
    g'.s = "IDLE" => /\ ~g'.crc_error => ram'.word = saved.complete
                     /\ ~saved.open => ~g'.crc_error

\* A block is read: the block of CRCs tells the interrupted save from the complete
\* one, and each of the others is right or known to be wrong.
LEMMA ReadKept == Kept /\ ReadBlock => Contents' /\ Layout' /\ ReadWell
<1> SUFFICES ASSUME Kept, ReadBlock PROVE Contents' /\ Layout' /\ ReadWell
  OBVIOUS
<1> USE Numbers DEF Kept
<1>1. /\ UNCHANGED <<reg, nv, saved>> /\ g.s = "READ"
      /\ g'.s = IF g.n = LastBlock THEN "IDLE" ELSE "READ"
      /\ g'.n = IF g.n = CrcBlock THEN 0 ELSE g.n + 1
      /\ g'.count = IF g.n = LastBlock THEN nv.word[Count] ELSE g.count
      /\ g'.crc_error = (g.crc_error \/ ~CrcOk(ram', g.n))
  BY DEF ReadBlock, Handshake, Fields, Shapes
<1>2. CASE g.n = CrcBlock
  <2>1. ram' = [ram EXCEPT !.crc = nv.crc, !.own = nv.own]
    BY <1>2 DEF ReadBlock
  <2>2. ram'.crc = nv.crc /\ ram'.own = nv.own /\ ram'.word = ram.word
    BY <2>1 DEF Shapes
  <2>3. Crc(ram', CrcBlock) = nv.crc /\ nv.crc # NoCrc
    BY <2>2, CrcOfCrcBlock DEF Layout
  <2>4. g'.crc_error = (nv.crc # nv.own)
    BY <1>1, <1>2, <2>2, <2>3 DEF CrcOk, Layout
  <2>5. Contents'
    BY <1>1, <1>2, <2>2 DEF Contents
  <2>6. g'.s = "READ" /\ g'.n = 0
    BY <1>1, <1>2
  <2>7. ~g'.crc_error => nv.crc = CrcsOf(saved.complete)
    BY <2>3, <2>4 DEF Layout, Guarded
  <2>8. ReadSoFar'
    BY <1>1, <2>2, <2>6, <2>7 DEF ReadSoFar
  <2>9. ~saved.open => ~g'.crc_error
    BY <2>4 DEF Layout, Stored
  <2>10. Layout'
    BY <1>1, <1>2, <2>2, <2>4, <2>6, <2>8, <2>9 DEF Layout, Guarded, Stored
  <2> QED BY <2>5, <2>6, <2>10 DEF ReadWell
<1>3. CASE g.n # CrcBlock
  <2>1. g.n \in Blocks
    BY <1>3 DEF Shapes
  <2>2. ram' = [ram EXCEPT !.word = [w \in Words |-> IF w \in WordsOf(g.n) THEN nv.word[w]
                                                     ELSE ram.word[w]]]
    BY <1>3 DEF ReadBlock
  <2>3. /\ ram'.crc = ram.crc /\ ram'.own = ram.own
        /\ ram'.word = [w \in Words |-> IF w \in WordsOf(g.n) THEN nv.word[w] ELSE ram.word[w]]
    BY <2>2 DEF Shapes
  <2>4. IsMemory(ram'.word)
    BY <2>3 DEF Contents, IsMemory
  <2>5. Contents'
    BY <1>1, <2>4 DEF Contents, IsMemory
  <2>6. CrcOk(ram', g.n) <=> CrcIn(ram'.word, g.n) = ram.crc[g.n]
    BY <1>3, <2>1, <2>3, CrcOfBlock DEF CrcOk
  <2>7. ram.crc = CrcsOf(saved.complete) /\ CrcOk(ram', g.n)
          => \A w \in WordsOf(g.n) : ram'.word[w] = saved.complete[w]
    <3>1. ram.crc = CrcsOf(saved.complete) => ram.crc[g.n] = CrcIn(saved.complete, g.n)
      BY <2>1 DEF CrcsOf
    <3> QED BY <2>6, <3>1, EqualCrcs
  <2>8. ReadSoFar' /\ (~g'.crc_error => \A w \in Words : BlockOf[w] <= g.n => ram'.word[w] = saved.complete[w])
    <3> SUFFICES ASSUME ~g'.crc_error
                 PROVE  /\ ram'.crc = CrcsOf(saved.complete)
                        /\ \A w \in Words : BlockOf[w] <= g.n => ram'.word[w] = saved.complete[w]
      BY <1>1, <1>3, <2>1 DEF ReadSoFar
    <3>1. /\ ram.crc = CrcsOf(saved.complete)
          /\ \A w \in Words : BlockOf[w] < g.n => ram.word[w] = saved.complete[w]
      BY <1>1, <1>3 DEF Layout, ReadSoFar
    <3>2. CrcOk(ram', g.n)
      BY <1>1
    <3>3. ASSUME NEW w \in Words, BlockOf[w] <= g.n
          PROVE  ram'.word[w] = saved.complete[w]
      <4>1. CASE w \in WordsOf(g.n)
        BY <2>7, <3>1, <3>2, <4>1
      <4>2. CASE w \notin WordsOf(g.n)
        <5>1. BlockOf[w] < g.n
          BY <2>1, <3>3, <4>2 DEF WordsOf
        <5> QED BY <2>3, <3>1, <4>2, <5>1
      <4> QED BY <4>1, <4>2
    <3> QED BY <2>3, <3>1, <3>3
  <2>9. ~saved.open => ~g'.crc_error
    <3> SUFFICES ASSUME ~saved.open PROVE ~g'.crc_error
      OBVIOUS
    <3>1. ~g.crc_error /\ ram.crc = CrcsOf(saved.complete) /\ nv.word = saved.complete
      BY <1>1, <1>3 DEF Layout, ReadSoFar, Stored
    <3>2. CrcIn(ram'.word, g.n) = CrcIn(saved.complete, g.n)
      BY <2>3, <3>1 DEF CrcIn, WordsOf
    <3>3. ram.crc[g.n] = CrcIn(saved.complete, g.n)
      BY <2>1, <3>1 DEF CrcsOf
    <3> QED BY <1>1, <2>6, <3>1, <3>2, <3>3
  <2>10. Layout'
    BY <1>1, <1>3, <2>1, <2>3, <2>8, <2>9 DEF Layout, Guarded, Stored
  <2>11. ReadWell
    <3>1. g'.s = "IDLE" => g.n = LastBlock
      BY <1>1
    <3>2. g'.s = "IDLE" /\ ~g'.crc_error => \A w \in Words : ram'.word[w] = saved.complete[w]
      BY <2>8, <3>1
    <3> QED BY <2>4, <2>9, <3>2, EqualWords DEF ReadWell, Contents
  <2> QED BY <2>5, <2>10, <2>11
<1> QED BY <1>2, <1>3
\* A save begins, and counts.
LEMMA BeginKept == Kept /\ (AfterPowerOn \/ Idle \/ UpdateCount \/ WriteFin) => Contents' /\ Layout'
<1> SUFFICES ASSUME Kept, AfterPowerOn \/ Idle \/ UpdateCount \/ WriteFin
             PROVE  Contents' /\ Layout'
  OBVIOUS
<1> USE Numbers DEF Kept
<1>1. CASE AfterPowerOn
  <2>1. UNCHANGED <<reg, ram, nv, saved>> /\ g'.s = "READ" /\ g'.n = CrcBlock /\ g'.crc_error = FALSE
        /\ g'.count = g.count
    BY <1>1 DEF AfterPowerOn, ReadSetup, Handshake, Fields
  <2> QED BY <2>1 DEF Contents, Layout, Guarded, Stored, ReadSoFar
<1>2. CASE Idle
  <2>1. UNCHANGED <<reg, ram, nv, saved>> /\ g'.s \in {"IDLE", "COUNT"} /\ g'.crc_error = g.crc_error
    BY <1>2 DEF Idle, Handshake, Fields
  <2>2. g'.count = g.count \/ (g.count \in 0..(MaxCount - 1) /\ g'.count = g.count + 1)
    BY <1>2 DEF Idle, Handshake, Fields
  <2>3. g'.count \in (0..MaxCount) \union {Blank}
    BY <2>2, ValueAssumption DEF Contents, Blank
  <2> QED BY <2>1, <2>3 DEF Contents, Layout, Guarded, Stored
<1>3. CASE UpdateCount
  <2>1. ram' = [ram EXCEPT !.word[Count] = g.count] /\ UNCHANGED <<reg, nv>>
        /\ g'.s = "ERASE" /\ g'.n = 0 /\ g'.count = g.count /\ g'.crc_error = g.crc_error
    BY <1>3 DEF UpdateCount, Handshake, Fields
  <2>2. ram'.word = [ram.word EXCEPT ![Count] = g.count] /\ ram'.crc = ram.crc
    BY <2>1 DEF Shapes
  <2>3. IsMemory(ram'.word)
    BY <2>2, ValueAssumption DEF Contents, IsMemory, Blank
  <2>4. saved'.begun = ram'.word /\ saved'.open = TRUE /\ saved'.complete = saved.complete
    BY <1>3 DEF UpdateCount, Handshake, Saves
  <2>5. Progress'
    BY <2>1, <2>2, <2>4 DEF Progress
  <2>6. Contents'
    BY <2>1, <2>3, <2>4 DEF Contents
  <2>7. Guarded'
    <3>1. Guarded /\ CrcsOf(saved'.complete) = CrcsOf(saved.complete)
      BY <2>4 DEF Layout
    <3> QED BY <2>1, <3>1 DEF Guarded, CrcsOf, CrcIn
  <2>8. Layout'
    BY <2>1, <2>2, <2>4, <2>5, <2>7 DEF Layout
  <2> QED BY <2>6, <2>8
<1>4. CASE WriteFin
  <2>1. UNCHANGED <<reg, ram, nv, saved>> /\ g'.count = g.count
        /\ \/ g'.s = "FIN" /\ g'.crc_error = g.crc_error
           \/ g'.s = "READ" /\ g'.n = CrcBlock /\ g'.crc_error = FALSE
    BY <1>4 DEF WriteFin, Handshake, Fields
  <2> QED BY <2>1 DEF Contents, Layout, Guarded, Stored, ReadSoFar
<1> QED BY <1>1, <1>2, <1>3, <1>4

\* A block is erased: of the block of CRCs that is remembered.
LEMMA EraseKept == Kept /\ EraseBlock => Contents' /\ Layout'
<1> SUFFICES ASSUME Kept, EraseBlock PROVE Contents' /\ Layout'
  OBVIOUS
<1> USE Numbers DEF Kept
<1>1. g.s = "ERASE" /\ Progress /\ UNCHANGED <<reg, ram, saved>> /\ g'.s = "WRITE" /\ g'.n = g.n
      /\ g'.todo = (IF g.n = CrcBlock THEN Blocks ELSE WordsOf(g.n))
      /\ g'.count = g.count /\ g'.crc_error = g.crc_error
  BY DEF EraseBlock, Handshake, Fields, Layout
<1>2. CASE g.n = CrcBlock
  <2>1. nv'.word = nv.word /\ nv'.crc = [n \in Blocks |-> NoCrc] /\ nv'.own = NoCrc
    BY <1>2 DEF EraseBlock, Shapes
  <2>2. Contents'
    BY <1>1, <2>1 DEF Contents
  <2>3. Progress'
    BY <1>1, <1>2, <2>1 DEF Progress
  <2> QED BY <1>1, <2>1, <2>2, <2>3 DEF Layout, Guarded, Progress
<1>3. CASE g.n # CrcBlock
  <2>1. /\ nv'.crc = nv.crc /\ nv'.own = nv.own
        /\ nv'.word = [w \in Words |-> IF w \in WordsOf(g.n) THEN Blank ELSE nv.word[w]]
    BY <1>3 DEF EraseBlock, Shapes
  <2>2. IsMemory(nv'.word)
    BY <2>1 DEF Contents, IsMemory, Blank
  <2>3. Contents'
    BY <1>1, <2>2 DEF Contents
  <2>4. \A w \in Words : BlockOf[w] < g.n => nv'.word[w] = nv.word[w]
    BY <2>1 DEF WordsOf
  <2>5. Progress'
    BY <1>1, <1>3, <2>4 DEF Progress, WordsOf
  <2> QED BY <1>1, <1>3, <2>1, <2>3, <2>5 DEF Layout, Guarded, Progress
<1> QED BY <1>2, <1>3

\* A word is written, or the block is complete; the CRC of the CRCs makes the save
\* the one that will be read.
LEMMA WriteKept == Kept /\ WriteData => Contents' /\ Layout'
<1> SUFFICES ASSUME Kept, WriteData PROVE Contents' /\ Layout'
  OBVIOUS
<1> USE Numbers DEF Kept
<1>1. g.s = "WRITE" /\ Progress /\ UNCHANGED <<reg, ram>> /\ g'.n = g.n /\ g'.count = g.count
      /\ g'.crc_error = g.crc_error
  BY DEF WriteData, Handshake, Fields, Layout
<1>2. CASE g.todo # {}
  <2>1. PICK w \in g.todo :
          /\ nv' = IF g.n = CrcBlock THEN [nv EXCEPT !.crc[w] = ram.crc[w]]
                   ELSE [nv EXCEPT !.word[w] = ram.word[w]]
          /\ g' = [g EXCEPT !.todo = @ \ {w}]
    BY <1>1, <1>2 DEF WriteData
  <2>2. saved' = saved /\ g'.s = "WRITE" /\ g'.todo = g.todo \ {w}
    BY <1>1, <1>2, <2>1 DEF WriteData, Handshake, Fields
  <2>3. CASE g.n = CrcBlock
    <3>1. nv' = [nv EXCEPT !.crc[w] = ram.crc[w]] /\ w \in Blocks
      BY <1>1, <2>1, <2>3 DEF Contents
    <3>2. nv'.word = nv.word /\ nv'.own = nv.own /\ nv'.crc = [nv.crc EXCEPT ![w] = ram.crc[w]]
      BY <3>1 DEF Shapes
    <3>3. nv'.crc = [n \in Blocks |-> nv'.crc[n]] /\ nv'.crc[w] = ram.crc[w]
          /\ \A n \in Blocks \ {w} : nv'.crc[n] = nv.crc[n]
      BY <3>1, <3>2 DEF Layout
    <3>4. Progress'
      BY <1>1, <2>2, <2>3, <3>2, <3>3 DEF Progress
    <3>5. Contents'
      BY <1>1, <2>2, <2>3, <3>2 DEF Contents
    <3>6. nv'.own = NoCrc
      BY <1>1, <2>3, <3>2 DEF Progress
    <3> QED BY <1>1, <2>2, <3>3, <3>4, <3>5, <3>6 DEF Layout, Guarded, Progress
  <2>4. CASE g.n # CrcBlock
    <3>1. nv' = [nv EXCEPT !.word[w] = ram.word[w]] /\ w \in WordsOf(g.n)
      BY <1>1, <2>1, <2>4 DEF Contents
    <3>2. nv'.crc = nv.crc /\ nv'.own = nv.own /\ nv'.word = [nv.word EXCEPT ![w] = ram.word[w]]
          /\ w \in Words
      BY <3>1 DEF Shapes, WordsOf
    <3>3. IsMemory(nv'.word)
      BY <3>2 DEF Contents, IsMemory
    <3>4. nv'.word[w] = saved.begun[w] /\ \A v \in Words \ {w} : nv'.word[v] = nv.word[v]
      BY <1>1, <3>2 DEF Progress, Contents, IsMemory
    <3>5. Progress'
      BY <1>1, <2>2, <2>4, <3>4 DEF Progress
    <3>6. Contents'
      BY <1>1, <2>2, <2>4, <3>3 DEF Contents
    <3>7. Guarded' /\ saved.open /\ nv'.crc = [n \in Blocks |-> nv'.crc[n]]
      BY <1>1, <2>2, <3>2 DEF Layout, Guarded, Progress
    <3> QED BY <1>1, <2>2, <3>5, <3>6, <3>7 DEF Layout
  <2> QED BY <2>3, <2>4
<1>3. CASE g.todo = {} /\ g.n = CrcBlock
  <2>1. nv' = [nv EXCEPT !.own = Crc(nv, CrcBlock)] /\ g'.s = "FIN"
        /\ saved' = [saved EXCEPT !.complete = saved.begun, !.open = FALSE]
    BY <1>1, <1>3 DEF WriteData, Handshake, Fields
  <2>2. saved'.complete = saved.begun /\ saved'.begun = saved.begun /\ saved'.open = FALSE
    BY <2>1 DEF Handshake, Saves
  <2>3. nv'.word = nv.word /\ nv'.crc = nv.crc /\ nv'.own = nv.crc
    BY <2>1, CrcOfCrcBlock DEF Shapes, Layout
  <2>4. nv.word = saved.begun
    BY <1>1, <1>3, EqualWords DEF Progress, Contents
  <2>5. nv.crc = CrcsOf(saved.begun)
    <3>1. \A n \in Blocks : nv.crc[n] = CrcIn(saved.begun, n)
      BY <1>1, <1>3 DEF Progress
    <3> QED BY <3>1 DEF Layout, CrcsOf
  <2>6. Stored'
    BY <2>2, <2>3, <2>4, <2>5 DEF Stored, CrcsOf, CrcIn
  <2>7. Contents'
    BY <1>1, <2>1, <2>2, <2>3 DEF Contents
  <2>8. Guarded'
    BY <2>6 DEF Stored, Guarded
  <2> QED BY <1>1, <2>1, <2>2, <2>3, <2>6, <2>7, <2>8 DEF Layout
<1>4. CASE g.todo = {} /\ g.n # CrcBlock
  <2>1. UNCHANGED <<nv, saved>> /\ g'.s = "SET_CRC"
    BY <1>1, <1>4 DEF WriteData, Handshake, Fields
  <2>2. Progress'
    BY <1>1, <1>4, <2>1 DEF Progress
  <2>3. Contents'
    BY <1>1, <2>1 DEF Contents
  <2> QED BY <1>1, <2>1, <2>2, <2>3 DEF Layout, Guarded, Progress
<1> QED BY <1>2, <1>3, <1>4

\* The CRC of the block that was written goes to the RAM's block of CRCs.
LEMMA CrcKept == Kept /\ SetCrc => Contents' /\ Layout'
<1> SUFFICES ASSUME Kept, SetCrc PROVE Contents' /\ Layout'
  OBVIOUS
<1> USE Numbers DEF Kept
<1>1. g.s = "SET_CRC" /\ Progress /\ UNCHANGED <<reg, nv, saved>> /\ g'.s = "ERASE" /\ g'.n = g.n + 1
      /\ g'.count = g.count /\ g'.crc_error = g.crc_error /\ g.n \in Blocks
  BY DEF SetCrc, Handshake, Fields, Layout, Shapes
<1>2. ram' = [ram EXCEPT !.crc[g.n] = CrcIn(ram.word, g.n)]
  BY <1>1, CrcOfBlock DEF SetCrc
<1>3. ram'.word = ram.word /\ ram'.crc = [ram.crc EXCEPT ![g.n] = CrcIn(ram.word, g.n)]
  BY <1>2 DEF Shapes
<1>4. ram'.crc = [n \in Blocks |-> ram'.crc[n]] /\ ram'.crc[g.n] = CrcIn(saved.begun, g.n)
      /\ \A n \in Blocks : n # g.n => ram'.crc[n] = ram.crc[n]
  BY <1>1, <1>3 DEF Layout, Progress
<1>5. Progress'
  <2>1. \A n \in Blocks : n < g.n + 1 => ram'.crc[n] = CrcIn(saved.begun, n)
    BY <1>1, <1>4 DEF Progress
  <2>2. \A w \in Words : BlockOf[w] < g.n + 1 => nv.word[w] = saved.begun[w]
    BY <1>1 DEF Progress
  <2> QED BY <1>1, <1>3, <2>1, <2>2 DEF Progress, CrcIn
<1>6. Contents'
  BY <1>1, <1>3 DEF Contents
<1> QED BY <1>1, <1>3, <1>4, <1>5, <1>6 DEF Layout, Guarded, Progress

\* A reset of the X68000 leaves the driver alone; after a power cut the driver will
\* read what it left.
LEMMA ResetKept == Kept /\ (Reset \/ PowerCut) => Contents' /\ Layout'
<1> SUFFICES ASSUME Kept, Reset \/ PowerCut PROVE Contents' /\ Layout'
  OBVIOUS
<1> USE Numbers DEF Kept
<1>1. reg' \in [Regs -> Values \union {Blank}]
  BY ValueAssumption DEF Reset, PowerCut, RegsReset
<1>2. UNCHANGED <<nv, saved.begun, saved.complete, saved.open>> /\ DOMAIN saved' = Saves
  BY DEF Reset, PowerCut, Handshake, Saves
<1>3. CASE Reset
  BY <1>1, <1>2, <1>3, RegisterSteps DEF Reset
<1>4. CASE PowerCut
  <2>1. g' = DriverReset /\ ram' = EmptyRam
    BY <1>4 DEF PowerCut
  <2>2. g'.s = "WAKEUP" /\ g'.count = 0 /\ g'.crc_error = FALSE
    BY <2>1 DEF DriverReset
  <2>3. ram'.word = [w \in Words |-> Blank] /\ ram'.crc = [n \in Blocks |-> NoCrc]
    BY <2>1 DEF EmptyRam
  <2>4. IsMemory(ram'.word)
    BY <2>3 DEF IsMemory, Blank
  <2>5. Contents'
    BY <1>1, <1>2, <2>2, <2>4, ValueAssumption DEF Contents
  <2> QED BY <1>2, <2>2, <2>3, <2>5 DEF Layout, Guarded, Stored
<1> QED BY <1>3, <1>4

LEMMA KeptNext ==
    ASSUME Kept, [Next]_vars
    PROVE  Kept'
<1>1. Handshake' /\ Shapes'
  BY HandshakeNext, ShapesNext DEF Kept
<1>2. Contents' /\ Layout'
  <2>1. CASE RestoreBegin
    <3>1. UNCHANGED <<reg, g, ram, nv, saved>>
      BY <2>1 DEF RestoreBegin
    <3> QED BY <3>1, RegisterSteps DEF Kept, Handshake, Contents
  <2>2. CASE RestoreOne
    <3>1. UNCHANGED <<g, ram, nv, saved>>
      BY <2>2 DEF RestoreOne
    <3>2. \A r \in Regs : \A v \in PortReads(r) : v \in Values \union {Blank}
      BY DEF PortReads, Kept, Contents, IsMemory
    <3>3. \/ reg' = reg
          \/ \E r \in Regs : \E v \in PortReads(r) : reg' = [reg EXCEPT ![r] = v]
      BY <2>2 DEF RestoreOne, Kept, Shapes
    <3>4. reg' \in [Regs -> Values \union {Blank}]
      BY <3>2, <3>3 DEF Kept, Contents
    <3> QED BY <3>1, <3>4, RegisterSteps DEF Kept, Handshake
  <2>3. CASE WriteReg
    <3>1. PICK r \in Regs, v \in Values :
            /\ reg' = [reg EXCEPT ![r] = v]
            /\ ram' = IF g.s = "IDLE" THEN [ram EXCEPT !.word[r] = v] ELSE ram
      BY <2>3 DEF WriteReg
    <3>2. UNCHANGED <<g, nv, saved>>
      BY <2>3 DEF WriteReg
    <3>3. reg' \in [Regs -> Values \union {Blank}]
      BY <3>1 DEF Kept, Contents
    <3> QED BY <3>1, <3>2, <3>3, RegisterSteps DEF Kept, Handshake
  <2>4. CASE WriteReg0
    <3>1. UNCHANGED <<reg, g, ram, nv, saved>>
      BY <2>4 DEF WriteReg0, WriteKey
    <3> QED BY <3>1, RegisterSteps DEF Kept, Handshake, Contents
  <2>5. CASE EepromDriver
    BY <2>5, ReadKept, BeginKept, EraseKept, WriteKept, CrcKept DEF EepromDriver
  <2>6. CASE Reset \/ PowerCut
    BY <2>6, ResetKept
  <2>7. CASE UNCHANGED vars
    <3>1. UNCHANGED <<reg, g, ram, nv, saved>>
      BY <2>7 DEF vars
    <3> QED BY <3>1, RegisterSteps DEF Kept, Handshake, Contents
  <2> QED BY <2>1, <2>2, <2>3, <2>4, <2>5, <2>6, <2>7 DEF Next, EepromDriver
<1> QED BY <1>1, <1>2 DEF Kept

\* The registers, the key and the words of both memories stay in their types: the
\* write counter stops at MaxCount and what the restore loop finds in a RAM that the
\* driver uses is a setting (keplerx_reg, IS_IDLE).
THEOREM Typing == Spec => []TypeOK
<1>1. Init => Kept
  BY KeptInit
<1>2. Kept /\ [Next]_vars => Kept'
  BY KeptNext
<1>3. Kept => TypeOK
  BY Numbers DEF Kept, Handshake, Shapes, Contents, IsMemory, TypeOK
<1> QED
  BY <1>1, <1>2, <1>3, PTL DEF Spec

\* A power cut at any point of a save, any number of times and between any two words,
\* leaves an EEPROM that is read as the last complete save or with a CRC error: the
\* block of the CRCs is erased and written last (IS_READ_SETUP, IS_WRITE_DATA,
\* IS_SET_CRC), whatever the CPU and the reset do meanwhile.
THEOREM ReadsSave == Spec => ReadsOneSave
<1>1. Init => Kept
  BY KeptInit
<1>2. Kept /\ [Next]_vars => Kept'
  BY KeptNext
<1>3. Kept /\ [Next]_vars
        => [g.s = "READ" /\ g'.s = "IDLE"
              => /\ ~g'.crc_error => ram'.word = saved.complete
                 /\ ~saved.open => ~g'.crc_error]_vars
  <2> SUFFICES ASSUME Kept, [Next]_vars, g.s = "READ", g'.s = "IDLE"
               PROVE  ReadWell
    BY DEF ReadWell
  <2>1. g' # g
    OBVIOUS
  <2>2. ReadBlock
    BY <2>1 DEF Next, vars, RestoreBegin, RestoreOne, WriteReg, WriteReg0, WriteKey, AfterPowerOn,
       Idle, UpdateCount, EraseBlock, WriteData, SetCrc, WriteFin, Reset, PowerCut, DriverReset
  <2> QED BY <2>2, ReadKept
<1> QED
  BY <1>1, <1>2, <1>3, PTL DEF Spec, ReadsOneSave
=============================================================================
