# X68k Kepler-X: a verification project

Kepler-X is an FPGA board for the Sharp X68000. It sits on the expansion bus of
the computer's 68000, offers memory, sound and MIDI, answers interrupts, may
master the bus for a Raspberry Pi, and keeps its settings in the EEPROM of a
GreenPAK chip. This directory holds TLA+ models of its control logic, the TLC
runs that check them, and proofs that TLAPS checks.

    tlc -config X68Bus.cfg MCX68Bus             # a run: its cfg with its MC module
    tlapm MidiCtrlProofs.tla                    # the proofs of a module

`PROJECT.json` lists the runs, the lines of source behind every definition (`map`),
the disagreements found (`findings`), the hazards, and for each property a
*mutant*: a plausible bug in a mapped definition that makes the property fail.
The mutants stand beside the definition they change, marked "Mutant of".

## 1. The system

The board's own logic is VHDL under `src/RTL`, with `X68KeplerX.vhd` on top, and two C
programs: the firmware of a microcontroller beside the FPGA, and the program that writes
the GreenPAK chips in production. Nearly all of the VHDL runs on one 100 MHz clock
(`sys_clk` = `mem_clk`), so a step of its models is an edge of it: every register takes
its next value from the values before the edge. What makes it hard is what is *not* on
that clock: the 68000 with its own clock and its own idea of where in a bus cycle it is,
devices that answer when they like, the reset button and the power switch.

| Component | State | Operations | Talks to |
|---|---|---|---|
| Interrupt arbiter (`X68KeplerX.vhd` 1726) | edge registers, a request and a vector per source, `irq_int_vec`, `irq_invalid` | detect an edge, claim at IACK | Mercury, MIDI; bus state machine; CPU |
| Bus state machine (1805) | `bus_state`, `bus_mode`, `o_dtack_n`, `bus_tick`, `m68k_state`, `sys_addr`, requests | one state per action | CPU pins, GreenPAK bus switch, all peripherals |
| Expansion memory (`exmemory.vhd`) | request state, enable, data | read, write | bus state machine, SDRAM controller |
| SPI port (4129) | `spi_state`, `busmas_req` | set address and data, read, write | bus master states |
| Registers (2748) | `keplerx_reg`, REG0's key, restore loop | read, write, save command, restore | bus state machine, EEPROM driver, I2C driver |
| EEPROM driver (`greenpak_eeprom.vhd`) | state, RAM, CRC, write counter, `ready`, `save_ack` | read all, save all | registers, I2C |
| I2C (`lib/i2c`) | arbiter, one proxy per driver, byte interface | request, grant, byte, start, stop, INIT | three drivers |
| WM8804 driver, CPU's I2C driver | state, timeout | register writes and reads | I2C, registers |
| MIDI controller (`em3802.vhd`, `datfifo.vhd`, `txframe.vhd`) | registers, FIFO, transmitter, R02 and R00 | register writes, chip reset, send, request | bus state machine, interrupt arbiter, MIDI output |
| MIDI output (`midi_ctrl.vhd`) | `mctrl_state`, `exmes_req`, `channel`, sender | pass the source on, control message, all notes off | registers, MIDI controller |
| ADPCM (`e6258.vhd`) | handshake, request that changes its level, ring of nibbles | write on `sys_clk`, play on `snd_clk` | bus state machine, sound clock |
| Mercury, PPI, OPM | request state, PCM FIFO | bus cycles, interrupts, audio | bus state machine, interrupt arbiter |
| CH32V003 firmware (`src/CH32v003`) | state machines of buzzer, card slot and LED, I2C registers | polling loop, I2C interrupt | the CPU's I2C driver, card slot |
| GreenPAK writer (`src/GreenPAK/fpga-writer`) | three command buffers, DMA descriptors, answers | erase, write, read back | DMA controller, I2C master; production only |

What makes each correct, and what is hard about it:

* **Interrupt arbiter.** Every assertion of a source's line raises one interrupt,
  every acknowledge cycle answered gives the vector of the source it claimed, and
  none is consumed without an answer. Hard: the sources withdraw requests at any
  edge, and the bus state machine reads the result some edges later.
* **Bus state machine.** A cycle is answered if and only if it is the board's,
  once, with its own data. Hard: addresses are latched at guessed S-states *before*
  AS; writes are acknowledged before their data is taken; a peripheral's late
  acknowledge meets the next cycle; refreshes delay the memory; a block that nobody
  answers is claimed after 500 ns.
* **Bus mastering.** The CPU and the board never drive together; a command ends
  though nobody answers.
* **I2C.** One transfer at a time, no byte lost, each transfer with its start
  condition, and the bus free again whatever a driver does. Hard: a proxy is freed in
  the very edge in which its driver may begin again; a driver may time out or be
  reset alone.
* **Settings.** What is read without a CRC error is one complete save; what is saved
  is what is in force. Hard: a power cut at any of the some hundred writes of a save,
  a reset of one side only, a CPU that cannot see when the RAM is free.
* **MIDI controller.** The bytes written are the bytes sent, in order and once each;
  every rise of an enabled cause is requested. Hard: FIFO, feeder and transmitter look
  at each other's flags an edge early, a chip reset takes two of the three, and the
  FIFO defends itself against nothing.
* **MIDI output.** A message is sent whole, every channel is silenced after a reset, and
  the output goes back to its source. Hard: two requests and two acknowledges meet in one
  state, the host may write during a message, and a source may hold the output.
* **ADPCM.** Every nibble is played once and in order. Hard: a byte crosses between two
  clocks with no relation, and four places hold at most three nibbles that can be told
  from none.
* **Firmware.** A card is reported attached only after its melody, a swap is seen
  outside, and the registers end at what the pins are. Hard: a byte is read, changed and
  written back while an interrupt may write it; buzzer and slot share two flags; the
  card moves at any time.
* **GreenPAK writer.** A block is erased before it is written, and each answer is the
  one asked for. Hard: a transfer returns when its words have been fetched and not when
  they have been sent, so that only waits keep program and bus together, and hardly
  any result is looked at.

## 2. Plan

Done, in this order: interrupt arbiter; CPU and bus state machine; I2C; settings; the
MIDI controller's transmit side and the MIDI output; the firmware; the GreenPAK
writer; ADPCM. To come:

1. Peripherals with their own handshake: the CPU's I2C driver with `KXR_WAIT_I2C` and
   its stale acknowledge (`I2CDriver`), `e8255`, the receive side of `em3802` (`rxframe`,
   its FIFO), the PCM FIFO of `eMercury`.
2. The byte interface alone with INIT at any edge (`I2CIF`), the reset sequencer with
   its button counter, a reset of the board inside a bus cycle (`midi_req`), the byte
   protocol of the SPI port.
3. More abstract specifications: a lock that `I2CBus` implements, an atomic save that
   `KeplerRegs` implements.
4. More proofs: `WriteNotLost` and the memory handshake of `X68Bus`, then what it says of
   answers and data.

Composition: `M68000` (the CPU and the main board) is extended by `X68Bus`, in whose
`Edge` the synchronisers, tracker, memory, SDRAM, SPI port and one peripheral take
their step together with one state of the bus state machine. `IrqArbiter` stands
alone with the part of `BS_S_INT` it needs; `X68Bus` takes its verdict as the kind
of the cycle (`iack`, `iackx` or `iack0`). `I2CBus` composes the arbiter, N proxies, N drivers
and the interface. `KeplerRegs` composes the register process and the EEPROM driver
and leaves the bus between them and the chip to `I2CBus`. `DatFifo` and `TxFrame` are
operators on a record, so that `Em3802` and `MidiCtrl` step as many of them as they have,
in the same edge as the rest. Three modules are promises that others are shown to
keep: `ByteQueue` (by `Em3802`), `NibbleQueue` (by `Adpcm`) and `FourPhase` (by the flags
of `KxFirmware`). Firmware and writer stand alone: the first meets the rest only through
the bytes of an I2C slave, the second is another board.

## 3. Modules

### IrqArbiter
`Arbiter` is the whole process that drives `o_irq_n`: its three-bit edge registers
(index 0 the newest), `Detected` and `Latched` for the request and vector of a
source, `Claims` for the falling edge of IACK, `irq_invalid`. The source lines and
vectors are inputs chosen anew at each edge. The CPU is external: it sees the line
(`CpuTake`), later pulls IACK (`CpuStartIack`); `BusInt` is the one look that
`BS_S_INT` takes, at an age of the cycle in `CheckAt`. History variables: `owner`,
`served`, `withdrawn`.

Bounds: one vector for Mercury, two for MIDI (its vector register changes); the
check 3 edges after IACK (the earliest the code can make it), IACK held one edge more.
A source has no state but its line, so longer cycles repeat these edges. The proofs
are for all vectors and ages.

### M68000, X68Bus
`M68000` (external) runs the cycles of `setup.cycles` in any order, with idle states
between, as a 68000 does: AS, DS and R/W at their S-states, wait states until DTACK,
the bus given up between cycles. The main board answers the kinds in `Answered`
after any of the delays in `setup.main`; every cycle is answered by somebody, as the
computer's bus error timer is not modelled.

In `X68Bus` each `BS_*` action is the `when` branch of that name. `R` holds what the
process does in every state (DTACK released with AS, mode changes at fixed ticks,
the bus request); an action overrides it. Two abstractions keep it small: an address
is its kind and its *age* (how many CPU cycles ago it was valid, up to 2), and data
only its age. A stale address or datum is then visible as an age other than 0. A
tick is 10 ns, and an action of the CPU is a tick of the same clock: half a period
of 5 ticks is a 10 MHz CPU. The GreenPAK switch and the 16374 latch take
`SwitchTicks`; a peripheral acknowledges after any latency in `AckLatency` and reads
the bus at the ages in `SampleAges` (the edges at which the register process, the
snoops and so on read `sys_addr`, the strobes and the data). The tick numbers
(8, 12, 15, 24 and the rest) are the code's. `Setups` holds what does not change in a
behaviour: the kinds of cycle the CPU runs, the wait mode, the detection, how often the
memory is refreshed, which commands the SPI port has, and the parts that
`keplerx_reg(4)` disables (`off`, `On`; the main board answers their cycles). `setup` is
one of them from the start, so that one run covers several boards. `SetupAssumption` says
of them only that the blocks found at the last start (`enabled`) are blocks of memory.
The program may change `keplerx_reg(4)` between two cycles, which a fixed `off` leaves
out; no state carries a decision on it from one cycle to the next. `iack0` is an
acknowledge that reaches `BS_S_INT` with no request (`BS_S_FAIL`), `reserved` a cycle with
a function code the 68000 does not use.

`served` remembers the cycle the state machine accepted. `Own` says which cycles the
board answers. Block 1 (`mem1`) it reads and writes too, and the code is of two minds
about answering it: lines 2164, 2180 and 2196 leave that to the main board, and in the
no-wait mode line 2063 does not. The model has both; `AnswersOnlyItsOwn` counts block 1 as
the board's in the no-wait mode only.

`Spi` is the four states a command goes through; SPI_FIN ends when the host raises
CS, which it may do at any edge.

### I2CBus
The arbiter's four states, the proxies, the combinational paths (`Wr`,
`Start`, `Rd`, `TxEmpPxy`, ...) as operators over the state, and the byte interface with
a byte as one tick. A driver is any of the code's three: it writes two or three bytes or
reads one or two after a restart, and begins again at any time. `Hasty` drivers begin as
soon as the last byte is there, as the EEPROM driver's read loop does; their first byte
then meets a proxy that gives the bus back in the same edge, goes out without its start
condition, and is sent again with one once the proxy has asked for the bus.
`BytesOwned`, with `StartNotSkipped` in it, excepts exactly that. `Quitters` may time
out or be reset in the middle. A device may leave any byte without acknowledge, which
sets `noack`; no driver looks at it.

### KeplerRegs
Upper half: the register process (`RestoreOne`, `WriteReg`, `NextKey` for REG0).
Lower half: the EEPROM driver, one word or block per step. The CRC of a block is the
block itself: a CRC that collides is outside the model. `CpuWaits` says how careful
the CPU is: "ram" waits until the RAM is free (which it cannot see), "id" until the ID
is KX, as the comment on REG0 tells it. `ResetAt` gives the driver's states in which a
reset of the X68000 may come, and `Cuts` bounds the power cuts, which may come at
any step. While the driver uses the RAM, the restore loop reads some word of it
(`PortReads`): the true set is larger, with the CRCs and the blocks above.
`sys_rstn` waits for the EEPROM (line 1650), which `MayWrite` and `RestoreBegin`
have as the wait for `ready`. The write counter's 8000 hex is `MaxCount`. The history
`saved` holds the last complete save, the last begun, whether one is open, and
`disturbed`: the last reset came while the driver was busy. Then the restore loop reads
at the driver's address, and a request that is withdrawn by the reset leaves the save
running, which is what the properties except by that name.

### DatFifo, TxFrame, ByteQueue, Em3802
`FifoNext` and `FrameNext` are one edge of the FIFO and of the transmitter; a step of
`Em3802` is one edge of everything. `Host` is the four-phase handshake of the bus state
machine, with one of `Writes` per cycle; `Registers` is the register process as far as
sending and interrupts need it, `Transmit` the process that moves a byte from the FIFO
to the transmitter, `Interrupts` the process of R02, R00 and `irq_n`. The bit clock
(`tick`), the timer's clock (`sftm`) and `suspend` are inputs, free at each edge, so a
frame meets every alignment with them. `Careful` is a host that reads R54 before it
writes a byte; a comment in the code (line 376) knows of a program that does not. TxC
(R55) is in the module and outside the runs' `Writes`: if it meets the edge in which the
transmitter takes a byte, the read address passes the write address and the FIFO plays
127 old bytes.

`ByteQueue` is the promise: bytes waiting, the byte on the line and the bits of it that
are still to go out. A byte begins when the one before is out, and only the edge at which
a chip reset begins (`Cut`) may do harm: it cuts the frame on the line, as `crstn` resets
the transmitter too (em3802.vhd:434, txframe.vhd:40), and may cost the byte behind it,
which has left the FIFO. The FIFO keeps the rest. The mapping (`Pending`) collects the
byte wherever it is: on the bus, in the register, in the FIFO, between FIFO and transmitter, in its buffer.

### MidiCtrl
The register process's side of the two requests (`Register`, `AllNotesOff`), the bus
state machine with `exmes_req` (`Bus`), the message control (`Idle`, `Send` for the
eleven states that send a byte, `Pause`, `Fin`), the sender, and one source, which is
a `TxFrame` fed at any edge. `Word` and `Follows` are the states' bytes and
successors. `sent` is a history of the bytes since the message control left its
MCTRL_IDLE. A reset may come at any edge, and so may a write to REG10: the header
(line 34) and the comment on REG10 (X68KeplerX.vhd:2693) tell the host to wait for bit
15, but the top sends only writes to `midi_ctrl`, so that the bit is 0 for ever and
`MayWrite` always true.

The message reads command and parameter when it gets to them. `disturbed` remembers a
write that was taken from the command's turn on: such a write may mix two commands in one
message, within a frame that stays whole (`Framed`). A write in the very edge of F7's
acknowledge makes `exmes_req` and `exmes_ack` wait for each other (`Locked`), and nothing
goes out until a reset. A request while the output is busy with something else is lost,
since `exmes_req` falls in the next edge (`Kept`).

### FourPhase, KxFirmware
A step is one poll of the loop in `main`, or the part of one between two accesses to
what the interrupt handler may change: the bits of two pins and, later, of a third are
put into register 2, each with a load and a store of its own (`DetLoad`, `DetStore`,
`CsLoad`, `CsStore`, `IntLoad`, `IntStore`; a build may keep the byte between the first two,
which is `DetKept`); the LED's three registers are loaded one by one (`LedColor`,
`LedBright`, `LedBlink`); and a frame of bits (`FrameSent`) goes out with interrupts enabled. The
handler is the I2C slave library's; it stores the byte the host writes (`HostWrite`) at
any of these points, and stretches a frame it interrupts, after which the LED may show
anything (`Torn`). A pin may move at any step. `TimeOver` is the time of a note, whose
length the tables do not tell apart; a blinking LED may or may not be due. `Setups`
says which pins move and which registers the host writes: card and identification,
card and status byte, LED. The histories are `heard`, the notes played to their end in the
melody, and `noticed`, a removal that was noticed and that MMC_n has not shown yet. A card
that is pulled out and put back while a melody plays goes unnoticed, as no state looks
at the pin then: `SwapShown` speaks of those that were noticed.

`FourPhase` is the handshake of request and acknowledge that slot and buzzer promise
each other; the mapping is the two flags themselves.

### GreenPakWriter
`main` reads both memories, writes each block of one (erase, write), reads it back, and
the same for the other (`Phases`). A command is built in the buffer of its kind and handed
to the DMA controller (`Build`, `Transfer`); the transfer returns when the controller has
fetched the words (`Polled`), which may be long before the I2C master has sent them. It
returns an error when its 5 ms are over (`TimedOut`), and leaves its descriptor in the
queue. `wire` is what is under way, with what was built (`cmd`) and what was fetched of the
buffer (`got`). The waits of the program, 10 ms after a read and 100 ms
after an erase, are longer than anything the bus
does unless it is held, hence the guard `Waited`; after `Stall` they are in vain until the
backlog is worked off (`late`). `Buffered` and `QueueDepth` are the words and descriptors
that find room (`system.h`: a FIFO of 32 behind four words, a queue of eight); TLC gives
the same results for 24 to 36 words.

The device refuses a command while it is busy, and now and then otherwise (`Refuse`); the
master then swallows what follows until its status bit is cleared (`Flush`).
`i2c_callback` clears it, but leaves the interrupts disabled: where the comment says
that it enables them (main.c:187) it enables the master, which is on already. A second
refusal is never handled, hence the premise of `WriterEnds` that the master leaves its
error state. What was read back is shown, and compared by
nobody. The histories are `failed`, a transfer has returned an error, and `lost`, the
commands refused or swallowed.

### NibbleQueue, Adpcm
A step is an edge of `sys_clk`, in some of them with one of `snd_clk` (`SysOnly`, `Both`).
The next edge of `snd_clk` comes after any of `Periods` edges, 6 or 7 for 100 and 16 MHz,
so that the phase drifts freely, and the first register behind the crossing takes the old
or the new level of a request that changes in that edge. `Latch` and `Answer` are the
handshake on `sys_clk`, `TakeWrite` and `Play` the two halves of the process on `snd_clk`. The
CPU's next request comes at least `Gap` edges after the last; 14 is less than any cycle
(40 at 10 MHz). The divider that asks for a nibble may do so at any edge. A stop command
leaves the nibbles in the ring; they are the first of the next play.

`NibbleQueue` is the promise: nibbles that wait, the one being taken, and a loss that is
allowed only when `Room` of them wait. `bufcount` is a difference of two addresses of
two bits, so that a full ring counts as empty: a byte that meets two waiting nibbles
fills the ring and all four are lost; one that meets three takes the high nibble and the
one before (the code's comment has this case only). `Losses` are these two.

## 4. Runs

| Run | Properties | Shows | Bounds |
|---|---|---|---|
| `irq` | `OncePerAssertion`, `AnswerMatchesClaim`, `RequestsServed` | one interrupt per assertion; a vector exactly when claimed, and of the source claimed; no request waits for ever | 2 sources, 3 vectors, check at 3 |
| `bus` | `AnswersOnlyItsOwn`, `DataInTime`, `TakenIntact`, `ClaimsOnlyFree`, `MasterExclusive`, `WriteNotLost`, `CyclesEnd` | DTACK and data only in an accepted cycle of the board's, the CPU latches that cycle's data, peripherals and SDRAM get its own address and data, no write is lost, no block of another device is claimed, CPU and board never drive together, every cycle and SPI command ends | five setups: no-wait mode, twelve kinds of cycle, main board after 9 ticks, registers after 1, 5 or 6, Mercury after 14 or 33; wait mode with detection and block 1, others after 2 or 40 ticks (the watchdog is 50); wait mode with peripherals and acknowledges; writes to Mercury, MIDI and memory disabled or not; bus master in both directions, answered or not |
| `i2c` | `GrantExclusive`, `BytesOwned`, `BusServed` | one holder, every byte of its driver's, each transfer of a driver that waits with its start; the EEPROM driver gets the bus and everybody gives it back, if the devices acknowledge | 3 drivers, the first hasty, any acknowledge |
| `settings` | `SavesSettings`, `IdTellsSaving`, `ReadsOneSave`, `SaveEnds` | RAM and registers agree, a save is of the settings in force, the ID tells its end, what is read without CRC error is the last complete save, and a save ends | 2 registers in 2 blocks (one shares its block with the counter), 2 values, 2 cuts, a reset in every state, safe mode or not, counter limit 1 |
| `em3802` | `PopSafe`, `BytesInOrder` | the FIFO and the transmitter are read and written only when they may be; bytes go out in order, once and whole, but for the two a chip reset may cost (`ByteQueue`) | ring of 4, frames of 2 bits, 2 bytes, chip resets and suspension at any edge |
| `midi_ctrl` | `MessagesWhole`, `MessagesEnd` | the frame of a control message is whole, and of one write unless another came from the command's turn on; all channels are silenced after each reset; the output goes back to its source | 2 channels, bytes of 2 bits, pauses of 1, 2 commands (one without parameter), writes and resets at any edge |
| `adpcm` | `NibblesInOrder` | nibbles are played once and in order (`NibbleQueue`) | ring of 4, 2 nibbles, periods 6 and 7, gap 14, reset at any edge |
| `firmware` | `SwapShown`, `MelodyWhole`, `FourPhaseKept`, `MmcSettles`, `RegistersSettle` | melodies whole, handshake kept, slot, LED and registers end at what pins and host ask for | three setups of moving pins and written registers; two colours, two brightnesses, dark and one shade |
| `writer` | `InStep`, `NoMixture`, `CompletedIsWritten`, `WriterEnds` | program, DMA and bus in step until a transfer fails; no block written over old contents without a fault; the writer ends if no read is refused | 3 blocks in each memory, 2 stalls, 2 refusals, depths of `system.h` |

Each run checks `TypeOK` (`IrqTypeOK`) too. The bounds are chosen so that the interesting cases happen:
the states of all processes are those of the code, so only repetition is cut off. Three
drivers are the code's number. Two blocks give each order of "old", "erased" and "new" that
the seven of the board do, and a block with two words is cut in its middle. A ring of four
wraps at each alignment with the three places behind it. The channels and bits of a
message are counters whose only test is at their end. Three blocks of the writer give a
command before, behind and between others, two refusals are one with the handler and one
without it, and two stalls let a backlog meet another. Melodies, colours and pins of the
firmware have their true number.

Three runs show a statement of the source that is not true of the code: `i2c_timeout`
(after a timeout or a reset of the CPU's driver the bus is never free again),
`settings_reread` (a register written while the driver reads the EEPROM back is saved
with its old value later) and `em3802_irq` (an interrupt cause that rises in the edge of
a clear is lost). The passing runs of the same parts exclude exactly that cause
(`Quitters` empty; `CpuWaits` = "ram"), so that they say what holds otherwise. More of
what the code does is left out of the passing runs or excepted by a property, and is
known:

* a write to the slow half of Mercury gets its DTACK in the next cycle, as BS_S_FIN_WAIT
  does not look at AS (`Overrun`);
* a read of the board's own registers gets its DTACK (line 2365) before its data is on the
  bus, against the comment at line 2438; `DataInTime` asks only that the data is there when
  the CPU latches it;
* a write to block 1 in the wait mode that the main board answers without a wait state:
  `bus_tick` begins again at S6, and cuts short the nine ticks that line 2189 wants to wait
  for the 16374 (`CutShort`);
* a reset of the X68000 during a save restores the registers from the address the driver
  has set, and lets the ID say "KX" too early (`disturbed`);
* TxC, as told in section 3;
* REG10's busy bit, which is never 1: a message with command and parameter of two writes
  (`disturbed`), a request that is lost, and the write that locks MCTRL_FIN (`Locked`);
* the write counter of the EEPROM stops at 32768 (greenpak_eeprom.vhd:319 tests its bit 15),
  where the header of the file (line 23) gives 32767 as the largest value; `MaxCount` is the
  code's;
* `midi_ctrl` raises SUSPEND an edge after it has seen the source quiet, and a byte that
  begins in that edge is cut;
* a frame to an LED that an I2C interrupt stretches shows anything until the next one
  (`Torn`), and for the card slot's LED that is the next move of the card;
* a new colour may be seen with the old brightness until the next polls, and a bit of
  register 2 that the host writes may be undone by a store of the loop;
* the writer after a failed transfer or a refusal: a command still
  queued goes out with what its buffer holds by then, an answer may be that of an
  earlier read, and a write without its erase mixes old and new contents.

A save after a CRC error stores the words the driver read and not the defaults in
force, as the restore is skipped and the RAM is not set. `SavesSettings` therefore speaks
of registers that were restored (`Settled`).

## 5. Fairness

The clock never stops: `WF_vars` of the next-state relation (`bus`), of the edge
(`irq`), of the tick of the serial clock (`i2c`, every edge a tick, which is only faster
than one in 125), of the EEPROM driver and of the restore loop (`settings`). In
`midi_ctrl` it is an edge with the bit clocks whenever they may come (`Runs`), and such
an edge with the restore loop at its end, which it reaches 8 us after a reset.
`MessagesEnd` itself says that the source pauses now and then and, for all notes off, that
the host stops writing to REG10, as its messages go first; the one write that locks the
output is excepted (`Locked`). `irq` adds that the CPU takes an interrupt it sees and acknowledges
it, which a 68000 does unless its software masks it for ever. `settings` adds that
software that asked for a save polls REG0 as the comment says (`Polls`), since the ID
changes only on a write. The firmware's loop never waits for anybody (`Loop`) and a
note's time passes (`TimeOver`). The writer's program and the hardware around it go on
(`Main`, `Fetch`, `Bus`), an erase or write of the device ends (`DeviceReady`), and an
interrupt that is enabled is taken (`i2c_callback`); that the bus is let go, that no
read is refused and that the master leaves its error state are the premises of
`WriterEnds`. Nothing is assumed of the I2C devices but what `FirstServed` and
`BusServed` say themselves: that every byte is acknowledged, because a driver that reads
has no way out of a missing byte but its timeout.

Deadlock is checked in every run but those of the writer, which ends in a loop that only
shows the switches: each of the other machines always has a step.

## 6. Proofs

Eight modules hold the theorems; every leaf is checked. Each theorem is for every value
of the constants, with no assumption but the named ones of the modules and those given
below; TLC has checked each inductive invariant on the run's instance first. `Typing` of
a module is its `TypeOK`, `ArbiterTyping` that of the arbiter.

* `I2CBusProofs`. `OneHolder`: `GrantExclusive` for any N, with hasty drivers and
  drivers that give up at any time. The invariant ties each proxy to the arbiter: a
  grant is up for the selected driver only, and only in IS_GRANT; a proxy that is not
  the selected one is idle or waiting. It needs nothing of the drivers or the
  interface, so the loss of the bus in `i2c_timeout` is not a loss of exclusion.
  `WiresOwned`: `BytesOwned` when no driver gives up (`Quitters` empty; what happens
  otherwise is `i2c_timeout`). The invariant follows a byte from driver to wires:
  where a driver stands and where its proxy does go together (`Abreast`), the arbiter
  with the proxy it has selected (`Selected`), only a hasty driver's first byte meets a
  connection that is still open (`Patient`), and the interface is busy with the selected
  driver's byte or with none (`Wires`). `Typing`.
* `KeplerRegsProofs`. `IdTells`: `IdTellsSaving` for any registers, blocks, power cuts and
  resets. The invariant `Handshake` says that the request is up exactly while the key is
  "11", that the driver saves only with the request up, and acknowledges only at the end;
  a reset that finds the driver busy breaks the first, and is what `disturbed` remembers.
  `SavesCurrent`: `SavesSettings` for a CPU that waits for the RAM (`CpuWaits` = "ram").
  Its invariant `Saved` adds to `Handshake` the shapes of the records and `Copies`: the
  restore loop copies a RAM that does not change, afterwards registers and RAM are equal,
  and so are registers and the words of the EEPROM that the save has passed (`Written`).
  A CPU that goes by the ID breaks it, which is the run `settings_reread`.
  `ReadsSave`: `ReadsOneSave`, with any CPU. The block of CRCs is erased and written last,
  so that it is always that of the last complete save or known to be unfinished
  (`Guarded`): contents that agree with it are that save's, however many blocks a cut has
  left erased, old or new. `Layout` adds what a save in progress has written (`Progress`), what
  an EEPROM with no open save holds (`Stored`), and what a read has compared so far
  (`ReadSoFar`); `Contents` is the typing of both memories, which `Typing` needs too.
* `Em3802Proofs`. `PopsAreSafe`: `PopSafe` for any depth, frame length, bytes and causes,
  for a host that heeds R54 and does not clear the FIFO (`PoliteHost`). `PopSafe`
  needs of the past that a write passes the bus, the register and the FIFO one
  after the other (`Flight`), and that the room R54 told of is still there when the byte
  arrives (`Room`): a FIFO that overflowed would look empty with bytes in it.
  `KeepsQueue`: under the same premise the chip implements `ByteQueue`. The FIFO is read as
  a sequence (`Contents`), what is pending is the concatenation of the five places a byte
  may be (`Parts`), and a step moves a byte from the head of one to the tail of the next,
  takes the first or appends the last; the bits still to go out are those of the transmitter's
counter. `Sending` says that the byte the transmitter is to
  take is still the first of the FIFO, and that a chip reset has emptied the transmitter.
  `Typing` is without the premise: overrun or cleared, the FIFO keeps its ranges.
* `MidiCtrlProofs`. `WholeMessages`: `MessagesWhole` for any commands, channels, pauses and
  rate of the bit clock, any source, and resets and writes to REG10 at any edge. A byte goes out once for its state,
  because the edge of its acknowledge cannot be one of the bit clock (`Pace`, from the gap
  of two edges at least between two bit clocks). What has been sent is what the states
  so far say (`Spoken`): for a control message a list, for the channels the first
  `Count` bytes of `Silence`. `Typing`
  needs `Count` too, since `TypeOK` bounds the length of `sent`. `SizeAssumption` says
  that a channel has four bits (midi_ctrl.vhd:148).
* `KxFirmwareProofs`. For all setups, colours, brightnesses and shades: `Typing` (with it, that `sound_count`
  stays in the table of its melody), `WholeMelodies`, `SwapsShown` and `KeepsFourPhase`
  (initial states map to initial states, every step to a step or a stutter). The invariant
  `Sound` relates buzzer, flags and history: a note that is asked for is the one
  that `sound_count` has just passed, and as many have been heard as were asked for and
  played. Neither the type of `sound_count` nor the handshake is inductive without it.
* `GreenPakWriterProofs`. `StaysInStep`: `InStep` for any number of blocks, depths,
  stalls and refusals. Until a transfer fails at most one descriptor waits for the
  controller (`OneAhead`), at most one answer is asked for and it is the one of this
  block (`OneAnswer`), and the fetched words are those that were built (`Faithful`).
  `NeverMixed` and `DoneIsWritten`: `NoMixture` and `CompletedIsWritten`. `Memories` follows
  erase and write of each block: each is on its way once at most and the erase first
  (`InOrder`), and when they have been taken the block is erased, then written, unless one
  was lost (`Written`). Completion needs that nothing is on its way then: the last
  command is a read, and its answer comes behind everything sent (`ReadLast`).
  `Typing` holds after a failure too: at most two answers are ever left behind, of phase 4
  and of phase 7 (`Answers`), so that they stay below the mark of `fifo_callback`.
* `AdpcmProofs`. `Typing` and `KeepsQueue`, for any nibbles, length of the ring and
  periods, under `SlowCpu`: the gap between two requests is two periods of `snd_clk` at
  least. `Handover` counts the edges that are left until `snd_clk` has answered; with
  it the CPU never meets an unanswered byte. The refinement `KeepsQueue` follows from lemmas on
  the ring as a sequence: a read takes its head (`Popped`), a byte in time is appended
  (`Pushed`), one that comes late replaces (`Replaced`) or empties (`LateByte`) as `Losses` allows.
* `X68BusProofs`. `OneMaster`: `MasterExclusive` for any setups, half periods, delays and
  latencies. Four facts tie the CPU to the board: a grant is given only while the CPU asserts
  AS or starts no cycle (`Granted`); when the board's synchronised samples show the grant
  and AS released, the CPU has released AS and the grant stands (`Released`), although
  they are two edges old; from BGACK on the CPU stays so (`Taken`); and BS_M_FIN, which
  gives the bus back, is reached only after the CPU has taken the grant away, so that the
  next grant is a new one (`Regranted`). `Typing` adds the registers (`Registers`,
  `Beside`) and that the kind BS_S_EXMEM_FORK decides on was latched before it and stays
  until it has decided (`Forked`), without which it might enable a block that is none.
* `X68BusProofs`, autodetection. `ForeignKept`: `ClaimsOnlyFree` under `Detectable`: half
  a CPU clock is 5 ticks or more (10 MHz or slower, so that the address is latched before
  S4), no block of another device is enabled by the reset, and the other device answers in
  fewer ticks than the watchdog counts, without which autodetection cannot be right. The
  decision needs five registers of the board to agree with a CPU it sees one to three ticks
  late: the samples of clock and AS (`Clocked`, `Strobed`), the S-state (`Tracked`), the
  latched address (`Addressed`) and the watchdog, which stays ahead of the main board's answer
  (`Awaited`, `Watched`). The hard case is the end of a cycle: a watchdog that is still
  counting when AS rises meets the sample of AS at most two ticks later, and a cycle
  accepted that late starts it afresh.
* `X68BusProofs`, last part. For any vectors and times of the check: `ArbiterInv` is
  `IrqTypeOK` with: a source that was served and not seen high has no request
  (`ServedInv`); a request has a vector of its source (`VectorInv`); the acknowledge
  register and the age of the cycle agree (`IackInv`), and with them what the arbiter has
  claimed (`ClaimInv`); `irq_invalid` implies a withdrawal (`WithdrawnInv`). None of the properties is inductive alone: that an answer matches
  the claim depends on *when* the edge reached the register, hence the clauses that
  tie the age to the edge register. `LateCheck` (the look comes at least 3 edges
  after IACK) is the one assumption; the code gives it by waiting for `bus_tick` 15.
  Theorems: `Invariance`, `ArbiterTyping`, `ServedOnce`, `AnswerClaimed`, `FailExplained`.
  The module extends `X68Bus` and `IrqArbiter`, two processes of one file, and each theorem
  is about one of them.

Only model-checked: of `X68Bus`, `AnswersOnlyItsOwn`, `DataInTime`, `TakenIntact` and
`WriteNotLost`, which depend on counted ticks over more than twenty
states of two machines out of step, and hold only for delays like those of the run's
setups. Outside this prover's reach, and left
to TLC: liveness under fairness and ENABLED (every property of section 5), and induction
over data.

## 7. Not modelled

To come, as section 2 says: the PPI, Mercury's inside, the receive side of the MIDI
controller, the handshake of REG18, the reset sequencer's counters and the byte protocol
of the SPI port. The wrappers of the OPM and the DAC, the audio mixer, I2S and the text
overlay have no control of their own beyond counters; ADPCM's decoder is arithmetic.

Of the firmware: the waveforms of buzzer and LEDs, and the I2C slave library, which is
modelled from how the loop uses it. Of the writer: `kxlog` (it is not reentrant and the
interrupt handler calls it too; it changes nothing but the text on the screen),
`fifo_callback` (`TypeOK` shows that its mark is never reached), the driver functions that
`main.c` does not call, and the script for the Raspberry Pi, which is a straight sequence
of synchronous calls.

PLLs, Qsys output, BSPs, `node_modules` and tool reports are generated or vendored; two
copies of the vendor's board support package are most of the C in the tree. The
SDRAM controller, the SPI slave, HDMI and the sound cores are submodules whose source is
not in the tree; the first two are modelled from how the code uses them. Timing within a
tick (set-up and hold, metastability beyond the choice of a level) is below this
abstraction. `PROJECT.json` gives the status of each component, and for each hazard
without a property the reason.
