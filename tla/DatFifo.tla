------------------------------- MODULE DatFifo -------------------------------
(***************************************************************************)
(* The FIFO of RTL/lib/datfifo.vhd as operators: a ring of Depth bytes with *)
(* a read and a write address. The FIFO itself checks nothing: a write when *)
(* it is full makes it look empty, a read when it is empty makes it look    *)
(* full. Its users look at FifoEmpty and FifoFull.                          *)
(***************************************************************************)
EXTENDS Naturals, Sequences

CONSTANTS
    Bytes,      \* the bytes told apart
    Depth       \* the generic of that name; one byte of the ring stays unused

ASSUME DepthAssumption == Depth \in Nat /\ Depth > 1

Addresses == 0 .. Depth - 1
Fifos     == [ram : [Addresses -> Bytes], rd : Addresses, wr : Addresses]

FifoReset(ram) == [ram |-> ram, rd |-> 0, wr |-> 0]

\* Mutant of Onward: the address runs past the end of the ring.
OnwardPast(a) == IF a = Depth THEN 0 ELSE a + 1

\* The address after a; both processes wrap it with this comparison.
Onward(a) == IF a + 1 = Depth THEN 0 ELSE a + 1

FifoEmpty(f) == f.rd = f.wr
FifoFull(f)  == f.rd = Onward(f.wr)
FifoHead(f)  == f.ram[f.rd]

\* One clock edge with the ports clr, datwr, datin and datrd; clr wins.
FifoNext(f, clr, datwr, datin, datrd) ==
    [ram |-> IF datwr /\ ~clr THEN [f.ram EXCEPT ![f.wr] = datin] ELSE f.ram,
     rd  |-> IF clr THEN 0 ELSE IF datrd THEN Onward(f.rd) ELSE f.rd,
     wr  |-> IF clr THEN 0 ELSE IF datwr THEN Onward(f.wr) ELSE f.wr]

\* What the FIFO holds, oldest first.
FifoLen(f)  == IF f.rd <= f.wr THEN f.wr - f.rd ELSE f.wr + Depth - f.rd
Contents(f) == [i \in 1 .. FifoLen(f) |-> f.ram[(f.rd + i - 1) % Depth]]
=============================================================================
