------------------------------- MODULE TxFrame -------------------------------
(***************************************************************************)
(* The serial transmitter of RTL/lib/txframe.vhd as operators. It has a     *)
(* buffer for the next byte (EXDATA, NXTBUF) and a shift register. A tick   *)
(* is an edge at which the bit clock is due (SFT with WCNT at its end); the *)
(* frame is FrameBits of them after the start bit. SUSPEND keeps a new      *)
(* frame from starting and leaves one under way alone.                      *)
(***************************************************************************)
EXTENDS Naturals

CONSTANTS
    FrameBytes,     \* the bytes told apart
    FrameBits       \* LEN + STPLEN

ASSUME FrameAssumption == FrameBits \in Nat /\ FrameBits > 0

Frames == [EXDATA : BOOLEAN, NXTBUF : FrameBytes, SFTBUF : FrameBytes,
           BITCNT : 0 .. FrameBits, DRCNT : BOOLEAN]

FrameReset(zero) == [EXDATA |-> FALSE, NXTBUF |-> zero, SFTBUF |-> zero,
                     BITCNT |-> 0, DRCNT |-> FALSE]

\* The start bit goes out. EXDATA is the value before the edge.
Starts(t, tick, suspend) ==
    tick /\ t.BITCNT = 0 /\ t.EXDATA /\ ~suspend

\* One clock edge with the ports WRITE, DATA, SFT and SUSPEND.
FrameNext(t, write, data, tick, suspend) ==
    LET start == Starts(t, tick, suspend)
        taken == write /\ ~t.EXDATA
    IN  [EXDATA |-> (t.EXDATA \/ taken) /\ ~start,
         NXTBUF |-> IF taken THEN data ELSE t.NXTBUF,
         SFTBUF |-> IF start THEN t.NXTBUF ELSE t.SFTBUF,
         BITCNT |-> IF start THEN FrameBits
                    ELSE IF tick /\ t.BITCNT > 0 THEN t.BITCNT - 1
                    ELSE t.BITCNT,
         DRCNT  |-> IF tick /\ t.BITCNT = 0 THEN start ELSE t.DRCNT]

\* Mutant of BufEmp: the write that is just coming is not seen.
BufEmpEarly(t, write) == ~t.EXDATA

\* BUFEMP, with the port WRITE that it looks at too.
BufEmp(t, write) == ~t.EXDATA /\ ~write
=============================================================================
