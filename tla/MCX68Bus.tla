---------------------------- MODULE MCX68Bus ----------------------------
(* Instances of the bus model: which cycles the CPU runs, who answers them. *)
EXTENDS X68Bus

Rd(k) == [kind |-> k, rw |-> 1]
Wr(k) == [kind |-> k, rw |-> 0]

\* The no-wait mode of a 10 MHz X68000, with memory and the registers of every part.
NoWaitSetup ==
    [cycles |-> {Rd("mem"), Wr("mem"), Rd("mem1"), Wr("mem1"), Rd("kx"), Wr("kx"), Rd("merc"),
                 Rd("midi"), Wr("midi"), Wr("area"), Wr("snoop"), Rd("other")},
     main |-> {9}, nowait |-> TRUE, detect |-> FALSE, enabled |-> {"mem", "mem1"},
     off |-> {}, refresh |-> 7, rws |-> {}]
\* The wait mode, with the detection of memory blocks and devices that answer late.
DetectSetup ==
    [cycles |-> {Rd("mem"), Wr("mem"), Rd("memx"), Wr("memx"), Rd("mem1"), Wr("mem1"),
                 Wr("kx"), Rd("other")},
     main |-> {2, 40}, nowait |-> FALSE, detect |-> TRUE, enabled |-> {"mem1"}, off |-> {},
     refresh |-> 7, rws |-> {}]
\* The wait mode with the peripherals and the interrupt acknowledges.
WaitSetup ==
    [cycles |-> {Rd("kx"), Wr("kx"), Rd("merc"), Rd("midi"), Wr("midi"), Wr("snoop"),
                 Rd("iack"), Rd("iackx"), Rd("iack0"), Rd("mem")},
     main |-> {2}, nowait |-> FALSE, detect |-> FALSE, enabled |-> {"mem"}, off |-> {},
     refresh |-> 0, rws |-> {}]
\* Writes to Mercury, whose answer may come in the next cycle of the CPU, and parts that
\* are disabled.
MercurySetup ==
    [cycles |-> {Wr("merc"), Rd("kx"), Rd("mem"), Wr("mem1"), Rd("iack"), Rd("iack0"),
                 Wr("midi"), Rd("midi"), Rd("reserved"), Rd("other")},
     main |-> {2, 9}, nowait |-> TRUE, detect |-> FALSE, enabled |-> {"mem", "mem1"},
     off |-> {"midi", "mem1"}, refresh |-> 0, rws |-> {}]
\* The bus master commands of the SPI port.
MasterSetup ==
    [cycles |-> {Rd("merc"), Rd("other")}, main |-> {2}, nowait |-> TRUE, detect |-> FALSE,
     enabled |-> {"mem"}, off |-> {}, refresh |-> 0, rws |-> {0, 1}]

MCSetups    == {NoWaitSetup, DetectSetup, WaitSetup, MercurySetup, MasterSetup}
MainAnswers == {"mem1", "memx", "area", "snoop", "iackx", "iack0", "reserved", "other"}
Latency == [kx |-> {1, 5, 6}, area |-> {0}, snoop |-> {2}, midi |-> {3}, merc |-> {14, 33}]
Samples == [kx |-> {0, 1, 3}, area |-> {0}, snoop |-> {0, 1}, midi |-> {0}, merc |-> {0},
            none |-> {}]
=============================================================================
