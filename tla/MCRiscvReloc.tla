---------------------------- MODULE MCRiscvReloc ----------------------------
(* Distances at the edges of every immediate format, from both sides.      *)
EXTENDS RiscvReloc

Distances == {0, 2, 0 - 2, 4, 254, 256, 0 - 256, 0 - 258, 1366, 0 - 1366, 2046, 2047,
              2048, 2049, 0 - 2048, 0 - 2049, 4094, 4096, 0 - 4096, 0 - 4098, 129022,
              0 - 131072, 699050, 2^20 - 2, 2^20, 0 - 2^20, 2^28 + 2048}
MCLoadAddrs == {8, 2^20 + 2046}
Addrs == {l + d : l \in MCLoadAddrs, d \in Distances}

Entry(type, off, addr, addend) ==
  [type |-> type, off |-> off, addr |-> addr, addend |-> addend]

Singles == {<<Entry(t, 0, a, d)>> : t \in (Supported \cup Skipped \cup {"32_PCREL"}) \ Calls,
                                    a \in Addrs, d \in {0, 0 - 6}}
CallPrograms == {<<Entry(t, 0, a, 0)>> : t \in Calls, a \in Addrs}
Halves == {<<Entry(h, 0, a, 2), Entry(l, 4, a, 2)>> :
             h \in {"HI20", "TPREL_HI20"},
             l \in (Lo12ITypes \cup Lo12STypes) \ PcRelative, a \in Addrs}
Pair(n) == {<<Entry(<<"ADD8", "ADD16", "ADD32">>[n], 0, a, 1),
              Entry(<<"SUB8", "SUB16", "SUB32">>[n], 0, b, 0)>> : a \in {8, 300, 70000}, b \in {8, 301, 4}}

MCPrograms == Singles \cup CallPrograms \cup Halves \cup Pair(1) \cup Pair(2) \cup Pair(3)

\* All zeros, all ones, a compressed c.lui in front of another instruction.
MCContents == {{}, 0 .. 31, {0, 7, 9, 13, 14, 17, 21, 30}}
=============================================================================
