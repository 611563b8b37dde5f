-------------------------- MODULE MCHostRelocation --------------------------
(* A file with one instruction of every format the tool patches.           *)
EXTENDS HostRelocation

Sec(name, offset, size, half) == [name |-> name, offset |-> offset, size |-> size, half |-> half]
Rel(type, offset, s, addend) == [type |-> type, offset |-> offset, sym |-> s, addend |-> addend]
Sym(shndx, name, value) == [shndx |-> shndx, name |-> name, value |-> value]

\* auipc, jalr, jal, c.j, c.beqz, beq, lui, addi with zero immediates.
Insns == (0 :> {0, 1, 2, 4, 7}) @@ (4 :> {0, 1, 2, 5, 6, 7, 15}) @@ (8 :> {0, 1, 2, 3, 5, 6, 7})
  @@ (12 :> {0, 13, 15}) @@ (14 :> {0, 8, 14, 15}) @@ (16 :> {0, 1, 5, 6, 15}) @@ (18 :> {4})
  @@ (20 :> {0, 1, 2, 4, 5, 7}) @@ (24 :> {0, 1, 4, 8, 15})
Halves(n) == {2 * a : a \in 0 .. n}
TextHalf == [a \in Halves(17) |-> IF a \in DOMAIN Insns THEN Insns[a] ELSE {}]
DataHalf == [a \in Halves(7) |-> {0, 3}]

TextRela(d) == <<
  Rel("CALL", 0, 1, 0), Rel("RELAX", 0, 1, 0), Rel("HI20", 20, 3, 1), Rel("JAL", 8, 1, d),
  Rel("RVC_JUMP", 12, 1, d), Rel("ALIGN", 14, 1, 2), Rel("LO12_I", 24, 3, 1),
  Rel("RVC_BRANCH", 14, 2, 0), Rel("BRANCH", 16, 1, d)>>
DataRela == <<Rel("32", 0, 1, 4), Rel("ADD32", 4, 2, 0), Rel("RELAX", 4, 1, 0), Rel("SUB32", 4, 1, 0)>>
ExternRela == <<Rel("CALL_PLT", 0, 0, 0), Rel("JAL", 8, 3, 0), Rel("BRANCH", 16, 2, 0)>>

File(value, text, data, order) ==
  [sh |-> <<Sec(<<>>, 0, 0, <<>>), Sec(<<"text">>, 52, 0, TextHalf),
            Sec(<<"rodata">>, 90, 0, DataHalf)>> \o order,
   tab |-> (100 :> text) @@ (200 :> data) @@ (300 :> <<>>),
   sym |-> <<Sym(0, "printf", 0), Sym(1, "f", value), Sym(1, "g", 40), Sym(2, "c", 4)>>]
RelaText(n, at) == Sec(<<"rela", "text">>, at, n, <<>>)
RelaRodata(n) == Sec(<<"rela", "rodata">>, 200, n, <<>>)
RelaDebug == Sec(<<"rela", "debug">>, 300, 0, <<>>)

Values == {0, 30, 254, 2046, 2047, 2048, 2050, 4096, 6143, 6144, 699050}
MCFiles ==
  {File(v, TextRela(d), DataRela, <<RelaText(9, 100), RelaRodata(4), RelaDebug>>) :
     v \in Values, d \in {0, 2, 0 - 2050}}
  \cup {File(v, ExternRela, DataRela, <<RelaRodata(4), RelaText(3, 100)>>) : v \in Values}
  \* An empty table that starts where the next one does.
  \cup {File(30, <<>>, DataRela, <<RelaText(0, 200), RelaRodata(4)>>)}
  \* A call past the symbol.
  \cup {File(30, <<Rel("CALL", 0, 1, 8)>>, DataRela, <<RelaText(1, 100), RelaRodata(4)>>)}

MCBases == {<<0, 4096, 65536, 0, 0, 0>>, <<0, 2^20 + 6, 2^18, 0, 0, 0>>}
MCExternals == [printf |-> 2^22 + 2048]
=============================================================================
