---------------------------- MODULE MCElfLoader ----------------------------
(* Small images for TLC: a word has 64 values, sections a few bytes.       *)
EXTENDS ElfLoader

Hdr(name, type, flags, v_addr, offset, size, rela) ==
  [name |-> name, type |-> type, flags |-> flags, v_addr |-> v_addr,
   offset |-> offset, size |-> size, rela |-> rela]
Rela(offset, type, sym, addend) ==
  [offset |-> offset, type |-> type, sym |-> sym, addend |-> addend]
Sym(shndx, name, value) == [shndx |-> shndx, name |-> name, value |-> value]

NullHdr == Hdr(<<>>, "NULL", {}, 0, 0, 0, <<>>)
Text(size) == Hdr(<<"text">>, "PROGBITS", {"A", "X"}, 8, 1, size, <<>>)
Data(size) == Hdr(<<"data">>, "PROGBITS", {"A", "W"}, 20, 2, size, <<>>)
Rodata(size) == Hdr(<<"rodata">>, "PROGBITS", {"A"}, 30, 3, size, <<>>)
Drlro(size) == Hdr(<<"data", "rel", "ro">>, "PROGBITS", {"A", "W"}, 40, 4, size, <<>>)
Bss(size) == Hdr(<<"bss">>, "NOBITS", {"A", "W"}, 50, 5, size, <<>>)
Comment == Hdr(<<"comment">>, "PROGBITS", {}, 0, 6, 3, <<>>)
RelaHdr(sec_name, rela) == Hdr(<<"rela">> \o sec_name, "RELA", {}, 0, 7, 0, rela)

\* Symbols, numbered from 0 in relocation entries: an exported function, a
\* byte of sections 1 (.text) to 4, an absolute one, and five that cannot be
\* resolved: common, out of bounds, in .comment, and not exported.
Syms == <<Sym(SHN_UNDEF, <<"printf">>, 0), Sym(1, <<>>, 4), Sym(2, <<>>, 1),
          Sym(3, <<>>, 0), Sym(4, <<>>, 1), Sym(SHN_ABS, <<>>, 60),
          Sym(SHN_COMMON, <<>>, 0), Sym(40, <<>>, 0), Sym(5, <<>>, 0),
          Sym(SHN_UNDEF, <<"missing">>, 0)>>

Image(sh) == [entry |-> 10, sh |-> sh, sym |-> Syms]

\* All sections, relocations of .text and .data: a call, a split address, a
\* relaxation marker, an ADD/SUB pair on one word, an absolute value.
Full ==
  Image(<<NullHdr, Text(11), Rodata(3), Data(5), Bss(2), Comment,
     RelaHdr(<<"text">>, <<Rela(0, 18, 0, 0), Rela(0, 51, 0, 0),
                           Rela(4, 26, 2, 1), Rela(7, 27, 2, 1)>>),
     RelaHdr(<<"data">>, <<Rela(0, 35, 1, 0), Rela(0, 39, 4, 0 - 2),
                           Rela(1, 1, 5, 3)>>)>>)
\* .data.rel.ro loaded between .rodata and .bss, patched through .rodata only.
ReadOnly ==
  Image(<<NullHdr, Text(4), Rodata(4), Drlro(3), Bss(4), Comment,
     RelaHdr(<<"rodata">>, <<Rela(0, 1, 3, 0)>>)>>)
\* Text only; no text; a .text whose aligned size wraps to 0; data sizes
\* whose sum wraps.
TextOnly == Image(<<NullHdr, Text(4)>>)
NoText == Image(<<NullHdr, Data(4), Bss(4)>>)
TextWraps == Image(<<NullHdr, Text(Word - 1)>>)
DataWraps == Image(<<NullHdr, Text(4), Data(40), Bss(30)>>)
\* A relocation section for nothing that is loaded.
RelaDebug == Image(<<NullHdr, Text(4), RelaHdr(<<"debug">>, <<>>)>>)
\* One relocation of .text against a symbol that cannot be resolved.
BadSymbols ==
  {Image(<<NullHdr, Text(8), Rodata(3), Data(4), Bss(2), Comment,
           RelaHdr(<<"text">>, <<Rela(0, 1, 1, 0), Rela(4, 1, y, 0)>>)>>) : y \in 6 .. 9}

MCImages == {Full, ReadOnly, TextOnly, NoText, TextWraps, DataWraps, RelaDebug}
              \cup BadSymbols

\* A relocation type esp_elf_arch_relocate does not know (R_RISCV_32_PCREL).
UnsupportedImages ==
  {Image(<<NullHdr, Text(8), RelaHdr(<<"text">>, <<Rela(0, 57, 1, 0)>>)>>)}
\* .data and .data.rel.ro, with relocations for the second.
DrlroImages ==
  {Image(<<NullHdr, Text(8), Data(5), Drlro(4),
           RelaHdr(<<"data", "rel", "ro">>, <<Rela(0, 1, 1, 0)>>)>>)}
\* A call to four bytes past a symbol.
AddendImages ==
  {Image(<<NullHdr, Text(12), RelaHdr(<<"text">>, <<Rela(0, 19, 1, 4)>>)>>)}
ReadErrorImages == {ReadOnly}

MCWord == 64
MCHeapAddrs == {4, 16, 32}
MCNames == {<<>>, <<"data">>, <<"rela", "text">>}
MCLibc == <<[name |-> <<"memcpy">>, sym |-> 61]>>
MCIdf == <<[name |-> <<"printf">>, sym |-> 62]>>
MCCustomer == <<[name |-> <<"printf">>, sym |-> 63], [name |-> <<"gpio">>, sym |-> 59]>>
=============================================================================
