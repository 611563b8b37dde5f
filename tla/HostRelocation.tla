--------------------------- MODULE HostRelocation ---------------------------
(***************************************************************************)
(* build/relocation.c, the host tool run on an application before it is    *)
(* shipped.  It applies the relocations whose symbol is in the section     *)
(* they patch, drops the relaxation markers, compacts each table in place  *)
(* and clears the names of defined symbols.  What the device then loads    *)
(* must be what it would have loaded from the untouched file.              *)
(*                                                                         *)
(* A section is [name, offset, size, half]: size counts the entries of a   *)
(* relocation section, half maps even offsets to 16-bit halfwords (sets of *)
(* bit positions).  tab maps a file offset to the relocation entries that  *)
(* start there.                                                            *)
(***************************************************************************)
EXTENDS RiscvEncode, Sequences, SequencesExt

CONSTANTS
  Files,      \* input files [sh, tab, sym]
  Bases,      \* load addresses of the sections, for comparing loaded images
  Externals   \* addresses of the symbols the firmware exports

VARIABLES
  input,      \* the file the tool was given
  sh, tab, sym,   \* the file in memory
  pc,
  i,          \* section header being scanned
  links,      \* rela_link: [begin, size] of the relocation sections found, last one first
  ndx, p, rel,    \* patched section, as ELF counts; write and read index
  runs        \* how many times the tool has been run on the file
vars == <<input, sh, tab, sym, pc, i, links, ndx, p, rel, runs>>

-----------------------------------------------------------------------------
(* Arithmetic of the tool.                                                 *)

\* C division truncates toward zero.
Quot(a, b) == IF a >= 0 THEN a \div b ELSE 0 - ((0 - a) \div b)
\* Mutant: 2048 is left in the low part.
CalcHiLate(offset) ==
  LET hi == Quot(offset, 4096)
      r == offset - hi * 4096
  IN  IF 2048 < r THEN hi + 1 ELSE IF r < 0 - 2048 THEN hi - 1 ELSE hi
\* _calc_imm: imm_hi; imm_lo is offset - imm_hi * 4096.
CalcHi(offset) ==
  LET hi == Quot(offset, 4096)
      r == offset - hi * 4096
  IN  IF 2047 < r THEN hi + 1 ELSE IF r < 0 - 2048 THEN hi - 1 ELSE hi

\* _extract_bits(num, low, size) << at
ExtractBits(num, low, size, at) == Field(num, low + size - 1, low, at)

\* _get_val and _set_val go by halfwords; _add_val adds all 32 bits.
_add_val(m, a, v) ==
  LET lo == NatOf(m[a], 16) + NatOf(v, 16)
      hi == NatOf(m[a + 2], 16) + NatOf({b - 16 : b \in v \ (0 .. 15)}, 16) + lo \div 65536
  IN  [m EXCEPT ![a] = Field(lo, 15, 0, 0), ![a + 2] = Field(hi, 15, 0, 0)]

Immediate32(type, offset) ==
  CASE type = "BRANCH" ->
         ExtractBits(offset, 12, 1, 31) \cup ExtractBits(offset, 5, 6, 25)
           \cup ExtractBits(offset, 1, 4, 8) \cup ExtractBits(offset, 11, 1, 7)
    [] type = "JAL" ->
         ExtractBits(offset, 20, 1, 31) \cup ExtractBits(offset, 1, 10, 21)
           \cup ExtractBits(offset, 11, 1, 20) \cup ExtractBits(offset, 12, 8, 12)
    [] type = "RVC_JUMP" ->
         ExtractBits(offset, 11, 1, 12) \cup ExtractBits(offset, 4, 1, 11)
           \cup ExtractBits(offset, 8, 2, 9) \cup ExtractBits(offset, 10, 1, 8)
           \cup ExtractBits(offset, 6, 1, 7) \cup ExtractBits(offset, 7, 1, 6)
           \cup ExtractBits(offset, 1, 3, 3) \cup ExtractBits(offset, 5, 1, 2)
    [] type = "RVC_BRANCH" ->
         ExtractBits(offset, 8, 1, 12) \cup ExtractBits(offset, 3, 2, 10)
           \cup ExtractBits(offset, 6, 2, 5) \cup ExtractBits(offset, 1, 2, 3)
           \cup ExtractBits(offset, 5, 1, 2)

\* The switch on the type, for a symbol of the patched section.
Applied == Calls \cup {"BRANCH", "JAL", "RVC_JUMP", "RVC_BRANCH"}
Patch(m, r, value) ==
  LET offset == value + r.addend - r.offset
      hi == CalcHi(offset)
      lo == offset - hi * 4096
  IN  IF r.type \in Calls
        THEN _add_val(_add_val(m, r.offset, Field(hi, 19, 0, 12)),
                      r.offset + 4, Field(lo, 11, 0, 20))
        ELSE _add_val(m, r.offset, Immediate32(r.type, offset))

-----------------------------------------------------------------------------
(* main().                                                                 *)

IsRela(s) == Len(s.name) > 0 /\ s.name[1] = "rela"

IsHeader(s) ==
  /\ s = [name |-> s.name, offset |-> s.offset, size |-> s.size, half |-> s.half]
  /\ s.size \in Nat /\ s.name \in Seq(ToSet(s.name))

IsSymbol(y) == y = [shndx |-> y.shndx, name |-> y.name, value |-> y.value] /\ y.value \in Int

\* Relocation sections name a table of the file that is at least as long, and
\* no other section starts where a table does.  Entries refer to symbols of the
\* file.
ASSUME FilesAssumption ==
  \A f \in Files :
    /\ f.sh \in Seq(ToSet(f.sh))
    /\ \A j \in DOMAIN f.sh :
         IsHeader(f.sh[j]) /\ f.sh[j].half \in [DOMAIN f.sh[j].half -> SUBSET (0 .. 15)]
    /\ \A j \in DOMAIN f.sym : IsSymbol(f.sym[j])
    /\ \A o \in DOMAIN f.tab : \A e \in DOMAIN f.tab[o] :
         LET r == f.tab[o][e] IN r.sym + 1 \in DOMAIN f.sym /\ r.offset \in Int /\ r.addend \in Int
    /\ \A o \in DOMAIN f.tab : f.tab[o] \in Seq(ToSet(f.tab[o]))
    /\ \A j \in DOMAIN f.sh : IsRela(f.sh[j]) =>
         /\ f.sh[j].offset \in DOMAIN f.tab /\ f.sh[j].size <= Len(f.tab[f.sh[j].offset])
         /\ \A t \in DOMAIN f.sh : ~IsRela(f.sh[t]) => f.sh[t].offset # f.sh[j].offset
ASSUME BasesAssumption == \A f \in Files, bs \in Bases : \A t \in DOMAIN f.sh : bs[t] \in Int

Init ==
  /\ input \in Files /\ sh = input.sh /\ tab = input.tab /\ sym = input.sym
  /\ pc = "scan" /\ i = 1 /\ links = <<>> /\ ndx = 0 /\ p = 0 /\ rel = 0 /\ runs = 0

\* The loop over the section headers pushes every relocation section, with
\* the bounds its table has now.
Scan ==
  /\ pc = "scan" /\ i <= Len(sh) /\ i' = i + 1
  /\ links' = (IF IsRela(sh[i]) THEN <<[begin |-> sh[i].offset, size |-> sh[i].size]>>
               ELSE <<>>) \o links
  /\ UNCHANGED <<input, sh, tab, sym, pc, ndx, p, rel, runs>>

Scanned ==
  /\ pc = "scan" /\ i > Len(sh) /\ pc' = "link"
  /\ UNCHANGED <<input, sh, tab, sym, i, links, ndx, p, rel, runs>>

\* The section named like what follows ".rela" in the name of a relocation
\* section at this place, the last one found; 0 when there is none.
PatchedSection(off) ==
  LET named(j) == {t \in DOMAIN sh : sh[t].name = Tail(sh[j].name)}
      js == {j \in DOMAIN sh : IsRela(sh[j]) /\ sh[j].offset = off /\ named(j) # {}}
  IN  IF js = {} THEN 0 ELSE Max(named(Max(js))) - 1

\* Mutant: the write index starts one entry too far.
NextLinkLate ==
  /\ pc = "link" /\ links # <<>>
  /\ LET n == PatchedSection(Head(links).begin)
     IN  IF n = 0 THEN links' = Tail(links) /\ UNCHANGED <<pc, ndx, p, rel>>
         ELSE pc' = "entry" /\ ndx' = n /\ p' = 2 /\ rel' = 1 /\ UNCHANGED links
  /\ UNCHANGED <<input, sh, tab, sym, i, runs>>
NextLink ==
  /\ pc = "link" /\ links # <<>>
  /\ LET n == PatchedSection(Head(links).begin)
     IN  IF n = 0 THEN links' = Tail(links) /\ UNCHANGED <<pc, ndx, p, rel>>
         ELSE pc' = "entry" /\ ndx' = n /\ p' = 1 /\ rel' = 1 /\ UNCHANGED links
  /\ UNCHANGED <<input, sh, tab, sym, i, runs>>

Begin == Head(links).begin
\* Mutant: an entry that is kept is not moved down.
KeepInPlace(r) == p' = p + 1 /\ UNCHANGED <<tab, sh>>
Keep(r) == tab' = [tab EXCEPT ![Begin][p] = r] /\ p' = p + 1 /\ UNCHANGED sh

\* The entry is applied now: its symbol is defined in the patched section.
Applies(r) == r.type \in Applied /\ sym[r.sym + 1].shndx = ndx

OneEntry ==
  /\ pc = "entry" /\ rel <= Head(links).size /\ rel' = rel + 1
  /\ LET r == tab[Begin][rel]
     IN  \/ r.type \in {"ALIGN", "RELAX"} /\ UNCHANGED <<tab, sh, p>>
         \/ /\ Applies(r) /\ UNCHANGED <<tab, p>>
            /\ sh' = [sh EXCEPT ![ndx + 1].half = Patch(@, r, sym[r.sym + 1].value)]
         \/ r.type \notin {"ALIGN", "RELAX"} /\ ~Applies(r) /\ Keep(r)
  /\ UNCHANGED <<input, sym, pc, i, links, ndx, runs>>

\* Mutant: the sizes in the headers are left.
EndLinkOldSize ==
  /\ pc = "entry" /\ rel > Head(links).size
  /\ links' = Tail(links) /\ pc' = "link"
  /\ UNCHANGED <<input, sh, tab, sym, i, ndx, p, rel, runs>>
\* Every relocation section that starts at this table gets the new size.
EndLink ==
  /\ pc = "entry" /\ rel > Head(links).size
  /\ sh' = [j \in DOMAIN sh |-> IF IsRela(sh[j]) /\ sh[j].offset = Begin
                                  THEN [sh[j] EXCEPT !.size = p - 1] ELSE sh[j]]
  /\ links' = Tail(links) /\ pc' = "link"
  /\ UNCHANGED <<input, tab, sym, i, ndx, p, rel, runs>>

\* Only undefined symbols keep their names.
Stripped == [j \in DOMAIN sym |->
               IF sym[j].shndx = 0 THEN sym[j] ELSE [sym[j] EXCEPT !.name = ""]]

Finish ==
  /\ pc = "link" /\ links = <<>>
  /\ sym' = Stripped /\ runs' = runs + 1 /\ pc' = "done"
  /\ UNCHANGED <<input, sh, tab, i, links, ndx, p, rel>>

\* The tool is run again on its own output.
Rerun ==
  /\ pc = "done" /\ runs = 1 /\ pc' = "scan" /\ i' = 1
  /\ UNCHANGED <<input, sh, tab, sym, links, ndx, p, rel, runs>>

Next == Scan \/ Scanned \/ NextLink \/ OneEntry \/ EndLink \/ Finish \/ Rerun
Spec == Init /\ [][Next]_vars

-----------------------------------------------------------------------------
(* The device: every entry of every table applied at load addresses bs.    *)

\* The word at a; a section may end with the first half of one.
WordAt(m, a) == m[a] \cup (IF a + 2 \in DOMAIN m THEN {b + 16 : b \in m[a + 2]} ELSE {})
Store(m, a, w) == [m EXCEPT ![a] = w \cap (0 .. 15), ![a + 2] = {b - 16 : b \in w \ (0 .. 15)}]
Resolve(f, r, bs) ==
  LET y == f.sym[r.sym + 1]
  IN  IF y.shndx = 0 THEN Externals[y.name] ELSE bs[y.shndx + 1] + y.value
OnDevice(f, r, m, bs, base) ==
  LET w == [o \in {0, 4} |-> WordAt(m, r.offset + o)]
      u == esp_elf_arch_relocate(w, r.type, 0, base + r.offset, Resolve(f, r, bs), r.addend)
      low == Store(m, r.offset, u[0])
  IN  IF r.type \in Skipped THEN m
      ELSE IF r.type \in Calls THEN Store(low, r.offset + 4, u[4]) ELSE low

\* The contents of section t of file f once loaded at bs[t] and relocated by
\* the entries of section j.
LoadedSection(f, j, t, bs) ==
  LET table == f.tab[f.sh[j].offset]
      made[n \in 0 .. f.sh[j].size] ==
        IF n = 0 THEN f.sh[t].half ELSE OnDevice(f, table[n], made[n - 1], bs, bs[t])
  IN  made[f.sh[j].size]

-----------------------------------------------------------------------------
(* Properties.                                                             *)

\* No two relocation tables start at the same place of the file.
TablesApart == \A j, t \in DOMAIN input.sh :
  IsRela(input.sh[j]) /\ IsRela(input.sh[t]) /\ input.sh[j].offset = input.sh[t].offset => j = t

\* The tables stay where they are, the tool reads and writes inside them, and
\* the compaction never overtakes the reading: no entry is lost unread.
TypeOK ==
  /\ pc \in {"scan", "link", "entry", "done"} /\ DOMAIN tab = DOMAIN input.tab
  /\ \A o \in DOMAIN tab : Len(tab[o]) = Len(input.tab[o])
  /\ pc = "entry" =>
       /\ links # <<>> /\ Begin \in DOMAIN tab /\ Head(links).size <= Len(tab[Begin])
       /\ p \in 1 .. rel /\ rel \in 1 .. Head(links).size + 1

\* No call has an addend: the tool adds it, the device leaves it out.
CallsPlain == \A o \in DOMAIN input.tab : \A e \in DOMAIN input.tab[o] :
  input.tab[o][e].type \in Calls => input.tab[o][e].addend = 0

\* No two sections have the same name.
NamesApart == \A j, t \in DOMAIN input.sh : input.sh[j].name = input.sh[t].name => j = t

\* Entry r of a table for section n, as ELF counts, is one the tool applies, or
\* one that only the device can apply; how many of the first e entries at off
\* are of the second kind.
Resolved(r, n) == r.type \in Applied /\ input.sym[r.sym + 1].shndx = n
Kept(r, n) == r.type \notin {"ALIGN", "RELAX"} /\ ~Resolved(r, n)
Rank(off, n, e) == Cardinality({d \in 1 .. e : Kept(input.tab[off][d], n)})

\* The halfwords an entry is about, and whether there is no immediate in them
\* yet: the tool adds one, the device replaces it.
Cover(r) ==
  {r.offset} \cup (IF r.type \in {"RVC_BRANCH", "RVC_JUMP", "RVC_LUI"} THEN {} ELSE {r.offset + 2})
    \cup (IF r.type \in Calls THEN {r.offset + 4, r.offset + 6} ELSE {})
ImmediateBits(type) ==
  CASE type = "BRANCH" -> (7 .. 11) \cup (25 .. 31)
    [] type = "RVC_JUMP" -> 2 .. 12
    [] type = "RVC_BRANCH" -> (2 .. 6) \cup (10 .. 12)
    [] OTHER -> 12 .. 31
Blank(m, r) ==
  /\ WordAt(m, r.offset) \cap ImmediateBits(r.type) = {}
  /\ r.type \in Calls => WordAt(m, r.offset + 4) \cap (20 .. 31) = {}

\* Section t as an assembler leaves it, with its entries in table j: they lie
\* inside the section, and where the tool applies one there is no other.
Assembled(j, t) ==
  LET m == input.sh[t].half
      table == input.tab[input.sh[j].offset]
      live == {e \in 1 .. input.sh[j].size : table[e].type \notin Skipped}
  IN  \A e \in live :
        /\ Cover(table[e]) \subseteq DOMAIN m
        /\ Resolved(table[e], t - 1) =>
             /\ Blank(m, table[e])
             /\ \A d \in live \ {e} : Cover(table[e]) \cap Cover(table[d]) = {}

\* What the device makes of the tool's output, at whatever addresses it loads
\* the sections, is what it makes of the original file.
SameLoadedImage ==
  pc = "done" /\ TablesApart /\ NamesApart /\ CallsPlain =>
    LET out == [sh |-> sh, tab |-> tab, sym |-> sym]
    IN  \A j, t \in DOMAIN sh, bs \in Bases :
          IsRela(sh[j]) /\ sh[t].name = Tail(sh[j].name) /\ t # 1 /\ Assembled(j, t) =>
            LoadedSection(out, j, t, bs) = LoadedSection(input, j, t, bs)

\* The table that remains holds exactly the entries only the device can
\* apply, in their order.
KeepsWhatDeviceNeeds ==
  pc = "done" /\ TablesApart /\ NamesApart => \A j, t \in DOMAIN sh :
    IsRela(sh[j]) /\ sh[t].name = Tail(sh[j].name) /\ t # 1 =>
      LET off == sh[j].offset
          was == input.sh[j].size
      IN  /\ sh[j].size = Rank(off, t - 1, was)
          /\ \A e \in 1 .. was : Kept(input.tab[off][e], t - 1) =>
               tab[off][Rank(off, t - 1, e)] = input.tab[off][e]

\* A second run finds nothing left to do: it changes neither code nor tables.
SecondRunChangesNothing ==
  [][runs = 1 /\ runs' = 1 /\ TablesApart =>
       /\ \A j \in DOMAIN sh : sh'[j] = sh[j]
       /\ \A j \in DOMAIN sh : IsRela(sh[j]) =>
            SubSeq(tab'[sh[j].offset], 1, sh[j].size) = SubSeq(tab[sh[j].offset], 1, sh[j].size)]_vars
=============================================================================
