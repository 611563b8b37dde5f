------------------------ MODULE HostRelocationProofs ------------------------
(***************************************************************************)
(* Proofs about the host tool, for every file: its rounding agrees with    *)
(* the loader's for every distance, its compaction in place loses no entry *)
(* unread, a second run changes nothing, and what the device loads from    *)
(* its output is what it would have loaded from the file.                  *)
(***************************************************************************)
EXTENDS HostRelocation, RiscvRelocProofs, FiniteSetTheorems, SequenceTheorems

\* What a load or an addi adds to an upper immediate is a signed 12-bit number.
THEOREM LowHalfFits == \A v \in Int : Lo12(v) \in (0 - 2048) .. 2047
BY DEF Lo12

\* C division rounds toward zero, so the remainder has the sign of a.
LEMMA QuotProperties ==
  ASSUME NEW a \in Int
  PROVE  /\ Quot(a, 4096) \in Int
         /\ 0 - 4096 < a - Quot(a, 4096) * 4096 /\ a - Quot(a, 4096) * 4096 < 4096
<1>1. CASE a >= 0
  <2>1. Quot(a, 4096) = a \div 4096
    BY <1>1 DEF Quot
  <2> QED
    BY <1>1, <2>1
<1>2. CASE a < 0
  <2> DEFINE c == (0 - a) \div 4096
  <2>1. Quot(a, 4096) = 0 - c
    BY <1>2 DEF Quot
  <2>2. c \in Int /\ 0 <= (0 - a) - c * 4096 /\ (0 - a) - c * 4096 < 4096
    BY <1>2
  <2> HIDE DEF c
  <2> QED
    BY <1>2, <2>1, <2>2
<1> QED
  BY <1>1, <1>2

\* _calc_imm, which divides the C way and then corrects, splits every distance
\* exactly as esp_elf_arch_relocate does: an instruction pair patched on the
\* host gets the halves the device would have given it.
THEOREM SameSplit ==
  \A v \in Int : CalcHi(v) = (v + 2048) \div 4096 /\ v - CalcHi(v) * 4096 = Lo12(v)
<1> SUFFICES ASSUME NEW v \in Int
             PROVE  CalcHi(v) = (v + 2048) \div 4096
  BY DEF Lo12
<1> DEFINE q == Quot(v, 4096)
           r == v - q * 4096
<1>1. q \in Int /\ r \in Int /\ v = q * 4096 + r /\ 0 - 4096 < r /\ r < 4096
  <2>1. q \in Int /\ 0 - 4096 < r /\ r < 4096
    BY QuotProperties
  <2> HIDE DEF q
  <2> QED
    BY <2>1
<1>2. CalcHi(v) = IF 2047 < r THEN q + 1 ELSE IF r < 0 - 2048 THEN q - 1 ELSE q
  BY DEF CalcHi
<1> HIDE DEF q, r
<1>3. CASE 2047 < r
  BY <1>1, <1>2, <1>3
<1>4. CASE r < 0 - 2048
  BY <1>1, <1>2, <1>4
<1>5. CASE r \in (0 - 2048) .. 2047
  BY <1>1, <1>2, <1>5
<1> QED
  BY <1>1, <1>3, <1>4, <1>5

-----------------------------------------------------------------------------
(* Compaction.                                                             *)

\* Tables a link may have: at least as many entries as the link says.
Links == {l \in [begin : DOMAIN input.tab, size : Nat] : l.size <= Len(input.tab[l.begin])}

\* The tool changes no name and no offset; the size of a relocation section
\* stays within its table.
HeadersInv ==
  /\ input \in Files /\ sh = [j \in 1 .. Len(input.sh) |-> sh[j]]
  /\ \A j \in 1 .. Len(input.sh) :
       /\ IsHeader(sh[j])
       /\ sh[j].name = input.sh[j].name /\ sh[j].offset = input.sh[j].offset
       /\ IsRela(input.sh[j]) => sh[j].size <= Len(input.tab[sh[j].offset])
TablesInv ==
  /\ DOMAIN tab = DOMAIN input.tab
  /\ \A o \in DOMAIN input.tab :
       tab[o] \in Seq(ToSet(input.tab[o])) /\ Len(tab[o]) = Len(input.tab[o])
LoopInv ==
  /\ pc \in {"scan", "link", "entry", "done"} /\ i \in Nat \ {0} /\ links \in Seq(Links)
  /\ pc = "entry" => /\ links # <<>>
                     /\ p \in 1 .. rel /\ rel \in 1 .. Head(links).size + 1
CompactInv == HeadersInv /\ TablesInv /\ LoopInv

\* A function on 1 .. n is a sequence of length n.
LEMMA FunctionIsSeq ==
  ASSUME NEW n \in Nat, NEW f, f = [j \in 1 .. n |-> f[j]]
  PROVE  Len(f) = n /\ DOMAIN f = 1 .. n
<1>1. f \in [1 .. n -> {f[j] : j \in 1 .. n}]
  OBVIOUS
<1>2. f \in Seq({f[j] : j \in 1 .. n})
  BY <1>1, SeqDef
<1> QED
  BY <1>1, <1>2

\* What the assumption on the input files says of one file.
LEMMA FileFacts ==
  ASSUME NEW f \in Files
  PROVE  /\ Len(f.sh) \in Nat /\ DOMAIN f.sh = 1 .. Len(f.sh)
         /\ f.sh = [j \in 1 .. Len(f.sh) |-> f.sh[j]]
         /\ \A j \in 1 .. Len(f.sh) : IsHeader(f.sh[j])
         /\ \A o \in DOMAIN f.tab : f.tab[o] \in Seq(ToSet(f.tab[o]))
         /\ \A j \in 1 .. Len(f.sh) : IsRela(f.sh[j]) =>
              f.sh[j].offset \in DOMAIN f.tab /\ f.sh[j].size <= Len(f.tab[f.sh[j].offset])
<1>1. f.sh \in Seq(ToSet(f.sh))
  BY FilesAssumption
<1>2. Len(f.sh) \in Nat /\ DOMAIN f.sh = 1 .. Len(f.sh) /\ f.sh = [j \in 1 .. Len(f.sh) |-> f.sh[j]]
  BY <1>1
<1> QED
  BY <1>2, FilesAssumption

\* Every step keeps the headers: only the sizes of relocation sections shrink.
LEMMA HeadersStep == CompactInv /\ [Next]_vars => HeadersInv'
<1> SUFFICES ASSUME CompactInv, [Next]_vars PROVE HeadersInv'
  OBVIOUS
<1> USE DEF CompactInv
<1>0. input \in Files /\ Len(input.sh) \in Nat /\ DOMAIN sh = 1 .. Len(input.sh)
  <2>1. input \in Files /\ Len(input.sh) \in Nat
    BY FileFacts DEF HeadersInv
  <2> QED
    BY <2>1, FunctionIsSeq DEF HeadersInv
<1>1. CASE UNCHANGED <<input, sh>>
  BY <1>1 DEF HeadersInv
<1>2. ASSUME NEW x, NEW v, sh' = [sh EXCEPT ![x].half = v], input' = input PROVE HeadersInv'
  <2>1. sh' = [j \in 1 .. Len(input.sh) |-> sh'[j]]
    BY <1>0, <1>2
  <2>2. ASSUME NEW j \in 1 .. Len(input.sh)
        PROVE  /\ IsHeader(sh'[j]) /\ sh'[j].name = sh[j].name
               /\ sh'[j].offset = sh[j].offset /\ sh'[j].size = sh[j].size
    <3>1. IsHeader(sh[j])
      BY DEF HeadersInv
    <3>2. sh'[j] = sh[j] \/ sh'[j] = [sh[j] EXCEPT !.half = v]
      BY <1>0, <1>2
    <3> QED
      BY <3>1, <3>2 DEF IsHeader
  <2> QED
    BY <1>0, <1>2, <2>1, <2>2 DEF HeadersInv
<1>3. CASE EndLink
  <2>1. p - 1 \in Nat /\ p - 1 <= Len(input.tab[Begin])
    <3>1. Head(links) \in Links
      BY <1>3 DEF LoopInv, EndLink
    <3>2. Head(links).size \in Nat /\ Head(links).size <= Len(input.tab[Begin])
      BY <3>1 DEF Links, Begin
    <3>3. p \in 1 .. rel /\ rel \in 1 .. Head(links).size + 1
      BY <1>3 DEF LoopInv, EndLink
    <3>4. Head(links).begin \in DOMAIN input.tab
      BY <3>1 DEF Links
    <3>5. Len(input.tab[Begin]) \in Nat
      BY <1>0, <3>4, FileFacts DEF Begin
    <3> QED
      BY <3>2, <3>3, <3>5
  <2>2. sh' = [j \in 1 .. Len(input.sh) |-> sh'[j]] /\ input' = input
    BY <1>0, <1>3 DEF EndLink
  <2>3. ASSUME NEW j \in 1 .. Len(input.sh)
        PROVE  \/ sh'[j] = sh[j]
               \/ sh[j].offset = Begin /\ sh'[j] = [sh[j] EXCEPT !.size = p - 1]
    BY <1>0, <1>3 DEF EndLink
  <2>4. ASSUME NEW j \in 1 .. Len(input.sh)
        PROVE  /\ IsHeader(sh'[j]) /\ sh'[j].name = sh[j].name /\ sh'[j].offset = sh[j].offset
               /\ sh'[j].size = sh[j].size \/ (sh[j].offset = Begin /\ sh'[j].size = p - 1)
    <3>1. IsHeader(sh[j])
      BY DEF HeadersInv
    <3> QED
      BY <2>1, <2>3, <3>1 DEF IsHeader
  <2> QED
    BY <1>0, <2>1, <2>2, <2>4, ZenonT(40) DEF HeadersInv
<1>4. CASE OneEntry
  <2>1. input' = input /\ (sh' = sh \/ \E x, v : sh' = [sh EXCEPT ![x].half = v])
    BY <1>4 DEF OneEntry, Keep
  <2> QED
    BY <1>1, <1>2, <2>1
<1> QED
  BY <1>1, <1>3, <1>4 DEF Next, Scan, Scanned, NextLink, Finish, Rerun, vars

\* Every step keeps the tables where they are and as long as they are.
LEMMA TablesStep == CompactInv /\ [Next]_vars => TablesInv'
<1> SUFFICES ASSUME CompactInv, [Next]_vars PROVE TablesInv'
  OBVIOUS
<1> USE DEF CompactInv
<1>1. CASE UNCHANGED <<input, tab>>
  BY <1>1 DEF TablesInv
<1>2. CASE OneEntry /\ tab' # tab
  <2> DEFINE r == tab[Begin][rel]
             T == ToSet(input.tab[Begin])
  <2>1. /\ pc = "entry" /\ rel <= Head(links).size /\ input' = input
        /\ tab' = [tab EXCEPT ![Begin][p] = r]
    BY <1>2 DEF OneEntry, Keep
  <2>2. Head(links) \in Links /\ p \in 1 .. rel /\ rel \in 1 .. Head(links).size + 1
    BY <2>1 DEF LoopInv
  <2>3. Begin \in DOMAIN input.tab /\ Head(links).size \in Nat
        /\ Head(links).size <= Len(input.tab[Begin])
    BY <2>2 DEF Links, Begin
  <2>4. tab[Begin] \in Seq(T) /\ Len(tab[Begin]) = Len(input.tab[Begin])
    BY <2>3 DEF TablesInv
  <2>5. p \in 1 .. Len(tab[Begin]) /\ rel \in 1 .. Len(tab[Begin])
    BY <2>1, <2>2, <2>3, <2>4
  <2>6. r \in T
    BY <2>4, <2>5
  <2> HIDE DEF r, T
  <2>7. [tab[Begin] EXCEPT ![p] = r] \in Seq(T)
        /\ Len([tab[Begin] EXCEPT ![p] = r]) = Len(tab[Begin])
    BY <2>4, <2>5, <2>6, ExceptSeq
  <2>8. DOMAIN tab' = DOMAIN tab /\ \A o \in DOMAIN tab : o # Begin => tab'[o] = tab[o]
    BY <2>1
  <2>9. tab'[Begin] = [tab[Begin] EXCEPT ![p] = r]
    BY <2>1, <2>3 DEF TablesInv
  <2>10. tab'[Begin] \in Seq(ToSet(input.tab[Begin])) /\ Len(tab'[Begin]) = Len(input.tab[Begin])
    BY <2>4, <2>7, <2>9 DEF T
  <2> QED
    BY <2>1, <2>8, <2>10 DEF TablesInv
<1> QED
  BY <1>1, <1>2 DEF Next, Scan, Scanned, NextLink, OneEntry, EndLink, Finish, Rerun, vars

\* Every step keeps the write index behind the read index, inside the table.
LEMMA LoopStep == CompactInv /\ [Next]_vars => LoopInv'
<1> SUFFICES ASSUME CompactInv, [Next]_vars PROVE LoopInv'
  OBVIOUS
<1> USE DEF CompactInv
<1>0. input' = input /\ Links' = Links
  BY DEF Next, Scan, Scanned, NextLink, OneEntry, EndLink, Finish, Rerun, vars, Links
<1>1. CASE Scan
  <2>1. input \in Files /\ Len(input.sh) \in Nat
    BY FileFacts DEF HeadersInv
  <2>2. Len(sh) = Len(input.sh) /\ i \in 1 .. Len(input.sh)
    BY <1>1, <2>1, FunctionIsSeq DEF HeadersInv, LoopInv, Scan
  <2>3. ASSUME IsRela(sh[i]) PROVE [begin |-> sh[i].offset, size |-> sh[i].size] \in Links
    <3>1. IsRela(input.sh[i])
      BY <2>2, <2>3 DEF HeadersInv, IsRela
    <3>2. sh[i].offset \in DOMAIN input.tab
      BY <2>1, <2>2, <3>1, FileFacts DEF HeadersInv
    <3>3. sh[i].size \in Nat /\ sh[i].size <= Len(input.tab[sh[i].offset])
      BY <2>2, <3>1 DEF HeadersInv, IsHeader
    <3> QED
      BY <3>2, <3>3 DEF Links
  <2>4. links' \in Seq(Links)
    <3>1. CASE IsRela(sh[i])
      BY <1>1, <2>3, <3>1 DEF Scan, LoopInv
    <3>2. CASE ~IsRela(sh[i])
      BY <1>1, <3>2 DEF Scan, LoopInv
    <3> QED
      BY <3>1, <3>2
  <2> QED
    BY <1>0, <1>1, <2>4 DEF Scan, LoopInv
<1>2. CASE NextLink
  <2>1. Head(links) \in Links /\ Tail(links) \in Seq(Links)
    BY <1>2 DEF NextLink, LoopInv
  <2>2. Head(links).size \in Nat
    BY <2>1 DEF Links
  <2> QED
    BY <1>0, <1>2, <2>1, <2>2 DEF NextLink, LoopInv
<1>3. CASE OneEntry
  <2>1. /\ pc = "entry" /\ rel <= Head(links).size /\ rel' = rel + 1 /\ (p' = p \/ p' = p + 1)
        /\ UNCHANGED <<pc, i, links>>
    BY <1>3 DEF OneEntry, Keep
  <2>2. Head(links) \in Links
    BY <2>1 DEF LoopInv
  <2>3. Head(links).size \in Nat
    BY <2>2 DEF Links
  <2> QED
    BY <1>0, <2>1, <2>3 DEF LoopInv
<1>4. CASE EndLink
  <2>1. Tail(links) \in Seq(Links)
    BY <1>4 DEF EndLink, LoopInv
  <2> QED
    BY <1>0, <1>4, <2>1 DEF EndLink, LoopInv
<1>5. CASE Scanned \/ Finish \/ Rerun
  BY <1>0, <1>5 DEF Scanned, Finish, Rerun, LoopInv
<1>6. CASE UNCHANGED vars
  BY <1>0, <1>6 DEF vars, LoopInv
<1> QED
  BY <1>1, <1>2, <1>3, <1>4, <1>5, <1>6 DEF Next

\* Compaction begins and goes on in place.
LEMMA CompactInit == Init => CompactInv
<1> SUFFICES ASSUME Init PROVE CompactInv
  OBVIOUS
<1>1. HeadersInv /\ TablesInv
  BY FileFacts DEF Init, HeadersInv, TablesInv
<1>2. LoopInv
  BY DEF Init, LoopInv
<1> QED
  BY <1>1, <1>2 DEF CompactInv
\* CompactInv is inductive.
LEMMA CompactStep == CompactInv /\ [Next]_vars => CompactInv'
BY HeadersStep, TablesStep, LoopStep DEF CompactInv

\* For every file, the tool reads and writes inside the tables it found, the
\* tables keep their place and length, and the write index never passes the
\* read index: every entry is read before its place is reused.
THEOREM CompactionInPlace == Spec => []TypeOK
<1>1. CompactInv => TypeOK
  <2> SUFFICES ASSUME CompactInv PROVE TypeOK
    OBVIOUS
  <2>1. pc = "entry" => Begin \in DOMAIN input.tab /\ Head(links).size <= Len(input.tab[Begin])
    BY DEF CompactInv, LoopInv, Links, Begin
  <2> QED
    BY <2>1 DEF CompactInv, LoopInv, TablesInv, TypeOK
<1> QED
  BY <1>1, CompactInit, CompactStep, PTL DEF Spec

-----------------------------------------------------------------------------
(* The second run.                                                         *)

\* The relocation sections of the file, and the section that entries at off
\* are for: names and places of sections never change.
Relas == {j \in 1 .. Len(input.sh) : IsRela(input.sh[j])}
Named(j) == {t \in 1 .. Len(input.sh) : input.sh[t].name = Tail(input.sh[j].name)}
At(off) == {j \in Relas : input.sh[j].offset = off /\ Named(j) # {}}
Target(off) == IF At(off) = {} THEN 0 ELSE Max(Named(Max(At(off)))) - 1
Off(j) == input.sh[j].offset

\* Nothing is left to do for the first q entries of the table at off.
Clean(off, q) == Target(off) # 0 => \A e \in 1 .. q : Kept(tab[off][e], Target(off))
Waiting(off) == \E m \in 1 .. Len(links) : links[m].begin = off

\* Symbols lose their names and nothing else.
SymInv ==
  /\ DOMAIN sym = DOMAIN input.sym
  /\ \A j \in DOMAIN input.sym :
       /\ IsSymbol(sym[j]) /\ sym[j].shndx = input.sym[j].shndx /\ sym[j].value = input.sym[j].value
       /\ sym[j].shndx = 0 => sym[j].name = input.sym[j].name

\* Every table is on the list once, with the size it has, until it is done;
\* what is behind the write index is clean, and so are the tables done.
ListInv ==
  /\ \A m, l \in 1 .. Len(links) : links[m].begin = links[l].begin => m = l
  /\ \A m \in 1 .. Len(links), j \in Relas : Off(j) = links[m].begin => sh[j].size = links[m].size
  /\ \A m \in 1 .. Len(links) :
       \E j \in Relas : Off(j) = links[m].begin /\ (pc = "scan" => j < i)
  /\ pc = "scan" => \A j \in Relas : j < i => Waiting(Off(j))
  /\ pc = "done" => links = <<>>
CleanInv ==
  /\ pc \in {"link", "entry"} => \A j \in Relas : Waiting(Off(j)) \/ Clean(Off(j), sh[j].size)
  /\ pc = "entry" => ndx = Target(Begin) /\ ndx # 0 /\ Clean(Begin, p - 1)
  /\ runs \in IF pc = "done" THEN 1 .. 2 ELSE 0 .. 1
  /\ runs \in 1 .. 2 => \A j \in Relas : Clean(Off(j), sh[j].size)
  /\ runs \in 1 .. 2 /\ pc = "entry" => p = rel
RunInv == SymInv /\ (TablesApart => ListInv /\ CleanInv)

\* A non-empty set of numbers up to n has its largest element in it.
LEMMA MaxIsElement ==
  ASSUME NEW n \in Nat, NEW S \in SUBSET (1 .. n), S # {} PROVE Max(S) \in S
<1> DEFINE T == {d \in Nat : n - d \in S}
<1>1. T # {} /\ T \in SUBSET Nat
  <2>1. PICK x \in S : TRUE
    OBVIOUS
  <2>2. n - x \in Nat /\ n - (n - x) = x
    OBVIOUS
  <2> QED
    BY <2>1, <2>2
<1>2. PICK d \in T : \A c \in T : ~ (<<c, d>> \in OpToRel(<, Nat))
  <2> HIDE DEF T
  <2> QED
    BY <1>1, WFMin, NatLessThanWellFounded
<1>3. d \in Nat /\ \A c \in T : d <= c
  <2>1. ASSUME NEW c \in T PROVE ~ (c < d)
    BY <1>2 DEF OpToRel
  <2> QED
    BY <2>1
<1>4. ASSUME NEW y \in S PROVE n - d >= y
  <2>1. y \in 1 .. n /\ n - (n - y) = y
    OBVIOUS
  <2>2. n - y \in T
    BY <2>1
  <2>3. d <= n - y
    BY <1>3, <2>2
  <2> QED
    BY <1>3, <2>1, <2>3
<1>5. n - d \in S
  BY <1>2
<1> QED
  BY <1>4, <1>5 DEF Max

\* The search for the patched section answers the same at any time.
LEMMA TargetIsFixed ==
  ASSUME CompactInv, NEW off PROVE PatchedSection(off) = Target(off)
<1> DEFINE D == 1 .. Len(input.sh)
           N(j) == {t \in DOMAIN sh : sh[t].name = Tail(sh[j].name)}
           J == {j \in DOMAIN sh : IsRela(sh[j]) /\ sh[j].offset = off /\ N(j) # {}}
<1>1. Len(input.sh) \in Nat /\ DOMAIN sh = D
  <2>1. Len(input.sh) \in Nat
    BY FileFacts DEF CompactInv, HeadersInv
  <2> QED
    BY <2>1, FunctionIsSeq DEF CompactInv, HeadersInv
<1>2. \A j \in D : /\ sh[j].name = input.sh[j].name /\ sh[j].offset = input.sh[j].offset
                   /\ IsRela(sh[j]) = IsRela(input.sh[j])
  BY DEF CompactInv, HeadersInv, IsRela
<1>3. \A j \in D : N(j) = Named(j)
  BY <1>1, <1>2 DEF Named
<1>4. J = At(off)
  <2> HIDE DEF N
  <2> QED
    BY <1>1, <1>2, <1>3 DEF At, Relas
<1>5. PatchedSection(off) = IF J = {} THEN 0 ELSE Max(N(Max(J))) - 1
  BY DEF PatchedSection
<1>6. J # {} => Max(J) \in D
  <2>1. J \in SUBSET D
    BY <1>1
  <2> HIDE DEF J, D
  <2>2. D = 1 .. Len(input.sh)
    BY DEF D
  <2> QED
    BY <1>1, <2>1, <2>2, MaxIsElement
<1> HIDE DEF J, N, D
<1> QED
  BY <1>3, <1>4, <1>5, <1>6 DEF Target

\* A relocation section's table is where its header says.
LEMMA RelaFacts ==
  ASSUME CompactInv, NEW j \in Relas
  PROVE  /\ j \in 1 .. Len(sh) /\ Len(sh) = Len(input.sh) /\ IsRela(sh[j])
         /\ sh[j].offset = Off(j) /\ sh[j].size \in Nat
         /\ Off(j) \in DOMAIN input.tab /\ sh[j].size <= Len(input.tab[Off(j)])
         /\ tab[Off(j)] \in Seq(ToSet(input.tab[Off(j)]))
         /\ Len(tab[Off(j)]) = Len(input.tab[Off(j)]) /\ Len(tab[Off(j)]) \in Nat
<1>1. input \in Files /\ j \in 1 .. Len(input.sh) /\ IsRela(input.sh[j])
  BY DEF CompactInv, HeadersInv, Relas
<1>2. Len(input.sh) \in Nat /\ Len(sh) = Len(input.sh)
  <2>1. Len(input.sh) \in Nat
    BY <1>1, FileFacts
  <2> QED
    BY <2>1, FunctionIsSeq DEF CompactInv, HeadersInv
<1>3. Off(j) \in DOMAIN input.tab
  BY <1>1, FileFacts DEF Off
<1>4. /\ IsHeader(sh[j]) /\ sh[j].name = input.sh[j].name /\ sh[j].offset = Off(j)
      /\ sh[j].size <= Len(input.tab[sh[j].offset])
  BY <1>1 DEF CompactInv, HeadersInv, Off
<1>5. IsRela(sh[j]) /\ sh[j].size \in Nat
  BY <1>1, <1>4 DEF IsRela, IsHeader
<1>6. /\ tab[Off(j)] \in Seq(ToSet(input.tab[Off(j)]))
      /\ Len(tab[Off(j)]) = Len(input.tab[Off(j)])
  BY <1>3 DEF CompactInv, TablesInv
<1>7. Len(tab[Off(j)]) \in Nat
  BY <1>6
<1> QED
  BY <1>1, <1>2, <1>3, <1>4, <1>5, <1>6, <1>7

\* An entry of a table has a symbol of the file.
LEMMA EntrySymbol ==
  ASSUME CompactInv, NEW off \in DOMAIN input.tab, NEW e \in 1 .. Len(tab[off])
  PROVE  tab[off][e].sym + 1 \in DOMAIN input.sym
<1> DEFINE T == ToSet(input.tab[off])
<1>1. input \in Files /\ tab[off] \in Seq(T)
  BY DEF CompactInv, HeadersInv, TablesInv
<1>2. tab[off][e] \in T
  <2> HIDE DEF T
  <2> QED
    BY <1>1
<1>3. PICK d \in DOMAIN input.tab[off] : tab[off][e] = input.tab[off][d]
  BY <1>2 DEF ToSet
<1> QED
  BY <1>1, <1>3, FilesAssumption

\* The tool's test of an entry is the one of Kept.
LEMMA AppliesIsNotKept ==
  ASSUME CompactInv, SymInv, NEW off \in DOMAIN input.tab, NEW e \in 1 .. Len(tab[off])
  PROVE  Kept(tab[off][e], ndx)
           <=> tab[off][e].type \notin {"ALIGN", "RELAX"} /\ ~Applies(tab[off][e])
<1>1. tab[off][e].sym + 1 \in DOMAIN input.sym
  BY EntrySymbol
<1>2. sym[tab[off][e].sym + 1].shndx = input.sym[tab[off][e].sym + 1].shndx
  BY <1>1 DEF SymInv
<1> QED
  BY <1>2 DEF Kept, Resolved, Applies

\* Every step keeps the symbols' sections.
LEMMA SymStep == SymInv /\ [Next]_vars => SymInv'
<1> SUFFICES ASSUME SymInv, [Next]_vars PROVE SymInv'
  OBVIOUS
<1>1. CASE UNCHANGED <<input, sym>>
  BY <1>1 DEF SymInv
<1>2. CASE Finish
  <2>1. input' = input /\ sym' = Stripped
    BY <1>2 DEF Finish
  <2>2. DOMAIN sym' = DOMAIN input.sym
    BY <2>1 DEF Stripped, SymInv
  <2>3. ASSUME NEW j \in DOMAIN input.sym
        PROVE  /\ IsSymbol(sym'[j]) /\ sym'[j].shndx = input.sym[j].shndx
               /\ sym'[j].value = input.sym[j].value
               /\ sym'[j].shndx = 0 => sym'[j].name = input.sym[j].name
    <3>1. /\ IsSymbol(sym[j]) /\ sym[j].shndx = input.sym[j].shndx
          /\ sym[j].value = input.sym[j].value
          /\ sym[j].shndx = 0 => sym[j].name = input.sym[j].name
      BY DEF SymInv
    <3>2. \/ sym'[j] = sym[j]
          \/ sym[j].shndx # 0 /\ sym'[j] = [sym[j] EXCEPT !.name = ""]
      BY <2>1 DEF Stripped, SymInv
    <3> QED
      BY <3>1, <3>2 DEF IsSymbol
  <2> QED
    BY <2>1, <2>2, <2>3 DEF SymInv
<1> QED
  BY <1>1, <1>2 DEF Next, Scan, Scanned, NextLink, OneEntry, EndLink, Rerun, vars

\* What is said of the file the tool was given stays.
LEMMA FileIsFixed ==
  ASSUME input' = input
  PROVE  /\ Relas' = Relas /\ \A j : (Off(j))' = Off(j)
         /\ \A off : (Target(off))' = Target(off)
         /\ \A r, n : (Kept(r, n))' = Kept(r, n)
<1>1. Relas' = Relas /\ \A j : (Named(j))' = Named(j)
  BY DEF Relas, Named
<1>2. \A off : (At(off))' = At(off)
  BY <1>1 DEF At
<1>3. \A off : (Target(off))' = Target(off)
  BY <1>1, <1>2 DEF Target
<1> QED
  BY <1>1, <1>3 DEF Off, Kept, Resolved

\* Two tables at the same place are one.
LEMMA OneTable ==
  ASSUME CompactInv, TablesApart, NEW j \in Relas, NEW t \in Relas, Off(j) = Off(t)
  PROVE  j = t
<1>1. DOMAIN input.sh = 1 .. Len(input.sh)
  BY FileFacts DEF CompactInv, HeadersInv
<1> QED
  BY <1>1 DEF TablesApart, Relas, Off

\* The links are records of tables.
LEMMA LinkFacts ==
  ASSUME CompactInv, links # <<>>
  PROVE  /\ Len(links) \in Nat \ {0} /\ Head(links) = links[1] /\ Begin = links[1].begin
         /\ Len(Tail(links)) = Len(links) - 1
         /\ \A m \in 1 .. Len(links) - 1 : Tail(links)[m] = links[m + 1]
         /\ Begin \in DOMAIN input.tab /\ Head(links).size \in Nat
         /\ Head(links).size <= Len(input.tab[Begin])
<1>1. links \in Seq(Links)
  BY DEF CompactInv, LoopInv
<1>2. Len(links) \in Nat \ {0} /\ Head(links) = links[1] /\ links[1] \in Links
  BY <1>1
<1>3. Len(Tail(links)) = Len(links) - 1 /\ \A m \in 1 .. Len(links) - 1 : Tail(links)[m] = links[m + 1]
  BY <1>1, HeadTailProperties
<1> QED
  BY <1>2, <1>3 DEF Links, Begin

\* The sizes in the headers change only when a table is done.
LEMMA SizesStep ==
  ASSUME CompactInv, [Next]_vars, ~EndLink, NEW j \in Relas PROVE sh'[j].size = sh[j].size
<1>1. CASE sh' = sh
  BY <1>1
<1>2. CASE OneEntry /\ sh' # sh
  <2>1. PICK x, v : sh' = [sh EXCEPT ![x].half = v]
    BY <1>2 DEF OneEntry, Keep
  <2>2. IsHeader(sh[j]) /\ j \in DOMAIN sh
    <3>1. j \in 1 .. Len(input.sh) /\ Len(input.sh) \in Nat
      BY FileFacts DEF Relas, CompactInv, HeadersInv
    <3> QED
      BY <3>1, FunctionIsSeq DEF CompactInv, HeadersInv
  <2>3. sh'[j] = sh[j] \/ sh'[j] = [sh[j] EXCEPT !.half = v]
    BY <2>1, <2>2
  <2> QED
    BY <2>2, <2>3 DEF IsHeader
<1> QED
  BY <1>1, <1>2 DEF Next, Scan, Scanned, NextLink, Finish, Rerun, vars

\* Every step keeps each table that waits on the list once.
LEMMA ListStep == CompactInv /\ TablesApart /\ ListInv /\ [Next]_vars => ListInv'
<1> SUFFICES ASSUME CompactInv, TablesApart, ListInv, [Next]_vars PROVE ListInv'
  OBVIOUS
<1>0. input' = input /\ Relas' = Relas /\ \A j : (Off(j))' = Off(j)
  <2>1. input' = input
    BY DEF Next, Scan, Scanned, NextLink, OneEntry, EndLink, Finish, Rerun, vars
  <2> QED
    BY <2>1, FileIsFixed
\* Steps that leave the list and the sizes alone.
<1>1. ASSUME UNCHANGED links, \A j \in Relas : sh'[j].size = sh[j].size,
             pc' # "scan", pc' = "done" => links = <<>>
      PROVE  ListInv'
  BY <1>0, <1>1 DEF ListInv
\* Steps that take the first table off the list.
<1>2. ASSUME links # <<>>, links' = Tail(links), pc' = "link",
             \A j \in Relas : sh'[j].size = sh[j].size \/ Off(j) = Begin
      PROVE  ListInv'
  <2>1. /\ Len(links) \in Nat \ {0} /\ Len(links') = Len(links) - 1 /\ Begin = links[1].begin
        /\ \A m \in 1 .. Len(links') : m + 1 \in 1 .. Len(links) /\ links'[m] = links[m + 1]
    BY <1>2, LinkFacts
  <2>2. \A m, l \in 1 .. Len(links') : links'[m].begin = links'[l].begin => m = l
    <3> SUFFICES ASSUME NEW m \in 1 .. Len(links'), NEW l \in 1 .. Len(links'),
                        links'[m].begin = links'[l].begin
                 PROVE  m = l
      OBVIOUS
    <3>1. links[m + 1].begin = links[l + 1].begin
      BY <2>1
    <3>2. m + 1 = l + 1
      BY <2>1, <3>1 DEF ListInv
    <3> QED
      BY <2>1, <3>2
  <2>3. \A m \in 1 .. Len(links'), j \in Relas : Off(j) = links'[m].begin => sh'[j].size = links'[m].size
    <3> SUFFICES ASSUME NEW m \in 1 .. Len(links'), NEW j \in Relas, Off(j) = links'[m].begin
                 PROVE  sh'[j].size = links'[m].size
      OBVIOUS
    <3>1. m + 1 \in 1 .. Len(links) /\ 1 \in 1 .. Len(links) /\ links'[m] = links[m + 1] /\ m + 1 # 1
      BY <2>1
    <3>2. links[m + 1].begin # links[1].begin
      BY <3>1 DEF ListInv
    <3>3. sh'[j].size = sh[j].size
      BY <1>2, <2>1, <3>1, <3>2
    <3> QED
      BY <3>1, <3>3 DEF ListInv
  <2>4. \A m \in 1 .. Len(links') : \E j \in Relas : Off(j) = links'[m].begin
    BY <2>1 DEF ListInv
  <2> QED
    BY <1>0, <1>2, <2>2, <2>3, <2>4 DEF ListInv
<1>3. CASE Scan
  <2>1. /\ Len(input.sh) \in Nat /\ Len(sh) = Len(input.sh) /\ pc = "scan" /\ pc' = "scan"
        /\ i \in 1 .. Len(sh) /\ i' = i + 1 /\ sh' = sh
    <3>1. Len(input.sh) \in Nat
      BY FileFacts DEF CompactInv, HeadersInv
    <3> QED
      BY <1>3, <3>1, FunctionIsSeq DEF Scan, CompactInv, HeadersInv, LoopInv
  <2>2. links \in Seq(Links) /\ Len(links) \in Nat
    BY DEF CompactInv, LoopInv
  <2>3. IsRela(sh[i]) <=> i \in Relas
    BY <2>1 DEF Relas, IsRela, CompactInv, HeadersInv
  <2>4. CASE ~IsRela(sh[i])
    <3>1. links' = links
      BY <1>3, <2>2, <2>4 DEF Scan
    <3>2. \A j \in Relas : j < i + 1 <=> j < i
      BY <2>1, <2>3, <2>4 DEF Relas
    <3> QED
      BY <1>0, <2>1, <3>1, <3>2, ZenonT(40) DEF ListInv, Waiting
  <2>5. CASE IsRela(sh[i])
    <3> DEFINE new == [begin |-> Off(i), size |-> sh[i].size]
    <3>1. i \in Relas /\ sh[i].offset = Off(i)
      BY <2>1, <2>3, <2>5 DEF Off, CompactInv, HeadersInv
    <3>2. links' = <<new>> \o links
      BY <1>3, <2>5, <3>1 DEF Scan
    <3>3. new \in Links
      BY <3>1, RelaFacts DEF Links
    <3> HIDE DEF new
    <3>4. /\ Len(links') = Len(links) + 1 /\ links'[1] = new
          /\ \A m \in 1 .. Len(links) : links'[m + 1] = links[m]
      <4>1. <<new>> \in Seq(Links) /\ Len(<<new>>) = 1 /\ <<new>>[1] = new
        BY <3>3
      <4>2. /\ Len(links') = 1 + Len(links)
            /\ \A m \in 1 .. 1 + Len(links) : links'[m] = IF m <= 1 THEN <<new>>[m] ELSE links[m - 1]
        BY <2>2, <3>2, <4>1, ConcatProperties
      <4> HIDE DEF new
      <4> QED
        BY <2>2, <4>1, <4>2
    <3>5. new.begin = Off(i) /\ new.size = sh[i].size
      BY DEF new
    <3>6. \A m \in 1 .. Len(links) : links[m].begin # Off(i)
      <4> SUFFICES ASSUME NEW m \in 1 .. Len(links), links[m].begin = Off(i) PROVE FALSE
        OBVIOUS
      <4>1. PICK j \in Relas : Off(j) = links[m].begin /\ j < i
        BY <2>1 DEF ListInv
      <4>2. j = i
        BY <3>1, <4>1, OneTable
      <4> QED
        BY <2>1, <4>1, <4>2
    <3>7. \A m \in 1 .. Len(links') : m = 1 \/ (m - 1 \in 1 .. Len(links) /\ links'[m] = links[m - 1])
      <4> SUFFICES ASSUME NEW m \in 1 .. Len(links'), m # 1
                   PROVE  m - 1 \in 1 .. Len(links) /\ links'[m] = links[m - 1]
        OBVIOUS
      <4>1. m - 1 \in 1 .. Len(links) /\ (m - 1) + 1 = m
        BY <2>2, <3>4
      <4> QED
        BY <3>4, <4>1
    <3>8. \A m, l \in 1 .. Len(links') : links'[m].begin = links'[l].begin => m = l
      <4> SUFFICES ASSUME NEW m \in 1 .. Len(links'), NEW l \in 1 .. Len(links'),
                          links'[m].begin = links'[l].begin
                   PROVE  m = l
        OBVIOUS
      <4>1. CASE m = 1 \/ l = 1
        BY <3>4, <3>5, <3>6, <3>7, <4>1
      <4>2. CASE m # 1 /\ l # 1
        <5>1. m - 1 = l - 1
          BY <3>7, <4>2 DEF ListInv
        <5> QED
          BY <2>2, <3>4, <5>1
      <4> QED
        BY <4>1, <4>2
    <3>9. \A m \in 1 .. Len(links'), j \in Relas : Off(j) = links'[m].begin => sh'[j].size = links'[m].size
      <4> SUFFICES ASSUME NEW m \in 1 .. Len(links'), NEW j \in Relas, Off(j) = links'[m].begin
                   PROVE  sh'[j].size = links'[m].size
        OBVIOUS
      <4>1. CASE m = 1
        <5>1. j = i
          BY <3>1, <3>4, <3>5, <4>1, OneTable
        <5> QED
          BY <2>1, <3>4, <3>5, <4>1, <5>1
      <4>2. CASE m # 1
        BY <2>1, <3>7, <4>2 DEF ListInv
      <4> QED
        BY <4>1, <4>2
    <3>10. \A m \in 1 .. Len(links') : \E j \in Relas : Off(j) = links'[m].begin /\ j < i + 1
      <4> SUFFICES ASSUME NEW m \in 1 .. Len(links')
                   PROVE  \E j \in Relas : Off(j) = links'[m].begin /\ j < i + 1
        OBVIOUS
      <4>1. CASE m = 1
        BY <2>1, <3>1, <3>4, <3>5, <4>1
      <4>2. CASE m # 1
        <5>1. PICK j \in Relas : Off(j) = links[m - 1].begin /\ j < i
          BY <2>1, <3>7, <4>2 DEF ListInv
        <5>2. j \in Int /\ i \in Int
          BY <2>1 DEF Relas
        <5> QED
          BY <3>7, <4>2, <5>1, <5>2
      <4> QED
        BY <4>1, <4>2
    <3>11. \A j \in Relas : j < i + 1 => \E m \in 1 .. Len(links') : links'[m].begin = Off(j)
      <4> SUFFICES ASSUME NEW j \in Relas, j < i + 1
                   PROVE  \E m \in 1 .. Len(links') : links'[m].begin = Off(j)
        OBVIOUS
      <4>1. CASE j = i
        <5>1. 1 \in 1 .. Len(links')
          BY <2>2, <3>4
        <5> QED
          BY <3>4, <3>5, <4>1, <5>1
      <4>2. CASE j < i
        <5>1. PICK m \in 1 .. Len(links) : links[m].begin = Off(j)
          BY <2>1, <4>2 DEF ListInv, Waiting
        <5>2. m + 1 \in 1 .. Len(links')
          BY <2>2, <3>4
        <5> QED
          BY <3>4, <5>1, <5>2
      <4>3. j = i \/ j < i
        BY <2>1 DEF Relas
      <4> QED
        BY <4>1, <4>2, <4>3
    <3> QED
      BY <1>0, <2>1, <3>8, <3>9, <3>10, <3>11 DEF ListInv, Waiting
  <2> QED
    BY <2>4, <2>5
<1>4. CASE Scanned \/ OneEntry
  <2>1. ~EndLink
    BY <1>4 DEF Scanned, OneEntry, EndLink
  <2> QED
    BY <1>1, <1>4, <2>1, SizesStep DEF Scanned, OneEntry
<1>5. CASE NextLink
  <2>1. CASE links' = Tail(links) /\ pc' = "link"
    BY <1>2, <1>5, <2>1 DEF NextLink
  <2>2. CASE links' = links /\ pc' = "entry"
    BY <1>1, <1>5, <2>2 DEF NextLink
  <2> QED
    BY <1>5, <2>1, <2>2 DEF NextLink
<1>6. CASE EndLink
  <2>1. links # <<>>
    BY <1>6 DEF EndLink, CompactInv, LoopInv
  <2>2. \A j \in Relas : sh'[j] = sh[j] \/ Off(j) = Begin
    <3> SUFFICES ASSUME NEW j \in Relas PROVE sh'[j] = sh[j] \/ Off(j) = Begin
      OBVIOUS
    <3>1. j \in 1 .. Len(input.sh) /\ sh[j].offset = Off(j) /\ DOMAIN sh = 1 .. Len(input.sh)
      <4>1. Len(input.sh) \in Nat
        BY FileFacts DEF CompactInv, HeadersInv
      <4> QED
        BY <4>1, FunctionIsSeq DEF Relas, Off, CompactInv, HeadersInv
    <3> QED
      BY <1>6, <3>1 DEF EndLink
  <2> QED
    BY <1>2, <1>6, <2>1, <2>2 DEF EndLink
<1>7. CASE Finish
  BY <1>1, <1>7 DEF Finish
<1>8. CASE Rerun
  BY <1>0, <1>8 DEF Rerun, ListInv, Relas
<1>9. CASE UNCHANGED vars
  BY <1>0, <1>9 DEF vars, ListInv, Waiting
<1> QED
  BY <1>3, <1>4, <1>5, <1>6, <1>7, <1>8, <1>9 DEF Next

\* What a turn of the loop over the entries does to the table at Begin.
LEMMA EntryStep ==
  ASSUME CompactInv, TablesApart, SymInv, ListInv, CleanInv, OneEntry
  PROVE  /\ pc = "entry" /\ pc' = "entry" /\ UNCHANGED <<input, links, ndx, runs>> /\ rel' = rel + 1
         /\ rel \in 1 .. Head(links).size /\ p \in 1 .. rel /\ rel \in 1 .. Len(tab[Begin])
         /\ \/ p' = p /\ tab' = tab /\ ~Kept(tab[Begin][rel], ndx)
            \/ /\ p' = p + 1 /\ sh' = sh /\ Kept(tab[Begin][rel], ndx)
               /\ DOMAIN tab' = DOMAIN tab
               /\ \A o \in DOMAIN tab \ {Begin} : tab'[o] = tab[o]
               /\ \A e \in 1 .. Len(tab[Begin]) :
                    tab'[Begin][e] = IF e = p THEN tab[Begin][rel] ELSE tab[Begin][e]
<1> DEFINE r == tab[Begin][rel]
<1>1. /\ pc = "entry" /\ pc' = "entry" /\ UNCHANGED <<input, links, ndx, runs>> /\ rel' = rel + 1
      /\ rel <= Head(links).size
  BY DEF OneEntry
<1>2. /\ links # <<>> /\ p \in 1 .. rel /\ rel \in 1 .. Head(links).size + 1
  BY <1>1 DEF CompactInv, LoopInv
<1>3. /\ Begin \in DOMAIN input.tab /\ Head(links).size \in Nat
      /\ Head(links).size <= Len(input.tab[Begin])
  BY <1>2, LinkFacts
<1>4. /\ tab[Begin] \in Seq(ToSet(input.tab[Begin])) /\ Len(tab[Begin]) = Len(input.tab[Begin])
      /\ DOMAIN tab = DOMAIN input.tab
  BY <1>3 DEF CompactInv, TablesInv
<1>5. rel \in 1 .. Head(links).size /\ rel \in 1 .. Len(tab[Begin]) /\ Len(tab[Begin]) \in Nat
  BY <1>1, <1>2, <1>3, <1>4
<1>6. Kept(r, ndx) <=> r.type \notin {"ALIGN", "RELAX"} /\ ~Applies(r)
  BY <1>3, <1>5, AppliesIsNotKept
<1>7. \/ p' = p /\ tab' = tab /\ ~Kept(r, ndx)
      \/ p' = p + 1 /\ sh' = sh /\ Kept(r, ndx) /\ tab' = [tab EXCEPT ![Begin][p] = r]
  BY <1>6 DEF OneEntry, Keep
<1>8. DOMAIN tab[Begin] = 1 .. Len(tab[Begin])
  BY <1>4
<1> HIDE DEF r
<1>9. ASSUME tab' = [tab EXCEPT ![Begin][p] = r]
      PROVE  /\ DOMAIN tab' = DOMAIN tab
             /\ \A o \in DOMAIN tab \ {Begin} : tab'[o] = tab[o]
             /\ \A e \in 1 .. Len(tab[Begin]) :
                  tab'[Begin][e] = IF e = p THEN r ELSE tab[Begin][e]
  <2>1. DOMAIN tab' = DOMAIN tab /\ \A o \in DOMAIN tab \ {Begin} : tab'[o] = tab[o]
    BY <1>9
  <2>2. tab'[Begin] = [tab[Begin] EXCEPT ![p] = r]
    BY <1>3, <1>4, <1>9
  <2> QED
    BY <1>8, <2>1, <2>2
<1>10. \/ p' = p /\ tab' = tab /\ ~Kept(r, ndx)
       \/ /\ p' = p + 1 /\ sh' = sh /\ Kept(r, ndx) /\ DOMAIN tab' = DOMAIN tab
          /\ \A o \in DOMAIN tab \ {Begin} : tab'[o] = tab[o]
          /\ \A e \in 1 .. Len(tab[Begin]) :
               tab'[Begin][e] = IF e = p THEN r ELSE tab[Begin][e]
  BY <1>7, <1>9
<1> QED
  BY <1>1, <1>2, <1>5, <1>10 DEF r

\* In a second run every entry of the table is kept, where it is.
LEMMA NothingToDo ==
  ASSUME CompactInv, TablesApart, SymInv, ListInv, CleanInv, OneEntry, runs \in 1 .. 2
  PROVE  /\ p = rel /\ p' = p + 1 /\ Kept(tab[Begin][rel], ndx) /\ sh' = sh
         /\ \A j \in Relas : \A e \in 1 .. Len(tab[Off(j)]) : tab'[Off(j)][e] = tab[Off(j)][e]
<1>1. /\ pc = "entry" /\ rel \in 1 .. Head(links).size /\ rel \in 1 .. Len(tab[Begin])
      /\ \/ p' = p /\ tab' = tab /\ ~Kept(tab[Begin][rel], ndx)
         \/ /\ p' = p + 1 /\ sh' = sh /\ Kept(tab[Begin][rel], ndx)
            /\ \A o \in DOMAIN tab \ {Begin} : tab'[o] = tab[o]
            /\ \A e \in 1 .. Len(tab[Begin]) :
                 tab'[Begin][e] = IF e = p THEN tab[Begin][rel] ELSE tab[Begin][e]
  BY EntryStep
<1>2. p = rel /\ ndx = Target(Begin) /\ ndx # 0
  BY <1>1 DEF CleanInv
<1>3. links # <<>>
  BY <1>1 DEF CompactInv, LoopInv
<1>4. 1 \in 1 .. Len(links) /\ Begin = links[1].begin /\ Head(links) = links[1]
  BY <1>3, LinkFacts
<1>5. PICK j \in Relas : Off(j) = Begin
  BY <1>4 DEF ListInv
<1>6. sh[j].size = Head(links).size
  BY <1>4, <1>5 DEF ListInv
<1>7. Clean(Begin, Head(links).size)
  BY <1>5, <1>6 DEF CleanInv
<1>8. Kept(tab[Begin][rel], ndx)
  BY <1>1, <1>2, <1>7 DEF Clean
<1>9. ASSUME NEW t \in Relas, NEW e \in 1 .. Len(tab[Off(t)]) PROVE tab'[Off(t)][e] = tab[Off(t)][e]
  <2>1. Off(t) \in DOMAIN tab
    BY RelaFacts DEF CompactInv, TablesInv
  <2> QED
    BY <1>1, <1>2, <1>8, <2>1
<1> QED
  BY <1>1, <1>2, <1>8, <1>9

\* When all headers have been scanned every table is on the list.
LEMMA AllWaiting ==
  ASSUME CompactInv, ListInv, Scanned, NEW j \in Relas PROVE Waiting(Off(j))
<1>1. j \in 1 .. Len(sh) /\ Len(sh) \in Nat
  <2>1. Len(input.sh) \in Nat
    BY FileFacts DEF CompactInv, HeadersInv
  <2> QED
    BY <2>1, RelaFacts
<1>2. i \in Nat /\ i > Len(sh) /\ pc = "scan"
  BY DEF Scanned, CompactInv, LoopInv
<1> QED
  BY <1>1, <1>2 DEF ListInv

\* Cleanness after a step, in terms of the table before and after.
LEMMA CleanNext ==
  ASSUME input' = input, NEW off, NEW q
  PROVE  (Clean(off, q))' = (Target(off) # 0 =>
                               \A e \in 1 .. q : Kept(tab'[off][e], Target(off)))
<1>1. (Target(off))' = Target(off)
  BY FileIsFixed
<1> QED
  BY <1>1 DEF Clean, Kept, Resolved

\* Every step keeps what is behind the write index, and the tables done, clean.
LEMMA CleanStep ==
  CompactInv /\ TablesApart /\ SymInv /\ ListInv /\ CleanInv /\ [Next]_vars => CleanInv'
<1> SUFFICES ASSUME CompactInv, TablesApart, SymInv, ListInv, CleanInv, [Next]_vars PROVE CleanInv'
  OBVIOUS
<1> DEFINE CleanAfter(off, q) == Target(off) # 0 => \A e \in 1 .. q : Kept(tab'[off][e], Target(off))
           WaitingAfter(off) == \E m \in 1 .. Len(links') : links'[m].begin = off
<1>0. input' = input /\ Relas' = Relas /\ (\A j : (Off(j))' = Off(j))
      /\ (\A off : (Target(off))' = Target(off))
  <2>1. input' = input
    BY DEF Next, Scan, Scanned, NextLink, OneEntry, EndLink, Finish, Rerun, vars
  <2> QED
    BY <2>1, FileIsFixed
\* The invariant after the step.
<1>1. ASSUME pc' \in {"link", "entry"} =>
               \A j \in Relas : WaitingAfter(Off(j)) \/ CleanAfter(Off(j), sh'[j].size),
             pc' = "entry" => \E off : /\ off = Head(links').begin /\ ndx' = Target(off)
                                       /\ ndx' # 0 /\ CleanAfter(off, p' - 1),
             runs' \in IF pc' = "done" THEN 1 .. 2 ELSE 0 .. 1,
             runs' \in 1 .. 2 => \A j \in Relas : CleanAfter(Off(j), sh'[j].size),
             runs' \in 1 .. 2 /\ pc' = "entry" => p' = rel'
      PROVE  CleanInv'
  <2>1. \A off, q : (Clean(off, q))' = CleanAfter(off, q)
    BY <1>0, CleanNext
  <2> HIDE DEF CleanAfter
  <2> QED
    BY <1>0, <1>1, <2>1 DEF CleanInv, Waiting, Begin
<1>2. \A off, q : Clean(off, q) /\ (\A e \in 1 .. q : tab'[off][e] = tab[off][e]) => CleanAfter(off, q)
  BY DEF Clean
<1>3. \A off : CleanAfter(off, 0)
  OBVIOUS
\* Steps of the scan, which leave tables, sizes and runs alone.
<1>4. ASSUME UNCHANGED <<tab, runs>>, \A j \in Relas : sh'[j].size = sh[j].size,
             pc' = "scan" \/ (pc' = "link" /\ links' = links /\ \A j \in Relas : Waiting(Off(j))),
             pc = "done" => runs = 1
      PROVE  CleanInv'
  <2>1. runs' \in 0 .. 1
    BY <1>4 DEF CleanInv
  <2>2. runs' \in 1 .. 2 => \A j \in Relas : CleanAfter(Off(j), sh'[j].size)
    BY <1>2, <1>4 DEF CleanInv
  <2>3. pc' = "link" => \A j \in Relas : WaitingAfter(Off(j))
    BY <1>4 DEF Waiting
  <2> HIDE DEF CleanAfter, WaitingAfter
  <2> QED
    BY <1>1, <1>4, <2>1, <2>2, <2>3
<1>5. CASE Scan
  BY <1>4, <1>5 DEF Scan
<1>6. CASE Scanned
  <2>1. pc' = "link" /\ UNCHANGED <<sh, tab, links, runs>> /\ pc = "scan"
    BY <1>6 DEF Scanned
  <2> QED
    BY <1>4, <1>6, <2>1, AllWaiting
<1>7. CASE Rerun
  <2>1. runs = 1 /\ pc' = "scan" /\ UNCHANGED <<sh, tab, links, runs>>
    BY <1>7 DEF Rerun
  <2> QED
    BY <1>4, <2>1
\* Taking the first table off the list.
<1>8. ASSUME links # <<>>, links' = Tail(links), pc \in {"link", "entry"}, pc' = "link",
             UNCHANGED <<tab, runs>>, CleanAfter(Begin, 0) /\ \A j \in Relas :
               IF Off(j) = Begin THEN CleanAfter(Begin, sh'[j].size) ELSE sh'[j].size = sh[j].size
      PROVE  CleanInv'
  <2>1. /\ Len(links) \in Nat \ {0} /\ Begin = links[1].begin /\ Len(links') = Len(links) - 1
        /\ \A m \in 1 .. Len(links) - 1 : links'[m] = links[m + 1]
    BY <1>8, LinkFacts
  <2>2. ASSUME NEW j \in Relas PROVE WaitingAfter(Off(j)) \/ CleanAfter(Off(j), sh'[j].size)
    <3>1. CASE Off(j) = Begin
      <4> HIDE DEF CleanAfter
      <4> QED
        BY <1>8, <3>1
    <3>2. CASE Off(j) # Begin /\ Waiting(Off(j))
      <4>1. PICK m \in 1 .. Len(links) : links[m].begin = Off(j)
        BY <3>2 DEF Waiting
      <4>2. m # 1 /\ m - 1 \in 1 .. Len(links') /\ m - 1 \in 1 .. Len(links) - 1
        BY <2>1, <3>2, <4>1
      <4>3. links'[m - 1] = links[m]
        BY <2>1, <4>2
      <4> QED
        BY <4>1, <4>2, <4>3
    <3>3. CASE Off(j) # Begin /\ Clean(Off(j), sh[j].size)
      BY <1>2, <1>8, <3>3
    <3>4. Waiting(Off(j)) \/ Clean(Off(j), sh[j].size)
      BY <1>8 DEF CleanInv
    <3> QED
      BY <3>1, <3>2, <3>3, <3>4
  <2>3. runs' \in 1 .. 2 => \A j \in Relas : CleanAfter(Off(j), sh'[j].size)
    <3> SUFFICES ASSUME runs' \in 1 .. 2, NEW j \in Relas PROVE CleanAfter(Off(j), sh'[j].size)
      OBVIOUS
    <3>1. Clean(Off(j), sh[j].size)
      BY <1>8 DEF CleanInv
    <3>2. CASE Off(j) = Begin
      <4> HIDE DEF CleanAfter
      <4> QED
        BY <1>8, <3>2
    <3>3. CASE Off(j) # Begin
      BY <1>2, <1>8, <3>1, <3>3
    <3> QED
      BY <3>2, <3>3
  <2>4. runs' \in 0 .. 1
    BY <1>8 DEF CleanInv
  <2> HIDE DEF CleanAfter, WaitingAfter
  <2> QED
    BY <1>1, <1>8, <2>2, <2>3, <2>4

<1>9. CASE NextLink
  <2> DEFINE n == PatchedSection(Begin)
  <2>1. /\ pc = "link" /\ links # <<>> /\ UNCHANGED <<sh, tab, runs>> /\ n = Target(Begin)
        /\ IF n = 0 THEN links' = Tail(links) /\ pc' = "link"
           ELSE pc' = "entry" /\ ndx' = n /\ p' = 1 /\ rel' = 1 /\ links' = links
    BY <1>9, TargetIsFixed DEF NextLink, Begin
  <2> HIDE DEF n
  <2>2. CASE n = 0
    <3>1. \A q : CleanAfter(Begin, q)
      BY <2>1, <2>2
    <3> HIDE DEF CleanAfter
    <3> QED
      BY <1>8, <2>1, <2>2, <3>1
  <2>3. CASE n # 0
    <3>1. \A j \in Relas : WaitingAfter(Off(j)) \/ CleanAfter(Off(j), sh'[j].size)
      BY <1>2, <2>1, <2>3 DEF CleanInv, Waiting
    <3>2. Begin = Head(links').begin /\ CleanAfter(Begin, p' - 1)
      BY <2>1, <2>3 DEF Begin
    <3>3. runs' \in 0 .. 1 /\ (runs' \in 1 .. 2 => \A j \in Relas : CleanAfter(Off(j), sh'[j].size))
      BY <1>2, <2>1, <2>3 DEF CleanInv
    <3> HIDE DEF CleanAfter, WaitingAfter
    <3> QED
      BY <1>1, <2>1, <2>3, <3>1, <3>2, <3>3
  <2> QED
    BY <2>2, <2>3
<1>10. CASE OneEntry
  <2>1. /\ pc = "entry" /\ pc' = "entry" /\ UNCHANGED <<links, ndx, runs>> /\ rel' = rel + 1
        /\ rel \in 1 .. Head(links).size /\ p \in 1 .. rel /\ rel \in 1 .. Len(tab[Begin])
        /\ \/ p' = p /\ tab' = tab
           \/ /\ p' = p + 1 /\ Kept(tab[Begin][rel], ndx)
              /\ \A o \in DOMAIN tab \ {Begin} : tab'[o] = tab[o]
              /\ \A e \in 1 .. Len(tab[Begin]) :
                   tab'[Begin][e] = IF e = p THEN tab[Begin][rel] ELSE tab[Begin][e]
    BY <1>10, EntryStep
  <2>2. links # <<>>
    BY <2>1 DEF CompactInv, LoopInv
  <2>3. 1 \in 1 .. Len(links) /\ Begin = links[1].begin /\ Begin = Head(links').begin
    BY <2>1, <2>2, LinkFacts DEF Begin
  <2>4. ndx = Target(Begin) /\ ndx # 0 /\ Clean(Begin, p - 1) /\ runs \in 0 .. 1
    BY <2>1 DEF CleanInv
  <2>5. \A j \in Relas : sh'[j].size = sh[j].size
    <3>1. ~EndLink
      BY <1>10, <2>1 DEF EndLink
    <3> QED
      BY <3>1, SizesStep
  <2>6. ASSUME NEW j \in Relas PROVE WaitingAfter(Off(j)) \/ CleanAfter(Off(j), sh'[j].size)
    <3>1. CASE Off(j) = Begin \/ Waiting(Off(j))
      BY <2>1, <2>3, <3>1 DEF Waiting
    <3>2. CASE Off(j) # Begin /\ Clean(Off(j), sh[j].size)
      <4>1. tab'[Off(j)] = tab[Off(j)]
        BY <2>1, <3>2, RelaFacts DEF CompactInv, TablesInv
      <4> QED
        BY <1>2, <2>5, <3>2, <4>1
    <3>3. Waiting(Off(j)) \/ Clean(Off(j), sh[j].size)
      BY <2>1 DEF CleanInv
    <3> QED
      BY <3>1, <3>2, <3>3
  <2>7. CleanAfter(Begin, p' - 1)
    <3>1. CASE p' = p /\ tab' = tab
      BY <1>2, <2>4, <3>1
    <3>2. CASE p' = p + 1 /\ Kept(tab[Begin][rel], ndx) /\ \A e \in 1 .. Len(tab[Begin]) :
                 tab'[Begin][e] = IF e = p THEN tab[Begin][rel] ELSE tab[Begin][e]
      <4>1. p' - 1 = p /\ p \in Nat /\ rel \in Nat /\ p <= rel
        BY <2>1, <3>2
      <4>2. ASSUME NEW e \in 1 .. p PROVE Kept(tab'[Begin][e], Target(Begin))
        <5>1. e \in 1 .. Len(tab[Begin])
          BY <2>1, <4>1
        <5>2. CASE e = p
          BY <2>4, <3>2, <5>1, <5>2
        <5>3. CASE e # p
          <6>1. e \in 1 .. p - 1
            BY <4>1, <5>3
          <6>2. Kept(tab[Begin][e], Target(Begin))
            BY <2>4, <6>1 DEF Clean
          <6> QED
            BY <3>2, <5>1, <5>3, <6>2
        <5> QED
          BY <5>2, <5>3
      <4> QED
        BY <4>1, <4>2
    <3> HIDE DEF CleanAfter
    <3> QED
      BY <2>1, <3>1, <3>2
  <2>8. ASSUME runs' \in 1 .. 2
        PROVE  p' = rel' /\ \A j \in Relas : CleanAfter(Off(j), sh'[j].size)
    <3>1. runs \in 1 .. 2
      BY <2>1, <2>8
    <3>2. /\ p = rel /\ p' = p + 1
          /\ \A j \in Relas : \A e \in 1 .. Len(tab[Off(j)]) : tab'[Off(j)][e] = tab[Off(j)][e]
      BY <1>10, <3>1, NothingToDo
    <3>3. ASSUME NEW j \in Relas PROVE CleanAfter(Off(j), sh'[j].size)
      <4>1. Clean(Off(j), sh[j].size)
        BY <3>1 DEF CleanInv
      <4>2. \A e \in 1 .. sh[j].size : e \in 1 .. Len(tab[Off(j)])
        BY RelaFacts
      <4>3. \A e \in 1 .. sh[j].size : tab'[Off(j)][e] = tab[Off(j)][e]
        BY <3>2, <4>2
      <4> QED
        BY <1>2, <2>5, <4>1, <4>3
    <3> QED
      BY <2>1, <3>2, <3>3
  <2> HIDE DEF CleanAfter, WaitingAfter
  <2> QED
    BY <1>1, <2>1, <2>3, <2>4, <2>6, <2>7, <2>8
<1>11. CASE EndLink
  <2>1. /\ pc = "entry" /\ links' = Tail(links) /\ pc' = "link" /\ UNCHANGED <<tab, runs>>
        /\ sh' = [j \in DOMAIN sh |-> IF IsRela(sh[j]) /\ sh[j].offset = Begin
                                        THEN [sh[j] EXCEPT !.size = p - 1] ELSE sh[j]]
    BY <1>11 DEF EndLink
  <2>2. links # <<>>
    BY <2>1 DEF CompactInv, LoopInv
  <2>3. CleanAfter(Begin, p - 1)
    BY <1>2, <2>1 DEF CleanInv
  <2>4. ASSUME NEW j \in Relas
        PROVE  IF Off(j) = Begin THEN CleanAfter(Begin, sh'[j].size) ELSE sh'[j].size = sh[j].size
    <3>1. j \in DOMAIN sh /\ IsHeader(sh[j]) /\ IsRela(sh[j]) /\ sh[j].offset = Off(j)
      <4>1. Len(input.sh) \in Nat /\ j \in 1 .. Len(input.sh)
        BY FileFacts DEF CompactInv, HeadersInv, Relas
      <4>2. DOMAIN sh = 1 .. Len(input.sh)
        BY <4>1, FunctionIsSeq DEF CompactInv, HeadersInv
      <4> QED
        BY <4>1, <4>2, RelaFacts DEF CompactInv, HeadersInv
    <3>2. Off(j) = Begin => sh'[j].size = p - 1
      BY <2>1, <3>1 DEF IsHeader
    <3>3. Off(j) # Begin => sh'[j] = sh[j]
      BY <2>1, <3>1
    <3> HIDE DEF CleanAfter
    <3> QED
      BY <2>3, <3>2, <3>3
  <2>5. CleanAfter(Begin, 0)
    OBVIOUS
  <2> HIDE DEF CleanAfter
  <2> QED
    BY <1>8, <2>1, <2>2, <2>4, <2>5
<1>12. CASE Finish
  <2>1. pc = "link" /\ links = <<>> /\ UNCHANGED <<sh, tab>> /\ runs' = runs + 1 /\ pc' = "done"
    BY <1>12 DEF Finish
  <2>2. runs' \in 1 .. 2
    BY <2>1 DEF CleanInv
  <2>3. ASSUME NEW j \in Relas PROVE CleanAfter(Off(j), sh'[j].size)
    <3>1. ~Waiting(Off(j))
      BY <2>1 DEF Waiting
    <3>2. Clean(Off(j), sh[j].size)
      BY <2>1, <3>1 DEF CleanInv
    <3> QED
      BY <1>2, <2>1, <3>2
  <2> HIDE DEF CleanAfter, WaitingAfter
  <2> QED
    BY <1>1, <2>1, <2>2, <2>3
<1>13. CASE UNCHANGED vars
  <2>1. UNCHANGED <<sh, tab, links, pc, ndx, p, rel, runs>>
    BY <1>13 DEF vars
  <2>2. \A off, q : Clean(off, q) => CleanAfter(off, q)
    BY <1>2, <2>1
  <2>3. \A j \in Relas : Waiting(Off(j)) => WaitingAfter(Off(j))
    BY <2>1 DEF Waiting
  <2> HIDE DEF CleanAfter, WaitingAfter
  <2> QED
    BY <1>1, <2>1, <2>2, <2>3 DEF CleanInv, Begin
<1> QED
  BY <1>5, <1>6, <1>7, <1>9, <1>10, <1>11, <1>12, <1>13 DEF Next

\* The links, the tables done and the symbols, in every run of the tool.
LEMMA RunInvariant == Spec => [](CompactInv /\ RunInv)
<1>1. Init => CompactInv /\ RunInv
  <2> SUFFICES ASSUME Init PROVE CompactInv /\ RunInv
    OBVIOUS
  <2>1. CompactInv
    BY CompactInit
  <2>2. SymInv
    BY FilesAssumption DEF Init, SymInv
  <2>3. links = <<>> /\ Len(links) = 0 /\ pc = "scan" /\ i = 1 /\ runs = 0
    BY DEF Init
  <2>4. \A j \in Relas : j \in 1 .. Len(input.sh) /\ ~ (j < 1)
    BY FileFacts DEF Relas, Init
  <2>5. ListInv
    BY <2>3, <2>4 DEF ListInv
  <2>6. CleanInv
    BY <2>3 DEF CleanInv
  <2> QED
    BY <2>1, <2>2, <2>5, <2>6 DEF RunInv
<1>2. CompactInv /\ RunInv /\ [Next]_vars => (CompactInv /\ RunInv)'
  <2> SUFFICES ASSUME CompactInv, RunInv, [Next]_vars PROVE CompactInv' /\ RunInv'
    OBVIOUS
  <2>1. TablesApart' = TablesApart
    BY DEF Next, Scan, Scanned, NextLink, OneEntry, EndLink, Finish, Rerun, vars, TablesApart
  <2> QED
    BY <2>1, CompactStep, SymStep, ListStep, CleanStep DEF RunInv
<1> QED
  BY <1>1, <1>2, PTL DEF Spec

\* A step of the second run changes neither a section header nor a table.
LEMMA IdleStep ==
  ASSUME CompactInv, TablesApart, SymInv, ListInv, CleanInv, [Next]_vars, runs \in 1 .. 2
  PROVE  /\ \A j \in DOMAIN sh : sh'[j] = sh[j] /\ (IsRela(sh[j]) => j \in Relas)
         /\ \A j \in Relas : tab'[Off(j)] = tab[Off(j)]
<1>2. Len(input.sh) \in Nat /\ DOMAIN sh = 1 .. Len(input.sh)
      /\ \A j \in DOMAIN sh : IsRela(sh[j]) => j \in Relas
  <2>1. Len(input.sh) \in Nat
    BY FileFacts DEF CompactInv, HeadersInv
  <2>2. DOMAIN sh = 1 .. Len(input.sh)
    BY <2>1, FunctionIsSeq DEF CompactInv, HeadersInv
  <2> QED
    BY <2>1, <2>2 DEF Relas, IsRela, CompactInv, HeadersInv
<1>3. CASE UNCHANGED <<sh, tab>>
  BY <1>2, <1>3
<1>4. CASE OneEntry
  <2>1. sh' = sh /\ \A j \in Relas : \A e \in 1 .. Len(tab[Off(j)]) : tab'[Off(j)][e] = tab[Off(j)][e]
    BY <1>4, NothingToDo
  <2>2. ASSUME NEW j \in Relas
        PROVE  tab'[Off(j)] = tab[Off(j)]
    <3> DEFINE T == ToSet(input.tab[Off(j)])
    <3>1. /\ sh[j].size \in Nat /\ sh[j].size <= Len(tab[Off(j)]) /\ Len(tab[Off(j)]) \in Nat
          /\ Off(j) \in DOMAIN input.tab /\ tab[Off(j)] \in Seq(T)
      BY RelaFacts
    <3>2. tab'[Off(j)] \in Seq(T) /\ Len(tab'[Off(j)]) = Len(tab[Off(j)])
      <4>1. TablesInv' /\ input' = input
        BY <1>4, CompactStep DEF CompactInv, OneEntry
      <4> QED
        BY <3>1, <4>1 DEF TablesInv, CompactInv
    <3> HIDE DEF T
    <3> QED
      BY <2>1, <3>1, <3>2, SeqEqual
  <2> QED
    BY <1>2, <2>1, <2>2
<1>5. CASE EndLink
  <2>1. /\ pc = "entry" /\ rel > Head(links).size /\ tab' = tab
        /\ sh' = [j \in DOMAIN sh |-> IF IsRela(sh[j]) /\ sh[j].offset = Begin
                                        THEN [sh[j] EXCEPT !.size = p - 1] ELSE sh[j]]
    BY <1>5 DEF EndLink
  <2>2. links # <<>> /\ rel \in 1 .. Head(links).size + 1 /\ p = rel
    BY <2>1 DEF CompactInv, LoopInv, CleanInv
  <2>3. 1 \in 1 .. Len(links) /\ Head(links) = links[1] /\ Begin = links[1].begin
        /\ Head(links).size \in Nat
    BY <2>2, LinkFacts
  <2>4. p - 1 = links[1].size
    BY <2>1, <2>2, <2>3
  <2>5. ASSUME NEW j \in DOMAIN sh PROVE sh'[j] = sh[j]
    <3>1. CASE IsRela(sh[j]) /\ sh[j].offset = Begin
      <4>1. j \in Relas /\ Off(j) = links[1].begin
        BY <1>2, <2>3, <3>1, RelaFacts
      <4>2. sh[j].size = links[1].size
        BY <2>3, <4>1 DEF ListInv
      <4>3. IsHeader(sh[j])
        BY <1>2 DEF CompactInv, HeadersInv
      <4>4. sh'[j] = [sh[j] EXCEPT !.size = links[1].size]
        BY <2>1, <2>4, <3>1
      <4> QED
        BY <4>2, <4>3, <4>4 DEF IsHeader
    <3>2. CASE ~(IsRela(sh[j]) /\ sh[j].offset = Begin)
      BY <2>1, <3>2
    <3> QED
      BY <3>1, <3>2
  <2> QED
    BY <1>2, <2>1, <2>5
<1> QED
  BY <1>3, <1>4, <1>5 DEF Next, Scan, Scanned, NextLink, Finish, Rerun, vars

\* For every file whose tables lie apart, a second run of the tool changes
\* nothing: each entry it reads is one it left in place, is written where it
\* was read, and each table ends with the size it had.
THEOREM SecondRunIsIdle == Spec => SecondRunChangesNothing
<1> DEFINE Idle == runs = 1 /\ runs' = 1 /\ TablesApart =>
             /\ \A j \in DOMAIN sh : sh'[j] = sh[j]
             /\ \A j \in DOMAIN sh : IsRela(sh[j]) =>
                  SubSeq(tab'[sh[j].offset], 1, sh[j].size) = SubSeq(tab[sh[j].offset], 1, sh[j].size)
<1>1. CompactInv /\ RunInv /\ [Next]_vars => [Idle]_vars
  <2> SUFFICES ASSUME CompactInv, RunInv, [Next]_vars, runs = 1, TablesApart
               PROVE  /\ \A j \in DOMAIN sh : sh'[j] = sh[j]
                      /\ \A j \in DOMAIN sh : IsRela(sh[j]) =>
                           SubSeq(tab'[sh[j].offset], 1, sh[j].size)
                             = SubSeq(tab[sh[j].offset], 1, sh[j].size)
    OBVIOUS
  <2>1. /\ \A j \in DOMAIN sh : sh'[j] = sh[j] /\ (IsRela(sh[j]) => j \in Relas)
        /\ \A j \in Relas : tab'[Off(j)] = tab[Off(j)]
    BY IdleStep DEF RunInv
  <2> QED
    BY <2>1, RelaFacts
<1> QED
  BY <1>1, RunInvariant, PTL DEF Spec, SecondRunChangesNothing

-----------------------------------------------------------------------------
(* What is left in the tables.                                             *)

Was(j) == input.sh[j].size

\* Table j has been compacted: of its entries those to keep are at their ranks.
Ranked(off, n, q) ==
  \A e \in 1 .. q : Kept(input.tab[off][e], n) => tab[off][Rank(off, n, e)] = input.tab[off][e]
Final(j) ==
  Target(Off(j)) # 0 =>
    /\ sh[j].size = Rank(Off(j), Target(Off(j)), Was(j))
    /\ Ranked(Off(j), Target(Off(j)), Was(j))

\* Halfway: behind the write index are the entries to keep among those read,
\* and what has not been read is still there.
Moved ==
  /\ p - 1 = Rank(Begin, ndx, rel - 1) /\ Ranked(Begin, ndx, rel - 1)
  /\ \A e \in rel .. Len(input.tab[Begin]) : tab[Begin][e] = input.tab[Begin][e]

\* In the first run a table is as it was until its turn comes.
Untouched(j) ==
  /\ sh[j].size = Was(j)
  /\ tab[Off(j)] = input.tab[Off(j)] \/ (pc = "entry" /\ Off(j) = Begin)
KeepInv ==
  /\ runs = 0 /\ pc = "scan" => \A j \in Relas : Untouched(j)
  /\ runs = 0 /\ pc \in {"link", "entry"} =>
       /\ \A j \in Relas : Final(j) \/ Waiting(Off(j))
       /\ \A j \in Relas : Waiting(Off(j)) => Untouched(j)
  /\ runs = 0 /\ pc = "entry" => Moved
  /\ runs \in 1 .. 2 => \A j \in Relas : Final(j)

\* Ranks count up by one at each entry that is kept.
LEMMA RankFacts ==
  ASSUME NEW off, NEW n, NEW e \in Nat
  PROVE  /\ Rank(off, n, e) \in Nat /\ Rank(off, n, 0) = 0
         /\ Rank(off, n, e + 1)
              = Rank(off, n, e) + IF Kept(input.tab[off][e + 1], n) THEN 1 ELSE 0
         /\ \A d \in 0 .. e : Rank(off, n, d) <= Rank(off, n, e)
<1> DEFINE S(m) == {d \in 1 .. m : Kept(input.tab[off][d], n)}
<1>1. \A m \in Nat : IsFiniteSet(S(m))
  <2> SUFFICES ASSUME NEW m \in Nat PROVE IsFiniteSet(S(m))
    OBVIOUS
  <2>1. IsFiniteSet(1 .. m)
    BY FS_Interval
  <2>2. S(m) \in SUBSET (1 .. m)
    OBVIOUS
  <2> HIDE DEF S
  <2> QED
    BY <2>1, <2>2, FS_Subset
<1>2. \A m \in Nat : Rank(off, n, m) = Cardinality(S(m))
  BY DEF Rank
<1>3. S(0) = {}
  OBVIOUS
<1>4. S(e + 1) = IF Kept(input.tab[off][e + 1], n) THEN S(e) \cup {e + 1} ELSE S(e)
  OBVIOUS
<1>5. e + 1 \notin S(e) /\ \A d \in 0 .. e : d \in Nat /\ S(d) \in SUBSET S(e)
  OBVIOUS
<1> HIDE DEF S
<1>6. Rank(off, n, e) \in Nat /\ Rank(off, n, 0) = 0
  BY <1>1, <1>2, <1>3, FS_CardinalityType, FS_EmptySet
<1>7. Cardinality(S(e + 1)) = Cardinality(S(e)) + IF Kept(input.tab[off][e + 1], n) THEN 1 ELSE 0
  <2>1. Cardinality(S(e) \cup {e + 1}) = Cardinality(S(e)) + 1
    BY <1>1, <1>5, FS_AddElement
  <2>2. Cardinality(S(e)) \in Nat
    BY <1>2, <1>6
  <2> QED
    BY <1>4, <2>1, <2>2
<1>8. ASSUME NEW d \in 0 .. e PROVE Rank(off, n, d) <= Rank(off, n, e)
  <2>1. Cardinality(S(d)) <= Cardinality(S(e))
    BY <1>1, <1>5, FS_Subset
  <2> QED
    BY <1>2, <1>5, <2>1
<1> QED
  BY <1>2, <1>6, <1>7, <1>8

\* Ranks are of the file as it was.
LEMMA RankIsFixed ==
  ASSUME input' = input
  PROVE  /\ \A off, n, e : (Rank(off, n, e))' = Rank(off, n, e)
         /\ \A j : (Was(j))' = Was(j)
BY DEF Rank, Kept, Resolved, Was

\* A table is off the list when its link is gone.
LEMMA TailWaiting ==
  ASSUME CompactInv, ListInv, links # <<>>, links' = Tail(links), NEW off
  PROVE  (\E m \in 1 .. Len(links') : links'[m].begin = off) <=> Waiting(off) /\ off # Begin
<1>1. /\ Len(links) \in Nat \ {0} /\ Begin = links[1].begin /\ Len(links') = Len(links) - 1
      /\ \A m \in 1 .. Len(links) - 1 : links'[m] = links[m + 1]
  BY LinkFacts
<1>2. ASSUME NEW m \in 1 .. Len(links'), links'[m].begin = off PROVE Waiting(off) /\ off # Begin
  <2>1. m + 1 \in 1 .. Len(links) /\ 1 \in 1 .. Len(links) /\ m + 1 # 1 /\ links[m + 1].begin = off
    BY <1>1, <1>2
  <2>2. links[m + 1].begin # links[1].begin
    BY <2>1 DEF ListInv
  <2> QED
    BY <1>1, <2>1, <2>2 DEF Waiting
<1>3. ASSUME NEW m \in 1 .. Len(links), links[m].begin = off, off # Begin
      PROVE  \E l \in 1 .. Len(links') : links'[l].begin = off
  <2>1. m - 1 \in 1 .. Len(links') /\ m - 1 \in 1 .. Len(links) - 1 /\ (m - 1) + 1 = m
    BY <1>1, <1>3
  <2>2. links'[m - 1] = links[m]
    BY <1>1, <2>1
  <2> QED
    BY <1>3, <2>1, <2>2
<1> QED
  BY <1>2, <1>3 DEF Waiting

\* A turn of the loop over the entries takes one entry more into account.
LEMMA MovedStep ==
  ASSUME CompactInv, TablesApart, SymInv, ListInv, CleanInv, Moved, OneEntry PROVE Moved'
<1> DEFINE T == input.tab[Begin]
           R(e) == Rank(Begin, ndx, e)
<1>1. /\ pc = "entry" /\ UNCHANGED <<input, links, ndx>> /\ rel' = rel + 1
      /\ rel \in 1 .. Head(links).size /\ p \in 1 .. rel /\ rel \in 1 .. Len(tab[Begin])
      /\ \/ p' = p /\ tab' = tab /\ ~Kept(tab[Begin][rel], ndx)
         \/ /\ p' = p + 1 /\ Kept(tab[Begin][rel], ndx)
            /\ \A e \in 1 .. Len(tab[Begin]) :
                 tab'[Begin][e] = IF e = p THEN tab[Begin][rel] ELSE tab[Begin][e]
  BY EntryStep
<1>2. Begin \in DOMAIN input.tab /\ Len(tab[Begin]) = Len(T) /\ Len(T) \in Nat
  <2>1. links # <<>>
    BY <1>1 DEF CompactInv, LoopInv
  <2>2. Begin \in DOMAIN input.tab
    BY <2>1, LinkFacts
  <2> QED
    BY <2>2, FileFacts DEF CompactInv, TablesInv, HeadersInv
<1>3. tab[Begin][rel] = T[rel]
  BY <1>1, <1>2 DEF Moved
<1>4. /\ rel - 1 \in Nat /\ rel \in Nat /\ (rel - 1) + 1 = rel /\ p \in Nat /\ p <= rel
      /\ R(rel) = R(rel - 1) + IF Kept(T[rel], ndx) THEN 1 ELSE 0
      /\ R(rel - 1) = p - 1 /\ \A e \in 0 .. rel - 1 : R(e) \in Nat /\ R(e) <= p - 1
  <2>1. rel - 1 \in Nat /\ rel \in Nat /\ (rel - 1) + 1 = rel /\ p \in Nat /\ p <= rel
    BY <1>1
  <2>2. R(rel - 1) = p - 1
    BY DEF Moved
  <2>3. R(rel) = R(rel - 1) + IF Kept(T[rel], ndx) THEN 1 ELSE 0
    BY <2>1, RankFacts
  <2>4. \A e \in 0 .. rel - 1 : R(e) \in Nat /\ R(e) <= R(rel - 1)
    BY <2>1, RankFacts
  <2> QED
    BY <2>1, <2>2, <2>3, <2>4
<1>5. /\ \A e \in 1 .. rel - 1 : Kept(T[e], ndx) => tab[Begin][R(e)] = T[e]
      /\ \A e \in rel .. Len(T) : tab[Begin][e] = T[e]
      /\ \A e \in 1 .. rel - 1 : Kept(T[e], ndx) => R(e) \in 1 .. p - 1
  <2>1. \A e \in 1 .. rel - 1 : Kept(T[e], ndx) => R(e) >= 1
    <3> SUFFICES ASSUME NEW e \in 1 .. rel - 1, Kept(T[e], ndx) PROVE R(e) >= 1
      OBVIOUS
    <3>1. e - 1 \in Nat /\ (e - 1) + 1 = e
      BY <1>4
    <3>2. R(e) = R(e - 1) + 1 /\ R(e - 1) \in Nat
      BY <3>1, RankFacts
    <3> QED
      BY <3>2
  <2>2. \A e \in 1 .. rel - 1 : e \in 0 .. rel - 1
    BY <1>4
  <2> HIDE DEF R
  <2>3. \A e \in 1 .. rel - 1 : Kept(T[e], ndx) => R(e) \in 1 .. p - 1
    BY <1>4, <2>1, <2>2
  <2> QED
    BY <2>3 DEF Moved, Ranked, R
\* The table at Begin after the step.
<1>6. ASSUME p' - 1 = R(rel),
             \A e \in 1 .. rel : Kept(T[e], ndx) => tab'[Begin][R(e)] = T[e],
             \A e \in rel + 1 .. Len(T) : tab'[Begin][e] = T[e]
      PROVE  Moved'
  <2>1. \A off, n, e : (Rank(off, n, e))' = Rank(off, n, e)
    BY <1>1, RankIsFixed
  <2>2. \A r, n : (Kept(r, n))' = Kept(r, n)
    BY <1>1, FileIsFixed
  <2>3. Begin' = Begin /\ rel' - 1 = rel /\ rel' = rel + 1
    BY <1>1, <1>4 DEF Begin
  <2>4. (Ranked(Begin, ndx, rel - 1))'
    BY <1>1, <1>6, <2>1, <2>2, <2>3 DEF Ranked
  <2> QED
    BY <1>1, <1>6, <2>1, <2>3, <2>4 DEF Moved
<1>7. CASE p' = p /\ tab' = tab /\ ~Kept(T[rel], ndx)
  <2>1. p' - 1 = R(rel)
    BY <1>4, <1>7
  <2>2. \A e \in 1 .. rel : Kept(T[e], ndx) => tab'[Begin][R(e)] = T[e]
    <3>1. \A e \in 1 .. rel : e = rel \/ e \in 1 .. rel - 1
      BY <1>4
    <3> HIDE DEF R
    <3> QED
      BY <1>5, <1>7, <3>1
  <2>3. \A e \in rel + 1 .. Len(T) : tab'[Begin][e] = T[e]
    BY <1>2, <1>4, <1>5, <1>7
  <2> HIDE DEF R
  <2> QED
    BY <1>6, <2>1, <2>2, <2>3
<1>8. CASE /\ p' = p + 1 /\ Kept(T[rel], ndx)
           /\ \A e \in 1 .. Len(T) : tab'[Begin][e] = IF e = p THEN T[rel] ELSE tab[Begin][e]
  <2>1. R(rel) = p /\ p' - 1 = R(rel)
    BY <1>4, <1>8
  <2>2. p \in 1 .. Len(T) /\ rel <= Len(T)
    BY <1>1, <1>2, <1>4
  <2>3. \A e \in 1 .. rel : Kept(T[e], ndx) => tab'[Begin][R(e)] = T[e]
    <3> SUFFICES ASSUME NEW e \in 1 .. rel, Kept(T[e], ndx) PROVE tab'[Begin][R(e)] = T[e]
      OBVIOUS
    <3>1. CASE e = rel
      BY <1>8, <2>1, <2>2, <3>1
    <3>2. CASE e # rel
      <4>1. e \in 1 .. rel - 1
        BY <1>4, <3>2
      <4>2. R(e) \in 1 .. p - 1 /\ tab[Begin][R(e)] = T[e]
        BY <1>5, <4>1
      <4> HIDE DEF R
      <4>3. R(e) \in 1 .. Len(T) /\ R(e) # p
        BY <1>2, <1>4, <2>2, <4>2
      <4> QED
        BY <1>8, <4>2, <4>3
    <3> QED
      BY <3>1, <3>2
  <2>4. \A e \in rel + 1 .. Len(T) : tab'[Begin][e] = T[e]
    <3> SUFFICES ASSUME NEW e \in rel + 1 .. Len(T) PROVE tab'[Begin][e] = T[e]
      OBVIOUS
    <3>1. e \in 1 .. Len(T) /\ e # p /\ e \in rel .. Len(T)
      BY <1>2, <1>4
    <3> QED
      BY <1>5, <1>8, <3>1
  <2> HIDE DEF R
  <2> QED
    BY <1>6, <2>1, <2>3, <2>4
<1> QED
  BY <1>1, <1>2, <1>3, <1>7, <1>8

\* Every step keeps each table untouched, halfway or compacted.
LEMMA KeepStep ==
  CompactInv /\ TablesApart /\ SymInv /\ ListInv /\ CleanInv /\ KeepInv /\ [Next]_vars => KeepInv'
<1> SUFFICES ASSUME CompactInv, TablesApart, SymInv, ListInv, CleanInv, KeepInv, [Next]_vars
             PROVE  KeepInv'
  OBVIOUS
<1> DEFINE FinalAfter(j) ==
             Target(Off(j)) # 0 =>
               /\ sh'[j].size = Rank(Off(j), Target(Off(j)), Was(j))
               /\ \A e \in 1 .. Was(j) : Kept(input.tab[Off(j)][e], Target(Off(j))) =>
                    tab'[Off(j)][Rank(Off(j), Target(Off(j)), e)] = input.tab[Off(j)][e]
           WaitingAfter(off) == \E m \in 1 .. Len(links') : links'[m].begin = off
           UntouchedAfter(j) ==
             /\ sh'[j].size = Was(j)
             /\ tab'[Off(j)] = input.tab[Off(j)] \/ (pc' = "entry" /\ Off(j) = Begin')
<1>0. input' = input /\ Relas' = Relas /\ (\A j : (Off(j))' = Off(j))
  <2>1. input' = input
    BY DEF Next, Scan, Scanned, NextLink, OneEntry, EndLink, Finish, Rerun, vars
  <2> QED
    BY <2>1, FileIsFixed
\* The invariant after the step.
<1>1. ASSUME runs' = 0 /\ pc' = "scan" => \A j \in Relas : UntouchedAfter(j),
             runs' = 0 /\ pc' \in {"link", "entry"} =>
               /\ \A j \in Relas : FinalAfter(j) \/ WaitingAfter(Off(j))
               /\ \A j \in Relas : WaitingAfter(Off(j)) => UntouchedAfter(j),
             runs' = 0 /\ pc' = "entry" => Moved',
             runs' \in 1 .. 2 => \A j \in Relas : FinalAfter(j)
      PROVE  KeepInv'
  <2>1. \A j : (Final(j))' = FinalAfter(j)
    <3>1. /\ \A off : (Target(off))' = Target(off)
          /\ \A r, n : (Kept(r, n))' = Kept(r, n)
          /\ \A off, n, e : (Rank(off, n, e))' = Rank(off, n, e) /\ \A j : (Was(j))' = Was(j)
      BY <1>0, FileIsFixed, RankIsFixed
    <3>2. \A off, n, q : (Ranked(off, n, q))' = \A e \in 1 .. q :
            Kept(input.tab[off][e], n) => tab'[off][Rank(off, n, e)] = input.tab[off][e]
      BY <1>0, <3>1 DEF Ranked
    <3> QED
      BY <1>0, <3>1, <3>2 DEF Final, Off, Was
  <2>2. \A j : (Untouched(j))' = UntouchedAfter(j)
    BY <1>0, RankIsFixed DEF Untouched
  <2>3. \A j : (Waiting(Off(j)))' = WaitingAfter(Off(j))
    BY <1>0 DEF Waiting
  <2> HIDE DEF FinalAfter, WaitingAfter, UntouchedAfter
  <2> QED
    BY <1>0, <1>1, <2>1, <2>2, <2>3 DEF KeepInv
<1>2. ASSUME NEW j \in Relas, Final(j), sh'[j].size = sh[j].size, tab'[Off(j)] = tab[Off(j)]
      PROVE  FinalAfter(j)
  BY <1>2 DEF Final, Ranked
<1>3. runs \in 0 .. 2
  BY DEF CleanInv
\* In the second run nothing changes.
<1>4. CASE runs \in 1 .. 2
  <2>1. runs' \in 1 .. 2
    <3>1. runs' = runs \/ (pc = "link" /\ runs' = runs + 1)
      BY DEF Next, Scan, Scanned, NextLink, OneEntry, EndLink, Finish, Rerun, vars
    <3> QED
      BY <1>4, <3>1 DEF CleanInv
  <2>2. ASSUME NEW j \in Relas PROVE FinalAfter(j)
    <3>1. sh'[j] = sh[j] /\ tab'[Off(j)] = tab[Off(j)]
      <4>1. Len(sh) \in Nat /\ j \in 1 .. Len(input.sh) /\ j \in DOMAIN sh
        <5>1. Len(input.sh) \in Nat
          BY FileFacts DEF CompactInv, HeadersInv
        <5> QED
          BY <5>1, FunctionIsSeq DEF CompactInv, HeadersInv, Relas
      <4> QED
        BY <1>4, <4>1, IdleStep
    <3>2. Final(j)
      BY <1>4 DEF KeepInv
    <3> QED
      BY <1>2, <3>1, <3>2
  <2> HIDE DEF FinalAfter, WaitingAfter, UntouchedAfter
  <2> QED
    BY <1>1, <2>1, <2>2
\* The first run.
<1>5. CASE runs = 0 /\ Scan
  <2>1. runs' = 0 /\ pc = "scan" /\ pc' = "scan" /\ UNCHANGED <<sh, tab>>
    BY <1>5 DEF Scan
  <2>2. \A j \in Relas : UntouchedAfter(j)
    BY <1>5, <2>1 DEF KeepInv, Untouched
  <2> HIDE DEF FinalAfter, WaitingAfter, UntouchedAfter
  <2> QED
    BY <1>1, <2>1, <2>2
<1>6. CASE runs = 0 /\ Scanned
  <2>1. runs' = 0 /\ pc = "scan" /\ pc' = "link" /\ UNCHANGED <<sh, tab, links>>
    BY <1>6 DEF Scanned
  <2>2. \A j \in Relas : UntouchedAfter(j)
    BY <1>6, <2>1 DEF KeepInv, Untouched
  <2>3. \A j \in Relas : WaitingAfter(Off(j))
    BY <1>6, <2>1, AllWaiting DEF Waiting
  <2> HIDE DEF FinalAfter, WaitingAfter, UntouchedAfter
  <2> QED
    BY <1>1, <2>1, <2>2, <2>3
\* The first table is taken off the list, and is done.
<1>7. ASSUME runs = 0, runs' = 0, pc \in {"link", "entry"}, pc' = "link", links # <<>>,
             links' = Tail(links), tab' = tab,
             \A j \in Relas : IF Off(j) = Begin THEN FinalAfter(j) ELSE sh'[j].size = sh[j].size
      PROVE  KeepInv'
  <2>1. \A off : WaitingAfter(off) <=> Waiting(off) /\ off # Begin
    BY <1>7, TailWaiting
  <2>2. ASSUME NEW j \in Relas PROVE FinalAfter(j) \/ WaitingAfter(Off(j))
    <3>1. Final(j) \/ Waiting(Off(j))
      BY <1>7 DEF KeepInv
    <3> HIDE DEF FinalAfter, WaitingAfter
    <3> QED
      BY <1>2, <1>7, <2>1, <3>1
  <2>3. ASSUME NEW j \in Relas, WaitingAfter(Off(j)) PROVE UntouchedAfter(j)
    <3>1. Waiting(Off(j)) /\ Off(j) # Begin
      BY <2>1, <2>3
    <3>2. Untouched(j) /\ sh'[j].size = sh[j].size
      BY <1>7, <3>1 DEF KeepInv
    <3> QED
      BY <1>7, <3>1, <3>2 DEF Untouched
  <2> HIDE DEF FinalAfter, WaitingAfter, UntouchedAfter
  <2> QED
    BY <1>1, <1>7, <2>2, <2>3
<1>8. CASE runs = 0 /\ NextLink
  <2> DEFINE n == PatchedSection(Begin)
  <2>1. /\ pc = "link" /\ links # <<>> /\ UNCHANGED <<sh, tab>> /\ runs' = 0 /\ n = Target(Begin)
        /\ IF n = 0 THEN links' = Tail(links) /\ pc' = "link"
           ELSE pc' = "entry" /\ ndx' = n /\ p' = 1 /\ rel' = 1 /\ links' = links
    BY <1>8, TargetIsFixed DEF NextLink, Begin
  <2> HIDE DEF n
  <2>2. CASE n = 0
    <3>1. \A j \in Relas : Off(j) = Begin => FinalAfter(j)
      BY <2>1, <2>2
    <3> HIDE DEF FinalAfter
    <3> QED
      BY <1>7, <1>8, <2>1, <2>2, <3>1
  <2>3. CASE n # 0
    <3>1. pc' = "entry" /\ ndx' = n /\ p' = 1 /\ rel' = 1 /\ links' = links /\ Begin' = Begin
      BY <2>1, <2>3 DEF Begin
    <3>2. ASSUME NEW j \in Relas PROVE FinalAfter(j) \/ WaitingAfter(Off(j))
      BY <1>2, <1>8, <2>1, <3>1 DEF KeepInv, Waiting
    <3>3. ASSUME NEW j \in Relas, WaitingAfter(Off(j)) PROVE UntouchedAfter(j)
      BY <1>8, <2>1, <3>1, <3>3 DEF KeepInv, Waiting, Untouched
    <3>4. 1 \in 1 .. Len(links) /\ Begin = links[1].begin
      BY <2>1, LinkFacts
    <3>5. PICK j \in Relas : Off(j) = Begin
      BY <3>4 DEF ListInv
    <3>6. Waiting(Off(j))
      BY <3>4, <3>5 DEF Waiting
    <3>7. tab'[Begin] = input.tab[Begin]
      BY <1>8, <2>1, <3>5, <3>6 DEF KeepInv, Untouched
    <3>8. (Rank(Begin, ndx, rel - 1))' = 0
      <4>1. Rank(Begin, n, 0) = 0
        BY RankFacts
      <4> QED
        BY <1>0, <3>1, <4>1 DEF Rank, Kept, Resolved
    <3>9. Moved'
      BY <1>0, <3>1, <3>7, <3>8 DEF Moved, Ranked
    <3> HIDE DEF FinalAfter, WaitingAfter, UntouchedAfter
    <3> QED
      BY <1>1, <2>1, <3>1, <3>2, <3>3, <3>9
  <2> QED
    BY <2>2, <2>3
<1>9. CASE runs = 0 /\ OneEntry
  <2>1. /\ pc = "entry" /\ pc' = "entry" /\ UNCHANGED <<links, runs>>
        /\ \A o \in DOMAIN tab \ {Begin} : tab'[o] = tab[o]
    BY <1>9, EntryStep
  <2>2. \A j \in Relas : sh'[j].size = sh[j].size
    <3>1. ~EndLink
      BY <1>9, <2>1 DEF OneEntry, EndLink
    <3> QED
      BY <3>1, SizesStep
  <2>3. \A j \in Relas : Off(j) # Begin => tab'[Off(j)] = tab[Off(j)]
    BY <2>1, RelaFacts DEF CompactInv, TablesInv
  <2>4. links # <<>> /\ Begin' = Begin
    BY <2>1 DEF CompactInv, LoopInv, Begin
  <2>5. Waiting(Begin) /\ \A off : WaitingAfter(off) <=> Waiting(off)
    BY <2>1, <2>4, LinkFacts DEF Waiting
  <2>6. ASSUME NEW j \in Relas PROVE FinalAfter(j) \/ WaitingAfter(Off(j))
    <3>1. Final(j) \/ Waiting(Off(j))
      BY <1>9, <2>1 DEF KeepInv
    <3> HIDE DEF FinalAfter, WaitingAfter
    <3> QED
      BY <1>2, <2>2, <2>3, <2>5, <3>1
  <2>7. ASSUME NEW j \in Relas, WaitingAfter(Off(j)) PROVE UntouchedAfter(j)
    <3>1. Untouched(j)
      BY <1>9, <2>1, <2>5, <2>7 DEF KeepInv
    <3> QED
      BY <2>1, <2>2, <2>3, <2>4, <3>1 DEF Untouched
  <2>8. Moved'
    <3>1. Moved
      BY <1>9, <2>1 DEF KeepInv
    <3> QED
      BY <1>9, <3>1, MovedStep
  <2> HIDE DEF FinalAfter, WaitingAfter, UntouchedAfter
  <2> QED
    BY <1>1, <1>9, <2>1, <2>6, <2>7, <2>8
<1>10. CASE runs = 0 /\ EndLink
  <2>1. /\ pc = "entry" /\ rel > Head(links).size /\ links' = Tail(links) /\ pc' = "link"
        /\ UNCHANGED <<tab, runs>>
        /\ sh' = [j \in DOMAIN sh |-> IF IsRela(sh[j]) /\ sh[j].offset = Begin
                                        THEN [sh[j] EXCEPT !.size = p - 1] ELSE sh[j]]
    BY <1>10 DEF EndLink
  <2>2. links # <<>> /\ rel \in 1 .. Head(links).size + 1
    BY <2>1 DEF CompactInv, LoopInv
  <2>3. /\ 1 \in 1 .. Len(links) /\ Head(links) = links[1] /\ Begin = links[1].begin
        /\ Head(links).size \in Nat
    BY <2>2, LinkFacts
  <2>4. rel - 1 = links[1].size /\ ndx = Target(Begin) /\ Moved /\ Waiting(Begin)
    <3>1. rel - 1 = links[1].size
      BY <2>1, <2>2, <2>3
    <3>2. Moved
      BY <1>10, <2>1 DEF KeepInv
    <3>3. ndx = Target(Begin)
      BY <2>1 DEF CleanInv
    <3> QED
      BY <2>3, <3>1, <3>2, <3>3 DEF Waiting
  <2>5. ASSUME NEW j \in Relas
        PROVE  IF Off(j) = Begin THEN FinalAfter(j) ELSE sh'[j].size = sh[j].size
    <3>1. j \in DOMAIN sh /\ IsHeader(sh[j]) /\ IsRela(sh[j]) /\ sh[j].offset = Off(j)
      <4>1. Len(input.sh) \in Nat /\ j \in 1 .. Len(input.sh)
        BY FileFacts DEF CompactInv, HeadersInv, Relas
      <4>2. DOMAIN sh = 1 .. Len(input.sh)
        BY <4>1, FunctionIsSeq DEF CompactInv, HeadersInv
      <4> QED
        BY <4>1, <4>2, RelaFacts DEF CompactInv, HeadersInv
    <3>2. Off(j) = Begin => sh'[j].size = p - 1
      BY <2>1, <3>1 DEF IsHeader
    <3>3. Off(j) # Begin => sh'[j] = sh[j]
      BY <2>1, <3>1
    <3>4. ASSUME Off(j) = Begin PROVE FinalAfter(j)
      <4>1. sh[j].size = links[1].size
        BY <2>3, <3>4 DEF ListInv
      <4>2. sh[j].size = Was(j)
        BY <1>10, <2>1, <2>4, <3>4 DEF KeepInv, Untouched
      <4>3. rel - 1 = Was(j) /\ ndx = Target(Off(j)) /\ tab' = tab /\ sh'[j].size = p - 1
        BY <2>1, <2>4, <3>2, <3>4, <4>1, <4>2
      <4> QED
        BY <2>4, <3>4, <4>3 DEF Moved, Ranked
    <3> HIDE DEF FinalAfter
    <3> QED
      BY <3>3, <3>4
  <2> HIDE DEF FinalAfter
  <2> QED
    BY <1>7, <1>10, <2>1, <2>2, <2>5
<1>11. CASE runs = 0 /\ Finish
  <2>1. pc = "link" /\ links = <<>> /\ UNCHANGED <<sh, tab>> /\ runs' = 1 /\ pc' = "done"
    BY <1>11 DEF Finish
  <2>2. ASSUME NEW j \in Relas PROVE FinalAfter(j)
    <3>1. ~Waiting(Off(j))
      BY <2>1 DEF Waiting
    <3>2. Final(j)
      BY <1>11, <2>1, <3>1 DEF KeepInv
    <3> HIDE DEF FinalAfter
    <3> QED
      BY <1>2, <2>1, <3>2
  <2> HIDE DEF FinalAfter, WaitingAfter, UntouchedAfter
  <2> QED
    BY <1>1, <2>1, <2>2
<1>12. CASE runs = 0 /\ UNCHANGED vars
  <2>1. UNCHANGED <<sh, tab, links, pc, ndx, p, rel, runs>>
    BY <1>12 DEF vars
  <2>2. \A j \in Relas : Final(j) => FinalAfter(j)
    <3> HIDE DEF FinalAfter
    <3> QED
      BY <1>2, <2>1
  <2>3. \A j \in Relas : /\ WaitingAfter(Off(j)) <=> Waiting(Off(j))
                         /\ Untouched(j) => UntouchedAfter(j)
    BY <2>1 DEF Waiting, Untouched, Begin
  <2>4. ASSUME Moved PROVE Moved'
    <3>1. /\ \A off, n, e : (Rank(off, n, e))' = Rank(off, n, e)
          /\ \A r, n : (Kept(r, n))' = Kept(r, n)
      BY <1>0, FileIsFixed, RankIsFixed
    <3>2. Begin' = Begin
      BY <2>1 DEF Begin
    <3>3. (Ranked(Begin, ndx, rel - 1))'
      BY <1>0, <2>1, <2>4, <3>1, <3>2 DEF Moved, Ranked
    <3> QED
      BY <1>0, <2>1, <2>4, <3>1, <3>2, <3>3 DEF Moved
  <2> HIDE DEF FinalAfter, WaitingAfter, UntouchedAfter
  <2> QED
    BY <1>1, <1>12, <2>1, <2>2, <2>3, <2>4 DEF KeepInv
<1>13. ~ (runs = 0 /\ Rerun)
  BY DEF Rerun
<1> QED
  BY <1>3, <1>4, <1>5, <1>6, <1>8, <1>9, <1>10, <1>11, <1>12, <1>13 DEF Next

\* ... so the tables are compacted in every run.
LEMMA KeepInvariant == Spec => []((TablesApart => KeepInv) /\ CompactInv /\ RunInv)
<1>1. Init => (TablesApart => KeepInv)
  <2> SUFFICES ASSUME Init PROVE KeepInv
    OBVIOUS
  <2>1. \A j \in Relas : Untouched(j)
    BY DEF Init, Untouched, Was, Relas, Off
  <2> QED
    BY <2>1 DEF Init, KeepInv
<1>2. (TablesApart => KeepInv) /\ CompactInv /\ RunInv /\ [Next]_vars => (TablesApart => KeepInv)'
  <2> SUFFICES ASSUME TablesApart => KeepInv, CompactInv, RunInv, [Next]_vars, TablesApart'
               PROVE  KeepInv'
    OBVIOUS
  <2>1. TablesApart' = TablesApart
    BY DEF Next, Scan, Scanned, NextLink, OneEntry, EndLink, Finish, Rerun, vars, TablesApart
  <2> QED
    BY <2>1, KeepStep DEF RunInv
<1> QED
  BY <1>1, <1>2, RunInvariant, PTL DEF Spec

\* A table with a section of its own is for that section.
LEMMA OwnTarget ==
  ASSUME CompactInv, TablesApart, NamesApart, NEW j \in Relas, NEW t \in Named(j)
  PROVE  Target(Off(j)) = t - 1
<1>1. Len(input.sh) \in Nat /\ DOMAIN input.sh = 1 .. Len(input.sh)
  BY FileFacts DEF CompactInv, HeadersInv
<1>2. Named(j) = {t}
  BY <1>1 DEF Named, NamesApart
<1>3. At(Off(j)) = {j}
  <2>1. \A l \in Relas : input.sh[l].offset = Off(j) => l = j
    BY OneTable DEF Off
  <2> QED
    BY <1>2, <2>1 DEF At, Off
<1>4. Max({j}) = j /\ Max({t}) = t
  <2>1. {j} \in SUBSET (1 .. Len(input.sh)) /\ {t} \in SUBSET (1 .. Len(input.sh))
    BY DEF Relas, Named
  <2> QED
    BY <1>1, <2>1, MaxIsElement
<1> QED
  BY <1>2, <1>3, <1>4 DEF Target

\* For every file whose tables and section names lie apart, a table that has
\* been compacted, once or twice, holds exactly the entries of the original
\* that only the device can apply, in their order.
THEOREM NothingIsLost == Spec => []KeepsWhatDeviceNeeds
<1>1. (TablesApart => KeepInv) /\ CompactInv /\ RunInv => KeepsWhatDeviceNeeds
  <2> SUFFICES ASSUME KeepInv, CompactInv, RunInv, pc = "done", TablesApart, NamesApart,
                      NEW j \in DOMAIN sh, NEW t \in DOMAIN sh,
                      IsRela(sh[j]), sh[t].name = Tail(sh[j].name), t # 1
               PROVE  LET off == sh[j].offset
                          was == input.sh[j].size
                      IN  /\ sh[j].size = Rank(off, t - 1, was)
                          /\ \A e \in 1 .. was : Kept(input.tab[off][e], t - 1) =>
                               tab[off][Rank(off, t - 1, e)] = input.tab[off][e]
    BY DEF KeepsWhatDeviceNeeds
  <2>1. /\ Len(input.sh) \in Nat /\ j \in 1 .. Len(input.sh) /\ t \in 1 .. Len(input.sh)
        /\ j \in Relas /\ t \in Named(j)
    <3>1. Len(input.sh) \in Nat
      BY FileFacts DEF CompactInv, HeadersInv
    <3>2. DOMAIN sh = 1 .. Len(input.sh)
      BY <3>1, FunctionIsSeq DEF CompactInv, HeadersInv
    <3> QED
      BY <3>1, <3>2 DEF Relas, Named, IsRela, CompactInv, HeadersInv
  <2>2. Target(Off(j)) = t - 1 /\ t - 1 # 0
    BY <2>1, OwnTarget
  <2>3. runs \in 1 .. 2
    BY DEF RunInv, CleanInv
  <2>4. Final(j)
    BY <2>1, <2>3 DEF KeepInv
  <2>5. sh[j].offset = Off(j)
    BY <2>1, RelaFacts
  <2> QED
    BY <2>2, <2>4, <2>5 DEF Final, Ranked, Was
<1> QED
  BY <1>1, KeepInvariant, PTL

-----------------------------------------------------------------------------
(* Adding an immediate to a word that has none.                            *)

\* Where there is no immediate yet, putting one in is adding it: a branch or
\* jump.
LEMMA JumpAdds ==
  ASSUME NEW type \in Jumps, NEW w \in SUBSET (0 .. 31), NEW val,
         w \cap ImmediateBits(type) = {}
  PROVE  /\ Encode(type, w, val) = w \cup Immediate32(type, val)
         /\ Immediate32(type, val) \subseteq ImmediateBits(type)
         /\ ImmediateBits(type) \subseteq 0 .. 31
<1>1. CASE type = "JAL"
  <2> DEFINE F == Field(val, 20, 20, 31) \cup Field(val, 10, 1, 21)
                    \cup Field(val, 11, 11, 20) \cup Field(val, 19, 12, 12)
  <2>1. Immediate32(type, val) = F /\ ImmediateBits(type) = 12 .. 31
    BY <1>1 DEF Immediate32, ExtractBits, ImmediateBits, Calls
  <2>2. /\ Field(val, 20, 20, 31) \subseteq 12 .. 31 /\ Field(val, 10, 1, 21) \subseteq 12 .. 31
        /\ Field(val, 11, 11, 20) \subseteq 12 .. 31 /\ Field(val, 19, 12, 12) \subseteq 12 .. 31
    BY FieldBits
  <2>3. \A b : b \in w => b \in 0 .. 11
    BY <2>1
  <2>4. Encode(type, w, val) = w \cup F
    BY <1>1, <2>3, EncodeCases DEF Jal
  <2> QED
    BY <2>1, <2>2, <2>4
<1>2. CASE type = "BRANCH"
  <2> DEFINE F == Field(val, 12, 12, 31) \cup Field(val, 10, 5, 25)
                    \cup Field(val, 4, 1, 8) \cup Field(val, 11, 11, 7)
  <2>1. Immediate32(type, val) = F /\ ImmediateBits(type) = (7 .. 11) \cup (25 .. 31)
    BY <1>2 DEF Immediate32, ExtractBits, ImmediateBits, Calls
  <2>2. /\ Field(val, 12, 12, 31) \subseteq 25 .. 31 /\ Field(val, 10, 5, 25) \subseteq 25 .. 31
        /\ Field(val, 4, 1, 8) \subseteq 7 .. 11 /\ Field(val, 11, 11, 7) \subseteq 7 .. 11
    BY FieldBits
  <2>3. \A b : b \in w => b \in (0 .. 6) \cup (12 .. 24)
    BY <2>1
  <2>4. Encode(type, w, val) = w \cup F
    BY <1>2, <2>3, EncodeCases DEF Branch
  <2> QED
    BY <2>1, <2>2, <2>4
<1>3. CASE type = "RVC_JUMP"
  <2> DEFINE F == Field(val, 11, 11, 12) \cup Field(val, 4, 4, 11) \cup Field(val, 9, 8, 9)
                    \cup Field(val, 10, 10, 8) \cup Field(val, 6, 6, 7) \cup Field(val, 7, 7, 6)
                    \cup Field(val, 3, 1, 3) \cup Field(val, 5, 5, 2)
  <2>1. Immediate32(type, val) = F /\ ImmediateBits(type) = 2 .. 12
    BY <1>3 DEF Immediate32, ExtractBits, ImmediateBits, Calls
  <2>2. /\ Field(val, 11, 11, 12) \subseteq 2 .. 12 /\ Field(val, 4, 4, 11) \subseteq 2 .. 12
        /\ Field(val, 9, 8, 9) \subseteq 2 .. 12 /\ Field(val, 10, 10, 8) \subseteq 2 .. 12
        /\ Field(val, 6, 6, 7) \subseteq 2 .. 12 /\ Field(val, 7, 7, 6) \subseteq 2 .. 12
        /\ Field(val, 3, 1, 3) \subseteq 2 .. 12 /\ Field(val, 5, 5, 2) \subseteq 2 .. 12
    BY FieldBits
  <2>3. \A b : b \in w => b \in {0, 1, 13, 14, 15} \cup Upper
    BY <2>1 DEF Upper
  <2>4. Encode(type, w, val) = w \cup F
    BY <1>3, <2>3, EncodeCases DEF RvcJump
  <2>5. F \subseteq 2 .. 12
    BY <2>2
  <2> HIDE DEF F
  <2> QED
    BY <2>1, <2>4, <2>5
<1>4. CASE type = "RVC_BRANCH"
  <2> DEFINE F == Field(val, 8, 8, 12) \cup Field(val, 4, 3, 10) \cup Field(val, 7, 6, 5)
                    \cup Field(val, 2, 1, 3) \cup Field(val, 5, 5, 2)
  <2>1. Immediate32(type, val) = F /\ ImmediateBits(type) = (2 .. 6) \cup (10 .. 12)
    BY <1>4 DEF Immediate32, ExtractBits, ImmediateBits, Calls
  <2>2. /\ Field(val, 8, 8, 12) \subseteq 10 .. 12 /\ Field(val, 4, 3, 10) \subseteq 10 .. 12
        /\ Field(val, 7, 6, 5) \subseteq 2 .. 6 /\ Field(val, 2, 1, 3) \subseteq 2 .. 6
        /\ Field(val, 5, 5, 2) \subseteq 2 .. 6
    BY FieldBits
  <2>3. \A b : b \in w => b \in {0, 1, 7, 8, 9, 13, 14, 15} \cup Upper
    BY <2>1 DEF Upper
  <2>4. Encode(type, w, val) = w \cup F
    BY <1>4, <2>3, EncodeCases DEF RvcBranch
  <2>5. F \subseteq (2 .. 6) \cup (10 .. 12)
    BY <2>2
  <2> HIDE DEF F
  <2> QED
    BY <2>1, <2>4, <2>5
<1> QED
  BY <1>1, <1>2, <1>3, <1>4 DEF Jumps

\* ... and the two halves of a call, which both sides split alike.
Clear(w, bits) == w \cap bits = {}
LEMMA CallAdds ==
  ASSUME NEW w \in SUBSET (0 .. 31), Clear(w, 12 .. 31),
         NEW v \in SUBSET (0 .. 31), Clear(v, 20 .. 31), NEW val \in Int
  PROVE  /\ Hi20(w, val) = w \cup Field(CalcHi(val), 19, 0, 12)
         /\ Lo12I(v, val) = v \cup Field(val - CalcHi(val) * 4096, 11, 0, 20)
         /\ Field(CalcHi(val), 19, 0, 12) \subseteq 12 .. 31
         /\ Field(val - CalcHi(val) * 4096, 11, 0, 20) \subseteq 20 .. 31
<1> DEFINE h == CalcHi(val)
           x == val + 2048
           F == Field(h, 19, 0, 12)
           G == Field(val - h * 4096, 11, 0, 20)
<1>1. x \in Int /\ h = x \div 4096 /\ h \in Int /\ val - h * 4096 = Lo12(val)
  <2>1. h = x \div 4096 /\ val - h * 4096 = Lo12(val)
    BY SameSplit
  <2> HIDE DEF h
  <2> QED
    BY <2>1
<1>2. \A m \in 0 .. 19 : Shift(h, m) = Shift(x, m + 12)
  <2> HIDE DEF h, x
  <2> DEFINE T == {m \in 0 .. 19 : Shift(h, m) = Shift(x, m + 12)}
  <2>1. 0 \in T
    <3>1. Shift(h, 0) = h
      BY <1>1, Shifts
    <3>2. Shift(x, 12) = x \div 4096
      BY SmallPowers DEF Shift
    <3> QED
      BY <1>1, <3>1, <3>2
  <2>2. ASSUME NEW m \in 0 .. 19 - 1, m \in T PROVE m + 1 \in T
    <3>0. /\ \A n \in 0 .. 30 : Shift(h, n + 1) = Shift(h, n) \div 2
          /\ \A n \in 0 .. 30 : Shift(x, n + 1) = Shift(x, n) \div 2
      BY <1>1, Shifts
    <3>1. Shift(h, m + 1) = Shift(h, m) \div 2
      BY <3>0
    <3>2. m + 12 \in 0 .. 30 /\ (m + 12) + 1 = (m + 1) + 12
      OBVIOUS
    <3>3. Shift(x, (m + 12) + 1) = Shift(x, m + 12) \div 2
      BY <3>0, <3>2
    <3> QED
      BY <2>2, <3>1, <3>2, <3>3
  <2> HIDE DEF T
  <2>3. \A m \in 0 .. 19 : m \in T
    BY <2>1, <2>2, Counting
  <2> QED
    BY <2>3 DEF T
<1>3. F = Field(x, 31, 12, 12) /\ F \subseteq 12 .. 31
  <2> HIDE DEF h, x
  <2>1. \A n : n \in F <=> n \in 12 .. 31 /\ Bit(h, n - 12)
    <3> SUFFICES ASSUME NEW n PROVE n \in F <=> n \in 12 .. 31 /\ Bit(h, n - 12)
      OBVIOUS
    <3>1. n \in F <=> n \in 12 .. 12 + 19 - 0 /\ Bit(h, n - 12 + 0)
      BY FieldBits
    <3> QED
      BY <3>1
  <2>2. \A n : n \in Field(x, 31, 12, 12) <=> n \in 12 .. 31 /\ Bit(x, n)
    <3> SUFFICES ASSUME NEW n PROVE n \in Field(x, 31, 12, 12) <=> n \in 12 .. 31 /\ Bit(x, n)
      OBVIOUS
    <3>1. n \in Field(x, 31, 12, 12) <=> n \in 12 .. 12 + 31 - 12 /\ Bit(x, n - 12 + 12)
      BY FieldBits
    <3> QED
      BY <3>1
  <2>3. \A n \in 12 .. 31 : Bit(h, n - 12) <=> Bit(x, n)
    <3> SUFFICES ASSUME NEW n \in 12 .. 31 PROVE Bit(h, n - 12) <=> Bit(x, n)
      OBVIOUS
    <3>1. n - 12 \in 0 .. 19 /\ (n - 12) + 12 = n
      OBVIOUS
    <3>2. Shift(h, n - 12) = Shift(x, n)
      BY <1>2, <3>1
    <3> QED
      BY <3>2 DEF Bit
  <2> HIDE DEF F
  <2> QED
    BY <2>1, <2>2, <2>3
<1>4. G = Field(Lo12(val), 11, 0, 20) /\ G \subseteq 20 .. 31
  BY <1>1, FieldBits
<1> HIDE DEF h, F, G
<1>5. Hi20(w, val) = w \cup F
  <2>1. w \cap (0 .. 11) = w
    <3>1. \A b \in w : b \in 0 .. 11
      BY DEF Clear
    <3> QED
      BY <3>1
  <2> QED
    BY <1>3, <2>1 DEF Hi20
<1>6. Lo12I(v, val) = v \cup G
  <2>1. v \cap (0 .. 19) = v
    <3>1. \A b \in v : b \in 0 .. 19
      BY DEF Clear
    <3> QED
      BY <3>1
  <2> QED
    BY <1>4, <2>1 DEF Lo12I
<1> QED
  BY <1>3, <1>4, <1>5, <1>6 DEF F, G, h

-----------------------------------------------------------------------------
(* Sections as functions from places to halfwords.                         *)

Images(D) == [D -> SUBSET (0 .. 15)]

\* A word is its two halfwords.
LEMMA WordsOfSections ==
  ASSUME NEW D, NEW m \in Images(D), NEW a \in Int, a \in D
  PROVE  /\ WordAt(m, a) \in SUBSET (0 .. 31) /\ WordAt(m, a) \cap (0 .. 15) = m[a]
         /\ a + 2 \in D => {b - 16 : b \in WordAt(m, a) \ (0 .. 15)} = m[a + 2]
<1> DEFINE w == WordAt(m, a)
<1>1. m[a] \in SUBSET (0 .. 15) /\ DOMAIN m = D /\ (a + 2 \in D => m[a + 2] \in SUBSET (0 .. 15))
  BY DEF Images
<1>2. CASE a + 2 \in D
  <2> DEFINE h == m[a + 2]
             u == {b + 16 : b \in h}
  <2>1. w = m[a] \cup u
    BY <1>1, <1>2 DEF WordAt
  <2>2. h \in SUBSET (0 .. 15)
    BY <1>1, <1>2
  <2> HIDE DEF h, w
  <2>3. \A b \in u : b \in 16 .. 31 /\ b - 16 \in h
    BY <2>2
  <2>4. \A b \in h : b + 16 \in u /\ (b + 16) - 16 = b /\ b + 16 \notin 0 .. 15
    BY <2>2
  <2> HIDE DEF u
  <2>5. \A b : b \in w \ (0 .. 15) <=> b \in u
    BY <1>1, <2>1, <2>3
  <2>6. {b - 16 : b \in w \ (0 .. 15)} = h
    BY <2>3, <2>4, <2>5
  <2>7. \A b : b \in w \cap (0 .. 15) <=> b \in m[a]
    BY <1>1, <2>1, <2>3
  <2>8. \A b \in w : b \in 0 .. 31
    BY <1>1, <2>1, <2>3
  <2> QED
    BY <2>6, <2>7, <2>8 DEF h, w
<1>3. CASE a + 2 \notin D
  <2>1. w = m[a]
    BY <1>1, <1>3 DEF WordAt
  <2> HIDE DEF w
  <2>2. \A b \in w : b \in 0 .. 31 /\ b \in 0 .. 15
    BY <1>1, <2>1
  <2> QED
    BY <1>3, <2>1, <2>2 DEF w
<1> QED
  BY <1>2, <1>3

\* Storing a word replaces two halfwords.
LEMMA StoreFacts ==
  ASSUME NEW D, NEW m \in Images(D), NEW a \in Int, a \in D, NEW u \in SUBSET (0 .. 31)
  PROVE  /\ Store(m, a, u) \in Images(D) /\ Store(m, a, u)[a] = u \cap (0 .. 15)
         /\ a + 2 \in D => Store(m, a, u)[a + 2] = {b - 16 : b \in u \ (0 .. 15)}
         /\ \A c \in D : c # a /\ c # a + 2 => Store(m, a, u)[c] = m[c]
<1> DEFINE low == u \cap (0 .. 15)
           high == {b - 16 : b \in u \ (0 .. 15)}
           s == [m EXCEPT ![a] = low, ![a + 2] = high]
<1>1. low \in SUBSET (0 .. 15)
  OBVIOUS
<1>2. \A b \in high : b \in 0 .. 15
  OBVIOUS
<1>3. Store(m, a, u) = s
  BY DEF Store
<1>4. a + 2 # a /\ DOMAIN m = D
  BY DEF Images
<1> HIDE DEF low, high
<1>5. s \in Images(D) /\ s[a] = low /\ (a + 2 \in D => s[a + 2] = high)
      /\ \A c \in D : c # a /\ c # a + 2 => s[c] = m[c]
  BY <1>1, <1>2, <1>4 DEF Images
<1> HIDE DEF s
<1> QED
  BY <1>3, <1>5 DEF low, high

\* Two sections with the same halfwords are the same.
LEMMA SameImage ==
  ASSUME NEW D, NEW m \in Images(D), NEW n \in Images(D), \A c \in D : m[c] = n[c]
  PROVE  m = n
BY DEF Images

\* The tool's addition stores both values as one where they do not overlap.
LEMMA AddIsStore ==
  ASSUME NEW D, NEW m \in Images(D), NEW a \in Int, a \in D, NEW v \in SUBSET (0 .. 31),
         WordAt(m, a) \cap v = {}
  PROVE  _add_val(m, a, v) = Store(m, a, WordAt(m, a) \cup v)
<1> DEFINE w == WordAt(m, a)
           x == w \cup v
           vh == {b - 16 : b \in v \ (0 .. 15)}
           lo == NatOf(m[a], 16) + NatOf(v, 16)
           hi == NatOf(m[a + 2], 16) + NatOf(vh, 16) + lo \div 65536
<1>1. w \in SUBSET (0 .. 31) /\ w \cap (0 .. 15) = m[a]
      /\ (a + 2 \in D => {b - 16 : b \in w \ (0 .. 15)} = m[a + 2])
  BY WordsOfSections
<1>2. m[a] \in SUBSET (0 .. 15) /\ DOMAIN m = D /\ (a + 2 \in D => m[a + 2] \in SUBSET (0 .. 15))
      /\ a + 2 # a
  BY DEF Images
<1>3. 16 \in 0 .. 31 /\ 16 - 1 = 15
  OBVIOUS
<1>4. Field(lo, 15, 0, 0) = x \cap (0 .. 15) /\ lo \div 65536 = 0
  <2> DEFINE c == x \cap (0 .. 15)
  <2>1. c \in SUBSET (0 .. 15)
    OBVIOUS
  <2>2. \A b \in 0 .. 16 - 1 : (b \in c <=> b \in m[a] \/ b \in v) /\ ~(b \in m[a] /\ b \in v)
    BY <1>1
  <2> HIDE DEF c, x
  <2>3. NatOf(c, 16) = lo
    BY <1>3, <2>2, SumDisjoint
  <2> HIDE DEF lo
  <2> QED
    BY <2>1, <2>3, HalfAndBack DEF c
<1>5. CASE a + 2 \in D
  <2> DEFINE c == {b - 16 : b \in x \ (0 .. 15)}
             h == m[a + 2]
  <2>1. \A b \in c : b \in 0 .. 15
    <3>1. \A d \in x : d \in 0 .. 31
      BY <1>1
    <3> HIDE DEF x
    <3> QED
      BY <3>1
  <2>2. \A b : b \in h <=> \E d \in w \ (0 .. 15) : b = d - 16
    BY <1>1, <1>5
  <2>3. \A b \in 0 .. 16 - 1 : (b \in c <=> b \in h \/ b \in vh) /\ ~(b \in h /\ b \in vh)
    <3> SUFFICES ASSUME NEW b \in 0 .. 16 - 1
                 PROVE  (b \in c <=> b \in h \/ b \in vh) /\ ~(b \in h /\ b \in vh)
      OBVIOUS
    <3> DEFINE d == b + 16
    <3>1. \A e \in 0 .. 31 : b = e - 16 <=> e = d
      OBVIOUS
    <3>2. d \in 0 .. 31 /\ d \notin 0 .. 15
      OBVIOUS
    <3> HIDE DEF d
    <3>3. (b \in h <=> d \in w) /\ (b \in vh <=> d \in v)
      <4> HIDE DEF w, h
      <4>1. b \in h <=> d \in w
        BY <1>1, <2>2, <3>1, <3>2
      <4>2. b \in vh <=> d \in v
        BY <3>1, <3>2
      <4> QED
        BY <4>1, <4>2
    <3>4. b \in c <=> d \in w \/ d \in v
      <4> HIDE DEF w
      <4> QED
        BY <1>1, <3>1, <3>2
    <3>5. ~(d \in w /\ d \in v)
      OBVIOUS
    <3> HIDE DEF w, h, c, vh
    <3> QED
      BY <3>3, <3>4, <3>5
  <2> HIDE DEF c, h, vh, x, w
  <2>4. NatOf(c, 16) = NatOf(h, 16) + NatOf(vh, 16)
    BY <1>3, <2>3, SumDisjoint
  <2>5. c \in SUBSET (0 .. 15)
    BY <2>1
  <2>6. Field(NatOf(c, 16), 15, 0, 0) = c /\ NatOf(c, 16) \in Int
    BY <2>5, HalfAndBack
  <2>7. hi = NatOf(c, 16) + 0
    <3> HIDE DEF lo
    <3> QED
      BY <1>4, <2>4 DEF h
  <2>8. Field(hi, 15, 0, 0) = c
    <3> HIDE DEF hi
    <3> QED
      BY <2>6, <2>7
  <2> DEFINE Halves(y, z) == [m EXCEPT ![a] = y, ![a + 2] = z]
  <2>9. _add_val(m, a, v) = Halves(Field(lo, 15, 0, 0), Field(hi, 15, 0, 0))
    BY DEF _add_val, vh
  <2>10. Store(m, a, x) = Halves(x \cap (0 .. 15), c)
    BY DEF Store, c
  <2> HIDE DEF lo, hi, Halves
  <2> QED
    <3>1. _add_val(m, a, v) = Store(m, a, x)
      BY <1>4, <2>8, <2>9, <2>10
    <3> QED
      BY <3>1 DEF x, w
<1>6. CASE a + 2 \notin D
  <2> DEFINE Halves(y, z) == [m EXCEPT ![a] = y, ![a + 2] = z]
             c == {b - 16 : b \in x \ (0 .. 15)}
  <2>1. _add_val(m, a, v) = Halves(Field(lo, 15, 0, 0), Field(hi, 15, 0, 0))
    BY DEF _add_val
  <2>2. Store(m, a, x) = Halves(x \cap (0 .. 15), c)
    BY DEF Store
  <2>3. \A y, z, u : Halves(y, z) = Halves(y, u)
    BY <1>2, <1>6 DEF Images
  <2> HIDE DEF lo, hi, c, x, Halves
  <2> QED
    <3>1. _add_val(m, a, v) = Store(m, a, x)
      BY <1>4, <2>1, <2>2, <2>3
    <3> QED
      BY <3>1 DEF x
<1> QED
  BY <1>5, <1>6

\* One instruction encoded: what comes of it depends on its halfwords only.
Encoding(m, a, type, x) == Store(m, a, Encode(type, WordAt(m, a), x))
LEMMA EncodedLocal ==
  ASSUME NEW D, NEW m \in Images(D), NEW n \in Images(D), NEW a \in Int, a \in D, NEW type, NEW x,
         m[a] = n[a], type \notin Rvc => a + 2 \in D /\ m[a + 2] = n[a + 2]
  PROVE  /\ Encoding(m, a, type, x) \in Images(D)
         /\ Encoding(m, a, type, x)[a] = Encoding(n, a, type, x)[a]
         /\ type \notin Rvc => Encoding(m, a, type, x)[a + 2] = Encoding(n, a, type, x)[a + 2]
         /\ \A c \in D : c # a /\ (type \notin Rvc => c # a + 2) => Encoding(m, a, type, x)[c] = m[c]
<1> DEFINE w == WordAt(m, a)
           u == WordAt(n, a)
           f == Encode(type, w, x)
           g == Encode(type, u, x)
           s == Store(m, a, f)
           t == Store(n, a, g)
<1>1. /\ w \in SUBSET (0 .. 31) /\ w \cap (0 .. 15) = m[a]
      /\ a + 2 \in D => {b - 16 : b \in w \ (0 .. 15)} = m[a + 2]
  BY WordsOfSections
<1>2. u \in SUBSET (0 .. 31) /\ u \cap (0 .. 15) = n[a]
  BY WordsOfSections
<1>3. Encoding(m, a, type, x) = s /\ Encoding(n, a, type, x) = t
  BY DEF Encoding
<1>4. DOMAIN m = D /\ DOMAIN n = D
  BY DEF Images
<1>5. type \notin Rvc => w = u
  BY <1>4 DEF WordAt
<1> HIDE DEF w, u
<1>6. f \in SUBSET (0 .. 31) /\ g \in SUBSET (0 .. 31)
  BY <1>1, <1>2, EncodeWithin
<1> HIDE DEF f, g
<1>7. /\ s \in Images(D) /\ s[a] = f \cap (0 .. 15)
      /\ a + 2 \in D => s[a + 2] = {b - 16 : b \in f \ (0 .. 15)}
      /\ \A c \in D : c # a /\ c # a + 2 => s[c] = m[c]
  BY <1>6, StoreFacts
<1>8. /\ t[a] = g \cap (0 .. 15)
      /\ a + 2 \in D => t[a + 2] = {b - 16 : b \in g \ (0 .. 15)}
  BY <1>6, StoreFacts
<1> HIDE DEF s, t
<1>9. s[a] = t[a] /\ (type \notin Rvc => s[a + 2] = t[a + 2])
  <2>1. CASE type \notin Rvc
    <3>1. f = g
      BY <1>5, <2>1 DEF f, g
    <3> QED
      BY <1>7, <1>8, <2>1, <3>1
  <2>2. CASE type \in Rvc
    <3>1. f \cap (0 .. 15) = g \cap (0 .. 15)
      BY <1>1, <1>2, <2>2, RvcLocal DEF f, g
    <3> QED
      BY <1>7, <1>8, <2>2, <3>1
  <2> QED
    BY <2>1, <2>2
<1>10. \A c \in D : c # a /\ (type \notin Rvc => c # a + 2) => s[c] = m[c]
  <2>1. CASE type \notin Rvc
    BY <1>7, <2>1
  <2>2. CASE type \in Rvc
    <3>1. f \ (0 .. 15) = w \ (0 .. 15)
      BY <1>1, <1>2, <2>2, RvcLocal DEF f
    <3>2. a + 2 \in D => s[a + 2] = m[a + 2]
      BY <1>1, <1>7, <3>1
    <3> QED
      BY <1>7, <2>2, <3>2
  <2> QED
    BY <2>1, <2>2
<1> QED
  BY <1>3, <1>7, <1>9, <1>10

\* What entry r makes of section m, when x is the value to encode, and y the
\* one for the second instruction of a call.
Made(r, m, x, y) ==
  IF r.type \in Calls
    THEN Encoding(Encoding(m, r.offset, "PCREL_HI20", x), r.offset + 4, "PCREL_LO12_I", y)
    ELSE Encoding(m, r.offset, r.type, x)

\* It changes only what the entry covers, by what is there.
Agree(m, n, places) == \A c \in places : m[c] = n[c]
LEMMA MadeLocal ==
  ASSUME NEW D, NEW m \in Images(D), NEW n \in Images(D), NEW r, r.offset \in Int,
         Cover(r) \subseteq D, Agree(m, n, Cover(r)), NEW x, NEW y
  PROVE  /\ Made(r, m, x, y) \in Images(D)
         /\ \A c \in D : c \notin Cover(r) => Made(r, m, x, y)[c] = m[c]
         /\ \A c \in Cover(r) : Made(r, m, x, y)[c] = Made(r, n, x, y)[c]
<1> DEFINE a == r.offset
<1>0. \A c \in Cover(r) : m[c] = n[c]
  BY DEF Agree
<1>1. a \in Int /\ a + 4 \in Int /\ a \in D /\ m[a] = n[a]
  BY <1>0 DEF Cover
<1>2. CASE r.type \in Calls
  <2> DEFINE HI == "PCREL_HI20"
             LO == "PCREL_LO12_I"
             m1 == Encoding(m, a, HI, x)
             n1 == Encoding(n, a, HI, x)
             m2 == Encoding(m1, a + 4, LO, y)
             n2 == Encoding(n1, a + 4, LO, y)
  <2>1. HI \notin Rvc /\ LO \notin Rvc /\ r.type \notin Rvc /\ (a + 4) + 2 = a + 6
    BY <1>1, <1>2 DEF Rvc, Calls
  <2>2. Cover(r) = {a, a + 2, a + 4, a + 6}
    BY <1>2, <2>1 DEF Cover, Rvc
  <2>3. Made(r, m, x, y) = m2 /\ Made(r, n, x, y) = n2
    BY <1>2 DEF Made
  <2>4. /\ a + 2 \in D /\ a + 4 \in D /\ a + 6 \in D
        /\ m[a + 2] = n[a + 2] /\ m[a + 4] = n[a + 4] /\ m[a + 6] = n[a + 6]
        /\ a + 4 # a /\ a + 4 # a + 2 /\ a + 6 # a /\ a + 6 # a + 2
        /\ a + 2 # a + 4 /\ a + 2 # a + 6
    BY <1>0, <1>1, <2>2
  <2> HIDE DEF a, HI, LO
  <2>5. /\ m1 \in Images(D) /\ m1[a] = n1[a] /\ m1[a + 2] = n1[a + 2]
        /\ \A c \in D : c # a /\ c # a + 2 => m1[c] = m[c]
    BY <1>1, <2>1, <2>4, EncodedLocal
  <2>6. n1 \in Images(D) /\ \A c \in D : c # a /\ c # a + 2 => n1[c] = n[c]
    BY <1>1, <2>1, <2>4, EncodedLocal
  <2>7. m1[a + 4] = n1[a + 4] /\ m1[a + 6] = n1[a + 6]
    BY <2>4, <2>5, <2>6
  <2> HIDE DEF m1, n1
  <2>8. /\ m2 \in Images(D) /\ m2[a + 4] = n2[a + 4] /\ m2[a + 6] = n2[a + 6]
        /\ \A c \in D : c # a + 4 /\ c # a + 6 => m2[c] = m1[c]
    BY <1>1, <2>1, <2>4, <2>5, <2>6, <2>7, EncodedLocal
  <2>9. \A c \in D : c # a + 4 /\ c # a + 6 => n2[c] = n1[c]
    BY <1>1, <2>1, <2>4, <2>5, <2>6, <2>7, EncodedLocal
  <2> HIDE DEF m2, n2
  <2>10. \A c \in D : c \notin Cover(r) => m2[c] = m[c]
    BY <2>2, <2>5, <2>8
  <2>11. \A c \in Cover(r) : m2[c] = n2[c]
    <3>1. m2[a] = n2[a] /\ m2[a + 2] = n2[a + 2]
      BY <1>1, <2>4, <2>5, <2>8, <2>9
    <3> QED
      BY <2>2, <2>8, <3>1
  <2> QED
    BY <2>3, <2>8, <2>10, <2>11
<1>3. CASE r.type \notin Calls
  <2> DEFINE type == r.type
             m1 == Encoding(m, a, type, x)
             n1 == Encoding(n, a, type, x)
  <2>1. Made(r, m, x, y) = m1 /\ Made(r, n, x, y) = n1
    BY <1>3 DEF Made
  <2>2. Cover(r) = IF type \in Rvc THEN {a} ELSE {a, a + 2}
    BY <1>3 DEF Cover, Rvc
  <2>3. type \notin Rvc => a + 2 \in D /\ m[a + 2] = n[a + 2]
    BY <1>0, <2>2
  <2> HIDE DEF a, type
  <2>4. /\ m1 \in Images(D) /\ m1[a] = n1[a] /\ (type \notin Rvc => m1[a + 2] = n1[a + 2])
        /\ \A c \in D : c # a /\ (type \notin Rvc => c # a + 2) => m1[c] = m[c]
    BY <1>1, <2>3, EncodedLocal
  <2> HIDE DEF m1, n1
  <2> QED
    BY <2>1, <2>2, <2>4
<1> QED
  BY <1>2, <1>3

\* The word four bytes on is not touched.
LEMMA NextWord ==
  ASSUME NEW D, NEW m \in Images(D), NEW a \in Int, a \in D, a + 2 \in D, a + 4 \in D, a + 6 \in D,
         NEW u \in SUBSET (0 .. 31)
  PROVE  WordAt(Store(m, a, u), a + 4) = WordAt(m, a + 4)
<1>1. a + 4 # a /\ a + 4 # a + 2 /\ a + 6 # a /\ a + 6 # a + 2 /\ (a + 4) + 2 = a + 6
  OBVIOUS
<1> DEFINE s == Store(m, a, u)
<1> HIDE DEF s
<1>2. s \in Images(D) /\ \A c \in D : c # a /\ c # a + 2 => s[c] = m[c]
  <2>1. Store(m, a, u) \in Images(D)
    BY StoreFacts
  <2>2. \A c \in D : c # a /\ c # a + 2 => Store(m, a, u)[c] = m[c]
    BY StoreFacts
  <2> QED
    BY <2>1, <2>2 DEF s
<1>3. s[a + 4] = m[a + 4] /\ s[a + 6] = m[a + 6] /\ DOMAIN s = D /\ DOMAIN m = D
  BY <1>1, <1>2 DEF Images
<1>4. WordAt(s, a + 4) = WordAt(m, a + 4)
  BY <1>1, <1>3 DEF WordAt
<1> QED
  BY <1>4 DEF s

\* The tool makes of blank code what the encoder makes of it.
LEMMA PatchIsMade ==
  ASSUME NEW D, NEW m \in Images(D), NEW r, r.type \in Applied, r.offset \in Int, r.addend \in Int,
         Cover(r) \subseteq D, Blank(m, r), NEW value \in Int,
         NEW d \in Int, d = value + r.addend - r.offset
  PROVE  Patch(m, r, value) = Made(r, m, d, d)
<1> DEFINE a == r.offset
           w == WordAt(m, a)
<1>1. a \in Int /\ a + 4 \in Int /\ a \in D /\ w \in SUBSET (0 .. 31)
  BY WordsOfSections DEF Cover
<1>2. CASE r.type \in Calls
  <2> DEFINE F == Field(CalcHi(d), 19, 0, 12)
             G == Field(d - CalcHi(d) * 4096, 11, 0, 20)
             m1 == _add_val(m, a, F)
             v == WordAt(m, a + 4)
  <2>1. Patch(m, r, value) = _add_val(m1, a + 4, G)
    BY <1>2 DEF Patch
  <2>2. a + 2 \in D /\ a + 4 \in D /\ a + 6 \in D
    BY <1>2 DEF Cover, Rvc, Calls
  <2>3. w \cap (12 .. 31) = {} /\ v \cap (20 .. 31) = {}
    <3>1. ImmediateBits(r.type) = 12 .. 31
      BY <1>2 DEF ImmediateBits, Calls
    <3> QED
      BY <1>2, <3>1 DEF Blank
  <2>4. v \in SUBSET (0 .. 31)
    BY <1>1, <2>2, WordsOfSections
  <2>5. /\ Hi20(w, d) = w \cup F /\ Lo12I(v, d) = v \cup G
        /\ F \subseteq 12 .. 31 /\ G \subseteq 20 .. 31
    <3> HIDE DEF w, v
    <3>1. Clear(w, 12 .. 31) /\ Clear(v, 20 .. 31)
      BY <2>3 DEF Clear
    <3> QED
      BY <1>1, <2>4, <3>1, CallAdds
  <2> HIDE DEF F, G
  <2>6. \A b \in 12 .. 31 : b \in 0 .. 31
    OBVIOUS
  <2>7. F \in SUBSET (0 .. 31) /\ G \in SUBSET (0 .. 31) /\ w \cap F = {} /\ v \cap G = {}
    <3>1. \A b \in 20 .. 31 : b \in 12 .. 31
      OBVIOUS
    <3> HIDE DEF w, v
    <3> QED
      BY <2>3, <2>5, <2>6, <3>1
  <2>8. m1 = Store(m, a, w \cup F)
    BY <1>1, <2>7, AddIsStore
  <2>9. w \cup F \in SUBSET (0 .. 31)
    <3> HIDE DEF w
    <3> QED
      BY <1>1, <2>7
  <2>10. WordAt(m1, a + 4) = v /\ m1 \in Images(D)
    <3> DEFINE u == w \cup F
    <3> HIDE DEF u, m1, a
    <3>1. WordAt(Store(m, a, u), a + 4) = WordAt(m, a + 4) /\ Store(m, a, u) \in Images(D)
      BY <1>1, <2>2, <2>9, NextWord, StoreFacts DEF u
    <3> QED
      BY <2>8, <3>1 DEF u, a
  <2>11. _add_val(m1, a + 4, G) = Store(m1, a + 4, v \cup G)
    <3> HIDE DEF m1, a, v
    <3> QED
      BY <1>1, <2>2, <2>7, <2>10, AddIsStore
  <2>12. m1 = Encoding(m, a, "PCREL_HI20", d)
    <3>1. Encode("PCREL_HI20", w, d) = Hi20(w, d)
      BY EncodeCases DEF Hi20Types
    <3> QED
      BY <2>5, <2>8, <3>1 DEF Encoding
  <2>13. Store(m1, a + 4, v \cup G) = Encoding(m1, a + 4, "PCREL_LO12_I", d)
    <3>1. Encode("PCREL_LO12_I", v, d) = Lo12I(v, d)
      BY EncodeCases DEF Lo12ITypes
    <3> HIDE DEF m1, v
    <3> QED
      BY <2>5, <2>10, <3>1 DEF Encoding
  <2> HIDE DEF m1, v, w
  <2> QED
    BY <1>2, <2>1, <2>11, <2>12, <2>13 DEF Made
<1>3. CASE r.type \notin Calls
  <2> DEFINE F == Immediate32(r.type, d)
  <2>1. r.type \in Jumps
    BY <1>3 DEF Applied, Jumps
  <2>2. w \cap ImmediateBits(r.type) = {}
    BY DEF Blank
  <2>3. /\ Encode(r.type, w, d) = w \cup F /\ F \subseteq ImmediateBits(r.type)
        /\ ImmediateBits(r.type) \subseteq 0 .. 31
    <3> DEFINE type == r.type
    <3> HIDE DEF w, type
    <3> QED
      BY <1>1, <2>1, <2>2, JumpAdds DEF type
  <2>4. Patch(m, r, value) = _add_val(m, a, F)
    BY <1>3 DEF Patch
  <2>5. F \in SUBSET (0 .. 31) /\ w \cap F = {}
    <3> HIDE DEF w, F
    <3> QED
      BY <2>2, <2>3
  <2>6. _add_val(m, a, F) = Store(m, a, w \cup F)
    <3> HIDE DEF F
    <3> QED
      BY <1>1, <2>5, AddIsStore
  <2>7. Made(r, m, d, d) = Store(m, a, Encode(r.type, w, d))
    BY <1>3 DEF Made, Encoding
  <2> QED
    BY <2>3, <2>4, <2>6, <2>7
<1> QED
  BY <1>2, <1>3

\* The values the device encodes, for a symbol at addr and a section at base.
First(r, base, addr) ==
  IF r.type \in Calls THEN Val("PCREL_HI20", base + r.offset, addr, 0)
  ELSE Val(r.type, base + r.offset, addr, r.addend)
Second(r, base, addr) == Val("PCREL_LO12_I", base + r.offset + 4, addr + 4, 0)

\* The device's whole step is the encoder's at the place of the entry.
LEMMA DeviceIsMade ==
  ASSUME NEW D, NEW m \in Images(D), NEW r, r.type \notin Skipped, r.offset \in Int,
         Cover(r) \subseteq D, NEW f, NEW bs, NEW base, NEW addr, addr = Resolve(f, r, bs)
  PROVE  OnDevice(f, r, m, bs, base) = Made(r, m, First(r, base, addr), Second(r, base, addr))
<1> DEFINE a == r.offset
           w == [o \in {0, 4} |-> WordAt(m, a + o)]
           u == esp_elf_arch_relocate(w, r.type, 0, base + a, addr, r.addend)
           x == First(r, base, addr)
           y == Second(r, base, addr)
<1>1. w[0] = WordAt(m, a) /\ w[4] = WordAt(m, a + 4) /\ a \in D
  BY DEF Cover
<1>2. OnDevice(f, r, m, bs, base) =
        IF r.type \in Calls THEN Store(Store(m, a, u[0]), a + 4, u[4]) ELSE Store(m, a, u[0])
  BY DEF OnDevice
<1>3. CASE r.type \in Calls
  <2>1. u = Call(w, 0, base + a, addr)
    BY <1>3 DEF esp_elf_arch_relocate
  <2>2. u = [w EXCEPT ![0] = Encode("PCREL_HI20", @, x), ![0 + 4] = Encode("PCREL_LO12_I", @, y)]
    BY <1>3, <2>1 DEF Call, First, Second
  <2> DEFINE e == Encode("PCREL_HI20", WordAt(m, a), x)
             g == Encode("PCREL_LO12_I", WordAt(m, a + 4), y)
  <2>3. u[0] = e /\ u[4] = g
    <3> HIDE DEF u, x, y
    <3> QED
      BY <1>1, <2>2
  <2>4. a + 2 \in D /\ a + 4 \in D /\ a + 6 \in D
    BY <1>3 DEF Cover, Rvc, Calls
  <2>5. WordAt(m, a) \in SUBSET (0 .. 31)
    BY <1>1, WordsOfSections
  <2>6. e \in SUBSET (0 .. 31)
    BY <2>5, EncodeWithin
  <2>7. WordAt(Store(m, a, e), a + 4) = WordAt(m, a + 4)
    <3> HIDE DEF e
    <3> QED
      BY <1>1, <2>4, <2>6, NextWord
  <2>8. Made(r, m, x, y) = Store(Store(m, a, e), a + 4, g)
    <3> HIDE DEF x, y
    <3> QED
      BY <1>3, <2>7 DEF Made, Encoding
  <2> HIDE DEF u, e, g
  <2> QED
    BY <1>2, <1>3, <2>3, <2>8
<1>4. CASE r.type \notin Calls
  <2>1. u = [w EXCEPT ![0] = Encode(r.type, @, x)]
    BY <1>4 DEF esp_elf_arch_relocate, First
  <2>2. u[0] = Encode(r.type, WordAt(m, a), x)
    <3> HIDE DEF u, x
    <3> QED
      BY <1>1, <2>1
  <2> HIDE DEF u
  <2> QED
    BY <1>2, <1>4, <2>2 DEF Made, Encoding
<1> QED
  BY <1>3, <1>4

\* For an entry of a symbol in its own section these are the distance, wherever
\* the section is.
LEMMA SameDistance ==
  ASSUME NEW r, r.type \in Applied, r.offset \in Int, r.addend \in Int,
         r.type \in Calls => r.addend = 0, NEW base \in Int, NEW value \in Int
  PROVE  /\ First(r, base, base + value) = value + r.addend - r.offset
         /\ r.type \in Calls => Second(r, base, base + value) = value + r.addend - r.offset
<1>1. r.type \in PcRelative /\ "PCREL_HI20" \in PcRelative /\ "PCREL_LO12_I" \in PcRelative
  BY DEF Applied, Calls, PcRelative
<1> QED
  BY <1>1 DEF First, Second, Val

-----------------------------------------------------------------------------
(* The device's image of a section, entry by entry.                        *)

Loads(f, table, N, half, bs, base, g) ==
  g = [n \in 0 .. N |-> IF n = 0 THEN half ELSE OnDevice(f, table[n], g[n - 1], bs, base)]

\* There is a function that satisfies the recursion of LoadedSection.
LEMMA LoadsExist ==
  ASSUME NEW f, NEW table, NEW N \in Nat, NEW half, NEW bs, NEW base
  PROVE  \E g : Loads(f, table, N, half, bs, base, g)
<1> DEFINE T == {m \in 0 .. N : \E g : Loads(f, table, m, half, bs, base, g)}
           D(n, m) == OnDevice(f, table[n], m, bs, base)
<1> HIDE DEF D
<1>1. 0 \in T
  <2> DEFINE g == [n \in 0 .. 0 |-> half]
  <2>1. g = [n \in 0 .. 0 |-> IF n = 0 THEN half ELSE D(n, g[n - 1])]
    OBVIOUS
  <2>2. Loads(f, table, 0, half, bs, base, g)
    BY <2>1 DEF Loads, D
  <2> QED
    BY <2>2
<1>2. ASSUME NEW m \in 0 .. N - 1, m \in T PROVE m + 1 \in T
  <2>1. PICK g : Loads(f, table, m, half, bs, base, g)
    BY <1>2
  <2> DEFINE u == [n \in 0 .. m + 1 |-> IF n = m + 1 THEN D(m + 1, g[m]) ELSE g[n]]
  <2>2. \A n \in 0 .. m : g[n] = IF n = 0 THEN half ELSE D(n, g[n - 1])
    BY <2>1 DEF Loads, D
  <2>3. \A n \in 0 .. m + 1 : u[n] = IF n = 0 THEN half ELSE D(n, u[n - 1])
    BY <2>2
  <2>4. u = [n \in 0 .. m + 1 |-> IF n = 0 THEN half ELSE D(n, u[n - 1])]
    BY <2>3
  <2>5. Loads(f, table, m + 1, half, bs, base, u)
    <3> HIDE DEF u
    <3> QED
      BY <2>4 DEF Loads, D
  <2> QED
    BY <2>5
<1> HIDE DEF T
<1>3. \A m \in 0 .. N : m \in T
  BY <1>1, <1>2, Counting
<1> QED
  BY <1>3 DEF T

\* LoadedSection is the last of these images.
LEMMA LoadedUnfolds ==
  ASSUME NEW f, NEW j, NEW t, NEW bs, NEW N \in Nat, N = f.sh[j].size,
         NEW table, table = f.tab[f.sh[j].offset]
  PROVE  \E g : /\ LoadedSection(f, j, t, bs) = g[N] /\ g[0] = f.sh[t].half
                /\ \A n \in 0 .. N - 1 : g[n + 1] = OnDevice(f, table[n + 1], g[n], bs, bs[t])
<1> DEFINE g == CHOOSE h : Loads(f, table, N, f.sh[t].half, bs, bs[t], h)
           D(n, m) == OnDevice(f, table[n], m, bs, bs[t])
<1>1. Loads(f, table, N, f.sh[t].half, bs, bs[t], g)
  BY LoadsExist
<1>2. LoadedSection(f, j, t, bs) = g[N]
  BY DEF LoadedSection, Loads
<1> HIDE DEF g, D
<1>3. \A n \in 0 .. N : g[n] = IF n = 0 THEN f.sh[t].half ELSE D(n, g[n - 1])
  BY <1>1 DEF Loads, D
<1>4. g[0] = f.sh[t].half /\ \A n \in 0 .. N - 1 : g[n + 1] = D(n + 1, g[n])
  BY <1>3
<1> QED
  BY <1>2, <1>4 DEF D

\* T is a table of N entries for a section with places D.  The device skips the
\* entries of S; those of A have their places for themselves.
OwnPlaces(D, T, N, A, S) ==
  /\ A \in SUBSET (1 .. N) /\ S \in SUBSET (1 .. N) /\ \A e \in A : e \notin S
  /\ \A e \in (1 .. N) \ S : T[e].offset \in Int /\ Cover(T[e]) \subseteq D
  /\ \A e \in A, d \in (1 .. N) \ S : d # e => \A a \in Cover(T[e]) : a \notin Cover(T[d])

\* x and y being the values encoded, h is m with the entries of A applied ...
Ahead(D, T, A, x, y, m, h) ==
  /\ \A e \in A : \A a \in Cover(T[e]) : h[a] = Made(T[e], m, x[e], y[e])[a]
  /\ \A a \in D : (\A e \in A : a \notin Cover(T[e])) => h[a] = m[a]

\* ... and g are the images after each entry, when all but those of S are applied.
Follows(D, T, N, S, x, y, g) ==
  \A n \in 0 .. N - 1 : g[n] \in Images(D) =>
    g[n + 1] = IF n + 1 \in S THEN g[n] ELSE Made(T[n + 1], g[n], x[n + 1], y[n + 1])

\* Loading m with every entry, and h, where the entries of A have been applied
\* already, with the others, gives the same.
LEMMA SameInTheEnd ==
  ASSUME NEW D, NEW N \in Nat, NEW T, NEW A, NEW S, OwnPlaces(D, T, N, A, S),
         NEW x, NEW y, NEW m \in Images(D), NEW h \in Images(D), Ahead(D, T, A, x, y, m, h),
         NEW g, g[0] = m, Follows(D, T, N, S, x, y, g),
         NEW l, l[0] = h, Follows(D, T, N, S \cup A, x, y, l)
  PROVE  g[N] = l[N]
<1>1. /\ A \in SUBSET (1 .. N) /\ S \in SUBSET (1 .. N)
      /\ \A e \in A : e \notin S
      /\ \A e \in (1 .. N) \ S : T[e].offset \in Int /\ Cover(T[e]) \subseteq D
      /\ \A e \in A, d \in (1 .. N) \ S : d # e => \A a \in Cover(T[e]) : a \notin Cover(T[d])
  BY DEF OwnPlaces
<1>2. /\ \A e \in A : \A a \in Cover(T[e]) : h[a] = Made(T[e], m, x[e], y[e])[a]
      /\ \A a \in D : (\A e \in A : a \notin Cover(T[e])) => h[a] = m[a]
  BY DEF Ahead
<1>3. /\ \A n \in 0 .. N - 1 : g[n] \in Images(D) =>
           g[n + 1] = IF n + 1 \in S THEN g[n] ELSE Made(T[n + 1], g[n], x[n + 1], y[n + 1])
      /\ \A n \in 0 .. N - 1 : l[n] \in Images(D) =>
           l[n + 1] = IF n + 1 \in S \cup A THEN l[n] ELSE Made(T[n + 1], l[n], x[n + 1], y[n + 1])
  BY DEF Follows
<1> USE <1>1, <1>2, <1>3
<1> DEFINE M(e) == Made(T[e], m, x[e], y[e])
           Q(n) == /\ g[n] \in Images(D) /\ l[n] \in Images(D)
                   /\ \A e \in A : \A a \in Cover(T[e]) :
                        l[n][a] = M(e)[a] /\ g[n][a] = IF e <= n THEN M(e)[a] ELSE m[a]
                   /\ \A a \in D : (\A e \in A : a \notin Cover(T[e])) => g[n][a] = l[n][a]
           C == {n \in 0 .. N : Q(n)}
<1>4. 0 \in C
  <2> HIDE DEF M
  <2>1. \A e \in A : ~ (e <= 0)
    OBVIOUS
  <2> QED
    BY <2>1 DEF M
<1>5. ASSUME NEW n \in 0 .. N - 1, n \in C PROVE n + 1 \in C
  <2> DEFINE e == n + 1
             r == T[e]
             G == Made(r, g[n], x[e], y[e])
             L == Made(r, l[n], x[e], y[e])
  <2>0. Q(n) /\ n + 1 \in 0 .. N /\ e \in 1 .. N /\ n \in Int
    BY <1>5
  <2> HIDE DEF C, M
  <2>1. \A d \in 1 .. N : d # e => (d <= n <=> d <= n + 1)
    <3>1. n \in Int
      BY <2>0
    <3> QED
      BY ONLY <3>1, N \in Nat
  <2>2. CASE e \in S
    <3>1. g[n + 1] = g[n] /\ l[n + 1] = l[n] /\ e \notin A
      BY <2>0, <2>2
    <3> HIDE DEF e
    <3>2. \A d \in A : d # e /\ (d <= n <=> d <= n + 1)
      BY <2>1, <3>1
    <3>3. \A d \in A : \A a \in Cover(T[d]) :
            l[n + 1][a] = M(d)[a] /\ g[n + 1][a] = IF d <= n + 1 THEN M(d)[a] ELSE m[a]
      BY <2>0, <3>1, <3>2
    <3>4. Q(n + 1)
      BY <2>0, <3>1, <3>3
    <3> QED
      BY <2>0, <3>4 DEF C
  <2>3. CASE e \in A
    <3>1. e \notin S /\ g[n + 1] = G /\ l[n + 1] = l[n]
      BY <2>0, <2>3
    <3>2. r.offset \in Int /\ Cover(r) \subseteq D
      BY <2>0, <3>1
    <3>3. Agree(g[n], m, Cover(r))
      <4>1. ~ (e <= n)
        BY <2>0
      <4> HIDE DEF e
      <4> QED
        BY <2>0, <2>3, <4>1 DEF Agree
    <3> HIDE DEF r, e
    <3>4. /\ G \in Images(D) /\ \A a \in D : a \notin Cover(r) => G[a] = g[n][a]
          /\ \A a \in Cover(r) : G[a] = M(e)[a]
      BY <2>0, <3>2, <3>3, MadeLocal DEF M, r
    <3>5. e <= n + 1
      BY <2>0 DEF e
    <3>6. \A d \in A : d # e => \A a \in Cover(T[d]) : a \in D /\ a \notin Cover(r)
      BY <2>3 DEF r
    <3> HIDE DEF G
    <3>7. \A d \in A : \A a \in Cover(T[d]) : g[n + 1][a] = IF d <= n + 1 THEN M(d)[a] ELSE m[a]
      <4> SUFFICES ASSUME NEW d \in A, NEW a \in Cover(T[d])
                   PROVE  g[n + 1][a] = IF d <= n + 1 THEN M(d)[a] ELSE m[a]
        OBVIOUS
      <4>1. CASE d = e
        BY <3>1, <3>4, <3>5, <4>1 DEF r
      <4>2. CASE d # e
        <5>1. g[n + 1][a] = g[n][a]
          BY <3>1, <3>4, <3>6, <4>2
        <5> QED
          BY <2>0, <2>1, <4>2, <5>1
      <4> QED
        BY <4>1, <4>2
    <3>8. \A a \in D : (\A d \in A : a \notin Cover(T[d])) => g[n + 1][a] = l[n + 1][a]
      BY <2>0, <2>3, <3>1, <3>4 DEF r
    <3>9. Q(n + 1)
      BY <2>0, <3>1, <3>4, <3>7, <3>8
    <3> QED
      BY <2>0, <3>9 DEF C
  <2>4. CASE e \notin S /\ e \notin A
    <3>1. g[n + 1] = G /\ l[n + 1] = L
      BY <2>0, <2>4
    <3>2. r.offset \in Int /\ Cover(r) \subseteq D
      BY <2>0, <2>4
    <3>3. \A d \in A : \A a \in Cover(T[d]) : a \in D /\ a \notin Cover(r)
      BY <2>0, <2>4
    <3> HIDE DEF r, e
    <3>4. Agree(g[n], l[n], Cover(r))
      BY <2>0, <3>2, <3>3 DEF Agree
    <3>5. /\ G \in Images(D) /\ \A a \in D : a \notin Cover(r) => G[a] = g[n][a]
          /\ \A a \in Cover(r) : G[a] = L[a]
      BY <2>0, <3>2, <3>4, MadeLocal
    <3>6. L \in Images(D) /\ \A a \in D : a \notin Cover(r) => L[a] = l[n][a]
      <4>1. Agree(l[n], l[n], Cover(r))
        BY DEF Agree
      <4> QED
        BY <2>0, <3>2, <4>1, MadeLocal
    <3> HIDE DEF G, L
    <3>7. \A d \in A : \A a \in Cover(T[d]) :
            l[n + 1][a] = M(d)[a] /\ g[n + 1][a] = IF d <= n + 1 THEN M(d)[a] ELSE m[a]
      <4> SUFFICES ASSUME NEW d \in A, NEW a \in Cover(T[d])
                   PROVE  l[n + 1][a] = M(d)[a] /\ g[n + 1][a] = IF d <= n + 1 THEN M(d)[a] ELSE m[a]
        OBVIOUS
      <4>1. g[n + 1][a] = g[n][a] /\ l[n + 1][a] = l[n][a] /\ d # e
        BY <2>4, <3>1, <3>3, <3>5, <3>6
      <4> QED
        BY <2>0, <2>1, <4>1
    <3>8. \A a \in D : (\A d \in A : a \notin Cover(T[d])) => g[n + 1][a] = l[n + 1][a]
      BY <2>0, <3>1, <3>5, <3>6
    <3>9. Q(n + 1)
      BY <3>1, <3>5, <3>6, <3>7, <3>8
    <3> QED
      BY <2>0, <3>9 DEF C
  <2> QED
    BY <2>2, <2>3, <2>4
<1>6. Q(N)
  <2> HIDE DEF C
  <2>1. \A n \in 0 .. N : n \in C
    BY <1>4, <1>5, Counting
  <2> QED
    BY <2>1 DEF C
<1>7. \A e \in A : e <= N
  OBVIOUS
<1> HIDE DEF M
<1>8. \A a \in D : g[N][a] = l[N][a]
  BY <1>6, <1>7
<1> QED
  BY <1>6, <1>8, SameImage

-----------------------------------------------------------------------------
(* What the tool leaves in the sections.                                   *)

Entry(j, e) == input.tab[Off(j)][e]
Dist(r) == input.sym[r.sym + 1].value + r.addend - r.offset

\* h is section t with the entries to apply among the first q of table j
\* applied: each of these has changed its own halfwords of the original.
PatchedTo(h, j, t, q) ==
  LET m == input.sh[t].half
  IN  /\ h \in Images(DOMAIN m)
      /\ \A e \in 1 .. Was(j) : Resolved(Entry(j, e), t - 1) =>
           \A a \in Cover(Entry(j, e)) :
             h[a] = IF e <= q THEN Made(Entry(j, e), m, Dist(Entry(j, e)), Dist(Entry(j, e)))[a]
                    ELSE m[a]
      /\ \A a \in DOMAIN m :
           (\A e \in 1 .. Was(j) : Resolved(Entry(j, e), t - 1) => a \notin Cover(Entry(j, e)))
             => h[a] = m[a]

\* An entry has places, values and a symbol of the file.
LEMMA EntryFacts ==
  ASSUME CompactInv, NEW j \in Relas, NEW e \in 1 .. Was(j)
  PROVE  /\ Entry(j, e).offset \in Int /\ Entry(j, e).addend \in Int
         /\ Entry(j, e).sym + 1 \in DOMAIN input.sym
         /\ input.sym[Entry(j, e).sym + 1].value \in Int
<1>1. input \in Files /\ j \in 1 .. Len(input.sh) /\ IsRela(input.sh[j])
  BY DEF CompactInv, HeadersInv, Relas
<1>2. Off(j) \in DOMAIN input.tab /\ Was(j) <= Len(input.tab[Off(j)]) /\ Was(j) \in Nat
      /\ input.tab[Off(j)] \in Seq(ToSet(input.tab[Off(j)]))
  BY <1>1, FileFacts DEF Off, Was, IsHeader
<1>3. e \in DOMAIN input.tab[Off(j)]
  <2>1. DOMAIN input.tab[Off(j)] = 1 .. Len(input.tab[Off(j)]) /\ Len(input.tab[Off(j)]) \in Nat
    BY <1>2
  <2> QED
    BY <1>2, <2>1
<1>4. /\ Entry(j, e).offset \in Int /\ Entry(j, e).addend \in Int
      /\ Entry(j, e).sym + 1 \in DOMAIN input.sym
  BY <1>1, <1>2, <1>3, FilesAssumption DEF Entry
<1>5. IsSymbol(input.sym[Entry(j, e).sym + 1])
  BY <1>1, <1>4, FilesAssumption
<1> QED
  BY <1>4, <1>5 DEF IsSymbol

\* What a section as an assembler leaves it is, for the entries of its table.
LEMMA AssembledFacts ==
  ASSUME CompactInv, NEW j \in Relas, NEW t \in Named(j), Assembled(j, t)
  PROVE  /\ input.sh[t].half \in Images(DOMAIN input.sh[t].half)
         /\ \A e \in 1 .. Was(j) :
              /\ Entry(j, e).type \notin Skipped => Cover(Entry(j, e)) \subseteq DOMAIN input.sh[t].half
              /\ Resolved(Entry(j, e), t - 1) =>
                   /\ Entry(j, e).type \notin Skipped /\ Entry(j, e).type \in Applied
                   /\ Blank(input.sh[t].half, Entry(j, e))
                   /\ \A d \in 1 .. Was(j) : d # e /\ Entry(j, d).type \notin Skipped =>
                        \A a \in Cover(Entry(j, e)) : a \notin Cover(Entry(j, d))
<1> DEFINE m == input.sh[t].half
           live == {e \in 1 .. Was(j) : Entry(j, e).type \notin Skipped}
<1>1. m \in Images(DOMAIN m)
  <2>1. input \in Files /\ DOMAIN input.sh = 1 .. Len(input.sh) /\ t \in 1 .. Len(input.sh)
    BY FileFacts DEF CompactInv, HeadersInv, Named
  <2> QED
    BY <2>1, FilesAssumption DEF Images
<1>2. ASSUME NEW e \in live
      PROVE  /\ Cover(Entry(j, e)) \subseteq DOMAIN m
             /\ Resolved(Entry(j, e), t - 1) =>
                  /\ Blank(m, Entry(j, e))
                  /\ \A d \in live \ {e} : Cover(Entry(j, e)) \cap Cover(Entry(j, d)) = {}
  BY DEF Assembled, Entry, Off, Was
<1>3. \A e \in 1 .. Was(j) : Resolved(Entry(j, e), t - 1) =>
        Entry(j, e).type \notin Skipped /\ Entry(j, e).type \in Applied
  BY DEF Resolved, Applied, Calls, Skipped
<1> HIDE DEF m
<1>4. ASSUME NEW e \in 1 .. Was(j), Resolved(Entry(j, e), t - 1),
             NEW d \in 1 .. Was(j), d # e, Entry(j, d).type \notin Skipped
      PROVE  \A a \in Cover(Entry(j, e)) : a \notin Cover(Entry(j, d))
  <2>1. e \in live /\ d \in live \ {e}
    BY <1>3, <1>4
  <2>2. Cover(Entry(j, e)) \cap Cover(Entry(j, d)) = {}
    BY <1>2, <1>4, <2>1
  <2> QED
    BY <2>2
<1>5. \A e \in 1 .. Was(j) : Entry(j, e).type \notin Skipped => e \in live
  OBVIOUS
<1> HIDE DEF live
<1> QED
  BY <1>1, <1>2, <1>3, <1>4, <1>5 DEF m

\* Places of blank code are blank in whatever agrees with it there.
LEMMA BlankLocal ==
  ASSUME NEW D, NEW m \in Images(D), NEW h \in Images(D), NEW r, r.type \in Applied,
         r.offset \in Int, Cover(r) \subseteq D, Agree(h, m, Cover(r)), Blank(m, r)
  PROVE  Blank(h, r)
<1> DEFINE a == r.offset
<1>1. DOMAIN m = D /\ DOMAIN h = D /\ m[a] = h[a] /\ a \in D
  BY DEF Images, Agree, Cover
<1>2. CASE r.type \in Rvc
  <2>1. ImmediateBits(r.type) \subseteq 0 .. 15 /\ r.type \notin Calls
    <3>1. r.type \notin Calls /\ (r.type = "RVC_JUMP" \/ r.type = "RVC_BRANCH")
      BY <1>2 DEF Rvc, Calls, Applied
    <3>2. CASE r.type = "RVC_JUMP"
      BY <3>2 DEF ImmediateBits, Calls
    <3>3. CASE r.type = "RVC_BRANCH"
      BY <3>3 DEF ImmediateBits, Calls
    <3> QED
      BY <3>1, <3>2, <3>3
  <2>2. WordAt(m, a) \cap (0 .. 15) = WordAt(h, a) \cap (0 .. 15)
    BY <1>1, WordsOfSections
  <2>3. WordAt(m, a) \cap ImmediateBits(r.type) = {}
    BY DEF Blank
  <2> DEFINE I == ImmediateBits(r.type)
             v == WordAt(m, a)
             w == WordAt(h, a)
  <2> HIDE DEF I, v, w
  <2>4. w \cap I = {}
    BY <2>1, <2>2, <2>3 DEF I, v, w
  <2> QED
    BY <2>1, <2>4 DEF Blank, I, w
<1>3. CASE r.type \notin Rvc
  <2>1. m[a + 2] = h[a + 2]
    BY <1>3 DEF Agree, Cover, Rvc
  <2>2. WordAt(m, a) = WordAt(h, a)
    BY <1>1, <2>1 DEF WordAt
  <2>3. r.type \in Calls => WordAt(m, a + 4) = WordAt(h, a + 4)
    <3> SUFFICES ASSUME r.type \in Calls PROVE WordAt(m, a + 4) = WordAt(h, a + 4)
      OBVIOUS
    <3>1. a + 4 \in Cover(r) /\ a + 6 \in Cover(r) /\ (a + 4) + 2 = a + 6
      BY DEF Cover
    <3>2. m[a + 4] = h[a + 4] /\ m[a + 6] = h[a + 6]
      BY <3>1 DEF Agree
    <3> QED
      BY <1>1, <3>1, <3>2 DEF WordAt
  <2> QED
    BY <2>2, <2>3 DEF Blank
<1> QED
  BY <1>2, <1>3

\* Applying one more entry.
LEMMA PatchedNext ==
  ASSUME CompactInv, NEW j \in Relas, NEW t \in Named(j), Assembled(j, t),
         NEW q \in 1 .. Was(j), Resolved(Entry(j, q), t - 1), NEW h, PatchedTo(h, j, t, q - 1)
  PROVE  PatchedTo(Patch(h, Entry(j, q), input.sym[Entry(j, q).sym + 1].value), j, t, q)
<1> DEFINE m == input.sh[t].half
           D == DOMAIN m
           r == Entry(j, q)
           value == input.sym[r.sym + 1].value
           d == Dist(r)
           G == Made(r, h, d, d)
           App(e) == Resolved(Entry(j, e), t - 1)
<1>1. /\ r.offset \in Int /\ r.addend \in Int /\ value \in Int /\ d \in Int
      /\ d = value + r.addend - r.offset
  BY EntryFacts DEF Dist
<1>2. /\ m \in Images(D) /\ Cover(r) \subseteq D /\ r.type \in Applied /\ Blank(m, r)
      /\ r.type \notin Skipped
  BY AssembledFacts
<1>3. h \in Images(D)
  BY DEF PatchedTo
<1>4. \A e \in 1 .. Was(j) : App(e) /\ e # q =>
        \A a \in Cover(Entry(j, e)) : a \in D /\ a \notin Cover(r)
  BY <1>2, AssembledFacts
<1>5. Agree(h, m, Cover(r))
  <2>1. q \in Int /\ ~ (q <= q - 1)
    OBVIOUS
  <2> QED
    BY <2>1 DEF PatchedTo, Agree
<1>6. Blank(h, r)
  <2> HIDE DEF m, D, r
  <2> QED
    BY <1>1, <1>2, <1>3, <1>5, BlankLocal
<1>7. Patch(h, r, value) = G
  <2> HIDE DEF m, D, r, value, d
  <2> QED
    BY <1>1, <1>2, <1>3, <1>6, PatchIsMade
<1>8. /\ G \in Images(D) /\ \A a \in D : a \notin Cover(r) => G[a] = h[a]
      /\ \A a \in Cover(r) : G[a] = Made(r, m, d, d)[a]
  <2> HIDE DEF m, D, r, d
  <2> QED
    BY <1>1, <1>2, <1>3, <1>5, MadeLocal
<1> DEFINE M(e) == Made(Entry(j, e), m, Dist(Entry(j, e)), Dist(Entry(j, e)))
<1>9. M(q) = Made(r, m, d, d)
  OBVIOUS
<1>10. /\ \A e \in 1 .. Was(j) : App(e) =>
            \A a \in Cover(Entry(j, e)) : h[a] = IF e <= q - 1 THEN M(e)[a] ELSE m[a]
       /\ \A a \in D : (\A e \in 1 .. Was(j) : App(e) => a \notin Cover(Entry(j, e))) => h[a] = m[a]
  BY DEF PatchedTo
<1>11. ASSUME G \in Images(D),
              \A e \in 1 .. Was(j) : App(e) =>
                \A a \in Cover(Entry(j, e)) : G[a] = IF e <= q THEN M(e)[a] ELSE m[a],
              \A a \in D : (\A e \in 1 .. Was(j) : App(e) => a \notin Cover(Entry(j, e)))
                => G[a] = m[a]
       PROVE  PatchedTo(G, j, t, q)
  <2> HIDE DEF G
  <2> QED
    BY <1>11 DEF PatchedTo
<1> HIDE DEF G, M, m, D, d
<1>12. ASSUME NEW e \in 1 .. Was(j), App(e), NEW a \in Cover(Entry(j, e))
       PROVE  G[a] = IF e <= q THEN M(e)[a] ELSE m[a]
  <2>1. CASE e = q
    <3>1. e <= q
      BY <2>1
    <3> QED
      BY <1>8, <1>9, <1>12, <2>1, <3>1
  <2>2. CASE e # q
    <3>1. e <= q <=> e <= q - 1
      BY <2>2
    <3>2. G[a] = h[a]
      BY <1>4, <1>8, <1>12, <2>2
    <3> QED
      BY <1>10, <1>12, <3>1, <3>2
  <2> QED
    BY <2>1, <2>2
<1>13. \A a \in D : (\A e \in 1 .. Was(j) : App(e) => a \notin Cover(Entry(j, e))) => G[a] = m[a]
  BY <1>8, <1>10
<1>14. PatchedTo(G, j, t, q)
  <2> HIDE DEF App
  <2> QED
    BY <1>8, <1>11, <1>12, <1>13
<1> QED
  BY <1>7, <1>14

\* The entries of table j that have been read.
Read(j) ==
  IF runs = 0 /\ (pc = "scan" \/ Waiting(Off(j)))
    THEN IF pc = "entry" /\ Off(j) = Begin THEN rel - 1 ELSE 0
    ELSE Was(j)
PatchInv == \A j \in Relas : \A t \in Named(j) :
  t # 1 /\ Assembled(j, t) => PatchedTo(sh[t].half, j, t, Read(j))

\* What is said of the original section stays.
LEMMA PatchedIsFixed ==
  ASSUME input' = input
  PROVE  /\ \A j : (Named(j))' = Named(j)
         /\ \A j, t : (Assembled(j, t)' <=> Assembled(j, t))
         /\ \A h, j, t, q : PatchedTo(h, j, t, q)' = PatchedTo(h, j, t, q)
<1>1. /\ \A r, n : (Resolved(r, n))' = Resolved(r, n)
      /\ \A j : (Off(j))' = Off(j) /\ (Was(j))' = Was(j)
      /\ \A j, e : (Entry(j, e))' = Entry(j, e)
      /\ \A r : (Dist(r))' = Dist(r)
  BY DEF Resolved, Off, Was, Entry, Dist
<1>2. \A j : (Named(j))' = Named(j)
  BY DEF Named
<1>3. ASSUME NEW j, NEW t PROVE Assembled(j, t)' <=> Assembled(j, t)
  <2> DEFINE m == input.sh[t].half
             table == input.tab[input.sh[j].offset]
             live == {e \in 1 .. input.sh[j].size : table[e].type \notin Skipped}
             Good(e) ==
               /\ Cover(table[e]) \subseteq DOMAIN m
               /\ Resolved(table[e], t - 1) =>
                    /\ Blank(m, table[e])
                    /\ \A d \in live \ {e} : Cover(table[e]) \cap Cover(table[d]) = {}
  <2>1. m' = m /\ table' = table /\ live' = live
    OBVIOUS
  <2>2. Assembled(j, t) <=> \A e \in live : Good(e)
    BY DEF Assembled
  <2>3. Assembled(j, t)' <=> \A e \in live' : (Good(e))'
    BY DEF Assembled
  <2>4. \A e : (Good(e))' = Good(e)
    <3> HIDE DEF m, table, live
    <3> QED
      BY <1>1, <2>1
  <2> HIDE DEF Good, live
  <2> QED
    BY <2>1, <2>2, <2>3, <2>4
<1>4. \A h, j, t, q : PatchedTo(h, j, t, q)' = PatchedTo(h, j, t, q)
  BY <1>1 DEF PatchedTo
<1> QED
  BY <1>2, <1>3, <1>4

\* An entry that is not applied changes nothing.
LEMMA PatchedSkip ==
  ASSUME NEW j, NEW t, NEW q \in Nat \ {0}, ~Resolved(Entry(j, q), t - 1), NEW h,
         PatchedTo(h, j, t, q - 1)
  PROVE  PatchedTo(h, j, t, q)
<1>1. \A e \in 1 .. Was(j) : e # q => (e <= q - 1 <=> e <= q)
  OBVIOUS
<1> QED
  BY <1>1 DEF PatchedTo

\* The section a table is for is one named like it.
LEMMA TargetNamed ==
  ASSUME CompactInv, TablesApart, NEW l \in Relas, Target(Off(l)) # 0
  PROVE  Named(l) # {}
<1>1. At(Off(l)) # {}
  BY DEF Target
<1>2. PICK u \in Relas : Off(u) = Off(l) /\ Named(u) # {}
  BY <1>1 DEF At, Off
<1> QED
  BY <1>2, OneTable

\* No other table is for the section.
LEMMA OneTarget ==
  ASSUME CompactInv, TablesApart, NamesApart, NEW j \in Relas, NEW t \in Named(j), t # 1,
         NEW l \in Relas, Target(Off(l)) = t - 1
  PROVE  l = j
<1>1. PICK u : u \in Named(l)
  <2>1. t - 1 # 0
    BY DEF Named
  <2> QED
    BY <2>1, TargetNamed
<1>2. Target(Off(l)) = u - 1
  BY <1>1, OwnTarget
<1>3. u = t
  BY <1>1, <1>2 DEF Named
<1> DEFINE a == input.sh[j].name
           b == input.sh[l].name
<1>4. Tail(a) = Tail(b)
  BY <1>1, <1>3 DEF Named
<1>5. a \in Seq(ToSet(a)) /\ b \in Seq(ToSet(b)) /\ Len(a) > 0 /\ Len(b) > 0 /\ a[1] = b[1]
  BY FileFacts DEF CompactInv, HeadersInv, Relas, IsRela, IsHeader
<1> HIDE DEF a, b
<1>6. a = b
  <2> DEFINE A == ToSet(a)
             B == ToSet(b)
  <2> HIDE DEF A, B
  <2>1. /\ a \in Seq(A) /\ b \in Seq(B)
    BY <1>5 DEF A, B
  <2>2. /\ Len(Tail(a)) = Len(a) - 1 /\ \A n \in 1 .. Len(a) - 1 : Tail(a)[n] = a[n + 1]
    BY <1>5, <2>1, HeadTailProperties
  <2>3. /\ Len(Tail(b)) = Len(b) - 1 /\ \A n \in 1 .. Len(b) - 1 : Tail(b)[n] = b[n + 1]
    BY <1>5, <2>1, HeadTailProperties
  <2>4. Len(a) = Len(b) /\ Len(a) \in Nat
    <3>1. Len(a) \in Nat /\ Len(b) \in Nat
      BY <2>1
    <3>2. Len(a) - 1 = Len(b) - 1
      BY <1>4, <2>2, <2>3
    <3> QED
      BY <3>1, <3>2
  <2>5. ASSUME NEW n \in 1 .. Len(a) PROVE a[n] = b[n]
    <3>1. CASE n = 1
      BY <1>5, <3>1
    <3>2. CASE n # 1
      <4>1. n - 1 \in 1 .. Len(a) - 1 /\ (n - 1) + 1 = n
        BY <2>4, <3>2
      <4>2. a[n] = Tail(a)[n - 1] /\ b[n] = Tail(b)[n - 1]
        BY <2>2, <2>3, <2>4, <4>1
      <4> QED
        BY <1>4, <4>2
    <3> QED
      BY <3>1, <3>2
  <2>6. a \in Seq(A \cup B) /\ b \in Seq(A \cup B)
    BY <2>1
  <2> QED
    BY <2>4, <2>5, <2>6, SeqEqual
<1>7. j \in DOMAIN input.sh /\ l \in DOMAIN input.sh
  BY FileFacts DEF CompactInv, HeadersInv, Relas
<1> QED
  BY <1>6, <1>7 DEF NamesApart, a, b

\* How many entries of a table have been read after a step that applies none.
LEMMA ReadStep ==
  ASSUME CompactInv, TablesApart, NamesApart, SymInv, ListInv, CleanInv, KeepInv,
         Next, ~OneEntry, runs = 0, NEW j \in Relas, NEW t \in Named(j), t # 1
  PROVE  Read(j)' = Read(j) /\ sh'[t].half = sh[t].half
<1>1. input' = input /\ (Off(j))' = Off(j) /\ (Was(j))' = Was(j)
  <2>1. input' = input
    BY DEF Next, Scan, Scanned, NextLink, OneEntry, EndLink, Finish, Rerun
  <2> QED
    BY <2>1, FileIsFixed, RankIsFixed
<1>2. Target(Off(j)) # 0
  <2>1. Target(Off(j)) = t - 1
    BY OwnTarget
  <2> QED
    BY <2>1 DEF Named
<1>3. CASE Scan
  BY <1>1, <1>3 DEF Scan, Read
<1>4. CASE Scanned
  <2>1. Waiting(Off(j)) /\ (Waiting(Off(j)))'
    BY <1>1, <1>4, AllWaiting DEF Scanned, Waiting
  <2> QED
    BY <1>1, <1>4, <2>1 DEF Scanned, Read
<1>5. CASE NextLink
  <2>1. pc = "link" /\ links # <<>> /\ sh' = sh /\ runs' = runs
    BY <1>5 DEF NextLink
  <2>2. CASE pc' = "entry"
    <3>1. links' = links /\ rel' = 1 /\ Begin' = Begin
      BY <1>5, <2>1, <2>2 DEF NextLink, Begin
    <3>2. Off(j) = Begin => Waiting(Off(j))
      BY <2>1, LinkFacts DEF Waiting
    <3>3. (Waiting(Off(j)))' <=> Waiting(Off(j))
      BY <1>1, <3>1 DEF Waiting
    <3> QED
      BY <1>1, <2>1, <2>2, <3>1, <3>2, <3>3 DEF Read
  <2>3. CASE pc' # "entry"
    <3>1. links' = Tail(links) /\ pc' = pc /\ PatchedSection(Begin) = 0
      BY <1>5, <2>3 DEF NextLink, Begin
    <3>2. Target(Begin) = 0
      BY <3>1, TargetIsFixed
    <3>3. (Waiting(Off(j)))' <=> Waiting(Off(j)) /\ Off(j) # Begin
      BY <1>1, <2>1, <3>1, TailWaiting DEF Waiting
    <3> QED
      BY <1>1, <1>2, <2>1, <3>1, <3>2, <3>3 DEF Read
  <2> QED
    BY <2>2, <2>3
<1>6. CASE EndLink
  <2>1. /\ pc = "entry" /\ pc' = "link" /\ rel > Head(links).size /\ links' = Tail(links)
        /\ runs' = runs
        /\ sh' = [l \in DOMAIN sh |-> IF IsRela(sh[l]) /\ sh[l].offset = Begin
                                        THEN [sh[l] EXCEPT !.size = p - 1] ELSE sh[l]]
    BY <1>6 DEF EndLink
  <2>2. links # <<>> /\ rel \in 1 .. Head(links).size + 1
    BY <2>1 DEF CompactInv, LoopInv
  <2>3. 1 \in 1 .. Len(links) /\ Head(links) = links[1] /\ Begin = links[1].begin
        /\ Head(links).size \in Nat
    BY <2>2, LinkFacts
  <2>4. sh'[t].half = sh[t].half
    <3>1. t \in DOMAIN sh /\ IsHeader(sh[t])
      <4>1. t \in 1 .. Len(input.sh) /\ Len(input.sh) \in Nat
        BY FileFacts DEF Named, CompactInv, HeadersInv
      <4> QED
        BY <4>1, FunctionIsSeq DEF CompactInv, HeadersInv
    <3>2. sh'[t] = sh[t] \/ sh'[t] = [sh[t] EXCEPT !.size = p - 1]
      BY <2>1, <3>1
    <3> QED
      BY <3>1, <3>2 DEF IsHeader
  <2>5. (Waiting(Off(j)))' <=> Waiting(Off(j)) /\ Off(j) # Begin
    <3>1. links' = Tail(links)
      BY <2>1
    <3>2. (\E m \in 1 .. Len(links') : links'[m].begin = Off(j)) <=> Waiting(Off(j)) /\ Off(j) # Begin
      BY <2>2, <3>1, TailWaiting
    <3> QED
      BY <1>1, <3>2 DEF Waiting
  <2>6. CASE Off(j) = Begin
    <3>1. Waiting(Off(j))
      BY <2>3, <2>6 DEF Waiting
    <3>2. sh[j].size = Was(j) /\ sh[j].size = links[1].size
      BY <2>1, <2>3, <2>6, <3>1 DEF KeepInv, Untouched, ListInv
    <3>3. rel - 1 = Was(j)
      BY <2>1, <2>2, <2>3, <3>2
    <3> QED
      BY <1>1, <2>1, <2>4, <2>5, <2>6, <3>1, <3>3 DEF Read
  <2>7. CASE Off(j) # Begin
    BY <1>1, <2>1, <2>4, <2>5, <2>7 DEF Read
  <2> QED
    BY <2>6, <2>7
<1>7. CASE Finish
  <2>1. links = <<>> /\ runs' = 1 /\ pc = "link" /\ sh' = sh /\ Len(links) = 0
    BY <1>7 DEF Finish
  <2>2. ~Waiting(Off(j))
    BY <2>1 DEF Waiting
  <2> QED
    BY <1>1, <2>1, <2>2 DEF Read
<1>8. CASE Rerun
  BY <1>8 DEF Rerun
<1> QED
  BY <1>3, <1>4, <1>5, <1>6, <1>7, <1>8 DEF Next

\* Every step keeps each section patched as far as its table has been read.
LEMMA PatchStep ==
  CompactInv /\ TablesApart /\ NamesApart /\ SymInv /\ ListInv /\ CleanInv /\ KeepInv /\ PatchInv
    /\ [Next]_vars => PatchInv'
<1> SUFFICES ASSUME CompactInv, TablesApart, NamesApart, SymInv, ListInv, CleanInv, KeepInv, PatchInv,
                    [Next]_vars
             PROVE  PatchInv'
  OBVIOUS
<1>1. input' = input /\ Relas' = Relas /\ runs \in 0 .. 2
      /\ \A j : (Off(j))' = Off(j) /\ (Was(j))' = Was(j)
  <2>1. input' = input
    BY DEF Next, Scan, Scanned, NextLink, OneEntry, EndLink, Finish, Rerun, vars
  <2> QED
    BY <2>1, FileIsFixed, RankIsFixed DEF CleanInv
<1> SUFFICES ASSUME NEW j \in Relas, NEW t \in Named(j), t # 1, Assembled(j, t)
             PROVE  PatchedTo(sh'[t].half, j, t, Read(j)')
  BY <1>1, PatchedIsFixed DEF PatchInv
<1>2. PatchedTo(sh[t].half, j, t, Read(j))
  BY DEF PatchInv
<1>3. CASE UNCHANGED vars
  <2>1. Read(j)' = Read(j) /\ sh' = sh
    BY <1>1, <1>3 DEF vars, Read, Waiting, Begin
  <2> QED
    BY <1>2, <2>1
<1>4. CASE runs # 0
  <2>1. runs \in 1 .. 2 /\ runs' # 0
    BY <1>1, <1>4 DEF Next, Scan, Scanned, NextLink, OneEntry, EndLink, Finish, Rerun, vars
  <2>2. Read(j) = Was(j) /\ Read(j)' = Was(j)
    BY <1>1, <1>4, <2>1 DEF Read
  <2>3. t \in DOMAIN sh
    <3>1. t \in 1 .. Len(input.sh) /\ Len(input.sh) \in Nat
      BY FileFacts DEF Named, CompactInv, HeadersInv
    <3> QED
      BY <3>1, FunctionIsSeq DEF CompactInv, HeadersInv
  <2>4. sh'[t] = sh[t]
    BY <2>1, <2>3, IdleStep
  <2> QED
    BY <1>2, <2>2, <2>4
<1>5. CASE runs = 0 /\ Next /\ ~OneEntry
  <2>1. Read(j)' = Read(j) /\ sh'[t].half = sh[t].half
    BY <1>5, ReadStep
  <2> QED
    BY <1>2, <2>1
<1>6. CASE runs = 0 /\ OneEntry
  <2> DEFINE r == tab[Begin][rel]
  <2>1. /\ pc = "entry" /\ pc' = "entry" /\ links' = links /\ runs' = 0 /\ rel' = rel + 1
        /\ Begin' = Begin /\ rel \in 1 .. Head(links).size /\ rel \in Nat /\ rel \in 1 .. Len(tab[Begin])
    BY <1>6, EntryStep DEF Begin
  <2>2. links # <<>>
    BY <2>1 DEF CompactInv, LoopInv
  <2>3. /\ 1 \in 1 .. Len(links) /\ Begin = links[1].begin /\ Head(links) = links[1]
        /\ Begin \in DOMAIN input.tab /\ Head(links).size \in Nat
    BY <2>2, LinkFacts
  <2>4. (Waiting(Off(j)))' <=> Waiting(Off(j))
    BY <1>1, <2>1 DEF Waiting
  <2>5. ndx = Target(Begin) /\ Moved
    BY <1>6, <2>1 DEF CleanInv, KeepInv
  <2>6. r.sym + 1 \in DOMAIN input.sym /\ sym[r.sym + 1].shndx = input.sym[r.sym + 1].shndx
        /\ sym[r.sym + 1].value = input.sym[r.sym + 1].value
    BY <2>1, <2>3, EntrySymbol DEF SymInv
  <2>7. \/ sh' = sh /\ (r.type \in {"ALIGN", "RELAX"} \/ ~Applies(r))
        \/ /\ Applies(r)
           /\ sh' = [sh EXCEPT ![ndx + 1].half = Patch(@, r, sym[r.sym + 1].value)]
    BY <1>6 DEF OneEntry, Keep
  <2>8. t \in DOMAIN sh /\ IsHeader(sh[t]) /\ t \in Nat
    <3>1. t \in 1 .. Len(input.sh) /\ Len(input.sh) \in Nat /\ IsHeader(sh[t])
      BY FileFacts DEF Named, CompactInv, HeadersInv
    <3>2. DOMAIN sh = 1 .. Len(input.sh)
      BY <3>1, FunctionIsSeq DEF CompactInv, HeadersInv
    <3> QED
      BY <3>1, <3>2
  <2>9. CASE Off(j) = Begin
    <3>1. Waiting(Off(j))
      BY <2>3, <2>9 DEF Waiting
    <3>2. Read(j) = rel - 1 /\ Read(j)' = rel
      BY <1>1, <1>6, <2>1, <2>4, <2>9, <3>1 DEF Read
    <3>3. rel \in 1 .. Was(j)
      <4>1. sh[j].size = Was(j) /\ sh[j].size = links[1].size
        BY <1>6, <2>1, <2>3, <2>9, <3>1 DEF KeepInv, Untouched, ListInv
      <4> QED
        BY <2>1, <2>3, <4>1
    <3>4. r = Entry(j, rel)
      <4>1. Len(tab[Begin]) = Len(input.tab[Begin]) /\ Len(tab[Begin]) \in Nat
        BY <2>9, RelaFacts
      <4>2. rel \in rel .. Len(input.tab[Begin])
        BY <2>1, <4>1
      <4> QED
        BY <2>5, <2>9, <4>2 DEF Moved, Entry
    <3>5. ndx = t - 1 /\ ndx + 1 = t
      <4>1. ndx = t - 1
        BY <2>5, <2>9, OwnTarget
      <4> QED
        BY <2>8, <4>1
    <3>6. Applies(r) <=> Resolved(r, t - 1)
      BY <2>6, <3>5 DEF Applies, Resolved
    <3>7. CASE Resolved(r, t - 1) /\ r.type \notin {"ALIGN", "RELAX"}
      <4>1. sh' = [sh EXCEPT ![t].half = Patch(@, r, input.sym[r.sym + 1].value)]
        BY <2>6, <2>7, <3>5, <3>6, <3>7
      <4>2. sh'[t] = [sh[t] EXCEPT !.half = Patch(@, r, input.sym[r.sym + 1].value)]
        BY <2>8, <4>1
      <4>3. sh'[t].half = Patch(sh[t].half, r, input.sym[r.sym + 1].value)
        BY <2>8, <4>2 DEF IsHeader
      <4> DEFINE h == sh[t].half
      <4> HIDE DEF h, r
      <4>4. PatchedTo(h, j, t, rel - 1)
        BY <1>2, <3>2 DEF h
      <4>5. PatchedTo(Patch(h, Entry(j, rel), input.sym[Entry(j, rel).sym + 1].value), j, t, rel)
        BY <3>3, <3>4, <3>7, <4>4, PatchedNext
      <4> QED
        BY <3>2, <3>4, <4>3, <4>5 DEF h
    <3>8. CASE ~(Resolved(r, t - 1) /\ r.type \notin {"ALIGN", "RELAX"})
      <4>1. ~Resolved(r, t - 1)
        BY <3>8 DEF Resolved, Applied, Calls
      <4>2. sh' = sh
        BY <2>7, <3>6, <4>1
      <4> QED
        BY <1>2, <2>1, <3>2, <3>4, <4>1, <4>2, PatchedSkip
    <3> QED
      BY <3>7, <3>8
  <2>10. CASE Off(j) # Begin
    <3>1. Read(j)' = Read(j)
      BY <1>1, <1>6, <2>1, <2>4, <2>10 DEF Read
    <3>2. PICK l \in Relas : Off(l) = Begin
      BY <2>3 DEF ListInv
    <3>3. ndx # t - 1
      BY <2>5, <2>10, <3>2, OneTarget
    <3>4. ndx \in Int => ndx + 1 # t
      BY <2>8, <3>3
    <3>5. ndx \in Int
      <4>1. ndx = Target(Off(l)) /\ ndx # 0
        BY <2>1, <2>5, <3>2 DEF CleanInv
      <4>2. PICK u \in Named(l) : TRUE
        BY <4>1, TargetNamed
      <4>3. ndx = u - 1 /\ u \in Nat
        BY <4>1, <4>2, OwnTarget DEF Named
      <4> QED
        BY <4>3
    <3>6. sh'[t] = sh[t]
      BY <2>7, <2>8, <3>4, <3>5
    <3> QED
      BY <1>2, <3>1, <3>6
  <2> QED
    BY <2>9, <2>10
<1> QED
  BY <1>1, <1>3, <1>4, <1>5, <1>6

LEMMA PatchInvariant ==
  Spec => [](/\ TablesApart => KeepInv
             /\ TablesApart /\ NamesApart => PatchInv
             /\ CompactInv /\ RunInv)
<1>1. Init => PatchInv
  <2> SUFFICES ASSUME Init, NEW j \in Relas, NEW t \in Named(j), Assembled(j, t)
               PROVE  PatchedTo(sh[t].half, j, t, Read(j))
    BY DEF PatchInv
  <2>1. Read(j) = 0 /\ sh[t].half = input.sh[t].half
    BY DEF Init, Read
  <2>2. input.sh[t].half \in Images(DOMAIN input.sh[t].half)
    BY CompactInit, AssembledFacts
  <2>3. \A e \in 1 .. Was(j) : ~ (e <= 0)
    OBVIOUS
  <2> QED
    BY <2>1, <2>2, <2>3 DEF PatchedTo
<1>2. /\ TablesApart => KeepInv
      /\ TablesApart /\ NamesApart => PatchInv
      /\ CompactInv /\ RunInv /\ [Next]_vars
      => (TablesApart /\ NamesApart => PatchInv)'
  <2> SUFFICES ASSUME TablesApart => KeepInv, TablesApart /\ NamesApart => PatchInv,
                      CompactInv, RunInv, [Next]_vars, TablesApart', NamesApart'
               PROVE  PatchInv'
    OBVIOUS
  <2>1. (TablesApart' <=> TablesApart) /\ (NamesApart' <=> NamesApart)
    BY DEF Next, Scan, Scanned, NextLink, OneEntry, EndLink, Finish, Rerun, vars, TablesApart, NamesApart
  <2> QED
    BY <2>1, PatchStep DEF RunInv
<1> QED
  BY <1>1, <1>2, KeepInvariant, PTL DEF Spec

\* The values an entry of a symbol of section t stands for.
LEMMA AppliedValues ==
  ASSUME CompactInv, CallsPlain, NEW j \in Relas, NEW t \in Named(j), t # 1, NEW bs \in Bases,
         NEW e \in 1 .. Was(j), Resolved(Entry(j, e), t - 1),
         NEW addr, addr = Resolve(input, Entry(j, e), bs), NEW m
  PROVE  Made(Entry(j, e), m, First(Entry(j, e), bs[t], addr), Second(Entry(j, e), bs[t], addr))
           = Made(Entry(j, e), m, Dist(Entry(j, e)), Dist(Entry(j, e)))
<1> DEFINE r == Entry(j, e)
           value == input.sym[r.sym + 1].value
           d == Dist(r)
<1>1. /\ r.offset \in Int /\ r.addend \in Int /\ value \in Int
      /\ d = value + r.addend - r.offset
  BY EntryFacts DEF Dist
<1>2. input \in Files /\ t \in DOMAIN input.sh /\ t \in Nat /\ bs[t] \in Int
  <2>1. input \in Files /\ t \in DOMAIN input.sh /\ t \in Nat
    BY FileFacts DEF CompactInv, HeadersInv, Named
  <2> QED
    BY <2>1, BasesAssumption
<1>3. r.type \in Applied /\ input.sym[r.sym + 1].shndx = t - 1
  BY DEF Resolved
<1>4. addr = bs[t] + value
  <2>1. t - 1 # 0 /\ (t - 1) + 1 = t
    BY <1>2
  <2> QED
    BY <1>3, <2>1 DEF Resolve
<1>5. r.type \in Calls => r.addend = 0
  <2>1. /\ Off(j) \in DOMAIN input.tab /\ Was(j) <= Len(input.tab[Off(j)]) /\ Was(j) \in Nat
        /\ input.tab[Off(j)] \in Seq(ToSet(input.tab[Off(j)]))
    BY FileFacts DEF CompactInv, HeadersInv, Relas, Off, Was, IsHeader
  <2>2. DOMAIN input.tab[Off(j)] = 1 .. Len(input.tab[Off(j)]) /\ Len(input.tab[Off(j)]) \in Nat
    BY <2>1
  <2>3. e \in DOMAIN input.tab[Off(j)]
    BY <2>1, <2>2
  <2> QED
    BY <2>1, <2>3 DEF CallsPlain, Entry
<1> HIDE DEF r, value, d
<1>6. First(r, bs[t], addr) = d /\ (r.type \in Calls => Second(r, bs[t], addr) = d)
  BY <1>1, <1>2, <1>3, <1>4, <1>5, SameDistance
<1>7. Made(r, m, First(r, bs[t], addr), Second(r, bs[t], addr)) = Made(r, m, d, d)
  BY <1>6 DEF Made
<1> QED
  BY <1>7 DEF r, d

\* What the tool leaves of section t and its table is loaded as the original.
LEMMA LoadedAlike ==
  ASSUME CompactInv, RunInv, KeepInv, PatchInv, TablesApart, NamesApart, CallsPlain, pc = "done",
         NEW j \in Relas, NEW t \in Named(j), t # 1, Assembled(j, t), NEW bs \in Bases,
         NEW out, out.sh = sh, out.tab = tab, out.sym = sym
  PROVE  LoadedSection(out, j, t, bs) = LoadedSection(input, j, t, bs)
<1> DEFINE m == input.sh[t].half
           D == DOMAIN m
           h == sh[t].half
           N == Was(j)
           R(n) == Rank(Off(j), t - 1, n)
           T == input.tab[Off(j)]
           U == tab[Off(j)]
           A == {e \in 1 .. N : Resolved(T[e], t - 1)}
           S == {e \in 1 .. N : T[e].type \in Skipped}
           Addr(e) == Resolve(input, T[e], bs)
           x == [e \in 1 .. N |-> First(T[e], bs[t], Addr(e))]
           y == [e \in 1 .. N |-> Second(T[e], bs[t], Addr(e))]
<1>1. /\ N \in Nat /\ N = input.sh[j].size /\ T = input.tab[input.sh[j].offset]
      /\ \A e : T[e] = Entry(j, e)
  BY FileFacts DEF CompactInv, HeadersInv, Relas, Was, IsHeader, Off, Entry
<1>2. /\ sh[j].size \in Nat /\ sh[j].size = R(N) /\ sh[j].offset = Off(j)
      /\ \A e \in 1 .. N : Kept(T[e], t - 1) => U[R(e)] = T[e]
  <2>1. Target(Off(j)) = t - 1 /\ t - 1 # 0
    <3>1. Target(Off(j)) = t - 1
      BY OwnTarget
    <3>2. t - 1 # 0
      BY DEF Named
    <3> QED
      BY <3>1, <3>2
  <2>2. Final(j)
    BY DEF RunInv, CleanInv, KeepInv
  <2>3. sh[j].size \in Nat /\ sh[j].offset = Off(j)
    BY RelaFacts
  <2> QED
    BY <2>1, <2>2, <2>3 DEF Final, Ranked
<1>3. PatchedTo(h, j, t, N)
  <2>1. Read(j) = N
    BY DEF RunInv, CleanInv, Read
  <2> QED
    BY <2>1 DEF PatchInv
<1>4. PICK g : /\ LoadedSection(input, j, t, bs) = g[N] /\ g[0] = m
               /\ \A n \in 0 .. N - 1 : g[n + 1] = OnDevice(input, T[n + 1], g[n], bs, bs[t])
  BY <1>1, LoadedUnfolds
<1>5. PICK f : /\ LoadedSection(out, j, t, bs) = f[R(N)] /\ f[0] = h
                /\ \A n \in 0 .. R(N) - 1 : f[n + 1] = OnDevice(out, U[n + 1], f[n], bs, bs[t])
  <2> HIDE DEF R, U
  <2>1. R(N) \in Nat /\ R(N) = out.sh[j].size /\ U = out.tab[out.sh[j].offset] /\ h = out.sh[t].half
    BY <1>2 DEF U
  <2> HIDE DEF h
  <2> QED
    BY <2>1, LoadedUnfolds
<1> DEFINE l == [n \in 0 .. N |-> f[R(n)]]
\* The entries of the original.
<1>6. /\ m \in Images(D) /\ h \in Images(D)
      /\ A \in SUBSET (1 .. N) /\ S \in SUBSET (1 .. N) /\ \A e \in A : e \notin S
      /\ \A e \in (1 .. N) \ S : T[e].offset \in Int /\ Cover(T[e]) \subseteq D
      /\ \A e \in A, d \in (1 .. N) \ S : d # e => \A a \in Cover(T[e]) : a \notin Cover(T[d])
  <2>1. m \in Images(D) /\ h \in Images(D)
    BY <1>3, AssembledFacts DEF PatchedTo
  <2>2. \A e \in A : e \notin S
    BY AssembledFacts DEF Entry
  <2>3. \A e \in (1 .. N) \ S : T[e].offset \in Int /\ Cover(T[e]) \subseteq D
    BY EntryFacts, AssembledFacts DEF Entry
  <2>4. \A e \in A, d \in (1 .. N) \ S : d # e => \A a \in Cover(T[e]) : a \notin Cover(T[d])
    BY AssembledFacts DEF Entry
  <2> QED
    BY <2>1, <2>2, <2>3, <2>4
<1>7. /\ \A e \in A : \A a \in Cover(T[e]) : h[a] = Made(T[e], m, x[e], y[e])[a]
      /\ \A a \in D : (\A e \in A : a \notin Cover(T[e])) => h[a] = m[a]
  <2>1. ASSUME NEW e \in A, NEW a \in Cover(T[e]) PROVE h[a] = Made(T[e], m, x[e], y[e])[a]
    <3>1. e \in 1 .. N /\ e <= N /\ Resolved(Entry(j, e), t - 1) /\ T[e] = Entry(j, e)
      BY <1>1
    <3>2. h[a] = Made(T[e], m, Dist(T[e]), Dist(T[e]))[a]
      BY <1>3, <2>1, <3>1 DEF PatchedTo
    <3>3. x[e] = First(T[e], bs[t], Addr(e)) /\ y[e] = Second(T[e], bs[t], Addr(e))
      BY <3>1
    <3>4. Made(T[e], m, x[e], y[e]) = Made(T[e], m, Dist(T[e]), Dist(T[e]))
      <4> HIDE DEF x, y, m, T, N
      <4> QED
        BY <3>1, <3>3, AppliedValues DEF N
    <3> QED
      BY <3>2, <3>4
  <2>2. \A a \in D : (\A e \in A : a \notin Cover(T[e])) => h[a] = m[a]
    BY <1>3 DEF PatchedTo, Entry
  <2> QED
    BY <2>1, <2>2
<1>8. ASSUME NEW n \in 0 .. N - 1, g[n] \in Images(D)
      PROVE  g[n + 1] = IF n + 1 \in S THEN g[n] ELSE Made(T[n + 1], g[n], x[n + 1], y[n + 1])
  <2> DEFINE e == n + 1
  <2>1. e \in 1 .. N
    BY <1>1
  <2>2. g[e] = OnDevice(input, T[e], g[n], bs, bs[t])
    BY <1>4
  <2> HIDE DEF e
  <2>3. CASE e \in S
    <3>1. T[e].type \in Skipped
      BY <2>3
    <3>2. OnDevice(input, T[e], g[n], bs, bs[t]) = g[n]
      BY <3>1 DEF OnDevice
    <3> QED
      BY <2>2, <2>3, <3>2 DEF e
  <2>4. CASE e \notin S
    <3>1. T[e].type \notin Skipped /\ T[e].offset \in Int /\ Cover(T[e]) \subseteq D
      BY <1>6, <2>1, <2>4
    <3>2. x[e] = First(T[e], bs[t], Addr(e)) /\ y[e] = Second(T[e], bs[t], Addr(e))
      BY <2>1
    <3> HIDE DEF T, D, x, y, S
    <3>3. OnDevice(input, T[e], g[n], bs, bs[t])
            = Made(T[e], g[n], First(T[e], bs[t], Addr(e)), Second(T[e], bs[t], Addr(e)))
      BY <1>8, <3>1, DeviceIsMade
    <3> QED
      BY <2>2, <2>4, <3>2, <3>3 DEF e
  <2> QED
    BY <2>3, <2>4
\* The entries that are left.
<1>9. /\ R(0) = 0
      /\ \A n \in 0 .. N - 1 :
           /\ R(n) \in Nat /\ R(n + 1) \in 0 .. R(N)
           /\ R(n + 1) = R(n) + IF Kept(T[n + 1], t - 1) THEN 1 ELSE 0
  <2>1. \A n \in 0 .. N : R(n) \in Nat /\ R(n) <= R(N)
    BY <1>1, RankFacts
  <2>2. \A n \in 0 .. N - 1 : R(n + 1) = R(n) + IF Kept(T[n + 1], t - 1) THEN 1 ELSE 0
    BY <1>1, RankFacts
  <2>3. R(0) = 0
    BY <1>1, RankFacts
  <2>4. N \in Nat
    BY <1>1
  <2> HIDE DEF R, N
  <2>5. \A n \in 0 .. N - 1 : n \in 0 .. N /\ n + 1 \in 0 .. N
    BY <2>4
  <2>6. ASSUME NEW n \in 0 .. N - 1 PROVE R(n) \in Nat /\ R(n + 1) \in 0 .. R(N)
    <3>1. n \in 0 .. N /\ n + 1 \in 0 .. N /\ N \in 0 .. N
      BY <2>4, <2>5
    <3>2. R(n) \in Nat /\ R(n + 1) \in Nat /\ R(N) \in Nat /\ R(n + 1) <= R(N)
      BY ONLY <2>1, <3>1, SMTT(30)
    <3> QED
      BY <3>2
  <2> QED
    BY <2>2, <2>3, <2>6
<1>10. \A e \in 1 .. N : T[e].type \notin Skipped => Resolve(out, T[e], bs) = Addr(e)
  <2> SUFFICES ASSUME NEW e \in 1 .. N PROVE Resolve(out, T[e], bs) = Addr(e)
    OBVIOUS
  <2>1. T[e].sym + 1 \in DOMAIN input.sym
    BY EntryFacts DEF Entry
  <2>2. /\ sym[T[e].sym + 1].shndx = input.sym[T[e].sym + 1].shndx
        /\ sym[T[e].sym + 1].value = input.sym[T[e].sym + 1].value
        /\ sym[T[e].sym + 1].shndx = 0 => sym[T[e].sym + 1].name = input.sym[T[e].sym + 1].name
    BY <2>1 DEF RunInv, SymInv
  <2> QED
    BY <2>2 DEF Resolve
<1>11. ASSUME NEW n \in 0 .. N - 1, l[n] \in Images(D)
       PROVE  l[n + 1] = IF n + 1 \in S \cup A THEN l[n] ELSE Made(T[n + 1], l[n], x[n + 1], y[n + 1])
  <2> DEFINE e == n + 1
  <2>1. e \in 1 .. N /\ l[n] = f[R(n)] /\ l[e] = f[R(e)]
    BY <1>1
  <2>2. /\ R(n) \in Nat /\ R(e) \in 0 .. R(N) /\ R(N) \in Nat
        /\ R(e) = R(n) + IF Kept(T[e], t - 1) THEN 1 ELSE 0
    BY <1>2, <1>9
  <2> HIDE DEF R, e, l
  <2>3. CASE Kept(T[e], t - 1)
    <3>1. R(e) = R(n) + 1 /\ R(n) \in 0 .. R(N) - 1
      BY <2>2, <2>3
    <3>2. U[R(n) + 1] = T[e]
      BY <1>2, <2>1, <2>3, <3>1
    <3>3. l[e] = OnDevice(out, T[e], l[n], bs, bs[t])
      BY <1>5, <2>1, <3>1, <3>2
    <3>4. e \notin A
      BY <2>3 DEF Kept
    <3>5. CASE e \in S
      <4>1. T[e].type \in Skipped
        BY <3>5
      <4>2. OnDevice(out, T[e], l[n], bs, bs[t]) = l[n]
        BY <4>1 DEF OnDevice
      <4> QED
        BY <3>3, <3>5, <4>2 DEF e
    <3>6. CASE e \notin S
      <4>1. T[e].type \notin Skipped /\ T[e].offset \in Int /\ Cover(T[e]) \subseteq D
            /\ Resolve(out, T[e], bs) = Addr(e)
        BY <1>6, <1>10, <2>1, <3>6
      <4>2. x[e] = First(T[e], bs[t], Addr(e)) /\ y[e] = Second(T[e], bs[t], Addr(e))
        BY <2>1
      <4> HIDE DEF T, D, x, y, S, A
      <4>3. OnDevice(out, T[e], l[n], bs, bs[t])
              = Made(T[e], l[n], First(T[e], bs[t], Addr(e)), Second(T[e], bs[t], Addr(e)))
        BY <1>11, <4>1, DeviceIsMade
      <4> QED
        BY <3>3, <3>4, <3>6, <4>2, <4>3 DEF e
    <3> QED
      BY <3>5, <3>6
  <2>4. CASE ~Kept(T[e], t - 1)
    <3>1. l[e] = l[n]
      BY <2>1, <2>2, <2>4
    <3>2. e \in S \cup A
      BY <2>1, <2>4 DEF Kept, Skipped
    <3> QED
      BY <3>1, <3>2 DEF e
  <2> QED
    BY <2>3, <2>4
<1>12. l[0] = h /\ l[N] = f[R(N)]
  BY <1>1, <1>5, <1>9
<1> HIDE DEF m, D, h, N, R, T, U, A, S, x, y, l
<1>13. /\ OwnPlaces(D, T, N, A, S) /\ Ahead(D, T, A, x, y, m, h)
       /\ Follows(D, T, N, S, x, y, g) /\ Follows(D, T, N, S \cup A, x, y, l)
  <2>1. OwnPlaces(D, T, N, A, S)
    BY <1>6 DEF OwnPlaces
  <2>2. Ahead(D, T, A, x, y, m, h)
    BY <1>7 DEF Ahead
  <2>3. Follows(D, T, N, S, x, y, g)
    BY <1>8, ZenonT(40) DEF Follows
  <2>4. Follows(D, T, N, S \cup A, x, y, l)
    BY <1>11, ZenonT(40) DEF Follows
  <2> QED
    BY <2>1, <2>2, <2>3, <2>4
<1>14. g[N] = l[N]
  BY <1>1, <1>4, <1>6, <1>12, <1>13, SameInTheEnd
<1> QED
  BY <1>4, <1>5, <1>12, <1>14

\* For every file whose tables and section names lie apart and whose calls have
\* no addend, each section as an assembler leaves it is loaded from the tool's
\* output, run once or twice, exactly as from the original, at whatever
\* addresses the device loads the sections and whatever is exported.
THEOREM ImageSurvives == Spec => []SameLoadedImage
<1>1. /\ TablesApart => KeepInv
      /\ TablesApart /\ NamesApart => PatchInv
      /\ CompactInv /\ RunInv
      => SameLoadedImage
  <2> SUFFICES ASSUME KeepInv, PatchInv, CompactInv, RunInv,
                      pc = "done", TablesApart, NamesApart, CallsPlain,
                      NEW out, out = [sh |-> sh, tab |-> tab, sym |-> sym],
                      NEW j \in DOMAIN sh, NEW t \in DOMAIN sh, NEW bs \in Bases,
                      IsRela(sh[j]), sh[t].name = Tail(sh[j].name), t # 1, Assembled(j, t)
               PROVE  LoadedSection(out, j, t, bs) = LoadedSection(input, j, t, bs)
    BY DEF SameLoadedImage
  <2>1. j \in Relas /\ t \in Named(j)
    <3>1. Len(input.sh) \in Nat
      BY FileFacts DEF CompactInv, HeadersInv
    <3>2. DOMAIN sh = 1 .. Len(input.sh)
      BY <3>1, FunctionIsSeq DEF CompactInv, HeadersInv
    <3> QED
      BY <3>1, <3>2 DEF Relas, Named, IsRela, CompactInv, HeadersInv
  <2> QED
    BY <2>1, LoadedAlike
<1> QED
  BY <1>1, PatchInvariant, PTL

=============================================================================
