--------------------------- MODULE ElfLoaderProofs ---------------------------
(***************************************************************************)
(* Proofs about the loader for every set of images, word size, heap and    *)
(* symbol table: its types, its heap, where its sections lie, where and    *)
(* with what it patches, which image it starts and what it finds for an    *)
(* address, and that the boot task implements BootContract.                *)
(***************************************************************************)
EXTENDS ElfLoader, FiniteSetTheorems, SequenceTheorems, WellFoundedInduction, TLAPS

-----------------------------------------------------------------------------
(* The operators.                                                          *)

\* What a uint32_t holds is a number.
LEMMA WordsAreInts == Words \subseteq Int /\ Words \subseteq Nat /\ 0 \in Words
BY WordAssumption DEF Words

\* Arithmetic modulo the word size stays in a word.
LEMMA ModWord == ASSUME NEW n \in Int PROVE n % Word \in Words
BY WordAssumption DEF Words

\* Rounding up to a multiple of four stays in a word, also when it wraps.
LEMMA AlignWord == ASSUME NEW n \in Words PROVE ELF_ALIGN(n) \in Words
<1>1. (n + 3) % Word \in 0 .. Word - 1
  BY WordAssumption DEF Words
<1>2. \A m \in 0 .. Word - 1 : (m \div 4) * 4 \in 0 .. Word - 1
  BY WordAssumption
<1> QED
  BY <1>1, <1>2 DEF ELF_ALIGN, Words

\* The first index with a property is one of those with the property.
LEMMA MinOfNats == ASSUME NEW S \in SUBSET Nat, S # {} PROVE Min(S) \in S
<1>1. \E x \in S : \A y \in S : ~ (<<y, x>> \in OpToRel(<, Nat))
  BY WFMin, NatLessThanWellFounded
<1>2. \E x \in S : \A y \in S : x <= y
  <2>1. PICK x \in S : \A y \in S : ~ (<<y, x>> \in OpToRel(<, Nat))
    BY <1>1
  <2>2. ASSUME NEW y \in S PROVE ~ (y < x)
    BY <2>1 DEF OpToRel
  <2> QED
    BY <2>2
<1> QED
  BY <1>2 DEF Min

\* A symbol found in the export tables has an address; one that is not found
\* has NULL.
LEMMA FoundSymbol == ASSUME NEW name PROVE elf_find_sym(name) \in Words
<1> DEFINE T == [name : Seq(STRING), sym : Words]
           syms == g_esp_libc_elfsyms \o g_esp_espidf_elfsyms \o g_customer_elfsyms
           I == {j \in 1 .. Len(syms) : syms[j].name = name}
<1>1. syms \in Seq(T)
  BY SymbolsAssumption
<1>2. I # {} => Min(I) \in 1 .. Len(syms)
  <2>1. I \in SUBSET Nat
    BY <1>1
  <2> QED
    BY <2>1, MinOfNats
<1>3. elf_find_sym(name) = IF I = {} THEN NULL ELSE syms[Min(I)].sym
  <2> HIDE DEF syms
  <2>1. I # {} => Min(I) # 0
    BY <1>2, <1>1
  <2> QED
    BY <2>1 DEF elf_find_sym, SelectInSeq, syms
<1>4. ASSUME NEW j \in 1 .. Len(syms) PROVE syms[j].sym \in Words
  <2> HIDE DEF syms, T
  <2>1. syms[j] \in T
    BY <1>1
  <2> QED
    BY <2>1 DEF T
<1> HIDE DEF syms, I
<1> QED
  BY <1>2, <1>3, <1>4, WordsAreInts DEF NULL

\* The chain of strstr() tests answers with a section or fails.
LEMMA TargetIsSection == ASSUME NEW name, RelaTarget(name) # "none"
                         PROVE  RelaTarget(name) \in SecIds
<1> DEFINE I == {j \in 1 .. Len(RelaOrder) : strstr(name, SecName[RelaOrder[j]])}
<1>1. I # {} => Min(I) \in 1 .. 5
  BY MinOfNats DEF RelaOrder
<1>2. RelaTarget(name) = "none" \/ (I # {} /\ RelaTarget(name) = RelaOrder[Min(I)])
  BY DEF RelaTarget, SelectInSeq
<1> HIDE DEF I
<1> QED
  BY <1>1, <1>2 DEF RelaOrder, SecIds

-----------------------------------------------------------------------------
(* Types.                                                                  *)

\* What the scan and the loops of esp_elf_relocate know of an image.
LEMMA ImageTypes ==
  ASSUME NEW im \in Images
  PROVE  /\ im.entry \in Words /\ im.sh \in Seq(SectionHeaders) /\ im.sym \in Seq(Symbols)
         /\ \A j \in 1 .. Len(im.sh) : im.sh[j] \in SectionHeaders
BY ImagesAssumption

\* The fields of a relocation entry of an image have their types.
LEMMA EntryTypes ==
  ASSUME NEW im \in Images, NEW j \in 1 .. Len(im.sh), NEW e \in 1 .. Len(im.sh[j].rela)
  PROVE  /\ im.sh[j].rela[e] \in RelaEntries
         /\ im.sym[im.sh[j].rela[e].sym + 1] \in Symbols
<1>1. im.sh[j] \in SectionHeaders /\ im.sym \in Seq(Symbols)
  BY ImageTypes
<1>2. im.sh[j].rela \in Seq(RelaEntries)
  BY <1>1 DEF SectionHeaders
<1>3. im.sh[j].rela[e] \in RelaEntries
  BY <1>2
<1>4. im.sh[j].rela[e].sym \in Nat
  BY <1>3 DEF RelaEntries
<1>5. im.sh[j].rela[e].sym < Len(im.sym)
  <2>1. j \in DOMAIN im.sh /\ e \in DOMAIN im.sh[j].rela
    BY <1>2, ImageTypes
  <2> QED
    BY <2>1, ImagesAssumption
<1>6. im.sh[j].rela[e].sym + 1 \in 1 .. Len(im.sym)
  <2> DEFINE y == im.sh[j].rela[e].sym
             n == Len(im.sym)
  <2>1. n \in Nat /\ y \in Nat /\ y < n
    BY <1>1, <1>4, <1>5
  <2> HIDE DEF y, n
  <2>2. y + 1 \in 1 .. n
    BY ONLY <2>1
  <2> QED
    BY <2>2 DEF y, n
<1> QED
  BY <1>1, <1>3, <1>6

\* A name read changes at most the count of failed reads.
LEMMA NameErrs ==
  ASSUME nameErrs \in 0 .. MaxNameErrors, NEW x, NEW n, ReadName(x, n) \/ UNCHANGED nameErrs
  PROVE  nameErrs' \in 0 .. MaxNameErrors
BY BoundAssumption DEF ReadName

AtStart == pc \in {"boot", "open"} => i = 1

\* The file is open or not.
LEMMA FileStep == file \in BOOLEAN /\ [Next]_vars => file' \in BOOLEAN
<1> SUFFICES ASSUME file \in BOOLEAN, [Next]_vars PROVE file' \in BOOLEAN
  OBVIOUS
<1>1. CASE Open \/ Close \/ Restart
  BY <1>1, Zenon DEF Open, Close, Restart
<1>2. CASE file' = file
  BY <1>2
<1> QED
  BY <1>1, <1>2, Zenon DEF Next, System, vars, Boot, ReadHeader, ScanSection, AllocText, AllocData,
     LoadText, LoadData, SetEntry, RelaSection, RelaDone, Relocate, RelocDone, EntryReturns,
     Deinit

\* Every step keeps the control variables and the loop counters in range.
LEMMA ControlStep ==
  TypeOK /\ AtStart /\ [Next]_vars => ControlOK' /\ AtStart'
<1> SUFFICES ASSUME TypeOK, AtStart, [Next]_vars PROVE ControlOK' /\ AtStart'
  OBVIOUS
<1> USE DEF TypeOK, ControlOK, AtStart, PCs, Return
<1>0. Len(image.sh) \in Nat /\ BoundAssumption
  BY ImageTypes, BoundAssumption
<1>1. CASE Boot
  BY <1>1 DEF Boot
<1>2. CASE Open
  <2>1. \A im \in Images : Len(im.sh) \in Nat
    BY ImageTypes
  <2> QED
    BY <1>2, <2>1 DEF Open
<1>3. CASE ReadHeader
  BY <1>0, <1>3 DEF ReadHeader
<1>4. CASE ScanSection
  <2>1. nameErrs' \in 0 .. MaxNameErrors
    BY <1>4, NameErrs DEF ScanSection
  <2>2. image' = image /\ k' = k
    BY <1>4 DEF ScanSection
  <2>3. \/ ret' = "ENOEXEC" /\ pc' = "close" /\ i' = i
        \/ ret' = ret /\ pc' = pc /\ pc = "scan" /\ i' = i + 1 /\ i <= Len(image.sh)
    BY <1>4 DEF ScanSection
  <2> QED
    BY <1>0, <2>1, <2>2, <2>3
<1>5. CASE AllocText \/ AllocData \/ LoadText \/ \E s \in DOMAIN AfterLoad : LoadData(s)
  BY <1>5 DEF AllocText, AllocData, LoadText, LoadData, AfterLoad
<1>6. CASE SetEntry
  BY <1>0, <1>6 DEF SetEntry
<1>7. CASE RelaSection
  BY <1>0, <1>7, NameErrs DEF RelaSection
<1>8. CASE Relocate
  <2>1. nameErrs' \in 0 .. MaxNameErrors
    BY <1>8, NameErrs, Zenon DEF Relocate
  <2>2. image' = image /\ i' = i /\ pc = "reloc"
    BY <1>8, Zenon DEF Relocate
  <2>3. \/ ret' \in {"EINVAL", "ENOEXEC", "ENOSYS"} /\ pc' = "close" /\ k' = k
        \/ ret' = ret /\ pc' = pc /\ k' = k + 1
    BY <1>8, Zenon DEF Relocate
  <2> QED
    BY <1>0, <2>1, <2>2, <2>3
<1>9. CASE RelaDone \/ RelocDone
  BY <1>0, <1>9 DEF RelaDone, RelocDone
<1>10. CASE Close \/ EntryReturns \/ Deinit
  BY <1>10 DEF Close, EntryReturns, Deinit
<1>11. CASE Restart
  BY <1>0, <1>11 DEF Restart
<1>12. CASE UNCHANGED vars
  BY <1>12 DEF vars
<1> QED
  BY <1>1, <1>2, <1>3, <1>4, <1>5, <1>6, <1>7, <1>8, <1>9, <1>10, <1>11, <1>12
     DEF Next, System

\* The value of a symbol is a word.
LEMMA SymbolTypes == ASSUME NEW y \in Symbols PROVE y.value \in Words /\ y.value \in Int
<1>1. y.value \in Words
  BY DEF Symbols
<1> QED
  BY <1>1, WordsAreInts

\* The fields of a section header of an image have their types.
LEMMA HeaderType ==
  ASSUME TypeOK, i <= Len(image.sh)
  PROVE  i \in 1 .. Len(image.sh) /\ image.sh[i] \in SectionHeaders
<1>1. image \in Images /\ i \in 1 .. Len(image.sh) + 1 /\ Len(image.sh) \in Nat
  BY ImageTypes DEF TypeOK, ControlOK
<1>2. i \in 1 .. Len(image.sh)
  BY <1>1
<1> QED
  BY <1>1, <1>2, ImageTypes

\* The fields of a loaded section are words.
LEMMA SectionTypes ==
  ASSUME TypeOK, NEW s \in SecIds
  PROVE  /\ sec[s].addr \in Words /\ sec[s].size \in Words /\ sec[s].v_addr \in Words
         /\ sec[s].addr \in Nat /\ sec[s].size \in Nat /\ sec[s].v_addr \in Nat
<1>1. sec[s] \in Sections
  BY DEF TypeOK, ObjectOK
<1> QED
  BY <1>1, WordsAreInts DEF Sections

\* The size of the data block is a word.
LEMMA DataSizeType == ASSUME TypeOK PROVE DataSize(sec) \in Words
<1>1. {"DATA", "RODATA", "BSS", "DRLRO"} \subseteq SecIds
  BY DEF SecIds
<1>2. sec["DATA"].size + sec["RODATA"].size + sec["BSS"].size + sec["DRLRO"].size \in Int
  BY <1>1, SectionTypes
<1> QED
  BY <1>2, ModWord DEF DataSize

\* Every step keeps the types of the ELF object and of the local pointers.
LEMMA ObjectStep == TypeOK /\ [Next]_vars => ObjectOK'
<1> SUFFICES ASSUME TypeOK, [Next]_vars PROVE ObjectOK'
  OBVIOUS
<1> USE DEF TypeOK, ObjectOK
<1>1. CASE Boot
  <2>1. NoSec \in Sections
    BY WordsAreInts DEF NoSec, Sections
  <2>2. [s \in SecIds |-> NoSec] \in [SecIds -> Sections]
    BY <2>1
  <2> QED
    BY <1>1, <2>2, WordsAreInts DEF Boot, esp_elf_init, elfVars
<1>2. CASE ScanSection
  <2>1. image.sh[i] \in SectionHeaders
    BY <1>2, HeaderType DEF ScanSection
  <2>2. ASSUME NEW s \in SecIds PROVE sec'[s] \in Sections
    <3>1. sec[s] \in Sections
      OBVIOUS
    <3>2. ELF_ALIGN(image.sh[i].size) \in Words
      BY <2>1, AlignWord DEF SectionHeaders
    <3>3. \A z \in Words :
            [sec[s] EXCEPT !.v_addr = image.sh[i].v_addr, !.size = z,
                           !.offset = image.sh[i].offset] \in Sections
      BY <2>1, <3>1 DEF SectionHeaders, Sections
    <3> QED
      BY <1>2, <2>1, <3>1, <3>2, <3>3 DEF ScanSection, SectionHeaders
  <2>3. sec' = sec \/ sec' = [s \in SecIds |-> sec'[s]]
    BY <1>2 DEF ScanSection
  <2>4. sec' \in [SecIds -> Sections]
    BY <2>2, <2>3
  <2> QED
    BY <1>2, <2>4 DEF ScanSection
<1>3. CASE AllocText \/ AllocData
  BY <1>3 DEF AllocText, AllocData, esp_elf_malloc
<1>4. CASE LoadText
  <2>1. ptext \in Words /\ pdata \in Words
    BY HeapAssumption, WordsAreInts DEF NULL
  <2>2. sec' \in [SecIds -> Sections]
    BY <1>4, <2>1 DEF LoadText, SecIds, Sections
  <2> QED
    BY <1>4, <2>1, <2>2 DEF LoadText
<1>5. ASSUME NEW s \in DOMAIN AfterLoad, LoadData(s) PROVE ObjectOK'
  <2>0. s \in SecIds
    BY DEF AfterLoad, SecIds
  <2>1. sec' \in [SecIds -> Sections]
    BY <1>5, <2>0 DEF LoadData, Sections
  <2>2. cur' \in Words
    <3>1. sec[s].size \in Int /\ cur \in Int
      BY <2>0, WordsAreInts DEF Sections
    <3>2. (cur + sec[s].size) % Word \in Words
      BY <3>1, ModWord
    <3> QED
      BY <1>5, <3>2 DEF LoadData
  <2> QED
    BY <1>5, <2>1, <2>2 DEF LoadData
<1>6. CASE SetEntry
  <2>1. image.entry \in Int
    BY ImageTypes, WordsAreInts DEF ControlOK
  <2>2. image.entry + sec["TEXT"].addr - sec["TEXT"].v_addr \in Int
    BY <2>1, SectionTypes DEF SecIds
  <2>3. entry' \in Words
    BY <1>6, <2>2, ModWord DEF SetEntry
  <2> QED
    BY <1>6, <2>3 DEF SetEntry
<1>7. CASE RelaSection
  <2>1. base' \in Words
    BY <1>7, TargetIsSection DEF RelaSection, Sections
  <2> QED
    BY <1>7, <2>1 DEF RelaSection, elfVars
<1>8. CASE Deinit \/ Restart
  BY <1>8, WordsAreInts DEF Deinit, esp_elf_deinit, Restart, elfVars
<1>9. CASE UNCHANGED <<elfVars, cur, base>>
  BY <1>9 DEF elfVars
<1> QED
  BY <1>1, <1>2, <1>3, <1>4, <1>5, <1>6, <1>7, <1>8, <1>9, Zenon
     DEF Next, System, vars, elfVars, Open, ReadHeader, RelaDone, Relocate, RelocDone,
         Close, EntryReturns

\* Every step keeps the types of heap, memory and patches.
LEMMA MemoryStep == TypeOK /\ [Next]_vars => MemoryOK'
<1> SUFFICES ASSUME TypeOK, [Next]_vars PROVE MemoryOK'
  OBVIOUS
<1> USE DEF TypeOK, MemoryOK
<1>1. CASE AllocText
  <2>1. sec["TEXT"].size \in Words
    BY DEF ObjectOK, SecIds, Sections
  <2> QED
    BY <1>1, <2>1 DEF AllocText, esp_elf_malloc, NULL
<1>2. CASE AllocData
  <2>1. DataSize(sec) \in Words
    BY DataSizeType
  <2> QED
    BY <1>2, <2>1 DEF AllocData, esp_elf_malloc, NULL
<1>3. CASE LoadText \/ \E s \in DOMAIN AfterLoad : LoadData(s)
  BY <1>3 DEF LoadText, LoadData
<1>4. CASE Relocate
  <2> DEFINE r == image.sh[i].rela[k]
             sym == image.sym[r.sym + 1]
             at == (r.offset + base) % Word
  <2>1. /\ pc = "reloc" /\ i \in 1 .. Len(image.sh) /\ k \in 1 .. Len(image.sh[i].rela)
        /\ image \in Images
    <3>1. pc = "reloc" /\ k <= Len(image.sh[i].rela)
      BY <1>4, Zenon DEF Relocate
    <3>2. i \in 1 .. Len(image.sh) /\ image.sh[i].rela \in Seq(RelaEntries)
      BY <3>1, HeaderType DEF ControlOK, SectionHeaders
    <3> QED
      BY <3>1, <3>2 DEF ControlOK
  <2>2. r \in RelaEntries /\ sym \in Symbols
    BY <2>1, EntryTypes
  <2>3. at \in Words
    <3>1. r.offset \in Int /\ base \in Int
      BY <2>2, WordsAreInts DEF RelaEntries, ObjectOK
    <3> HIDE DEF r
    <3> QED
      BY <3>1, ModWord
  <2>4. ASSUME NEW n, sym.shndx \in {SHN_ABS, SHN_UNDEF} \/ \E s \in SecIds : SecName[s] = n
        PROVE  SymAddr(sym, n) \in Words
    <3>1. sym.value \in Words /\ sym.value \in Int
      BY <2>2, SymbolTypes
    <3>2. CASE \E s \in SecIds : SecName[s] = n
      <4> DEFINE c == CHOOSE s \in SecIds : SecName[s] = n
      <4>1. c \in SecIds
        BY <3>2
      <4>2. sec[c].addr \in Int
        BY <4>1, WordsAreInts DEF ObjectOK, Sections
      <4> HIDE DEF c
      <4>3. (sym.value + sec[c].addr) % Word \in Words
        <5> HIDE DEF sym
        <5>1. sym.value + sec[c].addr \in Int
          BY ONLY <3>1, <4>2
        <5> QED
          BY ONLY <5>1, ModWord, Zenon
      <4> QED
        BY <3>1, <4>3, FoundSymbol, Zenon DEF SymAddr, c
    <3>3. CASE sym.shndx \in {SHN_ABS, SHN_UNDEF}
      BY <3>1, <3>3, FoundSymbol DEF SymAddr
    <3> QED
      BY <2>4, <3>2, <3>3
  <2>5. ASSUME NEW a \in Words, esp_elf_arch_relocate(r, at, a) PROVE patches' \in Seq(Patches)
    <3>1. PatchValue(r.type, a, r.addend) \in Words
      BY <2>2, ModWord, WordsAreInts DEF PatchValue, RelaEntries
    <3>2. r.type \in WrittenTypes =>
            [type |-> r.type, at |-> at, val |-> PatchValue(r.type, a, r.addend)] \in Patches
      BY <2>3, <3>1 DEF Patches
    <3> QED
      BY <2>5, <3>2 DEF esp_elf_arch_relocate
  <2>6. \/ patches' = patches
        \/ \E n : /\ sym.shndx \in {SHN_ABS, SHN_UNDEF} \/ \E s \in SecIds : SecName[s] = n
                  /\ esp_elf_arch_relocate(r, at, SymAddr(sym, n))
    <3> HIDE DEF r, sym, at
    <3> QED
      BY <1>4, Zenon DEF Relocate, r, sym, at
  <2> HIDE DEF r, sym, at
  <2>7. patches' \in Seq(Patches)
    BY <2>4, <2>5, <2>6
  <2> QED
    BY <1>4, <2>7, Zenon DEF Relocate
<1>5. CASE Deinit
  BY <1>5 DEF Deinit, esp_elf_deinit
<1>7. CASE Restart
  <2>1. [s \in SecIds |-> "none"] \in [SecIds -> {"none", "file", "zero"}]
    OBVIOUS
  <2> QED
    BY <1>7, <2>1 DEF Restart
<1>6. CASE UNCHANGED memVars
  BY <1>6 DEF memVars
<1> QED
  BY <1>1, <1>2, <1>3, <1>4, <1>5, <1>6, <1>7
     DEF Next, System, vars, memVars, Boot, Open, ReadHeader, ScanSection, SetEntry,
         RelaSection, RelaDone, RelocDone, Close, EntryReturns

\* Type correctness; in particular the walks of esp_elf_relocate over section
\* headers and relocation entries never leave the tables of the file, every
\* address it computes is a 32-bit word and both blocks have a size.
THEOREM TypeCorrect == Spec => []TypeOK
<1>1. Init => TypeOK /\ AtStart
  <2> SUFFICES ASSUME Init PROVE TypeOK /\ AtStart
    OBVIOUS
  <2>1. ControlOK /\ AtStart
    <3>1. Len(image.sh) \in Nat
      BY ImageTypes DEF Init
    <3> QED
      BY <3>1, BoundAssumption DEF Init, ControlOK, AtStart, PCs
  <2>2. file \in BOOLEAN
    BY Zenon DEF Init
  <2>3. ObjectOK
    <3>1. NoSec \in Sections
      BY WordsAreInts DEF NoSec, Sections
    <3>2. sec \in [SecIds -> Sections]
      BY <3>1 DEF Init
    <3> QED
      BY <3>2, WordsAreInts DEF Init, ObjectOK
  <2>4. MemoryOK
    BY DEF Init, MemoryOK
  <2> QED
    BY <2>1, <2>2, <2>3, <2>4 DEF TypeOK
<1>2. TypeOK /\ AtStart /\ [Next]_vars => TypeOK' /\ AtStart'
  BY ControlStep, FileStep, ObjectStep, MemoryStep DEF TypeOK
<1> QED
  BY <1>1, <1>2, PTL DEF Spec

-----------------------------------------------------------------------------
(* Ownership of the heap blocks and of the file.                           *)

\* The pointers are NULL until their block is allocated, the heap is empty
\* outside a boot, and the file is open only while it is read.
Ownership ==
  /\ OwnedHeap
  /\ pc \in {"boot", "idle"} => heap = {}
  /\ pc \in {"open", "header", "scan"} => ptext = NULL /\ pdata = NULL
  /\ pc = "alloc_data" => pdata = NULL
  /\ pc = "restart" => heap = {}
FileInv == pc \in {"boot", "idle", "open", "running", "deinit", "restart"} => ~file

\* The file is open only from fopen to fclose.
LEMMA FileInvariant == Spec => []FileInv
<1>1. Init => FileInv
  BY Zenon DEF Init, FileInv
<1>2. FileInv /\ [Next]_vars => FileInv'
  <2> SUFFICES ASSUME FileInv, [Next]_vars PROVE FileInv'
    OBVIOUS
  <2> USE DEF FileInv
  <2>1. CASE Open
    BY <2>1 DEF Open
  <2>2. CASE Close \/ Restart
    BY <2>2 DEF Close, Restart
  <2>3. CASE \E s \in DOMAIN AfterLoad : LoadData(s)
    BY <2>3 DEF LoadData, AfterLoad, Return
  <2>4. CASE file' = file /\ ~(\E s \in DOMAIN AfterLoad : LoadData(s))
    BY <2>4, Zenon DEF Next, System, vars, Boot, Open, Close, ReadHeader, ScanSection, AllocText,
       AllocData, LoadText, SetEntry, RelaSection, RelaDone, Relocate, RelocDone,
       EntryReturns, Deinit, Restart, Return
  <2> QED
    BY <2>1, <2>2, <2>3, <2>4, Zenon DEF Next, System, vars, Boot, ReadHeader, ScanSection,
       AllocText,
       AllocData, LoadText, SetEntry, RelaSection, RelaDone, Relocate, RelocDone,
       EntryReturns, Deinit
<1> QED
  BY <1>1, <1>2, PTL DEF Spec

\* Every step keeps the heap equal to what the object points to.
LEMMA OwnershipStep == TypeOK /\ Ownership /\ [Next]_vars => Ownership'
<1> SUFFICES ASSUME TypeOK, Ownership, [Next]_vars PROVE Ownership'
  OBVIOUS
<1> USE DEF Ownership, OwnedHeap
<1>1. CASE Boot
  BY <1>1 DEF Boot, esp_elf_init, Block, memVars
<1>2. CASE Open
  BY <1>2 DEF Open, elfVars, memVars
<1>3. CASE ReadHeader
  BY <1>3 DEF ReadHeader, elfVars, memVars, Return
<1>4. CASE ScanSection
  <2>1. /\ pc = "scan" /\ pc' \in {"scan", "close"} /\ UNCHANGED <<heap, ptext, pdata>>
    BY <1>4 DEF ScanSection, memVars, Return
  <2> QED
    BY <2>1 DEF Block
<1>5. CASE AllocText
  <2>1. /\ pc = "scan" /\ UNCHANGED <<sec, pdata>> /\ pdata = NULL /\ ptext = NULL /\ heap = {}
    BY <1>5 DEF AllocText, Block
  <2>2. \/ pc' = "close" /\ heap' = heap /\ ptext' = NULL
        \/ /\ pc' = "alloc_data" /\ ptext' # NULL
           /\ heap' = heap \cup {[base |-> ptext', size |-> sec["TEXT"].size]}
    BY <1>5, <2>1, HeapAssumption DEF AllocText, Return, esp_elf_malloc
  <2> QED
    BY <2>1, <2>2 DEF Block
<1>6. CASE AllocData
  <2>1. /\ pc = "alloc_data" /\ UNCHANGED <<sec, ptext>> /\ pdata = NULL
        /\ heap = Block(ptext, sec["TEXT"].size)
    BY <1>6 DEF AllocData, Block
  <2>2. \/ pc' \in {"close", "load_text"} /\ heap' = heap /\ pdata' = NULL
        \/ /\ pc' = "load_text" /\ pdata' # NULL
           /\ heap' = heap \cup {[base |-> pdata', size |-> DataSize(sec)]}
    BY <1>6, <2>1, HeapAssumption DEF AllocData, Return, esp_elf_malloc
  <2> QED
    BY <2>1, <2>2 DEF Block
<1>7. CASE LoadText
  <2>1. /\ pc' \in {"DATA", "close"} /\ UNCHANGED <<heap, ptext, pdata>>
        /\ pc = "load_text" /\ sec' = [sec EXCEPT !["TEXT"].addr = ptext]
    BY <1>7 DEF LoadText, Return
  <2>2. sec'["TEXT"].size = sec["TEXT"].size /\ DataSize(sec') = DataSize(sec)
    BY <2>1 DEF DataSize, TypeOK, ObjectOK, SecIds, Sections
  <2> QED
    BY <2>1, <2>2
<1>8. ASSUME NEW s \in DOMAIN AfterLoad, LoadData(s) PROVE Ownership'
  <2>1. /\ pc' \in {"RODATA", "DRLRO", "BSS", "entry", "close"}
        /\ UNCHANGED <<heap, ptext, pdata>> /\ pc = s
        /\ sec' = sec \/ sec' = [sec EXCEPT ![s].addr = cur]
    BY <1>8 DEF LoadData, AfterLoad, Return
  <2>2. sec'["TEXT"].size = sec["TEXT"].size /\ DataSize(sec') = DataSize(sec)
    BY <2>1 DEF DataSize, TypeOK, ObjectOK, SecIds, Sections
  <2>3. pc \in {"DATA", "RODATA", "DRLRO", "BSS"}
    BY <2>1 DEF AfterLoad
  <2> QED
    BY <2>1, <2>2, <2>3
<1>9. CASE Deinit
  <2>1. heap = Block(ptext, sec["TEXT"].size) \cup Block(pdata, DataSize(sec))
    BY <1>9 DEF Deinit
  <2>2. \A b \in heap : b.base \in {pdata, ptext}
    BY <2>1 DEF Block
  <2>3. heap' = {} /\ ptext' = NULL /\ pdata' = NULL /\ pc' = "restart" /\ sec' = sec
    BY <1>9, <2>2 DEF Deinit, esp_elf_deinit
  <2> QED
    BY <2>3 DEF Block
<1>10. CASE Restart
  BY <1>10 DEF Restart
<1>11. CASE SetEntry \/ RelaSection \/ RelaDone \/ Relocate \/ RelocDone \/ Close \/ EntryReturns
  <2>1. /\ pc \in {"entry", "rela", "reloc", "close", "running"}
        /\ pc' \in {"rela", "reloc", "close", "running", "deinit"}
        /\ UNCHANGED <<heap, sec, ptext, pdata>>
    BY <1>11, Zenon DEF SetEntry, RelaSection, RelaDone, Relocate, RelocDone, Close, EntryReturns,
       Return, elfVars, memVars
  <2> QED
    BY <2>1
<1>12. CASE UNCHANGED vars
  BY <1>12 DEF vars
<1> QED
  BY <1>1, <1>2, <1>3, <1>4, <1>5, <1>6, <1>7, <1>8, <1>9, <1>10, <1>11, <1>12
     DEF Next, System

\* ... so the object owns the heap throughout.
LEMMA OwnershipInvariant == Spec => []Ownership
<1>1. Init => Ownership
  BY DEF Init, Ownership, OwnedHeap
<1> QED
  BY <1>1, OwnershipStep, TypeCorrect, PTL DEF Spec

\* The heap holds exactly the blocks elf->ptext and elf->pdata point to, on
\* every path through esp_elf_relocate and esp_elf_deinit.
THEOREM HeapIsOwned == Spec => []OwnedHeap
<1>1. Ownership => OwnedHeap
  BY DEF Ownership
<1> QED
  BY <1>1, OwnershipInvariant, PTL

\* When the restart count down begins no block is live and no file is open.
THEOREM AllReleased == Spec => []Released
<1>1. Ownership /\ FileInv => Released
  BY DEF Ownership, FileInv, Released
<1> QED
  BY <1>1, OwnershipInvariant, FileInvariant, PTL

-----------------------------------------------------------------------------
(* The layout of the loaded sections.                                      *)

DataSecs == {"DATA", "RODATA", "DRLRO", "BSS"}
\* Where a section starts in the data block.
DataOffset(s) ==
  CASE s = "DATA" -> 0
    [] s = "RODATA" -> sec["DATA"].size
    [] s = "DRLRO" -> sec["DATA"].size + sec["RODATA"].size
    [] s = "BSS" -> sec["DATA"].size + sec["RODATA"].size + sec["DRLRO"].size
DataSum == sec["DATA"].size + sec["RODATA"].size + sec["BSS"].size + sec["DRLRO"].size

Early == {"boot", "open", "header", "scan", "alloc_data", "load_text"}
Loading == {"load_text", "DATA", "RODATA", "DRLRO", "BSS"}

\* Nothing is loaded early, the two blocks are apart and end in the address
\* space, the loading starts with the blocks it needs.
BlocksInv ==
  /\ pc \in Early => \A s \in SecIds : ~Loaded(s)
  /\ pc \notin {"boot", "idle"} /\ ptext # NULL /\ pdata # NULL =>
       \/ ptext + sec["TEXT"].size <= pdata
       \/ pdata + DataSize(sec) <= ptext
  /\ pc \notin {"boot", "idle"} /\ ptext # NULL => ptext + sec["TEXT"].size < Word
  /\ pc \notin {"boot", "idle"} /\ pdata # NULL => pdata + DataSize(sec) < Word
  /\ pc \in Loading => ptext # NULL /\ (DataSize(sec) = 0 \/ pdata # NULL)
  /\ pc = "alloc_data" => ptext # NULL
\* The local pointer follows the sections, and so do their addresses.
PlacedInv ==
  /\ pc \in DataSecs /\ SumsFit => cur = pdata + DataOffset(pc)
  /\ pc \notin {"boot", "idle", "restart"} /\ Loaded("TEXT") =>
       ptext # NULL /\ sec["TEXT"].addr = ptext
  /\ pc \notin {"boot", "idle", "restart"} /\ SumsFit =>
       \A s \in DataSecs : Loaded(s) => pdata # NULL /\ sec[s].addr = pdata + DataOffset(s)

\* Reduction modulo the word size leaves a word alone.
LEMMA SmallMod == ASSUME NEW n \in Nat, n < Word PROVE n % Word = n
BY WordAssumption

\* Sizes and addresses of the sections are natural numbers.
LEMMA SizesAreNat ==
  ASSUME TypeOK
  PROVE  /\ sec["DATA"].size \in Nat /\ sec["RODATA"].size \in Nat
         /\ sec["DRLRO"].size \in Nat /\ sec["BSS"].size \in Nat
         /\ sec["TEXT"].size \in Nat /\ DataSize(sec) \in Nat
         /\ ptext \in Nat /\ pdata \in Nat /\ cur \in Nat
<1>1. DataSecs \cup {"TEXT"} \subseteq SecIds
  BY DEF DataSecs, SecIds
<1>2. ptext \in Nat /\ pdata \in Nat /\ cur \in Nat
  BY HeapAssumption, WordsAreInts DEF TypeOK, ObjectOK, NULL
<1> QED
  BY <1>1, <1>2, SectionTypes, DataSizeType, WordsAreInts DEF DataSecs

\* Without a wrap the data block is as large as its sections together.
LEMMA DataSizeIsSum == ASSUME TypeOK, SumsFit PROVE DataSize(sec) = DataSum
BY SizesAreNat, SmallMod DEF DataSize, SumsFit, DataSum

\* Every step keeps the two blocks apart and inside the address space.
LEMMA BlocksStep == TypeOK /\ Ownership /\ BlocksInv /\ [Next]_vars => BlocksInv'
<1> SUFFICES ASSUME TypeOK, Ownership, BlocksInv, [Next]_vars PROVE BlocksInv'
  OBVIOUS
<1> USE DEF BlocksInv, Early, Loading, Loaded
<1>1. CASE Boot
  BY <1>1 DEF Boot, esp_elf_init, memVars
<1>2. CASE Open \/ ReadHeader
  BY <1>2 DEF Open, ReadHeader, elfVars, memVars, Return
<1>3. CASE ScanSection
  <2>1. /\ pc = "scan" /\ pc' \in {"scan", "close"} /\ UNCHANGED <<mem, ptext, pdata>>
    BY <1>3 DEF ScanSection, memVars, Return
  <2> QED
    BY <2>1 DEF Ownership
<1>4. CASE AllocText
  <2>1. /\ pc = "scan" /\ pc' \in {"close", "alloc_data"} /\ UNCHANGED <<mem, sec, pdata>>
        /\ pc' = "alloc_data" => ptext' # NULL
        /\ ptext' # NULL => ptext' + sec["TEXT"].size < Word
    BY <1>4, HeapAssumption DEF AllocText, esp_elf_malloc, Return
  <2> QED
    BY <2>1 DEF Ownership
<1>5. CASE AllocData
  <2>1. pc = "alloc_data" /\ UNCHANGED <<mem, sec, ptext>> /\ ptext # NULL /\ pdata = NULL
    BY <1>5 DEF AllocData, Ownership
  <2>2. \/ pc' = "close" /\ pdata' = NULL
        \/ pc' = "load_text" /\ DataSize(sec) = 0 /\ pdata' = NULL
        \/ pc' = "load_text" /\ pdata' \in esp_elf_malloc(DataSize(sec))
    BY <1>5, <2>1 DEF AllocData, Return
  <2>3. [base |-> ptext, size |-> sec["TEXT"].size] \in heap
    BY <2>1 DEF Ownership, OwnedHeap, Block
  <2>4. CASE pdata' \in esp_elf_malloc(DataSize(sec)) /\ pc' = "load_text"
    <3>1. /\ pdata' + DataSize(sec) < Word /\ pdata' # NULL
          /\ pdata' + DataSize(sec) <= ptext \/ ptext + sec["TEXT"].size <= pdata'
      BY <2>3, <2>4, HeapAssumption DEF esp_elf_malloc
    <3> QED
      BY <2>1, <2>4, <3>1
  <2> QED
    BY <2>1, <2>2, <2>4
<1>6. CASE LoadText
  <2>1. /\ pc' \in {"DATA", "close"} /\ UNCHANGED <<ptext, pdata>>
        /\ pc = "load_text" /\ sec' = [sec EXCEPT !["TEXT"].addr = ptext]
    BY <1>6 DEF LoadText, Return
  <2>2. sec'["TEXT"].size = sec["TEXT"].size /\ DataSize(sec') = DataSize(sec)
    BY <2>1 DEF DataSize, TypeOK, ObjectOK, SecIds, Sections
  <2> QED
    BY <2>1, <2>2
<1>7. ASSUME NEW s \in DOMAIN AfterLoad, LoadData(s) PROVE BlocksInv'
  <2>1. /\ pc' \in {"RODATA", "DRLRO", "BSS", "entry", "close"} /\ UNCHANGED <<ptext, pdata>>
        /\ pc = s /\ (sec' = sec \/ sec' = [sec EXCEPT ![s].addr = cur])
    BY <1>7 DEF LoadData, AfterLoad, Return
  <2>2. sec'["TEXT"].size = sec["TEXT"].size /\ DataSize(sec') = DataSize(sec)
    BY <2>1 DEF DataSize, TypeOK, ObjectOK, SecIds, Sections
  <2>3. pc \in {"DATA", "RODATA", "DRLRO", "BSS"}
    BY <2>1 DEF AfterLoad
  <2> QED
    BY <2>1, <2>2, <2>3
<1>8. CASE Deinit \/ Restart
  BY <1>8 DEF Deinit, esp_elf_deinit, Restart
<1>9. CASE SetEntry \/ RelaSection \/ RelaDone \/ Relocate \/ RelocDone \/ Close \/ EntryReturns
  <2>1. /\ pc \in {"entry", "rela", "reloc", "close", "running"}
        /\ pc' \in {"rela", "reloc", "close", "running", "deinit"}
        /\ UNCHANGED <<sec, ptext, pdata>>
    BY <1>9, Zenon DEF SetEntry, RelaSection, RelaDone, Relocate, RelocDone, Close, EntryReturns,
       Return, elfVars
  <2> QED
    BY <2>1
<1>10. CASE UNCHANGED vars
  BY <1>10 DEF vars
<1> QED
  BY <1>1, <1>2, <1>3, <1>4, <1>5, <1>6, <1>7, <1>8, <1>9, <1>10 DEF Next, System

\* Every step keeps the sections loaded so far at their places in the blocks.
LEMMA PlacedStep == TypeOK /\ Ownership /\ BlocksInv /\ PlacedInv /\ [Next]_vars => PlacedInv'
<1> SUFFICES ASSUME TypeOK, Ownership, BlocksInv, PlacedInv, [Next]_vars PROVE PlacedInv'
  OBVIOUS
\* Steps after which nothing is loaded and no data section is next.
<1>1. ASSUME \A s \in SecIds : mem'[s] = "none", pc' \notin DataSecs PROVE PlacedInv'
  BY <1>1 DEF PlacedInv, Loaded, DataSecs, SecIds
<1>2. CASE Boot \/ Open \/ ReadHeader \/ ScanSection \/ AllocText \/ AllocData
  <2>1. pc \in Early /\ mem' = mem
    BY <1>2 DEF Boot, Open, ReadHeader, ScanSection, AllocText, AllocData, Early, memVars
  <2>2. pc' \in Early \cup {"idle", "deinit", "close"}
    BY <1>2 DEF Boot, Open, ReadHeader, ScanSection, AllocText, AllocData, Early, Return
  <2> QED
    BY <1>1, <2>1, <2>2 DEF BlocksInv, Loaded, Early, DataSecs
<1>3. CASE LoadText
  <2>1. /\ pc = "load_text" /\ UNCHANGED <<ptext, pdata>>
        /\ sec' = [sec EXCEPT !["TEXT"].addr = ptext]
    BY <1>3 DEF LoadText
  <2>2. \/ pc' = "close" /\ mem' = mem
        \/ pc' = "DATA" /\ cur' = pdata /\ mem' = [mem EXCEPT !["TEXT"] = "file"]
    BY <1>3 DEF LoadText, Return
  <2>3. ptext # NULL /\ sec'["TEXT"].addr = ptext
    BY <2>1 DEF BlocksInv, Loading, TypeOK, ObjectOK, SecIds, Sections
  <2>4. \A s \in DataSecs : mem'[s] = "none"
    BY <2>1, <2>2 DEF BlocksInv, Loaded, Early, DataSecs, SecIds, TypeOK, MemoryOK
  <2>5. pc' \in DataSecs => cur' = pdata' + 0
    BY <2>1, <2>2, SizesAreNat DEF DataSecs
  <2> QED
    BY <2>1, <2>2, <2>3, <2>4, <2>5 DEF PlacedInv, Loaded, DataOffset, DataSecs
<1>4. ASSUME NEW s \in DOMAIN AfterLoad, LoadData(s) PROVE PlacedInv'
  <2>0. s \in DataSecs /\ DataSecs \subseteq SecIds /\ pc = s
    BY <1>4 DEF LoadData, AfterLoad, DataSecs, SecIds
  <2>1. /\ UNCHANGED <<ptext, pdata>> /\ (sec' = sec \/ sec' = [sec EXCEPT ![s].addr = cur])
        /\ mem' = mem \/ mem' = [mem EXCEPT ![s] = IF s = "BSS" THEN "zero" ELSE "file"]
    BY <1>4 DEF LoadData
  <2>2. \A t \in SecIds : /\ sec'[t].size = sec[t].size
                          /\ t # s => sec'[t].addr = sec[t].addr /\ mem'[t] = mem[t]
    BY <2>0, <2>1 DEF TypeOK, ObjectOK, MemoryOK, Sections
  <2>3. SumsFit' = SumsFit /\ \A t \in DataSecs : (DataOffset(t))' = DataOffset(t)
    BY <2>2 DEF SumsFit, DataOffset, DataSecs, SecIds
  <2>4. mem'["TEXT"] = mem["TEXT"] /\ sec'["TEXT"].addr = sec["TEXT"].addr
    BY <2>0, <2>2 DEF DataSecs, SecIds
  <2>5. ASSUME SumsFit PROVE mem'[s] # "none" => pdata # NULL /\ sec'[s].addr = pdata + DataOffset(s)
    <3>1. cur = pdata + DataOffset(s)
      BY <2>0, <2>5 DEF PlacedInv
    <3>2. CASE mem' = mem /\ sec' = sec
      BY <2>0, <2>5, <3>2 DEF PlacedInv, Loaded, DataSecs
    <3>3. CASE sec' = [sec EXCEPT ![s].addr = cur] /\ DataSize(sec) # 0
      <4>1. sec'[s].addr = cur
        BY <2>0, <3>3 DEF TypeOK, ObjectOK, Sections
      <4>2. pdata # NULL
        BY <2>0, <3>3 DEF BlocksInv, Loading, DataSecs
      <4> QED
        BY <3>1, <4>1, <4>2
    <3>4. \/ mem' = mem /\ sec' = sec
          \/ sec' = [sec EXCEPT ![s].addr = cur] /\ DataSize(sec) # 0
      BY <1>4 DEF LoadData
    <3> QED
      BY <3>2, <3>3, <3>4
  <2>6. ASSUME SumsFit, pc' \in DataSecs PROVE cur' = pdata + DataOffset(pc')
    <3>1. cur = pdata + DataOffset(s) /\ DataSize(sec) = DataSum /\ DataSum < Word
      BY <2>0, <2>6, DataSizeIsSum DEF PlacedInv, SumsFit, DataSum
    <3>2. pc' = AfterLoad[s] /\ s # "BSS" /\ DataOffset(pc') = DataOffset(s) + sec[s].size
      BY <1>4, <2>0, <2>6, SizesAreNat DEF LoadData, AfterLoad, DataOffset, DataSecs, Return
    <3>3. DataOffset(pc') \in Nat /\ DataOffset(s) \in Nat /\ sec[s].size \in Nat
          /\ DataOffset(pc') <= DataSum
      BY <2>0, <2>6, SizesAreNat DEF DataOffset, DataSum, DataSecs
    <3>4. CASE DataSize(sec) = 0 \/ sec[s].size = 0
      <4>1. sec[s].size = 0
        <5>1. sec[s].size <= DataSum
          BY <2>0, SizesAreNat DEF DataSum, DataSecs
        <5> QED
          BY <3>1, <3>3, <3>4, <5>1
      <4>2. cur' = cur
        BY <1>4, <3>4 DEF LoadData
      <4> QED
        BY <3>1, <3>2, <3>3, <4>1, <4>2, SizesAreNat
    <3>5. CASE DataSize(sec) # 0 /\ sec[s].size # 0
      <4>1. cur' = (cur + sec[s].size) % Word
        BY <1>4, <2>6, <3>2, <3>5 DEF LoadData, DataSecs, Return
      <4>2. pdata + DataSize(sec) < Word
        BY <2>0, <3>5 DEF BlocksInv, Loading, DataSecs
      <4>3. cur + sec[s].size = pdata + DataOffset(pc') /\ cur + sec[s].size \in Nat
            /\ cur + sec[s].size < Word
        BY <3>1, <3>2, <3>3, <4>2, SizesAreNat, WordAssumption
      <4> QED
        BY <4>1, <4>3, SmallMod
    <3> QED
      BY <3>4, <3>5
  <2>7. pc \notin {"boot", "idle", "restart"}
    BY <2>0 DEF DataSecs
  <2>8. ASSUME SumsFit PROVE \A t \in DataSecs : mem'[t] # "none" =>
                               pdata # NULL /\ sec'[t].addr = pdata + DataOffset(t)
    BY <2>0, <2>2, <2>5, <2>7, <2>8 DEF PlacedInv, Loaded
  <2>9. (pc \in DataSecs /\ SumsFit => cur = pdata + DataOffset(pc))'
    BY <2>1, <2>3, <2>6
  <2>10. (pc \notin {"boot", "idle", "restart"} /\ Loaded("TEXT") =>
            ptext # NULL /\ sec["TEXT"].addr = ptext)'
    BY <2>1, <2>4, <2>7 DEF PlacedInv, Loaded
  <2>11. (SumsFit => \A t \in DataSecs : Loaded(t) =>
                       pdata # NULL /\ sec[t].addr = pdata + DataOffset(t))'
    BY <2>1, <2>3, <2>8 DEF Loaded
  <2> QED
    BY <2>9, <2>10, <2>11 DEF PlacedInv
<1>5. CASE SetEntry \/ RelaSection \/ RelaDone \/ Relocate \/ RelocDone \/ Close \/ EntryReturns
  <2>1. /\ pc \in {"entry", "rela", "reloc", "close", "running"}
        /\ pc' \in {"rela", "reloc", "close", "running", "deinit"}
        /\ UNCHANGED <<sec, ptext, pdata, mem>>
    BY <1>5, Zenon DEF SetEntry, RelaSection, RelaDone, Relocate, RelocDone, Close, EntryReturns,
       Return, elfVars, memVars
  <2> QED
    BY <2>1 DEF PlacedInv, DataSecs, DataOffset, SumsFit, Loaded
<1>6. CASE Deinit \/ Restart
  BY <1>6 DEF Deinit, Restart, PlacedInv, DataSecs
<1>7. CASE UNCHANGED vars
  BY <1>7 DEF vars, PlacedInv, DataSecs, DataOffset, SumsFit, Loaded
<1> QED
  BY <1>2, <1>3, <1>4, <1>5, <1>6, <1>7 DEF Next, System

\* ... so each loaded section is at its place.
LEMMA PlacedInvariant == Spec => [](BlocksInv /\ PlacedInv)
<1>1. Init => BlocksInv
  BY DEF Init, BlocksInv, Early, Loading, Loaded
<1>2. Init => PlacedInv
  BY DEF Init, PlacedInv, DataSecs
<1> QED
  BY <1>1, <1>2, BlocksStep, PlacedStep, TypeCorrect, OwnershipInvariant, PTL DEF Spec

\* Loaded sections lie inside the blocks and do not overlap, for every image
\* whose data sizes do not wrap around when they are added.
THEOREM SectionsLaidOut == Spec => []Layout
<1>1. TypeOK /\ Ownership /\ BlocksInv /\ PlacedInv => Layout
  <2> SUFFICES ASSUME TypeOK, Ownership, BlocksInv, PlacedInv,
                      pc \notin {"boot", "idle", "restart"}, SumsFit
               PROVE  /\ \A s \in SecIds : Loaded(s) => \E b \in heap : Within(s, b)
                      /\ \A s, t \in SecIds : s # t /\ Loaded(s) /\ Loaded(t) => Apart(s, t)
    BY DEF Layout
  <2> DEFINE bt == [base |-> ptext, size |-> sec["TEXT"].size]
             bd == [base |-> pdata, size |-> DataSize(sec)]
  <2>0. SecIds = DataSecs \cup {"TEXT"} /\ "TEXT" \notin DataSecs
    BY DEF SecIds, DataSecs
  <2>1. Loaded("TEXT") => bt \in heap /\ sec["TEXT"].addr = ptext /\ ptext # NULL
    BY DEF PlacedInv, Ownership, OwnedHeap, Block
  <2>2. \A s \in DataSecs : Loaded(s) =>
          bd \in heap /\ sec[s].addr = pdata + DataOffset(s) /\ pdata # NULL
    BY DEF PlacedInv, Ownership, OwnedHeap, Block
  <2>3. \A s \in DataSecs : /\ DataOffset(s) \in Nat /\ sec[s].size \in Nat
                            /\ DataOffset(s) + sec[s].size <= DataSize(sec)
    BY SizesAreNat, DataSizeIsSum DEF DataOffset, DataSum, DataSecs
  <2>4. \A s \in SecIds : Loaded(s) => \E b \in heap : Within(s, b)
    <3>1. Loaded("TEXT") => Within("TEXT", bt)
      BY <2>1, SizesAreNat DEF Within
    <3>2. \A s \in DataSecs : Loaded(s) => Within(s, bd)
      BY <2>2, <2>3, SizesAreNat DEF Within
    <3> QED
      BY <2>0, <2>1, <2>2, <3>1, <3>2
  <2>5. \A s, t \in DataSecs : s # t /\ Loaded(s) /\ Loaded(t) => Apart(s, t)
    <3> SUFFICES ASSUME NEW s \in DataSecs, NEW t \in DataSecs, s # t, Loaded(s), Loaded(t)
                 PROVE  Apart(s, t)
      OBVIOUS
    <3>1. sec[s].addr = pdata + DataOffset(s) /\ sec[t].addr = pdata + DataOffset(t)
      BY <2>2
    <3>2. \/ DataOffset(s) + sec[s].size <= DataOffset(t)
          \/ DataOffset(t) + sec[t].size <= DataOffset(s)
      BY SizesAreNat DEF DataOffset, DataSecs
    <3> QED
      BY <2>3, <3>1, <3>2, SizesAreNat DEF Apart
  <2>6. \A s \in DataSecs : Loaded(s) /\ Loaded("TEXT") => Apart(s, "TEXT") /\ Apart("TEXT", s)
    <3> SUFFICES ASSUME NEW s \in DataSecs, Loaded(s), Loaded("TEXT")
                 PROVE  Apart(s, "TEXT") /\ Apart("TEXT", s)
      OBVIOUS
    <3>1. ptext + sec["TEXT"].size <= pdata \/ pdata + DataSize(sec) <= ptext
      BY <2>1, <2>2 DEF BlocksInv
    <3> QED
      BY <2>1, <2>2, <2>3, <3>1, SizesAreNat DEF Apart
  <2> QED
    BY <2>0, <2>4, <2>5, <2>6
<1> QED
  BY <1>1, TypeCorrect, OwnershipInvariant, PlacedInvariant, PTL

-----------------------------------------------------------------------------
(* The image the application is started on.                                *)

\* The places at which the section is behind the loader.
Past == [TEXT |-> DataSecs \cup {"entry"}, DATA |-> {"RODATA", "DRLRO", "BSS", "entry"},
         RODATA |-> {"DRLRO", "BSS", "entry"}, DRLRO |-> {"BSS", "entry"}, BSS |-> {"entry"}]
Ready == pc \in {"rela", "reloc", "running"} \/ (pc = "close" /\ ret = "OK")

\* What has a size is loaded before the relocation, and the entry point is set.
CompleteInv ==
  /\ SumsFit => \A s \in SecIds : (pc \in Past[s] \/ Ready) /\ sec[s].size # 0 => Loaded(s)
  /\ Ready => entry = (image.entry + sec["TEXT"].addr - sec["TEXT"].v_addr) % Word

\* The size the scan files for a section.
ScannedSize(s, n) == IF s = "TEXT" THEN ELF_ALIGN(n) ELSE n
Scanned == {"alloc_data", "load_text", "entry", "rela", "reloc"} \cup DataSecs
UniqueNames == \A j, t \in DOMAIN image.sh : image.sh[j].name = image.sh[t].name => j = t

FiledAs(s, h) ==
  /\ sec[s].size = ScannedSize(s, h.size)
  /\ sec[s].v_addr = h.v_addr /\ sec[s].offset = h.offset

\* Without a failed read the section table says what the headers say.
ScanInv ==
  /\ nameErrs = 0 /\ UniqueNames =>
       \A j \in 1 .. Len(image.sh), s \in SecIds :
         Holds(image, j, s) /\ (pc \in Scanned \/ Ready \/ (pc = "scan" /\ j < i)) =>
           FiledAs(s, image.sh[j])
  /\ pc \in Scanned \/ Ready => sec["TEXT"].size # 0

\* The relocation works on the section that the name of its header picks, and
\* nothing was patched before it.
RelaInv ==
  /\ pc = "reloc" /\ nameErrs = 0 =>
       image.sh[i].type = "RELA" /\ base = sec[RelaTarget(image.sh[i].name)].addr
  /\ pc \in Early \cup DataSecs \cup {"idle", "entry"} => patches = <<>>

\* A size that survives the rounding is not made smaller by it.
LEMMA AlignNotSmaller ==
  ASSUME NEW n \in Words, ELF_ALIGN(n) # 0 PROVE n <= ELF_ALIGN(n)
<1>0. n \in Nat /\ n < Word /\ Word \in Nat /\ Word > 4
  BY WordAssumption DEF Words
<1>1. CASE n + 3 < Word
  <2>1. (n + 3) % Word = n + 3
    BY <1>0, <1>1, SmallMod
  <2>2. n <= ((n + 3) \div 4) * 4
    BY <1>0
  <2> QED
    BY <2>1, <2>2 DEF ELF_ALIGN
<1>2. CASE n + 3 >= Word
  <2>1. (n + 3) % Word = n + 3 - Word
    <3>1. n + 3 - Word \in Nat /\ n + 3 - Word < Word
      BY <1>0, <1>2
    <3> QED
      BY <1>0, <3>1
  <2>2. \A m \in 0 .. 2 : (m \div 4) * 4 = 0
    OBVIOUS
  <2>3. n + 3 - Word \in 0 .. 2
    BY <1>0, <1>2
  <2> QED
    BY <2>1, <2>2, <2>3 DEF ELF_ALIGN
<1> QED
  BY <1>0, <1>1, <1>2

\* A step without a failed read leaves no trace in the count of them.
LEMMA ReadsTrue ==
  ASSUME TypeOK, NEW x, NEW n, ReadName(x, n), nameErrs' = 0
  PROVE  nameErrs = 0 /\ n = x
BY DEF ReadName, TypeOK, ControlOK

\* Every step keeps what has a size loaded before the relocation.
LEMMA CompleteStep ==
  TypeOK /\ Ownership /\ BlocksInv /\ PlacedInv /\ CompleteInv /\ [Next]_vars => CompleteInv'
<1> SUFFICES ASSUME TypeOK, Ownership, BlocksInv, PlacedInv, CompleteInv, [Next]_vars
             PROVE  CompleteInv'
  OBVIOUS
<1> USE DEF Return
\* Steps to a place where no section is behind the loader yet.
<1>1. ASSUME pc' \in {"boot", "idle", "open", "header", "scan", "alloc_data", "load_text",
                      "deinit", "restart"}
             \/ (pc' = "close" /\ ret' # "OK")
      PROVE  CompleteInv'
  BY <1>1 DEF CompleteInv, Ready, Past, SecIds, DataSecs
<1>2. CASE Boot \/ Open \/ ReadHeader \/ ScanSection \/ AllocText \/ AllocData \/ Deinit
           \/ Restart \/ EntryReturns
  BY <1>1, <1>2 DEF Boot, Open, ReadHeader, ScanSection, AllocText, AllocData, Deinit, Restart,
     EntryReturns
<1>3. CASE LoadText
  <2>1. CASE pc' = "DATA" /\ mem' = [mem EXCEPT !["TEXT"] = "file"]
    BY <2>1 DEF CompleteInv, Ready, Past, SecIds, DataSecs, Loaded, TypeOK, MemoryOK
  <2> QED
    BY <1>1, <1>3, <2>1 DEF LoadText
<1>4. ASSUME NEW s \in DOMAIN AfterLoad, LoadData(s) PROVE CompleteInv'
  <2>0. s \in DataSecs /\ DataSecs \subseteq SecIds /\ pc = s
    BY <1>4 DEF LoadData, AfterLoad, DataSecs, SecIds
  <2>1. CASE pc' = AfterLoad[s] /\ (sec' = sec \/ sec' = [sec EXCEPT ![s].addr = cur])
             /\ \/ mem' = mem /\ (DataSize(sec) = 0 \/ sec[s].size = 0)
                \/ mem' = [mem EXCEPT ![s] = IF s = "BSS" THEN "zero" ELSE "file"]
    <3>1. /\ \A t \in SecIds : sec'[t].size = sec[t].size /\ (Loaded(t) => mem'[t] # "none")
          /\ mem'[s] # "none" \/ DataSize(sec) = 0 \/ sec[s].size = 0
      BY <2>0, <2>1 DEF TypeOK, ObjectOK, MemoryOK, Sections, Loaded
    <3>2. SumsFit' = SumsFit
      BY <3>1 DEF SumsFit, SecIds
    <3>3. SumsFit /\ DataSize(sec) = 0 => sec[s].size = 0
      <4>1. SumsFit => DataSize(sec) = DataSum
        BY DataSizeIsSum
      <4>2. sec[s].size <= DataSum /\ sec[s].size \in Nat
        BY <2>0, SizesAreNat DEF DataSum, DataSecs
      <4> QED
        BY <4>1, <4>2
    <3>4. /\ ~Ready' /\ \A t \in SecIds : pc' \in Past[t] => t = s \/ pc \in Past[t]
      BY <2>0, <2>1 DEF Ready, AfterLoad, Past, DataSecs, SecIds
    <3> QED
      BY <3>1, <3>2, <3>3, <3>4 DEF CompleteInv, Loaded
  <2>2. \/ pc' = "close" /\ ret' # "OK"
        \/ pc' = AfterLoad[s] /\ (sec' = sec \/ sec' = [sec EXCEPT ![s].addr = cur])
             /\ \/ mem' = mem /\ (DataSize(sec) = 0 \/ sec[s].size = 0)
                \/ mem' = [mem EXCEPT ![s] = IF s = "BSS" THEN "zero" ELSE "file"]
    BY <1>4 DEF LoadData
  <2> QED
    BY <1>1, <2>1, <2>2
<1>5. CASE SetEntry
  <2>1. /\ pc = "entry" /\ pc' = "rela" /\ UNCHANGED <<image, sec, mem>>
        /\ entry' = (image.entry + sec["TEXT"].addr - sec["TEXT"].v_addr) % Word
    BY <1>5 DEF SetEntry, memVars
  <2>2. \A s \in SecIds : pc \in Past[s]
    BY <2>1 DEF Past, SecIds
  <2> QED
    BY <2>1, <2>2 DEF CompleteInv, SumsFit, Loaded
<1>6. CASE RelaSection \/ RelaDone \/ Relocate \/ RelocDone \/ Close
  <2>1. /\ UNCHANGED <<image, sec, mem, entry>>
        /\ \/ Ready
           \/ pc' = "close" /\ ret' # "OK"
           \/ pc' = "deinit"
    BY <1>6, Zenon DEF RelaSection, RelaDone, Relocate, RelocDone, Close, elfVars, memVars, Ready
  <2> QED
    BY <1>1, <2>1 DEF CompleteInv, SumsFit, Loaded
<1>7. CASE UNCHANGED vars
  BY <1>7 DEF vars, CompleteInv, SumsFit, Loaded, Ready
<1> QED
  BY <1>2, <1>3, <1>4, <1>5, <1>6, <1>7 DEF Next, System

\* Every step keeps the section table in step with the headers scanned.
LEMMA ScanStep == TypeOK /\ ScanInv /\ [Next]_vars => ScanInv'
<1> SUFFICES ASSUME TypeOK, ScanInv, [Next]_vars PROVE ScanInv'
  OBVIOUS
<1> USE DEF Return
\* Steps to a place where nothing has been scanned.
<1>1. ASSUME \/ pc' \in {"boot", "idle", "open", "header", "deinit", "restart"}
             \/ pc' = "close" /\ ret' # "OK"
             \/ pc' = "scan" /\ i' = 1
      PROVE  ScanInv'
  BY <1>1 DEF ScanInv, Scanned, DataSecs, Ready
<1>2. CASE Boot \/ Open \/ ReadHeader \/ EntryReturns \/ Deinit \/ Restart
  BY <1>1, <1>2 DEF Boot, Open, ReadHeader, EntryReturns, Deinit, Restart
\* Steps behind the scan that leave the sizes alone.
<1>3. ASSUME pc \in Scanned \/ Ready, pc' # "scan", UNCHANGED image,
             nameErrs' = 0 => nameErrs = 0,
             \A s \in SecIds : /\ sec'[s].size = sec[s].size /\ sec'[s].v_addr = sec[s].v_addr
                               /\ sec'[s].offset = sec[s].offset
      PROVE  ScanInv'
  <2>1. "TEXT" \in SecIds
    BY DEF SecIds
  <2>2. \A s \in SecIds : \A h : FiledAs(s, h) => FiledAs(s, h)'
    BY <1>3 DEF FiledAs
  <2>3. ASSUME nameErrs' = 0, UniqueNames', NEW j \in 1 .. Len(image.sh), NEW s \in SecIds,
               Holds(image, j, s)
        PROVE  FiledAs(s, image.sh[j])'
    <3>1. nameErrs = 0 /\ UniqueNames
      BY <1>3, <2>3 DEF UniqueNames
    <3>2. FiledAs(s, image.sh[j])
      BY <1>3, <2>3, <3>1 DEF ScanInv
    <3> QED
      BY <1>3, <3>2 DEF FiledAs
  <2>4. sec'["TEXT"].size # 0
    BY <1>3, <2>1 DEF ScanInv
  <2> QED
    BY <1>3, <2>3, <2>4 DEF ScanInv, Holds
<1>4. CASE ScanSection
  <2>1. CASE pc' = "scan" /\ nameErrs' = 0 /\ UniqueNames
    <3> DEFINE h == image.sh[i]
    <3>1. /\ nameErrs = 0 /\ i' = i + 1 /\ image' = image /\ pc = "scan" /\ i <= Len(image.sh)
          /\ \A s \in SecIds : sec'[s] = IF ScannedAs(s, h, h.name)
               THEN [sec[s] EXCEPT !.v_addr = h.v_addr, !.size = ScannedSize(s, h.size),
                                   !.offset = h.offset]
               ELSE sec[s]
      <4>1. PICK n : /\ ReadName(h.name, n) /\ i' = i + 1
                     /\ sec' = [s \in SecIds |-> IF ScannedAs(s, h, n)
                          THEN [sec[s] EXCEPT !.v_addr = h.v_addr,
                                  !.size = ScannedSize(s, h.size), !.offset = h.offset]
                          ELSE sec[s]]
        BY <1>4, <2>1 DEF ScanSection, ScannedSize
      <4>2. n = h.name /\ nameErrs = 0
        <5> HIDE DEF h
        <5> QED
          BY <2>1, <4>1, ReadsTrue
      <4> QED
        BY <1>4, <4>1, <4>2, Zenon DEF ScanSection
    <3>2. i \in 1 .. Len(image.sh) /\ image.sh \in Seq(SectionHeaders)
      BY <3>1, HeaderType, ImageTypes DEF TypeOK, ControlOK
    <3>3. ASSUME NEW j \in 1 .. Len(image.sh), NEW s \in SecIds, Holds(image, j, s), j < i + 1
          PROVE  FiledAs(s, image.sh[j])'
      <4>1. CASE j = i
        <5>1. ScannedAs(s, h, h.name)
          BY <3>3, <4>1 DEF Holds
        <5>2. sec[s] \in Sections
          BY DEF TypeOK, ObjectOK
        <5> HIDE DEF h
        <5>3. /\ sec'[s].size = ScannedSize(s, h.size) /\ sec'[s].v_addr = h.v_addr
              /\ sec'[s].offset = h.offset
          BY <3>1, <5>1, <5>2 DEF Sections
        <5> QED
          BY <3>1, <4>1, <5>3 DEF h, FiledAs
      <4>2. CASE j < i
        <5>1. h.name # image.sh[j].name
          BY <2>1, <3>2, <4>2 DEF UniqueNames
        <5>2. ~ScannedAs(s, h, h.name)
          BY <3>3, <5>1 DEF Holds, ScannedAs
        <5>3. sec'[s] = sec[s]
          BY <3>1, <5>2
        <5>4. FiledAs(s, image.sh[j])
          BY <2>1, <3>1, <3>3, <4>2 DEF ScanInv
        <5> QED
          BY <3>1, <5>3, <5>4 DEF FiledAs
      <4> QED
        BY <3>2, <3>3, <4>1, <4>2
    <3>4. pc' \notin Scanned /\ ~Ready'
      BY <2>1 DEF Scanned, DataSecs, Ready
    <3> QED
      BY <2>1, <3>1, <3>3, <3>4 DEF ScanInv, UniqueNames, Holds
  <2>2. CASE pc' = "scan" /\ ~(nameErrs' = 0 /\ UniqueNames)
    <3>1. UniqueNames' = UniqueNames
      BY <1>4 DEF ScanSection, UniqueNames
    <3> QED
      BY <2>2, <3>1 DEF ScanInv, Scanned, DataSecs, Ready
  <2>3. pc' = "scan" \/ (pc' = "close" /\ ret' # "OK")
    BY <1>4 DEF ScanSection
  <2> QED
    BY <1>1, <2>1, <2>2, <2>3
<1>5. CASE AllocText
  <2>1. CASE pc' = "alloc_data"
    <3>1. /\ UNCHANGED <<image, sec, nameErrs>> /\ pc = "scan" /\ sec["TEXT"].size # 0
          /\ i > Len(image.sh)
      BY <1>5, <2>1 DEF AllocText
    <3>2. \A j \in 1 .. Len(image.sh) : j < i
      BY <3>1, ImageTypes DEF TypeOK, ControlOK
    <3> QED
      BY <3>1, <3>2 DEF ScanInv, UniqueNames, Holds, FiledAs
  <2>2. pc' = "alloc_data" \/ (pc' = "close" /\ ret' # "OK")
    BY <1>5 DEF AllocText
  <2> QED
    BY <1>1, <2>1, <2>2
<1>6. CASE LoadText
  <2>1. \A s \in SecIds : /\ sec'[s].size = sec[s].size /\ sec'[s].v_addr = sec[s].v_addr
                           /\ sec'[s].offset = sec[s].offset
    BY <1>6 DEF LoadText, TypeOK, ObjectOK, Sections
  <2> QED
    BY <1>3, <1>6, <2>1 DEF LoadText, Scanned
<1>7. ASSUME NEW s \in DOMAIN AfterLoad, LoadData(s) PROVE ScanInv'
  <2>1. sec' = sec \/ sec' = [sec EXCEPT ![s].addr = cur]
    BY <1>7 DEF LoadData
  <2>2. \A t \in SecIds : /\ sec'[t].size = sec[t].size /\ sec'[t].v_addr = sec[t].v_addr
                           /\ sec'[t].offset = sec[t].offset
    BY <2>1 DEF TypeOK, ObjectOK, Sections
  <2>3. /\ pc \in Scanned /\ pc' # "scan" /\ UNCHANGED <<image, nameErrs>>
    BY <1>7 DEF LoadData, AfterLoad, Scanned, DataSecs
  <2> QED
    BY <1>3, <2>2, <2>3
<1>8. CASE AllocData \/ SetEntry \/ RelaSection \/ Relocate \/ RelocDone \/ RelaDone
  <2>1. /\ pc \in Scanned /\ pc' # "scan" /\ UNCHANGED <<image, sec>>
    BY <1>8, Zenon DEF AllocData, SetEntry, RelaSection, Relocate, RelocDone, RelaDone, Scanned,
       elfVars
  <2>2. nameErrs' = 0 => nameErrs = 0
    BY <1>8, ReadsTrue, Zenon DEF AllocData, SetEntry, RelaSection, Relocate, RelocDone, RelaDone
  <2> QED
    BY <1>3, <2>1, <2>2
<1>10. CASE Close
  <2>1. \/ pc' = "deinit"
        \/ Ready /\ pc' = "running" /\ UNCHANGED <<image, sec, nameErrs>>
    BY <1>10 DEF Close, Ready, elfVars
  <2> QED
    BY <1>1, <1>3, <2>1
<1>9. CASE UNCHANGED vars
  BY <1>9 DEF vars, ScanInv, UniqueNames, Holds, FiledAs, Ready
<1> QED
  BY <1>2, <1>4, <1>5, <1>6, <1>7, <1>8, <1>9, <1>10 DEF Next, System

\* Every step keeps the relocation on the section its header names.
LEMMA RelaStep == TypeOK /\ RelaInv /\ [Next]_vars => RelaInv'
<1> SUFFICES ASSUME TypeOK, RelaInv, [Next]_vars PROVE RelaInv'
  OBVIOUS
<1> USE DEF Return
<1>1. CASE RelaSection
  <2>1. CASE pc' = "reloc" /\ nameErrs' = 0
    <3> DEFINE h == image.sh[i]
    <3>1. PICK n : /\ ReadName(h.name, n) /\ h.type = "RELA"
                   /\ base' = sec[RelaTarget(n)].addr
      BY <1>1, <2>1 DEF RelaSection
    <3>2. n = h.name
      <4> HIDE DEF h
      <4> QED
        BY <2>1, <3>1, ReadsTrue
    <3>3. UNCHANGED <<image, i, sec>>
      BY <1>1, <2>1 DEF RelaSection, elfVars
    <3> QED
      BY <2>1, <3>1, <3>2, <3>3 DEF RelaInv, Early, DataSecs
  <2>2. pc' \in {"rela", "reloc", "close"}
    BY <1>1 DEF RelaSection
  <2> QED
    BY <2>1, <2>2 DEF RelaInv, Early, DataSecs
<1>2. CASE Relocate
  <2>1. /\ pc = "reloc" /\ pc' \in {"reloc", "close"} /\ UNCHANGED <<image, i, base, sec>>
    BY <1>2, Zenon DEF Relocate, elfVars
  <2>2. nameErrs' = 0 => nameErrs = 0
    BY <1>2, ReadsTrue, Zenon DEF Relocate
  <2> QED
    BY <2>1, <2>2 DEF RelaInv, Early, DataSecs
<1>3. CASE SetEntry \/ RelaDone \/ RelocDone \/ Close \/ EntryReturns \/ Deinit
  BY <1>3 DEF SetEntry, RelaDone, RelocDone, Close, EntryReturns, Deinit, RelaInv, Early, DataSecs
<1>4. CASE Restart
  BY <1>4 DEF Restart, RelaInv
<1>5. CASE Boot \/ Open \/ ReadHeader \/ ScanSection \/ AllocText \/ AllocData \/ LoadText
           \/ \E s \in DOMAIN AfterLoad : LoadData(s)
  <2>1. CASE \E s \in DOMAIN AfterLoad : LoadData(s)
    BY <2>1 DEF LoadData, AfterLoad, DataSecs, RelaInv
  <2>2. CASE ~ \E s \in DOMAIN AfterLoad : LoadData(s)
    <3>1. pc \in Early /\ pc' # "reloc" /\ patches' = patches
      BY <1>5, <2>2 DEF Boot, Open, ReadHeader, ScanSection, AllocText, AllocData, LoadText,
         Early, memVars
    <3> QED
      BY <3>1 DEF RelaInv
  <2> QED
    BY <2>1, <2>2
<1>6. CASE UNCHANGED vars
  BY <1>6 DEF vars, RelaInv
<1> QED
  BY <1>1, <1>2, <1>3, <1>4, <1>5, <1>6 DEF Next, System

\* ... so the relocation starts on complete memory and a true section table.
LEMMA CompleteInvariant == Spec => [](CompleteInv /\ ScanInv /\ RelaInv)
<1>1. Init => CompleteInv /\ ScanInv /\ RelaInv
  BY DEF Init, CompleteInv, ScanInv, RelaInv, Ready, Past, SecIds, Scanned, DataSecs
<1> QED
  BY <1>1, CompleteStep, ScanStep, RelaStep, TypeCorrect, OwnershipInvariant, PlacedInvariant,
     PTL DEF Spec

-----------------------------------------------------------------------------
(* The writes of the relocation.                                           *)

\* One element of a sequence, as a sequence.
LEMMA SubSeqOfOne ==
  ASSUME NEW S, NEW q \in Seq(S), NEW j \in 1 .. Len(q) PROVE SubSeq(q, j, j) = <<q[j]>>
<1> DEFINE t == SubSeq(q, j, j)
           u == <<q[j]>>
<1>1. q[j] \in S /\ j \in Int
  BY ElementOfSeq, LenProperties
<1>2. t \in Seq(S) /\ Len(t) = 1 /\ t[1] = q[j]
  BY <1>1, SubSeqProperties
<1>3. u \in Seq(S) /\ Len(u) = 1 /\ u[1] = q[j]
  BY <1>1
<1> HIDE DEF t, u
<1>4. t = u
  BY <1>2, <1>3, SeqEqual
<1> QED
  BY <1>4 DEF t, u

\* In a name of two parts strstr() finds exactly those two.
LEMMA TwoParts ==
  ASSUME NEW S, NEW a \in S, NEW b \in S, NEW c \in S
  PROVE  strstr(<<a, b>>, <<c>>) <=> c \in {a, b}
<1> DEFINE q == <<a, b>>
<1>1. q \in Seq(S) /\ Len(q) = 2 /\ q[1] = a /\ q[2] = b /\ Len(<<c>>) = 1
  OBVIOUS
<1> HIDE DEF q
<1>2. SubSeq(q, 1, 1) = <<a>> /\ SubSeq(q, 2, 2) = <<b>>
  <2>1. \A j \in 1 .. Len(q) : SubSeq(q, j, j) = <<q[j]>>
    BY <1>1, SubSeqOfOne
  <2>2. 1 \in 1 .. Len(q) /\ 2 \in 1 .. Len(q)
    BY <1>1
  <2> QED
    BY <1>1, <2>1, <2>2
<1>3. (<<a>> = <<c>> <=> a = c) /\ (<<b>> = <<c>> <=> b = c)
  OBVIOUS
<1>4. strstr(q, <<c>>) <=> \E d \in {0, 1} : SubSeq(q, d + 1, d + 1) = <<c>>
  BY <1>1 DEF strstr
<1>5. strstr(q, <<c>>) <=> <<a>> = <<c>> \/ <<b>> = <<c>>
  BY <1>2, <1>4
<1> QED
  BY <1>3, <1>5 DEF q

\* A name of two parts does not contain one of three.
LEMMA NotThreeParts ==
  ASSUME NEW a, NEW b, NEW c, NEW d, NEW e PROVE ~strstr(<<a, b>>, <<c, d, e>>)
BY DEF strstr

\* Two parts put together.
LEMMA ConcatOfTwo ==
  ASSUME NEW S, NEW a \in S, NEW b \in S PROVE <<a>> \o <<b>> = <<a, b>>
<1>1. <<a>> \in Seq(S) /\ <<b>> \in Seq(S) /\ <<a, b>> \in Seq(S)
  OBVIOUS
<1>2. Len(<<a>>) = 1 /\ Len(<<b>>) = 1 /\ Len(<<a, b>>) = 2
  OBVIOUS
<1>3. (<<a>> \o <<b>>) \in Seq(S) /\ Len(<<a>> \o <<b>>) = 2
  BY <1>1, <1>2, ConcatProperties
<1>4. \A j \in 1 .. 2 : (<<a>> \o <<b>>)[j] = <<a, b>>[j]
  BY <1>1, <1>2, ConcatProperties
<1> QED
  BY <1>1, <1>2, <1>3, <1>4, SeqEqual

\* In a name made of two others strstr() finds the second one.
LEMMA FindsSecond ==
  ASSUME NEW a, NEW p, NEW c, c # a PROVE strstr(<<a>> \o <<p>>, <<c>>) <=> c = p
<1> DEFINE S == {a, p, c}
<1>1. a \in S /\ p \in S /\ c \in S
  OBVIOUS
<1> HIDE DEF S
<1>2. <<a>> \o <<p>> = <<a, p>>
  BY <1>1, ConcatOfTwo
<1>3. strstr(<<a, p>>, <<c>>) <=> c \in {a, p}
  BY <1>1, TwoParts, Zenon
<1> QED
  BY <1>2, <1>3, Zenon

\* The section names of one part.
Part == [TEXT |-> "text", BSS |-> "bss", DATA |-> "data", RODATA |-> "rodata"]
OnePart == SecIds \ {"DRLRO"}
\* The names of the sections tell them apart; only .data.rel.ro has several parts.
LEMMA PartNames ==
  /\ \A s \in OnePart : SecName[s] = <<Part[s]>> /\ Part[s] # "rela"
  /\ \A s, t \in OnePart : Part[s] = Part[t] <=> s = t
  /\ SecName["DRLRO"] = <<"data", "rel", "ro">>
<1>1. ASSUME NEW s \in OnePart PROVE SecName[s] = <<Part[s]>> /\ Part[s] # "rela"
  BY DEF OnePart, SecName, Part, SecIds
<1>2. ASSUME NEW s \in OnePart, NEW t \in OnePart PROVE Part[s] = Part[t] <=> s = t
  BY DEF OnePart, Part, SecIds
<1>3. SecName["DRLRO"] = <<"data", "rel", "ro">>
  BY DEF SecName
<1> QED
  BY <1>1, <1>2, <1>3

\* strstr() finds in ".rela" and a name of one part that name and no other.
LEMMA FindsOnlyItself ==
  ASSUME NEW s \in OnePart, NEW t \in SecIds
  PROVE  strstr(<<"rela">> \o SecName[s], SecName[t]) <=> t = s
<1>1. CASE t = "DRLRO"
  <2>1. <<"rela">> \o SecName[s] = <<"rela", Part[s]>>
    <3> DEFINE S == {"rela", Part[s]}
    <3>1. "rela" \in S /\ Part[s] \in S
      BY Zenon
    <3> HIDE DEF S
    <3>2. <<"rela">> \o <<Part[s]>> = <<"rela", Part[s]>>
      BY <3>1, ConcatOfTwo, Zenon
    <3> QED
      BY <3>2, PartNames, Zenon
  <2>2. ~strstr(<<"rela", Part[s]>>, <<"data", "rel", "ro">>)
    BY NotThreeParts, Zenon
  <2>3. t # s
    BY <1>1 DEF OnePart
  <2> QED
    BY <1>1, <2>1, <2>2, <2>3, PartNames, Zenon
<1>2. CASE t # "DRLRO"
  <2>0. t \in OnePart
    BY <1>2 DEF OnePart
  <2>1. Part[t] # "rela"
    BY <2>0, PartNames, Zenon
  <2>2. strstr(<<"rela">> \o <<Part[s]>>, <<Part[t]>>) <=> Part[t] = Part[s]
    BY <2>1, FindsSecond, ZenonT(40)
  <2> QED
    BY <2>0, <2>2, PartNames, Zenon
<1> QED
  BY <1>1, <1>2

\* The first name in the chain of tests that fits is the one chosen.
LEMMA FirstOfChain ==
  ASSUME NEW name, NEW n \in 1 .. 5, strstr(name, SecName[RelaOrder[n]]),
         \A j \in 1 .. n - 1 : ~strstr(name, SecName[RelaOrder[j]])
  PROVE  RelaTarget(name) = RelaOrder[n]
<1> DEFINE I == {j \in 1 .. Len(RelaOrder) : strstr(name, SecName[RelaOrder[j]])}
<1>1. n \in I /\ I \in SUBSET Nat
  BY DEF RelaOrder
<1>2. Min(I) = n
  <2>1. \A j \in I : n <= j
    OBVIOUS
  <2> HIDE DEF I
  <2>2. \A x \in I : (\A y \in I : x <= y) => x = n
    BY <1>1, <2>1
  <2> QED
    BY <1>1, <2>1, <2>2 DEF Min
<1>3. SelectInSeq(RelaOrder, LAMBDA s : strstr(name, SecName[s])) = IF I # {} THEN Min(I) ELSE 0
  BY DEF SelectInSeq
<1> QED
  BY <1>1, <1>2, <1>3 DEF RelaTarget

\* ".rela" followed by the name of a section picks that section, unless it is
\* .data.rel.ro, which the test for .data catches.
LEMMA TargetOfName ==
  ASSUME NEW s \in OnePart PROVE RelaTarget(<<"rela">> \o SecName[s]) = s
<1> DEFINE name == <<"rela">> \o SecName[s]
<1>1. \A t \in SecIds : strstr(name, SecName[t]) <=> t = s
  BY FindsOnlyItself
<1> HIDE DEF name
<1>2. \A j \in 1 .. 5 : RelaOrder[j] \in SecIds
  BY DEF RelaOrder, SecIds
<1>3. PICK n \in 1 .. 5 : RelaOrder[n] = s
  BY DEF RelaOrder, OnePart, SecIds
<1>4. \A j \in 1 .. n - 1 : j \in 1 .. 5 /\ RelaOrder[j] # s
  BY <1>3 DEF RelaOrder
<1>5. strstr(name, SecName[RelaOrder[n]])
  BY <1>1, <1>2, <1>3
<1>6. \A j \in 1 .. n - 1 : ~strstr(name, SecName[RelaOrder[j]])
  BY <1>1, <1>2, <1>4
<1>7. RelaTarget(name) = s
  BY <1>3, <1>5, <1>6, FirstOfChain
<1> QED
  BY <1>7 DEF name

\* A block of the heap ends inside the address space.
LEMMA BlocksEnd ==
  ASSUME TypeOK, Ownership, BlocksInv, pc \notin {"boot", "idle"}, NEW b \in heap
  PROVE  b.base \in Nat /\ b.size \in Nat /\ b.base + b.size < Word
<1>1. b \in Block(ptext, sec["TEXT"].size) \cup Block(pdata, DataSize(sec))
  BY DEF Ownership, OwnedHeap
<1>2. CASE ptext # NULL /\ b = [base |-> ptext, size |-> sec["TEXT"].size]
  BY <1>2, SizesAreNat DEF BlocksInv
<1>3. CASE pdata # NULL /\ b = [base |-> pdata, size |-> DataSize(sec)]
  BY <1>3, SizesAreNat DEF BlocksInv
<1> QED
  BY <1>1, <1>2, <1>3 DEF Block

\* A relocation type writes at least one byte.
LEMMA WidthType == ASSUME NEW type PROVE Width(type) \in 1 .. 8
BY DEF Width

\* The premises under which the writes are confined.
Confined ==
  /\ nameErrs = 0 /\ LinkedImage(image) /\ SumsFit
  /\ \A j \in DOMAIN image.sh : image.sh[j].name # <<"rela">> \o SecName["DRLRO"]

\* The section being relocated is loaded and as large as the entry needs.
LEMMA RelocatedSection ==
  ASSUME TypeOK, CompleteInv, ScanInv, RelaInv, Confined,
         pc = "reloc", k \in 1 .. Len(image.sh[i].rela)
  PROVE  \E s \in SecIds :
           /\ base = sec[s].addr /\ Loaded(s)
           /\ image.sh[i].rela[k].offset + Width(image.sh[i].rela[k].type) <= sec[s].size
<1> DEFINE im == image
           r == im.sh[i].rela[k]
<1>1. im \in Images /\ i \in 1 .. Len(im.sh) /\ im.sh \in Seq(SectionHeaders)
  BY HeaderType, ImageTypes DEF TypeOK, ControlOK
<1>2. i \in DOMAIN im.sh /\ im.sh[i].type = "RELA" /\ k \in DOMAIN im.sh[i].rela
  <2>1. im.sh[i] \in SectionHeaders
    BY <1>1
  <2>2. im.sh[i].rela \in Seq(RelaEntries)
    BY <2>1 DEF SectionHeaders
  <2> QED
    BY <1>1, <2>2 DEF RelaInv, Confined
<1>3. PICK s \in SecIds : RelaOf(im, i, s)
  BY <1>2, Zenon DEF Confined, LinkedImage
<1>4. PICK t \in DOMAIN im.sh : Holds(im, t, s) /\ im.sh[t].size # 0
  BY <1>3 DEF RelaOf
<1>5. im.sh[i].name = <<"rela">> \o SecName[s] /\ s \in OnePart
  BY <1>2, <1>3 DEF RelaOf, Confined, OnePart
<1>6. base = sec[s].addr
  BY <1>5, TargetOfName DEF RelaInv, Confined
<1>7. r.offset + Width(r.type) <= im.sh[t].size
  BY <1>2, <1>3, <1>4, Zenon DEF Confined, LinkedImage
<1>8. t \in 1 .. Len(im.sh) /\ im.sh[t].size \in Words
  <2>1. t \in 1 .. Len(im.sh) /\ im.sh[t] \in SectionHeaders
    BY <1>1
  <2> QED
    BY <2>1 DEF SectionHeaders
<1>9. UniqueNames
  BY Zenon DEF Confined, LinkedImage, UniqueNames
<1>10. sec[s].size = ScannedSize(s, im.sh[t].size) /\ sec["TEXT"].size # 0
  BY <1>4, <1>8, <1>9 DEF ScanInv, Confined, Scanned, FiledAs
<1>11. im.sh[t].size <= sec[s].size /\ sec[s].size # 0
  <2> DEFINE n == im.sh[t].size
  <2>1. n \in Words /\ n # 0 /\ n \in Nat
    BY <1>4, <1>8, WordsAreInts
  <2>2. CASE s = "TEXT"
    <3>1. sec[s].size = ELF_ALIGN(n) /\ ELF_ALIGN(n) # 0
      BY <1>10, <2>2 DEF ScannedSize
    <3> HIDE DEF n
    <3>2. n <= ELF_ALIGN(n)
      BY <2>1, <3>1, AlignNotSmaller
    <3> QED
      BY <3>1, <3>2 DEF n
  <2>3. CASE s # "TEXT"
    BY <1>10, <2>1, <2>3 DEF ScannedSize
  <2> QED
    BY <2>2, <2>3
<1>12. Loaded(s)
  BY <1>11 DEF CompleteInv, Ready, Confined
<1>13. r.offset + Width(r.type) <= sec[s].size
  <2>1. r.offset \in Nat /\ Width(r.type) \in Nat
    <3>1. r \in RelaEntries
      BY <1>1, <1>2, EntryTypes
    <3> QED
      BY <3>1, WidthType, WordsAreInts DEF RelaEntries
  <2>2. im.sh[t].size \in Nat /\ sec[s].size \in Nat
    BY <1>8, SectionTypes, WordsAreInts
  <2> QED
    BY <1>7, <1>11, <2>1, <2>2, SMTT(20)
<1> QED
  BY <1>6, <1>12, <1>13

\* ... so the write stays in the block that holds the section.
LEMMA WriteInside ==
  ASSUME TypeOK, Ownership, BlocksInv, Layout, CompleteInv, ScanInv, RelaInv, Confined,
         pc = "reloc", k \in 1 .. Len(image.sh[i].rela)
  PROVE  \E b \in heap :
           LET r == image.sh[i].rela[k]
               at == (r.offset + base) % Word
           IN  b.base <= at /\ at + Width(r.type) <= b.base + b.size
<1> DEFINE r == image.sh[i].rela[k]
<1>1. PICK s \in SecIds : /\ base = sec[s].addr /\ Loaded(s)
                          /\ r.offset + Width(r.type) <= sec[s].size
  BY RelocatedSection
<1>2. PICK b \in heap : Within(s, b)
  BY <1>1 DEF Layout, Confined
<1>3. b.base \in Nat /\ b.size \in Nat /\ b.base + b.size < Word
  BY BlocksEnd
<1>4. r.offset \in Nat /\ Width(r.type) \in 1 .. 8
  <2>1. r \in RelaEntries
    BY HeaderType, EntryTypes DEF TypeOK, ControlOK
  <2> QED
    BY <2>1, WidthType, WordsAreInts DEF RelaEntries
<1>5. sec[s].addr \in Nat /\ sec[s].size \in Nat
  BY SectionTypes
<1> HIDE DEF r
<1>6. /\ r.offset + base \in Nat /\ r.offset + base < Word
      /\ b.base <= r.offset + base /\ r.offset + base + Width(r.type) <= b.base + b.size
  <2>1. base \in Nat /\ b.base <= base /\ base + sec[s].size <= b.base + b.size
    BY <1>1, <1>2, <1>5 DEF Within
  <2> DEFINE w == Width(r.type)
             o == r.offset
             z == sec[s].size
             first == b.base
             last == b.base + b.size
  <2>2. w \in 1 .. 8 /\ o \in Nat /\ z \in Nat /\ o + w <= z
    BY <1>1, <1>4, <1>5
  <2>3. first \in Nat /\ last \in Nat /\ last < Word /\ first <= base /\ base + z <= last
    BY <1>3, <2>1
  <2> HIDE DEF w, o, z, first, last
  <2>4. o + base \in Nat /\ first <= o + base
    BY ONLY <2>1, <2>2, <2>3
  <2>5. o + base < Word /\ o + base + w <= last
    BY ONLY <2>1, <2>2, <2>3, WordAssumption
  <2> QED
    BY <2>4, <2>5 DEF w, o, first, last
<1>7. (r.offset + base) % Word = r.offset + base
  BY <1>6, SmallMod
<1> QED
  BY <1>6, <1>7 DEF r

\* An entry of the relocation adds at most one write, at its own byte.
LEMMA RelocateWrites ==
  ASSUME Relocate
  PROVE  LET r == image.sh[i].rela[k]
         IN  \/ patches' = patches
             \/ \E v : patches' = Append(patches, [type |-> r.type,
                                   at |-> (r.offset + base) % Word, val |-> v])
<1> DEFINE r == image.sh[i].rela[k]
           sym == image.sym[r.sym + 1]
           at == (r.offset + base) % Word
<1>1. patches' = patches \/ \E n : esp_elf_arch_relocate(r, at, SymAddr(sym, n))
  <2> HIDE DEF r, sym, at
  <2> QED
    BY Zenon DEF Relocate, r, sym, at
<1> HIDE DEF r, sym, at
<1>2. \/ patches' = patches
      \/ \E v : patches' = Append(patches, [type |-> r.type, at |-> at, val |-> v])
  BY <1>1 DEF esp_elf_arch_relocate
<1> QED
  BY <1>2, Zenon DEF r, at

\* Every step keeps the writes inside the blocks.
LEMMA PatchesStep ==
  TypeOK /\ Ownership /\ BlocksInv /\ Layout /\ CompleteInv /\ ScanInv /\ RelaInv
    /\ PatchesInBlocks /\ [Next]_vars => PatchesInBlocks'
<1> SUFFICES ASSUME TypeOK, Ownership, BlocksInv, Layout, CompleteInv, ScanInv, RelaInv,
                    PatchesInBlocks, [Next]_vars
             PROVE  PatchesInBlocks'
  OBVIOUS
<1> USE DEF Return
<1> DEFINE At(p) == \E b \in heap : b.base <= p.at /\ p.at + Width(p.type) <= b.base + b.size
           Relocated == {"rela", "reloc", "close", "running", "deinit"}
\* Steps before the relocation, and out of it.
<1>1. ASSUME patches' = <<>> \/ pc' \notin Relocated PROVE PatchesInBlocks'
  BY <1>1 DEF PatchesInBlocks
<1>2. CASE Boot \/ Open \/ ReadHeader \/ ScanSection \/ AllocText \/ AllocData \/ LoadText
           \/ SetEntry \/ Restart
  <2>1. CASE Restart
    BY <1>1, <2>1 DEF Restart
  <2>2. CASE ~Restart
    <3>1. pc \in Early \cup {"entry"} /\ patches' = patches
      BY <1>2, <2>2 DEF Boot, Open, ReadHeader, ScanSection, AllocText, AllocData, LoadText,
         SetEntry, Early, memVars
    <3> QED
      BY <1>1, <3>1 DEF RelaInv
  <2> QED
    BY <2>1, <2>2
<1>3. ASSUME NEW s \in DOMAIN AfterLoad, LoadData(s) PROVE PatchesInBlocks'
  <2>1. pc \in DataSecs /\ patches' = patches
    BY <1>3 DEF LoadData, AfterLoad, DataSecs
  <2> QED
    BY <1>1, <2>1 DEF RelaInv
\* Steps that leave heap and writes alone.
<1>4. ASSUME pc \in Relocated, UNCHANGED <<heap, patches, image, sec>>, nameErrs' = 0 => nameErrs = 0
      PROVE  PatchesInBlocks'
  BY <1>4 DEF PatchesInBlocks, SumsFit
<1>5. CASE RelaSection \/ RelaDone \/ RelocDone \/ Close \/ EntryReturns
  <2>1. pc \in Relocated /\ UNCHANGED <<heap, patches, image, sec>>
    BY <1>5 DEF RelaSection, RelaDone, RelocDone, Close, EntryReturns, elfVars, memVars
  <2>2. nameErrs' = 0 => nameErrs = 0
    BY <1>5, ReadsTrue DEF RelaSection, RelaDone, RelocDone, Close, EntryReturns
  <2> QED
    BY <1>4, <2>1, <2>2
<1>6. CASE Relocate
  <2>1. /\ pc = "reloc" /\ UNCHANGED <<heap, image, sec, base>>
        /\ nameErrs' = 0 => nameErrs = 0
    BY <1>6, ReadsTrue, Zenon DEF Relocate, elfVars
  <2>2. CASE patches' = patches
    BY <1>4, <2>1, <2>2
  <2>3. CASE Confined'
    <3> DEFINE r == image.sh[i].rela[k]
               at == (r.offset + base) % Word
    <3>1. Confined /\ (\A e \in DOMAIN patches : At(patches[e]))
      BY <2>1, <2>3 DEF Confined, SumsFit, PatchesInBlocks
    <3>2. k \in 1 .. Len(image.sh[i].rela)
      <4>1. i \in 1 .. Len(image.sh) /\ image.sh[i] \in SectionHeaders
        BY <2>1, HeaderType DEF TypeOK, ControlOK
      <4>2. image.sh[i].rela \in Seq(RelaEntries)
        BY <4>1 DEF SectionHeaders
      <4>3. k <= Len(image.sh[i].rela)
        BY <1>6, Zenon DEF Relocate
      <4> QED
        BY <4>2, <4>3 DEF TypeOK, ControlOK
    <3>3. \E b \in heap : b.base <= at /\ at + Width(r.type) <= b.base + b.size
      BY <2>1, <3>1, <3>2, WriteInside
    <3>4. \/ patches' = patches
          \/ \E v : patches' = Append(patches, [type |-> r.type, at |-> at, val |-> v])
      BY <1>6, RelocateWrites
    <3> HIDE DEF r, at
    <3>5. CASE patches' # patches
      <4>1. PICK v : patches' = Append(patches, [type |-> r.type, at |-> at, val |-> v])
        BY <3>4, <3>5
      <4> DEFINE p == [type |-> r.type, at |-> at, val |-> v]
      <4>2. At(p)
        BY <3>3
      <4>3. patches \in Seq(Patches)
        BY DEF TypeOK, MemoryOK
      <4> HIDE DEF p, At
      <4>4. \A e \in DOMAIN patches' : patches'[e] = p \/ (e \in DOMAIN patches /\ patches'[e] = patches[e])
        BY <4>1, <4>3 DEF p
      <4>5. \A e \in DOMAIN patches' : At(patches'[e])
        BY <3>1, <4>2, <4>4
      <4> QED
        BY <2>1, <4>5 DEF PatchesInBlocks, At
    <3> QED
      BY <2>2, <3>5
  <2>4. CASE ~Confined'
    BY <2>4 DEF PatchesInBlocks, Confined
  <2> QED
    BY <2>3, <2>4
<1>7. CASE Deinit
  BY <1>1, <1>7 DEF Deinit
<1>8. CASE UNCHANGED vars
  BY <1>8 DEF vars, PatchesInBlocks, SumsFit
<1> QED
  BY <1>2, <1>3, <1>5, <1>6, <1>7, <1>8 DEF Next, System

\* At any moment of the relocation every write of esp_elf_arch_relocate made
\* so far lies in a block the loader owns, for every image whose relocation
\* sections fit the sections they name, any addresses malloc returns and any
\* error that ends the relocation early.
THEOREM PatchesStayInBlocks == Spec => []PatchesInBlocks
<1>1. Init => PatchesInBlocks
  BY DEF Init, PatchesInBlocks
<1> QED
  BY <1>1, PatchesStep, TypeCorrect, OwnershipInvariant, PlacedInvariant, SectionsLaidOut,
     CompleteInvariant, PTL DEF Spec

-----------------------------------------------------------------------------
(* The writes the application is started with.                             *)

\* The premises under which the writes are the ones the file asks for.
Faithful == nameErrs = 0 /\ SupportedImage(image) /\ SumsFit

\* The entries behind the relocation.
Behind(x) == \/ pc \in {"close", "running"}
             \/ x[1] < i
             \/ pc = "reloc" /\ x[1] = i /\ x[2] < k
Done == {x \in Entries : Behind(x)}

\* Each of them was applied, at its place in file order and with what it asks
\* for; and nothing else was.
AppliedAt(x) == Rank(x) \in 1 .. Len(patches) /\ patches[Rank(x)] = RequiredOf(x)
Applied ==
  /\ IsFiniteSet(Done) /\ Len(patches) = Cardinality(Done)
  /\ \A x \in Done : AppliedAt(x)
  /\ \A n \in 1 .. Len(patches) : \E x \in Done : Rank(x) = n
AppliedInv == Ready /\ Faithful => Applied

\* What a section's memory is filled with.
FilledInv == \A s \in SecIds : Loaded(s) => mem[s] = IF s = "BSS" THEN "zero" ELSE "file"

\* Every step keeps that.
LEMMA FilledStep == TypeOK /\ FilledInv /\ [Next]_vars => FilledInv'
<1> SUFFICES ASSUME TypeOK, FilledInv, [Next]_vars PROVE FilledInv'
  OBVIOUS
<1> USE DEF FilledInv, Loaded
<1>1. CASE Restart
  BY <1>1 DEF Restart
<1>2. CASE LoadText
  <2>1. mem' = mem \/ mem' = [mem EXCEPT !["TEXT"] = "file"]
    BY <1>2 DEF LoadText
  <2> QED
    BY <2>1 DEF TypeOK, MemoryOK, SecIds
<1>3. ASSUME NEW s \in DOMAIN AfterLoad, LoadData(s) PROVE FilledInv'
  <2>1. mem' = mem \/ mem' = [mem EXCEPT ![s] = IF s = "BSS" THEN "zero" ELSE "file"]
    BY <1>3 DEF LoadData
  <2> QED
    BY <2>1 DEF TypeOK, MemoryOK, SecIds
<1>4. CASE mem' = mem
  BY <1>4
<1>5. Boot \/ Open \/ ReadHeader \/ ScanSection \/ AllocText \/ AllocData \/ SetEntry \/ RelaSection
        \/ RelaDone \/ Relocate \/ RelocDone \/ Close \/ EntryReturns \/ Deinit \/ UNCHANGED vars
      => mem' = mem
  BY Zenon DEF Boot, Open, ReadHeader, ScanSection, AllocText, AllocData, SetEntry, RelaSection,
     RelaDone, Relocate, RelocDone, Close, EntryReturns, Deinit, vars, memVars
<1> QED
  BY <1>1, <1>2, <1>3, <1>4, <1>5 DEF Next, System

\* An entry that asks for a write is a pair of a relocation section and a place
\* in it.
LEMMA EntryPairs ==
  ASSUME TypeOK
  PROVE  /\ \A x \in Entries : /\ x = <<x[1], x[2]>> /\ x[1] \in 1 .. Len(image.sh)
                               /\ x[2] \in 1 .. Len(image.sh[x[1]].rela)
                               /\ image.sh[x[1]].type = "RELA"
         /\ \A j \in 1 .. Len(image.sh) : \A e \in 1 .. Len(image.sh[j].rela) :
              <<j, e>> \in Entries <=>
                image.sh[j].type = "RELA" /\ image.sh[j].rela[e].type \notin SkippedTypes
<1>1. image \in Images /\ DOMAIN image.sh = 1 .. Len(image.sh)
  BY ImageTypes DEF TypeOK, ControlOK
<1>2. ASSUME NEW j \in 1 .. Len(image.sh)
      PROVE  DOMAIN image.sh[j].rela = 1 .. Len(image.sh[j].rela)
  <2>1. image.sh[j] \in SectionHeaders
    BY <1>1, ImageTypes
  <2>2. image.sh[j].rela \in Seq(RelaEntries)
    BY <2>1 DEF SectionHeaders
  <2> QED
    BY <2>2
<1>3. ASSUME NEW x \in Entries
      PROVE  /\ x = <<x[1], x[2]>> /\ x[1] \in 1 .. Len(image.sh)
             /\ x[2] \in 1 .. Len(image.sh[x[1]].rela) /\ image.sh[x[1]].type = "RELA"
  <2>1. PICK j \in DOMAIN image.sh : x \in {j} \X Writing(j)
    BY DEF Entries
  <2>2. x[1] = j /\ x[2] \in Writing(j) /\ x = <<x[1], x[2]>>
    BY <2>1
  <2> QED
    BY <1>1, <1>2, <2>2 DEF Writing
<1>4. ASSUME NEW j \in 1 .. Len(image.sh), NEW e \in 1 .. Len(image.sh[j].rela)
      PROVE  <<j, e>> \in Entries <=>
               image.sh[j].type = "RELA" /\ image.sh[j].rela[e].type \notin SkippedTypes
  <2>1. <<j, e>> \in Entries => e \in Writing(j)
    BY DEF Entries
  <2>2. e \in Writing(j) => <<j, e>> \in Entries
    BY <1>1 DEF Entries
  <2>3. e \in Writing(j) <=>
          image.sh[j].type = "RELA" /\ image.sh[j].rela[e].type \notin SkippedTypes
    BY <1>2 DEF Writing
  <2> QED
    BY <2>1, <2>2, <2>3
<1> QED
  BY <1>3, <1>4

\* The section a supported relocation section is for is the one the loader
\* picks.
LEMMA TargetPicked ==
  ASSUME TypeOK, RelaInv, Faithful, pc = "reloc"
  PROVE  image.sh[i].type = "RELA" /\ base = sec[TargetOf(i)].addr
<1>1. i \in DOMAIN image.sh /\ image.sh[i].type = "RELA"
  BY HeaderType, ImageTypes DEF TypeOK, ControlOK, RelaInv, Faithful
<1>2. \E s \in SecIds : RelaOf(image, i, s)
  BY <1>1, Zenon DEF Faithful, SupportedImage, LinkedImage
<1>3. TargetOf(i) \in SecIds /\ RelaOf(image, i, TargetOf(i))
  BY <1>2 DEF TargetOf
<1>4. image.sh[i].name = <<"rela">> \o SecName[TargetOf(i)]
  BY <1>3 DEF RelaOf
<1>5. TargetOf(i) \in OnePart
  BY <1>1, <1>3, <1>4 DEF OnePart, Faithful, SupportedImage
<1>6. RelaTarget(image.sh[i].name) = TargetOf(i)
  BY <1>4, <1>5, TargetOfName
<1> QED
  BY <1>1, <1>6 DEF RelaInv, Faithful

\* No two sections have one name.
LEMMA NamesDiffer == \A s, t \in SecIds : SecName[s] = SecName[t] => s = t
<1>1. /\ SecName["TEXT"] = <<"text">> /\ SecName["BSS"] = <<"bss">> /\ SecName["DATA"] = <<"data">>
      /\ SecName["RODATA"] = <<"rodata">> /\ SecName["DRLRO"] = <<"data", "rel", "ro">>
  BY DEF SecName
<1>2. \A a, b : <<a>> = <<b>> => a = b
  OBVIOUS
<1>3. \A a, b, c, d : <<a>> # <<b, c, d>>
  <2> SUFFICES ASSUME NEW a, NEW b, NEW c, NEW d, <<a>> = <<b, c, d>> PROVE FALSE
    OBVIOUS
  <2>1. Len(<<a>>) = 1 /\ Len(<<b, c, d>>) = 3
    OBVIOUS
  <2> QED
    BY <2>1
<1> QED
  BY <1>1, <1>2, <1>3 DEF SecIds

\* Entry e of header j is r, its symbol y, and n the name the switch reads if it
\* reads one.
Refers(j, e, r, y, n) ==
  /\ r = image.sh[j].rela[e] /\ y = image.sym[r.sym + 1]
  /\ y.shndx \in {SHN_UNDEF, SHN_ABS} \/ y.shndx \in 1 .. Len(image.sh) - 1
  /\ y.shndx \notin {SHN_UNDEF, SHN_ABS} => n = NameOfSym(y)
  /\ y.shndx = SHN_UNDEF => n = y.name

\* The section with the name that is read is the one the symbol is in.
LEMMA SectionFound ==
  ASSUME TypeOK, Faithful, NEW j \in DOMAIN image.sh, NEW e \in DOMAIN image.sh[j].rela,
         NEW r, NEW y, NEW n, Refers(j, e, r, y, n), y.shndx \notin {SHN_UNDEF, SHN_ABS},
         NEW h, h = CHOOSE s \in SecIds : Holds(image, y.shndx + 1, s)
  PROVE  h \in SecIds /\ h = CHOOSE s \in SecIds : SecName[s] = n
<1>1. y.shndx \in 1 .. Len(image.sh) - 1 /\ n = image.sh[y.shndx + 1].name
  BY Zenon DEF Refers, NameOfSym
<1>2. \E s \in SecIds : Holds(image, y.shndx + 1, s)
  <2>1. r = image.sh[j].rela[e] /\ y = image.sym[r.sym + 1]
    BY Zenon DEF Refers
  <2> QED
    BY <1>1, <2>1, Zenon DEF Faithful, SupportedImage
<1>3. h \in SecIds /\ Holds(image, y.shndx + 1, h)
  BY <1>2, Zenon
<1>4. SecName[h] = n
  BY <1>1, <1>3, Zenon DEF Holds, ScannedAs
<1>5. \A s \in SecIds : SecName[s] = n <=> s = h
  BY ONLY <1>3, <1>4, NamesDiffer, Zenon
<1> DEFINE c == CHOOSE s \in SecIds : SecName[s] = n
<1>6. c \in SecIds /\ SecName[c] = n
  BY ONLY <1>3, <1>4, Zenon
<1>7. c = h
  BY ONLY <1>5, <1>6, Zenon
<1> QED
  BY ONLY <1>3, <1>7, Zenon

\* What esp_elf_arch_relocate is given for the symbol of a supported entry is
\* the address the entry asks for.
LEMMA SymbolFound ==
  ASSUME TypeOK, Faithful, NEW j \in 1 .. Len(image.sh), NEW e \in 1 .. Len(image.sh[j].rela),
         NEW r, NEW y, NEW n, Refers(j, e, r, y, n)
  PROVE  SymAddr(y, n) = SymbolOf(r) /\ SymbolOf(r) \in Words
<1>1. image \in Images
  BY DEF TypeOK, ControlOK
<1>2. image.sh[j] \in SectionHeaders /\ image.sh \in Seq(SectionHeaders)
  BY <1>1, ImageTypes
<1>3. image.sh[j].rela \in Seq(RelaEntries)
  BY <1>2 DEF SectionHeaders
<1>4. j \in DOMAIN image.sh /\ e \in DOMAIN image.sh[j].rela
  BY <1>2, <1>3
<1>5. r = image.sh[j].rela[e] /\ y = image.sym[r.sym + 1]
  BY Zenon DEF Refers
<1>6. y \in Symbols
  <2>1. image.sym[image.sh[j].rela[e].sym + 1] \in Symbols
    BY <1>1, EntryTypes, Zenon
  <2> QED
    BY <1>5, <2>1, Zenon
<1>7. y.value \in Words /\ y.value \in Int
  BY ONLY <1>6, SymbolTypes, Zenon
<1>8. CASE y.shndx = SHN_ABS
  BY <1>5, <1>7, <1>8, Zenon DEF SymAddr, SymbolOf
<1>9. CASE y.shndx = SHN_UNDEF
  <2>1. y.shndx # SHN_ABS
    BY <1>9 DEF SHN_ABS, SHN_UNDEF
  <2>2. n = y.name
    BY <1>9, Zenon DEF Refers
  <2> QED
    BY <1>5, <1>9, <2>1, <2>2, FoundSymbol, Zenon DEF SymAddr, SymbolOf
<1>10. CASE y.shndx \notin {SHN_UNDEF, SHN_ABS}
  <2>1. PICK h : h = CHOOSE s \in SecIds : Holds(image, y.shndx + 1, s)
    OBVIOUS
  <2>2. h \in SecIds /\ h = CHOOSE s \in SecIds : SecName[s] = n
    <3>1. Refers(j, e, r, y, n)
      OBVIOUS
    <3> QED
      BY ONLY TypeOK, Faithful, <1>4, <1>10, <2>1, <3>1, SectionFound
  <2>3. SymAddr(y, n) = (y.value + sec[h].addr) % Word
    BY <1>10, <2>2, Zenon DEF SymAddr
  <2>4. SymbolOf(r) = (y.value + sec[h].addr) % Word
    BY <1>5, <1>10, <2>1, Zenon DEF SymbolOf
  <2>5. sec[h].addr \in Nat
    BY ONLY TypeOK, <2>2, SectionTypes
  <2>6. \A a \in Int, b \in Nat : (a + b) % Word \in Words
    BY ModWord
  <2> QED
    BY ONLY <1>7, <2>3, <2>4, <2>5, <2>6, Zenon
<1> QED
  BY <1>8, <1>9, <1>10, Zenon

\* What one entry of a supported image does: nothing, or the write it asks for.
LEMMA RelocateValue ==
  ASSUME TypeOK, RelaInv, Faithful, Relocate, nameErrs' = 0, pc' = "reloc",
         NEW j, j = i, NEW e, e = k, NEW r, r = image.sh[j].rela[e]
  PROVE  /\ j \in 1 .. Len(image.sh) /\ e \in 1 .. Len(image.sh[j].rela) /\ k' = e + 1
         /\ image.sh[j].type = "RELA"
         /\ r.type \in SkippedTypes => patches' = patches
         /\ r.type \notin SkippedTypes => patches' = Append(patches, Required(j, r))
<1> DEFINE sym == image.sym[r.sym + 1]
           at == (r.offset + base) % Word
<1>1. pc = "reloc" /\ e <= Len(image.sh[j].rela) /\ e \in Nat \ {0}
  <2>1. pc = "reloc" /\ k <= Len(image.sh[i].rela)
    BY Zenon DEF Relocate
  <2>2. k \in Nat \ {0}
    BY DEF TypeOK, ControlOK
  <2> QED
    BY <2>1, <2>2
<1>2. j \in 1 .. Len(image.sh) /\ image.sh[j] \in SectionHeaders /\ image.sh[j].type = "RELA"
  BY <1>1, HeaderType, TargetPicked DEF TypeOK, ControlOK
<1>3. image.sh[j].rela \in Seq(RelaEntries)
  BY <1>2 DEF SectionHeaders
<1>4. e \in 1 .. Len(image.sh[j].rela) /\ r \in RelaEntries
  BY <1>1, <1>3
<1>5. PICK n : /\ esp_elf_arch_relocate(r, at, SymAddr(sym, n)) /\ k' = e + 1
               /\ sym.shndx \in {SHN_UNDEF, SHN_ABS} \/ sym.shndx < Len(image.sh)
               /\ sym.shndx \notin {SHN_UNDEF, SHN_ABS} => n = NameOfSym(sym)
               /\ sym.shndx = SHN_UNDEF => n = sym.name
  <2>0. image.sym[image.sh[i].rela[k].sym + 1] = sym /\ (image.sh[i].rela[k].offset + base) % Word = at
        /\ image.sh[i].rela[k] = r
    OBVIOUS
  <2>1. SHN_ABS # SHN_UNDEF
    BY DEF SHN_ABS, SHN_UNDEF
  <2> HIDE DEF sym, at
  <2>2. CASE sym.shndx = SHN_ABS /\ esp_elf_arch_relocate(r, at, SymAddr(sym, <<>>)) /\ k' = k + 1
    BY <2>1, <2>2
  <2>3. CASE /\ sym.shndx = SHN_UNDEF
             /\ \E n : /\ ReadName(sym.name, n) /\ k' = k + 1
                       /\ esp_elf_arch_relocate(r, at, SymAddr(sym, n))
    BY <2>3, ReadsTrue
  <2>4. CASE /\ sym.shndx \notin {SHN_UNDEF, SHN_ABS} /\ sym.shndx < Len(image.sh)
             /\ \E n : /\ ReadName(NameOfSym(sym), n) /\ k' = k + 1
                       /\ esp_elf_arch_relocate(r, at, SymAddr(sym, n))
    BY <2>4, ReadsTrue
  <2> QED
    BY <2>0, <2>2, <2>3, <2>4 DEF Relocate, Return
<1>6. sym \in Symbols
  BY <1>2, <1>4, EntryTypes DEF TypeOK, ControlOK
<1>7. sym.shndx \in {SHN_UNDEF, SHN_ABS} \/ sym.shndx \in 1 .. Len(image.sh) - 1
  <2>1. sym.shndx \in Nat /\ Len(image.sh) \in Nat
    <3>1. sym.shndx \in Nat
      <4> HIDE DEF sym
      <4> QED
        BY <1>6 DEF Symbols
    <3>2. image.sh \in Seq(SectionHeaders)
      BY ImageTypes DEF TypeOK, ControlOK
    <3>3. Len(image.sh) \in Nat
      BY <3>2
    <3> QED
      BY <3>1, <3>3
  <2>2. sym.shndx # SHN_UNDEF => sym.shndx # 0
    BY DEF SHN_UNDEF
  <2> HIDE DEF sym
  <2> QED
    BY <1>5, <2>1, <2>2
<1>8. SymAddr(sym, n) = SymbolOf(r) /\ SymbolOf(r) \in Words
  <2>1. Refers(j, e, r, sym, n)
    BY <1>5, <1>7, Zenon DEF Refers
  <2> HIDE DEF sym
  <2> QED
    BY ONLY TypeOK, Faithful, <1>2, <1>4, <2>1, SymbolFound
<1>9. r.type \in WrittenTypes \cup SkippedTypes /\ (r.type \in CallTypes => r.addend = 0)
  <2>1. j \in DOMAIN image.sh /\ e \in DOMAIN image.sh[j].rela
    BY <1>2, <1>3, <1>4, ImageTypes DEF TypeOK, ControlOK
  <2> QED
    BY <2>1 DEF Faithful, SupportedImage
<1>10. WrittenTypes \cap SkippedTypes = {}
  BY SMT DEF WrittenTypes, SkippedTypes
<1>11. at = (sec[TargetOf(j)].addr + r.offset) % Word
  <2>1. base = sec[TargetOf(j)].addr
    BY <1>1, TargetPicked
  <2>2. r.offset \in Int /\ base \in Int
    BY <1>4, WordsAreInts DEF RelaEntries, TypeOK, ObjectOK
  <2> QED
    BY <2>1, <2>2
<1>12. PatchValue(r.type, SymbolOf(r), r.addend) = (SymbolOf(r) + r.addend) % Word
  <2> DEFINE y == SymbolOf(r)
  <2>1. y \in Nat /\ y < Word
    BY <1>8, WordAssumption DEF Words
  <2> HIDE DEF y
  <2>2. CASE r.type \in CallTypes
    <3>1. y + r.addend = y
      BY <1>9, <2>1, <2>2
    <3>2. y % Word = y
      BY <2>1, SmallMod
    <3> QED
      BY <2>2, <3>1, <3>2 DEF PatchValue, y
  <2>3. CASE r.type \notin CallTypes
    BY <2>3 DEF PatchValue
  <2> QED
    BY <2>2, <2>3
<1> HIDE DEF sym, at
<1>13. r.type \in SkippedTypes => patches' = patches
  BY <1>5, <1>9, <1>10 DEF esp_elf_arch_relocate
<1>14. r.type \notin SkippedTypes => patches' = Append(patches, Required(j, r))
  BY <1>5, <1>8, <1>9, <1>11, <1>12 DEF esp_elf_arch_relocate, Required
<1> QED
  BY <1>2, <1>4, <1>5, <1>13, <1>14

\* What the file asks for changes with the file and the section table only.
LEMMA SameRequired ==
  ASSUME UNCHANGED <<image, sec>>
  PROVE  Entries' = Entries /\ \A x : Rank(x)' = Rank(x) /\ RequiredOf(x)' = RequiredOf(x)
<1>1. \A j : Writing(j)' = Writing(j)
  BY DEF Writing
<1>2. Entries' = Entries
  BY <1>1 DEF Entries
<1>3. ASSUME NEW x PROVE Rank(x)' = Rank(x)
  BY <1>2 DEF Rank
<1>4. ASSUME NEW x PROVE RequiredOf(x)' = RequiredOf(x)
  <2>1. \A j : TargetOf(j)' = TargetOf(j)
    BY DEF TargetOf
  <2>2. \A r : SymbolOf(r)' = SymbolOf(r)
    BY DEF SymbolOf
  <2> QED
    BY <2>1, <2>2 DEF RequiredOf, Required
<1> QED
  BY <1>2, <1>3, <1>4

\* Whatever leaves the writes and the entries behind it alone keeps the rest.
LEMMA SameApplied ==
  ASSUME Applied, UNCHANGED <<image, sec, patches, Done>>
  PROVE  Applied'
BY SameRequired DEF Applied, AppliedAt

\* The entry at hand is the next in file order: its write is the next one.
LEMMA OneMore ==
  ASSUME TypeOK, Applied, pc = "reloc", pc' = "reloc", UNCHANGED <<image, sec, i>>,
         NEW j, j = i, NEW e, e = k, k' = e + 1, NEW x, x = <<j, e>>, x \in Entries,
         patches' = Append(patches, RequiredOf(x))
  PROVE  Applied'
<1>1. \A y \in Entries : y = <<y[1], y[2]>> /\ y[1] \in Nat /\ y[2] \in Nat
  BY EntryPairs
<1>2. j \in Nat /\ e \in Nat /\ x[1] = j /\ x[2] = e
  <2>1. x[1] = j /\ x[2] = e
    OBVIOUS
  <2> QED
    BY <1>1, <2>1
<1>3. \A y : Behind(y) <=> y[1] < j \/ (y[1] = j /\ y[2] < e)
  BY DEF Behind
<1>4. \A y : Behind(y)' <=> y[1] < j \/ (y[1] = j /\ y[2] < e + 1)
  BY DEF Behind
<1>5. \A y \in Entries : NotAfter(y, x) <=> Behind(y)'
  BY <1>1, <1>2, <1>4 DEF NotAfter
<1>6. \A y \in Entries : Behind(y)' <=> Behind(y) \/ y = x
  <2> SUFFICES ASSUME NEW y \in Entries PROVE Behind(y)' <=> Behind(y) \/ y = x
    OBVIOUS
  <2>1. y = x <=> y[1] = j /\ y[2] = e
    BY <1>1, <1>2
  <2>2. y[1] \in Nat /\ y[2] \in Nat
    BY <1>1
  <2>3. y[2] < e + 1 <=> y[2] < e \/ y[2] = e
    BY <1>2, <2>2
  <2> QED
    BY <1>3, <1>4, <2>1, <2>3
<1>7. ~Behind(x)
  BY <1>2, <1>3
<1>8. Entries' = Entries /\ \A y : Rank(y)' = Rank(y) /\ RequiredOf(y)' = RequiredOf(y)
  BY SameRequired
<1>9. Done' = Done \cup {x} /\ x \notin Done
  BY <1>6, <1>7, <1>8 DEF Done
<1>10. {y \in Entries : NotAfter(y, x)} = Done \cup {x}
  BY <1>5, <1>6 DEF Done
<1> DEFINE m == Cardinality(Done)
<1>11. IsFiniteSet(Done) /\ m \in Nat
  BY FS_CardinalityType DEF Applied
<1>12. IsFiniteSet(Done') /\ Cardinality(Done') = m + 1 /\ Rank(x) = m + 1
  <2>1. IsFiniteSet(Done \cup {x}) /\ Cardinality(Done \cup {x}) = m + 1
    BY <1>9, <1>11, FS_AddElement
  <2> QED
    BY <1>9, <1>10, <2>1 DEF Rank
<1>13. patches \in Seq(Patches) /\ Len(patches) = m
  BY DEF Applied, TypeOK, MemoryOK
<1> HIDE DEF m
<1>14. /\ Len(patches') = m + 1 /\ patches'[m + 1] = RequiredOf(x)
       /\ \A n \in 1 .. m : patches'[n] = patches[n]
  BY <1>11, <1>13
<1>15. \A y \in Done : AppliedAt(y)'
  <2> SUFFICES ASSUME NEW y \in Done PROVE AppliedAt(y)'
    OBVIOUS
  <2>1. Rank(y) \in 1 .. m /\ patches[Rank(y)] = RequiredOf(y)
    BY <1>13 DEF Applied, AppliedAt
  <2>2. Rank(y) \in 1 .. m + 1 /\ patches'[Rank(y)] = RequiredOf(y)
    BY <1>11, <1>14, <2>1
  <2> QED
    BY <1>8, <1>14, <2>2 DEF AppliedAt
<1>16. AppliedAt(x)'
  <2>1. m + 1 \in 1 .. m + 1
    BY <1>11
  <2> QED
    BY <1>8, <1>12, <1>14, <2>1 DEF AppliedAt
<1>17. ASSUME NEW n \in 1 .. m + 1 PROVE \E y \in Done' : Rank(y)' = n
  <2>1. CASE n = m + 1
    BY <1>8, <1>9, <1>12, <2>1
  <2>2. CASE n \in 1 .. m
    <3>1. PICK y \in Done : Rank(y) = n
      BY <1>13, <2>2 DEF Applied
    <3> QED
      BY <1>8, <1>9, <3>1
  <2> QED
    BY <1>11, <2>1, <2>2
<1> QED
  BY <1>9, <1>12, <1>14, <1>15, <1>16, <1>17 DEF Applied

\* Steps with Ready' that change no write leave the same entries behind them.
LEMMA SameDone ==
  ASSUME TypeOK, UNCHANGED <<image, sec>>,
         \A x \in Entries : x[1] \in 1 .. Len(image.sh) /\ x[2] \in 1 .. Len(image.sh[x[1]].rela)
                              => (Behind(x)' <=> Behind(x))
  PROVE  Done' = Done
<1>1. Entries' = Entries
  BY SameRequired
<1>2. \A x \in Entries : Behind(x)' <=> Behind(x)
  BY EntryPairs
<1> QED
  BY <1>1, <1>2 DEF Done

\* Every step keeps the account of the writes.
LEMMA AppliedStep == TypeOK /\ RelaInv /\ AppliedInv /\ [Next]_vars => AppliedInv'
<1> SUFFICES ASSUME TypeOK, RelaInv, AppliedInv, [Next]_vars, Ready', Faithful' PROVE Applied'
  BY DEF AppliedInv
<1>0. image \in Images /\ image.sh \in Seq(SectionHeaders) /\ Len(image.sh) \in Nat /\ i \in Nat
      /\ i \in 1 .. Len(image.sh) + 1
  <2>1. image \in Images /\ i \in 1 .. Len(image.sh) + 1
    BY DEF TypeOK, ControlOK
  <2>2. image.sh \in Seq(SectionHeaders)
    BY <2>1, ImageTypes
  <2> QED
    BY <2>1, <2>2
\* A step of the relocation that changes no write.
<1>1. ASSUME Ready, UNCHANGED <<image, sec, patches, Done>>, nameErrs' = 0 => nameErrs = 0
      PROVE  Applied'
  <2>1. Faithful
    BY <1>1 DEF Faithful, SumsFit
  <2> QED
    BY <1>1, <2>1, SameApplied DEF AppliedInv
<1>2. CASE SetEntry
  <2>2. patches' = <<>> /\ pc' = "rela" /\ i' = 1 /\ UNCHANGED image
    BY <1>2 DEF SetEntry, RelaInv, memVars
  <2>3. \A x \in Entries' : ~Behind(x)'
    <3>1. Entries' = Entries
      BY <2>2 DEF Entries, Writing
    <3>2. \A x \in Entries : ~ (x[1] < 1)
      BY EntryPairs
    <3> QED
      BY <2>2, <3>1, <3>2 DEF Behind
  <2>4. Done' = {}
    BY <2>3 DEF Done
  <2> QED
    BY <2>2, <2>4, FS_EmptySet DEF Applied
<1>3. CASE RelaSection
  <2>1. pc = "rela" /\ i <= Len(image.sh) /\ UNCHANGED <<image, sec, patches>>
        /\ (nameErrs' = 0 => nameErrs = 0)
    BY <1>3, ReadsTrue DEF RelaSection, elfVars, memVars
  <2>2. \/ image.sh[i].type # "RELA" /\ i' = i + 1 /\ pc' = "rela"
        \/ image.sh[i].type = "RELA" /\ i' = i /\ k' = 1 /\ pc' = "reloc"
    BY <1>3 DEF RelaSection, Return, Ready
  <2>3. \A x \in Entries : x[1] \in Nat /\ x[2] \in Nat \ {0} /\ image.sh[x[1]].type = "RELA"
    BY EntryPairs
  <2>4. \A x \in Entries : Behind(x)' <=> Behind(x)
    BY <1>0, <2>1, <2>2, <2>3 DEF Behind
  <2> QED
    BY <1>1, <2>1, <2>4, SameDone DEF Ready
<1>4. CASE RelaDone
  <2>1. /\ pc = "rela" /\ i > Len(image.sh) /\ pc' = "close" /\ UNCHANGED <<image, sec, patches, nameErrs>>
    BY <1>4 DEF RelaDone, Return, elfVars, memVars
  <2>2. \A x \in Entries : Behind(x)' <=> Behind(x)
    BY <1>0, <2>1, EntryPairs DEF Behind
  <2> QED
    BY <1>1, <2>1, <2>2, SameDone DEF Ready
<1>5. CASE Relocate
  <2>1. /\ pc = "reloc" /\ UNCHANGED <<image, sec, i>> /\ (nameErrs' = 0 => nameErrs = 0)
    <3>1. pc = "reloc" /\ UNCHANGED <<image, sec, i>>
      BY <1>5, Zenon DEF Relocate, elfVars
    <3>2. UNCHANGED nameErrs \/ \E x, n : ReadName(x, n)
      BY <1>5, Zenon DEF Relocate
    <3>3. nameErrs' = 0 => nameErrs = 0
      BY <3>2, ReadsTrue
    <3> QED
      BY <3>1, <3>3
  <2>2. pc' = "reloc"
    <3> DEFINE Refused == pc' = "close" /\ ret' \in {"ENOEXEC", "EINVAL", "ENOSYS"}
    <3>1. pc' = pc \/ Refused
      <4>1. Return("ENOEXEC") \/ Return("EINVAL") \/ Return("ENOSYS") => Refused
        BY DEF Return
      <4> HIDE DEF Refused
      <4> QED
        BY <1>5, <4>1, Zenon DEF Relocate
    <3> QED
      BY <2>1, <3>1 DEF Ready
  <2>3. nameErrs' = 0 /\ Faithful
    BY <2>1 DEF Faithful, SumsFit
  <2>4. Applied
    BY <2>1, <2>3 DEF Ready, AppliedInv
  <2>5. PICK j, e, r : j = i /\ e = k /\ r = image.sh[j].rela[e]
    OBVIOUS
  <2>6. /\ j \in 1 .. Len(image.sh) /\ e \in 1 .. Len(image.sh[j].rela) /\ k' = e + 1
        /\ image.sh[j].type = "RELA"
        /\ r.type \in SkippedTypes => patches' = patches
        /\ r.type \notin SkippedTypes => patches' = Append(patches, Required(j, r))
    BY <1>5, <2>2, <2>3, <2>5, RelocateValue
  <2>7. <<j, e>> \in Entries <=> r.type \notin SkippedTypes
    BY <2>5, <2>6, EntryPairs
  <2>8. CASE r.type \notin SkippedTypes
    <3>1. RequiredOf(<<j, e>>) = Required(j, r)
      BY <2>5 DEF RequiredOf
    <3> QED
      BY <2>1, <2>2, <2>4, <2>5, <2>6, <2>7, <2>8, <3>1, OneMore
  <2>9. CASE r.type \in SkippedTypes
    <3>1. \A x \in Entries : x[2] \in Nat /\ x # <<j, e>> /\ x = <<x[1], x[2]>>
      BY <2>7, <2>9, EntryPairs
    <3>2. e \in Nat /\ k' = e + 1 /\ i' = j /\ k = e /\ i = j
      BY <2>1, <2>5, <2>6
    <3>3. \A x \in Entries : Behind(x)' <=> Behind(x)
      BY <2>1, <2>2, <3>1, <3>2 DEF Behind
    <3> QED
      BY <1>1, <2>1, <2>6, <2>9, <3>3, SameDone DEF Ready
  <2> QED
    BY <2>8, <2>9
<1>6. CASE RelocDone
  <2>1. /\ pc = "reloc" /\ k > Len(image.sh[i].rela) /\ i' = i + 1 /\ pc' = "rela"
        /\ UNCHANGED <<image, sec, patches, nameErrs>>
    BY <1>6 DEF RelocDone, elfVars, memVars
  <2>2. image.sh[i].rela \in Seq(RelaEntries) /\ Len(image.sh[i].rela) \in Nat /\ k \in Nat
    <3>1. image.sh[i] \in SectionHeaders
      BY <2>1, HeaderType DEF TypeOK, ControlOK
    <3>2. image.sh[i].rela \in Seq(RelaEntries)
      BY <3>1 DEF SectionHeaders
    <3> QED
      BY <3>2 DEF TypeOK, ControlOK
  <2>3. ASSUME NEW x \in Entries PROVE Behind(x)' <=> Behind(x)
    <3>1. x[1] \in Nat /\ x[2] \in Nat /\ x[2] <= Len(image.sh[x[1]].rela)
      BY EntryPairs
    <3>2. x[1] = i => x[2] < k
      BY <2>1, <2>2, <3>1
    <3> QED
      BY <1>0, <2>1, <3>1, <3>2 DEF Behind
  <2> QED
    BY <1>1, <2>1, <2>3, SameDone DEF Ready
<1>7. CASE Close
  <2>1. /\ pc = "close" /\ pc' = "running" /\ ret = "OK" /\ UNCHANGED <<image, sec, patches, nameErrs>>
    BY <1>7 DEF Close, elfVars, memVars, Ready
  <2>2. \A x \in Entries : Behind(x)' <=> Behind(x)
    BY <2>1 DEF Behind
  <2> QED
    BY <1>1, <2>1, <2>2, SameDone DEF Ready
<1>8. CASE UNCHANGED vars
  <2>1. Ready /\ UNCHANGED <<image, sec, patches, nameErrs>>
    BY <1>8 DEF vars, Ready
  <2>2. \A x \in Entries : Behind(x)' <=> Behind(x)
    BY <1>8 DEF Behind, vars
  <2> QED
    BY <1>1, <2>1, <2>2, SameDone
<1>9. Boot \/ Open \/ ReadHeader \/ ScanSection \/ AllocText \/ AllocData \/ LoadText
        \/ EntryReturns \/ Deinit \/ Restart => ~Ready'
  <2>1. pc' \notin {"rela", "reloc", "close", "running"} => ~Ready'
    BY DEF Ready
  <2>2. ASSUME NEW c \in {"ENOEXEC", "EINVAL", "ENOMEM"}, Return(c) PROVE ~Ready'
    BY <2>2 DEF Return, Ready
  <2>3. Boot \/ Open \/ EntryReturns \/ Deinit \/ Restart => ~Ready'
    BY <2>1 DEF Boot, Open, EntryReturns, Deinit, Restart
  <2>4. ReadHeader \/ LoadText => ~Ready'
    BY <2>1, <2>2 DEF ReadHeader, LoadText
  <2>5. ScanSection => ~Ready'
    <3>1. ScanSection => Return("ENOEXEC") \/ (pc = "scan" /\ pc' = pc)
      BY Zenon DEF ScanSection
    <3> QED
      BY <2>1, <2>2, <3>1
  <2>6. AllocText => ~Ready'
    BY <2>1, <2>2 DEF AllocText
  <2>7. AllocData => ~Ready'
    BY <2>1, <2>2 DEF AllocData
  <2> QED
    BY <2>3, <2>4, <2>5, <2>6, <2>7
<1>10. ASSUME NEW s \in DOMAIN AfterLoad, LoadData(s) PROVE ~Ready'
  BY <1>10 DEF LoadData, AfterLoad, Return, Ready
<1> QED
  BY <1>2, <1>3, <1>4, <1>5, <1>6, <1>7, <1>8, <1>9, <1>10 DEF Next, System

\* Once every entry is behind the relocation, the writes are the ones of the
\* file, in its order.
LEMMA AllApplied == ASSUME TypeOK, Applied, pc = "running" PROVE patches = RequiredPatches
<1>1. Done = Entries
  BY DEF Done, Behind
<1>2. patches \in Seq(Patches) /\ Len(patches) = Cardinality(Entries)
  BY <1>1 DEF Applied, TypeOK, MemoryOK
<1>3. patches = [n \in 1 .. Cardinality(Entries) |-> patches[n]]
  BY <1>2
<1>4. ASSUME NEW n \in 1 .. Cardinality(Entries)
      PROVE  patches[n] = RequiredOf(CHOOSE x \in Entries : Rank(x) = n)
  <2> DEFINE y == CHOOSE x \in Entries : Rank(x) = n
  <2>1. \E x \in Entries : Rank(x) = n
    BY <1>1, <1>2 DEF Applied
  <2>2. y \in Entries /\ Rank(y) = n
    BY <2>1
  <2> HIDE DEF y
  <2>3. patches[n] = RequiredOf(y)
    BY <1>1, <2>2 DEF Applied, AppliedAt
  <2> QED
    BY <2>3 DEF y
<1> QED
  BY <1>3, <1>4 DEF RequiredPatches

\* The application is started only on a complete image: every section of the
\* file is in memory, the entry point is that of the loaded .text, and each
\* relocation was applied once, in file order, at the byte it names and with
\* its symbol plus addend -- for every supported file, every address malloc
\* may return and every set of exported symbols.
THEOREM RunsOnlyRelocated == Spec => []RunsRelocatedImage
<1>1. Init => FilledInv /\ AppliedInv
  BY DEF Init, FilledInv, Loaded, AppliedInv, Ready
<1>2. TypeOK /\ PlacedInv /\ CompleteInv /\ ScanInv /\ FilledInv /\ AppliedInv
        => RunsRelocatedImage
  <2> SUFFICES ASSUME TypeOK, PlacedInv, CompleteInv, ScanInv, FilledInv, AppliedInv,
                      pc = "running", Faithful
               PROVE  /\ \A j \in DOMAIN image.sh, s \in SecIds :
                           Holds(image, j, s) /\ image.sh[j].size # 0 =>
                             /\ mem[s] = (IF s = "BSS" THEN "zero" ELSE "file")
                             /\ sec[s].offset = image.sh[j].offset
                      /\ \A j \in DOMAIN image.sh : Holds(image, j, "TEXT") =>
                           entry = (ptext + image.entry - image.sh[j].v_addr) % Word
                      /\ patches = RequiredPatches
    BY DEF RunsRelocatedImage, Faithful
  <2>1. Ready
    BY DEF Ready
  <2>2. UniqueNames /\ nameErrs = 0 /\ SumsFit
    <3>1. LinkedImage(image) /\ nameErrs = 0 /\ SumsFit
      BY DEF Faithful, SupportedImage
    <3>2. UniqueNames
      BY <3>1, Zenon DEF UniqueNames, LinkedImage
    <3> QED
      BY <3>1, <3>2
  <2>3. sec["TEXT"].size # 0
    BY <2>1 DEF ScanInv
  <2>4. ASSUME NEW j \in DOMAIN image.sh, NEW s \in SecIds, Holds(image, j, s)
        PROVE  FiledAs(s, image.sh[j])
    <3>1. j \in 1 .. Len(image.sh)
      BY ImageTypes DEF TypeOK, ControlOK
    <3> QED
      BY <2>1, <2>2, <2>4, <3>1 DEF ScanInv
  <2>5. \A s \in SecIds : sec[s].size # 0 => Loaded(s)
    BY <2>1, <2>2 DEF CompleteInv
  <2>6. ASSUME NEW j \in DOMAIN image.sh, NEW s \in SecIds, Holds(image, j, s),
               image.sh[j].size # 0
        PROVE  /\ mem[s] = (IF s = "BSS" THEN "zero" ELSE "file")
               /\ sec[s].offset = image.sh[j].offset
    <3>1. FiledAs(s, image.sh[j])
      BY <2>4, <2>6
    <3>2. sec[s].size # 0
      BY <2>3, <2>6, <3>1 DEF FiledAs, ScannedSize
    <3> QED
      BY <2>5, <3>1, <3>2 DEF FilledInv, FiledAs
  <2>7. ASSUME NEW j \in DOMAIN image.sh, Holds(image, j, "TEXT")
        PROVE  entry = (ptext + image.entry - image.sh[j].v_addr) % Word
    <3>1. "TEXT" \in SecIds
      BY DEF SecIds
    <3>2. sec["TEXT"].v_addr = image.sh[j].v_addr
      BY <2>4, <2>7, <3>1 DEF FiledAs
    <3>3. sec["TEXT"].addr = ptext
      BY <2>3, <2>5, <3>1 DEF PlacedInv
    <3>4. image.entry \in Int
      BY ImageTypes, WordsAreInts DEF TypeOK, ControlOK
    <3>5. sec["TEXT"].v_addr \in Nat /\ sec["TEXT"].addr \in Nat
      BY <3>1, SectionTypes
    <3>6. \A a, b, c \in Int : a + b - c = b + a - c
      OBVIOUS
    <3>7. image.entry + ptext - image.sh[j].v_addr = ptext + image.entry - image.sh[j].v_addr
      BY <3>2, <3>3, <3>4, <3>5, <3>6
    <3>8. entry = (image.entry + ptext - image.sh[j].v_addr) % Word
      BY <2>1, <3>2, <3>3 DEF CompleteInv
    <3> QED
      BY <3>7, <3>8
  <2>8. patches = RequiredPatches
    BY <2>1, AllApplied DEF AppliedInv
  <2> QED
    BY <2>6, <2>7, <2>8
<1> QED
  BY <1>1, <1>2, FilledStep, AppliedStep, TypeCorrect, PlacedInvariant, CompleteInvariant,
     PTL DEF Spec

-----------------------------------------------------------------------------
(* Link addresses mapped to load addresses.                                *)

\* The link addresses do not wrap around and no two sections share one.
LinkedApart ==
  /\ \A s \in SecIds : sec[s].v_addr + sec[s].size < Word
  /\ \A s, t \in SecIds : s # t => VRange(s) \cap VRange(t) = {}

\* The search of the section table finds the section that holds the address.
LEMMA SearchFinds ==
  ASSUME TypeOK, LinkedApart, NEW s \in SecIds, NEW u \in VRange(s)
  PROVE  esp_elf_map_sym(u) = (u - sec[s].v_addr + sec[s].addr) % Word
<1> DEFINE Test(t) == u >= sec[t].v_addr /\ u < (sec[t].v_addr + sec[t].size) % Word
           I == {j \in 1 .. Len(MapOrder) : Test(MapOrder[j])}
<1>1. ASSUME NEW t \in SecIds PROVE Test(t) <=> t = s
  <2>1. sec[t].v_addr \in Nat /\ sec[t].size \in Nat /\ sec[t].v_addr + sec[t].size < Word
    BY SectionTypes DEF LinkedApart
  <2>2. (sec[t].v_addr + sec[t].size) % Word = sec[t].v_addr + sec[t].size
    BY <2>1, SmallMod
  <2>3. sec[s].v_addr \in Nat /\ sec[s].size \in Nat /\ u \in Int
    BY SectionTypes DEF VRange
  <2>4. Test(t) <=> u \in VRange(t)
    BY <2>1, <2>2, <2>3 DEF VRange
  <2>5. u \in VRange(t) => t = s
    BY DEF LinkedApart
  <2> QED
    BY <2>4, <2>5
<1>2. \A j \in 1 .. 5 : MapOrder[j] \in SecIds
  BY DEF MapOrder, SecIds
<1>3. \E j \in 1 .. 5 : MapOrder[j] = s
  BY DEF MapOrder, SecIds
<1>4. I # {} /\ Min(I) \in I /\ Min(I) \in 1 .. 5 /\ Min(I) # 0
  <2>1. Len(MapOrder) = 5
    BY DEF MapOrder
  <2> HIDE DEF Test
  <2>2. I # {} /\ I \in SUBSET Nat /\ I \subseteq 1 .. 5
    BY <1>1, <1>2, <1>3, <2>1
  <2> HIDE DEF I
  <2>3. Min(I) \in I
    BY <2>2, MinOfNats
  <2>4. \A j \in 1 .. 5 : j # 0
    OBVIOUS
  <2> QED
    BY <2>2, <2>3, <2>4
<1>5. MapOrder[Min(I)] = s
  <2> HIDE DEF Test
  <2>1. Test(MapOrder[Min(I)])
    BY <1>4
  <2> QED
    BY <1>1, <1>2, <1>4, <2>1
<1>6. esp_elf_map_sym(u) = IF I = {} THEN 0
        ELSE (u - sec[MapOrder[Min(I)]].v_addr + sec[MapOrder[Min(I)]].addr) % Word
  BY <1>4, Zenon DEF esp_elf_map_sym, SelectInSeq
<1> HIDE DEF I
<1> QED
  BY <1>4, <1>5, <1>6

\* In a complete image the search answers with the byte of the loaded section.
LEMMA MapsIntoSection ==
  ASSUME TypeOK, Ownership, BlocksInv, Layout, CompleteInv, LinkedApart, SumsFit,
         pc = "running", NEW s \in SecIds, NEW u \in VRange(s)
  PROVE  /\ Loaded(s)
         /\ esp_elf_map_sym(u) = u - sec[s].v_addr + sec[s].addr
         /\ esp_elf_map_sym(u) \in sec[s].addr .. sec[s].addr + sec[s].size - 1
<1>1. /\ sec[s].v_addr \in Nat /\ sec[s].size \in Nat /\ sec[s].addr \in Nat
  BY SectionTypes
<1>2. u \in Int /\ sec[s].v_addr <= u /\ u < sec[s].v_addr + sec[s].size
  BY <1>1 DEF VRange
<1>3. Loaded(s)
  BY <1>1, <1>2 DEF CompleteInv, Ready
<1>4. PICK b \in heap : Within(s, b)
  BY <1>3 DEF Layout
<1>5. b.base \in Nat /\ b.size \in Nat /\ b.base + b.size < Word
  BY BlocksEnd
<1>6. /\ u - sec[s].v_addr + sec[s].addr \in Nat
      /\ u - sec[s].v_addr + sec[s].addr < Word
      /\ u - sec[s].v_addr + sec[s].addr \in sec[s].addr .. sec[s].addr + sec[s].size - 1
  BY <1>1, <1>2, <1>4, <1>5, WordAssumption DEF Within
<1>7. (u - sec[s].v_addr + sec[s].addr) % Word = u - sec[s].v_addr + sec[s].addr
  BY <1>6, SmallMod
<1> QED
  BY <1>3, <1>6, <1>7, SearchFinds

\* esp_elf_map_sym sends distinct link addresses of a running image to distinct
\* bytes of the sections in memory, and the entry point of the file to
\* elf->entry, for every image whose sections have link addresses of their own.
THEOREM MapSymIsSound == Spec => []MapSymSound
<1>1. TypeOK /\ Ownership /\ BlocksInv /\ Layout /\ CompleteInv => MapSymSound
  <2> SUFFICES ASSUME TypeOK, Ownership, BlocksInv, Layout, CompleteInv,
                      pc = "running", SumsFit, LinkedApart
               PROVE  /\ \A s, t \in SecIds : \A u \in VRange(s), v \in VRange(t) :
                           u # v => esp_elf_map_sym(u) # esp_elf_map_sym(v)
                      /\ image.entry \in VRange("TEXT") =>
                           esp_elf_map_sym(image.entry) = entry
    BY DEF MapSymSound, LinkedApart
  <2>1. ASSUME NEW s \in SecIds, NEW t \in SecIds, NEW u \in VRange(s), NEW v \in VRange(t), u # v
        PROVE  esp_elf_map_sym(u) # esp_elf_map_sym(v)
    <3> DEFINE x == esp_elf_map_sym(u)
               y == esp_elf_map_sym(v)
    <3>1. /\ Loaded(s) /\ x = u - sec[s].v_addr + sec[s].addr
          /\ x \in sec[s].addr .. sec[s].addr + sec[s].size - 1
      BY MapsIntoSection
    <3>2. /\ Loaded(t) /\ y = v - sec[t].v_addr + sec[t].addr
          /\ y \in sec[t].addr .. sec[t].addr + sec[t].size - 1
      BY MapsIntoSection
    <3>3. /\ sec[s].v_addr \in Nat /\ sec[s].size \in Nat /\ sec[s].addr \in Nat
          /\ sec[t].v_addr \in Nat /\ sec[t].size \in Nat /\ sec[t].addr \in Nat
      BY SectionTypes
    <3>4. u \in Int /\ v \in Int
      BY DEF VRange
    <3> HIDE DEF x, y
    <3>5. s = t => x # y
      BY <2>1, <3>1, <3>2, <3>3, <3>4
    <3>6. s # t => x # y
      <4>1. s # t => Apart(s, t)
        BY <3>1, <3>2 DEF Layout
      <4> QED
        BY <3>1, <3>2, <3>3, <4>1 DEF Apart
    <3>7. x # y
      BY <3>5, <3>6
    <3> QED
      BY <3>7 DEF x, y
  <2>2. ASSUME image.entry \in VRange("TEXT") PROVE esp_elf_map_sym(image.entry) = entry
    <3>1. "TEXT" \in SecIds
      BY DEF SecIds
    <3>2. /\ sec["TEXT"].v_addr \in Nat /\ sec["TEXT"].addr \in Nat /\ image.entry \in Int
      BY <2>2, <3>1, SectionTypes DEF VRange
    <3>3. esp_elf_map_sym(image.entry)
            = (image.entry - sec["TEXT"].v_addr + sec["TEXT"].addr) % Word
      BY <2>2, <3>1, SearchFinds
    <3>4. image.entry - sec["TEXT"].v_addr + sec["TEXT"].addr
            = image.entry + sec["TEXT"].addr - sec["TEXT"].v_addr
      BY <3>2
    <3> QED
      BY <3>3, <3>4 DEF CompleteInv, Ready
  <2> QED
    BY <2>1, <2>2
<1> QED
  BY <1>1, TypeCorrect, OwnershipInvariant, PlacedInvariant, SectionsLaidOut, CompleteInvariant,
     PTL

-----------------------------------------------------------------------------
(* The contract of a boot.                                                 *)

Reading == {"header", "scan", "alloc_data", "load_text", "DATA", "RODATA", "DRLRO",
            "BSS", "entry", "rela", "reloc", "close"}
HasText == {"alloc_data", "load_text", "DATA", "RODATA", "DRLRO", "BSS", "entry",
            "rela", "reloc", "running"}

\* The file is open while it is read, and no path leads to the application
\* without a block for .text.
BootInv ==
  /\ pc \in Reading => file
  /\ pc \in HasText \/ (pc = "close" /\ ret = "OK") => ptext # NULL

\* Every step keeps the file open until fclose and the text until the end.
LEMMA BootStep == BootInv /\ [Next]_vars => BootInv'
<1> SUFFICES ASSUME BootInv, [Next]_vars PROVE BootInv'
  OBVIOUS
<1> USE DEF BootInv, Reading, HasText
<1>1. CASE Boot \/ Open \/ Close \/ EntryReturns \/ Deinit \/ Restart
  BY <1>1 DEF Boot, Open, Close, EntryReturns, Deinit, Restart, elfVars
<1>2. CASE ReadHeader \/ ScanSection \/ LoadText \/ SetEntry \/ RelaDone \/ RelocDone
  BY <1>2 DEF ReadHeader, ScanSection, LoadText, SetEntry, RelaDone, RelocDone, Return, elfVars
<1>3. CASE AllocText
  BY <1>3, HeapAssumption DEF AllocText, Return, esp_elf_malloc
<1>4. CASE AllocData
  BY <1>4 DEF AllocData, Return
<1>5. ASSUME NEW s \in DOMAIN AfterLoad, LoadData(s) PROVE BootInv'
  BY <1>5 DEF LoadData, AfterLoad, Return
<1>6. CASE RelaSection
  BY <1>6 DEF RelaSection, Return, elfVars
<1>7. CASE Relocate
  <2>1. /\ pc = "reloc" /\ UNCHANGED <<file, ptext>>
        /\ pc' = "reloc" \/ (pc' = "close" /\ ret' # "OK")
    BY <1>7, Zenon DEF Relocate, Return, elfVars
  <2> QED
    BY <2>1
<1>8. CASE UNCHANGED vars
  BY <1>8 DEF vars
<1> QED
  BY <1>1, <1>2, <1>3, <1>4, <1>5, <1>6, <1>7, <1>8 DEF Next, System

\* ... so it holds throughout.
LEMMA BootInvariant == Spec => []BootInv
<1>1. Init => BootInv
  BY DEF Init, BootInv, Reading, HasText
<1> QED
  BY <1>1, BootStep, PTL DEF Spec

\* Every step of the boot task is a step of the contract, or none.
LEMMA ContractStep ==
  TypeOK /\ Ownership /\ FileInv /\ BootInv /\ [Next]_vars => [Contract!Next]_(Contract!vars)
<1> SUFFICES ASSUME TypeOK, Ownership, FileInv, BootInv, [Next]_vars
             PROVE  Contract!Next \/ UNCHANGED Contract!vars
  OBVIOUS
<1>0. file \in BOOLEAN /\ pc \in PCs
  BY DEF TypeOK, ControlOK
<1>1. CASE Boot
  <2>1. Contract!PowerOn
    BY <1>1 DEF Boot, Contract!PowerOn, Phase, memVars
  <2> QED
    BY <2>1 DEF Contract!Next
<1>2. CASE Open
  <2>1. Contract!OpenFile \/ Contract!NoFile
    BY <1>2 DEF Open, FileInv, Contract!OpenFile, Contract!NoFile, Phase, memVars, elfVars
  <2> QED
    BY <2>1 DEF Contract!Next
<1>3. CASE ReadHeader \/ ScanSection \/ LoadText \/ SetEntry \/ RelaSection \/ RelaDone
             \/ Relocate \/ RelocDone \/ (\E s \in DOMAIN AfterLoad : LoadData(s))
  <2>1. /\ pc \in Reading /\ pc' \in Reading /\ UNCHANGED <<file, heap>>
    <3>1. CASE ReadHeader \/ ScanSection \/ LoadText \/ SetEntry
      BY <3>1 DEF ReadHeader, ScanSection, LoadText, SetEntry, Return, Reading, memVars
    <3>2. CASE RelaSection \/ RelaDone \/ RelocDone
      BY <3>2 DEF RelaSection, RelaDone, RelocDone, Return, Reading, memVars
    <3>3. CASE Relocate
      BY <3>3, Zenon DEF Relocate, Return, Reading
    <3>4. CASE \E s \in DOMAIN AfterLoad : LoadData(s)
      BY <3>4 DEF LoadData, AfterLoad, Return, Reading
    <3> QED
      BY <1>3, <3>1, <3>2, <3>3, <3>4
  <2>2. Contract!Load
    BY <2>1 DEF Contract!Load, Phase, BootInv, Reading
  <2> QED
    BY <2>2 DEF Contract!Next
<1>4. CASE AllocText
  <2>1. /\ pc \in Reading /\ pc' \in Reading /\ UNCHANGED <<file, sec, entry, mem, patches>>
        /\ heap' = heap \/ \E b : heap' = heap \cup {b}
    BY <1>4 DEF AllocText, Return, Reading
  <2>2. Contract!Acquire \/ UNCHANGED Contract!vars
    BY <2>1 DEF Contract!Acquire, Contract!vars, Phase, BootInv, Reading
  <2> QED
    BY <2>2 DEF Contract!Next
<1>5. CASE AllocData
  <2>1. /\ pc \in Reading /\ pc' \in Reading /\ UNCHANGED <<file, sec, entry, mem, patches>>
        /\ heap' = heap \/ \E b : heap' = heap \cup {b}
    BY <1>5 DEF AllocData, Return, Reading
  <2>2. Contract!Acquire \/ UNCHANGED Contract!vars
    BY <2>1 DEF Contract!Acquire, Contract!vars, Phase, BootInv, Reading
  <2> QED
    BY <2>2 DEF Contract!Next
<1>6. CASE Close
  <2>1. ret = "OK" => heap # {}
    BY <1>6 DEF Close, BootInv, Ownership, OwnedHeap, Block
  <2>2. Contract!Start \/ Contract!GiveUp
    BY <1>6, <2>1 DEF Close, BootInv, Reading, Contract!Start, Contract!GiveUp, Phase,
       memVars, elfVars
  <2> QED
    BY <2>2 DEF Contract!Next
<1>7. CASE EntryReturns
  <2>1. Contract!Exit
    BY <1>7 DEF EntryReturns, Contract!Exit, Phase, memVars, elfVars
  <2> QED
    BY <2>1 DEF Contract!Next
<1>8. CASE Deinit
  <2>1. heap' = {}
    BY <1>8 DEF Deinit, esp_elf_deinit, Ownership, OwnedHeap, Block
  <2>2. Contract!Release
    BY <1>8, <2>1 DEF Deinit, Contract!Release, Phase
  <2> QED
    BY <2>2 DEF Contract!Next
<1>9. CASE Restart
  <2>1. Contract!Restart
    BY <1>9, <1>0 DEF Restart, FileInv, Ownership, Contract!Restart, Phase
  <2> QED
    BY <2>1 DEF Contract!Next
<1>10. CASE UNCHANGED vars
  BY <1>10 DEF vars, Contract!vars, Phase
<1> QED
  BY <1>1, <1>2, <1>3, <1>4, <1>5, <1>6, <1>7, <1>8, <1>9, <1>10 DEF Next, System

\* The boot task keeps the contract: whatever is in main.elf and whatever
\* fails, memory is gained only while the file is open, the application is
\* started with the file closed and its image is left alone from then on, and
\* nothing is held when the chip restarts.
THEOREM BootTaskKeepsContract == Spec => ImplementsContract
<1>1. Init => Contract!Init
  BY DEF Init, Contract!Init, Phase
<1> QED
  BY <1>1, ContractStep, TypeCorrect, OwnershipInvariant, FileInvariant, BootInvariant, PTL
     DEF Spec, ImplementsContract, Contract!Spec

=============================================================================
