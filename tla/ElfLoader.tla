------------------------------ MODULE ElfLoader ------------------------------
(***************************************************************************)
(* The boot task of the firmware: app_main finds main.elf on the file      *)
(* system, esp_elf_relocate loads and relocates it, esp_elf_request calls  *)
(* its entry point, esp_elf_deinit releases its memory and the chip        *)
(* restarts.                                                               *)
(*                                                                         *)
(* Control is complete: every read may fail, every allocation may return   *)
(* NULL, every early return is a disjunct.  Data is abstract: a name is    *)
(* the sequence of its dot-separated parts (".data.rel.ro" is              *)
(* <<"data", "rel", "ro">>), the bytes of a section are where they came    *)
(* from, and a relocation is the site and the value handed to the          *)
(* instruction encoder (module RiscvReloc).                                *)
(***************************************************************************)
EXTENDS Integers, Sequences, FiniteSets, SequencesExt

CONSTANTS
  Images,               \* the contents main.elf may have
  Word,                 \* number of values of a uint32_t, 2^32 in the code
  HeapAddrs,            \* addresses heap_caps_malloc can return
  g_esp_libc_elfsyms,   \* exported symbols, sequences of [name, sym]
  g_esp_espidf_elfsyms,
  g_customer_elfsyms,
  Names,                \* what a failed string read may leave in the buffer
  MaxNameErrors         \* bound on failed string reads in one boot

NULL == 0
Words == 0 .. Word - 1
SecIds == {"TEXT", "BSS", "DATA", "RODATA", "DRLRO"}

\* A section header with the relocation entries its contents would hold, a
\* symbol table entry and a relocation entry, as they are in the file.
RelaEntries == [offset : Words, sym : Nat, type : 0 .. 255, addend : Int]
SectionHeaders ==
  [name : Seq(STRING), type : STRING, flags : SUBSET {"W", "A", "X"},
   v_addr : Words, offset : Words, size : Words, rela : Seq(RelaEntries)]
Symbols == [shndx : Nat, name : Seq(STRING), value : Words]

ASSUME WordAssumption == Word \in Nat /\ Word > 4 /\ Word % 4 = 0
ASSUME HeapAssumption == HeapAddrs \subseteq (Words \ {NULL})
ASSUME ImagesAssumption ==
  \A im \in Images : /\ im.entry \in Words
                     /\ im.sh \in Seq(SectionHeaders)
                     /\ im.sym \in Seq(Symbols)
                     /\ \A j \in DOMAIN im.sh : \A e \in DOMAIN im.sh[j].rela :
                          im.sh[j].rela[e].sym < Len(im.sym)
ASSUME SymbolsAssumption ==
  \A t \in {g_esp_libc_elfsyms, g_esp_espidf_elfsyms, g_customer_elfsyms} :
     t \in Seq([name : Seq(STRING), sym : Words])
ASSUME BoundAssumption == MaxNameErrors \in Nat

VARIABLES
  pc,        \* where the boot task is
  image,     \* the file opened by app_main
  file,      \* TRUE while the file is open
  i, k,      \* section header and relocation entry being processed
  sec,       \* elf->sec
  ptext, pdata, entry,   \* the other fields of *elf
  cur,       \* the local pointer pdata of esp_elf_relocate
  base,      \* the local offset: load address of the relocated section
  heap,      \* live heap blocks of the loader
  mem,       \* what each section's memory was filled with
  patches,   \* relocations applied so far, in order
  ret,       \* result of esp_elf_relocate
  nameErrs   \* failed string reads in this boot

vars == <<pc, image, file, i, k, sec, ptext, pdata, entry, cur, base, heap,
          mem, patches, ret, nameErrs>>
elfVars == <<sec, ptext, pdata, entry>>
memVars == <<heap, mem, patches>>

-----------------------------------------------------------------------------
(* Names.                                                                  *)

SecName == [TEXT |-> <<"text">>, BSS |-> <<"bss">>, DATA |-> <<"data">>,
            RODATA |-> <<"rodata">>, DRLRO |-> <<"data", "rel", "ro">>]

strstr(name, part) ==
  \E d \in 0 .. Len(name) - Len(part) :
     SubSeq(name, d + 1, d + Len(part)) = part

-----------------------------------------------------------------------------
(* Pieces of esp_elf_relocate.                                             *)

\* Mutant: the sum of ELF_ALIGN in more than 32 bits.
WideAlign(n) == ((n + 3) \div 4) * 4
ELF_ALIGN(n) == (((n + 3) % Word) \div 4) * 4

\* stype() and sflags() tests of the section scan, for each section.
SecType == [s \in SecIds |-> IF s = "BSS" THEN "NOBITS" ELSE "PROGBITS"]
SecFlags == [TEXT |-> {"A", "X"}, BSS |-> {"A", "W"}, DATA |-> {"A", "W"},
             RODATA |-> {"A"}, DRLRO |-> {"A"}]
ScannedAs(s, h, name) ==
  h.type = SecType[s] /\ SecFlags[s] \subseteq h.flags /\ name = SecName[s]

\* The chain of strstr() tests that picks the section a relocation section
\* is about; "none" when every test fails.
RelaOrder == <<"TEXT", "DATA", "RODATA", "DRLRO", "BSS">>
\* Mutant: the branches of .text and .data exchanged.
SwappedTarget(name) ==
  IF strstr(name, SecName["DATA"]) THEN "TEXT"
  ELSE IF strstr(name, SecName["TEXT"]) THEN "DATA" ELSE "none"
RelaTarget(name) ==
  LET n == SelectInSeq(RelaOrder, LAMBDA s : strstr(name, SecName[s]))
  IN  IF n = 0 THEN "none" ELSE RelaOrder[n]

\* Mutant: .data.rel.ro left out of the sum.
SizeWithoutDrlro(t) == (t["DATA"].size + t["RODATA"].size + t["BSS"].size) % Word
DataSize(t) == (t["DATA"].size + t["RODATA"].size + t["BSS"].size
                  + t["DRLRO"].size) % Word

\* First entry with the name, searching the three tables in order.
elf_find_sym(name) ==
  LET syms == g_esp_libc_elfsyms \o g_esp_espidf_elfsyms \o g_customer_elfsyms
      n == SelectInSeq(syms, LAMBDA s : s.name = name)
  IN  IF n = 0 THEN NULL ELSE syms[n].sym

SHN_UNDEF == 0
SHN_ABS == 65521
SHN_COMMON == 65522

\* esp_elf_arch_relocate: types it accepts without a write, types it writes,
\* and the value it encodes.  The CALL types re-enter with entries that carry
\* no addend.
SkippedTypes == {0, 43, 51}
WrittenTypes == {1, 44, 45, 46} \cup (16 .. 31) \cup (33 .. 35)
                  \cup (37 .. 39) \cup {41}
CallTypes == {18, 19}
\* Mutant: the addend is never added.
ValueWithoutAddend(type, addr, addend) == addr
PatchValue(type, addr, addend) ==
  IF type \in CallTypes THEN addr ELSE (addr + addend) % Word
esp_elf_arch_relocate(r, at, addr) ==
  patches' = IF r.type \in WrittenTypes
               THEN Append(patches, [type |-> r.type, at |-> at,
                      val |-> PatchValue(r.type, addr, r.addend)])
               ELSE patches

\* The linear search of the section table; 0 when no section holds sym.
MapOrder == <<"TEXT", "BSS", "DATA", "RODATA", "DRLRO">>
\* Mutant: the link address of the section not subtracted.
MapWithoutBase(sym) ==
  LET n == SelectInSeq(MapOrder, LAMBDA s :
                 sym >= sec[s].v_addr /\ sym < (sec[s].v_addr + sec[s].size) % Word)
  IN  IF n = 0 THEN 0 ELSE (sym + sec[MapOrder[n]].addr) % Word
esp_elf_map_sym(sym) ==
  LET n == SelectInSeq(MapOrder, LAMBDA s :
                 sym >= sec[s].v_addr /\ sym < (sec[s].v_addr + sec[s].size) % Word)
  IN  IF n = 0 THEN 0
      ELSE (sym - sec[MapOrder[n]].v_addr + sec[MapOrder[n]].addr) % Word

\* Addresses heap_caps_malloc may return for n bytes: the block is clear of
\* the live blocks and ends inside the address space.
esp_elf_malloc(n) ==
  {a \in HeapAddrs : /\ a + n < Word
                     /\ \A b \in heap : a + n <= b.base \/ b.base + b.size <= a}

\* A string read never reports failure: fs_gets returns its buffer whatever
\* lfs_file_read answered, so on an error the name is whatever was there.
ReadName(name, n) ==
  \/ n = name /\ UNCHANGED nameErrs
  \/ nameErrs < MaxNameErrors /\ n \in Names /\ nameErrs' = nameErrs + 1

\* return r from esp_elf_relocate
Return(r) == ret' = r /\ pc' = "close"

-----------------------------------------------------------------------------
NoSec == [v_addr |-> 0, offset |-> 0, addr |-> 0, size |-> 0]

\* The object on app_main's stack holds anything before esp_elf_init.
Init ==
  /\ pc = "boot" /\ image \in Images /\ file = FALSE /\ i = 1 /\ k = 1
  /\ ptext \in HeapAddrs \cup {NULL} /\ pdata \in HeapAddrs \cup {NULL}
  /\ sec = [s \in SecIds |-> NoSec] /\ entry = 0 /\ cur = 0 /\ base = 0
  /\ heap = {} /\ mem = [s \in SecIds |-> "none"] /\ patches = <<>>
  /\ ret = "OK" /\ nameErrs = 0

\* Mutant: the object is used as it lies on the stack.
NoMemset == UNCHANGED elfVars
\* memset of the object to zero.
esp_elf_init ==
  sec' = [s \in SecIds |-> NoSec] /\ ptext' = NULL /\ pdata' = NULL /\ entry' = 0

\* app_main up to esp_elf_init: without a flash size the main task ends.
Boot ==
  /\ pc = "boot"
  /\ \/ /\ pc' = "idle"
        /\ UNCHANGED <<elfVars, image, file, i, k, cur, base, memVars, ret, nameErrs>>
     \/ /\ pc' = "open" /\ esp_elf_init
        /\ UNCHANGED <<image, file, i, k, cur, base, memVars, ret, nameErrs>>

\* stat and fopen of main.elf: absent, empty or unreadable, or some image.
Open ==
  /\ pc = "open"
  /\ \/ pc' = "deinit" /\ UNCHANGED <<image, file>>
     \/ pc' = "header" /\ image' \in Images /\ file' = TRUE
  /\ UNCHANGED <<elfVars, i, k, cur, base, memVars, ret, nameErrs>>

\* The ELF header and the header of the section-name table.
ReadHeader ==
  /\ pc = "header"
  /\ \/ Return("ENOEXEC") /\ UNCHANGED i
     \/ pc' = "scan" /\ i' = 1 /\ UNCHANGED ret
  /\ UNCHANGED <<elfVars, image, file, k, cur, base, memVars, nameErrs>>

\* One iteration of the loop that fills elf->sec.
ScanSection ==
  /\ pc = "scan" /\ i <= Len(image.sh)
  /\ \/ Return("ENOEXEC") /\ UNCHANGED <<sec, i, nameErrs>>
     \/ \E n \in Names \cup {image.sh[i].name} :
          LET h == image.sh[i]
              size(s) == IF s = "TEXT" THEN ELF_ALIGN(h.size) ELSE h.size
          IN  /\ ReadName(h.name, n)
              /\ sec' = [s \in SecIds |->
                           IF ScannedAs(s, h, n)
                             THEN [sec[s] EXCEPT !.v_addr = h.v_addr,
                                     !.size = size(s), !.offset = h.offset]
                             ELSE sec[s]]
              /\ i' = i + 1 /\ UNCHANGED <<pc, ret>>
  /\ UNCHANGED <<image, file, k, ptext, pdata, entry, cur, base, memVars>>

\* After the scan: no .text is an error, then the block for .text.
AllocText ==
  /\ pc = "scan" /\ i > Len(image.sh)
  /\ LET n == sec["TEXT"].size
     IN  \/ n = 0 /\ Return("EINVAL") /\ UNCHANGED <<ptext, heap>>
         \/ n # 0 /\ Return("ENOMEM") /\ ptext' = NULL /\ UNCHANGED heap
         \/ /\ n # 0 /\ ptext' \in esp_elf_malloc(n)
            /\ heap' = heap \cup {[base |-> ptext', size |-> n]}
            /\ pc' = "alloc_data" /\ UNCHANGED ret
  /\ UNCHANGED <<image, file, i, k, sec, pdata, entry, cur, base, mem, patches, nameErrs>>

\* One block for .data, .rodata, .data.rel.ro and .bss, when there are any.
AllocData ==
  /\ pc = "alloc_data"
  /\ LET n == DataSize(sec)
     IN  \/ n = 0 /\ pc' = "load_text" /\ UNCHANGED <<pdata, heap, ret>>
         \/ n # 0 /\ Return("ENOMEM") /\ pdata' = NULL /\ UNCHANGED heap
         \/ /\ n # 0 /\ pdata' \in esp_elf_malloc(n)
            /\ heap' = heap \cup {[base |-> pdata', size |-> n]}
            /\ pc' = "load_text" /\ UNCHANGED ret
  /\ UNCHANGED <<image, file, i, k, sec, ptext, entry, cur, base, mem, patches, nameErrs>>

LoadText ==
  /\ pc = "load_text"
  /\ sec' = [sec EXCEPT !["TEXT"].addr = ptext]
  /\ \/ Return("ENOEXEC") /\ UNCHANGED <<mem, cur>>
     \/ /\ mem' = [mem EXCEPT !["TEXT"] = "file"]
        /\ cur' = pdata /\ pc' = "DATA" /\ UNCHANGED ret
  /\ UNCHANGED <<image, file, i, k, ptext, pdata, entry, base, heap, patches, nameErrs>>

\* .data, .rodata, .data.rel.ro and .bss, packed in this order from elf->pdata.
AfterLoad == [DATA |-> "RODATA", RODATA |-> "DRLRO", DRLRO |-> "BSS",
              BSS |-> "entry"]
LoadData(s) ==
  /\ pc = s
  /\ \/ /\ DataSize(sec) = 0 \/ sec[s].size = 0
        /\ pc' = AfterLoad[s] /\ UNCHANGED <<sec, mem, cur, ret>>
     \/ /\ DataSize(sec) # 0 /\ sec[s].size # 0
        /\ sec' = [sec EXCEPT ![s].addr = cur]
        /\ \/ s # "BSS" /\ Return("ENOEXEC") /\ UNCHANGED <<mem, cur>>
           \/ /\ mem' = [mem EXCEPT ![s] = IF s = "BSS" THEN "zero" ELSE "file"]
              /\ cur' = IF s = "BSS" THEN cur ELSE (cur + sec[s].size) % Word
              /\ pc' = AfterLoad[s] /\ UNCHANGED ret
  /\ UNCHANGED <<image, file, i, k, ptext, pdata, entry, base, heap, patches, nameErrs>>

SetEntry ==
  /\ pc = "entry"
  /\ entry' = (image.entry + sec["TEXT"].addr - sec["TEXT"].v_addr) % Word
  /\ pc' = "rela" /\ i' = 1
  /\ UNCHANGED <<image, file, k, sec, ptext, pdata, cur, base, memVars, ret, nameErrs>>

\* Outer loop of the relocation: next section header; a relocation section's
\* name, target and symbol and string tables.
RelaSection ==
  /\ pc = "rela" /\ i <= Len(image.sh)
  /\ \/ Return("ENOEXEC") /\ UNCHANGED <<i, k, base, nameErrs>>
     \/ /\ image.sh[i].type # "RELA"
        /\ i' = i + 1 /\ UNCHANGED <<pc, k, base, ret, nameErrs>>
     \/ /\ image.sh[i].type = "RELA"
        /\ \E n \in Names \cup {image.sh[i].name} :
             /\ ReadName(image.sh[i].name, n)
             /\ \/ RelaTarget(n) = "none" /\ Return("ENOEXEC") /\ UNCHANGED <<k, base>>
                \/ /\ RelaTarget(n) # "none"
                   /\ base' = sec[RelaTarget(n)].addr /\ k' = 1
                   /\ pc' = "reloc" /\ UNCHANGED ret
        /\ UNCHANGED i
  /\ UNCHANGED <<image, file, elfVars, cur, memVars>>

RelaDone ==
  /\ pc = "rela" /\ i > Len(image.sh) /\ Return("OK")
  /\ UNCHANGED <<image, file, i, k, elfVars, cur, base, memVars, nameErrs>>

\* The addresses the switch on sym.shndx can give a symbol, NULL when the
\* symbol is not found or its section is not one of the five.
SymAddr(sym, n) ==
  IF sym.shndx = SHN_ABS THEN sym.value
  ELSE IF sym.shndx = SHN_UNDEF THEN elf_find_sym(n)
  ELSE (sym.value + sec[CHOOSE s \in SecIds : SecName[s] = n].addr) % Word

\* The name the switch reads: the symbol's own, or that of its section.
NameOfSym(sym) ==
  IF sym.shndx = SHN_UNDEF THEN sym.name ELSE image.sh[sym.shndx + 1].name

\* One relocation entry.  The result of esp_elf_arch_relocate is not used.
Relocate ==
  /\ pc = "reloc" /\ k <= Len(image.sh[i].rela)
  /\ LET r == image.sh[i].rela[k]
         sym == image.sym[r.sym + 1]
         at == (r.offset + base) % Word
         Apply(n) == /\ esp_elf_arch_relocate(r, at, SymAddr(sym, n))
                     /\ k' = k + 1 /\ UNCHANGED <<pc, ret>>
         Refuse(code) == Return(code) /\ UNCHANGED <<k, patches>>
     IN  \/ Refuse("ENOEXEC") /\ UNCHANGED nameErrs
         \/ sym.shndx = SHN_COMMON /\ Refuse("EINVAL") /\ UNCHANGED nameErrs
         \/ sym.shndx = SHN_ABS /\ Apply(<<>>) /\ UNCHANGED nameErrs
         \/ /\ sym.shndx = SHN_UNDEF
            /\ \E n \in Names \cup {sym.name} :
                 /\ ReadName(sym.name, n)
                 /\ IF elf_find_sym(n) = NULL THEN Refuse("ENOSYS") ELSE Apply(n)
         \/ /\ sym.shndx \notin {SHN_UNDEF, SHN_ABS, SHN_COMMON}
            /\ sym.shndx >= Len(image.sh)
            /\ Refuse("ENOEXEC") /\ UNCHANGED nameErrs
         \/ /\ sym.shndx \notin {SHN_UNDEF, SHN_ABS, SHN_COMMON}
            /\ sym.shndx < Len(image.sh)
            /\ \E n \in Names \cup {NameOfSym(sym)} :
                 /\ ReadName(NameOfSym(sym), n)
                 /\ IF \E s \in SecIds : SecName[s] = n
                      THEN Apply(n) ELSE Refuse("ENOEXEC")
  /\ UNCHANGED <<image, file, i, elfVars, cur, base, heap, mem>>

RelocDone ==
  /\ pc = "reloc" /\ k > Len(image.sh[i].rela)
  /\ i' = i + 1 /\ pc' = "rela"
  /\ UNCHANGED <<image, file, k, elfVars, cur, base, memVars, ret, nameErrs>>

-----------------------------------------------------------------------------
(* The rest of app_main.                                                   *)

\* Mutant: the file is closed on success only.
CloseOnSuccess ==
  /\ pc = "close" /\ file' = (ret # "OK")
  /\ pc' = IF ret = "OK" THEN "running" ELSE "deinit"
  /\ UNCHANGED <<image, i, k, elfVars, cur, base, memVars, ret, nameErrs>>

\* fclose, then esp_elf_request when esp_elf_relocate returned 0.
Close ==
  /\ pc = "close" /\ file' = FALSE
  /\ pc' = IF ret = "OK" THEN "running" ELSE "deinit"
  /\ UNCHANGED <<image, i, k, elfVars, cur, base, memVars, ret, nameErrs>>

\* The entry point returns (it need not).
EntryReturns ==
  /\ pc = "running" /\ pc' = "deinit"
  /\ UNCHANGED <<image, file, i, k, elfVars, cur, base, memVars, ret, nameErrs>>

\* Frees what elf->pdata and elf->ptext point to; the section table stays.
esp_elf_deinit ==
  /\ heap' = {b \in heap : b.base \notin {pdata, ptext}}
  /\ pdata' = NULL /\ ptext' = NULL

Deinit ==
  /\ pc = "deinit" /\ pc' = "restart" /\ esp_elf_deinit
  /\ UNCHANGED <<image, file, i, k, sec, entry, cur, base, mem, patches, ret, nameErrs>>

\* Mutant: the count down to the restart never ends.
NeverRestart == pc = "restart" /\ UNCHANGED vars

\* esp_restart: the heap is gone, the stack keeps what it held.
Restart ==
  /\ pc = "restart" /\ pc' = "boot"
  /\ heap' = {} /\ mem' = [s \in SecIds |-> "none"] /\ patches' = <<>>
  /\ file' = FALSE /\ ret' = "OK" /\ nameErrs' = 0 /\ i' = 1 /\ k' = 1
  /\ cur' = 0 /\ base' = 0 /\ UNCHANGED <<image, elfVars>>

System ==
  \/ Boot \/ Open \/ ReadHeader \/ ScanSection \/ AllocText \/ AllocData
  \/ LoadText \/ (\E s \in DOMAIN AfterLoad : LoadData(s)) \/ SetEntry
  \/ RelaSection \/ RelaDone \/ Relocate \/ RelocDone
  \/ Close \/ Deinit \/ Restart

Next == System \/ EntryReturns

\* The boot task is always scheduled; nothing makes the application return.
Spec == Init /\ [][Next]_vars /\ WF_vars(System)

-----------------------------------------------------------------------------
(* Properties.                                                             *)

PCs == {"boot", "idle", "open", "header", "scan", "alloc_data", "load_text",
        "DATA", "RODATA", "DRLRO", "BSS", "entry", "rela", "reloc", "close",
        "running", "deinit", "restart"}
Patches == [type : WrittenTypes, at : Words, val : Words]

ControlOK ==
  /\ pc \in PCs /\ image \in Images
  /\ i \in 1 .. Len(image.sh) + 1 /\ k \in Nat \ {0}
  /\ ret \in {"OK", "EINVAL", "ENOMEM", "ENOEXEC", "ENOSYS"}
  /\ nameErrs \in 0 .. MaxNameErrors
  /\ pc = "reloc" => i <= Len(image.sh)
Sections == [v_addr : Words, offset : Words, addr : Words, size : Words]
ObjectOK ==
  /\ sec \in [SecIds -> Sections] /\ entry \in Words /\ cur \in Words /\ base \in Words
  /\ ptext \in HeapAddrs \cup {NULL} /\ pdata \in HeapAddrs \cup {NULL}
MemoryOK ==
  /\ heap \subseteq [base : HeapAddrs, size : Words \ {0}]
  /\ mem \in [SecIds -> {"none", "file", "zero"}] /\ patches \in Seq(Patches)

\* Every variable keeps its type, and the loops of esp_elf_relocate stay
\* inside the tables they walk.
TypeOK == ControlOK /\ file \in BOOLEAN /\ ObjectOK /\ MemoryOK

Block(p, n) == IF p = NULL THEN {} ELSE {[base |-> p, size |-> n]}

\* From esp_elf_init to the restart, the live blocks are exactly the ones
\* elf->ptext and elf->pdata point to, with the sizes the section table says:
\* no path through esp_elf_relocate, failed or not, loses or duplicates one.
OwnedHeap ==
  pc \notin {"boot", "idle"} =>
    heap = Block(ptext, sec["TEXT"].size) \cup Block(pdata, DataSize(sec))

\* Whatever happened during the boot, nothing is held when the restart count
\* down begins: esp_elf_deinit freed both blocks and the file was closed.
Released == pc = "restart" => heap = {} /\ ~file

Loaded(s) == mem[s] # "none"
SumsFit == sec["DATA"].size + sec["RODATA"].size + sec["BSS"].size
             + sec["DRLRO"].size < Word
Within(s, b) == b.base <= sec[s].addr /\ sec[s].addr + sec[s].size <= b.base + b.size
Apart(s, t) == \/ sec[s].addr + sec[s].size <= sec[t].addr
               \/ sec[t].addr + sec[t].size <= sec[s].addr

\* Until the blocks are freed, every section that was loaded lies inside one
\* of them and no two overlap, provided the sum of the data sizes did not
\* wrap around in the uint32_t that sizes the data block.
Layout ==
  pc \notin {"boot", "idle", "restart"} /\ SumsFit =>
    /\ \A s \in SecIds : Loaded(s) => \E b \in heap : Within(s, b)
    /\ \A s, t \in SecIds : s # t /\ Loaded(s) /\ Loaded(t) => Apart(s, t)

\* Bytes esp_elf_arch_relocate writes for a relocation type.
Width(type) == IF type \in {33, 37} THEN 1
               ELSE IF type \in {34, 38, 44, 45, 46} THEN 2
               ELSE IF type \in CallTypes THEN 8 ELSE 4

\* Header j of image im is the one that the scan files under s.
Holds(im, j, s) == ScannedAs(s, im.sh[j], im.sh[j].name)
\* Header j of im is the relocation section of the non-empty section s.
RelaOf(im, j, s) ==
  /\ im.sh[j].type = "RELA" /\ im.sh[j].name = <<"rela">> \o SecName[s]
  /\ \E t \in DOMAIN im.sh : Holds(im, t, s) /\ im.sh[t].size # 0

\* Images a linker makes for this loader: unique section names, relocations
\* that fall inside the section they are for and refer to symbols of loaded
\* sections.
LinkedImage(im) ==
  /\ \A j, t \in DOMAIN im.sh : im.sh[j].name = im.sh[t].name => j = t
  /\ \A j \in DOMAIN im.sh : im.sh[j].type = "RELA" =>
       \E s \in SecIds : RelaOf(im, j, s)
  /\ \A j, t \in DOMAIN im.sh, s \in SecIds : RelaOf(im, j, s) /\ Holds(im, t, s) =>
       \A e \in DOMAIN im.sh[j].rela :
         LET r == im.sh[j].rela[e] IN r.offset + Width(r.type) <= im.sh[t].size
  /\ \A j \in DOMAIN im.sh : \A e \in DOMAIN im.sh[j].rela :
       LET n == im.sym[im.sh[j].rela[e].sym + 1].shndx
       IN  n \in 1 .. Len(im.sh) - 1 => im.sh[n + 1].size # 0
\* ... and none of the entries the loader is known to mishandle, nor symbols of
\* sections that only have the name of one it loads.
SupportedImage(im) ==
  /\ LinkedImage(im)
  /\ \A j \in DOMAIN im.sh : im.sh[j].name # <<"rela">> \o SecName["DRLRO"]
  /\ \A j \in DOMAIN im.sh : \A e \in DOMAIN im.sh[j].rela :
       LET r == im.sh[j].rela[e]
       IN  /\ r.type \in WrittenTypes \cup SkippedTypes
           /\ r.type \in CallTypes => r.addend = 0
           /\ LET n == im.sym[r.sym + 1].shndx
              IN  n \in 1 .. Len(im.sh) - 1 => \E s \in SecIds : Holds(im, n + 1, s)

\* Where the relocation of entry r of header j must write, and the symbol
\* plus addend it must encode there.
TargetOf(j) == CHOOSE s \in SecIds : RelaOf(image, j, s)
SymbolOf(r) ==
  LET y == image.sym[r.sym + 1]
  IN  IF y.shndx = SHN_ABS THEN y.value
      ELSE IF y.shndx = SHN_UNDEF THEN elf_find_sym(y.name)
      ELSE (y.value + sec[CHOOSE s \in SecIds : Holds(image, y.shndx + 1, s)].addr) % Word
Required(j, r) == [type |-> r.type, at |-> (sec[TargetOf(j)].addr + r.offset) % Word,
                   val |-> (SymbolOf(r) + r.addend) % Word]

\* The entries that ask for a write, as pairs of header and entry number, and
\* the place of each in file order.
Writing(j) ==
  {e \in DOMAIN image.sh[j].rela :
     image.sh[j].type = "RELA" /\ image.sh[j].rela[e].type \notin SkippedTypes}
Entries == UNION {{j} \X Writing(j) : j \in DOMAIN image.sh}
NotAfter(x, y) == x[1] < y[1] \/ (x[1] = y[1] /\ x[2] <= y[2])
Rank(x) == Cardinality({y \in Entries : NotAfter(y, x)})
RequiredOf(x) == Required(x[1], image.sh[x[1]].rela[x[2]])
RequiredPatches ==
  [n \in 1 .. Cardinality(Entries) |-> RequiredOf(CHOOSE x \in Entries : Rank(x) = n)]

\* The application is started only on a complete image: every section the
\* file asks for is in memory, the entry is the entry of the loaded .text,
\* and the relocations were each applied once, in file order, at the byte of
\* the section they name and with the symbol plus the addend as value.
RunsRelocatedImage ==
  pc = "running" /\ nameErrs = 0 /\ SupportedImage(image) /\ SumsFit =>
    /\ \A j \in DOMAIN image.sh, s \in SecIds :
         Holds(image, j, s) /\ image.sh[j].size # 0 =>
           /\ mem[s] = (IF s = "BSS" THEN "zero" ELSE "file")
           /\ sec[s].offset = image.sh[j].offset
    /\ \A j \in DOMAIN image.sh : Holds(image, j, "TEXT") =>
         entry = (ptext + image.entry - image.sh[j].v_addr) % Word
    /\ patches = RequiredPatches

\* At any moment of the relocation, also when a later entry fails, every
\* write made stayed inside a block the loader owns.
PatchesInBlocks ==
  pc \in {"rela", "reloc", "close", "running", "deinit"}
    /\ nameErrs = 0 /\ LinkedImage(image) /\ SumsFit
    /\ (\A j \in DOMAIN image.sh : image.sh[j].name # <<"rela">> \o SecName["DRLRO"])
  => \A e \in DOMAIN patches : \E b \in heap :
       /\ b.base <= patches[e].at
       /\ patches[e].at + Width(patches[e].type) <= b.base + b.size

VRange(s) == sec[s].v_addr .. sec[s].v_addr + sec[s].size - 1

\* For an image whose sections have disjoint link addresses,
\* esp_elf_map_sym sends distinct link addresses to distinct bytes of the
\* loaded image and the entry point to elf->entry.
MapSymSound ==
  pc = "running" /\ SumsFit
    /\ (\A s \in SecIds : sec[s].v_addr + sec[s].size < Word)
    /\ (\A s, t \in SecIds : s # t => VRange(s) \cap VRange(t) = {})
  => /\ \A s, t \in SecIds : \A u \in VRange(s), v \in VRange(t) :
          u # v => esp_elf_map_sym(u) # esp_elf_map_sym(v)
     /\ image.entry \in VRange("TEXT") => esp_elf_map_sym(image.entry) = entry

\* Every boot comes to an end: the application runs, or the task stopped for
\* want of a flash size, or the chip restarts.  No image makes the loader loop.
Progress == []<>(pc \in {"boot", "running", "idle"})

\* The boot task keeps the contract of BootContract, step by step.
Phase ==
  CASE pc = "boot" -> "off" [] pc = "idle" -> "stopped" [] pc = "running" -> "running"
    [] pc = "deinit" -> "ending" [] pc = "restart" -> "released" [] OTHER -> "loading"
Contract == INSTANCE BootContract WITH
  phase <- Phase, open <- file, blocks <- heap, img <- <<sec, entry, mem, patches>>
ImplementsContract == Contract!Spec

-----------------------------------------------------------------------------
(* What the documentation of esp_elf_relocate promises ("ESP_OK if sucess  *)
(* or other if failed") and the code does not keep.                        *)

\* The application only runs when every relocation was supported.
SuccessMeansSupported ==
  pc = "running" => \A j \in DOMAIN image.sh : \A e \in DOMAIN image.sh[j].rela :
                      image.sh[j].rela[e].type \in WrittenTypes \cup SkippedTypes

\* The application only runs when every read succeeded.
SuccessMeansRead == pc = "running" => nameErrs = 0

\* A relocation section patches the section whose name it carries.
PatchesNamedSection ==
  pc = "running" /\ nameErrs = 0 /\ LinkedImage(image) =>
    \A e \in DOMAIN patches : patches[e].at = RequiredPatches[e].at

\* The value encoded includes the explicit addend of the entry.
PatchesUseAddend ==
  pc = "running" /\ nameErrs = 0 /\ LinkedImage(image) =>
    \A e \in DOMAIN patches : patches[e].val = RequiredPatches[e].val

=============================================================================
