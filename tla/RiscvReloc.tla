----------------------------- MODULE RiscvReloc -----------------------------
(***************************************************************************)
(* esp_elf_arch_relocate at work: two adjacent words are relocated by the  *)
(* entries of a program, one after the other, and are then read the way    *)
(* the processor reads them.                                               *)
(***************************************************************************)
EXTENDS RiscvEncode, Sequences

CONSTANTS
  Programs,   \* lists of relocations [type, off, addr, addend]
  Contents,   \* what a word may hold before
  LoadAddrs   \* where the first of the two words may be

\* Words have 32 bits; the entries are for one of the two words, a call for
\* the first of them, since it patches both.
ASSUME ProgramsAssumption ==
  /\ Contents \subseteq SUBSET (0 .. 31) /\ LoadAddrs \subseteq Int
  /\ \A r \in Programs : r \in Seq([type : STRING, off : {0, 4}, addr : Int, addend : Int])
  /\ \A r \in Programs : \A e \in DOMAIN r : r[e].type \in Calls => r[e].off = 0

VARIABLES program, load, before, mem, k
relocVars == <<program, load, before, mem, k>>

RelocInit ==
  /\ program \in Programs /\ load \in LoadAddrs
  /\ before \in [{0, 4} -> Contents] /\ mem = before /\ k = 1

Relocate ==
  /\ k <= Len(program) /\ k' = k + 1
  /\ LET r == program[k]
     IN  mem' = esp_elf_arch_relocate(mem, r.type, r.off, load + r.off, r.addr, r.addend)
  /\ UNCHANGED <<program, load, before>>

RelocNext == Relocate
RelocSpec == RelocInit /\ [][RelocNext]_relocVars

-----------------------------------------------------------------------------
(* The reference: the immediate formats of the instruction set, as a table *)
(* from bit of the immediate to bit of the instruction.                    *)

Format(type) ==
  CASE type = "JAL" -> [b \in 1 .. 20 |-> IF b = 20 THEN 31 ELSE IF b >= 12 THEN b
                                          ELSE IF b = 11 THEN 20 ELSE b + 20]
    [] type = "BRANCH" -> [b \in 1 .. 12 |-> IF b = 12 THEN 31 ELSE IF b = 11 THEN 7
                                             ELSE IF b >= 5 THEN b + 20 ELSE b + 7]
    [] type = "RVC_JUMP" -> [b \in 1 .. 11 |-> <<3, 4, 5, 11, 2, 7, 6, 9, 10, 8, 12>>[b]]
    [] type = "RVC_BRANCH" -> [b \in 1 .. 8 |-> <<3, 4, 10, 11, 2, 5, 6, 12>>[b]]
    [] type \in Hi20Types -> [b \in 12 .. 31 |-> b]
    [] type \in Lo12ITypes -> [b \in 0 .. 11 |-> b + 20]
    [] type \in Lo12STypes -> [b \in 0 .. 11 |-> IF b >= 5 THEN b + 20 ELSE b + 7]
    [] type = "RVC_LUI" -> [b \in 12 .. 17 |-> IF b = 17 THEN 12 ELSE b - 10]

Jumps == {"JAL", "BRANCH", "RVC_JUMP", "RVC_BRANCH"}
Formatted == Jumps \cup Hi20Types \cup Lo12ITypes \cup Lo12STypes \cup {"RVC_LUI"}
TopBit(type) == Max(DOMAIN Format(type))

\* The immediate that the processor reads out of word w.
Immediate(type, w) ==
  LET f == Format(type)
  IN  IntOf({b \in DOMAIN f : f[b] \in w}, TopBit(type) + 1)

\* The format can hold v: it is even and in range.
Reaches(type, v) ==
  v % 2 = 0 /\ Top(TopBit(type) + 1) <= v /\ v < 0 - Top(TopBit(type) + 1)

\* A high and a low half can make v: it is a signed word, also when rounded.
Near(v) == Top(32) <= v + 2048 /\ v + 2048 <= 0 - 1 - Top(32)

-----------------------------------------------------------------------------
(* Properties.                                                             *)

Done == k > Len(program)
Single(types) == Done /\ Len(program) = 1 /\ program[1].type \in types
Two(firsts, seconds) ==
  /\ Done /\ Len(program) = 2
  /\ program[1].type \in firsts /\ program[2].type \in seconds
Symbol(e) == program[e].addr + program[e].addend
Value == LET r == program[1] IN Val(r.type, load + r.off, r.addr, r.addend)
Result == mem[program[1].off]
Before == before[program[1].off]

\* A branch or jump whose target is in range goes to symbol plus addend: the
\* bits of the offset were scattered as the processor gathers them.
JumpsReachTarget ==
  Single(Jumps) /\ Reaches(program[1].type, Value) =>
    Immediate(program[1].type, Result) = Value

\* Only the immediate changes: opcode, registers and the neighbouring bytes
\* are as before, whatever the instruction held.  (c.lui of 0 becomes c.li.)
OnlyImmediateChanges ==
  /\ Single(Formatted) /\ ~(program[1].type = "RVC_LUI" /\ (Value + 2048) \div 4096 = 0) =>
       LET f == Format(program[1].type)
           imm == {f[b] : b \in DOMAIN f}
       IN  Result \ imm = Before \ imm
  /\ Single(Formatted \cup Skipped) => mem[4 - program[1].off] = before[4 - program[1].off]
  /\ Single({"RVC_LUI"}) => Result \cap Upper = Before \cap Upper

\* auipc and jalr of a relocated call together jump to the symbol, also when
\* the low half is negative and borrows from the high half.
CallsReachSymbol ==
  Single(Calls) /\ Near(program[1].addr - load - program[1].off) =>
    load + program[1].off + Immediate("PCREL_HI20", mem[0]) + Immediate("PCREL_LO12_I", mem[4])
      = program[1].addr

\* The two halves of an absolute address, relocated by two entries, add up
\* to it for every low-half instruction format.
HalvesMakeAddress ==
  Two({"HI20", "TPREL_HI20"}, (Lo12ITypes \cup Lo12STypes) \ PcRelative)
    /\ program[1].off = 0 /\ program[2].off = 4
    /\ Symbol(1) = Symbol(2) /\ Near(Symbol(1)) =>
    Immediate(program[1].type, mem[0]) + Immediate(program[2].type, mem[4])
      = Symbol(1)

\* A c.lui loads the upper half of its value when that fits in six bits; the
\* reserved immediate 0 never remains, the instruction becomes c.li rd, 0.
CompressedLui ==
  Single({"RVC_LUI"}) /\ Before \cap {13, 14, 15} = {13, 14}
    /\ Top(18) <= Value + 2048 /\ Value + 2048 < 0 - Top(18) =>
    LET hi == Immediate("RVC_LUI", Result)
    IN  /\ hi = ((Value + 2048) \div 4096) * 4096
        /\ Result \cap {13, 14, 15} = IF hi = 0 THEN {14} ELSE {13, 14}

\* An ADD and a SUB entry on one word leave the difference of two symbols on
\* top of what was there, modulo the width of the entries.
DifferenceOfSymbols ==
  Two(DOMAIN AddWidth, DOMAIN SubWidth) /\ program[1].off = program[2].off
    /\ AddWidth[program[1].type] = SubWidth[program[2].type] =>
    LET n == AddWidth[program[1].type]
    IN  /\ Result \cap (0 .. n - 1)
             = Field(IntOf(Before, n) + (Symbol(1) - Symbol(2)), n - 1, 0, 0)
        /\ Result \ (0 .. n - 1) = Before \ (0 .. n - 1)
=============================================================================
