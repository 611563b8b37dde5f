---------------------------- MODULE RiscvEncode ----------------------------
(***************************************************************************)
(* esp_elf_arch_relocate of esp_elf_riscv.c: how a relocation changes the  *)
(* instruction or data word it points at.  A word in memory is the set of  *)
(* the positions of its 1 bits, so a mask is an intersection and |= is a   *)
(* union; an address or value is the integer a uint32_t stands for in      *)
(* two's complement.                                                       *)
(***************************************************************************)
EXTENDS Integers, FiniteSets, FiniteSetsExt

\* The powers of two below 2^31, which is more than an integer of TLC.
Pow2[n \in 0 .. 30] == IF n = 0 THEN 1 ELSE 2 * Pow2[n - 1]

\* v >> n, and bit n of v.
Shift(v, n) == IF n = 31 THEN (v \div Pow2[30]) \div 2 ELSE v \div Pow2[n]
Bit(v, n) == Shift(v, n) % 2 = 1

\* extractBits(v, begin, end) << at
Field(v, begin, end, at) == {n - end + at : n \in {m \in end .. begin : Bit(v, m)}}

\* What bits 0 .. n - 1 of word w add up to, bit n - 1 being the sign of a
\* number in two's complement.
NatOf(w, n) ==
  LET sum[b \in 0 .. n] ==
        IF b = 0 THEN 0 ELSE sum[b - 1] + (IF b - 1 \in w THEN Pow2[b - 1] ELSE 0)
  IN  sum[n]
Top(n) == 0 - Pow2[n - 2] - Pow2[n - 2]
IntOf(w, n) == NatOf(w, n - 1) + (IF n - 1 \in w THEN Top(n) ELSE 0)

\* Mutant: a carry out of n bits reaches the next byte.
AddWide(w, n, val) == Field(IntOf(w, 32) + val, 31, 0, 0)
\* read<n>(where) + val, written back to the low n bits.
AddTo(w, n, val) == (w \ (0 .. n - 1)) \cup Field(IntOf(w, n) + val, n - 1, 0, 0)

-----------------------------------------------------------------------------
(* One operator per case of the switch: the word left at where.            *)

Upper == 16 .. 31   \* the bytes a 16-bit access does not touch

RvcBranch(w, val) ==
  (w \cap ({0, 1, 7, 8, 9, 13, 14, 15} \cup Upper))
    \cup Field(val, 8, 8, 12) \cup Field(val, 4, 3, 10) \cup Field(val, 7, 6, 5)
    \cup Field(val, 2, 1, 3) \cup Field(val, 5, 5, 2)

RvcJump(w, val) ==
  (w \cap ({0, 1, 13, 14, 15} \cup Upper))
    \cup Field(val, 11, 11, 12) \cup Field(val, 4, 4, 11) \cup Field(val, 9, 8, 9)
    \cup Field(val, 10, 10, 8) \cup Field(val, 6, 6, 7) \cup Field(val, 7, 7, 6)
    \cup Field(val, 3, 1, 3) \cup Field(val, 5, 5, 2)

\* Mutant: the case of a zero immediate left out.
RvcLuiZero(w, val) ==
  (w \cap ({0, 1} \cup (7 .. 11) \cup {13, 14, 15} \cup Upper))
    \cup Field(val + 2048, 17, 17, 12) \cup Field(val + 2048, 16, 12, 2)
RvcLui(w, val) ==
  IF (val + 2048) \div 4096 = 0
    THEN (w \cap ({0, 1} \cup (7 .. 11) \cup Upper)) \cup {14}
    ELSE (w \cap ({0, 1} \cup (7 .. 11) \cup {13, 14, 15} \cup Upper))
           \cup Field(val + 2048, 17, 17, 12) \cup Field(val + 2048, 16, 12, 2)

\* Mutant: bits 19:12 and bit 11 of the offset exchanged.
JalSwapped(w, val) ==
  (w \cap (0 .. 11)) \cup Field(val, 20, 20, 31) \cup Field(val, 10, 1, 21)
    \cup Field(val, 18, 11, 12) \cup Field(val, 19, 19, 20)
Jal(w, val) ==
  (w \cap (0 .. 11)) \cup Field(val, 20, 20, 31) \cup Field(val, 10, 1, 21)
    \cup Field(val, 11, 11, 20) \cup Field(val, 19, 12, 12)

\* Mutant: a mask that loses funct3.
BranchNarrowMask(w, val) ==
  (w \cap ((0 .. 6) \cup (15 .. 24))) \cup Field(val, 12, 12, 31)
    \cup Field(val, 10, 5, 25) \cup Field(val, 4, 1, 8) \cup Field(val, 11, 11, 7)
Branch(w, val) ==
  (w \cap ((0 .. 6) \cup (12 .. 24))) \cup Field(val, 12, 12, 31)
    \cup Field(val, 10, 5, 25) \cup Field(val, 4, 1, 8) \cup Field(val, 11, 11, 7)

Hi20(w, val) == (w \cap (0 .. 11)) \cup Field(val + 2048, 31, 12, 12)

\* lo = val - (((val + 0x800) >> 12) << 12), of which 12 bits are stored.
Lo12(val) == val - ((val + 2048) \div 4096) * 4096
Lo12I(w, val) == (w \cap (0 .. 19)) \cup Field(Lo12(val), 11, 0, 20)
\* Mutant: the masked immediate is put in without clearing the old one.
Lo12SKept(w, val) ==
  w \cup Field(Lo12(val), 11, 5, 25) \cup Field(Lo12(val), 4, 0, 7)
Lo12S(w, val) ==
  (w \cap ((0 .. 6) \cup (12 .. 24)))
    \cup Field(Lo12(val), 11, 5, 25) \cup Field(Lo12(val), 4, 0, 7)

-----------------------------------------------------------------------------
(* The relocation types, by their R_RISCV_ names.                          *)

Skipped == {"NONE", "ALIGN", "RELAX"}
PcRelative == {"JAL", "BRANCH", "PCREL_HI20", "PCREL_LO12_I", "PCREL_LO12_S",
               "RVC_BRANCH", "RVC_JUMP", "CALL", "CALL_PLT"}
Hi20Types == {"GOT_HI20", "PCREL_HI20", "TLS_GD_HI20", "TLS_GOT_HI20", "TPREL_HI20", "HI20"}
Lo12ITypes == {"PCREL_LO12_I", "TPREL_LO12_I", "LO12_I"}
Lo12STypes == {"PCREL_LO12_S", "TPREL_LO12_S", "LO12_S"}
Calls == {"CALL", "CALL_PLT"}
AddWidth == [ADD8 |-> 8, ADD16 |-> 16, ADD32 |-> 32]
SubWidth == [SUB8 |-> 8, SUB16 |-> 16, SUB32 |-> 32]

\* The word that a type other than a call leaves; unknown types leave it.
Encode(type, w, val) ==
  CASE type \in {"32", "GOT32_PCREL"} -> Field(val, 31, 0, 0)
    [] type = "RVC_BRANCH" -> RvcBranch(w, val)
    [] type = "RVC_JUMP" -> RvcJump(w, val)
    [] type = "RVC_LUI" -> RvcLui(w, val)
    [] type = "JAL" -> Jal(w, val)
    [] type = "BRANCH" -> Branch(w, val)
    [] type \in Hi20Types -> Hi20(w, val)
    [] type \in Lo12ITypes -> Lo12I(w, val)
    [] type \in Lo12STypes -> Lo12S(w, val)
    [] type \in DOMAIN AddWidth -> AddTo(w, AddWidth[type], val)
    [] type \in DOMAIN SubWidth -> AddTo(w, SubWidth[type], 0 - val)
    [] OTHER -> w

Supported == {"32", "GOT32_PCREL", "RVC_BRANCH", "RVC_JUMP", "RVC_LUI", "JAL", "BRANCH"}
  \cup Hi20Types \cup Lo12ITypes \cup Lo12STypes \cup Calls
  \cup DOMAIN AddWidth \cup DOMAIN SubWidth

\* The value to encode: symbol plus addend, relative to where for some types.
Val(type, where, addr, addend) ==
  addr + addend - (IF type \in PcRelative THEN where ELSE 0)

\* Mutant: the second half of a call is relocated against the same place.
CallSameSite(m, off, where, addr) ==
  [m EXCEPT ![off] = Encode("PCREL_HI20", @, Val("PCREL_HI20", where, addr, 0)),
            ![off + 4] = Encode("PCREL_LO12_I", @, Val("PCREL_LO12_I", where + 4, addr, 0))]
\* A call re-enters for its two instructions, with the address and no addend.
Call(m, off, where, addr) ==
  [m EXCEPT ![off] = Encode("PCREL_HI20", @, Val("PCREL_HI20", where, addr, 0)),
            ![off + 4] = Encode("PCREL_LO12_I", @, Val("PCREL_LO12_I", where + 4, addr + 4, 0))]

esp_elf_arch_relocate(m, type, off, where, addr, addend) ==
  IF type \in Skipped THEN m
  ELSE IF type \in Calls THEN Call(m, off, where, addr)
  ELSE [m EXCEPT ![off] = Encode(type, @, Val(type, where, addr, addend))]
=============================================================================
