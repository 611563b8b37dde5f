--------------------------- MODULE RiscvRelocProofs ---------------------------
(***************************************************************************)
(* Proofs about the instruction encoder, for every word, every value and   *)
(* every load address.                                                     *)
(***************************************************************************)
EXTENDS RiscvReloc, WellFoundedInduction, TLAPS

\* The bits of v from end to begin, moved to at.
LEMMA FieldBits ==
  ASSUME NEW v, NEW begin \in Int, NEW end \in Int, NEW at \in Int, NEW n
  PROVE  n \in Field(v, begin, end, at)
           <=> n \in at .. at + begin - end /\ Bit(v, n - at + end)
<1>1. ASSUME n \in Field(v, begin, end, at)
      PROVE  n \in at .. at + begin - end /\ Bit(v, n - at + end)
  <2>1. PICK m \in end .. begin : Bit(v, m) /\ n = m - end + at
    BY <1>1 DEF Field
  <2>2. n - at + end = m
    BY <2>1
  <2> QED
    BY <2>1, <2>2
<1>2. ASSUME n \in at .. at + begin - end, Bit(v, n - at + end)
      PROVE  n \in Field(v, begin, end, at)
  <2> DEFINE m == n - at + end
  <2>1. m \in end .. begin /\ n = m - end + at
    BY <1>2
  <2> QED
    BY <1>2, <2>1 DEF Field
<1> QED
  BY <1>1, <1>2

Word32 == SUBSET (0 .. 31)

\* f places the bits of v in word r, which is w elsewhere.
Placed(f, v, w, r) ==
  LET imm == {f[b] : b \in DOMAIN f}
  IN  (\A b \in DOMAIN f : f[b] \in r <=> Bit(v, b)) /\ r \ imm = w \ imm

\* R_RISCV_JAL: bits 20, 10..1, 11 and 19..12 of the distance, from bit 31 down.
LEMMA JalPlaced ==
  ASSUME NEW w \in Word32, NEW val
  PROVE  Placed(Format("JAL"), val, w, Jal(w, val))
<1> DEFINE f == [b \in 1 .. 20 |-> IF b = 20 THEN 31 ELSE IF b >= 12 THEN b
                                  ELSE IF b = 11 THEN 20 ELSE b + 20]
           r == Jal(w, val)
           I == 12 .. 31
<1>1. Format("JAL") = f
  BY DEF Format, Hi20Types, Lo12ITypes, Lo12STypes
<1>2. \A n : n \in r <=>
        \/ n \in w /\ n \in 0 .. 11
        \/ n \in Field(val, 20, 20, 31)
        \/ n \in Field(val, 10, 1, 21)
        \/ n \in Field(val, 11, 11, 20)
        \/ n \in Field(val, 19, 12, 12)
  BY DEF Jal
<1>3. \A n : n \in r <=>
        \/ n \in w /\ n \in 0 .. 11
        \/ n = 31 /\ Bit(val, 20)
        \/ n \in 21 .. 30 /\ Bit(val, n - 20)
        \/ n = 20 /\ Bit(val, 11)
        \/ n \in 12 .. 19 /\ Bit(val, n)
  <2>1. \A n : n \in Field(val, 20, 20, 31) <=> n = 31 /\ Bit(val, 20)
    BY FieldBits
  <2>2. \A n : n \in Field(val, 10, 1, 21) <=> n \in 21 .. 30 /\ Bit(val, n - 20)
    BY FieldBits
  <2>3. \A n : n \in Field(val, 11, 11, 20) <=> n = 20 /\ Bit(val, 11)
    BY FieldBits
  <2>4. \A n : n \in Field(val, 19, 12, 12) <=> n \in 12 .. 19 /\ Bit(val, n)
    BY FieldBits
  <2> HIDE DEF r
  <2> QED
    BY <1>2, <2>1, <2>2, <2>3, <2>4
<1> HIDE DEF r
<1>4. DOMAIN f = 1 .. 20 /\ {f[b] : b \in DOMAIN f} = I
  OBVIOUS
<1>5. ASSUME NEW b \in 1 .. 20 PROVE f[b] \in r <=> Bit(val, b)
  BY <1>3
<1>6. r \ I = w \ I
  <2>1. \A n \in w : n \notin I => n \in r
    BY <1>3 DEF Word32, Upper
  <2>2. \A n \in r : n \notin I => n \in w
    BY <1>3 DEF Upper
  <2> HIDE DEF I
  <2> QED
    BY <2>1, <2>2
<1> HIDE DEF f, I
<1>7. Placed(f, val, w, r)
  BY <1>4, <1>5, <1>6 DEF Placed
<1> QED
  BY <1>1, <1>7 DEF r

\* R_RISCV_BRANCH: the distance in two parts around the registers.
LEMMA BranchPlaced ==
  ASSUME NEW w \in Word32, NEW val
  PROVE  Placed(Format("BRANCH"), val, w, Branch(w, val))
<1> DEFINE f == [b \in 1 .. 12 |-> IF b = 12 THEN 31 ELSE IF b = 11 THEN 7
                                  ELSE IF b >= 5 THEN b + 20 ELSE b + 7]
           r == Branch(w, val)
           I == (7 .. 11) \cup (25 .. 31)
<1>1. Format("BRANCH") = f
  BY DEF Format, Hi20Types, Lo12ITypes, Lo12STypes
<1>2. \A n : n \in r <=>
        \/ n \in w /\ n \in (0 .. 6) \cup (12 .. 24)
        \/ n \in Field(val, 12, 12, 31)
        \/ n \in Field(val, 10, 5, 25)
        \/ n \in Field(val, 4, 1, 8)
        \/ n \in Field(val, 11, 11, 7)
  BY DEF Branch
<1>3. \A n : n \in r <=>
        \/ n \in w /\ n \in (0 .. 6) \cup (12 .. 24)
        \/ n = 31 /\ Bit(val, 12)
        \/ n \in 25 .. 30 /\ Bit(val, n - 20)
        \/ n \in 8 .. 11 /\ Bit(val, n - 7)
        \/ n = 7 /\ Bit(val, 11)
  <2>1. \A n : n \in Field(val, 12, 12, 31) <=> n = 31 /\ Bit(val, 12)
    BY FieldBits
  <2>2. \A n : n \in Field(val, 10, 5, 25) <=> n \in 25 .. 30 /\ Bit(val, n - 20)
    BY FieldBits
  <2>3. \A n : n \in Field(val, 4, 1, 8) <=> n \in 8 .. 11 /\ Bit(val, n - 7)
    BY FieldBits
  <2>4. \A n : n \in Field(val, 11, 11, 7) <=> n = 7 /\ Bit(val, 11)
    BY FieldBits
  <2> HIDE DEF r
  <2> QED
    BY <1>2, <2>1, <2>2, <2>3, <2>4
<1> HIDE DEF r
<1>4. DOMAIN f = 1 .. 12 /\ {f[b] : b \in DOMAIN f} = I
  OBVIOUS
<1>5. ASSUME NEW b \in 1 .. 12 PROVE f[b] \in r <=> Bit(val, b)
  BY <1>3
<1>6. r \ I = w \ I
  <2>1. \A n \in w : n \notin I => n \in r
    BY <1>3 DEF Word32, Upper
  <2>2. \A n \in r : n \notin I => n \in w
    BY <1>3 DEF Upper
  <2> HIDE DEF I
  <2> QED
    BY <2>1, <2>2
<1> HIDE DEF f, I
<1>7. Placed(f, val, w, r)
  BY <1>4, <1>5, <1>6 DEF Placed
<1> QED
  BY <1>1, <1>7 DEF r

\* R_RISCV_RVC_JUMP: eleven bits in eight pieces.
LEMMA RvcJumpPlaced ==
  ASSUME NEW w \in Word32, NEW val
  PROVE  Placed(Format("RVC_JUMP"), val, w, RvcJump(w, val))
<1> DEFINE f == [b \in 1 .. 11 |-> <<3, 4, 5, 11, 2, 7, 6, 9, 10, 8, 12>>[b]]
           r == RvcJump(w, val)
           I == 2 .. 12
<1>1. Format("RVC_JUMP") = f
  BY DEF Format, Hi20Types, Lo12ITypes, Lo12STypes
<1>2. \A n : n \in r <=>
        \/ n \in w /\ n \in {0, 1, 13, 14, 15} \cup Upper
        \/ n \in Field(val, 11, 11, 12)
        \/ n \in Field(val, 4, 4, 11)
        \/ n \in Field(val, 9, 8, 9)
        \/ n \in Field(val, 10, 10, 8)
        \/ n \in Field(val, 6, 6, 7)
        \/ n \in Field(val, 7, 7, 6)
        \/ n \in Field(val, 3, 1, 3)
        \/ n \in Field(val, 5, 5, 2)
  BY DEF RvcJump
<1>3. \A n : n \in r <=>
        \/ n \in w /\ n \in {0, 1, 13, 14, 15} \cup Upper
        \/ n = 12 /\ Bit(val, 11)
        \/ n = 11 /\ Bit(val, 4)
        \/ n \in 9 .. 10 /\ Bit(val, n - 1)
        \/ n = 8 /\ Bit(val, 10)
        \/ n = 7 /\ Bit(val, 6)
        \/ n = 6 /\ Bit(val, 7)
        \/ n \in 3 .. 5 /\ Bit(val, n - 2)
        \/ n = 2 /\ Bit(val, 5)
  <2>1. \A n : n \in Field(val, 11, 11, 12) <=> n = 12 /\ Bit(val, 11)
    BY FieldBits
  <2>2. \A n : n \in Field(val, 4, 4, 11) <=> n = 11 /\ Bit(val, 4)
    BY FieldBits
  <2>3. \A n : n \in Field(val, 9, 8, 9) <=> n \in 9 .. 10 /\ Bit(val, n - 1)
    BY FieldBits
  <2>4. \A n : n \in Field(val, 10, 10, 8) <=> n = 8 /\ Bit(val, 10)
    BY FieldBits
  <2>5. \A n : n \in Field(val, 6, 6, 7) <=> n = 7 /\ Bit(val, 6)
    BY FieldBits
  <2>6. \A n : n \in Field(val, 7, 7, 6) <=> n = 6 /\ Bit(val, 7)
    BY FieldBits
  <2>7. \A n : n \in Field(val, 3, 1, 3) <=> n \in 3 .. 5 /\ Bit(val, n - 2)
    BY FieldBits
  <2>8. \A n : n \in Field(val, 5, 5, 2) <=> n = 2 /\ Bit(val, 5)
    BY FieldBits
  <2> HIDE DEF r
  <2> QED
    BY <1>2, <2>1, <2>2, <2>3, <2>4, <2>5, <2>6, <2>7, <2>8
<1> HIDE DEF r
<1>4. DOMAIN f = 1 .. 11 /\ {f[b] : b \in DOMAIN f} = I
  OBVIOUS
<1>5. ASSUME NEW b \in 1 .. 11 PROVE f[b] \in r <=> Bit(val, b)
  <2>1. b = 1 \/ b = 2 \/ b = 3 \/ b = 4 \/ b = 5 \/ b = 6 \/ b = 7 \/ b = 8 \/ b = 9 \/ b = 10 \/ b = 11
    OBVIOUS
  <2>2. /\ f[1] = 3 /\ f[2] = 4 /\ f[3] = 5 /\ f[4] = 11 /\ f[5] = 2
        /\ f[6] = 7 /\ f[7] = 6 /\ f[8] = 9 /\ f[9] = 10 /\ f[10] = 8
        /\ f[11] = 12
    OBVIOUS
  <2>3. /\ 3 \in r <=> Bit(val, 1)
        /\ 4 \in r <=> Bit(val, 2)
        /\ 5 \in r <=> Bit(val, 3)
        /\ 11 \in r <=> Bit(val, 4)
        /\ 2 \in r <=> Bit(val, 5)
        /\ 7 \in r <=> Bit(val, 6)
        /\ 6 \in r <=> Bit(val, 7)
        /\ 9 \in r <=> Bit(val, 8)
        /\ 10 \in r <=> Bit(val, 9)
        /\ 8 \in r <=> Bit(val, 10)
        /\ 12 \in r <=> Bit(val, 11)
    BY <1>3 DEF Upper
  <2> HIDE DEF f
  <2> QED
    BY <2>1, <2>2, <2>3
<1>6. r \ I = w \ I
  <2>1. \A n \in w : n \notin I => n \in r
    BY <1>3 DEF Word32, Upper
  <2>2. \A n \in r : n \notin I => n \in w
    BY <1>3 DEF Upper
  <2> HIDE DEF I
  <2> QED
    BY <2>1, <2>2
<1> HIDE DEF f, I
<1>7. Placed(f, val, w, r)
  BY <1>4, <1>5, <1>6 DEF Placed
<1> QED
  BY <1>1, <1>7 DEF r

\* R_RISCV_RVC_BRANCH: eight bits in two parts around the register.
LEMMA RvcBranchPlaced ==
  ASSUME NEW w \in Word32, NEW val
  PROVE  Placed(Format("RVC_BRANCH"), val, w, RvcBranch(w, val))
<1> DEFINE f == [b \in 1 .. 8 |-> <<3, 4, 10, 11, 2, 5, 6, 12>>[b]]
           r == RvcBranch(w, val)
           I == (2 .. 6) \cup (10 .. 12)
<1>1. Format("RVC_BRANCH") = f
  BY DEF Format, Hi20Types, Lo12ITypes, Lo12STypes
<1>2. \A n : n \in r <=>
        \/ n \in w /\ n \in {0, 1, 7, 8, 9, 13, 14, 15} \cup Upper
        \/ n \in Field(val, 8, 8, 12)
        \/ n \in Field(val, 4, 3, 10)
        \/ n \in Field(val, 7, 6, 5)
        \/ n \in Field(val, 2, 1, 3)
        \/ n \in Field(val, 5, 5, 2)
  BY DEF RvcBranch
<1>3. \A n : n \in r <=>
        \/ n \in w /\ n \in {0, 1, 7, 8, 9, 13, 14, 15} \cup Upper
        \/ n = 12 /\ Bit(val, 8)
        \/ n \in 10 .. 11 /\ Bit(val, n - 7)
        \/ n \in 5 .. 6 /\ Bit(val, n + 1)
        \/ n \in 3 .. 4 /\ Bit(val, n - 2)
        \/ n = 2 /\ Bit(val, 5)
  <2>1. \A n : n \in Field(val, 8, 8, 12) <=> n = 12 /\ Bit(val, 8)
    BY FieldBits
  <2>2. \A n : n \in Field(val, 4, 3, 10) <=> n \in 10 .. 11 /\ Bit(val, n - 7)
    BY FieldBits
  <2>3. \A n : n \in Field(val, 7, 6, 5) <=> n \in 5 .. 6 /\ Bit(val, n + 1)
    BY FieldBits
  <2>4. \A n : n \in Field(val, 2, 1, 3) <=> n \in 3 .. 4 /\ Bit(val, n - 2)
    BY FieldBits
  <2>5. \A n : n \in Field(val, 5, 5, 2) <=> n = 2 /\ Bit(val, 5)
    BY FieldBits
  <2> HIDE DEF r
  <2> QED
    BY <1>2, <2>1, <2>2, <2>3, <2>4, <2>5
<1> HIDE DEF r
<1>4. DOMAIN f = 1 .. 8 /\ {f[b] : b \in DOMAIN f} = I
  OBVIOUS
<1>5. ASSUME NEW b \in 1 .. 8 PROVE f[b] \in r <=> Bit(val, b)
  <2>1. b = 1 \/ b = 2 \/ b = 3 \/ b = 4 \/ b = 5 \/ b = 6 \/ b = 7 \/ b = 8
    OBVIOUS
  <2>2. /\ f[1] = 3 /\ f[2] = 4 /\ f[3] = 10 /\ f[4] = 11 /\ f[5] = 2
        /\ f[6] = 5 /\ f[7] = 6 /\ f[8] = 12
    OBVIOUS
  <2>3. /\ 3 \in r <=> Bit(val, 1)
        /\ 4 \in r <=> Bit(val, 2)
        /\ 10 \in r <=> Bit(val, 3)
        /\ 11 \in r <=> Bit(val, 4)
        /\ 2 \in r <=> Bit(val, 5)
        /\ 5 \in r <=> Bit(val, 6)
        /\ 6 \in r <=> Bit(val, 7)
        /\ 12 \in r <=> Bit(val, 8)
    BY <1>3 DEF Upper
  <2> HIDE DEF f
  <2> QED
    BY <2>1, <2>2, <2>3
<1>6. r \ I = w \ I
  <2>1. \A n \in w : n \notin I => n \in r
    BY <1>3 DEF Word32, Upper
  <2>2. \A n \in r : n \notin I => n \in w
    BY <1>3 DEF Upper
  <2> HIDE DEF I
  <2> QED
    BY <2>1, <2>2
<1> HIDE DEF f, I
<1>7. Placed(f, val, w, r)
  BY <1>4, <1>5, <1>6 DEF Placed
<1> QED
  BY <1>1, <1>7 DEF r

\* The high half of a rounded value, above the register and the opcode.
LEMMA Hi20Placed ==
  ASSUME NEW w \in Word32, NEW val, NEW type \in Hi20Types
  PROVE  Placed(Format(type), val + 2048, w, Hi20(w, val))
<1> DEFINE f == [b \in 12 .. 31 |-> b]
           r == Hi20(w, val)
           v == val + 2048
           I == 12 .. 31
<1>1. Format(type) = f
  BY DEF Format, Hi20Types, Lo12ITypes, Lo12STypes
<1>2. \A n : n \in r <=>
        \/ n \in w /\ n \in 0 .. 11
        \/ n \in Field(v, 31, 12, 12)
  BY DEF Hi20
<1> HIDE DEF v
<1>3. \A n : n \in r <=>
        \/ n \in w /\ n \in 0 .. 11
        \/ n \in 12 .. 31 /\ Bit(v, n)
  <2>1. \A n : n \in Field(v, 31, 12, 12) <=> n \in 12 .. 31 /\ Bit(v, n)
    BY FieldBits
  <2> HIDE DEF r
  <2> QED
    BY <1>2, <2>1
<1> HIDE DEF r
<1>4. DOMAIN f = 12 .. 31 /\ {f[b] : b \in DOMAIN f} = I
  OBVIOUS
<1>5. ASSUME NEW b \in 12 .. 31 PROVE f[b] \in r <=> Bit(v, b)
  BY <1>3
<1>6. r \ I = w \ I
  <2>1. \A n \in w : n \notin I => n \in r
    BY <1>3 DEF Word32, Upper
  <2>2. \A n \in r : n \notin I => n \in w
    BY <1>3 DEF Upper
  <2> HIDE DEF I
  <2> QED
    BY <2>1, <2>2
<1> HIDE DEF f, I
<1>7. Placed(f, v, w, r)
  BY <1>4, <1>5, <1>6 DEF Placed
<1> QED
  BY <1>1, <1>7 DEF r, v

\* The low half of a value in an I-type instruction.
LEMMA Lo12IPlaced ==
  ASSUME NEW w \in Word32, NEW val, NEW type \in Lo12ITypes
  PROVE  Placed(Format(type), Lo12(val), w, Lo12I(w, val))
<1> DEFINE f == [b \in 0 .. 11 |-> b + 20]
           r == Lo12I(w, val)
           v == Lo12(val)
           I == 20 .. 31
<1>1. Format(type) = f
  BY DEF Format, Hi20Types, Lo12ITypes, Lo12STypes
<1>2. \A n : n \in r <=>
        \/ n \in w /\ n \in 0 .. 19
        \/ n \in Field(v, 11, 0, 20)
  BY DEF Lo12I
<1> HIDE DEF v
<1>3. \A n : n \in r <=>
        \/ n \in w /\ n \in 0 .. 19
        \/ n \in 20 .. 31 /\ Bit(v, n - 20)
  <2>1. \A n : n \in Field(v, 11, 0, 20) <=> n \in 20 .. 31 /\ Bit(v, n - 20)
    BY FieldBits
  <2> HIDE DEF r
  <2> QED
    BY <1>2, <2>1
<1> HIDE DEF r
<1>4. DOMAIN f = 0 .. 11 /\ {f[b] : b \in DOMAIN f} = I
  OBVIOUS
<1>5. ASSUME NEW b \in 0 .. 11 PROVE f[b] \in r <=> Bit(v, b)
  BY <1>3
<1>6. r \ I = w \ I
  <2>1. \A n \in w : n \notin I => n \in r
    BY <1>3 DEF Word32, Upper
  <2>2. \A n \in r : n \notin I => n \in w
    BY <1>3 DEF Upper
  <2> HIDE DEF I
  <2> QED
    BY <2>1, <2>2
<1> HIDE DEF f, I
<1>7. Placed(f, v, w, r)
  BY <1>4, <1>5, <1>6 DEF Placed
<1> QED
  BY <1>1, <1>7 DEF r, v

\* The low half of a value in an S-type instruction, in two parts.
LEMMA Lo12SPlaced ==
  ASSUME NEW w \in Word32, NEW val, NEW type \in Lo12STypes
  PROVE  Placed(Format(type), Lo12(val), w, Lo12S(w, val))
<1> DEFINE f == [b \in 0 .. 11 |-> IF b >= 5 THEN b + 20 ELSE b + 7]
           r == Lo12S(w, val)
           v == Lo12(val)
           I == (7 .. 11) \cup (25 .. 31)
<1>1. Format(type) = f
  BY DEF Format, Hi20Types, Lo12ITypes, Lo12STypes
<1>2. \A n : n \in r <=>
        \/ n \in w /\ n \in (0 .. 6) \cup (12 .. 24)
        \/ n \in Field(v, 11, 5, 25)
        \/ n \in Field(v, 4, 0, 7)
  BY DEF Lo12S
<1> HIDE DEF v
<1>3. \A n : n \in r <=>
        \/ n \in w /\ n \in (0 .. 6) \cup (12 .. 24)
        \/ n \in 25 .. 31 /\ Bit(v, n - 20)
        \/ n \in 7 .. 11 /\ Bit(v, n - 7)
  <2>1. \A n : n \in Field(v, 11, 5, 25) <=> n \in 25 .. 31 /\ Bit(v, n - 20)
    BY FieldBits
  <2>2. \A n : n \in Field(v, 4, 0, 7) <=> n \in 7 .. 11 /\ Bit(v, n - 7)
    BY FieldBits
  <2> HIDE DEF r
  <2> QED
    BY <1>2, <2>1, <2>2
<1> HIDE DEF r
<1>4. DOMAIN f = 0 .. 11 /\ {f[b] : b \in DOMAIN f} = I
  OBVIOUS
<1>5. ASSUME NEW b \in 0 .. 11 PROVE f[b] \in r <=> Bit(v, b)
  BY <1>3
<1>6. r \ I = w \ I
  <2>1. \A n \in w : n \notin I => n \in r
    BY <1>3 DEF Word32, Upper
  <2>2. \A n \in r : n \notin I => n \in w
    BY <1>3 DEF Upper
  <2> HIDE DEF I
  <2> QED
    BY <2>1, <2>2
<1> HIDE DEF f, I
<1>7. Placed(f, v, w, r)
  BY <1>4, <1>5, <1>6 DEF Placed
<1> QED
  BY <1>1, <1>7 DEF r, v

\* R_RISCV_RVC_LUI with an immediate other than 0.
LEMMA RvcLuiPlaced ==
  ASSUME NEW w \in Word32, NEW val, (val + 2048) \div 4096 # 0
  PROVE  Placed(Format("RVC_LUI"), val + 2048, w, RvcLui(w, val))
<1> DEFINE f == [b \in 12 .. 17 |-> IF b = 17 THEN 12 ELSE b - 10]
           r == RvcLui(w, val)
           v == val + 2048
           I == (2 .. 6) \cup {12}
<1>1. Format("RVC_LUI") = f
  BY DEF Format, Hi20Types, Lo12ITypes, Lo12STypes
<1>2. \A n : n \in r <=>
        \/ n \in w /\ n \in {0, 1} \cup (7 .. 11) \cup {13, 14, 15} \cup Upper
        \/ n \in Field(v, 17, 17, 12)
        \/ n \in Field(v, 16, 12, 2)
  BY DEF RvcLui
<1> HIDE DEF v
<1>3. \A n : n \in r <=>
        \/ n \in w /\ n \in {0, 1} \cup (7 .. 11) \cup {13, 14, 15} \cup Upper
        \/ n = 12 /\ Bit(v, 17)
        \/ n \in 2 .. 6 /\ Bit(v, n + 10)
  <2>1. \A n : n \in Field(v, 17, 17, 12) <=> n = 12 /\ Bit(v, 17)
    BY FieldBits
  <2>2. \A n : n \in Field(v, 16, 12, 2) <=> n \in 2 .. 6 /\ Bit(v, n + 10)
    BY FieldBits
  <2> HIDE DEF r
  <2> QED
    BY <1>2, <2>1, <2>2
<1> HIDE DEF r
<1>4. DOMAIN f = 12 .. 17 /\ {f[b] : b \in DOMAIN f} = I
  OBVIOUS
<1>5. ASSUME NEW b \in 12 .. 17 PROVE f[b] \in r <=> Bit(v, b)
  <2>1. CASE b = 17
    BY <1>3, <2>1 DEF Upper
  <2>2. CASE b \in 12 .. 16
    <3>1. f[b] = b - 10 /\ b - 10 \in 2 .. 6 /\ (b - 10) + 10 = b
      BY <2>2
    <3> HIDE DEF f
    <3> QED
      BY <1>3, <3>1 DEF Upper
  <2> QED
    BY <2>1, <2>2
<1>6. r \ I = w \ I
  <2>1. \A n \in w : n \notin I => n \in r
    BY <1>3 DEF Word32, Upper
  <2>2. \A n \in r : n \notin I => n \in w
    BY <1>3 DEF Upper
  <2> HIDE DEF I
  <2> QED
    BY <2>1, <2>2
<1> HIDE DEF f, I
<1>7. Placed(f, v, w, r)
  BY <1>4, <1>5, <1>6 DEF Placed
<1> QED
  BY <1>1, <1>7 DEF r, v

\* The number whose bits an entry's immediate takes: the upper halves are
\* rounded to the nearest multiple of 4096, the lower are what is left.
Encoded(type, val) ==
  IF type \in Hi20Types \cup {"RVC_LUI"} THEN val + 2048
  ELSE IF type \in Lo12ITypes \cup Lo12STypes THEN Lo12(val) ELSE val

\* Each type has one case of the switch.
LEMMA EncodeCases ==
  ASSUME NEW w, NEW val
  PROVE  /\ Encode("JAL", w, val) = Jal(w, val) /\ Encode("BRANCH", w, val) = Branch(w, val)
         /\ Encode("RVC_JUMP", w, val) = RvcJump(w, val)
         /\ Encode("RVC_BRANCH", w, val) = RvcBranch(w, val)
         /\ Encode("RVC_LUI", w, val) = RvcLui(w, val)
         /\ \A type \in Hi20Types : Encode(type, w, val) = Hi20(w, val)
         /\ \A type \in Lo12ITypes : Encode(type, w, val) = Lo12I(w, val)
         /\ \A type \in Lo12STypes : Encode(type, w, val) = Lo12S(w, val)
BY DEF Encode, Hi20Types, Lo12ITypes, Lo12STypes, AddWidth, SubWidth

\* In whatever word and for whatever value, the switch puts each bit of the
\* value where the instruction format has it, clears what was there before,
\* and leaves the other bits of the word alone.
THEOREM ImmediateInPlace ==
  \A type \in Formatted, w \in Word32, val \in Int :
    ~(type = "RVC_LUI" /\ (val + 2048) \div 4096 = 0) =>
      Placed(Format(type), Encoded(type, val), w, Encode(type, w, val))
<1> SUFFICES ASSUME NEW type \in Formatted, NEW w \in Word32, NEW val \in Int,
                    ~(type = "RVC_LUI" /\ (val + 2048) \div 4096 = 0)
             PROVE  Placed(Format(type), Encoded(type, val), w, Encode(type, w, val))
  OBVIOUS
<1>1. CASE type \in Jumps
  <2>1. Encoded(type, val) = val
    BY <1>1 DEF Jumps, Encoded, Hi20Types, Lo12ITypes, Lo12STypes
  <2> QED
    BY <1>1, <2>1, EncodeCases, JalPlaced, BranchPlaced, RvcJumpPlaced, RvcBranchPlaced DEF Jumps
<1>2. CASE type = "RVC_LUI"
  BY <1>2, EncodeCases, RvcLuiPlaced DEF Encoded
<1>3. CASE type \in Hi20Types
  BY <1>3, EncodeCases, Hi20Placed DEF Encoded
<1>4. CASE type \in Lo12ITypes
  <2>1. Encoded(type, val) = Lo12(val)
    BY <1>4 DEF Encoded, Hi20Types, Lo12ITypes
  <2> QED
    BY <1>4, <2>1, EncodeCases, Lo12IPlaced
<1>5. CASE type \in Lo12STypes
  <2>1. Encoded(type, val) = Lo12(val)
    BY <1>5 DEF Encoded, Hi20Types, Lo12STypes
  <2> QED
    BY <1>5, <2>1, EncodeCases, Lo12SPlaced
<1> QED
  BY <1>1, <1>2, <1>3, <1>4, <1>5 DEF Formatted

\* The first entry has been applied once, to what the words held before.
FirstInv ==
  /\ program \in Programs /\ load \in LoadAddrs /\ before \in [{0, 4} -> Contents]
  /\ Len(program) = 1 =>
       \/ k = 1 /\ mem = before
       \/ k = 2 /\ mem = LET r == program[1]
                         IN  esp_elf_arch_relocate(before, r.type, r.off, load + r.off,
                                                   r.addr, r.addend)
\* The invariant of the first word holds always.
LEMMA FirstInvariant == RelocSpec => []FirstInv
<1>1. RelocInit => FirstInv
  BY DEF RelocInit, FirstInv
<1>2. FirstInv /\ [RelocNext]_relocVars => FirstInv'
  BY DEF FirstInv, RelocNext, Relocate, relocVars
<1> QED
  BY <1>1, <1>2, PTL DEF RelocSpec

\* The c.lui that becomes a c.li is left alone in its upper half too.
LEMMA LuiUpper ==
  ASSUME NEW w, NEW val PROVE RvcLui(w, val) \cap Upper = w \cap Upper
<1>1. \A n : n \in Field(val + 2048, 17, 17, 12) <=> n = 12 /\ Bit(val + 2048, 17)
  BY FieldBits
<1>2. \A n : n \in Field(val + 2048, 16, 12, 2) <=> n \in 2 .. 6 /\ Bit(val + 2048, n + 10)
  BY FieldBits
<1> QED
  BY <1>1, <1>2 DEF RvcLui, Upper

\* A relocation changes the immediate of its instruction and nothing else, for
\* every word, every value and every load address.
THEOREM ChangesOnlyImmediate == RelocSpec => []OnlyImmediateChanges
<1>1. FirstInv => OnlyImmediateChanges
  <2> SUFFICES ASSUME FirstInv PROVE OnlyImmediateChanges
    OBVIOUS
  <2> DEFINE e == program[1]
             off == e.off
             val == Val(e.type, load + off, e.addr, e.addend)
  <2>1. SUFFICES ASSUME Done, Len(program) = 1 PROVE OnlyImmediateChanges
    BY DEF OnlyImmediateChanges, Single
  <2>2. /\ program \in Seq([type : STRING, off : {0, 4}, addr : Int, addend : Int])
        /\ before \in [{0, 4} -> Word32]
    BY ProgramsAssumption DEF FirstInv, Word32
  <2>3. off \in {0, 4} /\ e.type \in STRING /\ val \in Int
    <3>1. e \in [type : STRING, off : {0, 4}, addr : Int, addend : Int]
      BY <2>1, <2>2, SMTT(20)
    <3>2. load \in Int
      BY ProgramsAssumption DEF FirstInv
    <3>3. off \in {0, 4} /\ e.type \in STRING /\ e.addr \in Int /\ e.addend \in Int
      BY <3>1
    <3> HIDE DEF e
    <3> QED
      BY <3>2, <3>3 DEF Val
  <2>4. mem = esp_elf_arch_relocate(before, e.type, off, load + off, e.addr, e.addend)
    BY <2>1 DEF Done, FirstInv
  <2>5. Formatted \cap (Calls \cup Skipped) = {} /\ "RVC_LUI" \in Formatted
    BY DEF Formatted, Jumps, Hi20Types, Lo12ITypes, Lo12STypes, Calls, Skipped
  <2>6. ASSUME e.type \in Formatted
        PROVE  /\ mem[off] = Encode(e.type, before[off], val)
               /\ mem[4 - off] = before[4 - off]
    <3>1. mem = [before EXCEPT ![off] = Encode(e.type, @, val)]
      BY <2>4, <2>5, <2>6 DEF esp_elf_arch_relocate
    <3> HIDE DEF off, val, e
    <3> QED
      BY <2>2, <2>3, <3>1
  <2>7. e.type \in Skipped => mem = before
    BY <2>4 DEF esp_elf_arch_relocate
  <2> HIDE DEF off, val, e
  <2>8. ASSUME e.type \in Formatted, ~(e.type = "RVC_LUI" /\ (val + 2048) \div 4096 = 0)
        PROVE  LET f == Format(e.type)
                   imm == {f[b] : b \in DOMAIN f}
               IN  mem[off] \ imm = before[off] \ imm
    <3>1. before[off] \in Word32
      BY <2>2, <2>3
    <3> QED
      BY <2>3, <2>6, <2>8, <3>1, ImmediateInPlace DEF Placed
  <2>9. e.type \in Formatted \cup Skipped => mem[4 - off] = before[4 - off]
    BY <2>6, <2>7
  <2>10. e.type = "RVC_LUI" => mem[off] \cap Upper = before[off] \cap Upper
    BY <2>5, <2>6, LuiUpper, EncodeCases
  <2> QED
    BY <2>8, <2>9, <2>10 DEF OnlyImmediateChanges, Single, Value, Result, Before, e, off, val
<1> QED
  BY <1>1, FirstInvariant, PTL

-----------------------------------------------------------------------------
(* Numbers and their bits.                                                 *)

\* A set of natural numbers has a least element.
LEMMA Least ==
  ASSUME NEW S \in SUBSET Nat, S # {} PROVE \E x \in S : \A y \in S : x <= y
<1>1. \E x \in S : \A y \in S : ~ (<<y, x>> \in OpToRel(<, Nat))
  BY WFMin, NatLessThanWellFounded
<1>2. PICK x \in S : \A y \in S : ~ (<<y, x>> \in OpToRel(<, Nat))
  BY <1>1
<1>3. ASSUME NEW y \in S PROVE ~ (y < x)
  BY <1>2 DEF OpToRel
<1> QED
  BY <1>3

\* A set of numbers that holds 0, and with each number up to N the next one,
\* holds all numbers up to N.
LEMMA Counting ==
  ASSUME NEW N \in Nat, NEW T, 0 \in T, \A m \in 0 .. N - 1 : m \in T => m + 1 \in T
  PROVE  \A m \in 0 .. N : m \in T
<1> DEFINE S == {m \in 0 .. N : m \notin T}
<1> SUFFICES ASSUME S # {} PROVE FALSE
  OBVIOUS
<1>1. S \subseteq Nat
  OBVIOUS
<1>2. PICK m \in S : \A y \in S : m <= y
  BY <1>1, Least
<1>3. m \in 0 .. N /\ m \notin T /\ m # 0
  BY <1>2
<1>4. m - 1 \notin S
  BY <1>2
<1> QED
  BY <1>3, <1>4

\* Pow2 is the function that its definition asks for.
LEMMA PowUnfolds == Pow2 = [n \in 0 .. 30 |-> IF n = 0 THEN 1 ELSE 2 * Pow2[n - 1]]
<1> DEFINE K == 1024
           low == <<1, 2, 4, 8, 16, 32, 64, 128, 256, 512>>
           pow == [n \in 0 .. 30 |-> IF n < 10 THEN low[n + 1]
                     ELSE IF n < 20 THEN K * low[n - 9]
                     ELSE IF n < 30 THEN K * (K * low[n - 19]) ELSE K * (K * K)]
<1>1. pow = [n \in 0 .. 30 |-> IF n = 0 THEN 1 ELSE 2 * pow[n - 1]]
  BY SMTT(30)
<1> QED
  BY <1>1, Zenon DEF Pow2

\* The powers of two, one more than in Pow2.
Power(n) == IF n = 31 THEN 2 * Pow2[30] ELSE Pow2[n]

\* Each power is twice the one before.
LEMMA Powers ==
  /\ \A n \in 0 .. 31 : Power(n) \in Nat /\ Power(n) > 0
  /\ \A n \in 0 .. 30 : Power(n + 1) = 2 * Power(n)
  /\ Power(0) = 1
<1>1. Pow2[0] = 1 /\ \A n \in 1 .. 30 : Pow2[n] = 2 * Pow2[n - 1]
  BY PowUnfolds
<1>2. \A n \in 0 .. 30 : Power(n + 1) = 2 * Power(n)
  BY <1>1 DEF Power
<1> DEFINE T == {n \in 0 .. 31 : Power(n) \in Nat /\ Power(n) > 0}
<1>3. 0 \in T
  BY <1>1 DEF Power
<1>4. \A n \in 0 .. 30 : n \in T => n + 1 \in T
  BY <1>2
<1>5. \A n \in 0 .. 31 : n \in T
  <2> HIDE DEF T
  <2> QED
    BY <1>3, <1>4, Counting
<1> QED
  BY <1>1, <1>2, <1>5 DEF Power

\* Dividing by P and then by two is dividing by 2 * P.
LEMMA HalfOfQuotient ==
  ASSUME NEW v \in Int, NEW P \in Nat, P > 0
  PROVE  /\ v \div P \in Int
         /\ v \div (2 * P) = (v \div P) \div 2
<1>1. PICK q \in Int, r \in 0 .. P - 1 : v = q * P + r /\ v \div P = q
  BY SMTT(20)
<1>2. PICK h \in Int, b \in {0, 1} : q = 2 * h + b /\ q \div 2 = h
  BY <1>1
<1>3. v = h * (2 * P) + (b * P + r) /\ b * P + r \in 0 .. 2 * P - 1
  <2>1. q * P = h * (2 * P) + b * P
    BY <1>2, SMTT(20)
  <2>2. b * P \in {0, P}
    BY <1>2
  <2> QED
    BY <1>1, <2>1, <2>2
<1>4. v \div (2 * P) = h
  <2> DEFINE R == b * P + r
             D == 2 * P
  <2>1. v = h * D + R /\ R \in 0 .. D - 1 /\ D \in Nat /\ D > 0
    BY <1>3
  <2> HIDE DEF R, D
  <2>2. v \div D = h
    BY <2>1, SMTT(20)
  <2> QED
    BY <2>2 DEF D
<1> QED
  BY <1>1, <1>2, <1>4

\* Each shift by one more place halves.
LEMMA Shifts ==
  ASSUME NEW v \in Int
  PROVE  /\ Shift(v, 0) = v
         /\ \A n \in 0 .. 31 : Shift(v, n) \in Int
         /\ \A n \in 0 .. 30 : Shift(v, n + 1) = Shift(v, n) \div 2
<1>1. \A n \in 0 .. 30 : Pow2[n] \in Nat /\ Pow2[n] > 0 /\ Pow2[n] = Power(n)
  BY Powers DEF Power
<1>2. \A n \in 0 .. 30 : v \div Pow2[n] \in Int
  BY <1>1, HalfOfQuotient
<1>3. \A n \in 0 .. 29 : v \div Pow2[n + 1] = (v \div Pow2[n]) \div 2
  <2> SUFFICES ASSUME NEW n \in 0 .. 29
               PROVE  v \div Pow2[n + 1] = (v \div Pow2[n]) \div 2
    OBVIOUS
  <2>1. Pow2[n + 1] = 2 * Pow2[n]
    BY <1>1, Powers
  <2> QED
    BY <1>1, <2>1, HalfOfQuotient
<1>4. Shift(v, 31) = Shift(v, 30) \div 2 /\ Shift(v, 31) \in Int
  BY <1>2 DEF Shift
<1>5. \A n \in 0 .. 30 : Shift(v, n) = v \div Pow2[n]
  BY DEF Shift
<1>6. Pow2[0] = 1
  BY <1>1, Powers
<1>7. Shift(v, 0) = v
  BY <1>5, <1>6
<1>8. \A n \in 0 .. 30 : Shift(v, n + 1) = Shift(v, n) \div 2
  <2> SUFFICES ASSUME NEW n \in 0 .. 30 PROVE Shift(v, n + 1) = Shift(v, n) \div 2
    OBVIOUS
  <2>1. CASE n = 30
    BY <1>4, <2>1
  <2>2. CASE n # 30
    BY <1>3, <1>5, <2>2
  <2> QED
    BY <2>1, <2>2
<1> QED
  BY <1>2, <1>4, <1>5, <1>7, <1>8

\* The sums of NatOf, as its recursion has them.
Term(w, b) == IF b \in w THEN Pow2[b] ELSE 0
Sums(w, n, s) == s = [b \in 0 .. n |-> IF b = 0 THEN 0 ELSE s[b - 1] + Term(w, b - 1)]

\* There is a function that satisfies the recursion of NatOf.
LEMMA SumsExist == ASSUME NEW w, NEW n \in 0 .. 31 PROVE \E s : Sums(w, n, s)
<1> DEFINE T == {m \in 0 .. 31 : \E s : Sums(w, m, s)}
<1>1. 0 \in T
  <2> DEFINE s == [b \in 0 .. 0 |-> 0]
  <2>1. s = [b \in 0 .. 0 |-> IF b = 0 THEN 0 ELSE s[b - 1] + Term(w, b - 1)]
    OBVIOUS
  <2>2. Sums(w, 0, s)
    BY <2>1 DEF Sums
  <2> QED
    BY <2>2
<1>2. ASSUME NEW m \in 0 .. 30, m \in T PROVE m + 1 \in T
  <2>1. PICK s : Sums(w, m, s)
    BY <1>2
  <2> DEFINE u == [b \in 0 .. m + 1 |-> IF b = m + 1 THEN s[m] + Term(w, m) ELSE s[b]]
  <2>2. \A b \in 0 .. m : s[b] = IF b = 0 THEN 0 ELSE s[b - 1] + Term(w, b - 1)
    BY <2>1 DEF Sums
  <2>3. \A b \in 0 .. m + 1 : u[b] = IF b = 0 THEN 0 ELSE u[b - 1] + Term(w, b - 1)
    BY <2>2
  <2>4. u = [b \in 0 .. m + 1 |-> IF b = 0 THEN 0 ELSE u[b - 1] + Term(w, b - 1)]
    BY <2>3
  <2>5. Sums(w, m + 1, u)
    <3> HIDE DEF u
    <3> QED
      BY <2>4 DEF Sums
  <2> QED
    BY <2>5
<1> HIDE DEF T
<1>3. \A m \in 0 .. 31 : m \in T
  BY <1>1, <1>2, Counting
<1> QED
  BY <1>3 DEF T

\* NatOf is the last of these sums.
LEMMA NatOfIsSum ==
  ASSUME NEW w, NEW n \in 0 .. 31
  PROVE  \E s : /\ NatOf(w, n) = s[n] /\ s[0] = 0
                /\ \A b \in 0 .. n : s[b] \in Int
                /\ \A b \in 0 .. n - 1 : s[b + 1] = s[b] + Term(w, b)
<1> DEFINE s == CHOOSE t : Sums(w, n, t)
<1>1. Sums(w, n, s)
  BY SumsExist
<1>2. NatOf(w, n) = s[n]
  BY DEF NatOf, Sums, Term
<1> HIDE DEF s
<1>3. \A b \in 0 .. n : s[b] = IF b = 0 THEN 0 ELSE s[b - 1] + Term(w, b - 1)
  BY <1>1 DEF Sums
<1>4. s[0] = 0 /\ \A b \in 0 .. n - 1 : s[b + 1] = s[b] + Term(w, b)
  BY <1>3
<1>5. \A b \in 0 .. 30 : Term(w, b) \in Int
  BY Powers DEF Term, Power
<1> DEFINE T == {b \in 0 .. n : s[b] \in Int}
<1>6. \A b \in 0 .. n : b \in T
  <2>1. 0 \in T
    BY <1>4
  <2>2. \A b \in 0 .. n - 1 : b \in T => b + 1 \in T
    BY <1>4, <1>5
  <2> HIDE DEF T
  <2> QED
    BY <2>1, <2>2, Counting
<1> QED
  BY <1>2, <1>4, <1>6

\* A bit taken out of a product.
LEMMA Distributes ==
  ASSUME NEW h \in Int, NEW d \in Int, NEW P \in Int
  PROVE  (2 * h + d) * P = h * (2 * P) + d * P /\ d * P \in Int /\ h * (2 * P) \in Int
BY SMTT(20)

\* What the bits of x from low to top - 1 add up to.
LEMMA BitsAddUp ==
  ASSUME NEW x \in Int, NEW low \in 0 .. 31, NEW top \in low .. 31, NEW w,
         \A b \in 0 .. top - 1 : b \in w <=> low <= b /\ Bit(x, b)
  PROVE  NatOf(w, top) = Shift(x, low) * Power(low) - Shift(x, top) * Power(top)
<1>0. top \in 0 .. 31 /\ \A n \in 0 .. 31 : Shift(x, n) \in Int
  BY Shifts
<1>1. PICK s : /\ NatOf(w, top) = s[top] /\ s[0] = 0
               /\ \A b \in 0 .. top : s[b] \in Int
               /\ \A b \in 0 .. top - 1 : s[b + 1] = s[b] + Term(w, b)
  BY <1>0, NatOfIsSum
<1> DEFINE a == Shift(x, low) * Power(low)
           T == {b \in 0 .. top : s[b] = IF b <= low THEN 0 ELSE a - Shift(x, b) * Power(b)}
<1>2. a \in Int
  <2>1. Shift(x, low) \in Int /\ Power(low) \in Int
    BY <1>0, Powers, SMTT(20)
  <2> QED
    BY <2>1
<1>3. 0 \in T
  BY <1>1
<1>4. ASSUME NEW b \in 0 .. top - 1, b \in T PROVE b + 1 \in T
  <2>1. CASE b < low
    <3>1. Term(w, b) = 0
      BY <2>1 DEF Term
    <3> QED
      BY <1>1, <1>4, <2>1, <3>1
  <2>2. CASE low <= b
    <3> DEFINE P == Power(b)
               q == Shift(x, b)
               h == Shift(x, b + 1)
               d == IF b \in w THEN 1 ELSE 0
    <3>1. P \in Nat /\ q \in Int /\ h = q \div 2 /\ Power(b + 1) = 2 * P /\ P = Pow2[b]
      <4>1. b \in 0 .. 30 /\ b \in 0 .. 31
        BY <1>0
      <4>2. h = q \div 2 /\ q \in Int
        BY <1>0, <4>1, Shifts
      <4> QED
        BY <4>1, <4>2, Powers DEF Power
    <3>2. d = q % 2
      BY <2>2, <3>1 DEF Bit
    <3>3. Term(w, b) = d * P
      BY <3>1 DEF Term
    <3>4. s[b] = a - q * P
      <4>1. CASE b = low
        <5>1. a = q * P
          BY <4>1
        <5>2. s[b] = 0
          BY <1>4, <4>1
        <5> QED
          BY <1>2, <5>1, <5>2
      <4>2. CASE b # low
        BY <1>4, <2>2, <4>2
      <4> QED
        BY <4>1, <4>2
    <3>5. s[b + 1] = a - h * (2 * P)
      <4>1. s[b + 1] = a - q * P + d * P
        BY <1>1, <3>3, <3>4
      <4>2. q = 2 * h + d /\ h \in Int /\ d \in Int
        BY <3>1, <3>2
      <4> HIDE DEF a, P, q, h, d
      <4>3. q * P = h * (2 * P) + d * P
        BY <3>1, <4>2, Distributes
      <4>4. d * P \in Int /\ h * (2 * P) \in Int
        BY <3>1, <4>2, Distributes
      <4> QED
        BY <1>2, <4>1, <4>3, <4>4
    <3> QED
      BY <2>2, <3>1, <3>5
  <2> QED
    BY <2>1, <2>2
<1>5. \A b \in 0 .. top : b \in T
  <2> HIDE DEF T
  <2> QED
    BY <1>3, <1>4, Counting
<1>6. top = low => a - Shift(x, top) * Power(top) = 0
  BY <1>2
<1> QED
  BY <1>1, <1>5, <1>6

\* ... and as a signed number: the multiple of 2^low at or below x, up to
\* multiples of 2^(top + 1); exactly, when x is in range.
LEMMA BitsMakeNumber ==
  ASSUME NEW x \in Int, NEW low \in 0 .. 31, NEW top \in 1 .. 31, low <= top, NEW w,
         \A b \in 0 .. top : b \in w <=> low <= b /\ Bit(x, b)
  PROVE  /\ \E h \in Int : IntOf(w, top + 1) = Shift(x, low) * Power(low) - h * (2 * Power(top))
         /\ Shift(x, top) \in {0 - 1, 0} => IntOf(w, top + 1) = Shift(x, low) * Power(low)
<1> DEFINE a == Shift(x, low) * Power(low)
           P == Power(top)
           q == Shift(x, top)
           d == IF top \in w THEN 1 ELSE 0
<1>0. top \in low .. 31 /\ top \in 0 .. 31
  OBVIOUS
<1>1. NatOf(w, top) = a - q * P
  <2>1. \A b \in 0 .. top - 1 : b \in w <=> low <= b /\ Bit(x, b)
    OBVIOUS
  <2>2. NatOf(w, top) = Shift(x, low) * Power(low) - Shift(x, top) * Power(top)
    BY <1>0, <2>1, BitsAddUp
  <2> QED
    BY <2>2
<1>2. Top(top + 1) = 0 - P
  <2>1. Top(top + 1) = 0 - Pow2[top - 1] - Pow2[top - 1]
    BY DEF Top
  <2>2. Pow2[top - 1] = Power(top - 1) /\ Power(top) = 2 * Power(top - 1) /\ Power(top - 1) \in Nat
    <3>1. top - 1 \in 0 .. 30 /\ (top - 1) + 1 = top
      OBVIOUS
    <3> QED
      BY <3>1, Powers DEF Power
  <2> QED
    BY <2>1, <2>2
<1>3. P \in Nat /\ q \in Int /\ a \in Int
  <2>1. Shift(x, low) \in Int /\ Power(low) \in Int /\ P \in Nat /\ q \in Int
    <3>1. \A n \in 0 .. 31 : Shift(x, n) \in Int
      BY Shifts
    <3> QED
      BY <1>0, <3>1, Powers, SMTT(20)
  <2> QED
    BY <2>1
<1>4. d = q % 2
  BY <1>3 DEF Bit
<1>5. IntOf(w, top + 1) = a - q * P - d * P
  <2>1. IntOf(w, top + 1) = NatOf(w, top) + (IF top \in w THEN Top(top + 1) ELSE 0)
    BY DEF IntOf
  <2> HIDE DEF a, P, q
  <2> QED
    BY <1>1, <1>2, <1>3, <2>1
<1> HIDE DEF a, P, q, d
<1>6. PICK h \in Int : q = 2 * h + (0 - d) /\ d \in {0, 1}
  <2> DEFINE g == (q + d) \div 2
  <2>1. g \in Int /\ q = 2 * g + (0 - d) /\ d \in {0, 1}
    BY <1>3, <1>4
  <2> QED
    BY <2>1
<1>7. q * P = h * (2 * P) + (0 - d) * P /\ h * (2 * P) \in Int
  BY <1>3, <1>6, Distributes
<1>8. IntOf(w, top + 1) = a - h * (2 * P)
  BY <1>3, <1>5, <1>6, <1>7
<1>9. ASSUME q \in {0 - 1, 0} PROVE IntOf(w, top + 1) = a
  <2>1. h = 0
    BY <1>4, <1>6, <1>9
  <2> QED
    BY <1>3, <1>8, <2>1
<1> QED
  BY <1>8, <1>9 DEF a, P, q

\* The highest bit of a number in range is its sign.
LEMMA SignBit ==
  ASSUME NEW x \in Int, NEW top \in 1 .. 31, 0 - Power(top) <= x, x < Power(top)
  PROVE  Shift(x, top) \in {0 - 1, 0}
<1>1. \A n \in 0 .. 30 : Power(n) = Pow2[n] /\ Power(n) \in Nat /\ Power(n) > 0
  BY Powers DEF Power
<1>2. Shift(x, top) = x \div Power(top) /\ Power(top) \in Nat /\ Power(top) > 0
  <2>1. CASE top = 31
    <3>1. x \div (2 * Pow2[30]) = (x \div Pow2[30]) \div 2
      BY <1>1, HalfOfQuotient
    <3> QED
      BY <1>1, <2>1, <3>1 DEF Shift, Power
  <2>2. CASE top # 31
    BY <1>1, <2>2 DEF Shift
  <2> QED
    BY <2>1, <2>2
<1> DEFINE P == Power(top)
<1>3. P \in Nat /\ P > 0 /\ 0 - P <= x /\ x < P
  BY <1>2
<1> HIDE DEF P
<1>4. x \div P \in {0 - 1, 0}
  BY <1>3, SMTT(30)
<1> QED
  BY <1>2, <1>4 DEF P

\* Top is the weight of the sign.
LEMMA TopIsPower == \A n \in 2 .. 32 : Top(n) = 0 - Power(n - 1)
<1> SUFFICES ASSUME NEW n \in 2 .. 32 PROVE Top(n) = 0 - Power(n - 1)
  OBVIOUS
<1>1. n - 2 \in 0 .. 30 /\ (n - 2) + 1 = n - 1
  OBVIOUS
<1>2. Pow2[n - 2] = Power(n - 2) /\ Power(n - 1) = 2 * Power(n - 2) /\ Power(n - 2) \in Nat
  BY <1>1, Powers DEF Power
<1> QED
  BY <1>2 DEF Top

\* The bits of the immediate that each format holds.
LEMMA Formats ==
  /\ DOMAIN Format("JAL") = 1 .. 20 /\ DOMAIN Format("BRANCH") = 1 .. 12
  /\ DOMAIN Format("RVC_JUMP") = 1 .. 11 /\ DOMAIN Format("RVC_BRANCH") = 1 .. 8
  /\ \A type \in Hi20Types : DOMAIN Format(type) = 12 .. 31
  /\ \A type \in Lo12ITypes \cup Lo12STypes : DOMAIN Format(type) = 0 .. 11
  /\ DOMAIN Format("RVC_LUI") = 12 .. 17
<1>1. /\ DOMAIN Format("JAL") = 1 .. 20 /\ DOMAIN Format("BRANCH") = 1 .. 12
      /\ DOMAIN Format("RVC_JUMP") = 1 .. 11 /\ DOMAIN Format("RVC_BRANCH") = 1 .. 8
      /\ DOMAIN Format("RVC_LUI") = 12 .. 17
  BY DEF Format, Hi20Types, Lo12ITypes, Lo12STypes
<1>2. \A type \in Hi20Types : DOMAIN Format(type) = 12 .. 31
  BY DEF Format, Hi20Types, Lo12ITypes, Lo12STypes
<1>3. \A type \in Lo12ITypes : DOMAIN Format(type) = 0 .. 11
  BY DEF Format, Hi20Types, Lo12ITypes, Lo12STypes
<1>4. \A type \in Lo12STypes : DOMAIN Format(type) = 0 .. 11
  BY DEF Format, Hi20Types, Lo12ITypes, Lo12STypes
<1> QED
  BY <1>1, <1>2, <1>3, <1>4

\* The highest bit of an immediate.
LEMMA TopBits ==
  ASSUME NEW type, NEW low \in Nat, NEW top \in Nat, low <= top, DOMAIN Format(type) = low .. top
  PROVE  TopBit(type) = top
<1>1. top \in low .. top /\ \A m \in low .. top : top >= m
  OBVIOUS
<1>2. \A m \in low .. top : (\A n \in low .. top : m >= n) => m = top
  OBVIOUS
<1> QED
  BY <1>1, <1>2 DEF TopBit, Max

\* A number of top bits and a sign.
Fits(x, top) == 0 - Power(top) <= x /\ x < Power(top)
\* The bits of x from low to top are where the format has them.
Carries(f, low, top, x, w) ==
  /\ DOMAIN f = low .. top
  /\ \A b \in low .. top : f[b] \in w <=> Bit(x, b)

\* The processor reads out of a word what was placed there: the multiple of
\* 2^low at or below x, low being the first bit the format holds.
LEMMA ReadsBack ==
  ASSUME NEW type, NEW low \in 0 .. 31, NEW top \in 1 .. 31, low <= top, NEW x \in Int,
         NEW w, Carries(Format(type), low, top, x, w), Fits(x, top)
  PROVE  Immediate(type, w) = Shift(x, low) * Power(low)
<1> DEFINE f == Format(type)
           S == {b \in DOMAIN f : f[b] \in w}
<1>1. TopBit(type) = top
  BY TopBits DEF Carries
<1>2. \A b \in 0 .. top : b \in S <=> low <= b /\ Bit(x, b)
  BY DEF Carries
<1> HIDE DEF S
<1>3. IntOf(S, top + 1) = Shift(x, low) * Power(low)
  BY <1>2, SignBit, BitsMakeNumber DEF Fits
<1> QED
  BY <1>1, <1>3 DEF Immediate, S

\* The powers that the formats begin and end with.
LEMMA SmallPowers ==
  /\ Power(1) = 2 /\ Power(8) = 256 /\ Power(11) = 2048 /\ Power(12) = 4096
  /\ Power(16) = 65536 /\ Power(17) = 131072 /\ Pow2[12] = 4096
<1>1. /\ Power(1) = 2 * Power(0) /\ Power(2) = 2 * Power(1) /\ Power(3) = 2 * Power(2)
      /\ Power(4) = 2 * Power(3) /\ Power(5) = 2 * Power(4) /\ Power(6) = 2 * Power(5)
      /\ Power(7) = 2 * Power(6) /\ Power(8) = 2 * Power(7) /\ Power(9) = 2 * Power(8)
      /\ Power(10) = 2 * Power(9) /\ Power(11) = 2 * Power(10) /\ Power(12) = 2 * Power(11)
      /\ Power(13) = 2 * Power(12) /\ Power(14) = 2 * Power(13) /\ Power(15) = 2 * Power(14)
      /\ Power(16) = 2 * Power(15) /\ Power(17) = 2 * Power(16)
  <2>1. \A n \in 0 .. 30 : Power(n + 1) = 2 * Power(n)
    BY Powers
  <2> QED
    BY <2>1, SMT
<1> QED
  BY <1>1, Powers, SMT DEF Power

\* What a branch or jump reads: the distance, when it is even and in range.
LEMMA JumpReads ==
  ASSUME NEW type \in Jumps, NEW val \in Int, Reaches(type, val), NEW w, NEW r,
         Placed(Format(type), val, w, r)
  PROVE  Immediate(type, r) = val
<1>1. PICK top \in {20, 12, 11, 8} : DOMAIN Format(type) = 1 .. top
  BY Formats DEF Jumps
<1>2. TopBit(type) = top
  BY <1>1, TopBits
<1>3. Top(TopBit(type) + 1) = 0 - Power(top)
  <2>1. top + 1 \in 2 .. 32 /\ (top + 1) - 1 = top
    BY <1>1
  <2> QED
    BY <1>2, <2>1, TopIsPower
<1>4. val % 2 = 0 /\ 0 - Power(top) <= val /\ val < Power(top)
  <2>1. Power(top) \in Nat
    BY Powers
  <2> QED
    BY <1>3, <2>1 DEF Reaches
<1>5. Immediate(type, r) = Shift(val, 1) * Power(1)
  <2>1. Carries(Format(type), 1, top, val, r)
    BY <1>1 DEF Placed, Carries
  <2>2. 1 \in 0 .. 31 /\ top \in 1 .. 31 /\ 1 <= top
    OBVIOUS
  <2>3. Fits(val, top)
    BY <1>4 DEF Fits
  <2> QED
    BY <2>1, <2>2, <2>3, ReadsBack
<1>6. Shift(val, 1) = val \div 2
  <2>1. Shift(val, 0) = val /\ \A n \in 0 .. 30 : Shift(val, n + 1) = Shift(val, n) \div 2
    BY Shifts
  <2>2. Shift(val, 0 + 1) = Shift(val, 0) \div 2
    BY <2>1
  <2> QED
    BY <2>1, <2>2
<1> QED
  BY <1>4, <1>5, <1>6, SmallPowers

\* What lui, auipc or c.lui read: the rounded upper part of the value.
LEMMA UpperReads ==
  ASSUME NEW type, NEW top \in {17, 31}, DOMAIN Format(type) = 12 .. top, NEW x \in Int,
         NEW w, NEW r, Fits(x, top), Placed(Format(type), x, w, r)
  PROVE  Immediate(type, r) = (x \div 4096) * 4096
<1>1. Carries(Format(type), 12, top, x, r)
  BY DEF Placed, Carries
<1>2. Shift(x, 12) = x \div 4096
  BY SmallPowers DEF Shift
<1>3. 12 \in 0 .. 31 /\ top \in 1 .. 31 /\ 12 <= top
  OBVIOUS
<1>4. Immediate(type, r) = Shift(x, 12) * Power(12)
  BY <1>1, <1>3, ReadsBack
<1> QED
  BY <1>2, <1>4, SmallPowers

\* What an instruction with a low half reads: what is left of the value.
LEMMA LowerReads ==
  ASSUME NEW type \in Lo12ITypes \cup Lo12STypes, NEW val \in Int, NEW w, NEW r,
         Placed(Format(type), Lo12(val), w, r)
  PROVE  Immediate(type, r) = Lo12(val)
<1> DEFINE x == Lo12(val)
<1>1. DOMAIN Format(type) = 0 .. 11
  BY Formats
<1>2. x \in Int /\ Fits(x, 11)
  BY SmallPowers DEF Lo12, Fits
<1>3. Carries(Format(type), 0, 11, x, r)
  BY <1>1 DEF Placed, Carries
<1>4. 0 \in 0 .. 31 /\ 11 \in 1 .. 31 /\ 0 <= 11
  OBVIOUS
<1> HIDE DEF x
<1>5. Immediate(type, r) = Shift(x, 0) * Power(0)
  BY <1>2, <1>3, <1>4, ReadsBack
<1>6. Shift(x, 0) = x
  BY <1>2, Shifts
<1> QED
  BY <1>2, <1>5, <1>6, Powers DEF x

\* The range of Near is that of a signed word, also when rounded.
LEMMA NearRange ==
  ASSUME NEW v \in Int, Near(v) PROVE Fits(v + 2048, 31)
<1>1. Top(32) = 0 - Power(31) /\ Power(31) \in Nat
  <2>1. 32 \in 2 .. 32 /\ 31 \in 0 .. 31 /\ 32 - 1 = 31
    OBVIOUS
  <2> QED
    BY <2>1, TopIsPower, Powers
<1> QED
  BY <1>1 DEF Near, Fits

-----------------------------------------------------------------------------
(* What the processor reads after one entry, and after two.                *)

\* The words m after entry e.
After(e, m) ==
  LET r == program[e]
  IN  esp_elf_arch_relocate(m, r.type, r.off, load + r.off, r.addr, r.addend)

\* The entries have been applied in the order of the list.
SecondInv ==
  Len(program) = 2 =>
    \/ k = 1 /\ mem = before
    \/ k = 2 /\ mem = After(1, before)
    \/ k = 3 /\ mem = After(2, After(1, before))

\* The invariant of the second entry holds always.
LEMMA SecondInvariant == RelocSpec => []SecondInv
<1>1. RelocInit => SecondInv
  BY DEF RelocInit, SecondInv
<1>2. SecondInv /\ [RelocNext]_relocVars => SecondInv'
  BY DEF SecondInv, RelocNext, Relocate, relocVars, After
<1> QED
  BY <1>1, <1>2, PTL DEF RelocSpec

\* Words are of 32 bits, and the entries are for one of the two.
LEMMA EntriesTyped ==
  ASSUME FirstInv
  PROVE  /\ load \in Int /\ before \in [{0, 4} -> Word32]
         /\ \A e \in 1 .. Len(program) :
              /\ program[e].off \in {0, 4} /\ program[e].addr \in Int
              /\ program[e].addend \in Int
              /\ program[e].type \in Calls => program[e].off = 0
<1>1. program \in Seq([type : STRING, off : {0, 4}, addr : Int, addend : Int])
  BY ProgramsAssumption DEF FirstInv
<1>2. load \in Int /\ before \in [{0, 4} -> Word32]
  BY ProgramsAssumption DEF FirstInv, Word32
<1>3. \A e \in 1 .. Len(program) :
        program[e] \in [type : STRING, off : {0, 4}, addr : Int, addend : Int]
  <2> DEFINE R == [type : STRING, off : {0, 4}, addr : Int, addend : Int]
  <2>1. program \in Seq(R)
    BY <1>1
  <2> HIDE DEF R
  <2>2. \A e \in 1 .. Len(program) : program[e] \in R
    BY <2>1
  <2> QED
    BY <2>2 DEF R
<1>4. \A e \in 1 .. Len(program) : program[e].type \in Calls => program[e].off = 0
  <2>1. \A e \in DOMAIN program : program[e].type \in Calls => program[e].off = 0
    BY ProgramsAssumption DEF FirstInv
  <2>2. DOMAIN program = 1 .. Len(program)
    BY <1>1
  <2> QED
    BY <2>1, <2>2
<1> QED
  BY <1>2, <1>3, <1>4

\* A type with an immediate is neither skipped nor a call.
LEMMA OneWord ==
  ASSUME NEW type \in Formatted, NEW m \in [{0, 4} -> Word32], NEW off \in {0, 4},
         NEW where, NEW addr, NEW addend
  PROVE  LET n == esp_elf_arch_relocate(m, type, off, where, addr, addend)
         IN  /\ n[off] = Encode(type, m[off], Val(type, where, addr, addend))
             /\ n[4 - off] = m[4 - off] /\ DOMAIN n = {0, 4}
<1>1. type \notin Calls \cup Skipped
  BY DEF Formatted, Jumps, Hi20Types, Lo12ITypes, Lo12STypes, Calls, Skipped
<1>2. esp_elf_arch_relocate(m, type, off, where, addr, addend)
        = [m EXCEPT ![off] = Encode(type, @, Val(type, where, addr, addend))]
  BY <1>1 DEF esp_elf_arch_relocate
<1> DEFINE n == esp_elf_arch_relocate(m, type, off, where, addr, addend)
           v == Encode(type, m[off], Val(type, where, addr, addend))
<1>3. n = [m EXCEPT ![off] = v]
  BY <1>2
<1> HIDE DEF n, v
<1>4. n[off] = v /\ n[4 - off] = m[4 - off] /\ DOMAIN n = {0, 4}
  BY <1>3
<1> QED
  BY <1>4 DEF n, v

\* A branch or jump in range reaches its target, whatever the word held and
\* wherever it is.
THEOREM JumpsArrive == RelocSpec => []JumpsReachTarget
<1>1. FirstInv => JumpsReachTarget
  <2> SUFFICES ASSUME FirstInv, Done, Len(program) = 1, program[1].type \in Jumps,
                      Reaches(program[1].type, Value)
               PROVE  Immediate(program[1].type, Result) = Value
    BY DEF JumpsReachTarget, Single
  <2> DEFINE type == program[1].type
             off == program[1].off
             val == Value
  <2>1. /\ load \in Int /\ before \in [{0, 4} -> Word32] /\ off \in {0, 4}
        /\ program[1].addr \in Int /\ program[1].addend \in Int
    BY EntriesTyped
  <2>2. val \in Int
    BY <2>1 DEF Value, Val
  <2>3. type \in Formatted /\ type # "RVC_LUI"
    BY DEF Formatted, Jumps
  <2>4. mem = esp_elf_arch_relocate(before, type, off, load + off, program[1].addr,
                                    program[1].addend)
    BY DEF Done, FirstInv
  <2>5. mem[off] = Encode(type, before[off], val)
    BY <2>1, <2>3, <2>4, OneWord DEF Value
  <2>6. Encoded(type, val) = val
    BY DEF Jumps, Encoded, Hi20Types, Lo12ITypes, Lo12STypes
  <2>7. before[off] \in Word32
    BY <2>1
  <2>8. type \in Jumps /\ Reaches(type, val)
    OBVIOUS
  <2>9. Result = mem[off]
    BY DEF Result
  <2> HIDE DEF type, off, val
  <2>10. Placed(Format(type), val, before[off], mem[off])
    BY <2>2, <2>3, <2>5, <2>6, <2>7, ImmediateInPlace
  <2>11. Immediate(type, mem[off]) = val
    BY <2>2, <2>8, <2>10, JumpReads
  <2> QED
    BY <2>9, <2>11 DEF type, val
<1> QED
  BY <1>1, FirstInvariant, PTL

\* The high half, rounded, and what is left of a value make the value.
LEMMA TwoHalves ==
  ASSUME NEW v \in Int, Near(v), NEW hi \in Hi20Types, NEW lo \in Lo12ITypes \cup Lo12STypes,
         NEW w \in Word32, NEW u \in Word32
  PROVE  /\ Immediate(hi, Encode(hi, w, v)) \in Int /\ Immediate(lo, Encode(lo, u, v)) \in Int
         /\ Immediate(hi, Encode(hi, w, v)) + Immediate(lo, Encode(lo, u, v)) = v
<1>1. Immediate(hi, Encode(hi, w, v)) = ((v + 2048) \div 4096) * 4096
  <2> DEFINE x == v + 2048
             r == Encode(hi, w, v)
  <2>1. hi \in Formatted /\ hi # "RVC_LUI"
    BY DEF Formatted, Hi20Types
  <2>2. Placed(Format(hi), x, w, r)
    BY <2>1, ImmediateInPlace DEF Encoded
  <2>3. x \in Int /\ Fits(x, 31)
    BY NearRange
  <2>4. DOMAIN Format(hi) = 12 .. 31
    BY Formats
  <2> HIDE DEF x, r
  <2>5. Immediate(hi, r) = (x \div 4096) * 4096
    BY <2>2, <2>3, <2>4, UpperReads
  <2> QED
    BY <2>5 DEF x, r
<1>2. Immediate(lo, Encode(lo, u, v)) = Lo12(v)
  <2>1. lo \in Formatted /\ lo # "RVC_LUI" /\ lo \notin Hi20Types
    BY DEF Formatted, Hi20Types, Lo12ITypes, Lo12STypes
  <2>2. Placed(Format(lo), Lo12(v), u, Encode(lo, u, v))
    BY <2>1, ImmediateInPlace DEF Encoded
  <2> QED
    BY <2>2, LowerReads
<1> QED
  BY <1>1, <1>2 DEF Lo12

\* A relocated auipc and jalr together jump to the symbol, whatever the words
\* held and wherever they are.
THEOREM CallsArrive == RelocSpec => []CallsReachSymbol
<1>1. FirstInv => CallsReachSymbol
  <2> DEFINE type == program[1].type
             off == program[1].off
             addr == program[1].addr
             v == addr - load - off
             H == "PCREL_HI20"
             L == "PCREL_LO12_I"
  <2> SUFFICES ASSUME FirstInv, Done, Len(program) = 1, type \in Calls, Near(v)
               PROVE  load + off + Immediate(H, mem[0]) + Immediate(L, mem[4]) = addr
    BY DEF CallsReachSymbol, Single
  <2>1. /\ load \in Int /\ before \in [{0, 4} -> Word32] /\ off = 0 /\ addr \in Int
        /\ type \in Calls /\ type \notin Skipped
    BY EntriesTyped DEF Calls, Skipped
  <2>2. mem = esp_elf_arch_relocate(before, type, off, load + off, addr, program[1].addend)
    BY DEF Done, FirstInv
  <2>3. mem = Call(before, 0, load + 0, addr)
    BY <2>1, <2>2 DEF esp_elf_arch_relocate
  <2>4. v \in Int /\ v = addr - load
    BY <2>1
  <2>5. Val(H, load + 0, addr, 0) = v /\ Val(L, load + 0 + 4, addr + 4, 0) = v
    BY <2>1 DEF Val, PcRelative
  <2>6. mem = [before EXCEPT ![0] = Encode(H, @, v), ![4] = Encode(L, @, v)]
    <3>1. mem = [before EXCEPT ![0] = Encode(H, @, Val(H, load + 0, addr, 0)),
                               ![0 + 4] = Encode(L, @, Val(L, load + 0 + 4, addr + 4, 0))]
      BY <2>3 DEF Call
    <3>2. 0 + 4 = 4
      OBVIOUS
    <3> HIDE DEF v, H, L
    <3> QED
      BY <2>5, <3>1, <3>2
  <2>7. H \in Hi20Types /\ L \in Lo12ITypes \cup Lo12STypes
    BY DEF Hi20Types, Lo12ITypes
  <2>8. Near(v)
    OBVIOUS
  <2> HIDE DEF type, off, addr, v, H, L
  <2>9. mem[0] = Encode(H, before[0], v) /\ mem[4] = Encode(L, before[4], v)
    BY <2>1, <2>6
  <2>10. before[0] \in Word32 /\ before[4] \in Word32
    BY <2>1
  <2>11. /\ Immediate(H, mem[0]) \in Int /\ Immediate(L, mem[4]) \in Int
         /\ Immediate(H, mem[0]) + Immediate(L, mem[4]) = v
    BY <2>4, <2>7, <2>8, <2>9, <2>10, TwoHalves
  <2> QED
    BY <2>1, <2>4, <2>11
<1> QED
  BY <1>1, FirstInvariant, PTL

\* The two halves of an absolute address, for every pair of instructions.
THEOREM HalvesAdd == RelocSpec => []HalvesMakeAddress
<1>1. FirstInv /\ SecondInv => HalvesMakeAddress
  <2> DEFINE hi == program[1].type
             lo == program[2].type
             v == Symbol(1)
             Lows == (Lo12ITypes \cup Lo12STypes) \ PcRelative
  <2> SUFFICES ASSUME FirstInv, SecondInv, Done, Len(program) = 2,
                      hi \in {"HI20", "TPREL_HI20"}, lo \in Lows,
                      program[1].off = 0, program[2].off = 4, Symbol(1) = Symbol(2), Near(v)
               PROVE  Immediate(hi, mem[0]) + Immediate(lo, mem[4]) = v
    BY DEF HalvesMakeAddress, Two
  <2>1. /\ load \in Int /\ before \in [{0, 4} -> Word32]
        /\ program[1].addr \in Int /\ program[1].addend \in Int
        /\ program[2].addr \in Int /\ program[2].addend \in Int
    BY EntriesTyped
  <2>2. mem = After(2, After(1, before))
    BY DEF Done, SecondInv
  <2>3. hi \in Formatted /\ lo \in Formatted /\ hi \notin PcRelative /\ lo \notin PcRelative
    BY DEF Formatted, Hi20Types, PcRelative
  <2>4. hi \in Hi20Types /\ lo \in Lo12ITypes \cup Lo12STypes
    BY DEF Hi20Types
  <2>5. v \in Int
    BY <2>1 DEF Symbol
  <2>6. /\ Val(hi, load, program[1].addr, program[1].addend) = v
        /\ Val(lo, load + 4, program[2].addr, program[2].addend) = v
    BY <2>1, <2>3 DEF Val, Symbol
  <2> DEFINE one == After(1, before)
  <2>7. one = [before EXCEPT ![0] = Encode(hi, @, v)]
    <3>1. load + 0 = load
      BY <2>1
    <3>2. hi \notin Calls \cup Skipped
      BY DEF Calls, Skipped
    <3> QED
      BY <2>6, <3>1, <3>2 DEF After, esp_elf_arch_relocate
  <2>8. mem = [one EXCEPT ![4] = Encode(lo, @, v)]
    <3>1. lo \notin Calls \cup Skipped
      BY DEF Calls, Skipped, Lo12ITypes, Lo12STypes
    <3> QED
      BY <2>2, <2>6, <3>1 DEF After, esp_elf_arch_relocate
  <2>9. before[0] \in Word32 /\ before[4] \in Word32 /\ Near(v)
    BY <2>1
  <2> HIDE DEF hi, lo, v, Lows, one
  <2>10. mem[0] = Encode(hi, before[0], v) /\ mem[4] = Encode(lo, before[4], v)
    BY <2>1, <2>7, <2>8
  <2> QED
    BY <2>4, <2>5, <2>9, <2>10, TwoHalves
<1> QED
  BY <1>1, FirstInvariant, SecondInvariant, PTL

\* Zero has no bits.
LEMMA ZeroBits == ASSUME NEW z \in Int, z = 0 PROVE \A n \in 0 .. 31 : ~Bit(z, n)
<1> DEFINE T == {m \in 0 .. 31 : Shift(z, m) = 0}
<1>1. 0 \in T
  BY Shifts
<1>2. \A m \in 0 .. 30 : Shift(z, m + 1) = Shift(z, m) \div 2
  BY Shifts
<1>3. \A m \in 0 .. 31 : m \in T
  <2>1. \A m \in 0 .. 30 : m \in T => m + 1 \in T
    BY <1>2
  <2> HIDE DEF T
  <2> QED
    BY <1>1, <2>1, Counting
<1> QED
  BY <1>3 DEF Bit

\* The bits of a c.lui that hold its immediate.
LEMMA LuiBits ==
  LET f == Format("RVC_LUI")
  IN  f = [b \in 12 .. 17 |-> IF b = 17 THEN 12 ELSE b - 10]
BY DEF Format, Hi20Types, Lo12ITypes, Lo12STypes

\* A c.lui of a value in range loads its rounded upper part; one of zero has
\* become c.li.
THEOREM LuiLoads == RelocSpec => []CompressedLui
<1>1. FirstInv => CompressedLui
  <2> DEFINE off == program[1].off
             v == Value
             x == Value + 2048
             w == Before
             r == Result
  <2> SUFFICES ASSUME FirstInv, Done, Len(program) = 1, program[1].type = "RVC_LUI",
                      w \cap {13, 14, 15} = {13, 14}, Top(18) <= x, x < 0 - Top(18)
               PROVE  LET hi == Immediate("RVC_LUI", r)
                      IN  /\ hi = (x \div 4096) * 4096
                          /\ r \cap {13, 14, 15} = IF hi = 0 THEN {14} ELSE {13, 14}
    BY DEF CompressedLui, Single
  <2>1. /\ load \in Int /\ before \in [{0, 4} -> Word32] /\ off \in {0, 4}
        /\ program[1].addr \in Int /\ program[1].addend \in Int
    BY EntriesTyped
  <2>2. v \in Int /\ x \in Int /\ w \in Word32
    BY <2>1 DEF Value, Val, Before
  <2>3. "RVC_LUI" \in Formatted
    BY DEF Formatted
  <2>4. mem = esp_elf_arch_relocate(before, "RVC_LUI", off, load + off, program[1].addr,
                                    program[1].addend)
    BY DEF Done, FirstInv
  <2>5. r = RvcLui(w, v)
    BY <2>1, <2>3, <2>4, OneWord, EncodeCases DEF Value, Result, Before
  <2>6. Fits(x, 17)
    <3>1. Top(18) = 0 - Power(18 - 1) /\ 18 - 1 = 17
      BY TopIsPower
    <3> QED
      BY <3>1, SmallPowers DEF Fits
  <2>7. DOMAIN Format("RVC_LUI") = 12 .. 17
    BY Formats
  <2>8. w \cap {13, 14, 15} = {13, 14} /\ x = v + 2048
    OBVIOUS
  <2> HIDE DEF off, v, x, w, r
  <2>9. CASE x \div 4096 = 0
    <3>1. r = (w \cap ({0, 1} \cup (7 .. 11) \cup Upper)) \cup {14}
      BY <2>5, <2>8, <2>9 DEF RvcLui
    <3>2. \A n \in 2 .. 6 : n \notin r
      BY <3>1 DEF Upper
    <3>3. 12 \notin r /\ r \cap {13, 14, 15} = {14}
      BY <3>1 DEF Upper
    <3>4. \A b \in 12 .. 17 : Format("RVC_LUI")[b] \notin r
      BY <3>2, <3>3, LuiBits
    <3>5. \A b \in 12 .. 17 : ~Bit(0, b)
      BY ZeroBits
    <3>6. Placed(Format("RVC_LUI"), 0, r, r)
      BY <2>7, <3>4, <3>5 DEF Placed
    <3>7. Fits(0, 17)
      BY SmallPowers DEF Fits
    <3>8. Immediate("RVC_LUI", r) = (0 \div 4096) * 4096
      BY <2>7, <3>6, <3>7, UpperReads
    <3> QED
      BY <2>9, <3>3, <3>8
  <2>10. CASE x \div 4096 # 0
    <3>1. Placed(Format("RVC_LUI"), x, w, r)
      BY <2>2, <2>5, <2>8, <2>10, RvcLuiPlaced
    <3>2. Immediate("RVC_LUI", r) = (x \div 4096) * 4096
      BY <2>2, <2>6, <2>7, <3>1, UpperReads
    <3>3. (x \div 4096) * 4096 # 0
      BY <2>2, <2>10
    <3>4. \A b \in 12 .. 17 : Format("RVC_LUI")[b] \notin {13, 14, 15}
      BY LuiBits
    <3>5. r \cap {13, 14, 15} = w \cap {13, 14, 15}
      BY <2>7, <3>1, <3>4 DEF Placed
    <3> QED
      BY <2>8, <3>2, <3>3, <3>5
  <2> QED
    BY <2>9, <2>10
<1> QED
  BY <1>1, FirstInvariant, PTL

\* x less h times 2^(t + 1).
Apart(x, h, t) == x - h * (2 * Power(t))

\* The bits up to t do not depend on multiples of 2^(t + 1).
LEMMA Periodic ==
  ASSUME NEW x \in Int, NEW h \in Int, NEW t \in 0 .. 31, NEW y, y = Apart(x, h, t)
  PROVE  \A m \in 0 .. t : Bit(y, m) <=> Bit(x, m)
<1>0. y = x - h * (2 * Power(t))
  BY DEF Apart
<1>1. y \in Int /\ \A m \in 0 .. t : Power(t - m) \in Nat /\ h * (2 * Power(t - m)) \in Int
  <2>1. \A m \in 0 .. t : t - m \in 0 .. 31
    OBVIOUS
  <2>2. \A m \in 0 .. t : Power(t - m) \in Nat
    BY <2>1, Powers
  <2>3. Power(t) \in Nat
    BY Powers
  <2>4. \A P \in Nat : h * (2 * P) \in Int
    OBVIOUS
  <2> QED
    BY <1>0, <2>2, <2>3, <2>4
<1> DEFINE T == {m \in 0 .. t : Shift(y, m) = Shift(x, m) - h * (2 * Power(t - m))}
<1>2. 0 \in T
  <2>1. Shift(y, 0) = y /\ Shift(x, 0) = x /\ t - 0 = t
    BY <1>1, Shifts
  <2> QED
    BY <1>0, <2>1
<1>3. ASSUME NEW m \in 0 .. t - 1, m \in T PROVE m + 1 \in T
  <2> DEFINE Q == Power(t - (m + 1))
             c == h * (2 * Q)
             q == Shift(x, m)
  <2>1. Power(t - m) = 2 * Q /\ Q \in Nat
    <3>1. t - (m + 1) \in 0 .. 30 /\ (t - (m + 1)) + 1 = t - m
      OBVIOUS
    <3>2. \A n \in 0 .. 30 : Power(n + 1) = 2 * Power(n)
      BY Powers
    <3>3. m + 1 \in 0 .. t
      OBVIOUS
    <3> QED
      BY <1>1, <3>1, <3>2, <3>3
  <2>2. m \in 0 .. 30 /\ m \in 0 .. 31 /\ q \in Int /\ c \in Int
    <3>1. m \in 0 .. 30 /\ m \in 0 .. 31
      OBVIOUS
    <3>2. \A n \in 0 .. 31 : Shift(x, n) \in Int
      BY Shifts
    <3> QED
      BY <2>1, <3>1, <3>2
  <2>3. Shift(y, m + 1) = Shift(y, m) \div 2 /\ Shift(x, m + 1) = q \div 2
    <3>1. \A n \in 0 .. 30 : Shift(y, n + 1) = Shift(y, n) \div 2
      BY <1>1, Shifts
    <3>2. \A n \in 0 .. 30 : Shift(x, n + 1) = Shift(x, n) \div 2
      BY Shifts
    <3> QED
      BY <2>2, <3>1, <3>2
  <2>4. Shift(y, m) = q - 2 * c
    <3>1. Shift(y, m) = q - h * (2 * Power(t - m))
      BY <1>3
    <3> HIDE DEF Q, q
    <3>2. h * (2 * (2 * Q)) = 2 * (h * (2 * Q))
      BY <2>1
    <3> QED
      BY <2>1, <3>1, <3>2
  <2> HIDE DEF c, q
  <2>5. Shift(y, m + 1) = Shift(x, m + 1) - c
    BY <2>2, <2>3, <2>4
  <2> QED
    BY <2>5 DEF c
<1>4. \A m \in 0 .. t : m \in T
  <2> HIDE DEF T
  <2> QED
    BY <1>2, <1>3, Counting
<1> SUFFICES ASSUME NEW m \in 0 .. t PROVE Bit(y, m) <=> Bit(x, m)
  OBVIOUS
<1> DEFINE P == Power(t - m)
<1>5. Shift(y, m) = Shift(x, m) - h * (2 * P) /\ P \in Nat
  BY <1>1, <1>4
<1>6. Shift(x, m) \in Int
  <2>1. \A n \in 0 .. 31 : Shift(x, n) \in Int
    BY Shifts
  <2> QED
    BY <2>1
<1> HIDE DEF P
<1>7. h * (2 * P) = 2 * (h * P) /\ h * P \in Int
  BY <1>5
<1> DEFINE g == h * P
           q == Shift(x, m)
<1>8. Shift(y, m) = q - 2 * g /\ q \in Int /\ g \in Int
  BY <1>5, <1>6, <1>7
<1> HIDE DEF g, q
<1>9. (Shift(y, m) % 2) = q % 2
  BY <1>8
<1> QED
  BY <1>9 DEF Bit, q

\* A word of n bits stands for an integer.
LEMMA IntOfTyped == ASSUME NEW w, NEW n \in 2 .. 32 PROVE IntOf(w, n) \in Int
<1>1. n - 1 \in 0 .. 31
  OBVIOUS
<1>2. NatOf(w, n - 1) \in Int
  <2>1. n - 1 \in 0 .. n - 1
    BY <1>1
  <2> QED
    BY <1>1, <2>1, NatOfIsSum
<1>3. Top(n) \in Int
  BY <1>1, TopIsPower, Powers
<1> QED
  BY <1>2, <1>3 DEF IntOf

\* Word r is w with v added to its low n bits, modulo 2^n.
Added(w, n, v, r) ==
  /\ r \ (0 .. n - 1) = w \ (0 .. n - 1)
  /\ r \cap (0 .. n - 1) = Field(IntOf(w, n) + v, n - 1, 0, 0)

\* The bits of a sum that are written back to the low n bits of a word.
LEMMA LowBits ==
  ASSUME NEW w, NEW n \in 2 .. 32, NEW v \in Int
  PROVE  /\ Added(w, n, v, AddTo(w, n, v))
         /\ \A b \in 0 .. n - 1 : b \in AddTo(w, n, v) <=> Bit(IntOf(w, n) + v, b)
<1> DEFINE y == IntOf(w, n) + v
           r == AddTo(w, n, v)
           F == Field(y, n - 1, 0, 0)
<1>1. r = (w \ (0 .. n - 1)) \cup F
  BY DEF AddTo
<1> HIDE DEF y, r
<1>2. \A b : b \in F <=> b \in 0 .. n - 1 /\ Bit(y, b)
  <2>1. \A b : b \in F <=> b \in 0 .. 0 + (n - 1) - 0 /\ Bit(y, b - 0 + 0)
    BY FieldBits
  <2>2. 0 + (n - 1) - 0 = n - 1
    OBVIOUS
  <2>3. \A b \in 0 .. n - 1 : b - 0 + 0 = b
    OBVIOUS
  <2> HIDE DEF F
  <2> QED
    BY <2>1, <2>2, <2>3
<1>3. /\ r \ (0 .. n - 1) = w \ (0 .. n - 1) /\ r \cap (0 .. n - 1) = F
      /\ \A b \in 0 .. n - 1 : b \in r <=> Bit(y, b)
  <2> HIDE DEF F
  <2> QED
    BY <1>1, <1>2
<1> QED
  BY <1>3 DEF y, r, Added

\* A word whose low bits are those of y stands for y, up to multiples of 2^n.
LEMMA UpToCarry ==
  ASSUME NEW y \in Int, NEW t \in 1 .. 31, NEW s, \A b \in 0 .. t : b \in s <=> Bit(y, b)
  PROVE  \E h \in Int : IntOf(s, t + 1) = y - h * (2 * Power(t))
<1>1. \A b \in 0 .. t : b \in s <=> 0 <= b /\ Bit(y, b)
  OBVIOUS
<1>2. 0 \in 0 .. 31 /\ 0 <= t
  OBVIOUS
<1>3. \E h \in Int : IntOf(s, t + 1) = Shift(y, 0) * Power(0) - h * (2 * Power(t))
  BY <1>1, <1>2, BitsMakeNumber, ZenonT(40)
<1>4. Shift(y, 0) = y /\ Power(0) = 1
  BY Shifts, Powers
<1>5. Shift(y, 0) * Power(0) = y
  BY <1>4
<1> QED
  BY <1>3, <1>5

\* The field of the low bits is the same up to multiples of 2^(t + 1).
LEMMA FieldUpToCarry ==
  ASSUME NEW x \in Int, NEW h \in Int, NEW t \in 0 .. 31
  PROVE  Field(Apart(x, h, t), t, 0, 0) = Field(x, t, 0, 0)
<1>1. \A m \in 0 .. t : Bit(Apart(x, h, t), m) <=> Bit(x, m)
  BY Periodic
<1> QED
  BY <1>1 DEF Field

\* Adding v and then u to the low n bits of a word adds their sum, modulo 2^n.
LEMMA AddedTwice ==
  ASSUME NEW w, NEW n \in 2 .. 32, NEW v \in Int, NEW u \in Int
  PROVE  Added(w, n, v + u, AddTo(AddTo(w, n, v), n, u))
<1> DEFINE s == AddTo(w, n, v)
           r == AddTo(s, n, u)
           y == IntOf(w, n) + v
           z == IntOf(w, n) + (v + u)
           t == n - 1
           a == IntOf(s, n)
           i == IntOf(w, n)
<1>1. i \in Int
  BY IntOfTyped
<1>2. /\ s \ (0 .. n - 1) = w \ (0 .. n - 1)
      /\ \A b \in 0 .. n - 1 : b \in s <=> Bit(y, b)
  BY LowBits DEF Added
<1>3. /\ r \ (0 .. n - 1) = s \ (0 .. n - 1)
      /\ r \cap (0 .. n - 1) = Field(a + u, n - 1, 0, 0)
  <2> HIDE DEF s
  <2>1. Added(s, n, u, AddTo(s, n, u))
    BY LowBits
  <2> QED
    BY <2>1 DEF Added
<1>4. y \in Int /\ z \in Int /\ z = y + u /\ t \in 1 .. 31 /\ t + 1 = n
  <2> HIDE DEF i
  <2>1. y = i + v /\ z = i + (v + u)
    BY DEF i
  <2> HIDE DEF y, z
  <2> QED
    BY <1>1, <2>1
<1> HIDE DEF s, r, y, z, t, a
<1>5. PICK h \in Int : a = y - h * (2 * Power(t))
  <2>1. \A b \in 0 .. t : b \in s <=> Bit(y, b)
    BY <1>2 DEF t
  <2>2. \E h \in Int : IntOf(s, t + 1) = y - h * (2 * Power(t))
    BY <1>4, <2>1, UpToCarry
  <2>3. IntOf(s, t + 1) = a
    BY <1>4 DEF a
  <2> QED
    BY <2>2, <2>3
<1>6. a + u = z - h * (2 * Power(t))
  <2>1. Power(t) \in Nat
    BY <1>4, Powers
  <2>2. h * (2 * Power(t)) \in Int
    BY <2>1
  <2> QED
    BY <1>4, <1>5, <2>2
<1>7. Field(a + u, t, 0, 0) = Field(z, t, 0, 0)
  <2>1. t \in 0 .. 31 /\ z \in Int /\ h \in Int
    BY <1>4, <1>5
  <2>2. a + u = Apart(z, h, t)
    BY <1>6 DEF Apart
  <2> QED
    BY <2>1, <2>2, FieldUpToCarry
<1>8. Field(a + u, n - 1, 0, 0) = Field(z, n - 1, 0, 0)
  BY <1>7 DEF t
<1> QED
  BY <1>2, <1>3, <1>8 DEF s, r, z, Added

\* An ADD or SUB entry adds its value to as many bits as its width.
LEMMA AddEncodes ==
  ASSUME NEW w, NEW v
  PROVE  /\ \A type \in DOMAIN AddWidth : Encode(type, w, v) = AddTo(w, AddWidth[type], v)
         /\ \A type \in DOMAIN SubWidth : Encode(type, w, v) = AddTo(w, SubWidth[type], 0 - v)
<1>1. DOMAIN AddWidth = {"ADD8", "ADD16", "ADD32"} /\ DOMAIN SubWidth = {"SUB8", "SUB16", "SUB32"}
  BY DEF AddWidth, SubWidth
<1>2. \A type \in DOMAIN AddWidth \cup DOMAIN SubWidth :
        /\ type \notin Hi20Types \cup Lo12ITypes \cup Lo12STypes
        /\ type \notin {"32", "GOT32_PCREL", "RVC_BRANCH", "RVC_JUMP", "RVC_LUI", "JAL", "BRANCH"}
        /\ type \in DOMAIN SubWidth => type \notin DOMAIN AddWidth
  BY <1>1 DEF Hi20Types, Lo12ITypes, Lo12STypes
<1>3. \A type \in DOMAIN AddWidth : Encode(type, w, v) = AddTo(w, AddWidth[type], v)
  <2> SUFFICES ASSUME NEW type \in DOMAIN AddWidth
               PROVE  Encode(type, w, v) = AddTo(w, AddWidth[type], v)
    OBVIOUS
  <2> QED
    BY <1>2 DEF Encode
<1>4. \A type \in DOMAIN SubWidth : Encode(type, w, v) = AddTo(w, SubWidth[type], 0 - v)
  <2> SUFFICES ASSUME NEW type \in DOMAIN SubWidth
               PROVE  Encode(type, w, v) = AddTo(w, SubWidth[type], 0 - v)
    OBVIOUS
  <2> QED
    BY <1>2 DEF Encode
<1> QED
  BY <1>3, <1>4

\* An ADD and a SUB entry leave the difference of two symbols on top of what
\* was in the word, modulo the width, whatever the carries in between.
THEOREM DifferencesRemain == RelocSpec => []DifferenceOfSymbols
<1>1. FirstInv /\ SecondInv => DifferenceOfSymbols
  <2> DEFINE add == program[1].type
             sub == program[2].type
             off == program[1].off
             n == AddWidth[add]
             v == Symbol(1)
             u == 0 - Symbol(2)
             w == before[off]
  <2> SUFFICES ASSUME FirstInv, SecondInv, Done, Len(program) = 2,
                      add \in DOMAIN AddWidth, sub \in DOMAIN SubWidth,
                      program[1].off = program[2].off, AddWidth[add] = SubWidth[sub]
               PROVE  /\ mem[off] \cap (0 .. n - 1)
                           = Field(IntOf(w, n) + (Symbol(1) - Symbol(2)), n - 1, 0, 0)
                      /\ mem[off] \ (0 .. n - 1) = w \ (0 .. n - 1)
    BY DEF DifferenceOfSymbols, Two, Result, Before
  <2>1. /\ load \in Int /\ before \in [{0, 4} -> Word32] /\ off \in {0, 4}
        /\ program[1].addr \in Int /\ program[1].addend \in Int
        /\ program[2].addr \in Int /\ program[2].addend \in Int
    BY EntriesTyped
  <2>2. mem = After(2, After(1, before))
    BY DEF Done, SecondInv
  <2>3. \A type \in DOMAIN AddWidth \cup DOMAIN SubWidth : type \notin PcRelative \cup Calls \cup Skipped
    BY DEF AddWidth, SubWidth, PcRelative, Calls, Skipped
  <2>4. /\ Val(add, load + off, program[1].addr, program[1].addend) = v
        /\ Val(sub, load + off, program[2].addr, program[2].addend) = Symbol(2)
    BY <2>1, <2>3 DEF Val, Symbol
  <2>5. n \in 2 .. 32
    BY DEF AddWidth
  <2>6. v \in Int /\ Symbol(2) \in Int /\ u \in Int /\ v + u = Symbol(1) - Symbol(2)
    <3>1. Symbol(1) \in Int /\ Symbol(2) \in Int
      BY <2>1 DEF Symbol
    <3> QED
      BY <3>1
  <2> DEFINE one == After(1, before)
  <2>7. one = [before EXCEPT ![off] = AddTo(@, n, v)]
    <3>1. one = [before EXCEPT ![off] = Encode(add, @, v)]
      BY <2>3, <2>4 DEF After, esp_elf_arch_relocate
    <3>2. Encode(add, before[off], v) = AddTo(before[off], n, v)
      BY AddEncodes
    <3> HIDE DEF one, add, off, n, v
    <3> QED
      BY <3>1, <3>2
  <2>8. mem = [one EXCEPT ![off] = AddTo(@, n, u)]
    <3>1. mem = [one EXCEPT ![off] = Encode(sub, @, Symbol(2))]
      BY <2>2, <2>3, <2>4 DEF After, esp_elf_arch_relocate
    <3>2. Encode(sub, one[off], Symbol(2)) = AddTo(one[off], n, u)
      BY AddEncodes
    <3> HIDE DEF one, sub, off, n, u
    <3> QED
      BY <3>1, <3>2
  <2> HIDE DEF add, sub, off, n, v, u, one, w
  <2>9. one[off] = AddTo(w, n, v) /\ DOMAIN one = {0, 4}
    BY <2>1, <2>7 DEF w
  <2>10. mem[off] = AddTo(AddTo(w, n, v), n, u)
    BY <2>1, <2>8, <2>9
  <2>11. /\ mem[off] \ (0 .. n - 1) = w \ (0 .. n - 1)
         /\ mem[off] \cap (0 .. n - 1) = Field(IntOf(w, n) + (v + u), n - 1, 0, 0)
    <3>1. Added(w, n, v + u, AddTo(AddTo(w, n, v), n, u))
      BY <2>5, <2>6, AddedTwice
    <3> QED
      BY <2>10, <3>1 DEF Added
  <2> QED
    BY <2>6, <2>11
<1> QED
  BY <1>1, FirstInvariant, SecondInvariant, PTL

-----------------------------------------------------------------------------
(* Words as numbers, and what the encoder keeps of a word.                 *)

\* A number made of bits has these bits.
LEMMA SumBits ==
  ASSUME NEW w, NEW n \in 0 .. 31
  PROVE  /\ NatOf(w, n) \in Int /\ 0 <= NatOf(w, n) /\ NatOf(w, n) < Power(n)
         /\ \A b \in 0 .. n - 1 : Bit(NatOf(w, n), b) <=> b \in w
<1>1. PICK s : /\ NatOf(w, n) = s[n] /\ s[0] = 0
               /\ \A b \in 0 .. n : s[b] \in Int
               /\ \A b \in 0 .. n - 1 : s[b + 1] = s[b] + Term(w, b)
  BY NatOfIsSum
<1> DEFINE Good(x, m) == /\ 0 <= x /\ x < Power(m)
                         /\ \A b \in 0 .. m - 1 : Bit(x, b) <=> b \in w
           T == {m \in 0 .. n : Good(s[m], m)}
<1>2. 0 \in T
  BY <1>1, Powers
<1>3. ASSUME NEW m \in 0 .. n - 1, m \in T PROVE m + 1 \in T
  <2> DEFINE P == Power(m)
             x == s[m]
             y == s[m + 1]
             c == IF m \in w THEN 1 ELSE 0
  <2>1. /\ m \in 0 .. 30 /\ P \in Nat /\ P > 0 /\ P = Pow2[m] /\ Power(m + 1) = 2 * P
        /\ x \in Int /\ y \in Int /\ 0 <= x /\ x < P
    <3>1. m \in 0 .. 30 /\ m \in 0 .. n /\ m + 1 \in 0 .. n /\ m \in 0 .. 31
      OBVIOUS
    <3>2. P \in Nat /\ P > 0 /\ Power(m + 1) = 2 * P
      BY <3>1, Powers
    <3>3. P = Pow2[m]
      BY <3>1 DEF Power
    <3>4. x \in Int /\ y \in Int
      BY <1>1, <3>1
    <3>5. 0 <= x /\ x < P
      <4>1. Good(s[m], m)
        BY <1>3
      <4> QED
        BY <4>1
    <3> HIDE DEF P, x, y
    <3> QED
      BY <3>1, <3>2, <3>3, <3>4, <3>5
  <2>2. y = x + c * P /\ c \in {0, 1} /\ (c = 1 <=> m \in w)
    <3>1. y = x + Term(w, m)
      BY <1>1
    <3>2. Term(w, m) = IF m \in w THEN P ELSE 0
      BY <2>1 DEF Term
    <3> HIDE DEF x, y, P
    <3> QED
      BY <2>1, <3>1, <3>2
  <2>3. Bit(y, m) <=> m \in w
    <3>1. Shift(y, m) = y \div P
      BY <2>1 DEF Shift
    <3> HIDE DEF x, y, P, c
    <3>2. y \div P = c
      <4>1. CASE c = 0
        BY <2>1, <2>2, <4>1, SMTT(20)
      <4>2. CASE c = 1
        BY <2>1, <2>2, <4>2, SMTT(20)
      <4> QED
        BY <2>2, <4>1, <4>2
    <3> QED
      BY <2>2, <3>1, <3>2 DEF Bit
  <2>4. ASSUME NEW b \in 0 .. m - 1 PROVE Bit(y, b) <=> b \in w
    <3>1. m - 1 \in 0 .. 31 /\ m - 1 \in 0 .. 30 /\ (m - 1) + 1 = m /\ 0 - c \in Int
      BY <2>1, <2>2
    <3>2. P = 2 * Power(m - 1) /\ Power(m - 1) \in Nat
      BY <3>1, Powers
    <3>3. y = Apart(x, 0 - c, m - 1)
      <4> HIDE DEF x, y, P, c
      <4>1. y = x - (0 - c) * P
        BY <2>1, <2>2
      <4> QED
        BY <3>2, <4>1 DEF Apart
    <3>4. b \in 0 .. m - 1
      OBVIOUS
    <3>5. Bit(y, b) <=> Bit(x, b)
      <4> DEFINE t == m - 1
                 h == 0 - c
      <4>1. x \in Int /\ h \in Int /\ t \in 0 .. 31 /\ y = Apart(x, h, t) /\ b \in 0 .. t
        BY <2>1, <3>1, <3>3, <3>4
      <4> HIDE DEF x, y, t, h
      <4>2. \A l \in 0 .. t : Bit(y, l) <=> Bit(x, l)
        BY <4>1, Periodic
      <4> QED
        BY <4>1, <4>2
    <3>6. Bit(x, b) <=> b \in w
      BY <1>3
    <3> QED
      BY <3>5, <3>6
  <2>5. 0 <= y /\ y < Power(m + 1)
    <3> HIDE DEF x, y, P, c
    <3>1. y = x \/ y = x + P
      BY <2>1, <2>2
    <3> QED
      BY <2>1, <3>1
  <2>6. \A b \in 0 .. (m + 1) - 1 : b = m \/ b \in 0 .. m - 1
    OBVIOUS
  <2> HIDE DEF x, P, c
  <2> QED
    BY <2>3, <2>4, <2>5, <2>6
<1> HIDE DEF T
<1>4. \A m \in 0 .. n : m \in T
  BY <1>1, <1>2, <1>3, Counting
<1>5. n \in T /\ n \in 0 .. n
  BY <1>4
<1> QED
  BY <1>1, <1>5 DEF T

\* Bits of numbers that have none in common add without a carry.
LEMMA SumDisjoint ==
  ASSUME NEW u, NEW v, NEW w, NEW n \in 0 .. 31,
         \A b \in 0 .. n - 1 : (b \in w <=> b \in u \/ b \in v) /\ ~(b \in u /\ b \in v)
  PROVE  NatOf(w, n) = NatOf(u, n) + NatOf(v, n)
<1>1. PICK s : /\ NatOf(u, n) = s[n] /\ s[0] = 0
               /\ \A b \in 0 .. n : s[b] \in Int
               /\ \A b \in 0 .. n - 1 : s[b + 1] = s[b] + Term(u, b)
  BY NatOfIsSum
<1>2. PICK t : /\ NatOf(v, n) = t[n] /\ t[0] = 0
               /\ \A b \in 0 .. n : t[b] \in Int
               /\ \A b \in 0 .. n - 1 : t[b + 1] = t[b] + Term(v, b)
  BY NatOfIsSum
<1>3. PICK z : /\ NatOf(w, n) = z[n] /\ z[0] = 0
               /\ \A b \in 0 .. n : z[b] \in Int
               /\ \A b \in 0 .. n - 1 : z[b + 1] = z[b] + Term(w, b)
  BY NatOfIsSum
<1> DEFINE T == {m \in 0 .. n : z[m] = s[m] + t[m]}
<1>4. 0 \in T
  BY <1>1, <1>2, <1>3
<1>5. ASSUME NEW m \in 0 .. n - 1, m \in T PROVE m + 1 \in T
  <2>1. m \in 0 .. 30 /\ m + 1 \in 0 .. n /\ m \in 0 .. n /\ m \in 0 .. 31
    OBVIOUS
  <2>2. Pow2[m] \in Int
    BY <2>1, Powers DEF Power
  <2>3. /\ Term(u, m) \in Int /\ Term(v, m) \in Int /\ Term(w, m) = Term(u, m) + Term(v, m)
    BY <2>2 DEF Term
  <2>4. z[m] = s[m] + t[m] /\ s[m] \in Int /\ t[m] \in Int
    BY <1>1, <1>2, <1>5, <2>1
  <2>5. z[m + 1] = s[m + 1] + t[m + 1]
    BY <1>1, <1>2, <1>3, <2>3, <2>4
  <2> QED
    BY <2>1, <2>5
<1> HIDE DEF T
<1>6. \A m \in 0 .. n : m \in T
  BY <1>4, <1>5, Counting
<1>7. n \in T
  BY <1>6
<1> QED
  BY <1>1, <1>2, <1>3, <1>7 DEF T

\* A halfword as a number and back.
LEMMA HalfAndBack ==
  ASSUME NEW w \in SUBSET (0 .. 15)
  PROVE  /\ Field(NatOf(w, 16), 15, 0, 0) = w
         /\ NatOf(w, 16) \in Int /\ NatOf(w, 16) \div 65536 = 0
<1>1. 16 \in 0 .. 31 /\ 16 - 1 = 15
  OBVIOUS
<1>2. /\ NatOf(w, 16) \in Int /\ 0 <= NatOf(w, 16) /\ NatOf(w, 16) < 65536
      /\ \A b \in 0 .. 15 : Bit(NatOf(w, 16), b) <=> b \in w
  BY <1>1, SumBits, SmallPowers
<1> DEFINE x == NatOf(w, 16)
<1> HIDE DEF x
<1>3. x \div 65536 = 0
  BY <1>2 DEF x
<1>4. \A b : b \in Field(x, 15, 0, 0) <=> b \in 0 .. 15 /\ Bit(x, b)
  <2> SUFFICES ASSUME NEW b PROVE b \in Field(x, 15, 0, 0) <=> b \in 0 .. 15 /\ Bit(x, b)
    OBVIOUS
  <2>1. b \in Field(x, 15, 0, 0) <=> \E n \in 0 .. 15 : Bit(x, n) /\ b = n - 0 + 0
    BY DEF Field
  <2> QED
    BY <2>1
<1>5. Field(x, 15, 0, 0) = w
  <2>1. \A b \in 0 .. 15 : Bit(x, b) <=> b \in w
    BY <1>2 DEF x
  <2>2. \A b : b \in Field(x, 15, 0, 0) <=> b \in w
    BY <1>4, <2>1
  <2> DEFINE F == Field(x, 15, 0, 0)
  <2> HIDE DEF F
  <2> QED
    BY <2>2 DEF F
<1> QED
  BY <1>2, <1>3, <1>5 DEF x

\* The types of which the device reads and writes 16 bits.
Rvc == {"RVC_BRANCH", "RVC_JUMP", "RVC_LUI"}

\* A compressed instruction keeps what a mask lets through, its upper
\* neighbour included, and has something put into its 16 bits.
Masks(type, val, M, F) ==
  /\ Upper \subseteq M /\ F \subseteq 0 .. 15
  /\ \A w : Encode(type, w, val) = (w \cap M) \cup F
LEMMA RvcForm ==
  ASSUME NEW type \in Rvc, NEW val PROVE \E M, F : Masks(type, val, M, F)
<1>1. CASE type = "RVC_BRANCH"
  <2> DEFINE M == {0, 1, 7, 8, 9, 13, 14, 15} \cup Upper
             F == Field(val, 8, 8, 12) \cup (Field(val, 4, 3, 10) \cup (Field(val, 7, 6, 5)
                    \cup (Field(val, 2, 1, 3) \cup Field(val, 5, 5, 2))))
  <2>1. /\ Field(val, 8, 8, 12) \subseteq 0 .. 15 /\ Field(val, 4, 3, 10) \subseteq 0 .. 15
        /\ Field(val, 7, 6, 5) \subseteq 0 .. 15 /\ Field(val, 2, 1, 3) \subseteq 0 .. 15
        /\ Field(val, 5, 5, 2) \subseteq 0 .. 15
    BY FieldBits
  <2>2. \A w : Encode(type, w, val) = (w \cap M) \cup F
    BY <1>1, EncodeCases DEF RvcBranch
  <2>3. Upper \subseteq M /\ F \subseteq 0 .. 15
    BY <2>1
  <2>4. Masks(type, val, M, F)
    BY ONLY <2>2, <2>3 DEF Masks
  <2> QED
    BY <2>4
<1>2. CASE type = "RVC_JUMP"
  <2> DEFINE M == {0, 1, 13, 14, 15} \cup Upper
             F == Field(val, 11, 11, 12) \cup (Field(val, 4, 4, 11) \cup (Field(val, 9, 8, 9)
                    \cup (Field(val, 10, 10, 8) \cup (Field(val, 6, 6, 7)
                    \cup (Field(val, 7, 7, 6) \cup (Field(val, 3, 1, 3) \cup Field(val, 5, 5, 2)))))))
  <2>1. /\ Field(val, 11, 11, 12) \subseteq 0 .. 15 /\ Field(val, 4, 4, 11) \subseteq 0 .. 15
        /\ Field(val, 9, 8, 9) \subseteq 0 .. 15 /\ Field(val, 10, 10, 8) \subseteq 0 .. 15
        /\ Field(val, 6, 6, 7) \subseteq 0 .. 15 /\ Field(val, 7, 7, 6) \subseteq 0 .. 15
        /\ Field(val, 3, 1, 3) \subseteq 0 .. 15 /\ Field(val, 5, 5, 2) \subseteq 0 .. 15
    BY FieldBits
  <2>2. \A w : Encode(type, w, val) = (w \cap M) \cup F
    BY <1>2, EncodeCases DEF RvcJump
  <2>3. Upper \subseteq M /\ F \subseteq 0 .. 15
    BY <2>1
  <2>4. Masks(type, val, M, F)
    BY ONLY <2>2, <2>3 DEF Masks
  <2> QED
    BY <2>4
<1>3. CASE type = "RVC_LUI"
  <2> DEFINE x == val + 2048
  <2>1. CASE x \div 4096 = 0
    <3> DEFINE M == {0, 1} \cup (7 .. 11) \cup Upper
               F == {14}
    <3>1. \A w : Encode(type, w, val) = (w \cap M) \cup F
      BY <1>3, <2>1, EncodeCases DEF RvcLui
    <3>2. Upper \subseteq M /\ F \subseteq 0 .. 15
      OBVIOUS
    <3>3. Masks(type, val, M, F)
      BY ONLY <3>1, <3>2 DEF Masks
    <3> QED
      BY <3>3
  <2>2. CASE x \div 4096 # 0
    <3> DEFINE M == {0, 1} \cup (7 .. 11) \cup {13, 14, 15} \cup Upper
               F == Field(x, 17, 17, 12) \cup Field(x, 16, 12, 2)
    <3>1. \A w : Encode(type, w, val) = (w \cap M) \cup F
      BY <1>3, <2>2, EncodeCases DEF RvcLui
    <3>2. Field(x, 17, 17, 12) \subseteq 0 .. 15 /\ Field(x, 16, 12, 2) \subseteq 0 .. 15
      BY FieldBits
    <3>3. Upper \subseteq M /\ F \subseteq 0 .. 15
      BY <3>2
    <3>4. Masks(type, val, M, F)
      BY ONLY <3>1, <3>3 DEF Masks
    <3> QED
      BY <3>4
  <2> QED
    BY <2>1, <2>2
<1> QED
  BY <1>1, <1>2, <1>3 DEF Rvc

\* What the encoder leaves is a word.
LEMMA EncodeWithin ==
  ASSUME NEW type, NEW w \in SUBSET (0 .. 31), NEW val
  PROVE  Encode(type, w, val) \subseteq 0 .. 31
<1>1. CASE type \in Rvc
  <2>1. PICK M, F : Masks(type, val, M, F)
    BY <1>1, RvcForm
  <2>2. Encode(type, w, val) = (w \cap M) \cup F /\ F \subseteq 0 .. 15
    BY <2>1 DEF Masks
  <2>3. ASSUME NEW b \in (w \cap M) \cup F PROVE b \in 0 .. 31
    BY <2>2
  <2> QED
    BY <2>2, <2>3
<1>2. Jal(w, val) \subseteq 0 .. 31
  <2>1. /\ Field(val, 20, 20, 31) \subseteq 0 .. 31 /\ Field(val, 10, 1, 21) \subseteq 0 .. 31
        /\ Field(val, 11, 11, 20) \subseteq 0 .. 31 /\ Field(val, 19, 12, 12) \subseteq 0 .. 31
    BY FieldBits
  <2> QED
    BY <2>1 DEF Jal
<1>3. Branch(w, val) \subseteq 0 .. 31
  <2>1. /\ Field(val, 12, 12, 31) \subseteq 0 .. 31 /\ Field(val, 10, 5, 25) \subseteq 0 .. 31
        /\ Field(val, 4, 1, 8) \subseteq 0 .. 31 /\ Field(val, 11, 11, 7) \subseteq 0 .. 31
    BY FieldBits
  <2> QED
    BY <2>1 DEF Branch
<1>4. Hi20(w, val) \subseteq 0 .. 31
  <2> DEFINE x == val + 2048
  <2>1. Field(x, 31, 12, 12) \subseteq 0 .. 31
    BY FieldBits
  <2> QED
    BY <2>1 DEF Hi20
<1>5. Lo12I(w, val) \subseteq 0 .. 31 /\ Lo12S(w, val) \subseteq 0 .. 31
  <2> DEFINE x == Lo12(val)
  <2>1. /\ Field(x, 11, 0, 20) \subseteq 0 .. 31 /\ Field(x, 11, 5, 25) \subseteq 0 .. 31
        /\ Field(x, 4, 0, 7) \subseteq 0 .. 31
    BY FieldBits
  <2> HIDE DEF x
  <2> QED
    BY <2>1 DEF Lo12I, Lo12S, x
<1>6. ASSUME NEW n \in {8, 16, 32}, NEW x PROVE AddTo(w, n, x) \subseteq 0 .. 31
  <2> DEFINE F == Field(IntOf(w, n) + x, n - 1, 0, 0)
  <2>1. \A b : b \in F => b \in 0 .. 0 + (n - 1) - 0
    BY FieldBits
  <2>2. F \subseteq 0 .. 31
    <3> HIDE DEF F
    <3> QED
      BY <2>1
  <2>3. AddTo(w, n, x) = (w \ (0 .. n - 1)) \cup F
    BY DEF AddTo
  <2> HIDE DEF F
  <2> QED
    BY <2>2, <2>3
<1>7. Field(val, 31, 0, 0) \subseteq 0 .. 31
  BY FieldBits
<1>8. CASE type \in DOMAIN AddWidth
  BY <1>6, <1>8, AddEncodes DEF AddWidth
<1>9. CASE type \in DOMAIN SubWidth
  <2>1. SubWidth[type] \in {8, 16, 32} /\ Encode(type, w, val) = AddTo(w, SubWidth[type], 0 - val)
    BY <1>9, AddEncodes DEF SubWidth
  <2> QED
    BY <1>6, <2>1
<1>10. CASE type \in Hi20Types \cup Lo12ITypes \cup Lo12STypes \cup {"JAL", "BRANCH"}
  BY <1>2, <1>3, <1>4, <1>5, <1>10, EncodeCases
<1>11. CASE type \in {"32", "GOT32_PCREL"}
  <2>1. Encode(type, w, val) = Field(val, 31, 0, 0)
    BY <1>11 DEF Encode, Hi20Types, Lo12ITypes, Lo12STypes, AddWidth, SubWidth
  <2> QED
    BY <1>7, <2>1
<1>12. ASSUME type \notin Rvc, type \notin DOMAIN AddWidth, type \notin DOMAIN SubWidth,
              type \notin Hi20Types \cup Lo12ITypes \cup Lo12STypes \cup {"JAL", "BRANCH"},
              type \notin {"32", "GOT32_PCREL"}
       PROVE  Encode(type, w, val) = w
  BY <1>12 DEF Encode, Rvc
<1> QED
  BY <1>1, <1>8, <1>9, <1>10, <1>11, <1>12

\* What a compressed instruction becomes depends on its 16 bits only, and the
\* upper half of the word stays.
LEMMA RvcLocal ==
  ASSUME NEW type \in Rvc, NEW val, NEW u \in SUBSET (0 .. 31), NEW w \in SUBSET (0 .. 31),
         u \cap (0 .. 15) = w \cap (0 .. 15)
  PROVE  /\ Encode(type, u, val) \cap (0 .. 15) = Encode(type, w, val) \cap (0 .. 15)
         /\ Encode(type, w, val) \ (0 .. 15) = w \ (0 .. 15)
<1>1. PICK M, F : Masks(type, val, M, F)
  BY RvcForm
<1>2. /\ Encode(type, w, val) = (w \cap M) \cup F /\ Encode(type, u, val) = (u \cap M) \cup F
      /\ F \subseteq 0 .. 15 /\ Upper \subseteq M
  BY <1>1 DEF Masks
<1>3. ((u \cap M) \cup F) \cap (0 .. 15) = ((w \cap M) \cup F) \cap (0 .. 15)
  OBVIOUS
<1>4. \A b : b \in ((w \cap M) \cup F) \ (0 .. 15) <=> b \in w \ (0 .. 15)
  <2>1. \A b \in w : b \in 0 .. 15 \/ b \in Upper
    BY DEF Upper
  <2> QED
    BY <1>2, <2>1
<1> QED
  BY <1>2, <1>3, <1>4

=============================================================================
