---------------------------- MODULE FlashHalProofs ----------------------------
(***************************************************************************)
(* Proofs about the flash driver for every page, block and flash size and  *)
(* every place of the file system in the flash.                            *)
(***************************************************************************)
EXTENDS FlashHal, SequenceTheorems, TLAPS

\* The constants are positive numbers.
LEMMA SizesAreNat ==
  /\ PHYS_PAGE \in Nat \ {0} /\ PHYS_BLOCK \in Nat \ {0} /\ PHYS_ADDR \in Nat \ {0}
  /\ PHYS_SIZE \in Nat \ {0} /\ FlashSize \in Nat \ {0}
BY FlashAssumption

\* A range of a block of the file system lies in the file system.
LEMMA BlockInArea ==
  ASSUME NEW block \in Blocks, NEW off \in 0 .. PHYS_BLOCK - 1, NEW size \in 1 .. PHYS_BLOCK - off
  PROVE  /\ Addr(block, off) \in Nat /\ Addr(block, off) >= PHYS_ADDR
         /\ Addr(block, off) + size <= PHYS_ADDR + PHYS_SIZE
<1>1. PHYS_SIZE = block_count * PHYS_BLOCK /\ block_count \in Nat
  <2>1. PHYS_SIZE % PHYS_BLOCK = 0
    BY FlashAssumption
  <2> QED
    BY <2>1, SizesAreNat DEF block_count
<1>2. \A x, y, z \in Nat : x <= y => x * z <= y * z
  OBVIOUS
<1>3. block \in Nat /\ block + 1 <= block_count /\ (block + 1) * PHYS_BLOCK \in Nat
  BY <1>1, SizesAreNat DEF Blocks
<1>4. (block + 1) * PHYS_BLOCK <= PHYS_SIZE
  BY <1>1, <1>2, <1>3, SizesAreNat
<1>5. (block + 1) * PHYS_BLOCK = block * PHYS_BLOCK + PHYS_BLOCK /\ block * PHYS_BLOCK \in Nat
  BY <1>3, SizesAreNat
<1> QED
  BY <1>4, <1>5, SizesAreNat DEF Addr

-----------------------------------------------------------------------------
\* What is left of a transfer is the end of the range littlefs named, which lies
\* in the file system; a range of one page is transferred in one turn.
IoInv ==
  /\ io.op # "none" => io.start >= PHYS_ADDR /\ io.start + io.size <= PHYS_ADDR + PHYS_SIZE
  /\ io.left > 0 => io.start <= io.addr /\ io.addr + io.left = io.start + io.size
  /\ io.left > 0 /\ (io.op = "erase" \/ io.size <= PHYS_PAGE) => io.addr = io.start
\* A read has a buffer of its size.
DstInv == io.op = "read" => DOMAIN dst = 1 .. io.size
Inv == TypeOK /\ IoInv /\ DstInv /\ Transferred

\* One turn of a loop transfers at least one unit, at most a page and no more
\* than is left.
LEMMA TransferBounds ==
  ASSUME TypeOK, io.left > 0
  PROVE  /\ Transfer \in 1 .. PHYS_PAGE /\ Transfer <= io.left
         /\ io.left <= PHYS_PAGE => Transfer = io.left
BY SizesAreNat DEF TypeOK, Calls, Transfer

\* A transfer begins in the file system.
LEMMA BeginStep ==
  ASSUME NEW op \in {"read", "prog", "erase"}, NEW block \in Blocks,
         NEW off \in 0 .. PHYS_BLOCK - 1, NEW size \in 1 .. PHYS_BLOCK - off,
         Begin(op, block, off, size), TypeOK
  PROVE  /\ io' \in Calls /\ IoInv'
         /\ io'.op = op /\ io'.left = size /\ io'.size = size /\ flash' = flash
<1>1. Addr(block, off) \in Nat /\ Addr(block, off) >= PHYS_ADDR
      /\ Addr(block, off) + size <= PHYS_ADDR + PHYS_SIZE
  BY BlockInArea
<1>2. /\ io'.op = op /\ io'.start = Addr(block, off) /\ io'.addr = Addr(block, off)
      /\ io'.size = size /\ io'.left = size /\ flash' = flash
  BY DEF Begin
<1>3. io' \in Calls
  BY <1>1, SizesAreNat DEF Begin, Calls
<1> QED
  BY <1>1, <1>2, <1>3, SizesAreNat DEF IoInv

\* Fail keeps the record of the transfer and reports an error.
LEMMA FailStep ==
  ASSUME TypeOK, IoInv, Fail
  PROVE  /\ io' \in Calls /\ IoInv'
         /\ io'.op = io.op /\ io'.size = io.size /\ io'.start = io.start /\ io'.ret = -1
<1>1. /\ io'.op = io.op /\ io'.start = io.start /\ io'.addr = io.addr
      /\ io'.size = io.size /\ io'.left = 0 /\ io'.ret = -1
  BY DEF Fail, TypeOK, Calls
<1>2. io' \in Calls
  <2>1. 0 \in 0 .. PHYS_BLOCK /\ -1 \in {0, -1}
    BY SizesAreNat
  <2> QED
    BY <2>1 DEF Fail, TypeOK, Calls
<1> QED
  BY <1>1, <1>2 DEF IoInv

\* Advance moves on to the rest of the range; one page is done in one turn.
LEMMA AdvanceStep ==
  ASSUME TypeOK, IoInv, Advance, io.left > 0, io.op # "erase"
  PROVE  /\ io' \in Calls /\ IoInv'
         /\ io'.op = io.op /\ io'.size = io.size /\ io'.start = io.start
         /\ io.size <= PHYS_PAGE => Transfer = io.size /\ io.addr = io.start
<1>1. /\ Transfer \in Nat /\ Transfer <= io.left /\ Transfer >= 1
      /\ io.left <= PHYS_PAGE => Transfer = io.left
  BY TransferBounds, SizesAreNat
<1>2. /\ io'.op = io.op /\ io'.start = io.start /\ io'.addr = io.addr + Transfer
      /\ io'.size = io.size /\ io'.left = io.left - Transfer /\ io'.ret = io.ret
  BY DEF Advance, TypeOK, Calls
<1>3. /\ io.start \in Nat /\ io.addr \in Nat /\ io.size \in 0 .. PHYS_BLOCK
      /\ io.left \in 0 .. PHYS_BLOCK
  BY DEF TypeOK, Calls
<1>4. io' \in Calls
  <2>1. io.addr + Transfer \in Nat /\ io.left - Transfer \in 0 .. PHYS_BLOCK
    BY <1>1, <1>3, SizesAreNat
  <2> QED
    BY <2>1 DEF Advance, TypeOK, Calls
<1>5. io.size <= PHYS_PAGE => Transfer = io.size /\ io.addr = io.start
  BY <1>1, <1>3, SizesAreNat DEF IoInv
<1>6. IoInv'
  BY <1>1, <1>2, <1>3, <1>5, SizesAreNat DEF IoInv
<1> QED
  BY <1>2, <1>4, <1>5, <1>6

\* A page that is programmed, in whole or in part, holds numbers of units.
LEMMA ProgramType ==
  ASSUME TypeOK, io.left > 0, NEW n \in 0 .. Transfer
  PROVE  Program(Span(io.addr, n)) \in [0 .. FlashSize - 1 -> Units]
<1>1. Transfer \in Nat /\ Transfer <= PHYS_PAGE
  BY TransferBounds, SizesAreNat
<1>2. io.addr \in Nat /\ flash \in [0 .. FlashSize - 1 -> Units]
  BY DEF TypeOK, Calls
<1>3. ASSUME NEW a \in 0 .. FlashSize - 1
      PROVE  (IF a \in Span(io.addr, n) THEN a - io.addr + 1 ELSE flash[a]) \in Units
  BY <1>1, <1>2, SizesAreNat DEF Span, Units
<1> QED
  BY <1>2, <1>3 DEF Program

\* A flash with one unit erased is a flash.
LEMMA EraseType ==
  ASSUME TypeOK, NEW n
  PROVE  Erase(n) \in [0 .. FlashSize - 1 -> Units]
BY DEF TypeOK, Erase, Units

\* A read in progress keeps the invariant.
LEMMA ReadStep == Inv /\ fs_hal_read => Inv'
<1> SUFFICES ASSUME Inv, fs_hal_read PROVE Inv'
  OBVIOUS
<1> USE DEF Inv
<1>1. io.op = "read" /\ io.left > 0 /\ flash' = flash /\ DOMAIN dst = 1 .. io.size
  BY DEF fs_hal_read, DstInv
<1>2. dst \in Seq(Units \cup {Stale}) /\ flash \in [0 .. FlashSize - 1 -> Units] /\ io \in Calls
  BY DEF TypeOK
<1>3. CASE Fail /\ UNCHANGED dst
  <2>1. /\ io' \in Calls /\ IoInv'
        /\ io'.op = io.op /\ io'.size = io.size /\ io'.start = io.start /\ io'.ret = -1
    BY <1>3, FailStep
  <2> QED
    BY <1>1, <1>2, <1>3, <2>1 DEF TypeOK, DstInv, Transferred
<1>4. CASE /\ Advance
           /\ dst' = [n \in DOMAIN dst |->
                        IF n <= Transfer THEN flash[io.addr + n - 1] ELSE dst[n]]
  <2>1. /\ io' \in Calls /\ IoInv'
        /\ io'.op = io.op /\ io'.size = io.size /\ io'.start = io.start
        /\ io.size <= PHYS_PAGE => Transfer = io.size /\ io.addr = io.start
    BY <1>1, <1>4, AdvanceStep
  <2>2. /\ io.addr \in Nat /\ io.size \in Nat /\ io.start \in Nat /\ io.left \in Nat
        /\ Transfer \in Nat /\ Transfer <= io.left
        /\ io.addr + io.left = io.start + io.size
        /\ io.start + io.size <= FlashSize
    BY <1>1, <1>2, TransferBounds, SizesAreNat, FlashAssumption DEF Calls, IoInv
  <2>3. dst' \in Seq(Units \cup {Stale})
    <3>1. ASSUME NEW n \in 1 .. io.size
          PROVE  (IF n <= Transfer THEN flash[io.addr + n - 1] ELSE dst[n]) \in Units \cup {Stale}
      <4>1. n <= Transfer => io.addr + n - 1 \in 0 .. FlashSize - 1
        BY <2>2, SizesAreNat
      <4>2. dst[n] \in Units \cup {Stale}
        <5>1. n \in 1 .. Len(dst)
          BY <1>1, <1>2, Zenon, LenProperties
        <5> QED
          BY <1>2, <5>1
      <4> QED
        BY <1>2, <4>1, <4>2
    <3>2. dst' \in [1 .. io.size -> Units \cup {Stale}]
      BY <1>1, <1>4, <3>1
    <3> QED
      BY <2>2, <3>2
  <2>4. DstInv'
    BY <1>1, <1>4, <2>1 DEF DstInv
  <2>5. Transferred'
    <3>1. io.size <= PHYS_PAGE => dst' = [n \in 1 .. io.size |-> flash[io.start + n - 1]]
      BY <1>1, <1>4, <2>1, <2>2
    <3> QED
      BY <1>1, <2>1, <3>1 DEF Transferred
  <2> QED
    BY <1>1, <1>2, <2>1, <2>3, <2>4, <2>5 DEF TypeOK
<1> QED
  BY <1>3, <1>4 DEF fs_hal_read

\* So does a write.
LEMMA WriteStep == Inv /\ fs_hal_write => Inv'
<1> SUFFICES ASSUME Inv, fs_hal_write PROVE Inv'
  OBVIOUS
<1> USE DEF Inv
<1>1. io.op = "prog" /\ io.left > 0 /\ dst' = dst
  BY DEF fs_hal_write
<1>2. dst \in Seq(Units \cup {Stale}) /\ flash \in [0 .. FlashSize - 1 -> Units] /\ io \in Calls
  BY DEF TypeOK
<1>3. ASSUME Fail, NEW n \in 0 .. Transfer, flash' = Program(Span(io.addr, n)) PROVE Inv'
  <2>1. /\ io' \in Calls /\ IoInv'
        /\ io'.op = io.op /\ io'.size = io.size /\ io'.start = io.start /\ io'.ret = -1
    BY <1>3, FailStep
  <2>2. flash' \in [0 .. FlashSize - 1 -> Units]
    BY <1>1, <1>3, ProgramType
  <2> QED
    BY <1>1, <1>2, <2>1, <2>2 DEF TypeOK, DstInv, Transferred
<1>4. CASE Advance /\ flash' = Program(Span(io.addr, Transfer))
  <2>1. /\ io' \in Calls /\ IoInv'
        /\ io'.op = io.op /\ io'.size = io.size /\ io'.start = io.start
        /\ io.size <= PHYS_PAGE => Transfer = io.size /\ io.addr = io.start
    BY <1>1, <1>4, AdvanceStep
  <2>2. flash' \in [0 .. FlashSize - 1 -> Units]
    <3>1. Transfer \in 0 .. Transfer
      BY <1>1, TransferBounds, SizesAreNat
    <3> QED
      BY <1>1, <1>4, <3>1, ProgramType
  <2>3. io.size <= PHYS_PAGE => \A n \in 1 .. io.size : flash'[io.start + n - 1] = n
    <3>1. /\ io.size \in Nat /\ io.start \in Nat /\ io.start + io.size <= FlashSize
      BY <1>1, <1>2, SizesAreNat, FlashAssumption DEF Calls, IoInv
    <3>2. SUFFICES ASSUME io.size <= PHYS_PAGE, NEW n \in 1 .. io.size
                   PROVE  flash'[io.start + n - 1] = n
      OBVIOUS
    <3>3. /\ io.start + n - 1 \in 0 .. FlashSize - 1
          /\ io.start + n - 1 \in Span(io.start, io.size)
      BY <3>1, SizesAreNat DEF Span
    <3> DEFINE at == io.start + n - 1
    <3>4. flash'[at] = at - io.start + 1
      <4>1. flash' = [a \in 0 .. FlashSize - 1 |->
                        IF a \in Span(io.start, io.size) THEN a - io.start + 1 ELSE flash[a]]
        BY <1>2, <1>4, <2>1, <3>2 DEF Program
      <4> HIDE DEF at
      <4>2. at \in 0 .. FlashSize - 1 /\ at \in Span(io.start, io.size)
        BY <3>3 DEF at
      <4> QED
        BY <4>1, <4>2
    <3> QED
      BY <3>1, <3>4
  <2> QED
    BY <1>1, <1>2, <2>1, <2>2, <2>3 DEF TypeOK, DstInv, Transferred
<1> QED
  BY <1>3, <1>4 DEF fs_hal_write

\* And an erasure.
LEMMA EraseStep == Inv /\ fs_hal_erase => Inv'
<1> SUFFICES ASSUME Inv, fs_hal_erase PROVE Inv'
  OBVIOUS
<1> USE DEF Inv
<1>1. io.op = "erase" /\ io.left > 0 /\ dst' = dst /\ \E n : flash' = Erase(n)
  BY DEF fs_hal_erase
<1>2. dst \in Seq(Units \cup {Stale}) /\ io \in Calls
  BY DEF TypeOK
<1>3. flash' \in [0 .. FlashSize - 1 -> Units]
  BY <1>1, EraseType
<1>4. io' \in Calls /\ IoInv' /\ io'.op = "erase"
  <2>1. CASE Fail
    BY <1>1, <2>1, FailStep
  <2>2. CASE io' = [io EXCEPT !.left = 0]
    <3>1. /\ io'.op = io.op /\ io'.start = io.start /\ io'.addr = io.addr
          /\ io'.size = io.size /\ io'.left = 0
      BY <1>2, <2>2 DEF Calls
    <3>2. 0 \in 0 .. PHYS_BLOCK
      BY SizesAreNat
    <3>3. io' \in Calls
      BY <1>2, <2>2, <3>2 DEF Calls
    <3> QED
      BY <1>1, <3>1, <3>3 DEF IoInv
  <2> QED
    BY <2>1, <2>2 DEF fs_hal_erase
<1> QED
  BY <1>1, <1>2, <1>3, <1>4 DEF TypeOK, DstInv, Transferred

\* The inductive invariant holds at the start.
LEMMA InitInv == Init => Inv
<1> SUFFICES ASSUME Init PROVE Inv
  OBVIOUS
<1>1. io \in Calls /\ io.op = "none" /\ io.left = 0
  BY SizesAreNat DEF Init, NoIo, Calls
<1>2. flash \in [0 .. FlashSize - 1 -> Units] /\ dst \in Seq(Units \cup {Stale})
  BY DEF Init, Units
<1> QED
  BY <1>1, <1>2 DEF Inv, TypeOK, IoInv, DstInv, Transferred

\* Every step of the driver and every call of littlefs keeps the invariant.
LEMMA NextInv == Inv /\ [Next]_vars => Inv'
<1> SUFFICES ASSUME Inv, [Next]_vars PROVE Inv'
  OBVIOUS
<1>1. /\ TypeOK /\ dst \in Seq(Units \cup {Stale}) /\ flash \in [0 .. FlashSize - 1 -> Units]
  BY DEF Inv, TypeOK
<1>2. ASSUME NEW op \in {"read", "prog", "erase"}, NEW block \in Blocks,
             NEW off \in 0 .. PHYS_BLOCK - 1, NEW size \in 1 .. PHYS_BLOCK - off,
             Begin(op, block, off, size),
             dst' \in Seq(Units \cup {Stale}), op = "read" => DOMAIN dst' = 1 .. size
      PROVE  Inv'
  <2>1. /\ io' \in Calls /\ IoInv'
        /\ io'.op = op /\ io'.left = size /\ io'.size = size /\ flash' = flash
    BY <1>1, <1>2, BeginStep
  <2>2. size # 0
    BY SizesAreNat
  <2> QED
    BY <1>1, <1>2, <2>1, <2>2 DEF Inv, TypeOK, DstInv, Transferred
<1>3. ASSUME NEW block \in Blocks, lfs_flash_erase(block) PROVE Inv'
  <2>1. 0 \in 0 .. PHYS_BLOCK - 1 /\ PHYS_BLOCK \in 1 .. PHYS_BLOCK - 0
    BY SizesAreNat
  <2>2. Begin("erase", block, 0, PHYS_BLOCK) /\ dst' = dst
    BY <1>3 DEF lfs_flash_erase
  <2> QED
    BY <1>1, <1>2, <2>1, <2>2
<1>4. ASSUME NEW block \in Blocks, NEW off \in 0 .. PHYS_BLOCK - 1,
             NEW size \in 1 .. PHYS_BLOCK - off, lfs_flash_read(block, off, size)
      PROVE  Inv'
  <2>1. Begin("read", block, off, size) /\ dst' = [n \in 1 .. size |-> Stale]
    BY <1>4 DEF lfs_flash_read
  <2>2. size \in Nat
    BY SizesAreNat
  <2>3. dst' \in Seq(Units \cup {Stale}) /\ DOMAIN dst' = 1 .. size
    <3>1. dst' \in [1 .. size -> Units \cup {Stale}]
      BY <2>1
    <3> QED
      BY <2>2, <3>1
  <2> QED
    BY <1>2, <2>1, <2>3
<1>5. ASSUME NEW block \in Blocks, NEW off \in 0 .. PHYS_BLOCK - 1,
             NEW size \in 1 .. PHYS_BLOCK - off, lfs_flash_prog(block, off, size)
      PROVE  Inv'
  BY <1>1, <1>2, <1>5 DEF lfs_flash_prog
<1>6. CASE io' = NoIo /\ dst' = <<>> /\ UNCHANGED flash
  <2>1. io' \in Calls /\ io'.op = "none" /\ io'.left = 0
    BY <1>6, SizesAreNat DEF NoIo, Calls
  <2> QED
    BY <1>1, <1>6, <2>1 DEF Inv, TypeOK, IoInv, DstInv, Transferred
<1>7. CASE UNCHANGED vars
  BY <1>7 DEF vars, Inv, TypeOK, IoInv, DstInv, Transferred
<1> QED
  BY <1>3, <1>4, <1>5, <1>6, <1>7, ReadStep, WriteStep, EraseStep DEF Next, Return, PowerLoss

\* The inductive invariant holds always.
LEMMA Invariant == Spec => []Inv
BY InitInv, NextInv, PTL DEF Spec

\* Type correctness of the driver.
THEOREM TypeCorrect == Spec => []TypeOK
BY Invariant, PTL DEF Inv

\* A call of fs_hal_read or fs_hal_write that succeeds has transferred what it
\* was asked to, for every range of up to one page.
THEOREM TransfersWhatWasAsked == Spec => []Transferred
BY Invariant, PTL DEF Inv

\* A step that changes the flash changes only units of the range in io.
LEMMA ConfinedStep ==
  ASSUME Inv, [Next]_vars
  PROVE  [\A a \in DOMAIN flash : flash'[a] # flash[a] => a \in Span(io.start, io.size)]_vars
<1> SUFFICES ASSUME NEW a \in DOMAIN flash, flash'[a] # flash[a]
             PROVE  a \in Span(io.start, io.size)
  OBVIOUS
<1>1. /\ TypeOK /\ IoInv /\ io \in Calls /\ DOMAIN flash = 0 .. FlashSize - 1 /\ a \in Nat
      /\ io.start \in Nat /\ io.addr \in Nat /\ io.size \in Nat /\ io.left \in Nat
  BY SizesAreNat DEF Inv, TypeOK, Calls
<1>2. CASE fs_hal_write
  <2>1. PICK n \in 0 .. Transfer : flash' = Program(Span(io.addr, n))
    BY <1>1, <1>2, TransferBounds, SizesAreNat DEF fs_hal_write
  <2>2. a \in Span(io.addr, n)
    BY <2>1 DEF Program
  <2>3. /\ Transfer \in Nat /\ Transfer <= io.left
        /\ io.start <= io.addr /\ io.addr + io.left = io.start + io.size
    BY <1>1, <1>2, TransferBounds, SizesAreNat DEF fs_hal_write, IoInv
  <2> QED
    BY <1>1, <2>2, <2>3 DEF Span
<1>3. CASE fs_hal_erase
  <2>1. PICK n \in 0 .. io.size : flash' = Erase(n)
    BY <1>1, <1>3 DEF fs_hal_erase
  <2>2. a \in Span(io.addr, n) /\ io.addr = io.start
    BY <1>1, <1>3, <2>1 DEF Erase, fs_hal_erase, IoInv
  <2> QED
    BY <1>1, <2>2 DEF Span
<1>4. CASE UNCHANGED flash
  BY <1>4
<1> QED
  BY <1>2, <1>3, <1>4 DEF Next, vars, lfs_flash_erase, lfs_flash_read, lfs_flash_prog, Begin,
     fs_hal_read, Return, PowerLoss

\* Whatever fails and wherever the power is lost, littlefs cannot touch the
\* flash outside the file system, nor outside the range it named.
THEOREM DriverIsConfined == Spec => Confined
<1>1. Inv => (io.op # "none" => Span(io.start, io.size) \subseteq FsArea)
  <2> SUFFICES ASSUME Inv, io.op # "none", NEW a \in Span(io.start, io.size) PROVE a \in FsArea
    OBVIOUS
  <2>1. io.start \in Nat /\ io.size \in Nat /\ IoInv
    BY SizesAreNat DEF Inv, TypeOK, Calls
  <2> QED
    BY <2>1, SizesAreNat DEF IoInv, Span, FsArea
<1> QED
  BY <1>1, Invariant, ConfinedStep, PTL DEF Spec, Confined
=============================================================================
