------------------------------- MODULE FlashHal -------------------------------
(***************************************************************************)
(* The flash driver that module/fs.c gives littlefs: lfs_flash_read,       *)
(* lfs_flash_prog and lfs_flash_erase over the window [PHYS_BEGIN,         *)
(* PHYS_END) of a chip whose other parts hold the firmware, its partitions *)
(* and data.  The unit is read_size = prog_size = 64 bytes, a multiple of  *)
(* 4, so that length_aligned is length.  Every turn of a loop is one call  *)
(* to esp_flash, which may fail; the chip may restart in between.          *)
(***************************************************************************)
EXTENDS Integers, Sequences, FiniteSets

CONSTANTS
  PHYS_PAGE,    \* units that one call to esp_flash transfers
  PHYS_BLOCK,   \* units that are erased together
  PHYS_ADDR,    \* first unit of the file system in the flash
  PHYS_SIZE,    \* units of the file system
  FlashSize     \* units of the chip

ASSUME FlashAssumption ==
  /\ {PHYS_PAGE, PHYS_BLOCK, PHYS_ADDR, PHYS_SIZE, FlashSize} \subseteq Nat \ {0}
  /\ PHYS_ADDR % PHYS_BLOCK = 0 /\ PHYS_SIZE % PHYS_BLOCK = 0
  /\ PHYS_ADDR + PHYS_SIZE <= FlashSize

VARIABLES
  flash,   \* Erased, Foreign, or the number of a unit in the caller's buffer
  io,      \* the call that littlefs is in
  dst      \* the caller's buffer of a read

vars == <<flash, io, dst>>

Erased == 0
Foreign == -1
Stale == -2

block_count == PHYS_SIZE \div PHYS_BLOCK
Blocks == 0 .. block_count - 1
NoIo == [op |-> "none", start |-> 0, addr |-> 0, size |-> 0, left |-> 0, ret |-> 0]
Span(a, n) == a .. a + n - 1
FsArea == Span(PHYS_ADDR, PHYS_SIZE)

\* Mutant: PHYS_ADDR is left out.
AddrOfBlock(block, off) == block * PHYS_BLOCK + off
Addr(block, off) == PHYS_ADDR + block * PHYS_BLOCK + off

Begin(op, block, off, size) ==
  /\ io.op = "none"
  /\ io' = [op |-> op, start |-> Addr(block, off), addr |-> Addr(block, off),
            size |-> size, left |-> size, ret |-> 0]
  /\ UNCHANGED flash

lfs_flash_read(block, off, size) ==
  Begin("read", block, off, size) /\ dst' = [n \in 1 .. size |-> Stale]
\* littlefs programs what it has erased.
lfs_flash_prog(block, off, size) ==
  /\ \A a \in Span(Addr(block, off), size) : flash[a] = Erased
  /\ Begin("prog", block, off, size) /\ UNCHANGED dst
lfs_flash_erase(block) == Begin("erase", block, 0, PHYS_BLOCK) /\ UNCHANGED dst

\* Mutant: always a whole page.
WholePage == PHYS_PAGE
Transfer == IF io.left < PHYS_PAGE THEN io.left ELSE PHYS_PAGE

\* Mutant: the result of esp_flash is not looked at.
FailUnseen == io' = [io EXCEPT !.left = 0]
Fail == io' = [io EXCEPT !.left = 0, !.ret = -1]
Advance == io' = [io EXCEPT !.addr = @ + Transfer, !.left = @ - Transfer]

\* dst does not move on with addr.
fs_hal_read ==
  /\ io.op = "read" /\ io.left > 0 /\ UNCHANGED flash
  /\ \/ /\ Advance
        /\ dst' = [n \in DOMAIN dst |-> IF n <= Transfer THEN flash[io.addr + n - 1] ELSE dst[n]]
     \/ Fail /\ UNCHANGED dst

\* Nor does src.  A call that fails has programmed any part of the page.
Program(units) ==
  [a \in DOMAIN flash |-> IF a \in units THEN a - io.addr + 1 ELSE flash[a]]
fs_hal_write ==
  /\ io.op = "prog" /\ io.left > 0 /\ UNCHANGED dst
  /\ \/ Advance /\ flash' = Program(Span(io.addr, Transfer))
     \/ Fail /\ \E n \in 0 .. Transfer : flash' = Program(Span(io.addr, n))

Erase(n) == [a \in DOMAIN flash |-> IF a \in Span(io.addr, n) THEN Erased ELSE flash[a]]
fs_hal_erase ==
  /\ io.op = "erase" /\ io.left > 0 /\ UNCHANGED dst
  /\ \/ flash' = Erase(io.size) /\ io' = [io EXCEPT !.left = 0]
     \/ Fail /\ \E n \in 0 .. io.size : flash' = Erase(n)

Return == io.op # "none" /\ io.left = 0 /\ io' = NoIo /\ dst' = <<>> /\ UNCHANGED flash

\* The power fails: what was programmed or erased stays.
PowerLoss == io' = NoIo /\ dst' = <<>> /\ UNCHANGED flash

Init == /\ flash = [a \in 0 .. FlashSize - 1 |-> Foreign] /\ io = NoIo /\ dst = <<>>

Next ==
  \/ \E block \in Blocks :
       \/ lfs_flash_erase(block)
       \/ \E off \in 0 .. PHYS_BLOCK - 1 : \E size \in 1 .. PHYS_BLOCK - off :
            lfs_flash_read(block, off, size) \/ lfs_flash_prog(block, off, size)
  \/ fs_hal_read \/ fs_hal_write \/ fs_hal_erase \/ Return \/ PowerLoss

Spec == Init /\ [][Next]_vars

-----------------------------------------------------------------------------
(* Properties.                                                             *)

Units == {Erased, Foreign} \cup 1 .. PHYS_PAGE
Calls == [op : {"none", "read", "prog", "erase"}, start : Nat, addr : Nat,
          size : 0 .. PHYS_BLOCK, left : 0 .. PHYS_BLOCK, ret : {0, -1}]

\* Every variable keeps its type.
TypeOK ==
  /\ flash \in [0 .. FlashSize - 1 -> Units] /\ dst \in Seq(Units \cup {Stale})
  /\ io \in Calls

\* A call that reports success has filled the caller's buffer with what the
\* flash holds, or put the caller's bytes at their place, if they fit one page;
\* a longer read leaves its last page at the start of the buffer, a longer
\* write repeats its first page.
Transferred ==
  io.left = 0 /\ io.ret = 0 /\ io.size <= PHYS_PAGE =>
    /\ io.op = "read" => dst = [n \in 1 .. io.size |-> flash[io.start + n - 1]]
    /\ io.op = "prog" => \A n \in 1 .. io.size : flash[io.start + n - 1] = n

\* Whatever fails half-way, no step changes a unit outside the range that
\* littlefs named, and so none of the firmware, the partition table or NVS,
\* which share the flash; it names only units of the file system.
Confined ==
  /\ [][\A a \in DOMAIN flash : flash'[a] # flash[a] => a \in Span(io.start, io.size)]_vars
  /\ [](io.op # "none" => Span(io.start, io.size) \subseteq FsArea)

=============================================================================
