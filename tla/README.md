# Verification of esp32c3-elf

esp32c3-elf is firmware for the ESP32-C3: at boot it mounts a littlefs file
system, loads a relocatable program `main.elf` from it into RAM, relocates it,
runs it and restarts when it returns. A tool on the host prepares such programs.
This directory holds TLA+ models of the parts that carry the logic, the TLC runs
that check them, and TLAPS proofs of the results that matter most.

## 1. Inventory

| Part | Source | State | Operations | Module |
|---|---|---|---|---|
| ELF loader | `elf_loader/src/esp_elf.c`, `esp_elf_adapter.c` | `esp_elf_t`: two heap blocks, five section records, entry | init, relocate, map_sym, request, deinit | `ElfLoader` |
| Symbol lookup | `esp_elf_symbol.c`, `module/symbols.c` | three constant tables | `elf_find_sym` | `ElfLoader` |
| RISC-V relocation | `arch/esp_elf_riscv.c` | the loaded code and data | `esp_elf_arch_relocate` | `RiscvEncode`, `RiscvReloc` |
| Boot task | `app_main.c` | the file, the object on the stack | `app_main`, `elf_read` | `ElfLoader`, `BootContract` |
| Console | `module/patch/vfs.c` | mutex, pin, speed and FIFO of UART0 | `vfs_init`, write | `Console` |
| Host tool | `build/relocation.c` | the file in memory | `main` | `HostRelocation` |
| File system | `module/fs.c` | `lfs_t`, the flash below it, open files and directories | mount, open, read, gets, write, remove, ... | `FlashHal`, `FileSystem`, `FsGets` |
| stdio wrappers | `module/patch/file.c` | the FILE* handles of the tasks | `__wrap_f*`, `stat` | `StdioFiles`, `FsGets` |
| Key store | `module/patch/homekit.c` | files below `hap/` | get, set, delete, erase | `KeyStore`, `KeyValue` |
| NVS stubs, MMU, Xtensa, dump functions | | | | not modelled, section 8 |

Who calls whom: `app_main` calls `vfs_init`, `fs_init`, then the loader; the
loader reads the file through a callback (`elf_read`, stdio wrapper, `fs.c`,
littlefs) and calls `esp_elf_arch_relocate` for each entry, which writes into
the loaded image. The loaded application calls back into the firmware through
the addresses `elf_find_sym` gave it, prints to the console, uses files through
the stdio wrappers and the key store through the HomeKit library; both are calls
into `fs.c`, `fs.c` calls littlefs, and littlefs calls the flash driver of `fs.c`
back. Any task may do so. Console writes come from any task; they share UART0 with the application.
The host tool and the loader meet in the file: the tool applies what it can, the
loader the rest.

What is hard: failure at any read or allocation in the middle of a load (no
clean-up in `esp_elf_relocate`, all of it in `esp_elf_deinit`); addresses and
sizes in 32 bits; immediates scattered over instructions; a UART reconfigured
under the feet of other writers, with busy waits, a fixed delay and a speed
sampled before the mutex is taken; a directory emptied while it is iterated over
and others write into it; keys that are created, written and committed in
separate steps with the chip restarting in between; a table compacted over itself, by a tool whose
arithmetic must agree with the device's. `PROJECT.json` lists the hazards line by
line with the properties that watch them.

What makes each part correct:

* loader: every block and the file released whatever fails; sections inside the
  blocks and apart; the application started only on a completely loaded and
  correctly relocated image; no write outside the blocks; every boot ends;
* encoder: what the processor decodes is the address meant, and nothing else in
  the word changes;
* console: one redirection at a time, console text whole and only on the console
  pin, the application's bytes only on its pin, the UART as it was afterwards, no
  FIFO overrun, every write returns;
* file system: no handle lost or freed while littlefs has it, a removed tree gone
  and nothing of it brought back by a late commit, every removal ends, every
  line of a file read once and whole, the flash outside the file system untouched;
* key store: every call takes effect at one moment while it runs, whatever other
  tasks do and wherever the chip restarts;
* host tool: the device loads the same image from the output as from the input,
  also when the tool is run twice.

## 2. Modules

### `ElfLoader` - boot task and loader

One action for each stage of `app_main` and `esp_elf_relocate`: `Boot`, `Open`,
`ReadHeader`, `ScanSection` (one header), `AllocText`, `AllocData`, `LoadText`,
`LoadData(s)` (.data, .rodata, .data.rel.ro, .bss in this order), `SetEntry`,
`RelaSection` (one header), `Relocate` (one entry), `RelocDone`, `RelaDone`,
`Close`, `EntryReturns`, `Deinit`, `Restart`. Each read may fail, each allocation
may return NULL: every early return is a disjunct. `heap` is the set of live
blocks, `sec`, `ptext`, `pdata`, `entry` are the fields of `esp_elf_t` (anything at
all before `esp_elf_init`), `mem` says what each section's memory was filled
with, `patches` is the sequence of writes `esp_elf_arch_relocate` made: site and
value.

Abstractions: a name is the sequence of its dot-separated parts, which is all
that `strcmp` and `strstr` against the five section names tell apart in names made
of whole parts; a symbol or string table is given with the image, one for all
relocation sections; symbol indices of entries lie in the table
(`ImagesAssumption`). A string read never reports failure: `fs_gets` returns its
buffer even when `lfs_file_read` failed (and then stores a 0 in front of the
buffer, which is not modelled), so `ReadName` may yield any of `Names` instead.
The second search after a missing symbol (esp_elf.c:311-323) only logs.
Configurations with PSRAM, MMU remapping or a cache offset are not built here.

`BootContract` is the abstract specification of a boot, with four variables: the
phase, what is held on the heap, whether the file is open, and what the image is.
A boot loads in any number of steps, runs the application only when loading
succeeded and the file is closed, leaves the image alone while the application
runs, and holds nothing when it restarts. `ElfLoader` implements it
(`ImplementsContract`).

### `RiscvEncode`, `RiscvReloc` - instruction encoding

A word is the set of the positions of its 1 bits; masks are intersections, `|=`
is union, `extractBits(v, b, e) << n` is `Field(v, b, e, n)`. There is one operator
for each case of the switch. An address or a value is the integer that a
`uint32_t` stands for in two's complement; bits above 31 of a sum are never
stored. `Pow2` ends at 2^30, as 2^31 is beyond the integers of TLC, so that a
shift by 31 places is one by 30 and one more. `RiscvReloc` applies a list of
entries to two adjacent words (`ProgramsAssumption`: a call is for the first of
them), and its properties read them back with a table of the immediate formats
that is written from the instruction set and not from the code. `Near` keeps the
values of two halves in a signed word, also when they are rounded.

### `Console` - console output

One action for each access to something shared: read `g_mutex`, sample the
speed, take the mutex, wait for the FIFO, delay, route, set speed, reset the FIFO,
wait for two places, push one byte, and back. External parts, modelled from how
`vfs.c` uses them: the transmitter (`Shift` moves a byte from the FIFO to the
shift register with the pin and speed of that moment, then to the wire, noting
whether they changed meanwhile), the mutex, a full FIFO (drops the byte), and the
application (`AppSetup` takes UART0 for a device of its own, once, while no write
is in progress; `AppSend` sends a byte while no write is sending). The delay of 1 ms outlasts a
character unless the speed is one of `SlowBauds`. `raced` and the byte field `red`
are history variables for the properties. A write before `vfs_init`, or with
`uart0_tx` on the console pin, takes no mutex.

The speed of the application's device goes with the pin it takes (`AppBaud`).

### `FlashHal` - the flash driver below littlefs

One action for each call of littlefs (`lfs_flash_read`, `_prog`, `_erase`), for each
turn of the loops in `fs_hal_read`, `fs_hal_write` and `fs_hal_erase`, for the return
and for a loss of power at any moment. `io` holds the locals of the loop, `flash` the
chip, with units of other owners around the file system. A unit of the model is
64 bytes, what littlefs reads and programs at least. A turn that fails may have
programmed or erased any part of its page or block.

### `FileSystem`, `StdioFiles` - files and directories

`FileSystem` is `fs.c` over an abstraction of littlefs, which is external: `disk` is
the committed tree, an open file is a copy of the version it opened, `fs_close`
commits the copy in one step unless a write failed or the file was removed
meanwhile. Every call into littlefs may fail. Directory iterators (`lfs_dir_read`)
meet every entry that is there from open to end; whether they meet one created
later is left open. `fs_remove` is recursive in C; here each task has a stack of
frames (`frames`), and each call into littlefs is a step (`RemoveEnter`,
`RemoveRead`, `RemoveLast`). `fs_init` restarts the chip and finds either the tree as
it was committed or, when the mount failed, a formatted one. `rm` is a history of the
last removal of each task, forgotten when a call in it failed or somebody created
an entry on its path. `FsSpec` is the file system as a specification of its own, with
any calls by any task (`FsNext`): `StdioFiles` and `KeyStore` use it in different
ways, and what is proved of `FsSpec` holds for both.

`StdioFiles` lets tasks of an application call it: `fopen`, `fclose`, `fread`,
`fwrite`, `fseek`, `mkdir`, `remove`, `opendir`, `readdir`, `closedir`, and the chip
restart at any moment. `held` are the handles each task has.

### `FsGets` - reading lines

`fs_gets` and `fs_getc` on one file: the window that is read, the terminator found
in it, the LF that is skipped behind a CR, and the seek that gives back the rest.
The reference is the lines of the file by their line ends (`Ends`, `LineOf`); what was
returned is compared with it by the positions of its bytes.

### `KeyStore`, `KeyValue` - the HomeKit key store

`KeyStore` extends `FileSystem`; each `hap_keystore` function is the sequence of its
calls into `fs.c`, one step each: get opens, reads and closes, set makes two
directories, opens, writes and closes, the deletions are one `fs_remove`.
Return values are ignored exactly where the code ignores them. `KeyValue` is what a
caller may rely on: a store, one request for each task, and the moments `Put`, `Look`
and `Drop` at which requests take effect. `KeyStore` implements it
(`ImplementsKeyValue`); `done`, `fault`, `gone` and `res` in its `call` are history
variables that the refinement mapping needs.

### `HostRelocation` - the host tool

`Scan` (one header), `Scanned`, `NextLink`, `OneEntry`, `EndLink`, `Finish`, and
`Rerun` on the output. Tables are sequences of entries at file offsets, code is a
map of halfwords, as `_get_val` and `_set_val` access it. The reference is the
device: `LoadedSection` applies `RiscvEncode` to every entry of a file at given load
addresses, and `SameLoadedImage` compares input and output, for each section that
is as an assembler leaves it (`Assembled`). Files whose tables are
as long as their headers say, where nothing but a table starts at a table's
offset, and where entries refer to symbols of the file (`FilesAssumption`); load
addresses that are numbers (`BasesAssumption`); `fopen` failures end the tool
before it changes anything.

### Configurations and proofs

`MC*.tla` give the constants; `ElfLoaderProofs`, `RiscvRelocProofs`,
`ConsoleProofs`, `FlashHalProofs`, `FileSystemProofs`, `StdioFilesProofs`,
`KeyStoreProofs` and `HostRelocationProofs` hold the theorems; `StdioFilesProofs`,
which is also about `FsGets`, and `KeyStoreProofs` rest on `FileSystemProofs`,
`HostRelocationProofs` on `RiscvRelocProofs`.
Operators marked "Mutant" are faulty variants of the definition below them; no
specification uses them. They show that a property can fail: put in place of the
definition, each makes TLC find the violation that `PROJECT.json` names.

## 3. Runs

| Run | Checks | States |
|---|---|---|
| `elf_loader` | `TypeOK OwnedHeap Released Layout RunsRelocatedImage PatchesInBlocks MapSymSound`, `Progress`, `ImplementsContract` | 15 thousand |
| `console` | `TypeOK Exclusion FifoRoom ConsoleBytesOnConsole AppBytesOnApp Delivered UartRestored`, `WritesReturn` | 1.2 million |
| `stdio` | `HandlesOwned`, `AppendKeeps`, `RemoveReturns` | 750 thousand |
| `key_store` | `TreeOK RemoveComplete FilesOfCalls`, `ImplementsKeyValue` | 370 thousand up to symmetry |
| `fs_gets` | `TextKept LinesAsWritten ReadsAdvance` | 78 thousand |
| `flash_hal` | `TypeOK Transferred`, `Confined` | 610 thousand |
| `riscv_reloc` | `JumpsReachTarget OnlyImmediateChanges CallsReachSymbol HalvesMakeAddress CompressedLui DifferenceOfSymbols` | 141 thousand |
| `host_relocation` | `TypeOK SameLoadedImage KeepsWhatDeviceNeeds`, `SecondRunChangesNothing` | 2 thousand |
| `elf_loader_unsupported`, `_read_error`, `_drlro`, `_addend` | one property each, violated: section 6 | |

Run one with `tlc -config ElfLoader.cfg MCElfLoader`; the longest take about two
minutes.

Bounds and why they suffice:

* loader: `Word = 64` makes sums and alignment wrap with sections of a few bytes;
  three heap addresses give both orders of the two blocks and allocations that
  do not fit; the images have every section, every kind of symbol the switch
  tells apart, every way to be refused, and the two wraps;
  `MaxNameErrors = 1`: one failed string read at any place;
* console: two writers are what the locks of `stdout` and `stderr` leave; two
  writes each, two bytes of the application and a newline as text (two bytes
  on the wire) give writes before and after the application takes the UART, a
  race on the speed and a byte in every phase; `FifoLen` 3 makes the FIFO full; the
  device on pin 7 has a speed that the delay covers, the one on pin 8 has not;
* stdio: a file or directory with one entry below it, two tasks and two handles:
  two versions of one file, a file removed while it is open, a directory
  re-filled while it is removed. One task removes; removals of several tasks
  against each other are in `key_store`. `MaxLen` 1: one byte tells a kept, an
  overwritten and a lost version apart;
* key store: two keys in one name space are enough for an entry to be passed
  over, two values for a stale one; the three levels `hap`, name space and key
  make `fs_remove` recurse twice. Tasks, handles and values are symmetric, and
  all properties of the run are safety properties;
* fs_gets: in five bytes a line end of each kind meets the end of the window and
  of the file; buffers of 2, 3, 5 and 8 bytes, from one that holds a single
  character to one that holds the whole file;
* flash_hal: blocks of four units and pages of two give transfers of one and two
  turns, with and without a rest; a foreign block on either side;
* encoder: distances on both sides of each format's limits, from two load
  addresses, on words of zeros, of ones and mixed;
* host tool: one instruction of every format it patches, displacements around
  the rounding of `_calc_imm` (2047, 2048, 6143, 6144) and the limits of the short
  formats, tables in both orders, an empty table, a table for a section that
  does not exist, two tables at one offset.

`CHECK_DEADLOCK FALSE` in all runs but `flash_hal`: the boot task may end (no flash size) and an
application need not return; console calls and bytes are bounded; files end; the tool and
the relocation lists end.

Fairness: `ElfLoader` assumes weak fairness of everything but `EntryReturns`: the
boot task is a task like any other and gets its turn, while nothing obliges an
application to return. `Console` assumes weak fairness of the transmitter, which is
hardware, and of each write: a FreeRTOS task that is ready runs, and the holder
of the mutex inherits the priority of those that wait. `StdioFiles` assumes it of a task inside `fs_remove`, which never waits for
anybody; the removal still ends only because a directory cannot grow new names
behind the iterator for ever (`Names` is finite). With two writers, weak
fairness is enough for the mutex because the calls are bounded; a queue of
waiters ordered by priority, as FreeRTOS has, could starve a low one for as long
as higher ones keep writing.

## 4. Exceptions that the properties state

They are conditions of the properties because the code really fails there:

* `Layout`, `PatchesInBlocks`, `RunsRelocatedImage`: `SumsFit`. When the sum of
  the four data sizes wraps in the `uint32_t` (esp_elf.c:164) the block is too
  small for what is loaded. No image of a linker that fits in the flash does this.
* `UartRestored`, `AppBytesOnApp`: the variable `raced`. The speed is sampled
  before the mutex is taken (vfs.c:26). A writer that samples while another one
  has the UART at 115200 gives the application 115200 back, for good.
* `AppBytesOnApp`: `SlowBauds`. Below 10000 baud the application's last character
  takes longer than the delay and is cut off.
* `Transferred`: ranges of up to one page. `dst` and `src` do not move on with `addr`
  (fs.c:29, 43), so a longer read leaves its last 256 bytes at the start of the
  buffer and a longer write repeats its first 256. littlefs programs its cache
  of 64 bytes; it reads more at once only for callers that ask for much.
* `LinesAsWritten`: room for the longest line and CR LF. When the CR is the last
  byte that fits, the LF behind it makes an empty line of its own (fs.c:184).
* `AppendKeeps`: no other handle has committed in between; the later commit wins
  and the text of the earlier one is lost.
* `RemoveComplete`: no call of the removal failed and nobody created entries on
  its path.
* `KeyValue`: `Blank` (a set first creates its key with an empty value, and a
  restart may leave it so), `Fault` (after a flash error the answer of a get or
  a set proves nothing, since homekit.c:20, 40 and 41 do not look at results),
  `Restart` (a failed mount formats: every key is gone).
* `FifoRoom`: at most two writers outside the mutex.
* `KeepsWhatDeviceNeeds`: `NamesApart`. A table is for the last section with the
  name it gives; of two sections with one name the other is never patched.
* `CallsReachSymbol`, `HalvesMakeAddress`: `Near`. In the last 2 KB below 2^31 the
  rounded upper half wraps; the pair is then right modulo 2^32 only.
* `SameLoadedImage`, `KeepsWhatDeviceNeeds`: `TablesApart`. The tool finds tables
  by offset and notes their ends before it compacts any, so an empty table in
  front of another one at the same offset takes its entries over. `CallsPlain`:
  the tool adds the addend of a call, the device drops it (section 6).
* `SameLoadedImage`: `NamesApart` and `Assembled`. The tool adds a displacement to the
  immediate that is there, the device replaces it, so an entry that the tool
  applies must find no immediate and share its place with no other entry, as
  assemblers leave them; entries lie inside their section. `t # 1`: section 0
  of an ELF file is the null section.
* `RunsRelocatedImage`: `SupportedImage`, which excludes the cases of section 6 and
  symbols of sections that have only the name of one the loader loads, not its
  type and flags: the loader looks for the section of a symbol by name alone
  (esp_elf.c:338).

## 5. What is proved

For every value of the constants that satisfies the assumptions named in the
modules: a word size that is a multiple of 4 and heap addresses that are
non-zero words; images, files and relocation programs well formed; a FIFO of at
least two, a console speed that is not slow; a flash of whole blocks; names that
are positive numbers, a depth of at least three for the keys.

**Loader** (`ElfLoaderProofs`)

| Theorem | Result | Inductive invariant |
|---|---|---|
| `TypeCorrect` | `[]TypeOK` | itself; `ModWord`, `AlignWord`, `FoundSymbol`, `TargetIsSection` type the operators |
| `HeapIsOwned` | `[]OwnedHeap` | `Ownership`: also that nothing is held before the allocations, so that the new block is the only change |
| `AllReleased` | `[]Released` | `Ownership` and `FileInv`: the file is open only between fopen and fclose |
| `SectionsLaidOut` | `[]Layout` | `BlocksInv` (blocks apart, inside the address space), `PlacedInv` (the local pointer is the block plus the sizes of the sections already placed) |
| `PatchesStayInBlocks` | `[]PatchesInBlocks` | with these, `CompleteInv` (what has a size is loaded before the relocation), `ScanInv` (the section table says what the headers say) and `RelaInv` (the relocation works on the section its header names). That `.rela` and a name pick that section is proved of the `strstr` chain (`TargetOfName`) |
| `RunsOnlyRelocated` | `[]RunsRelocatedImage` | the same, `FilledInv` (what the memory of a section was filled with) and `AppliedInv`: the writes so far are those of the entries behind the relocation, each at its rank in file order and with what it asks for. `RelocateValue`: what one entry writes; `OneMore`: the entry at hand has the next rank |
| `MapSymIsSound` | `[]MapSymSound` | the same; `SearchFinds` |
| `BootTaskKeepsContract` | `ImplementsContract` | `BootInv` (the file is open while it is read, no path leads to the application without a block for .text), `Ownership`, `FileInv`; each action maps to one abstract step or to none |

**Encoder** (`RiscvRelocProofs`), for every word, value and load address

| Theorem | Result | Argument |
|---|---|---|
| `ImmediateInPlace` | each case of the switch puts each bit of the value where the format has it and keeps the other bits | one lemma for each instruction format, from `FieldBits` |
| `ChangesOnlyImmediate` | `[]OnlyImmediateChanges` | `FirstInv`: what one entry made of the words; `ImmediateInPlace` |
| `JumpsArrive` | `[]JumpsReachTarget` | `FirstInv`, `ReadsBack` |
| `CallsArrive`, `HalvesAdd` | `[]CallsReachSymbol`, `[]HalvesMakeAddress` | `FirstInv`, `SecondInv` (two entries in their order); `TwoHalves`: the rounded upper half and the rest of a value make the value |
| `LuiLoads` | `[]CompressedLui` | `FirstInv`; the zero case by the bits of 0 |
| `DifferencesRemain` | `[]DifferenceOfSymbols` | `SecondInv`; `AddedTwice`: a carry lost by the first addition does not matter to the second |

What the bits of a number add up to (`BitsAddUp`, `BitsMakeNumber`) is shown by an
induction up to 31, with `Counting` as the principle: a set of numbers that has 0,
and with each the next, has all. `ReadsBack` is its result for the processor.
The host tool's proof rests on four more: what the encoder leaves is a word
(`EncodeWithin`), a compressed instruction is a mask of its old bits and the bits of the
value (`RvcForm`) and depends on its 16 bits only (`RvcLocal`), and numbers without a common
bit add without a carry (`SumDisjoint`).

**Console** (`ConsoleProofs`), for any number of writers and any FIFO length

| Theorem | Result | Inductive invariant |
|---|---|---|
| `TypeCorrect` | `[]TypeOK` | itself |
| `MutualExclusion` | `[]Exclusion` | `Locked`: whoever has the UART owns the mutex |
| `RoomForTwo` | `[]FifoRoom`, for two writers | itself |
| `UartIsRestored` | `[]UartRestored` | `PinInv`, `SpeedInv`: pin and speed in each phase of the writer that has the UART; the sampled speed is the application's unless `raced` |
| `ConsoleBytesStayOnConsole` | `[]ConsoleBytesOnConsole` | `RedInv`: a redirected byte in the FIFO, or being shifted out, has a writer that has not yet stopped waiting for it |
| `AppBytesStayOnApp` | `[]AppBytesOnApp` | `AppInv`: a byte of the application in the FIFO keeps the writer from going on to the delay, one being shifted out keeps it from routing the pin; `Sender`, `Busy`, `TwoSpeeds` |
| `WritesAreDelivered` | `[]Delivered` | `SentInv`: each byte a write has pushed is on the `Line` (wire, shifter, FIFO), with as many redirected bytes behind it as the write has pushed since; `AllLock`, `AtStart` (who is behind in its text owns the mutex, who has not begun has pushed nothing), `Room` |

**Flash driver** (`FlashHalProofs`)

| Theorem | Result | Inductive invariant |
|---|---|---|
| `TypeCorrect` | `[]TypeOK` | itself, with `IoInv` |
| `TransfersWhatWasAsked` | `[]Transferred` | `IoInv`: what is left is the end of the range littlefs named, and a range of one page is done in one turn; `DstInv`: the buffer has the size asked for |
| `DriverIsConfined` | `Confined`: no step changes the flash outside the named range, which lies in the file system | `IoInv`, and `BlockInArea` for the addresses of blocks |

**Files** (`FileSystemProofs` for `FsSpec`, `StdioFilesProofs` for `StdioFiles` and `FsGets`)

| Theorem | Result | Inductive invariant |
|---|---|---|
| `FsTypeCorrect` | `[]FsTypeOK` | itself |
| `TreeStaysWhole` | `[]TreeOK` | itself: only an empty directory is removed, only in a directory is something created |
| `RemovalIsComplete` | `[]RemoveComplete` | `AboveOK` (nothing is there without what is above it), `ChainOK` (each activation is for an entry of the one below), `RemoveOK`: what is left of the tree is ahead of an iterator of the stack |
| `StdioFilesProofs!UsesFileSystem` | `Spec => FsSpec` | each wrapper is a step of the file system, or none |
| `HandlesAreOwned` | `[]HandlesOwned` | `HeapOK` (a block is live as long as littlefs has it open), `OwnersOK` (the handles of the tasks are disjoint and are the heap) |
| `AppendingKeeps` | `AppendKeeps` | `AppendOK`: what is open for appending begins with the version it opened |
| `ReadingAdvances` | `[]ReadsAdvance` | itself, with `GetsTypeOK`: each call passes at least one byte and returns at most one line |
| `GetsKeepText` | `[]TextKept` | itself: a call passes a run of text and then none (`Moves`) |
| `GetsReturnLines` | `[]LinesAsWritten` | `AtLineEnd`: a reader with room for every line stands behind a line end; a full buffer would mean a line and CR LF that do not fit (`GetsOneLine`) |

**Key store** (`KeyStoreProofs`)

| Theorem | Result | Inductive invariant |
|---|---|---|
| `UsesFileSystem` | `Spec => FsSpec` | `FsInv`, `CallsInv` |
| `TreeStaysWholeBelow`, `RemovalsAreComplete` | `[]TreeOK`, `[]RemoveComplete` | from `FileSystemProofs` |
| `FilesAreOfCalls` | `[]FilesOfCalls` | `CallsInv`: the record of each call fits its files, its stack and the disk |
| `KeyStoreIsKeyValue` | `ImplementsKeyValue` | `FsInv`, `CallsInv` |

The refinement maps a call to its request (`View`) and the store to the texts of
the key files. `Open` implements `Look`, `Blank` or nothing, `Close` is `Put`, the
removal of a key's file is `Drop`, failing calls are `Fault`, `Return` is `Reply`. The hard
part is that a delete that returns without an error has dropped every key:
`DeleteOK` says that each key not yet dropped is ahead of the iterators of all
activations above it (`KeyAhead`), which has to be kept while other tasks create
and remove keys below the same directories, and while directories of the same
name are removed and made again.

**Host tool** (`HostRelocationProofs`), for every file

| Theorem | Result | Inductive invariant |
|---|---|---|
| `LowHalfFits` | the low half of any value is a signed 12-bit number | - |
| `SameSplit` | `_calc_imm` (C division, two corrections) and the device's `(val + 0x800) >> 12` split every integer alike | - |
| `CompactionInPlace` | `[]TypeOK`: the write index stays behind the read index and inside the table | `HeadersInv`, `TablesInv`, `LoopInv` |
| `SecondRunIsIdle` | `SecondRunChangesNothing` | `SymInv`, `ListInv` (each table waits on the list once), `CleanInv` (behind the write index, and in the tables done, are only entries to keep) |
| `NothingIsLost` | `[]KeepsWhatDeviceNeeds` | `KeepInv`: of the original table each entry to keep is at its rank among those (`Final`), a table in work is so up to the read index (`Moved`), one that waits is as it was (`Untouched`) |
| `ImageSurvives` | `[]SameLoadedImage` | `PatchInv`, with `KeepInv`: each section is patched as far as its table has been read (`PatchedTo`, `Read`) |

`ImageSurvives` needs four facts about single entries and one about all of them.
On blank code the tool, which adds, and the device, which replaces, make the
same (`PatchIsMade`, `DeviceIsMade`); where both places move together the distance
is the same at every load address (`SameDistance`); an entry changes only what it
covers, and what it makes depends on nothing else (`MadeLocal`). The two loadings
apply the entries in different orders: all in file order, or first those the
tool resolves and then the rest. `SameInTheEnd` shows, by `Counting` over the entries of
the table, that they meet.

Check one with `tlapm ElfLoaderProofs.tla`; the longest, `KeyStoreProofs`, takes several
minutes.

Every invariant and every action property that the passing runs check is among these
theorems, and so are the two refinements. Only model-checked is liveness:
`Progress`, `WritesReturn` and `RemoveReturns`, since fairness and ENABLED are beyond
this prover. The library's induction theorems are beyond it too; what a repeated
step adds up to (`LoadedSection`, the bits of a number, a count of entries) is
therefore written as a recursive function or by positions and ranks, and proved
with `Counting` or as an invariant of the steps.

## 6. Findings

| Run | What happens |
|---|---|
| `elf_loader_unsupported` | The result of `esp_elf_arch_relocate` is ignored (esp_elf.c:356): an entry of an unknown type stays unrelocated and the application runs, though `esp_elf_relocate` documents "ESP_OK if sucess or other if failed". |
| `elf_loader_read_error` | A failed string read is not seen (fs.c:175): the loader's checks `!read(name, ...)` cannot fire, a section is skipped or mistaken, the application runs. |
| `elf_loader_drlro` | `.rela.data.rel.ro` contains `.data`, which is tested first (esp_elf.c:261): its relocations are written into `.data`; the branch meant for it is never taken. |
| `elf_loader_addend` | A call relocation drops its addend (esp_elf_riscv.c:261). |

`elf_loader.ld` folds `.data.*` into `.data`, so programs linked with it do not
have a `.data.rel.ro`; compilers emit no addend for plain calls to functions.

## 7. Plan

Done in this order: encoder and loader, console, host tool; type correctness,
ownership and layout of the loader, the console's exclusion and redirection, the
tool's compaction; then the abstract boot and its refinement, the flash driver
with its proofs, files, directories and line reading, the key store and its
refinement.

Then, all by proof: the ownership of handles and heap, the tree and its removal,
appending; the application's bytes and what is delivered of every text; the loader's
writes, the complete image it starts and its address mapping;
the host tool's second run and what it keeps; the key store's refinement; the
instruction encoder with all properties of `RiscvReloc`.

Last, the lines that `FsGets` returns, and the host tool's main promise, that the
device loads the same image from its output (`SameLoadedImage`).

Nothing of the plan is open. What could extend it is in section 8; most of it needs
a model of a library or of hardware that is not in this repository.

## 8. Not modelled

* NVS stubs (`module/patch/nvs.c`): every function returns `ESP_FAIL`.
* MMU remapping and PSRAM (`soc/`, parts of the adapter): compiled only with
  `CONFIG_ELF_LOADER_SET_MMU`, which this build does not set.
* Xtensa relocation: another processor.
* `esp_elf_print_*`: logging. `__wrap_hap_httpd_start`: hands one handle on.
* littlefs, FreeRTOS, ESP-IDF: external; interleaved calls into littlefs, which
  `fs_init` configures without locks, cannot be judged from this repository. The
  models take each call as one step.
* `fs_stat`, `fs_tell`, `ftell`, `stat`: they change nothing. Paths longer than the
  64-byte buffers of the key store, which are cut off.
* Exhausted memory in `fs_open`, `fs_dir_open` and `fs_remove`, which use what
  `calloc` and `malloc` return without a test.
* What an application leaves running when its entry returns: its code is freed
  by `esp_elf_deinit` eleven seconds before the restart.
* Alignment of sections inside the data block (`sh_addralign` is ignored).
* A change of `uart0_tx` in the middle of a console write: the write tests it
  twice (vfs.c:27 and 47) and would then give back a mutex it did not take, or keep it.
