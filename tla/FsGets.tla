-------------------------------- MODULE FsGets --------------------------------
(***************************************************************************)
(* fs_gets and fs_getc of module/fs.c, which are fgets and fgetc for an    *)
(* application and read the names for the ELF loader.  A file is a         *)
(* sequence of text, CR, LF and NUL; a piece of text is the sequence of    *)
(* the positions of its bytes in the file.  Reads that fail are left to    *)
(* ElfLoader.                                                              *)
(***************************************************************************)
EXTENDS Integers, Sequences, FiniteSets

CONSTANTS
  MaxSize,   \* bound on the size of a file
  Lengths    \* sizes of the callers' buffers

\* A buffer of one byte holds no text: fs_gets would return "" forever.
ASSUME LengthsAssumption == MaxSize \in Nat /\ Lengths \subseteq (Nat \ {0, 1})

VARIABLES
  file,    \* what the file holds
  base,    \* where reading began
  pos,     \* position of the open file
  lines,   \* what the calls returned so far
  wide     \* only fs_gets was called, with room for any line and its CR LF

getsVars == <<file, base, pos, lines, wide>>

Terminators == {"cr", "lf", "nul"}
IsText(n) == file[n] \notin Terminators
Size == Len(file)
\* The bytes behind one position up to another.
Run(from, to) == [k \in 1 .. to - from |-> from + k]

-----------------------------------------------------------------------------
\* How much lfs_file_read puts into a buffer of that length.
Window(length) == IF length - 1 < Size - pos THEN length - 1 ELSE Size - pos

\* Mutant: CR LF is two line ends.
SkipNoLf(n, last) == FALSE
SkipsLf(n, last) == file[n] = "cr" /\ n + 1 <= last /\ file[n + 1] = "lf"

\* Mutants: the position is left behind what was read, or on the terminator.
AfterWindow(stop, last) == last
AtStop(stop, last) == stop - 1
After(stop, last) == IF SkipsLf(stop, last) THEN stop + 1 ELSE stop

\* What is read and not used is given back by the seek.  At the end of the file
\* the code returns "" once more, and not NULL: no step here.
fs_gets(length) ==
  LET last == pos + Window(length)
      stops == {n \in pos + 1 .. last : ~IsText(n)}
      stop == CHOOSE n \in stops : \A m \in stops : n <= m
  IN  /\ pos < Size
      /\ lines' = Append(lines, Run(pos, IF stops = {} THEN last ELSE stop - 1))
      /\ pos' = IF stops = {} THEN last ELSE After(stop, last)

fs_getc ==
  /\ pos < Size /\ pos' = pos + 1
  /\ lines' = IF IsText(pos + 1) THEN Append(lines, Run(pos, pos + 1)) ELSE lines

-----------------------------------------------------------------------------
\* Lines as they were written: each ends behind NUL, LF, CR LF or a CR alone.
Ends == {n \in 1 .. Size : \/ file[n] \in {"nul", "lf"}
                           \/ file[n] = "cr" /\ (n = Size \/ file[n + 1] # "lf")}
\* The line that byte n belongs to, counted from where reading began.
LineOf(n) == 1 + Cardinality({m \in Ends : base < m /\ m < n})
\* A buffer of that length holds every line left to read, and CR LF.
Fits(length) == \A n \in base .. Size : \A m \in n .. Size :
  (\A k \in n + 1 .. m : IsText(k)) => m - n + 2 <= length - 1

GetsInit ==
  /\ file \in UNION {[1 .. n -> {"text"} \cup Terminators] : n \in 0 .. MaxSize}
  /\ base \in 0 .. Len(file) /\ pos = base /\ lines = <<>> /\ wide = TRUE

Gets(length) ==
  /\ fs_gets(length) /\ wide' = (wide /\ Fits(length))
  /\ UNCHANGED <<file, base>>
Getc == fs_getc /\ wide' = FALSE /\ UNCHANGED <<file, base>>

GetsNext == Getc \/ \E length \in Lengths : Gets(length)

GetsSpec == GetsInit /\ [][GetsNext]_getsVars

-----------------------------------------------------------------------------
(* Properties.                                                             *)

BytesOf(line) == {line[k] : k \in DOMAIN line}
\* The bytes returned are in the order of the file, none twice.
InOrder == \A i, j \in DOMAIN lines : \A k \in DOMAIN lines[i] : \A l \in DOMAIN lines[j] :
  i < j \/ (i = j /\ k < l) => lines[i][k] < lines[j][l]

\* However small the buffers and however fs_gets and fs_getc are mixed, no
\* text of the file is lost, repeated or reordered between two calls.
TextKept ==
  /\ InOrder
  /\ UNION {BytesOf(lines[i]) : i \in DOMAIN lines} = {n \in base + 1 .. pos : IsText(n)}

\* With room for the longest line and CR LF the calls return the lines of the
\* file one by one, from whatever place reading began, also inside a line (the
\* tail of a name in a string table).  With one byte less a CR LF may be torn
\* and its LF makes a line of its own.
LinesAsWritten == wide /\ pos > base =>
  /\ InOrder /\ Len(lines) = LineOf(pos)
  /\ \A i \in DOMAIN lines :
       BytesOf(lines[i]) = {n \in base + 1 .. pos : IsText(n) /\ LineOf(n) = i}

\* A caller that reads on comes to the end: no call returns text, or an empty
\* line, without moving on in the file.
ReadsAdvance == Len(lines) <= pos - base

=============================================================================
