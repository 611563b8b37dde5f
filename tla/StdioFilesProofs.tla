--------------------------- MODULE StdioFilesProofs ---------------------------
(***************************************************************************)
(* Proofs about tasks that use files through the stdio wrappers.  What     *)
(* they do is what FsSpec lets any caller do, so that they inherit what    *)
(* FileSystemProofs shows of it.  The second part is about fgets and fgetc *)
(* (FsGets), for files and buffers of any size.                            *)
(***************************************************************************)
EXTENDS StdioFiles, FsGets, FileSystemProofs, FiniteSetTheorems, WellFoundedInduction

-----------------------------------------------------------------------------
(* The wrappers are callers of the file system.                            *)

\* The step of one wrapper of task t.
LEMMA CallIsFs == \A t \in Tasks : Call(t) => FsNext
<1> SUFFICES ASSUME NEW t \in Tasks, Call(t) PROVE FsNext
  OBVIOUS
<1>1. ASSUME NEW p \in Paths, NEW mode \in {"r", "w", "a"}, fopen(t, p, mode) PROVE FsNext
  BY <1>1 DEF fopen, FsNext, Free
<1>2. ASSUME NEW p \in Paths, mkdir(t, p) PROVE FsNext
  BY <1>2 DEF mkdir, FsNext
<1>3. ASSUME NEW p \in Paths, remove(t, p) PROVE FsNext
  BY <1>3 DEF remove, FsNext
<1>4. ASSUME NEW p \in Paths, opendir(t, p) PROVE FsNext
  BY <1>4 DEF opendir, FsNext, Free
<1>5. ASSUME NEW h \in Addrs, fclose(t, h) PROVE FsNext
  BY <1>5 DEF fclose, FsNext, FileOf
<1>6. ASSUME NEW h \in Addrs, NEW n \in 1 .. MaxLen, fread(t, h, 1, n) PROVE FsNext
  <2>1. 1 * n \in Nat
    OBVIOUS
  <2> QED
    BY <1>6, <2>1 DEF fread, FsNext, FileOf
<1>7. ASSUME NEW h \in Addrs, NEW b \in Bytes, fwrite(t, h, b) PROVE FsNext
  <2>1. <<b>> \in Seq(Bytes)
    OBVIOUS
  <2> QED
    BY <1>7, <2>1 DEF fwrite, FsNext, FileOf
<1>8. ASSUME NEW h \in Addrs, NEW at \in 0 .. MaxLen - 1, fseek(t, h, at) PROVE FsNext
  <2>1. at \in Nat
    OBVIOUS
  <2> QED
    BY <1>8, <2>1 DEF fseek, FsNext, FileOf
<1>9. ASSUME NEW h \in Addrs, readdir(t, h) PROVE FsNext
  BY <1>9 DEF readdir, FsNext, DirOf
<1>10. ASSUME NEW h \in Addrs, closedir(t, h) PROVE FsNext
  BY <1>10 DEF closedir, FsNext, DirOf
<1> QED
  BY <1>1, <1>2, <1>3, <1>4, <1>5, <1>6, <1>7, <1>8, <1>9, <1>10 DEF Call

\* Every step of the stdio functions is a step of the file system, or none.
LEMMA StepIsFs == [Next]_vars => [FsNext]_fsVars
<1>1. ASSUME NEW t \in Tasks, Removal(t) \/ Returned(t) PROVE FsNext
  BY <1>1 DEF Removal, Returned, FsNext
<1>2. Crash => FsNext
  BY DEF Crash, FsNext
<1> QED
  BY <1>1, <1>2, CallIsFs DEF Next, vars

\* Applications use the file system as FsSpec says.
THEOREM UsesFileSystem == Spec => FsSpec
<1>1. Init => FsInit
  BY DEF Init
<1> QED
  BY <1>1, StepIsFs, PTL DEF Spec, FsSpec

-----------------------------------------------------------------------------
(* Handles.                                                                *)

\* No two tasks have a handle in common, and those they have are the heap.
OwnersOK ==
  /\ held \in [Tasks -> SUBSET Addrs]
  /\ \A t, u \in Tasks : t # u => held[t] \cap held[u] = {}
  /\ heap = UNION {held[t] : t \in Tasks}

\* A task gets a handle nobody had.
LEMMA Acquires ==
  ASSUME OwnersOK, NEW t \in Tasks, NEW h \in Addrs \ heap,
         heap' = heap \cup {h}, held' = [held EXCEPT ![t] = @ \cup {h}]
  PROVE  OwnersOK'
<1>1. held' \in [Tasks -> SUBSET Addrs]
  BY DEF OwnersOK
<1>2. \A u \in Tasks : held'[u] = IF u = t THEN held[u] \cup {h} ELSE held[u]
  BY DEF OwnersOK
<1>3. \A u \in Tasks : h \notin held[u]
  BY DEF OwnersOK
<1>4. \A u, v \in Tasks : u # v => held'[u] \cap held'[v] = {}
  BY <1>2, <1>3 DEF OwnersOK
<1>5. heap' = UNION {held'[u] : u \in Tasks}
  BY <1>2 DEF OwnersOK
<1> QED
  BY <1>1, <1>4, <1>5 DEF OwnersOK

\* A handle that is freed together with its block leaves the others owned.
LEMMA Releases ==
  ASSUME OwnersOK, NEW t \in Tasks, NEW h \in held[t],
         heap' = heap \ {h}, held' = [held EXCEPT ![t] = @ \ {h}]
  PROVE  OwnersOK'
<1>1. held' \in [Tasks -> SUBSET Addrs]
  BY DEF OwnersOK
<1>2. \A u \in Tasks : held'[u] = IF u = t THEN held[u] \ {h} ELSE held[u]
  BY DEF OwnersOK
<1>3. \A u \in Tasks : u # t => h \notin held[u]
  BY DEF OwnersOK
<1>4. \A u, v \in Tasks : u # v => held'[u] \cap held'[v] = {}
  BY <1>2 DEF OwnersOK
<1>5. heap' = UNION {held'[u] : u \in Tasks}
  BY <1>2, <1>3 DEF OwnersOK
<1> QED
  BY <1>1, <1>4, <1>5 DEF OwnersOK

\* OwnersOK is inductive, given the heap invariant of the file system.
LEMMA OwnersStep == FsTypeOK /\ HeapOK /\ OwnersOK /\ [Next]_vars => OwnersOK'
<1> SUFFICES ASSUME FsTypeOK, HeapOK, OwnersOK, [Next]_vars PROVE OwnersOK'
  OBVIOUS
<1>1. CASE UNCHANGED <<heap, held>>
  BY <1>1 DEF OwnersOK
<1>2. ASSUME NEW t \in Tasks, NEW p \in Paths, NEW mode \in {"r", "w", "a"}, fopen(t, p, mode)
      PROVE  OwnersOK'
  <2>1. PICK h \in Addrs \ heap, err \in BOOLEAN :
          /\ fs_open(p, mode, h, err)
          /\ held' = [held EXCEPT ![t] = @ \cup {a \in {h} : files'[a].open}]
    BY <1>2 DEF fopen, Free
  <2>2. CASE heap' = heap \cup {h} /\ files'[h].open
    <3>1. {a \in {h} : files'[a].open} = {h}
      BY <2>2
    <3> QED
      BY <2>1, <2>2, <3>1, Acquires
  <2>3. CASE UNCHANGED <<heap, files>>
    <3>1. {a \in {h} : files'[a].open} = {}
      BY <2>3 DEF HeapOK
    <3>2. held' = held
      BY <2>1, <3>1 DEF OwnersOK
    <3> QED
      BY <1>1, <2>3, <3>2
  <2> QED
    BY <2>1, <2>2, <2>3 DEF fs_open, OpenFails, FsTypeOK
<1>3. ASSUME NEW t \in Tasks, NEW p \in Paths, opendir(t, p) PROVE OwnersOK'
  <2>1. PICK h \in Addrs \ heap, err \in BOOLEAN :
          /\ fs_dir_open(p, h, err)
          /\ held' = [held EXCEPT ![t] = @ \cup {a \in {h} : dirs'[a].open}]
    BY <1>3 DEF opendir, Free
  <2>2. CASE heap' = heap \cup {h} /\ dirs'[h].open
    <3>1. {a \in {h} : dirs'[a].open} = {h}
      BY <2>2
    <3> QED
      BY <2>1, <2>2, <3>1, Acquires
  <2>3. CASE UNCHANGED <<heap, dirs>>
    <3>1. {a \in {h} : dirs'[a].open} = {}
      BY <2>3 DEF HeapOK
    <3>2. held' = held
      BY <2>1, <3>1 DEF OwnersOK
    <3> QED
      BY <1>1, <2>3, <3>2
  <2> QED
    BY <2>1, <2>2, <2>3 DEF fs_dir_open, FsTypeOK
<1>4. ASSUME NEW t \in Tasks, NEW h \in Addrs, fclose(t, h) \/ closedir(t, h) PROVE OwnersOK'
  BY <1>4, Releases DEF fclose, closedir, FileOf, DirOf, fs_close, fs_dir_close
<1>5. CASE Crash
  BY <1>5 DEF Crash, fs_init, OwnersOK
<1>6. ASSUME NEW t \in Tasks, Removal(t) PROVE UNCHANGED <<heap, held>>
  BY <1>6 DEF Removal, RemoveStep, RemoveEnter, RemoveRead, RemoveLast
<1>7. ASSUME NEW t \in Tasks, Call(t) PROVE OwnersOK'
  BY <1>1, <1>2, <1>3, <1>4, <1>7 DEF Call, mkdir, remove, fread, fwrite, fseek, readdir
<1> QED
  BY <1>1, <1>5, <1>6, <1>7 DEF Next, Returned, vars, fsVars

\* Whatever fails on the way, a block is on the heap as long as one task has it
\* and littlefs has it open.
THEOREM HandlesAreOwned == Spec => []HandlesOwned
<1>1. Init => OwnersOK
  BY DEF Init, FsInit, OwnersOK
<1>2. HeapOK /\ OwnersOK => HandlesOwned
  BY DEF HeapOK, OwnersOK, HandlesOwned
<1> QED
  BY <1>1, <1>2, OwnersStep, UsesFileSystem, FsTypeCorrect, FsHeapOK, PTL DEF Spec

-----------------------------------------------------------------------------
(* Appending.                                                              *)

\* The commit of a file opened for appending extends the version it opened.
THEOREM AppendingKeeps == Spec => AppendKeeps
<1>1. FsTypeOK /\ FsTypeOK' /\ HeapOK /\ AppendOK /\ [Next]_vars =>
        [\A h \in Addrs :
           LET p == files[h].path IN
           /\ files[h].open /\ files[h].mode = "a" /\ ~files'[h].open
           /\ disk[p] = File(files[h].base) /\ disk'[p].kind = "file"
           => IsPrefix(disk[p].data, disk'[p].data)]_vars
  <2> SUFFICES ASSUME FsTypeOK, FsTypeOK', HeapOK, AppendOK, [Next]_vars,
                      NEW h \in Addrs, files[h].open, files[h].mode = "a", ~files'[h].open,
                      disk[files[h].path] = File(files[h].base),
                      disk'[files[h].path].kind = "file"
               PROVE  IsPrefix(disk[files[h].path].data, disk'[files[h].path].data)
    OBVIOUS
  <2>1. FsNext
    BY StepIsFs DEF fsVars
  <2> QED
    BY <2>1, AppendCommits
<1> QED
  BY <1>1, UsesFileSystem, FsTypeCorrect, FsHeapOK, FsAppendOK, PTL DEF Spec, AppendKeeps

-----------------------------------------------------------------------------
(* Reading lines.                                                          *)

\* The type invariant.
GetsTypeOK ==
  /\ file \in Seq({"text"} \cup Terminators) /\ base \in 0 .. Size /\ pos \in base .. Size
  /\ lines \in Seq(Seq(Nat)) /\ wide \in BOOLEAN

\* Positions are numbers, those read between where reading began and the end.
LEMMA GetsNumbers ==
  ASSUME GetsTypeOK
  PROVE  Size \in Nat /\ base \in Nat /\ pos \in Nat /\ base <= pos /\ pos <= Size
<1>1. Size \in Nat
  BY LenProperties DEF GetsTypeOK, Size
<1> QED
  BY <1>1 DEF GetsTypeOK

\* What a run of bytes is.
LEMMA RunFacts ==
  ASSUME NEW from \in Nat, NEW to \in Nat, from <= to
  PROVE  /\ Run(from, to) \in Seq(Nat) /\ DOMAIN Run(from, to) = 1 .. to - from
         /\ \A k \in 1 .. to - from : Run(from, to)[k] = from + k
         /\ BytesOf(Run(from, to)) = from + 1 .. to
<1>1. /\ DOMAIN Run(from, to) = 1 .. to - from
      /\ \A k \in 1 .. to - from : Run(from, to)[k] = from + k
  BY DEF Run
<1>2. Run(from, to) \in Seq(Nat)
  <2>1. to - from \in Nat /\ \A k \in 1 .. to - from : from + k \in Nat
    OBVIOUS
  <2> QED
    BY <2>1 DEF Run
<1>3. BytesOf(Run(from, to)) \subseteq from + 1 .. to
  BY <1>1 DEF BytesOf
<1>4. ASSUME NEW n \in from + 1 .. to PROVE n \in BytesOf(Run(from, to))
  <2>1. n - from \in 1 .. to - from /\ from + (n - from) = n
    OBVIOUS
  <2> QED
    BY <1>1, <2>1 DEF BytesOf
<1> QED
  BY <1>1, <1>2, <1>3, <1>4

\* One line more.
LEMMA OneLineMore ==
  ASSUME GetsTypeOK, NEW e \in Nat, pos <= e, lines' = Append(lines, Run(pos, e))
  PROVE  /\ lines' \in Seq(Seq(Nat)) /\ Len(lines) \in Nat /\ Len(lines') = Len(lines) + 1
         /\ DOMAIN lines = 1 .. Len(lines) /\ DOMAIN lines' = 1 .. Len(lines) + 1
         /\ \A i \in 1 .. Len(lines) : lines'[i] = lines[i]
         /\ lines'[Len(lines) + 1] = Run(pos, e)
<1>1. Run(pos, e) \in Seq(Nat) /\ lines \in Seq(Seq(Nat))
  BY GetsNumbers, RunFacts DEF GetsTypeOK
<1> HIDE DEF Run
<1>2. /\ Append(lines, Run(pos, e)) \in Seq(Seq(Nat)) /\ Len(lines) \in Nat
      /\ Len(Append(lines, Run(pos, e))) = Len(lines) + 1
      /\ \A i \in 1 .. Len(lines) : Append(lines, Run(pos, e))[i] = lines[i]
      /\ Append(lines, Run(pos, e))[Len(lines) + 1] = Run(pos, e)
  BY <1>1, LenProperties, AppendProperties
<1>3. DOMAIN lines = 1 .. Len(lines) /\ DOMAIN lines' = 1 .. Len(lines')
  BY <1>1, <1>2, LenProperties
<1> QED
  BY <1>2, <1>3

\* The two ways a call of fs_gets ends: with a full buffer or the file, or at a
\* terminator.
Filled(last) ==
  /\ \A n \in pos + 1 .. last : IsText(n)
  /\ pos' = last /\ lines' = Append(lines, Run(pos, last))
Stopped(last, stop) ==
  /\ ~IsText(stop) /\ \A n \in pos + 1 .. stop - 1 : IsText(n)
  /\ pos' = After(stop, last) /\ lines' = Append(lines, Run(pos, stop - 1))

\* A call of fs_gets ends in one of the two ways, with a buffer as full as it gets
\* behind the byte last.
LEMMA GetsEnds ==
  ASSUME GetsTypeOK, NEW length \in Lengths, fs_gets(length)
  PROVE  \E last \in pos + 1 .. Size :
           /\ last <= pos + length - 1 /\ (last = Size \/ last = pos + length - 1)
           /\ Filled(last) \/ \E stop \in pos + 1 .. last : Stopped(last, stop)
<1> DEFINE last == pos + Window(length)
           stops == {n \in pos + 1 .. last : ~IsText(n)}
           stop == CHOOSE n \in stops : \A m \in stops : n <= m
<1>1. /\ Size \in Nat /\ pos \in Nat /\ pos < Size /\ length \in Nat \ {0, 1}
  BY LengthsAssumption, LenProperties DEF GetsTypeOK, fs_gets, Size
<1>2. /\ last \in pos + 1 .. Size /\ last <= pos + length - 1
      /\ last = Size \/ last = pos + length - 1
  BY <1>1 DEF Window
<1>3. /\ lines' = Append(lines, Run(pos, IF stops = {} THEN last ELSE stop - 1))
      /\ pos' = IF stops = {} THEN last ELSE After(stop, last)
  BY DEF fs_gets
<1>4. CASE stops = {}
  <2>1. Filled(last)
    BY <1>3, <1>4 DEF Filled
  <2> QED
    BY <1>2, <2>1
<1>5. CASE stops # {}
  <2>1. \E n \in stops : \A m \in stops : <<m, n>> \notin OpToRel(<, Nat)
    <3>1. stops \subseteq Nat
      BY <1>1, <1>2
    <3> HIDE DEF stops
    <3> QED
      BY <1>5, <3>1, WFMin, NatLessThanWellFounded
  <2>2. \A m, n \in stops : <<m, n>> \notin OpToRel(<, Nat) => n <= m
    BY <1>1, <1>2 DEF OpToRel
  <2>3. \E n \in stops : \A m \in stops : n <= m
    BY <2>1, <2>2
  <2>4. stop \in stops /\ \A m \in stops : stop <= m
    BY <2>3
  <2> HIDE DEF stop
  <2>5. stop \in pos + 1 .. last /\ ~IsText(stop) /\ \A n \in pos + 1 .. stop - 1 : IsText(n)
    BY <1>1, <1>2, <2>4
  <2>6. Stopped(last, stop)
    BY <1>3, <1>5, <2>5 DEF Stopped
  <2> QED
    BY <1>2, <2>5, <2>6
<1> QED
  BY <1>4, <1>5

\* A call moves on, and what it returns is all the text it passed.
Moves == \E e \in pos .. pos' :
  /\ pos' \in pos + 1 .. Size /\ {n \in pos + 1 .. pos' : IsText(n)} = pos + 1 .. e
  /\ (lines' = lines /\ e = pos) \/ lines' = Append(lines, Run(pos, e))

\* So does every call of fs_gets ...
LEMMA GetsMoves ==
  ASSUME GetsTypeOK, NEW length \in Lengths, fs_gets(length)
  PROVE  Moves
<1>1. PICK last \in pos + 1 .. Size :
        Filled(last) \/ \E stop \in pos + 1 .. last : Stopped(last, stop)
  BY GetsEnds
<1>2. Size \in Nat /\ pos \in Nat
  BY LenProperties DEF GetsTypeOK, Size
<1>3. CASE Filled(last)
  <2>1. {n \in pos + 1 .. last : IsText(n)} = pos + 1 .. last /\ last \in pos .. last
    BY <1>2, <1>3 DEF Filled
  <2> QED
    BY <1>3, <2>1 DEF Filled, Moves
<1>4. ASSUME NEW stop \in pos + 1 .. last, Stopped(last, stop) PROVE Moves
  <2>1. /\ stop - 1 \in pos .. pos' /\ pos' \in pos + 1 .. Size
        /\ pos' = stop \/ (pos' = stop + 1 /\ ~IsText(stop + 1))
    <3>1. CASE SkipsLf(stop, last)
      <4>1. pos' = stop + 1 /\ stop + 1 <= last /\ ~IsText(stop + 1)
        BY <1>4, <3>1 DEF Stopped, After, SkipsLf, IsText, Terminators
      <4>2. stop - 1 \in pos .. pos' /\ pos' \in pos + 1 .. Size
        BY <1>2, <4>1
      <4> QED
        BY <4>1, <4>2
    <3>2. CASE ~SkipsLf(stop, last)
      <4>1. pos' = stop
        BY <1>4, <3>2 DEF Stopped, After
      <4> QED
        BY <1>2, <4>1
    <3> QED
      BY <3>1, <3>2
  <2>2. {n \in pos + 1 .. pos' : IsText(n)} = pos + 1 .. stop - 1
    BY <1>2, <1>4, <2>1 DEF Stopped
  <2> QED
    BY <1>4, <2>1, <2>2 DEF Stopped, Moves
<1> QED
  BY <1>1, <1>3, <1>4

\* ... and of fs_getc ...
LEMMA GetcMoves ==
  ASSUME GetsTypeOK, fs_getc
  PROVE  Moves
<1>1. Size \in Nat /\ pos \in Nat /\ pos < Size /\ pos' = pos + 1
  BY LenProperties DEF GetsTypeOK, Size, fs_getc
<1>2. CASE IsText(pos + 1)
  <2>1. {n \in pos + 1 .. pos' : IsText(n)} = pos + 1 .. pos + 1 /\ pos + 1 \in pos .. pos'
    BY <1>1, <1>2
  <2> QED
    BY <1>1, <1>2, <2>1 DEF fs_getc, Moves
<1>3. CASE ~IsText(pos + 1)
  <2>1. {n \in pos + 1 .. pos' : IsText(n)} = pos + 1 .. pos /\ pos \in pos .. pos'
    BY <1>1, <1>3
  <2> QED
    BY <1>1, <1>3, <2>1 DEF fs_getc, Moves
<1> QED
  BY <1>2, <1>3

\* ... and so every step.
LEMMA StepMoves ==
  ASSUME GetsTypeOK, GetsNext
  PROVE  Moves /\ UNCHANGED <<file, base>> /\ wide' \in BOOLEAN
<1>1. wide \in BOOLEAN
  BY DEF GetsTypeOK
<1> QED
  BY <1>1, GetsMoves, GetcMoves DEF GetsNext, Gets, Getc

\* Positions stay inside the file, and lines are sequences of positions.
THEOREM GetsTypeCorrect == GetsSpec => []GetsTypeOK
<1>1. GetsInit => GetsTypeOK
  BY DEF GetsInit, GetsTypeOK, Size
<1>2. GetsTypeOK /\ [GetsNext]_getsVars => GetsTypeOK'
  <2> SUFFICES ASSUME GetsTypeOK, [GetsNext]_getsVars PROVE GetsTypeOK'
    OBVIOUS
  <2>1. CASE UNCHANGED getsVars
    BY <2>1 DEF getsVars, GetsTypeOK, Size
  <2>2. CASE GetsNext
    <3>1. Moves /\ UNCHANGED <<file, base>> /\ wide' \in BOOLEAN
      BY <2>2, StepMoves
    <3>2. PICK e \in pos .. pos' :
            /\ pos' \in pos + 1 .. Size
            /\ lines' = lines \/ lines' = Append(lines, Run(pos, e))
      BY <3>1 DEF Moves
    <3>3. Size' = Size /\ Size \in Nat /\ pos \in Nat /\ base \in Nat /\ e \in Nat /\ pos <= e
      BY <3>1, <3>2, GetsNumbers DEF Size
    <3>4. pos' \in base .. Size
      BY <3>2, <3>3 DEF GetsTypeOK
    <3>5. lines' \in Seq(Seq(Nat))
      <4>1. lines \in Seq(Seq(Nat))
        BY DEF GetsTypeOK
      <4> QED
        BY <3>2, <3>3, <4>1, OneLineMore
    <3> QED
      BY <3>1, <3>3, <3>4, <3>5 DEF GetsTypeOK
  <2> QED
    BY <2>1, <2>2
<1> QED
  BY <1>1, <1>2, PTL DEF GetsSpec

\* A caller that reads on comes to the end of the file, whatever its buffers.
THEOREM ReadingAdvances == GetsSpec => []ReadsAdvance
<1>1. GetsInit => ReadsAdvance
  BY DEF GetsInit, ReadsAdvance, Size
<1>2. GetsTypeOK /\ ReadsAdvance /\ [GetsNext]_getsVars => ReadsAdvance'
  <2> SUFFICES ASSUME GetsTypeOK, ReadsAdvance, [GetsNext]_getsVars PROVE ReadsAdvance'
    OBVIOUS
  <2>1. CASE UNCHANGED getsVars
    BY <2>1 DEF getsVars, ReadsAdvance
  <2>2. CASE GetsNext
    <3>1. Moves /\ base' = base
      BY <2>2, StepMoves
    <3>2. PICK e \in pos .. pos' :
            /\ pos' \in pos + 1 .. Size
            /\ lines' = lines \/ lines' = Append(lines, Run(pos, e))
      BY <3>1 DEF Moves
    <3>3. pos \in Nat /\ base \in Nat /\ pos' \in Nat /\ pos + 1 <= pos' /\ e \in Nat /\ pos <= e
      BY <3>2, GetsNumbers
    <3>4. Len(lines) \in Nat /\ (Len(lines') = Len(lines) \/ Len(lines') = Len(lines) + 1)
      <4>1. Len(lines) \in Nat
        BY LenProperties DEF GetsTypeOK
      <4> QED
        BY <3>2, <3>3, <4>1, OneLineMore
    <3> QED
      BY <3>1, <3>3, <3>4 DEF ReadsAdvance
  <2> QED
    BY <2>1, <2>2
<1> QED
  BY <1>1, <1>2, GetsTypeCorrect, PTL DEF GetsSpec

-----------------------------------------------------------------------------
\* A line that goes on where the text read so far ends keeps the order.
LEMMA AppendInOrder ==
  ASSUME GetsTypeOK, TextKept, NEW e \in Nat, pos <= e, lines' = Append(lines, Run(pos, e))
  PROVE  InOrder'
<1> DEFINE m == Len(lines)
<1>1. /\ m \in Nat /\ DOMAIN lines = 1 .. m /\ DOMAIN lines' = 1 .. m + 1
      /\ \A i \in 1 .. m : lines'[i] = lines[i]
      /\ lines'[m + 1] = Run(pos, e)
  BY OneLineMore
<1>2. /\ pos \in Nat /\ base \in Nat
      /\ \A k \in DOMAIN Run(pos, e) : k \in Nat /\ Run(pos, e)[k] = pos + k /\ pos < pos + k
  <2>1. pos \in Nat /\ base \in Nat
    BY GetsNumbers
  <2>2. DOMAIN Run(pos, e) = 1 .. e - pos /\ \A k \in 1 .. e - pos : Run(pos, e)[k] = pos + k
    BY <2>1, RunFacts
  <2> QED
    BY <2>1, <2>2
<1>3. ASSUME NEW i \in 1 .. m, NEW k \in DOMAIN lines[i] PROVE lines[i][k] \in base + 1 .. pos
  BY <1>1, <1>3 DEF TextKept, BytesOf
<1> HIDE DEF m
<1>4. ASSUME NEW i \in 1 .. m + 1, NEW j \in 1 .. m + 1,
             NEW k \in DOMAIN lines'[i], NEW l \in DOMAIN lines'[j],
             i < j \/ (i = j /\ k < l)
      PROVE  lines'[i][k] < lines'[j][l]
  <2>1. CASE j # m + 1
    <3>1. i \in 1 .. m /\ j \in 1 .. m
      BY <1>1, <1>4, <2>1
    <3> QED
      BY <1>1, <1>4, <3>1 DEF TextKept, InOrder
  <2>2. CASE i # m + 1 /\ j = m + 1
    <3>1. i \in 1 .. m /\ lines'[i][k] \in base + 1 .. pos
      BY <1>1, <1>3, <1>4, <2>2
    <3>2. lines'[j][l] = pos + l /\ pos < pos + l /\ l \in Nat
      BY <1>1, <1>2, <1>4, <2>2
    <3> HIDE DEF m
    <3> DEFINE x == lines'[i][k]
               y == lines'[j][l]
    <3>3. x \in base + 1 .. pos /\ y = pos + l /\ pos < pos + l
      BY <3>1, <3>2
    <3> HIDE DEF x, y
    <3>4. x < y
      BY <1>2, <3>2, <3>3
    <3> QED
      BY <3>4 DEF x, y
  <2>3. CASE i = m + 1 /\ j = m + 1
    <3>1. k < l
      BY <1>1, <1>4, <2>3
    <3>2. lines'[i][k] = pos + k /\ lines'[j][l] = pos + l /\ k \in Nat /\ l \in Nat
      BY <1>1, <1>2, <1>4, <2>3
    <3> QED
      BY <1>2, <3>1, <3>2
  <2> QED
    BY <2>1, <2>2, <2>3
<1> QED
  BY <1>1, <1>4 DEF InOrder

\* A step adds the text it passes, behind what was there.
LEMMA TextKeptStep == GetsTypeOK /\ TextKept /\ GetsNext => TextKept'
<1> SUFFICES ASSUME GetsTypeOK, TextKept, GetsNext PROVE TextKept'
  OBVIOUS
<1>1. Moves /\ file' = file /\ base' = base
  BY StepMoves
<1>2. PICK e \in pos .. pos' :
        /\ pos' \in pos + 1 .. Size /\ {n \in pos + 1 .. pos' : IsText(n)} = pos + 1 .. e
        /\ (lines' = lines /\ e = pos) \/ lines' = Append(lines, Run(pos, e))
  BY <1>1 DEF Moves
<1>3. pos \in Nat /\ base \in Nat /\ e \in Nat /\ pos <= e /\ base <= pos /\ pos' \in Nat /\ pos < pos'
  BY <1>2 DEF GetsTypeOK
<1>4. {n \in base + 1 .. pos' : IsText(n)} = {n \in base + 1 .. pos : IsText(n)} \cup (pos + 1 .. e)
  BY <1>2, <1>3
<1>5. \A n : (IsText(n))' <=> IsText(n)
  BY <1>1 DEF IsText
<1>6. CASE lines' = lines /\ e = pos
  <2>1. InOrder'
    BY <1>6 DEF TextKept, InOrder
  <2>2. UNION {BytesOf(lines'[i]) : i \in DOMAIN lines'} = {n \in base + 1 .. pos : IsText(n)}
    BY <1>6 DEF TextKept
  <2>3. pos + 1 .. e = {}
    BY <1>3, <1>6
  <2> QED
    BY <1>1, <1>4, <1>5, <2>1, <2>2, <2>3 DEF TextKept, BytesOf
<1>7. CASE lines' = Append(lines, Run(pos, e))
  <2>1. InOrder'
    BY <1>3, <1>7, AppendInOrder
  <2> DEFINE m == Len(lines)
  <2>2. /\ m \in Nat /\ DOMAIN lines = 1 .. m /\ DOMAIN lines' = 1 .. m + 1
        /\ \A i \in 1 .. m : lines'[i] = lines[i]
        /\ lines'[m + 1] = Run(pos, e)
    BY <1>3, <1>7, OneLineMore
  <2> HIDE DEF m
  <2>3. UNION {BytesOf(lines'[i]) : i \in DOMAIN lines'}
          = (UNION {BytesOf(lines[i]) : i \in DOMAIN lines}) \cup BytesOf(Run(pos, e))
    <3>1. 1 .. m + 1 = 1 .. m \cup {m + 1}
      BY <2>2
    <3> QED
      BY <2>2, <3>1
  <2>4. BytesOf(Run(pos, e)) = pos + 1 .. e
    BY <1>3, RunFacts
  <2> QED
    BY <1>1, <1>4, <1>5, <2>1, <2>3, <2>4 DEF TextKept, BytesOf
<1> QED
  BY <1>2, <1>6, <1>7

\* No text of the file is lost, repeated or reordered, however the calls are
\* mixed and whatever their buffers.
THEOREM GetsKeepText == GetsSpec => []TextKept
<1>1. GetsInit => TextKept
  BY DEF GetsInit, TextKept, InOrder, Size
<1>2. TextKept /\ UNCHANGED getsVars => TextKept'
  BY DEF getsVars, TextKept, InOrder, BytesOf, IsText
<1> QED
  BY <1>1, <1>2, GetsTypeCorrect, TextKeptStep, PTL DEF GetsSpec

-----------------------------------------------------------------------------
\* Reading that had room for every line stands behind a line end, or at the end
\* of the file.
AtLineEnd == wide /\ pos > base => pos = Size \/ pos \in Ends

\* A call with room for the line and its CR LF takes the rest of the line, and
\* the whole of its end.
OneLine(e) ==
  /\ pos' \in pos + 1 .. Size /\ lines' = Append(lines, Run(pos, e))
  /\ \A n \in pos + 1 .. e : IsText(n)
  /\ \A n \in e + 1 .. pos' : ~IsText(n)
  /\ \A n \in pos + 1 .. pos' - 1 : n \notin Ends
  /\ pos' = Size \/ pos' \in Ends

\* One call of fs_gets with room enough reads one line.
LEMMA GetsOneLine ==
  ASSUME GetsTypeOK, NEW length \in Lengths, fs_gets(length), Fits(length)
  PROVE  \E e \in pos .. pos' : OneLine(e)
<1>1. PICK last \in pos + 1 .. Size :
        /\ last <= pos + length - 1 /\ (last = Size \/ last = pos + length - 1)
        /\ Filled(last) \/ \E stop \in pos + 1 .. last : Stopped(last, stop)
  BY GetsEnds
<1>2. Size \in Nat /\ pos \in Nat /\ pos <= Size /\ base <= pos /\ base \in Nat /\ length \in Nat
  BY GetsNumbers, LengthsAssumption
<1>3. ASSUME NEW m \in pos .. Size, \A k \in pos + 1 .. m : IsText(k)
      PROVE  m - pos + 2 <= length - 1
  <2>1. pos \in base .. Size
    BY <1>2
  <2> QED
    BY <1>3, <2>1 DEF Fits
<1>4. \A n : IsText(n) => n \notin Ends
  BY DEF Ends, IsText, Terminators
<1>5. CASE Filled(last)
  <2>1. last - pos + 2 <= length - 1
    <3>1. last \in pos .. Size /\ \A k \in pos + 1 .. last : IsText(k)
      BY <1>1, <1>2, <1>5 DEF Filled
    <3> QED
      BY <1>3, <3>1
  <2>2. last = Size
    BY <1>1, <1>2, <2>1
  <2>3. OneLine(last)
    <3>1. last + 1 .. last = {} /\ pos + 1 .. last - 1 \subseteq pos + 1 .. last
      BY <1>1, <1>2
    <3> QED
      BY <1>4, <1>5, <2>2, <3>1 DEF Filled, OneLine
  <2>4. last \in pos .. last
    BY <1>1, <1>2
  <2> QED
    BY <1>5, <2>3, <2>4 DEF Filled
<1>6. ASSUME NEW stop \in pos + 1 .. last, Stopped(last, stop)
      PROVE  \E e \in pos .. pos' : OneLine(e)
  <2>1. /\ stop \in Nat /\ pos + 1 <= stop /\ stop <= last /\ last <= Size /\ last \in Nat
        /\ stop - 1 \in pos .. Size
    BY <1>1, <1>2
  <2>2. stop - 1 - pos + 2 <= length - 1
    BY <1>3, <1>6, <2>1 DEF Stopped
  <2>3. stop < last \/ last = Size
    BY <1>1, <1>2, <2>1, <2>2
  <2>4. CASE SkipsLf(stop, last)
    <3>1. pos' = stop + 1 /\ file[stop] = "cr" /\ stop + 1 <= last /\ file[stop + 1] = "lf"
      BY <1>6, <2>4 DEF Stopped, After, SkipsLf
    <3>2. stop \notin Ends /\ stop + 1 \in Ends /\ ~IsText(stop + 1)
      <4>1. stop \in 1 .. Size /\ stop + 1 \in 1 .. Size /\ stop # Size
        BY <1>2, <2>1, <3>1
      <4> QED
        BY <3>1, <4>1 DEF Ends, IsText, Terminators
    <3>3. \A n \in pos + 1 .. pos' - 1 : n \notin Ends
      <4>1. \A n \in pos + 1 .. pos' - 1 : n \in pos + 1 .. stop - 1 \/ n = stop
        BY <1>2, <2>1, <3>1
      <4> QED
        BY <1>4, <1>6, <3>2, <4>1 DEF Stopped
    <3>4. \A n \in stop .. pos' : n = stop \/ n = stop + 1
      BY <2>1, <3>1
    <3>5. stop - 1 \in pos .. pos' /\ pos' \in pos + 1 .. Size /\ stop - 1 + 1 = stop
      BY <1>2, <2>1, <3>1
    <3>6. OneLine(stop - 1)
      BY <1>6, <3>1, <3>2, <3>3, <3>4, <3>5 DEF Stopped, OneLine
    <3> QED
      BY <3>5, <3>6
  <2>5. CASE ~SkipsLf(stop, last)
    <3>1. pos' = stop
      BY <1>6, <2>5 DEF Stopped, After
    <3>2. stop = Size \/ stop \in Ends
      <4>1. \/ stop + 1 <= last /\ stop \in 1 .. Size /\ file[stop] \in Terminators
            \/ stop = Size
        BY <1>2, <1>6, <2>1, <2>3 DEF Stopped, IsText
      <4> QED
        BY <2>5, <4>1 DEF Ends, SkipsLf, Terminators
    <3>3. stop - 1 \in pos .. pos' /\ pos' \in pos + 1 .. Size /\ stop - 1 + 1 = stop
      BY <1>2, <2>1, <3>1
    <3>4. \A n \in stop .. pos' : n = stop
      BY <2>1, <3>1
    <3>5. OneLine(stop - 1)
      BY <1>4, <1>6, <3>1, <3>2, <3>3, <3>4 DEF Stopped, OneLine
    <3> QED
      BY <3>3, <3>5
  <2> QED
    BY <2>4, <2>5
<1> QED
  BY <1>1, <1>5, <1>6

\* The bytes of the next line are on the line after those returned so far.
LEMMA NextLineOf ==
  ASSUME GetsTypeOK, ReadsAdvance, LinesAsWritten, AtLineEnd, wide,
         NEW next \in pos + 1 .. Size, \A n \in pos + 1 .. next - 1 : n \notin Ends
  PROVE  LineOf(next) = Len(lines) + 1
<1>1. Size \in Nat /\ pos \in Nat /\ pos <= Size /\ base <= pos /\ base \in Nat
  BY GetsNumbers
<1> DEFINE S(n) == {m \in Ends : base < m /\ m < n}
<1>2. IsFiniteSet(S(pos))
  <2>1. IsFiniteSet(1 .. Size)
    BY <1>1, FS_Interval
  <2>2. S(pos) \in SUBSET (1 .. Size)
    BY DEF Ends
  <2> HIDE DEF S
  <2> QED
    BY <2>1, <2>2, FS_Subset
<1>3. Ends \subseteq Nat
  BY <1>1 DEF Ends
<1>4. CASE pos = base
  <2>1. Len(lines) = 0
    <3>1. Len(lines) \in Nat
      BY LenProperties DEF GetsTypeOK
    <3> QED
      BY <1>1, <1>4, <3>1 DEF ReadsAdvance
  <2>2. S(next) = {}
    <3>1. \A m \in Nat : base < m /\ m < next => m \in pos + 1 .. next - 1
      BY <1>1, <1>4
    <3> HIDE DEF Ends
    <3> QED
      BY <1>3, <3>1
  <2>3. LineOf(next) = 1 + Cardinality(S(next))
    BY DEF LineOf
  <2> HIDE DEF S
  <2> QED
    BY <2>1, <2>2, <2>3, FS_EmptySet
<1>5. CASE pos # base
  <2>1. pos > base /\ pos # Size
    BY <1>1, <1>5
  <2>2. pos \in Ends /\ Len(lines) = LineOf(pos)
    BY <2>1 DEF AtLineEnd, LinesAsWritten
  <2>3. S(next) = S(pos) \cup {pos} /\ pos \notin S(pos)
    <3>1. \A m \in Nat : m < next => m < pos \/ m = pos \/ m \in pos + 1 .. next - 1
      BY <1>1
    <3>2. base < pos /\ pos < next /\ ~(pos < pos) /\ \A m \in Nat : m < pos => m < next
      BY <1>1, <2>1
    <3>3. \A m \in S(next) : m \in S(pos) \cup {pos}
      BY <1>3, <3>1
    <3>4. \A m \in S(pos) : m \in S(next)
      BY <1>3, <3>2
    <3>5. pos \in S(next) /\ pos \notin S(pos)
      BY <2>2, <3>2
    <3> HIDE DEF S
    <3> QED
      BY <3>3, <3>4, <3>5
  <2>4. LineOf(next) = 1 + Cardinality(S(next)) /\ LineOf(pos) = 1 + Cardinality(S(pos))
    BY DEF LineOf
  <2> HIDE DEF S
  <2>5. Cardinality(S(next)) = Cardinality(S(pos)) + 1 /\ Cardinality(S(pos)) \in Nat
    BY <1>2, <2>3, FS_AddElement, FS_CardinalityType
  <2> QED
    BY <2>2, <2>4, <2>5
<1> QED
  BY <1>4, <1>5

\* What does not change: which bytes are text, end a line, and of which line
\* they are.
LEMMA FileIsFixed ==
  ASSUME UNCHANGED <<file, base>>
  PROVE  /\ Size' = Size /\ Ends' = Ends
         /\ \A n : (IsText(n))' = IsText(n) /\ (LineOf(n))' = LineOf(n)
BY DEF Size, Ends, IsText, LineOf

\* A range with a higher end holds more.
LEMMA WiderRange ==
  \A a, b, c \in Nat : b <= c => \A k \in a + 1 .. b - 1 : k \in a + 1 .. c - 1
OBVIOUS

\* The lines returned stay those of the file.
LEMMA LineStep ==
  ASSUME GetsTypeOK, TextKept, ReadsAdvance, LinesAsWritten, AtLineEnd, TextKept',
         NEW length \in Lengths, Gets(length), wide'
  PROVE  LinesAsWritten' /\ AtLineEnd'
<1>1. wide /\ Fits(length) /\ fs_gets(length) /\ UNCHANGED <<file, base>>
  BY DEF Gets
<1>2. PICK e \in pos .. pos' : OneLine(e)
  BY <1>1, GetsOneLine
<1>3. /\ Size \in Nat /\ pos \in Nat /\ pos <= Size /\ base <= pos /\ base \in Nat
      /\ pos' \in Nat /\ pos + 1 <= pos' /\ pos' <= Size /\ e \in Nat /\ pos <= e /\ e <= pos'
  BY <1>2, GetsNumbers DEF OneLine
<1> DEFINE m == Len(lines)
<1>4. /\ m \in Nat /\ DOMAIN lines = 1 .. m /\ DOMAIN lines' = 1 .. m + 1 /\ Len(lines') = m + 1
      /\ \A i \in 1 .. m : lines'[i] = lines[i]
      /\ lines'[m + 1] = Run(pos, e) /\ BytesOf(Run(pos, e)) = pos + 1 .. e
  BY <1>2, <1>3, OneLineMore, RunFacts DEF OneLine
<1>5. \A n \in pos + 1 .. pos' : LineOf(n) = m + 1
  <2> SUFFICES ASSUME NEW n \in pos + 1 .. pos' PROVE LineOf(n) = m + 1
    OBVIOUS
  <2>1. n \in pos + 1 .. Size /\ \A k \in pos + 1 .. n - 1 : k \notin Ends
    <3>1. n \in pos + 1 .. Size
      BY <1>3
    <3>2. n \in Nat /\ n <= pos'
      BY <1>3
    <3>3. \A k \in pos + 1 .. n - 1 : k \in pos + 1 .. pos' - 1
      BY <1>3, <3>2, WiderRange
    <3> QED
      BY <1>2, <3>1, <3>3 DEF OneLine
  <2> QED
    BY <1>1, <2>1, NextLineOf
<1> HIDE DEF m
<1>6. \A i \in 1 .. m :
        BytesOf(lines[i]) = {n \in base + 1 .. pos : IsText(n) /\ LineOf(n) = i}
  <2>1. CASE pos = base
    <3>1. m = 0
      BY <1>3, <1>4, <2>1 DEF ReadsAdvance, m
    <3> QED
      BY <3>1
  <2>2. CASE pos > base
    BY <1>1, <1>4, <2>2 DEF LinesAsWritten
  <2> QED
    BY <1>3, <2>1, <2>2
<1>7. ASSUME NEW n \in base + 1 .. pos, IsText(n) PROVE LineOf(n) \in 1 .. m
  <2>1. PICK i \in 1 .. m : n \in BytesOf(lines[i])
    BY <1>4, <1>7 DEF TextKept
  <2> QED
    BY <1>6, <2>1
<1>8. ASSUME NEW i \in 1 .. m + 1
      PROVE  BytesOf(lines'[i]) = {n \in base + 1 .. pos' : IsText(n) /\ LineOf(n) = i}
  <2>1. \A n \in base + 1 .. pos' : n \in base + 1 .. pos \/ n \in pos + 1 .. pos'
    BY <1>3
  <2>2. \A n : n \in base + 1 .. pos \/ n \in pos + 1 .. pos' => n \in base + 1 .. pos'
    BY <1>3
  <2>3. CASE i = m + 1
    <3>1. \A n \in base + 1 .. pos : IsText(n) => LineOf(n) # i
      BY <1>4, <1>7, <2>3
    <3>2. \A n \in pos + 1 .. pos' : IsText(n) <=> n \in pos + 1 .. e
      BY <1>2, <1>3 DEF OneLine
    <3>3. \A n \in pos + 1 .. e : n \in pos + 1 .. pos'
      BY <1>3
    <3>4. BytesOf(lines'[i]) = pos + 1 .. e
      BY <1>4, <2>3
    <3> QED
      BY <1>5, <2>1, <2>2, <2>3, <3>1, <3>2, <3>3, <3>4
  <2>4. CASE i # m + 1
    <3>1. i \in 1 .. m
      BY <1>4, <2>4
    <3>2. \A n \in pos + 1 .. pos' : LineOf(n) # i
      BY <1>5, <2>4
    <3>3. BytesOf(lines'[i]) = {n \in base + 1 .. pos : IsText(n) /\ LineOf(n) = i}
      BY <1>4, <1>6, <3>1
    <3> QED
      BY <2>1, <2>2, <3>2, <3>3
  <2> QED
    BY <2>3, <2>4
<1>9. Len(lines') = LineOf(pos')
  <2>1. pos' \in pos + 1 .. pos'
    BY <1>3
  <2> QED
    BY <1>4, <1>5, <2>1
<1>10. /\ Size' = Size /\ Ends' = Ends /\ base' = base
       /\ \A n : (IsText(n))' = IsText(n) /\ (LineOf(n))' = LineOf(n)
  BY <1>1, FileIsFixed
<1>11. AtLineEnd'
  BY <1>2, <1>10 DEF OneLine, AtLineEnd
<1>12. LinesAsWritten'
  <2>1. (Len(lines) = LineOf(pos))'
    BY <1>9, <1>1 DEF LineOf, Ends, Size
  <2>2. (\A i \in DOMAIN lines :
           BytesOf(lines[i]) = {n \in base + 1 .. pos : IsText(n) /\ LineOf(n) = i})'
    <3>1. \A i \in 1 .. m + 1 :
            BytesOf(lines'[i]) = {n \in base' + 1 .. pos' : (IsText(n))' /\ (LineOf(n))' = i}
      BY <1>8, <1>10
    <3> QED
      BY <1>4, <3>1 DEF BytesOf
  <2> QED
    BY <2>1, <2>2 DEF LinesAsWritten, TextKept
<1> QED
  BY <1>11, <1>12

\* With room for every line the calls return the lines of the file, each one
\* whole and one by one.
THEOREM GetsReturnLines == GetsSpec => []LinesAsWritten
<1>1. GetsInit => LinesAsWritten /\ AtLineEnd
  <2> SUFFICES ASSUME GetsInit PROVE ~(pos > base)
    BY DEF LinesAsWritten, AtLineEnd
  <2>1. pos = base /\ base \in 0 .. Len(file) /\ Len(file) \in Nat
    BY DEF GetsInit
  <2> QED
    BY <2>1
<1>2. /\ GetsTypeOK /\ TextKept /\ TextKept' /\ ReadsAdvance
      /\ LinesAsWritten /\ AtLineEnd /\ [GetsNext]_getsVars
      => LinesAsWritten' /\ AtLineEnd'
  <2> SUFFICES ASSUME GetsTypeOK, TextKept, TextKept', ReadsAdvance, LinesAsWritten, AtLineEnd,
                      [GetsNext]_getsVars
               PROVE  LinesAsWritten' /\ AtLineEnd'
    OBVIOUS
  <2>1. CASE UNCHANGED getsVars
    <3>1. UNCHANGED <<file, base, pos, lines, wide>>
      BY <2>1 DEF getsVars
    <3>2. LinesAsWritten' = LinesAsWritten
      BY <3>1 DEF LinesAsWritten, InOrder, BytesOf, LineOf, Ends, Size, IsText
    <3>3. AtLineEnd' = AtLineEnd
      BY <3>1 DEF AtLineEnd, Ends, Size
    <3> QED
      BY <3>2, <3>3
  <2>2. CASE ~wide'
    BY <2>2 DEF LinesAsWritten, AtLineEnd
  <2>3. CASE GetsNext /\ wide'
    BY <2>3, LineStep DEF GetsNext, Getc
  <2> QED
    BY <2>1, <2>2, <2>3
<1> QED
  BY <1>1, <1>2, GetsTypeCorrect, GetsKeepText, ReadingAdvances, PTL DEF GetsSpec
=============================================================================
