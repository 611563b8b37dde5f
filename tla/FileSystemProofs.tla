-------------------------- MODULE FileSystemProofs --------------------------
(***************************************************************************)
(* Proofs about the file system for any number of tasks, handles and names *)
(* and paths of any length: what holds of FsSpec holds whoever calls it.   *)
(***************************************************************************)
EXTENDS FileSystem, SequenceTheorems, TLAPS

-----------------------------------------------------------------------------
(* Sequences and paths.                                                    *)

\* What Front and Last take apart, Append puts together.
LEMMA FrontLast ==
  ASSUME NEW S, NEW s \in Seq(S), s # <<>>
  PROVE  /\ Front(s) \in Seq(S) /\ Last(s) \in S /\ Len(Front(s)) = Len(s) - 1
         /\ \A i \in 1 .. Len(s) - 1 : Front(s)[i] = s[i]
         /\ Append(Front(s), Last(s)) = s
<1>1. Len(s) \in Nat \ {0} /\ \A i \in 1 .. Len(s) : s[i] \in S
  BY EmptySeq, LenProperties, ElementOfSeq
<1>2. /\ Front(s) \in Seq(S) /\ Len(Front(s)) = Len(s) - 1
      /\ \A i \in 1 .. Len(s) - 1 : Front(s)[i] = s[i]
  <2> DEFINE m == Len(s) - 1
             f == SubSeq(s, 1, m)
  <2>1. Front(s) = f
    BY DEF Front
  <2>2. m \in Nat /\ \A i \in 1 .. m : s[i] \in S
    BY <1>1
  <2> HIDE DEF m
  <2>3. /\ f \in Seq(S) /\ Len(f) = IF 1 <= m THEN m - 1 + 1 ELSE 0
        /\ \A i \in 1 .. m - 1 + 1 : f[i] = s[1 + i - 1]
    BY <2>2, SubSeqProperties
  <2> HIDE DEF f
  <2>4. Len(f) = m /\ \A i \in 1 .. m : f[i] = s[i]
    <3>1. m - 1 + 1 = m /\ (1 <= m \/ m = 0) /\ \A i \in 1 .. m : 1 + i - 1 = i
      BY <2>2
    <3> QED
      BY <2>3, <3>1
  <2> QED
    BY <2>1, <2>3, <2>4 DEF m
<1>3. Last(s) \in S /\ Last(s) = s[Len(s)]
  BY <1>1 DEF Last
<1>4. Append(Front(s), Last(s)) = s
  <2> DEFINE a == Append(Front(s), Last(s))
  <2>1. /\ a \in Seq(S) /\ Len(a) = Len(s)
        /\ \A i \in 1 .. Len(s) - 1 : a[i] = s[i]
        /\ a[Len(s)] = s[Len(s)]
    BY <1>1, <1>2, <1>3, AppendProperties
  <2> HIDE DEF a
  <2>2. \A i \in 1 .. Len(a) : a[i] = s[i]
    BY <1>1, <2>1
  <2>3. a = s
    BY <2>1, <2>2, SeqEqual
  <2> QED
    BY <2>3 DEF a
<1> QED
  BY <1>2, <1>3, <1>4

\* Appending an element makes it the last one and leaves the rest in front.
LEMMA LastAppend ==
  ASSUME NEW S, NEW s \in Seq(S), NEW e \in S
  PROVE  /\ Append(s, e) \in Seq(S) /\ Append(s, e) # <<>> /\ Len(Append(s, e)) = Len(s) + 1
         /\ Front(Append(s, e)) = s /\ Last(Append(s, e)) = e
<1> DEFINE a == Append(s, e)
<1>1. a \in Seq(S) /\ a # <<>> /\ Len(a) = Len(s) + 1 /\ a[Len(s) + 1] = e
  BY AppendProperties
<1>2. Front(a) \in Seq(S) /\ Last(a) \in S /\ Append(Front(a), Last(a)) = Append(s, e)
  BY <1>1, FrontLast
<1> QED
  BY <1>1, <1>2, AppendInjective

\* A prefix agrees with the sequence as far as it goes.
LEMMA PrefixDef ==
  ASSUME NEW S, NEW p \in Seq(S), NEW q \in Seq(S)
  PROVE  IsPrefix(p, q) <=> Len(p) <= Len(q) /\ \A i \in 1 .. Len(p) : p[i] = q[i]
<1> DEFINE m == Len(p)
<1>1. /\ m \in Nat /\ Len(q) \in Nat
      /\ \A i \in 1 .. m : p[i] \in S
      /\ \A i \in 1 .. Len(q) : q[i] \in S
  BY LenProperties, ElementOfSeq
<1>2. IsPrefix(p, q) <=> m <= Len(q) /\ SubSeq(p, 1, m) = SubSeq(q, 1, m)
  BY DEF IsPrefix
<1>3. ASSUME m <= Len(q)
      PROVE  SubSeq(p, 1, m) = SubSeq(q, 1, m) <=> \A i \in 1 .. m : p[i] = q[i]
  <2> DEFINE f == SubSeq(p, 1, m)
             g == SubSeq(q, 1, m)
  <2> HIDE DEF m
  <2>1. \A i \in 1 .. m : q[i] \in S
    BY <1>1, <1>3
  <2>2. /\ f \in Seq(S) /\ Len(f) = IF 1 <= m THEN m - 1 + 1 ELSE 0
        /\ \A i \in 1 .. m - 1 + 1 : f[i] = p[1 + i - 1]
    BY <1>1, SubSeqProperties
  <2>3. /\ g \in Seq(S) /\ Len(g) = IF 1 <= m THEN m - 1 + 1 ELSE 0
        /\ \A i \in 1 .. m - 1 + 1 : g[i] = q[1 + i - 1]
    BY <1>1, <2>1, SubSeqProperties
  <2> HIDE DEF f, g
  <2>4. m - 1 + 1 = m /\ (1 <= m \/ m = 0) /\ \A i \in 1 .. m : 1 + i - 1 = i
    BY <1>1
  <2>5. /\ Len(f) = m /\ \A i \in 1 .. m : f[i] = p[i]
        /\ Len(g) = m /\ \A i \in 1 .. m : g[i] = q[i]
    BY <2>2, <2>3, <2>4
  <2>6. f = g <=> \A i \in 1 .. m : f[i] = g[i]
    BY <2>2, <2>3, <2>5, SeqEqual
  <2>7. f = g <=> \A i \in 1 .. m : p[i] = q[i]
    BY <2>5, <2>6
  <2> QED
    BY <2>7 DEF f, g
<1> HIDE DEF m
<1>4. IsPrefix(p, q) <=> m <= Len(q) /\ \A i \in 1 .. m : p[i] = q[i]
  BY <1>2, <1>3
<1> QED
  BY <1>4 DEF m

\* Every sequence begins with itself.
LEMMA PrefixSelf ==
  ASSUME NEW S, NEW p \in Seq(S)
  PROVE  IsPrefix(p, p)
BY PrefixDef, LenProperties

\* What a sequence begins with, a longer one begins with too.
LEMMA PrefixAppend ==
  ASSUME NEW S, NEW p \in Seq(S), NEW q \in Seq(S), NEW e \in S, IsPrefix(p, q)
  PROVE  IsPrefix(p, Append(q, e))
<1>1. /\ Append(q, e) \in Seq(S) /\ Len(Append(q, e)) = Len(q) + 1
      /\ \A i \in 1 .. Len(q) : Append(q, e)[i] = q[i]
  BY AppendProperties
<1>2. Len(p) \in Nat /\ Len(q) \in Nat /\ Len(p) <= Len(q) /\ \A i \in 1 .. Len(p) : p[i] = q[i]
  BY PrefixDef, LenProperties
<1>3. Len(p) <= Len(Append(q, e)) /\ \A i \in 1 .. Len(p) : p[i] = Append(q, e)[i]
  BY <1>1, <1>2
<1> QED
  BY <1>1, <1>3, PrefixDef

\* A prefix that is not all of a sequence is one of its front.
LEMMA PrefixFront ==
  ASSUME NEW S, NEW p \in Seq(S), NEW q \in Seq(S), IsPrefix(p, q), p # q
  PROVE  q # <<>> /\ Len(p) < Len(q) /\ IsPrefix(p, Front(q))
<1>1. Len(p) \in Nat /\ Len(q) \in Nat /\ Len(p) <= Len(q) /\ \A i \in 1 .. Len(p) : p[i] = q[i]
  BY PrefixDef, LenProperties
<1>2. Len(p) < Len(q)
  BY <1>1, SeqEqual
<1>3. q # <<>>
  BY <1>1, <1>2, EmptySeq
<1>4. /\ Front(q) \in Seq(S) /\ Len(Front(q)) = Len(q) - 1
      /\ \A i \in 1 .. Len(q) - 1 : Front(q)[i] = q[i]
  BY <1>3, FrontLast
<1>5. Len(p) <= Len(Front(q)) /\ \A i \in 1 .. Len(p) : p[i] = Front(q)[i]
  BY <1>1, <1>2, <1>4
<1> QED
  BY <1>2, <1>3, <1>4, <1>5, PrefixDef

\* The step from a prefix towards the sequence.
LEMMA PrefixNext ==
  ASSUME NEW S, NEW p \in Seq(S), NEW q \in Seq(S), IsPrefix(p, q), p # q
  PROVE  q[Len(p) + 1] \in S /\ IsPrefix(Append(p, q[Len(p) + 1]), q)
<1> DEFINE e == q[Len(p) + 1]
           a == Append(p, e)
<1>1. /\ Len(p) \in Nat /\ Len(q) \in Nat /\ Len(p) < Len(q)
      /\ \A i \in 1 .. Len(p) : p[i] = q[i]
  BY PrefixDef, PrefixFront, LenProperties
<1>2. e \in S
  <2>1. Len(p) + 1 \in 1 .. Len(q)
    BY <1>1
  <2> QED
    BY <2>1, ElementOfSeq
<1>3. /\ a \in Seq(S) /\ Len(a) = Len(p) + 1 /\ a[Len(p) + 1] = e
      /\ \A i \in 1 .. Len(p) : a[i] = p[i]
  BY <1>2, AppendProperties
<1> HIDE DEF a
<1>4. Len(a) <= Len(q) /\ \A i \in 1 .. Len(a) : a[i] = q[i]
  BY <1>1, <1>3
<1>5. IsPrefix(a, q)
  BY <1>3, <1>4, PrefixDef
<1> QED
  BY <1>2, <1>5 DEF a

\* A path is a sequence of names that is not too long.
LEMMA PathIsSeq ==
  ASSUME NEW p
  PROVE  p \in Paths <=> p \in Seq(Names) /\ Len(p) <= MaxDepth
<1>1. ASSUME p \in Paths PROVE p \in Seq(Names) /\ Len(p) <= MaxDepth
  <2>1. PICK n \in 0 .. MaxDepth : p \in [1 .. n -> Names]
    BY <1>1 DEF Paths
  <2>2. n \in Nat /\ p \in Seq(Names) /\ Len(p) = n
    BY <2>1, DepthAssumption
  <2> QED
    BY <2>1, <2>2, DepthAssumption
<1>2. ASSUME p \in Seq(Names), Len(p) <= MaxDepth PROVE p \in Paths
  <2>1. Len(p) \in 0 .. MaxDepth /\ p \in [1 .. Len(p) -> Names]
    BY <1>2, LenProperties, DepthAssumption
  <2> QED
    BY <2>1 DEF Paths
<1> QED
  BY <1>1, <1>2

\* The root is a path of no names.
LEMMA RootIsPath == Root \in Paths /\ Len(Root) = 0
<1>1. Root \in Seq(Names) /\ Len(Root) = 0
  BY EmptySeq DEF Root
<1>2. Len(Root) <= MaxDepth
  BY <1>1, DepthAssumption
<1> QED
  BY <1>1, <1>2, PathIsSeq

\* Paths are made of a parent and a name, except the root.
LEMMA ParentPath ==
  ASSUME NEW p \in Paths, p # Root
  PROVE  /\ Front(p) \in Paths /\ Last(p) \in Names /\ Len(Front(p)) < MaxDepth
         /\ Len(p) = Len(Front(p)) + 1 /\ Append(Front(p), Last(p)) = p
<1>1. p \in Seq(Names) /\ Len(p) <= MaxDepth /\ p # <<>> /\ Len(p) \in Nat
  BY PathIsSeq, LenProperties DEF Root
<1>2. /\ Front(p) \in Seq(Names) /\ Last(p) \in Names /\ Len(Front(p)) = Len(p) - 1
      /\ Append(Front(p), Last(p)) = p
  BY <1>1, FrontLast
<1>3. Len(Front(p)) <= MaxDepth /\ Len(Front(p)) < MaxDepth /\ Len(p) = Len(Front(p)) + 1
  BY <1>1, <1>2, DepthAssumption
<1> QED
  BY <1>2, <1>3, PathIsSeq

\* The path of an entry of a directory, and how to get back to the directory.
LEMMA ChildPath ==
  ASSUME NEW p \in Paths, NEW n \in Names, Len(p) < MaxDepth
  PROVE  /\ Append(p, n) \in Paths /\ Append(p, n) # Root /\ Len(Append(p, n)) = Len(p) + 1
         /\ Front(Append(p, n)) = p /\ Last(Append(p, n)) = n
<1>1. p \in Seq(Names) /\ Len(p) \in Nat
  BY PathIsSeq, LenProperties
<1>2. /\ Append(p, n) \in Seq(Names) /\ Append(p, n) # <<>> /\ Len(Append(p, n)) = Len(p) + 1
      /\ Front(Append(p, n)) = p /\ Last(Append(p, n)) = n
  BY <1>1, LastAppend
<1>3. Len(Append(p, n)) <= MaxDepth
  BY <1>1, <1>2, DepthAssumption
<1> QED
  BY <1>2, <1>3, PathIsSeq DEF Root

-----------------------------------------------------------------------------
(* Types.                                                                  *)

\* The stack of a task that is inside fs_remove.
LEMMA StackType ==
  ASSUME FsTypeOK, NEW t \in Tasks, Removing(t)
  PROVE  /\ frames[t] \in Seq(Frames) /\ Top(t) \in Frames /\ Front(frames[t]) \in Seq(Frames)
         /\ \A f \in Frames : SetTop(t, f) \in [Tasks -> Seq(Frames)]
<1>1. frames \in [Tasks -> Seq(Frames)] /\ frames[t] \in Seq(Frames) /\ frames[t] # <<>>
  BY DEF FsTypeOK, Removing
<1>2. Last(frames[t]) \in Frames /\ Front(frames[t]) \in Seq(Frames)
  BY <1>1, FrontLast
<1>3. \A f \in Frames : Append(Front(frames[t]), f) \in Seq(Frames)
  BY <1>2, AppendProperties
<1> QED
  BY <1>1, <1>2, <1>3 DEF Top, SetTop

\* An iterator that forgets an entry is still an iterator.
LEMMA ForgetType ==
  /\ \A f \in Frames : \A p : Forget(f, p) \in Frames
  /\ \A d \in DirRecords : \A p : Forget(d, p) \in DirRecords
<1>1. ASSUME NEW f \in Frames, NEW p PROVE Forget(f, p) \in Frames
  BY DEF Forget, Frames
<1>2. ASSUME NEW d \in DirRecords, NEW p PROVE Forget(d, p) \in DirRecords
  BY DEF Forget, DirRecords
<1> QED
  BY <1>1, <1>2

\* The initial values of nodes, files, iterators and records have their types.
LEMMA ConstantTypes ==
  /\ Dir \in Nodes /\ Absent \in Nodes /\ \A d \in Contents : File(d) \in Nodes
  /\ ClosedFile \in FileRecords /\ ClosedDir \in DirRecords /\ NoRemove \in Records
  /\ \A p \in Paths : Frame(p) \in Frames
<1>1. <<>> \in Contents
  BY EmptySeq DEF Contents
<1> QED
  BY <1>1, RootIsPath DEF Dir, Absent, File, Nodes, ClosedFile, FileRecords, ClosedDir,
     DirRecords, NoRemove, Records, Frame, Frames

\* Creating a file keeps the types of what it changes.
LEMMA CreateType ==
  ASSUME FsTypeOK, NEW p \in Paths, CreateFile(p)
  PROVE  disk' \in [Paths -> Nodes] /\ rm' \in [Tasks -> Records]
<1>1. File(<<>>) \in Nodes
  BY ConstantTypes, EmptySeq DEF Contents
<1>2. disk' \in [Paths -> Nodes]
  BY <1>1 DEF FsTypeOK, CreateFile
<1>3. rm' \in [Tasks -> Records]
  BY ConstantTypes DEF FsTypeOK, CreateFile, Created
<1> QED
  BY <1>2, <1>3

\* fs_open keeps the types of what it changes.
LEMMA OpenType ==
  ASSUME FsTypeOK, NEW p \in Paths, NEW mode \in {"r", "w", "a"}, NEW h \in Addrs,
         NEW err \in BOOLEAN, fs_open(p, mode, h, err)
  PROVE  /\ disk' \in [Paths -> Nodes] /\ files' \in [Addrs -> FileRecords]
         /\ heap' \subseteq Addrs /\ rm' \in [Tasks -> Records]
<1>1. disk' \in [Paths -> Nodes] /\ rm' \in [Tasks -> Records] /\ heap' \subseteq Addrs
  BY CreateType DEF FsTypeOK, fs_open, OpenFails
<1>2. files' \in [Addrs -> FileRecords]
  <2>1. disk[p].data \in Contents /\ <<>> \in Contents
    BY EmptySeq DEF FsTypeOK, Nodes, Contents
  <2> DEFINE f == [open |-> TRUE, path |-> p, mode |-> mode, pos |-> 0,
           data |-> IF Truncates(mode) THEN <<>> ELSE disk[p].data, base |-> disk[p].data,
           dirty |-> Truncates(mode) /\ disk[p].kind = "file",
           erred |-> FALSE, orphan |-> FALSE]
  <2>2. f \in FileRecords
    BY <2>1 DEF FileRecords
  <2>3. files' = [files EXCEPT ![h] = f] \/ files' = files
    BY DEF fs_open
  <2> HIDE DEF f
  <2> QED
    BY <2>2, <2>3 DEF FsTypeOK
<1> QED
  BY <1>1, <1>2

\* fs_close keeps the types of what it changes.
LEMMA CloseType ==
  ASSUME FsTypeOK, NEW h \in Addrs, NEW err \in BOOLEAN, fs_close(h, err)
  PROVE  /\ disk' \in [Paths -> Nodes] /\ files' \in [Addrs -> FileRecords]
         /\ heap' \subseteq Addrs
<1>1. files[h].path \in Paths /\ File(files[h].data) \in Nodes
  BY ConstantTypes DEF FsTypeOK, FileRecords
<1> QED
  BY <1>1, ConstantTypes DEF FsTypeOK, fs_close

\* A position never becomes negative, whatever is read.
LEMMA ReadType ==
  ASSUME FsTypeOK, NEW h \in Addrs, NEW n \in Nat, fs_seek(h, n) \/ fs_read(h, n)
  PROVE  files' \in [Addrs -> FileRecords]
<1>1. files[h] \in FileRecords
  BY DEF FsTypeOK
<1>2. ASSUME NEW m \in Nat PROVE [files[h] EXCEPT !.pos = m] \in FileRecords
  BY <1>1 DEF FileRecords
<1>3. Len(Bytes_at(h, n)) \in Nat
  <2> DEFINE end == IF files[h].pos + n < Len(files[h].data)
                      THEN files[h].pos + n ELSE Len(files[h].data)
             from == files[h].pos + 1
             data == files[h].data
  <2>1. data \in Contents /\ from \in 1 .. from /\ from \in Nat \ {0} /\ Len(data) \in Nat
    BY <1>1, LenProperties DEF FileRecords, Contents
  <2>2. end \in Nat /\ end <= Len(data)
    BY <1>1, <2>1 DEF FileRecords
  <2>3. Bytes_at(h, n) = SubSeq(data, from, end)
    BY DEF Bytes_at
  <2> HIDE DEF end, from, data
  <2>4. \A i \in from .. end : data[i] \in Bytes \cup {0}
    BY <2>1, <2>2, ElementOfSeq DEF Contents
  <2>5. SubSeq(data, from, end) \in Seq(Bytes \cup {0})
    BY <2>1, <2>2, <2>4, SubSeqProperties
  <2> QED
    BY <2>3, <2>5, LenProperties
<1>4. files[h].pos + Len(Bytes_at(h, n)) \in Nat
  BY <1>1, <1>3 DEF FileRecords
<1>5. \E m \in Nat : files' = [files EXCEPT ![h] = [files[h] EXCEPT !.pos = m]]
  <2>1. CASE fs_seek(h, n)
    BY <2>1 DEF fs_seek, FsTypeOK
  <2>2. CASE fs_read(h, n)
    BY <2>2, <1>4 DEF fs_read, FsTypeOK
  <2> QED
    BY <2>1, <2>2
<1> QED
  BY <1>2, <1>5 DEF FsTypeOK

\* What is written behind the end fills the gap with bytes.
LEMMA OverwriteType ==
  ASSUME NEW data \in Contents, NEW pos \in Nat, NEW bytes \in Seq(Bytes)
  PROVE  /\ Overwrite(data, pos, bytes) \in Contents
         /\ Len(Overwrite(data, pos, bytes)) =
              IF pos + Len(bytes) > Len(data) THEN pos + Len(bytes) ELSE Len(data)
<1> DEFINE len == IF pos + Len(bytes) > Len(data) THEN pos + Len(bytes) ELSE Len(data)
           e(n) == IF n \in pos + 1 .. pos + Len(bytes) THEN bytes[n - pos]
                   ELSE IF n <= Len(data) THEN data[n] ELSE 0
<1>1. Len(data) \in Nat /\ Len(bytes) \in Nat /\ len \in Nat
  BY LenProperties DEF Contents
<1>2. ASSUME NEW n \in 1 .. len PROVE e(n) \in Bytes \cup {0}
  <2>1. CASE n \in pos + 1 .. pos + Len(bytes)
    <3>1. n - pos \in 1 .. Len(bytes)
      BY <1>1, <2>1
    <3>2. bytes[n - pos] \in Bytes
      BY <3>1, ElementOfSeq
    <3> QED
      BY <2>1, <3>2
  <2>2. CASE n \notin pos + 1 .. pos + Len(bytes) /\ n <= Len(data)
    <3>1. n \in 1 .. Len(data)
      BY <1>1, <2>2
    <3>2. data[n] \in Bytes \cup {0}
      BY <3>1, ElementOfSeq DEF Contents
    <3> QED
      BY <2>2, <3>2
  <2>3. CASE n \notin pos + 1 .. pos + Len(bytes) /\ ~(n <= Len(data))
    BY <2>3
  <2> QED
    BY <2>1, <2>2, <2>3
<1>3. Overwrite(data, pos, bytes) = [n \in 1 .. len |-> e(n)]
  BY DEF Overwrite
<1> HIDE DEF len, e
<1>4. [n \in 1 .. len |-> e(n)] \in Seq(Bytes \cup {0})
  BY <1>1, <1>2, IsASeq
<1>5. Len([n \in 1 .. len |-> e(n)]) = len
  BY <1>1, <1>4, LenProperties
<1> QED
  BY <1>3, <1>4, <1>5 DEF Contents, len

\* fs_write keeps the types of the open files.
LEMMA WriteType ==
  ASSUME FsTypeOK, NEW h \in Addrs, NEW bytes \in Seq(Bytes), NEW err \in BOOLEAN,
         fs_write(h, bytes, err)
  PROVE  files' \in [Addrs -> FileRecords]
<1> DEFINE f == files[h]
           pos == IF f.mode = "a" THEN Len(f.data) ELSE f.pos
           g == IF err THEN [f EXCEPT !.erred = TRUE]
                ELSE [f EXCEPT !.data = Overwrite(f.data, pos, bytes), !.dirty = TRUE,
                               !.pos = pos + Len(bytes)]
<1>1. f \in FileRecords /\ f.data \in Contents
  BY DEF FsTypeOK, FileRecords
<1>2. pos \in Nat /\ pos + Len(bytes) \in Nat
  BY <1>1, LenProperties DEF FileRecords, Contents
<1>3. Overwrite(f.data, pos, bytes) \in Contents
  BY <1>1, <1>2, OverwriteType
<1>4. files' = [files EXCEPT ![h] = g]
  BY DEF fs_write
<1>5. g \in FileRecords
  <2> HIDE DEF pos
  <2> QED
    BY <1>1, <1>2, <1>3 DEF FileRecords
<1> HIDE DEF g
<1> QED
  BY <1>4, <1>5 DEF FsTypeOK

\* What a handle is open on stays what it is while the file is used.
LEMMA UseKeeps ==
  ASSUME FsTypeOK, NEW h \in Addrs,
         \/ \E n \in Nat : fs_seek(h, n) \/ fs_read(h, n)
         \/ \E bytes \in Seq(Bytes), err \in BOOLEAN : fs_write(h, bytes, err)
  PROVE  /\ \A a \in Addrs \ {h} : files'[a] = files[a]
         /\ files'[h].open = files[h].open /\ files'[h].path = files[h].path
         /\ files'[h].orphan = files[h].orphan /\ files'[h].mode = files[h].mode
         /\ files'[h].base = files[h].base
<1>1. files[h] \in FileRecords /\ files \in [Addrs -> FileRecords]
  BY DEF FsTypeOK
<1>2. CASE \E n \in Nat : fs_seek(h, n) \/ fs_read(h, n)
  BY <1>1, <1>2 DEF fs_seek, fs_read, FileRecords
<1>3. ASSUME NEW bytes \in Seq(Bytes), NEW err \in BOOLEAN, fs_write(h, bytes, err)
      PROVE  /\ \A a \in Addrs \ {h} : files'[a] = files[a]
             /\ files'[h].open = files[h].open /\ files'[h].path = files[h].path
             /\ files'[h].orphan = files[h].orphan /\ files'[h].mode = files[h].mode
             /\ files'[h].base = files[h].base
  <2>1. CASE err
    BY <1>1, <1>3, <2>1 DEF fs_write, FileRecords
  <2>2. CASE ~err
    BY <1>1, <1>3, <2>2 DEF fs_write, FileRecords
  <2> QED
    BY <2>1, <2>2
<1> QED
  BY <1>2, <1>3

\* fs_mkdir keeps the types of what it changes.
LEMMA MkdirType ==
  ASSUME FsTypeOK, NEW p \in Paths, NEW err \in BOOLEAN, fs_mkdir(p, err)
  PROVE  disk' \in [Paths -> Nodes] /\ rm' \in [Tasks -> Records]
<1>1. disk' \in [Paths -> Nodes]
  BY ConstantTypes DEF FsTypeOK, fs_mkdir
<1>2. rm' \in [Tasks -> Records]
  BY ConstantTypes DEF FsTypeOK, fs_mkdir, Created
<1> QED
  BY <1>1, <1>2

\* The entries of a directory are names.
LEMMA EntriesAreNames == \A p : Entries(p) \subseteq Names
BY DEF Entries

\* The calls on directories keep the types of the iterators and of the heap.
LEMMA DirType ==
  ASSUME FsTypeOK, NEW h \in Addrs,
         \/ \E p \in Paths, err \in BOOLEAN : fs_dir_open(p, h, err)
         \/ \E n \in Names : fs_dir_read(h, n) /\ UNCHANGED heap
         \/ fs_dir_close(h)
  PROVE  dirs' \in [Addrs -> DirRecords] /\ heap' \subseteq Addrs
<1>1. CASE \E p \in Paths, err \in BOOLEAN : fs_dir_open(p, h, err)
  <2>1. PICK p \in Paths, err \in BOOLEAN : fs_dir_open(p, h, err)
    BY <1>1
  <2> DEFINE d == [open |-> TRUE, path |-> p, at |-> Entries(p), last |-> 0]
  <2>2. d \in DirRecords
    BY EntriesAreNames DEF DirRecords
  <2>3. /\ dirs' = [dirs EXCEPT ![h] = d] \/ dirs' = dirs
        /\ heap' = heap \cup {h} \/ heap' = heap
    BY <2>1 DEF fs_dir_open
  <2> HIDE DEF d
  <2> QED
    BY <2>2, <2>3 DEF FsTypeOK
<1>2. CASE \E n \in Names : fs_dir_read(h, n) /\ UNCHANGED heap
  BY <1>2 DEF FsTypeOK, fs_dir_read, Advance, DirRecords
<1>3. CASE fs_dir_close(h)
  BY <1>3, ConstantTypes DEF FsTypeOK, fs_dir_close
<1> QED
  BY <1>1, <1>2, <1>3

\* An activation of fs_remove that opens its directory keeps the types.
LEMMA EnterType ==
  ASSUME FsTypeOK, NEW t \in Tasks, NEW err \in BOOLEAN, RemoveEnter(t, err)
  PROVE  frames' \in [Tasks -> Seq(Frames)] /\ rm' \in [Tasks -> Records]
<1>1. Top(t) \in Frames /\ \A f \in Frames : SetTop(t, f) \in [Tasks -> Seq(Frames)]
  BY StackType DEF RemoveEnter
<1> DEFINE f == IF ~err /\ disk[Top(t).path].kind = "dir"
                  THEN [Top(t) EXCEPT !.phase = "read", !.at = Entries(Top(t).path)]
                  ELSE [Top(t) EXCEPT !.phase = "remove"]
<1>2. f \in Frames
  BY <1>1, EntriesAreNames DEF Frames
<1>3. frames' = SetTop(t, f)
  BY DEF RemoveEnter
<1>4. rm' \in [Tasks -> Records]
  BY ConstantTypes DEF RemoveEnter, Disturb, FsTypeOK
<1> HIDE DEF f
<1> QED
  BY <1>1, <1>2, <1>3, <1>4

\* An activation of fs_remove that reads its directory keeps the types.
LEMMA ReadingType ==
  ASSUME FsTypeOK, NEW t \in Tasks, NEW err \in BOOLEAN, RemoveRead(t, err)
  PROVE  frames' \in [Tasks -> Seq(Frames)] /\ rm' \in [Tasks -> Records]
<1>1. /\ frames[t] \in Seq(Frames) /\ Top(t) \in Frames /\ Front(frames[t]) \in Seq(Frames)
      /\ \A f \in Frames : SetTop(t, f) \in [Tasks -> Seq(Frames)]
  BY StackType DEF RemoveRead
<1>2. rm' \in [Tasks -> Records]
  BY ConstantTypes DEF RemoveRead, Disturb, FsTypeOK
<1>3. CASE frames' = SetTop(t, [Top(t) EXCEPT !.phase = "remove"])
  <2>1. [Top(t) EXCEPT !.phase = "remove"] \in Frames
    BY <1>1 DEF Frames
  <2> QED
    BY <1>1, <1>2, <1>3, <2>1
<1>4. ASSUME NEW n \in lfs_dir_read(Top(t)),
             frames' = [frames EXCEPT ![t] =
               Append(Append(Front(@), Advance(Top(t), n)), Frame(Append(Top(t).path, n)))]
      PROVE  frames' \in [Tasks -> Seq(Frames)]
  <2>1. n \in Names /\ Len(Top(t).path) < MaxDepth /\ Top(t).path \in Paths
    BY <1>1, <1>4 DEF lfs_dir_read, Ahead, Entries, Frames
  <2>2. Frame(Append(Top(t).path, n)) \in Frames
    BY <2>1, ChildPath, ConstantTypes
  <2>3. Advance(Top(t), n) \in Frames
    BY <1>1, <2>1 DEF Advance, Frames
  <2>4. Append(Front(frames[t]), Advance(Top(t), n)) \in Seq(Frames)
    BY <1>1, <2>3, AppendProperties
  <2>5. Append(Append(Front(frames[t]), Advance(Top(t), n)), Frame(Append(Top(t).path, n)))
          \in Seq(Frames)
    BY <2>2, <2>4, AppendProperties
  <2> QED
    BY <1>4, <2>5 DEF FsTypeOK
<1> QED
  BY <1>2, <1>3, <1>4 DEF RemoveRead

\* Forgetting a removed entry keeps the shape of every stack.
LEMMA ForgetStack ==
  ASSUME NEW s \in Seq(Frames), NEW p
  PROVE  /\ [d \in DOMAIN s |-> Forget(s[d], p)] \in Seq(Frames)
         /\ Len([d \in DOMAIN s |-> Forget(s[d], p)]) = Len(s)
         /\ \A d \in 1 .. Len(s) : [e \in DOMAIN s |-> Forget(s[e], p)][d] = Forget(s[d], p)
<1>1. Len(s) \in Nat /\ DOMAIN s = 1 .. Len(s)
  BY LenProperties
<1>2. \A d \in 1 .. Len(s) : Forget(s[d], p) \in Frames
  BY ElementOfSeq, ForgetType
<1>3. [d \in 1 .. Len(s) |-> Forget(s[d], p)] \in Seq(Frames)
  BY <1>1, <1>2, IsASeq
<1>4. Len([d \in 1 .. Len(s) |-> Forget(s[d], p)]) = Len(s)
  BY <1>1, <1>3, LenProperties
<1> QED
  BY <1>1, <1>3, <1>4

\* The lfs_remove at the end of an activation of fs_remove keeps all types.
LEMMA LastType ==
  ASSUME FsTypeOK, NEW t \in Tasks, NEW err \in BOOLEAN, RemoveLast(t, err)
  PROVE  FsTypeOK'
<1> DEFINE p == Top(t).path
           rest == [frames EXCEPT ![t] = Front(@)]
<1>1. frames[t] \in Seq(Frames) /\ Top(t) \in Frames /\ Front(frames[t]) \in Seq(Frames)
  BY StackType DEF RemoveLast
<1>2. p \in Paths /\ rest \in [Tasks -> Seq(Frames)]
  BY <1>1 DEF FsTypeOK, Frames
<1>3. rm' \in [Tasks -> Records]
  <2>1. \A u \in Tasks : rm'[u] \in {NoRemove, rm[u], [rm[u] EXCEPT !.ret = "ok"],
                           [rm[u] EXCEPT !.ret = "error"], [rm[u] EXCEPT !.found = FALSE]}
    BY DEF RemoveLast, FsTypeOK
  <2>2. ASSUME NEW u \in Tasks PROVE rm'[u] \in Records
    <3>1. /\ rm[u] \in Records /\ [rm[u] EXCEPT !.ret = "ok"] \in Records
          /\ [rm[u] EXCEPT !.ret = "error"] \in Records
          /\ [rm[u] EXCEPT !.found = FALSE] \in Records
      BY DEF FsTypeOK, Records
    <3> QED
      BY <2>1, <3>1, ConstantTypes
  <2>3. rm' = [u \in Tasks |-> rm'[u]]
    BY DEF RemoveLast
  <2> QED
    BY <2>2, <2>3
<1>4. disk' \in [Paths -> Nodes]
  BY ConstantTypes DEF FsTypeOK, RemoveLast
<1>5. dirs' \in [Addrs -> DirRecords]
  BY ForgetType DEF FsTypeOK, RemoveLast
<1>6. files' \in [Addrs -> FileRecords]
  <2>1. \A h \in Addrs : [files[h] EXCEPT !.orphan = TRUE] \in FileRecords
    BY DEF FsTypeOK, FileRecords
  <2>2. \/ files' = [h \in Addrs |-> IF files[h].open /\ files[h].path = p
                        THEN [files[h] EXCEPT !.orphan = TRUE] ELSE files[h]]
        \/ files' = files
    BY DEF RemoveLast
  <2> QED
    BY <2>1, <2>2 DEF FsTypeOK
<1>7. frames' \in [Tasks -> Seq(Frames)]
  <2>1. \A u \in Tasks : [d \in DOMAIN rest[u] |-> Forget(rest[u][d], p)] \in Seq(Frames)
    BY <1>2, ForgetStack
  <2>2. \/ frames' = [u \in Tasks |-> [d \in DOMAIN rest[u] |-> Forget(rest[u][d], p)]]
        \/ frames' = rest
    BY DEF RemoveLast
  <2> QED
    BY <1>2, <2>1, <2>2
<1>8. heap' \subseteq Addrs
  BY DEF FsTypeOK, RemoveLast
<1> QED
  BY <1>3, <1>4, <1>5, <1>6, <1>7, <1>8 DEF FsTypeOK

\* Mounting, with or without formatting, keeps all types.
LEMMA InitType == fs_init /\ FsTypeOK => FsTypeOK'
<1> SUFFICES ASSUME fs_init, FsTypeOK PROVE FsTypeOK'
  OBVIOUS
<1>1. Formatted \in [Paths -> Nodes]
  BY ConstantTypes DEF Formatted
<1>2. <<>> \in Seq(Frames)
  BY EmptySeq
<1> QED
  BY <1>1, <1>2, ConstantTypes DEF FsTypeOK, fs_init

\* FsTypeOK is inductive.
LEMMA FsTypeStep == FsTypeOK /\ [FsNext]_fsVars => FsTypeOK'
<1> SUFFICES ASSUME FsTypeOK, [FsNext]_fsVars PROVE FsTypeOK'
  OBVIOUS
<1>1. ASSUME NEW h \in Addrs \ heap, NEW p \in Paths, NEW err \in BOOLEAN,
             NEW mode \in {"r", "w", "a"}, fs_open(p, mode, h, err), UNCHANGED <<dirs, frames>>
      PROVE  FsTypeOK'
  BY <1>1, OpenType DEF FsTypeOK
<1>2. ASSUME NEW h \in Addrs \ heap, NEW p \in Paths, NEW err \in BOOLEAN,
             fs_dir_open(p, h, err), UNCHANGED <<disk, files, frames, rm>>
      PROVE  FsTypeOK'
  <2>1. dirs' \in [Addrs -> DirRecords] /\ heap' \subseteq Addrs
    BY <1>2, DirType
  <2> QED
    BY <1>2, <2>1 DEF FsTypeOK
<1>3. ASSUME NEW h \in Addrs, NEW err \in BOOLEAN,
             fs_close(h, err), UNCHANGED <<dirs, frames, rm>>
      PROVE  FsTypeOK'
  BY <1>3, CloseType DEF FsTypeOK
<1>4. ASSUME NEW h \in Addrs, NEW n \in Nat, fs_seek(h, n) \/ fs_read(h, n),
             UNCHANGED <<disk, dirs, heap, frames, rm>>
      PROVE  FsTypeOK'
  BY <1>4, ReadType DEF FsTypeOK
<1>5. ASSUME NEW h \in Addrs, NEW bytes \in Seq(Bytes), NEW err \in BOOLEAN,
             fs_write(h, bytes, err), UNCHANGED <<disk, dirs, heap, frames, rm>>
      PROVE  FsTypeOK'
  BY <1>5, WriteType DEF FsTypeOK
<1>6. ASSUME NEW h \in Addrs, UNCHANGED <<disk, files, frames, rm>>,
             \/ \E n \in Names : fs_dir_read(h, n) /\ UNCHANGED heap
             \/ fs_dir_close(h)
      PROVE  FsTypeOK'
  <2>1. dirs' \in [Addrs -> DirRecords] /\ heap' \subseteq Addrs
    BY <1>6, DirType
  <2> QED
    BY <1>6, <2>1 DEF FsTypeOK
<1>7. ASSUME NEW p \in Paths, NEW err \in BOOLEAN, fs_mkdir(p, err),
             UNCHANGED <<files, dirs, heap, frames>>
      PROVE  FsTypeOK'
  BY <1>7, MkdirType DEF FsTypeOK
<1>8. ASSUME NEW t \in Tasks, NEW p \in Paths \ {Root}, fs_remove(t, p),
             UNCHANGED <<disk, files, dirs, heap>>
      PROVE  FsTypeOK'
  <2>1. <<Frame(p)>> \in Seq(Frames)
    BY ConstantTypes
  <2>2. frames' \in [Tasks -> Seq(Frames)]
    BY <1>8, <2>1 DEF fs_remove, FsTypeOK
  <2>3. rm' \in [Tasks -> Records]
    BY <1>8 DEF fs_remove, FsTypeOK, Records
  <2> QED
    BY <1>8, <2>2, <2>3 DEF FsTypeOK
<1>9. ASSUME NEW t \in Tasks, RemoveStep(t) PROVE FsTypeOK'
  <2>1. ASSUME NEW err \in BOOLEAN, RemoveEnter(t, err) PROVE FsTypeOK'
    BY <2>1, EnterType DEF RemoveEnter, FsTypeOK
  <2>2. ASSUME NEW err \in BOOLEAN, RemoveRead(t, err) PROVE FsTypeOK'
    BY <2>2, ReadingType DEF RemoveRead, FsTypeOK
  <2> QED
    BY <1>9, <2>1, <2>2, LastType DEF RemoveStep
<1>10. ASSUME NEW t \in Tasks, rm' = [rm EXCEPT ![t] = NoRemove],
              UNCHANGED <<disk, files, dirs, heap, frames>>
       PROVE  FsTypeOK'
  BY <1>10, ConstantTypes DEF FsTypeOK
<1>11. CASE UNCHANGED fsVars
  BY <1>11 DEF FsTypeOK, fsVars
<1> QED
  BY <1>1, <1>2, <1>3, <1>4, <1>5, <1>6, <1>7, <1>8, <1>9, <1>10, <1>11, InitType DEF FsNext

\* FsTypeOK holds at the start.
LEMMA FsTypeInit == FsInit => FsTypeOK
<1>1. Formatted \in [Paths -> Nodes] /\ <<>> \in Seq(Frames)
  BY ConstantTypes, EmptySeq DEF Formatted
<1> QED
  BY <1>1, ConstantTypes DEF FsInit, FsTypeOK

\* The file system keeps its types whatever its callers do, whichever call into
\* littlefs fails, and over every restart.
THEOREM FsTypeCorrect == FsSpec => []FsTypeOK
BY FsTypeInit, FsTypeStep, PTL DEF FsSpec

-----------------------------------------------------------------------------
(* The heap: a block is live as long as littlefs has it open.              *)

HeapOK ==
  /\ \A h \in Addrs : h \in heap <=> files[h].open \/ dirs[h].open
  /\ \A h \in Addrs : ~(files[h].open /\ dirs[h].open)

\* HeapOK is inductive, given the types.
LEMMA HeapStep == FsTypeOK /\ HeapOK /\ [FsNext]_fsVars => HeapOK'
<1> SUFFICES ASSUME FsTypeOK, HeapOK, [FsNext]_fsVars PROVE HeapOK'
  OBVIOUS
<1> USE DEF HeapOK
<1>1. ASSUME NEW h \in Addrs \ heap, NEW p \in Paths, NEW err \in BOOLEAN,
             NEW mode \in {"r", "w", "a"}, fs_open(p, mode, h, err), UNCHANGED <<dirs, frames>>
      PROVE  HeapOK'
  <2>1. CASE /\ heap' = heap \cup {h} /\ files'[h].open
             /\ \A a \in Addrs \ {h} : files'[a] = files[a]
    BY <1>1, <2>1
  <2>2. CASE UNCHANGED <<heap, files>>
    BY <1>1, <2>2
  <2> QED
    BY <1>1, <2>1, <2>2 DEF fs_open, OpenFails, FsTypeOK
<1>2. ASSUME NEW h \in Addrs \ heap, NEW p \in Paths, NEW err \in BOOLEAN,
             fs_dir_open(p, h, err), UNCHANGED <<disk, files, frames, rm>>
      PROVE  HeapOK'
  <2>1. CASE /\ heap' = heap \cup {h} /\ dirs'[h].open
             /\ \A a \in Addrs \ {h} : dirs'[a] = dirs[a]
    BY <1>2, <2>1
  <2>2. CASE UNCHANGED <<heap, dirs>>
    BY <1>2, <2>2
  <2> QED
    BY <1>2, <2>1, <2>2 DEF fs_dir_open, FsTypeOK
<1>3. ASSUME NEW h \in Addrs, files[h].open, NEW err \in BOOLEAN,
             fs_close(h, err), UNCHANGED <<dirs, frames, rm>>
      PROVE  HeapOK'
  <2>1. /\ heap' = heap \ {h} /\ ~files'[h].open
        /\ \A a \in Addrs \ {h} : files'[a] = files[a]
    BY <1>3 DEF fs_close, FsTypeOK, ClosedFile
  <2> QED
    BY <1>3, <2>1
<1>4. ASSUME NEW h \in Addrs, files[h].open,
             \/ \E n \in Nat : fs_seek(h, n) \/ fs_read(h, n)
             \/ \E bytes \in Seq(Bytes), err \in BOOLEAN : fs_write(h, bytes, err),
             UNCHANGED <<disk, dirs, heap, frames, rm>>
      PROVE  HeapOK'
  <2>1. \A a \in Addrs : files'[a].open = files[a].open
    BY <1>4, UseKeeps
  <2> QED
    BY <1>4, <2>1
<1>5. ASSUME NEW h \in Addrs, dirs[h].open, NEW n \in Names, fs_dir_read(h, n),
             UNCHANGED <<disk, files, heap, frames, rm>>
      PROVE  HeapOK'
  <2>1. \A a \in Addrs : dirs'[a].open = dirs[a].open
    BY <1>5 DEF fs_dir_read, Advance, FsTypeOK, DirRecords
  <2> QED
    BY <1>5, <2>1
<1>6. ASSUME NEW h \in Addrs, dirs[h].open, fs_dir_close(h), UNCHANGED <<disk, files, frames, rm>>
      PROVE  HeapOK'
  <2>1. /\ heap' = heap \ {h} /\ ~dirs'[h].open
        /\ \A a \in Addrs \ {h} : dirs'[a] = dirs[a]
    BY <1>6 DEF fs_dir_close, FsTypeOK, ClosedDir
  <2> QED
    BY <1>6, <2>1
<1>7. CASE UNCHANGED <<files, dirs, heap>>
  BY <1>7
<1>8. ASSUME NEW t \in Tasks, NEW err \in BOOLEAN, RemoveLast(t, err) PROVE HeapOK'
  <2>1. \A a \in Addrs : files'[a].open = files[a].open /\ dirs'[a].open = dirs[a].open
    <3>1. \A a \in Addrs : dirs'[a] \in {dirs[a], Forget(dirs[a], Top(t).path)}
      BY <1>8 DEF RemoveLast, FsTypeOK
    <3>2. \A a \in Addrs : Forget(dirs[a], Top(t).path).open = dirs[a].open
      BY DEF Forget, FsTypeOK, DirRecords
    <3>3. \A a \in Addrs : files'[a] \in {files[a], [files[a] EXCEPT !.orphan = TRUE]}
      BY <1>8 DEF RemoveLast, FsTypeOK
    <3>4. \A a \in Addrs : [files[a] EXCEPT !.orphan = TRUE].open = files[a].open
      BY DEF FsTypeOK, FileRecords
    <3> QED
      BY <3>1, <3>2, <3>3, <3>4
  <2> QED
    BY <1>8, <2>1 DEF RemoveLast
<1>9. CASE fs_init
  BY <1>9 DEF fs_init, ClosedFile, ClosedDir
<1>10. ASSUME NEW t \in Tasks, RemoveStep(t) PROVE HeapOK'
  BY <1>7, <1>8, <1>10 DEF RemoveStep, RemoveEnter, RemoveRead
<1> HIDE DEF HeapOK
<1> QED
  BY <1>1, <1>2, <1>3, <1>4, <1>5, <1>6, <1>7, <1>9, <1>10 DEF FsNext, fsVars

\* A block of the heap is live as long as littlefs has it open.
LEMMA FsHeapOK == FsSpec => []HeapOK
<1>1. FsInit => HeapOK
  BY DEF FsInit, HeapOK, ClosedFile, ClosedDir
<1> QED
  BY <1>1, FsTypeCorrect, HeapStep, PTL DEF FsSpec

-----------------------------------------------------------------------------
(* The tree.                                                               *)

\* A directory has an entry for each thing that is in it.
LEMMA ParentHasEntry ==
  ASSUME NEW p \in Paths, p # Root, disk[p].kind # "absent"
  PROVE  Last(p) \in Entries(Front(p))
BY ParentPath DEF Entries

\* In a whole tree only directories have entries.
LEMMA OnlyDirsHaveEntries ==
  ASSUME TreeOK, NEW p \in Paths, disk[p].kind # "dir"
  PROVE  Entries(p) = {}
<1> SUFFICES ASSUME NEW n \in Entries(p) PROVE FALSE
  OBVIOUS
<1>1. n \in Names /\ Len(p) < MaxDepth /\ disk[Append(p, n)].kind # "absent"
  BY DEF Entries
<1>2. Append(p, n) \in Paths /\ Append(p, n) # Root /\ Front(Append(p, n)) = p
  BY <1>1, ChildPath
<1> QED
  BY <1>1, <1>2 DEF TreeOK

\* 0, the start of an iterator, is before every name.
LEMMA NamesPositive == \A n \in Names : n \in Nat /\ n > 0
BY NamesAssumption

\* What is created has a directory to be created in.
LEMMA CreateTree ==
  ASSUME FsTypeOK, TreeOK, NEW p \in Paths, CanCreate(p),
         NEW node \in {Dir, File(<<>>)}, disk' = [disk EXCEPT ![p] = node]
  PROVE  /\ disk'[Root] = Dir
         /\ \A q \in Paths : disk'[q].kind # "absent" /\ q # Root => disk'[Front(q)].kind = "dir"
         /\ \A q \in Paths : disk[q].kind = "file" => disk'[q].kind = "file"
<1>1. p # Root /\ disk[p].kind = "absent" /\ disk[Front(p)].kind = "dir"
  BY DEF CanCreate
<1>2. disk'[p] = node /\ \A q \in Paths \ {p} : disk'[q] = disk[q]
  BY DEF FsTypeOK
<1>3. disk'[Root] = Dir
  BY <1>1, <1>2, RootIsPath DEF TreeOK
<1>4. ASSUME NEW q \in Paths, disk'[q].kind # "absent", q # Root
      PROVE  disk'[Front(q)].kind = "dir"
  <2>1. disk[Front(q)].kind = "dir"
    BY <1>1, <1>2, <1>4 DEF TreeOK
  <2>2. Front(q) \in Paths /\ Front(q) # p
    BY <1>1, <1>4, <2>1, ParentPath
  <2> QED
    BY <1>2, <2>1, <2>2
<1>5. \A q \in Paths : disk[q].kind = "file" => disk'[q].kind = "file"
  BY <1>1, <1>2
<1> QED
  BY <1>3, <1>4, <1>5

\* fs_open leaves the tree whole, whether it creates a file or not.
LEMMA OpenTree ==
  ASSUME FsTypeOK, TreeOK, NEW p \in Paths, NEW mode \in {"r", "w", "a"}, NEW h \in Addrs,
         NEW err \in BOOLEAN, fs_open(p, mode, h, err)
  PROVE  TreeOK'
<1>1. /\ \/ UNCHANGED disk
         \/ CanCreate(p) /\ disk' = [disk EXCEPT ![p] = File(<<>>)]
      /\ \/ UNCHANGED files
         \/ /\ disk'[p].kind = "file" /\ files'[h].path = p
            /\ \A a \in Addrs \ {h} : files'[a] = files[a]
  <2>1. CASE ~err /\ CanOpen(p, mode) /\ CreateFile(p) /\ files'[h].path = p
             /\ \A a \in Addrs \ {h} : files'[a] = files[a]
    <3>1. CASE disk[p].kind = "absent"
      <4>1. CanCreate(p) /\ disk' = [disk EXCEPT ![p] = File(<<>>)]
        BY <2>1, <3>1 DEF CanOpen, CreateFile
      <4>2. disk'[p].kind = "file"
        BY <4>1 DEF FsTypeOK, File
      <4> QED
        BY <2>1, <4>1, <4>2
    <3>2. CASE disk[p].kind # "absent"
      BY <2>1, <3>2 DEF CanOpen, CreateFile, CanCreate
    <3> QED
      BY <3>1, <3>2
  <2>2. CASE UNCHANGED <<disk, files>>
    BY <2>2
  <2>3. CASE CanCreate(p) /\ CreateFile(p) /\ UNCHANGED files
    BY <2>3 DEF CreateFile, CanCreate
  <2> QED
    BY <2>1, <2>2, <2>3 DEF fs_open, FsTypeOK
<1>2. /\ disk'[Root] = Dir
      /\ \A q \in Paths : disk'[q].kind # "absent" /\ q # Root => disk'[Front(q)].kind = "dir"
      /\ \A q \in Paths : disk[q].kind = "file" => disk'[q].kind = "file"
  BY <1>1, CreateTree DEF TreeOK
<1>3. ASSUME NEW a \in Addrs, files'[a].open, ~files'[a].orphan
      PROVE  disk'[files'[a].path].kind = "file"
  <2>1. CASE files'[a] = files[a]
    BY <1>2, <1>3, <2>1 DEF TreeOK, FsTypeOK, FileRecords
  <2>2. CASE files'[a] # files[a]
    BY <1>1, <2>2
  <2> QED
    BY <2>1, <2>2
<1> QED
  BY <1>2, <1>3 DEF TreeOK

\* The commit of a file that was not cut off replaces a file.
LEMMA CloseTree ==
  ASSUME FsTypeOK, TreeOK, NEW h \in Addrs, files[h].open, NEW err \in BOOLEAN, fs_close(h, err)
  PROVE  TreeOK'
<1> DEFINE p == files[h].path
<1>1. p \in Paths
  BY DEF FsTypeOK, FileRecords
<1>2. \A q \in Paths : \/ disk'[q] = disk[q]
                       \/ q = p /\ disk[p].kind = "file" /\ disk'[p].kind = "file"
  BY <1>1 DEF FsTypeOK, TreeOK, fs_close, Commits, File
<1>3. disk'[Root] = Dir
  BY <1>2, RootIsPath DEF TreeOK, Dir
<1>4. \A q \in Paths : disk'[q].kind # "absent" /\ q # Root => disk'[Front(q)].kind = "dir"
  BY <1>2, ParentPath DEF TreeOK
<1>5. \A a \in Addrs : files'[a].open => files'[a] = files[a]
  BY DEF fs_close, FsTypeOK, ClosedFile
<1>6. \A a \in Addrs : files'[a].open /\ ~files'[a].orphan => disk'[files'[a].path].kind = "file"
  BY <1>2, <1>5 DEF TreeOK, FsTypeOK, FileRecords
<1> QED
  BY <1>3, <1>4, <1>6 DEF TreeOK

\* lfs_remove takes what has nothing below it, and cuts off who has it open.
LEMMA LastTree ==
  ASSUME FsTypeOK, TreeOK, NEW t \in Tasks, NEW err \in BOOLEAN, RemoveLast(t, err)
  PROVE  TreeOK'
<1> DEFINE p == Top(t).path
<1>1. p \in Paths
  BY StackType DEF RemoveLast, Frames
<1>2. CASE ~err /\ CanRemove(p)
  <2>1. p # Root /\ Entries(p) = {} /\ disk' = [disk EXCEPT ![p] = Absent]
    BY <1>2 DEF CanRemove, RemoveLast
  <2>2. disk'[p].kind = "absent" /\ \A q \in Paths \ {p} : disk'[q] = disk[q]
    BY <1>1, <2>1 DEF FsTypeOK, Absent
  <2>3. disk'[Root] = Dir
    BY <2>1, <2>2, RootIsPath DEF TreeOK
  <2>4. ASSUME NEW q \in Paths, disk'[q].kind # "absent", q # Root
        PROVE  disk'[Front(q)].kind = "dir"
    <3>1. q # p /\ disk[q].kind # "absent"
      BY <2>2, <2>4
    <3>2. Front(q) # p
      BY <2>1, <2>4, <3>1, ParentHasEntry
    <3> QED
      BY <2>2, <2>4, <3>1, <3>2, ParentPath DEF TreeOK
  <2>5. \A a \in Addrs : files'[a].open /\ ~files'[a].orphan =>
          files'[a] = files[a] /\ files[a].path # p
    <3>1. ASSUME NEW a \in Addrs, files'[a].open, ~files'[a].orphan
          PROVE  files'[a] = files[a] /\ files[a].path # p
      <4>1. files'[a] = IF files[a].open /\ files[a].path = p
                          THEN [files[a] EXCEPT !.orphan = TRUE] ELSE files[a]
        BY <1>2 DEF RemoveLast
      <4>2. [files[a] EXCEPT !.orphan = TRUE].orphan
        BY DEF FsTypeOK, FileRecords
      <4> QED
        BY <3>1, <4>1, <4>2
    <3> QED
      BY <3>1
  <2>6. \A a \in Addrs : files'[a].open /\ ~files'[a].orphan => disk'[files'[a].path].kind = "file"
    BY <2>2, <2>5 DEF TreeOK, FsTypeOK, FileRecords
  <2> QED
    BY <2>3, <2>4, <2>6 DEF TreeOK
<1>3. CASE ~(~err /\ CanRemove(p))
  <2>1. UNCHANGED <<disk, files>>
    BY <1>3 DEF RemoveLast
  <2> QED
    BY <2>1 DEF TreeOK
<1> QED
  BY <1>2, <1>3

\* TreeOK is inductive, given the types.
LEMMA TreeStep == FsTypeOK /\ TreeOK /\ [FsNext]_fsVars => TreeOK'
<1> SUFFICES ASSUME FsTypeOK, TreeOK, [FsNext]_fsVars PROVE TreeOK'
  OBVIOUS
<1>1. CASE UNCHANGED <<disk, files>>
  BY <1>1 DEF TreeOK
<1>2. ASSUME NEW h \in Addrs, UNCHANGED <<disk, dirs, heap, frames, rm>>,
             \/ \E n \in Nat : fs_seek(h, n) \/ fs_read(h, n)
             \/ \E bytes \in Seq(Bytes), err \in BOOLEAN : fs_write(h, bytes, err)
      PROVE  TreeOK'
  <2>1. \A a \in Addrs : /\ files'[a].open = files[a].open /\ files'[a].path = files[a].path
                         /\ files'[a].orphan = files[a].orphan
    BY <1>2, UseKeeps
  <2> QED
    BY <1>2, <2>1 DEF TreeOK
<1>3. ASSUME NEW p \in Paths, NEW err \in BOOLEAN, fs_mkdir(p, err),
             UNCHANGED <<files, dirs, heap, frames>>
      PROVE  TreeOK'
  <2>1. CASE ~err /\ CanCreate(p)
    <3>1. disk' = [disk EXCEPT ![p] = Dir]
      BY <1>3, <2>1 DEF fs_mkdir
    <3>2. /\ disk'[Root] = Dir
          /\ \A q \in Paths : disk'[q].kind # "absent" /\ q # Root => disk'[Front(q)].kind = "dir"
          /\ \A q \in Paths : disk[q].kind = "file" => disk'[q].kind = "file"
      BY <2>1, <3>1, CreateTree
    <3> QED
      BY <1>3, <3>2 DEF TreeOK, FsTypeOK, FileRecords
  <2>2. CASE ~(~err /\ CanCreate(p))
    BY <1>1, <1>3, <2>2 DEF fs_mkdir
  <2> QED
    BY <2>1, <2>2
<1>4. ASSUME NEW t \in Tasks, RemoveStep(t) PROVE TreeOK'
  BY <1>1, <1>4, LastTree DEF RemoveStep, RemoveEnter, RemoveRead
<1>5. CASE fs_init
  <2>1. Formatted[Root] = Dir /\ \A q \in Paths : Formatted[q].kind # "absent" => q = Root
    BY RootIsPath DEF Formatted, Absent
  <2>2. \A a \in Addrs : ~files'[a].open
    BY <1>5 DEF fs_init, ClosedFile
  <2> QED
    BY <1>5, <2>1, <2>2 DEF fs_init, TreeOK
<1> QED
  BY <1>1, <1>2, <1>3, <1>4, <1>5, OpenTree, CloseTree DEF FsNext, fsVars

\* A formatted file system is a whole tree.
LEMMA TreeInit == FsInit => TreeOK
<1>1. Formatted[Root] = Dir /\ \A q \in Paths : Formatted[q].kind # "absent" => q = Root
  BY RootIsPath DEF Formatted, Absent
<1> QED
  BY <1>1 DEF FsInit, TreeOK, ClosedFile

\* Whoever calls, whatever fails and wherever the chip restarts, every file and
\* directory is in a directory, and a file that is open and not cut off is there.
THEOREM TreeStaysWhole == FsSpec => []TreeOK
BY TreeInit, FsTypeCorrect, TreeStep, PTL DEF FsSpec

-----------------------------------------------------------------------------
(* Paths below each other.                                                 *)

\* Nothing is in the tree without all that is above it.
AboveOK ==
  \A p, q \in Paths : IsPrefix(p, q) /\ disk[q].kind # "absent" => disk[p].kind # "absent"

\* A path below another one goes through one of its entries.
LEMMA PathPrefix ==
  ASSUME NEW p \in Paths, NEW q \in Paths, IsPrefix(p, q)
  PROVE  /\ p # q => /\ q # Root /\ IsPrefix(p, Front(q)) /\ Len(p) < MaxDepth
                     /\ \E n \in Names : IsPrefix(Append(p, n), q)
         /\ \A n \in Names : IsPrefix(p, Append(q, n))
<1>1. /\ p \in Seq(Names) /\ q \in Seq(Names) /\ Len(q) <= MaxDepth
      /\ Len(p) \in Nat /\ Len(q) \in Nat
  BY PathIsSeq, LenProperties
<1>2. ASSUME p # q
      PROVE  /\ q # Root /\ IsPrefix(p, Front(q)) /\ Len(p) < MaxDepth
             /\ \E n \in Names : IsPrefix(Append(p, n), q)
  <2>1. q # <<>> /\ Len(p) < Len(q) /\ IsPrefix(p, Front(q))
    BY <1>1, <1>2, PrefixFront
  <2>2. \E n \in Names : IsPrefix(Append(p, n), q)
    BY <1>1, <1>2, PrefixNext
  <2>3. Len(p) < MaxDepth
    BY <1>1, <2>1, DepthAssumption
  <2> QED
    BY <2>1, <2>2, <2>3 DEF Root
<1>3. \A n \in Names : IsPrefix(p, Append(q, n))
  BY <1>1, PrefixAppend
<1> QED
  BY <1>2, <1>3

\* Every path begins with itself.
LEMMA PathPrefixSelf == \A p \in Paths : IsPrefix(p, p)
BY PathIsSeq, PrefixSelf

\* What a step does to the presence of files and directories.
SameKinds == \A q \in Paths : disk'[q].kind = disk[q].kind
Creates(p) ==
  /\ CanCreate(p) /\ Created(p) /\ disk'[p].kind # "absent"
  /\ \A q \in Paths \ {p} : disk'[q].kind = disk[q].kind

\* fs_mkdir and fs_open change no kind of node, or create one at their path.
LEMMA Creation ==
  ASSUME FsTypeOK, NEW p \in Paths, NEW err \in BOOLEAN,
         \/ fs_mkdir(p, err)
         \/ \E h \in Addrs, mode \in {"r", "w", "a"} : fs_open(p, mode, h, err)
  PROVE  (SameKinds /\ UNCHANGED rm) \/ Creates(p)
<1>1. ASSUME CanCreate(p), Created(p), NEW node \in {Dir, File(<<>>)},
             disk' = [disk EXCEPT ![p] = node]
      PROVE  Creates(p)
  BY <1>1 DEF Creates, FsTypeOK, Dir, File
<1>2. CASE fs_mkdir(p, err)
  BY <1>1, <1>2 DEF fs_mkdir, SameKinds
<1>3. ASSUME NEW h \in Addrs, NEW mode \in {"r", "w", "a"}, fs_open(p, mode, h, err)
      PROVE  (SameKinds /\ UNCHANGED rm) \/ Creates(p)
  <2>1. \/ UNCHANGED <<disk, rm>>
        \/ CreateFile(p) /\ (disk[p].kind = "file" \/ CanCreate(p))
    BY <1>3 DEF fs_open, CanOpen
  <2>2. CASE CreateFile(p) /\ disk[p].kind = "file"
    BY <2>2 DEF CreateFile, SameKinds
  <2>3. CASE CreateFile(p) /\ CanCreate(p)
    BY <1>1, <2>3 DEF CreateFile, CanCreate
  <2> QED
    BY <2>1, <2>2, <2>3 DEF SameKinds
<1> QED
  BY <1>2, <1>3

\* A commit changes the text of a file and the kind of nothing.
LEMMA CloseKinds ==
  ASSUME FsTypeOK, TreeOK, NEW h \in Addrs, files[h].open, NEW err \in BOOLEAN, fs_close(h, err)
  PROVE  SameKinds
BY DEF FsTypeOK, FileRecords, TreeOK, fs_close, Commits, File, SameKinds

\* lfs_remove at the end of fs_remove takes an empty node away, or nothing.
LEMMA LastOutcome ==
  ASSUME FsTypeOK, NEW t \in Tasks, NEW err \in BOOLEAN, RemoveLast(t, err)
  PROVE  LET p == Top(t).path
         IN  /\ Top(t) \in Frames /\ p \in Paths
             /\ IF ~err /\ CanRemove(p)
                  THEN /\ p # Root /\ Entries(p) = {} /\ disk'[p].kind = "absent"
                       /\ \A q \in Paths \ {p} : disk'[q].kind = disk[q].kind
                  ELSE UNCHANGED disk
<1> DEFINE p == Top(t).path
<1>1. Top(t) \in Frames /\ p \in Paths
  BY StackType DEF RemoveLast, Frames
<1>2. CASE ~err /\ CanRemove(p)
  <2>1. disk' = [disk EXCEPT ![p] = Absent]
    BY <1>2 DEF RemoveLast
  <2>2. disk'[p].kind = "absent" /\ \A q \in Paths \ {p} : disk'[q].kind = disk[q].kind
    BY <1>1, <2>1 DEF FsTypeOK, Absent
  <2> QED
    BY <1>1, <1>2, <2>2 DEF CanRemove
<1>3. CASE ~(~err /\ CanRemove(p))
  <2>1. UNCHANGED disk
    BY <1>3 DEF RemoveLast
  <2> QED
    BY <1>1, <1>3, <2>1
<1> QED
  BY <1>2, <1>3

\* AboveOK is inductive, given the types and a whole tree.
LEMMA AboveStep == FsTypeOK /\ TreeOK /\ AboveOK /\ [FsNext]_fsVars => AboveOK'
<1> SUFFICES ASSUME FsTypeOK, TreeOK, AboveOK, [FsNext]_fsVars,
                    NEW p \in Paths, NEW q \in Paths, IsPrefix(p, q), disk'[q].kind # "absent"
             PROVE  disk'[p].kind # "absent"
  BY DEF AboveOK
<1>1. CASE SameKinds
  BY <1>1 DEF SameKinds, AboveOK
<1>2. ASSUME NEW r \in Paths, Creates(r) PROVE disk'[p].kind # "absent"
  <2>1. CASE q # r
    BY <1>2, <2>1 DEF Creates, AboveOK
  <2>2. CASE q = r /\ p # r
    <3>1. IsPrefix(p, Front(r)) /\ Front(r) \in Paths
      BY <2>2, PathPrefix, ParentPath
    <3>2. disk[Front(r)].kind # "absent"
      BY <1>2 DEF Creates, CanCreate
    <3> QED
      BY <1>2, <2>2, <3>1, <3>2 DEF Creates, AboveOK
  <2> QED
    BY <1>2, <2>1, <2>2 DEF Creates
<1>3. ASSUME NEW t \in Tasks, NEW err \in BOOLEAN, RemoveLast(t, err) PROVE disk'[p].kind # "absent"
  <2> DEFINE r == Top(t).path
  <2>1. CASE ~err /\ CanRemove(r)
    <3>1. /\ r \in Paths /\ Entries(r) = {} /\ disk'[r].kind = "absent"
          /\ \A x \in Paths \ {r} : disk'[x].kind = disk[x].kind
      BY <1>3, <2>1, LastOutcome
    <3>2. disk[q].kind # "absent" /\ q # r
      BY <3>1
    <3>3. p # r
      <4>1. SUFFICES ASSUME p = r PROVE FALSE
        OBVIOUS
      <4>2. PICK n \in Names : IsPrefix(Append(p, n), q) /\ Len(p) < MaxDepth
        BY <3>2, <4>1, PathPrefix
      <4>3. disk[Append(p, n)].kind # "absent"
        BY <3>2, <4>2, ChildPath DEF AboveOK
      <4>4. n \in Entries(p)
        BY <4>2, <4>3 DEF Entries
      <4> QED
        BY <3>1, <4>1, <4>4
    <3> QED
      BY <3>1, <3>2, <3>3 DEF AboveOK
  <2>2. CASE ~(~err /\ CanRemove(r))
    BY <1>1, <1>3, <2>2, LastOutcome DEF SameKinds
  <2> QED
    BY <2>1, <2>2
<1>4. CASE fs_init
  <2>1. CASE UNCHANGED disk
    BY <1>1, <2>1 DEF SameKinds
  <2>2. CASE disk' = Formatted
    <3>1. q = Root
      BY <2>2 DEF Formatted, Absent
    <3>2. p = Root
      BY <3>1, RootIsPath, PathPrefix
    <3> QED
      BY <3>1, <3>2
  <2> QED
    BY <1>4, <2>1, <2>2 DEF fs_init
<1>5. ASSUME NEW h \in Addrs, files[h].open, NEW err \in BOOLEAN, fs_close(h, err)
      PROVE  disk'[p].kind # "absent"
  BY <1>1, <1>5, CloseKinds
<1>6. ASSUME NEW r \in Paths, NEW err \in BOOLEAN,
             \/ fs_mkdir(r, err)
             \/ \E h \in Addrs, mode \in {"r", "w", "a"} : fs_open(r, mode, h, err)
      PROVE  disk'[p].kind # "absent"
  BY <1>1, <1>2, <1>6, Creation
<1>7. CASE UNCHANGED disk
  BY <1>1, <1>7 DEF SameKinds
<1>8. ASSUME NEW t \in Tasks, RemoveStep(t) PROVE disk'[p].kind # "absent"
  BY <1>3, <1>7, <1>8 DEF RemoveStep, RemoveEnter, RemoveRead
<1> QED
  BY <1>4, <1>5, <1>6, <1>7, <1>8 DEF FsNext, fsVars

\* AboveOK holds of a formatted file system.
LEMMA AboveInit == FsInit => AboveOK
<1> SUFFICES ASSUME FsInit, NEW p \in Paths, NEW q \in Paths, IsPrefix(p, q),
                    disk[q].kind # "absent"
             PROVE  disk[p].kind # "absent"
  BY DEF AboveOK
<1>1. q = Root
  BY DEF FsInit, Formatted, Absent
<1>2. p = Root
  BY <1>1, RootIsPath, PathPrefix
<1> QED
  BY <1>1, <1>2

\* Whatever exists has all directories above it.
LEMMA FsAboveOK == FsSpec => []AboveOK
BY AboveInit, FsTypeCorrect, TreeStaysWhole, AboveStep, PTL DEF FsSpec

-----------------------------------------------------------------------------
(* fs_remove: what is left of the tree it removes is ahead of its stack of *)
(* iterators.                                                              *)

\* What is still in a directory that fs_remove reads is known to the iterator
\* and ahead of it, or is the entry that is being removed just now (below).
AheadOK(f, below) ==
  \A n \in Entries(f.path) : n \in f.at /\ (n > f.last \/ (below /\ n = f.last))

\* The activation at depth d of stack s, inside an fs_remove of path p.
FrameOK(s, d, p) ==
  /\ IsPrefix(p, s[d].path)
  /\ d < Len(s) => /\ s[d].phase = "read" /\ s[d].last \in Names /\ Len(s[d].path) < MaxDepth
                   /\ s[d + 1].path = Append(s[d].path, s[d].last)
  /\ s[d].phase = "enter" => s[d].last = 0
  /\ s[d].phase = "read" => AheadOK(s[d], d < Len(s))
  /\ s[d].phase = "remove" => Entries(s[d].path) = {}

\* An fs_remove that met no error and no new entries.
BusyOK(t) ==
  /\ frames[t] # <<>> /\ rm[t].path # Root /\ frames[t][1].path = rm[t].path
  /\ rm[t].found => disk[rm[t].path].kind # "absent"
  /\ \A d \in 1 .. Len(frames[t]) : FrameOK(frames[t], d, rm[t].path)

DoneOK(t) ==
  /\ frames[t] = <<>>
  /\ \A p \in Paths : IsPrefix(rm[t].path, p) => disk[p].kind = "absent"
  /\ rm[t].ret = "error" => ~rm[t].found

TaskOK(t) ==
  /\ rm[t].ret = "none" => rm[t] = NoRemove
  /\ rm[t].ret = "busy" => BusyOK(t)
  /\ rm[t].ret \in {"ok", "error"} => DoneOK(t)
RemoveOK == \A t \in Tasks : TaskOK(t)

\* Nothing of path p and what is below it comes into being.
NothingNew(p) ==
  \A q \in Paths : IsPrefix(p, q) /\ disk'[q].kind # "absent" => disk[q].kind # "absent"

\* An activation that keeps its place in the directory and loses only entries
\* that are gone.
LEMMA FrameStays ==
  ASSUME FsTypeOK, NEW t \in Tasks, NEW d \in 1 .. Len(frames[t]),
         FrameOK(frames[t], d, rm[t].path), rm[t].path \in Paths,
         rm'[t].path = rm[t].path, NothingNew(rm[t].path),
         frames'[t][d].path = frames[t][d].path, frames'[t][d].phase = frames[t][d].phase,
         frames'[t][d].last = frames[t][d].last,
         \A n \in Names : /\ n \in frames[t][d].at /\ Len(frames[t][d].path) < MaxDepth
                          /\ disk'[Append(frames[t][d].path, n)].kind # "absent"
                          => n \in frames'[t][d].at,
         d < Len(frames[t]) <=> d < Len(frames'[t]),
         d < Len(frames[t]) => frames'[t][d + 1].path = frames[t][d + 1].path
  PROVE  FrameOK(frames[t], d, rm[t].path)'
<1> DEFINE f == frames[t][d]
<1>1. f \in Frames /\ f.path \in Paths
  <2>1. frames[t] \in Seq(Frames)
    BY DEF FsTypeOK
  <2>2. f \in Frames
    BY <2>1, ElementOfSeq
  <2> QED
    BY <2>2 DEF Frames
<1>2. \A n \in Names : Len(f.path) < MaxDepth /\ disk'[Append(f.path, n)].kind # "absent"
        => disk[Append(f.path, n)].kind # "absent"
  BY <1>1, ChildPath, PathPrefix DEF NothingNew, FrameOK
<1>3. /\ IsPrefix(rm[t].path, frames[t][d].path)'
      /\ frames'[t][d].phase = "enter" => frames'[t][d].last = 0
  BY DEF FrameOK
<1>4. d < Len(frames'[t]) =>
        /\ frames'[t][d].phase = "read" /\ frames'[t][d].last \in Names
        /\ Len(frames'[t][d].path) < MaxDepth
        /\ frames'[t][d + 1].path = Append(frames'[t][d].path, frames'[t][d].last)
  BY DEF FrameOK
<1>5. frames'[t][d].phase = "read" => AheadOK(frames[t][d], d < Len(frames[t]))'
  BY <1>2 DEF FrameOK, AheadOK, Entries
<1>6. frames'[t][d].phase = "remove" => (Entries(frames[t][d].path) = {})'
  BY <1>2 DEF FrameOK, Entries
<1> QED
  BY <1>3, <1>4, <1>5, <1>6 DEF FrameOK

\* A task whose removal goes on while others create, close and remove.
LEMMA TaskStays ==
  ASSUME FsTypeOK, FsTypeOK', NEW t \in Tasks, TaskOK(t),
         rm'[t].path = rm[t].path, rm'[t].ret = rm[t].ret,
         rm[t] = NoRemove => rm'[t] = NoRemove,
         rm'[t].found => rm[t].found,
         rm'[t].found /\ rm[t].ret = "busy" /\ disk[rm[t].path].kind # "absent"
           => disk'[rm[t].path].kind # "absent",
         NothingNew(rm[t].path),
         Len(frames'[t]) = Len(frames[t]),
         \A d \in 1 .. Len(frames[t]) :
           /\ frames'[t][d].path = frames[t][d].path
           /\ frames'[t][d].phase = frames[t][d].phase
           /\ frames'[t][d].last = frames[t][d].last
           /\ \A n \in Names : /\ n \in frames[t][d].at /\ Len(frames[t][d].path) < MaxDepth
                               /\ disk'[Append(frames[t][d].path, n)].kind # "absent"
                               => n \in frames'[t][d].at
  PROVE  TaskOK(t)'
<1>1. /\ rm[t].path \in Paths /\ Len(frames[t]) \in Nat
      /\ frames[t] = <<>> <=> Len(frames[t]) = 0
      /\ frames'[t] = <<>> <=> Len(frames[t]) = 0
  BY LenProperties, EmptySeq DEF FsTypeOK, Records
<1>2. ASSUME rm[t].ret = "busy" PROVE BusyOK(t)'
  <2>1. BusyOK(t)
    BY <1>2 DEF TaskOK
  <2>2. \A d \in 1 .. Len(frames[t]) : d + 1 \in 1 .. Len(frames[t]) <=> d < Len(frames[t])
    BY <1>1
  <2>3. \A d \in 1 .. Len(frames[t]) : FrameOK(frames[t], d, rm[t].path)'
    BY <1>1, <2>1, <2>2, FrameStays DEF BusyOK
  <2>4. 1 \in 1 .. Len(frames[t]) /\ frames'[t] # <<>>
    BY <1>1, <2>1 DEF BusyOK
  <2>5. frames'[t][1].path = rm'[t].path /\ rm'[t].path # Root
    BY <2>1, <2>4 DEF BusyOK
  <2>6. rm'[t].found => disk'[rm'[t].path].kind # "absent"
    BY <1>2, <2>1 DEF BusyOK
  <2> QED
    BY <2>3, <2>4, <2>5, <2>6 DEF BusyOK
<1>3. ASSUME rm[t].ret \in {"ok", "error"} PROVE DoneOK(t)'
  <2>1. DoneOK(t)
    BY <1>3 DEF TaskOK
  <2>2. frames'[t] = <<>>
    BY <1>1, <2>1 DEF DoneOK
  <2>3. \A p \in Paths : IsPrefix(rm'[t].path, p) => disk'[p].kind = "absent"
    BY <2>1 DEF DoneOK, NothingNew
  <2> QED
    BY <2>1, <2>2, <2>3 DEF DoneOK
<1> QED
  BY <1>2, <1>3 DEF TaskOK

\* Nothing is known of a task without a record.
LEMMA NoRecord == \A t \in Tasks : rm'[t] = NoRemove => TaskOK(t)'
BY DEF TaskOK, NoRemove

\* What others see of steps that touch neither records nor stacks.
LEMMA QuietRemove ==
  ASSUME FsTypeOK, FsTypeOK', RemoveOK, SameKinds, UNCHANGED <<frames, rm>>
  PROVE  RemoveOK'
<1> SUFFICES ASSUME NEW t \in Tasks PROVE TaskOK(t)'
  BY DEF RemoveOK
<1>1. rm[t].path \in Paths /\ TaskOK(t) /\ rm'[t] = rm[t] /\ frames'[t] = frames[t]
  BY DEF FsTypeOK, Records, RemoveOK
<1>2. NothingNew(rm[t].path)
  BY DEF NothingNew, SameKinds
<1> QED
  BY <1>1, <1>2, TaskStays DEF SameKinds

\* A creation outside the tree that is being removed does not disturb the removal.
LEMMA CreateRemove ==
  ASSUME FsTypeOK, FsTypeOK', RemoveOK, NEW p \in Paths, Creates(p), UNCHANGED frames
  PROVE  RemoveOK'
<1> SUFFICES ASSUME NEW t \in Tasks, ~IsPrefix(rm[t].path, p) PROVE TaskOK(t)'
  BY NoRecord DEF RemoveOK, Creates, Created
<1>1. rm[t].path \in Paths /\ TaskOK(t) /\ rm'[t] = rm[t] /\ frames'[t] = frames[t]
  BY DEF FsTypeOK, Records, RemoveOK, Creates, Created
<1>2. NothingNew(rm[t].path)
  BY DEF NothingNew, Creates
<1>3. disk[rm[t].path].kind # "absent" => disk'[rm[t].path].kind # "absent"
  BY <1>1 DEF Creates
<1> QED
  BY <1>1, <1>2, <1>3, TaskStays

\* Other tasks while task t removes something.
LEMMA OthersRemove ==
  ASSUME FsTypeOK, FsTypeOK', RemoveOK, NEW t \in Tasks, NEW err \in BOOLEAN, RemoveLast(t, err),
         NEW u \in Tasks \ {t}
  PROVE  TaskOK(u)'
<1> DEFINE p == Top(t).path
<1>1. /\ rm[u].path \in Paths /\ TaskOK(u) /\ frames[u] \in Seq(Frames)
      /\ rm[u] \in Records
  BY DEF FsTypeOK, Records, RemoveOK
<1>2. CASE ~err /\ CanRemove(p)
  <2>1. /\ p \in Paths /\ p # Root /\ disk'[p].kind = "absent"
        /\ \A q \in Paths \ {p} : disk'[q].kind = disk[q].kind
    BY <1>2, LastOutcome
  <2>2. rm'[u] = IF rm[u].path = p THEN [rm[u] EXCEPT !.found = FALSE] ELSE rm[u]
    BY <1>2 DEF RemoveLast
  <2>3. /\ rm'[u].path = rm[u].path /\ rm'[u].ret = rm[u].ret
        /\ rm'[u].found => rm[u].found /\ rm[u].path # p
    BY <1>1, <2>2 DEF Records
  <2>4. rm[u] = NoRemove => rm'[u] = NoRemove
    BY <2>1, <2>2 DEF NoRemove
  <2>5. NothingNew(rm[u].path)
    BY <2>1 DEF NothingNew
  <2>6. frames'[u] = [d \in DOMAIN frames[u] |-> Forget(frames[u][d], p)]
    BY <1>2 DEF RemoveLast, FsTypeOK
  <2>7. /\ Len(frames'[u]) = Len(frames[u])
        /\ \A d \in 1 .. Len(frames[u]) : frames'[u][d] = Forget(frames[u][d], p)
    BY <1>1, <2>6, ForgetStack
  <2>8. ASSUME NEW d \in 1 .. Len(frames[u])
        PROVE  /\ frames'[u][d].path = frames[u][d].path
               /\ frames'[u][d].phase = frames[u][d].phase
               /\ frames'[u][d].last = frames[u][d].last
               /\ \A n \in Names : /\ n \in frames[u][d].at /\ Len(frames[u][d].path) < MaxDepth
                                   /\ disk'[Append(frames[u][d].path, n)].kind # "absent"
                                   => n \in frames'[u][d].at
    <3> DEFINE f == frames[u][d]
    <3>1. f \in Frames /\ frames'[u][d] = Forget(f, p)
      BY <1>1, <2>7, ElementOfSeq
    <3>2. CASE f.path = Front(p)
      <4>1. frames'[u][d] = [f EXCEPT !.at = @ \ {Last(p)}]
        BY <3>1, <3>2 DEF Forget
      <4>2. Append(f.path, Last(p)) = p
        BY <2>1, <3>2, ParentPath
      <4>3. \A n \in Names : disk'[Append(f.path, n)].kind # "absent" => n # Last(p)
        BY <2>1, <4>2
      <4> HIDE DEF f
      <4>4. frames'[u][d].path = f.path /\ frames'[u][d].phase = f.phase
            /\ frames'[u][d].last = f.last /\ frames'[u][d].at = f.at \ {Last(p)}
        BY <3>1, <4>1 DEF Frames
      <4> QED
        BY <4>3, <4>4 DEF f
    <3>3. CASE f.path # Front(p)
      BY <3>1, <3>3 DEF Forget
    <3> QED
      BY <3>2, <3>3
  <2>9. rm'[u].found /\ disk[rm[u].path].kind # "absent" => disk'[rm[u].path].kind # "absent"
    BY <1>1, <2>1, <2>3
  <2> QED
    BY <1>1, <2>3, <2>4, <2>5, <2>7, <2>8, <2>9, TaskStays
<1>3. CASE ~(~err /\ CanRemove(p))
  <2>1. UNCHANGED disk /\ rm'[u] = rm[u] /\ frames'[u] = frames[u]
    BY <1>3 DEF RemoveLast, FsTypeOK
  <2>2. NothingNew(rm[u].path)
    BY <2>1 DEF NothingNew
  <2> QED
    BY <1>1, <2>1, <2>2, TaskStays
<1> QED
  BY <1>2, <1>3

\* The stack of a task seen from its top.
LEMMA TopOfStack ==
  ASSUME FsTypeOK, NEW t \in Tasks, Removing(t)
  PROVE  /\ Len(frames[t]) \in Nat \ {0} /\ Top(t) = frames[t][Len(frames[t])]
         /\ \A d \in 1 .. Len(frames[t]) : frames[t][d] \in Frames /\ frames[t][d].path \in Paths
         /\ Front(frames[t]) \in Seq(Frames) /\ Len(Front(frames[t])) = Len(frames[t]) - 1
         /\ \A d \in 1 .. Len(frames[t]) - 1 : Front(frames[t])[d] = frames[t][d]
         /\ \A f \in Frames :
              LET s == Append(Front(frames[t]), f)
              IN  /\ s \in Seq(Frames) /\ Len(s) = Len(frames[t]) /\ s[Len(frames[t])] = f
                  /\ \A d \in 1 .. Len(frames[t]) - 1 : s[d] = frames[t][d]
<1>1. frames[t] \in Seq(Frames) /\ frames[t] # <<>>
  BY DEF FsTypeOK, Removing
<1>2. Len(frames[t]) \in Nat \ {0} /\ Top(t) = frames[t][Len(frames[t])]
  BY <1>1, EmptySeq DEF Top, Last
<1>3. /\ Front(frames[t]) \in Seq(Frames) /\ Len(Front(frames[t])) = Len(frames[t]) - 1
      /\ \A d \in 1 .. Len(frames[t]) - 1 : Front(frames[t])[d] = frames[t][d]
  BY <1>1, FrontLast
<1>4. \A d \in 1 .. Len(frames[t]) : frames[t][d] \in Frames
  BY <1>1, ElementOfSeq
<1>5. ASSUME NEW f \in Frames
      PROVE  LET s == Append(Front(frames[t]), f)
             IN  /\ s \in Seq(Frames) /\ Len(s) = Len(frames[t]) /\ s[Len(frames[t])] = f
                 /\ \A d \in 1 .. Len(frames[t]) - 1 : s[d] = frames[t][d]
  <2> DEFINE s == Append(Front(frames[t]), f)
  <2>1. /\ s \in Seq(Frames) /\ Len(s) = Len(Front(frames[t])) + 1
        /\ s[Len(Front(frames[t])) + 1] = f
        /\ \A d \in 1 .. Len(Front(frames[t])) : s[d] = Front(frames[t])[d]
    BY <1>3, AppendProperties
  <2> HIDE DEF s
  <2>2. Len(Front(frames[t])) + 1 = Len(frames[t])
    BY <1>2, <1>3
  <2>3. s \in Seq(Frames) /\ Len(s) = Len(frames[t]) /\ s[Len(frames[t])] = f
    BY <2>1, <2>2
  <2>4. \A d \in 1 .. Len(frames[t]) - 1 : s[d] = frames[t][d]
    BY <1>3, <2>1
  <2> QED
    BY <2>3, <2>4 DEF s
<1>6. \A d \in 1 .. Len(frames[t]) : frames[t][d].path \in Paths
  BY <1>4 DEF Frames
<1> QED
  BY <1>2, <1>3, <1>4, <1>5, <1>6

\* A task inside fs_remove has no record, or one of a removal that goes on.
LEMMA RemovingRecord ==
  ASSUME FsTypeOK, NEW t \in Tasks, TaskOK(t), Removing(t)
  PROVE  rm[t] = NoRemove \/ (rm[t].ret = "busy" /\ BusyOK(t))
BY DEF FsTypeOK, Records, TaskOK, DoneOK, Removing

\* The removal is on its way after an activation has opened its directory.
LEMMA EnterRemove ==
  ASSUME FsTypeOK, FsTypeOK', TreeOK, NEW t \in Tasks, NEW err \in BOOLEAN, TaskOK(t),
         RemoveEnter(t, err)
  PROVE  TaskOK(t)'
<1> DEFINE k == Len(frames[t])
           f == IF disk[Top(t).path].kind = "dir"
                  THEN [Top(t) EXCEPT !.phase = "read", !.at = Entries(Top(t).path)]
                  ELSE [Top(t) EXCEPT !.phase = "remove"]
<1>1. Removing(t) /\ Top(t).phase = "enter" /\ UNCHANGED disk
  BY DEF RemoveEnter
<1>2. CASE rm'[t] = NoRemove
  BY <1>2, NoRecord
<1>3. CASE rm'[t] # NoRemove
  <2>1. ~err /\ rm'[t] = rm[t] /\ rm[t].ret = "busy" /\ BusyOK(t)
    BY <1>1, <1>3, RemovingRecord DEF RemoveEnter, Disturb, FsTypeOK
  <2>2. k \in Nat \ {0} /\ Top(t) = frames[t][k] /\ Top(t) \in Frames /\ Top(t).path \in Paths
    BY <1>1, TopOfStack
  <2>3. /\ f \in Frames /\ f.path = Top(t).path /\ f.last = Top(t).last
        /\ f.phase = IF disk[Top(t).path].kind = "dir" THEN "read" ELSE "remove"
        /\ disk[Top(t).path].kind = "dir" => f.at = Entries(Top(t).path)
    BY <2>2, EntriesAreNames DEF Frames
  <2>4. frames'[t] = Append(Front(frames[t]), f)
    BY <2>1 DEF RemoveEnter, SetTop, FsTypeOK
  <2> HIDE DEF f
  <2>5. /\ Len(frames'[t]) = k /\ frames'[t][k] = f
        /\ \A d \in 1 .. k - 1 : frames'[t][d] = frames[t][d]
    BY <1>1, <2>3, <2>4, TopOfStack
  <2>6. ASSUME NEW d \in 1 .. k PROVE FrameOK(frames[t], d, rm[t].path)'
    <3>1. CASE d # k
      <4>1. d \in 1 .. k - 1 /\ (d + 1 \in 1 .. k - 1 \/ d + 1 = k) /\ d < k
        BY <2>2, <3>1
      <4>2. frames'[t][d] = frames[t][d] /\ frames'[t][d + 1].path = frames[t][d + 1].path
        BY <2>2, <2>3, <2>5, <4>1
      <4>3. rm[t].path \in Paths /\ NothingNew(rm[t].path)
        BY <1>1 DEF FsTypeOK, Records, NothingNew
      <4>4. FrameOK(frames[t], d, rm[t].path)
        BY <2>1 DEF BusyOK
      <4> QED
        BY <2>1, <2>5, <4>1, <4>2, <4>3, <4>4, FrameStays
    <3>2. CASE d = k
      <4>1. IsPrefix(rm[t].path, Top(t).path) /\ Top(t).last = 0
        BY <1>1, <2>1, <2>2 DEF BusyOK, FrameOK
      <4>2. disk[Top(t).path].kind # "dir" => Entries(Top(t).path) = {}
        BY <2>2, OnlyDirsHaveEntries
      <4>3. (Entries(Top(t).path) = Entries(frames[t][d].path)')
        BY <1>1, <2>3, <2>5, <3>2 DEF Entries
      <4>4. \A n \in Entries(Top(t).path) : n > 0
        BY EntriesAreNames, NamesPositive
      <4>5. f.phase = "read" => AheadOK(frames[t][d], d < Len(frames[t]))'
        BY <2>3, <2>5, <3>2, <4>1, <4>3, <4>4 DEF AheadOK
      <4>6. f.phase = "remove" => (Entries(frames[t][d].path) = {})'
        BY <2>3, <4>2, <4>3
      <4>7. f.phase \in {"read", "remove"} /\ ~(d < Len(frames'[t]))
        BY <2>2, <2>3, <2>5, <3>2
      <4> QED
        BY <2>1, <2>3, <2>5, <3>2, <4>1, <4>5, <4>6, <4>7 DEF FrameOK
    <3> QED
      BY <3>1, <3>2
  <2>7. frames'[t][1].path = frames[t][1].path /\ frames'[t] # <<>>
    <3>1. frames'[t] # <<>>
      BY <2>2, <2>5, EmptySeq
    <3>2. k \in Nat \ {0}
      BY <2>2
    <3> HIDE DEF k
    <3>3. k = 1 \/ 1 \in 1 .. k - 1
      BY <3>2
    <3> QED
      BY <2>2, <2>3, <2>5, <3>1, <3>3
  <2>8. BusyOK(t)'
    BY <1>1, <2>1, <2>5, <2>6, <2>7 DEF BusyOK
  <2> QED
    BY <2>1, <2>8 DEF TaskOK
<1> QED
  BY <1>2, <1>3

\* Places in a stack of k activations.
LEMMA Places ==
  ASSUME NEW k \in Nat \ {0}
  PROVE  /\ k \in 1 .. k /\ 1 \in 1 .. k /\ (k = 1 <=> k - 1 = 0)
         /\ k # 1 => 1 \in 1 .. k - 1 /\ k - 1 \in 1 .. k - 1
         /\ \A d \in 1 .. k : d = k \/ d \in 1 .. k - 1
         /\ \A d \in 1 .. k - 1 : /\ d \in 1 .. k /\ d < k /\ d + 1 \in 1 .. k
                                  /\ d + 1 \in 1 .. k - 1 \/ d + 1 = k
                                  /\ d < k - 1 \/ d = k - 1
                                  /\ d < k - 1 => d + 1 \in 1 .. k - 1
OBVIOUS

\* The removal is on its way after an activation has read its directory.
LEMMA ReadRemove ==
  ASSUME FsTypeOK, FsTypeOK', TreeOK, NEW t \in Tasks, NEW err \in BOOLEAN, TaskOK(t),
         RemoveRead(t, err)
  PROVE  TaskOK(t)'
<1>0. PICK k \in Nat : k = Len(frames[t])
  BY TopOfStack DEF RemoveRead
<1> USE <1>0
<1> DEFINE f == Top(t)
<1>1. Removing(t) /\ f.phase = "read" /\ UNCHANGED disk
  BY DEF RemoveRead
<1>2. CASE rm'[t] = NoRemove
  BY <1>2, NoRecord
<1>3. CASE rm'[t] # NoRemove
  <2>1. ~err /\ rm'[t] = rm[t] /\ rm[t].ret = "busy" /\ BusyOK(t)
    BY <1>1, <1>3, RemovingRecord DEF RemoveRead, Disturb, FsTypeOK
  <2>2. k \in Nat \ {0} /\ f = frames[t][k] /\ f \in Frames /\ f.path \in Paths
    BY <1>1, TopOfStack
  <2>3. /\ k \in 1 .. k /\ 1 \in 1 .. k /\ (k = 1 <=> k - 1 = 0)
        /\ k # 1 => 1 \in 1 .. k - 1 /\ k - 1 \in 1 .. k - 1
        /\ \A d \in 1 .. k : d = k \/ d \in 1 .. k - 1
        /\ \A d \in 1 .. k - 1 : /\ d \in 1 .. k /\ d < k /\ d + 1 \in 1 .. k
                                 /\ d + 1 \in 1 .. k - 1 \/ d + 1 = k
                                 /\ d < k - 1 \/ d = k - 1
                                 /\ d < k - 1 => d + 1 \in 1 .. k - 1
    <3>1. k \in Nat \ {0}
      BY <2>2
    <3> HIDE <1>0
    <3> QED
      BY <3>1, Places
  <2>4. /\ IsPrefix(rm[t].path, f.path) /\ f.path = frames[t][k].path
        /\ \A n \in Entries(f.path) : n \in f.at /\ n > f.last
    BY <1>1, <2>1, <2>2, <2>3 DEF BusyOK, FrameOK, AheadOK
  <2>5. rm[t].path \in Paths /\ NothingNew(rm[t].path)
    BY <1>1 DEF FsTypeOK, Records, NothingNew
  <2>6. CASE AtEnd(f) /\ frames' = SetTop(t, [f EXCEPT !.phase = "remove"])
    <3> DEFINE g == [f EXCEPT !.phase = "remove"]
    <3>1. g \in Frames /\ g.path = f.path /\ g.phase = "remove"
      BY <2>2 DEF Frames
    <3>2. frames'[t] = Append(Front(frames[t]), g)
      BY <2>6 DEF SetTop, FsTypeOK
    <3> HIDE DEF g
    <3>3. /\ Len(frames'[t]) = k /\ frames'[t][k] = g
          /\ \A d \in 1 .. k - 1 : frames'[t][d] = frames[t][d]
      BY <1>1, <3>1, <3>2, TopOfStack
    <3>4. Entries(f.path) = {}
      BY <2>4, <2>6 DEF AtEnd, Ahead
    <3>5. ASSUME NEW d \in 1 .. k - 1 PROVE FrameOK(frames[t], d, rm[t].path)'
      <4>1. d < k /\ d \in 1 .. k
        BY <2>2
      <4>2. frames'[t][d] = frames[t][d] /\ frames'[t][d + 1].path = frames[t][d + 1].path
        BY <2>2, <2>3, <3>1, <3>3
      <4>3. FrameOK(frames[t], d, rm[t].path)
        BY <2>1, <4>1 DEF BusyOK
      <4> QED
        BY <2>1, <2>5, <3>3, <4>1, <4>2, <4>3, FrameStays
    <3>6. FrameOK(frames[t], k, rm[t].path)'
      <4>1. (Entries(frames[t][k].path) = {})'
        BY <1>1, <3>1, <3>3, <3>4 DEF Entries
      <4>2. ~(k < Len(frames'[t]))
        BY <2>2, <3>3
      <4> QED
        BY <2>1, <2>4, <3>1, <3>3, <4>1, <4>2 DEF FrameOK
    <3>7. frames'[t] # <<>> /\ frames'[t][1].path = frames[t][1].path
      <4>1. frames'[t] # <<>>
        BY <2>2, <3>3, EmptySeq
      <4> QED
        BY <2>2, <2>3, <3>1, <3>3, <4>1
    <3>8. \A d \in 1 .. Len(frames'[t]) : FrameOK(frames[t], d, rm[t].path)'
      BY <2>3, <3>3, <3>5, <3>6
    <3>9. BusyOK(t)'
      BY <1>1, <2>1, <3>7, <3>8 DEF BusyOK
    <3> QED
      BY <2>1, <3>9 DEF TaskOK
  <2>7. ASSUME NEW n \in lfs_dir_read(f),
               frames' = [frames EXCEPT ![t] =
                 Append(Append(Front(@), Advance(f, n)), Frame(Append(f.path, n)))]
        PROVE  TaskOK(t)'
    <3> DEFINE g == Advance(f, n)
               c == Frame(Append(f.path, n))
    <3>1. /\ n \in Names /\ Len(f.path) < MaxDepth /\ n \in Entries(f.path) /\ n > f.last
          /\ \A m \in Entries(f.path) : m \in f.at /\ n <= m
      <4>1. n \in Entries(f.path) /\ n > f.last
        BY <2>7 DEF lfs_dir_read, Ahead
      <4>2. n \in Names /\ Len(f.path) < MaxDepth
        BY <4>1 DEF Entries
      <4>3. \A m \in Entries(f.path) : m \in f.at /\ n <= m
        BY <2>4, <2>7 DEF lfs_dir_read, Ahead
      <4> QED
        BY <4>1, <4>2, <4>3
    <3>2. Append(f.path, n) \in Paths /\ IsPrefix(rm[t].path, Append(f.path, n))
      BY <2>2, <2>4, <2>5, <3>1, ChildPath, PathPrefix
    <3>3. /\ g \in Frames /\ g.path = f.path /\ g.phase = "read" /\ g.last = n /\ g.at = f.at
      BY <1>1, <2>2, <3>1 DEF Advance, Frames
    <3>4. c \in Frames /\ c.path = Append(f.path, n) /\ c.phase = "enter" /\ c.last = 0
      BY <3>2, ConstantTypes DEF Frame
    <3>5. frames'[t] = Append(Append(Front(frames[t]), g), c)
      BY <2>7 DEF FsTypeOK
    <3> HIDE DEF g, c
    <3>6. /\ Len(frames'[t]) = k + 1 /\ frames'[t][k] = g /\ frames'[t][k + 1] = c
          /\ \A d \in 1 .. k - 1 : frames'[t][d] = frames[t][d]
      <4> DEFINE s == Append(Front(frames[t]), g)
      <4>1. /\ s \in Seq(Frames) /\ Len(s) = k /\ s[k] = g
            /\ \A d \in 1 .. k - 1 : s[d] = frames[t][d]
        BY <1>1, <3>3, TopOfStack
      <4> HIDE DEF s
      <4>2. /\ Len(Append(s, c)) = Len(s) + 1 /\ Append(s, c)[Len(s) + 1] = c
            /\ \A d \in 1 .. Len(s) : Append(s, c)[d] = s[d]
        BY <3>4, <4>1, AppendProperties
      <4>3. frames'[t] = Append(s, c)
        BY <3>5 DEF s
      <4> QED
        BY <2>3, <4>1, <4>2, <4>3
    <3>7. ASSUME NEW d \in 1 .. k - 1 PROVE FrameOK(frames[t], d, rm[t].path)'
      <4>1. d < k /\ d < k + 1 /\ d \in 1 .. k
        BY <2>2
      <4>2. frames'[t][d] = frames[t][d] /\ frames'[t][d + 1].path = frames[t][d + 1].path
        BY <2>2, <2>3, <3>3, <3>6
      <4>3. FrameOK(frames[t], d, rm[t].path)
        BY <2>1, <4>1 DEF BusyOK
      <4> QED
        BY <2>1, <2>5, <3>6, <4>1, <4>2, <4>3, FrameStays
    <3>8. FrameOK(frames[t], k, rm[t].path)'
      <4>1. k < Len(frames'[t]) /\ k < Len(frames[t])'
        BY <2>2, <3>6
      <4>2. (\A m \in Entries(f.path) : m \in g.at /\ (m > g.last \/ m = g.last))
        BY <3>1, <3>3, EntriesAreNames, NamesPositive
      <4>3. (Entries(f.path) = Entries(frames[t][k].path)')
        BY <1>1, <3>3, <3>6 DEF Entries
      <4>4. AheadOK(frames[t][k], k < Len(frames[t]))'
        BY <3>3, <3>6, <4>1, <4>2, <4>3 DEF AheadOK
      <4> QED
        BY <2>1, <2>4, <3>1, <3>3, <3>4, <3>6, <4>1, <4>4 DEF FrameOK
    <3>9. FrameOK(frames[t], k + 1, rm[t].path)'
      <4>1. ~(k + 1 < Len(frames'[t]))
        BY <2>2, <3>6
      <4> QED
        BY <2>1, <3>2, <3>4, <3>6, <4>1 DEF FrameOK
    <3>10. frames'[t] # <<>> /\ frames'[t][1].path = frames[t][1].path
      <4>1. frames'[t] # <<>>
        BY <2>2, <3>6, EmptySeq
      <4> QED
        BY <2>2, <2>3, <3>3, <3>6, <4>1
    <3>11. \A d \in 1 .. Len(frames'[t]) : d \in 1 .. k - 1 \/ d = k \/ d = k + 1
      BY <2>2, <3>6
    <3>12. \A d \in 1 .. Len(frames'[t]) : FrameOK(frames[t], d, rm[t].path)'
      BY <3>7, <3>8, <3>9, <3>11
    <3>13. BusyOK(t)'
      BY <1>1, <2>1, <3>10, <3>12 DEF BusyOK
    <3> QED
      BY <2>1, <3>13 DEF TaskOK
  <2> QED
    BY <2>1, <2>6, <2>7 DEF RemoveRead
<1> QED
  BY <1>2, <1>3

\* The removal is on its way, or complete, after an activation has ended.
LEMMA LastRemove ==
  ASSUME FsTypeOK, FsTypeOK', TreeOK, AboveOK, NEW t \in Tasks, NEW err \in BOOLEAN, TaskOK(t),
         RemoveLast(t, err)
  PROVE  TaskOK(t)'
<1>0. PICK k \in Nat : k = Len(frames[t])
  BY TopOfStack DEF RemoveLast
<1> USE <1>0
<1> DEFINE f == Top(t)
           p == f.path
           ok == ~err /\ CanRemove(p)
           rest == Front(frames[t])
<1>1. Removing(t) /\ f.phase = "remove"
  BY DEF RemoveLast
<1>2. CASE rm'[t] = NoRemove
  BY <1>2, NoRecord
<1>3. CASE rm'[t] # NoRemove
  <2>1. /\ ~err /\ rm[t].ret = "busy" /\ BusyOK(t)
        /\ rm'[t] = IF rest # <<>> THEN rm[t]
                    ELSE [rm[t] EXCEPT !.ret = IF ok THEN "ok" ELSE "error"]
    BY <1>1, <1>3, RemovingRecord DEF RemoveLast, FsTypeOK
  <2>2. /\ k \in Nat \ {0} /\ f = frames[t][k] /\ f \in Frames /\ p \in Paths
        /\ rest \in Seq(Frames) /\ Len(rest) = k - 1
        /\ \A d \in 1 .. k - 1 : rest[d] = frames[t][d]
        /\ \A d \in 1 .. k : frames[t][d] \in Frames /\ frames[t][d].path \in Paths
    BY <1>1, TopOfStack
  <2>3. /\ k \in 1 .. k /\ 1 \in 1 .. k /\ (k = 1 <=> k - 1 = 0)
        /\ k # 1 => 1 \in 1 .. k - 1 /\ k - 1 \in 1 .. k - 1
        /\ \A d \in 1 .. k : d = k \/ d \in 1 .. k - 1
        /\ \A d \in 1 .. k - 1 : /\ d \in 1 .. k /\ d < k /\ d + 1 \in 1 .. k
                                 /\ d + 1 \in 1 .. k - 1 \/ d + 1 = k
                                 /\ d < k - 1 \/ d = k - 1
                                 /\ d < k - 1 => d + 1 \in 1 .. k - 1
    <3>1. k \in Nat \ {0}
      BY <2>2
    <3> HIDE <1>0
    <3> QED
      BY <3>1, Places
  <2>4. /\ rm[t] \in Records /\ rm[t].path \in Paths /\ rm[t].path # Root
        /\ frames[t][1].path = rm[t].path /\ IsPrefix(rm[t].path, p) /\ Entries(p) = {}
        /\ \A d \in 1 .. k : FrameOK(frames[t], d, rm[t].path)
    BY <1>1, <2>1, <2>2, <2>3, ZenonT(40) DEF BusyOK, FrameOK, FsTypeOK, Records
  <2>5. p # Root
    BY <2>2, <2>4, PathPrefix
  <2>6. disk'[p].kind = "absent" /\ \A q \in Paths \ {p} : disk'[q].kind = disk[q].kind
    BY <2>1, <2>2, <2>4, <2>5, LastOutcome DEF CanRemove
  <2>7. NothingNew(rm[t].path)
    BY <2>6 DEF NothingNew
  <2>8. /\ Len(frames'[t]) = k - 1
        /\ \A d \in 1 .. k - 1 : frames'[t][d] \in {frames[t][d], Forget(frames[t][d], p)}
    <3>1. CASE ok
      <4>1. frames'[t] = [d \in DOMAIN rest |-> Forget(rest[d], p)]
        BY <3>1 DEF RemoveLast, FsTypeOK
      <4> HIDE DEF rest
      <4> QED
        BY <2>2, <4>1, ForgetStack
    <3>2. CASE ~ok
      <4>1. frames'[t] = rest
        BY <3>2 DEF RemoveLast, FsTypeOK
      <4> QED
        BY <2>2, <4>1
    <3> QED
      BY <3>1, <3>2
  <2>9. CASE k = 1
    <3>1. rest = <<>> /\ frames'[t] = <<>> /\ p = rm[t].path
      BY <2>2, <2>3, <2>4, <2>8, <2>9, EmptySeq DEF FsTypeOK
    <3>2. rm'[t] = [rm[t] EXCEPT !.ret = IF ok THEN "ok" ELSE "error"]
      BY <2>1, <3>1
    <3>3. /\ rm'[t].path = p /\ rm'[t].found = rm[t].found
          /\ rm'[t].ret = IF ok THEN "ok" ELSE "error"
      BY <2>4, <3>1, <3>2 DEF Records
    <3>4. ASSUME NEW q \in Paths, IsPrefix(p, q) PROVE disk'[q].kind = "absent"
      <4>1. CASE q = p
        BY <2>6, <4>1
      <4>2. CASE q # p
        <5>1. PICK n \in Names : IsPrefix(Append(p, n), q) /\ Len(p) < MaxDepth
          BY <2>2, <3>4, <4>2, PathPrefix
        <5>2. Append(p, n) \in Paths /\ disk[Append(p, n)].kind = "absent"
          BY <2>2, <2>4, <5>1, ChildPath DEF Entries
        <5>3. disk[q].kind = "absent"
          BY <5>1, <5>2 DEF AboveOK
        <5> QED
          BY <2>6, <4>2, <5>3
      <4> QED
        BY <4>1, <4>2
    <3>5. ~ok => ~rm[t].found
      BY <2>1, <2>4, <2>5, <3>1 DEF CanRemove, BusyOK
    <3>6. DoneOK(t)'
      BY <3>1, <3>3, <3>4, <3>5 DEF DoneOK
    <3> QED
      BY <3>3, <3>6 DEF TaskOK
  <2>10. CASE k # 1
    <3>1. rest # <<>> /\ rm'[t] = rm[t] /\ frames'[t] # <<>>
      BY <2>1, <2>2, <2>3, <2>8, <2>10, EmptySeq
    <3>2. ASSUME NEW d \in 1 .. k - 1
          PROVE  /\ frames'[t][d].path = frames[t][d].path
                 /\ frames'[t][d].phase = frames[t][d].phase
                 /\ frames'[t][d].last = frames[t][d].last
                 /\ \A n \in Names : /\ n \in frames[t][d].at /\ Len(frames[t][d].path) < MaxDepth
                                     /\ disk'[Append(frames[t][d].path, n)].kind # "absent"
                                     => n \in frames'[t][d].at
      <4> DEFINE g == frames[t][d]
      <4>1. g \in Frames
        BY <2>2, <2>3
      <4>2. CASE frames'[t][d] = g
        BY <4>2
      <4>3. CASE g.path = Front(p) /\ frames'[t][d] = [g EXCEPT !.at = @ \ {Last(p)}]
        <5>1. Append(g.path, Last(p)) = p
          BY <2>2, <2>5, <4>3, ParentPath
        <5>2. \A n \in Names : disk'[Append(g.path, n)].kind # "absent" => n # Last(p)
          BY <2>6, <5>1
        <5> HIDE DEF g
        <5>3. frames'[t][d].path = g.path /\ frames'[t][d].phase = g.phase
              /\ frames'[t][d].last = g.last /\ frames'[t][d].at = g.at \ {Last(p)}
          BY <4>1, <4>3 DEF Frames
        <5> QED
          BY <5>2, <5>3 DEF g
      <4> QED
        BY <2>8, <4>2, <4>3 DEF Forget
    <3>3. \A d \in 1 .. k - 1 : frames'[t][d].path = frames[t][d].path
      BY <3>2
    <3>4. ASSUME NEW d \in 1 .. k - 1, d < k - 1 PROVE FrameOK(frames[t], d, rm[t].path)'
      <4>1. d \in 1 .. k /\ d < k /\ d + 1 \in 1 .. k - 1
        BY <2>3, <3>4
      <4>2. frames'[t][d + 1].path = frames[t][d + 1].path
        BY <3>3, <4>1
      <4>3. d < Len(frames'[t])
        BY <2>8, <3>4
      <4> QED
        BY <2>4, <2>7, <3>1, <3>2, <4>1, <4>2, <4>3, FrameStays
    <3>5. ASSUME NEW d \in 1 .. k - 1, d = k - 1 PROVE FrameOK(frames[t], d, rm[t].path)'
      <4> DEFINE g == frames[t][d]
                 h == frames'[t][d]
      <4>1. d \in 1 .. k /\ d < k /\ d + 1 = k /\ ~(d < Len(frames'[t]))
        BY <2>2, <2>3, <2>8, <3>5
      <4>2. /\ g.phase = "read" /\ g.last \in Names /\ Len(g.path) < MaxDepth
            /\ p = Append(g.path, g.last) /\ IsPrefix(rm[t].path, g.path)
            /\ AheadOK(g, TRUE) /\ g.path \in Paths
        BY <2>2, <2>4, <4>1 DEF FrameOK
      <4>3. \A n \in Names : disk'[Append(g.path, n)].kind # "absent" =>
              disk[Append(g.path, n)].kind # "absent" /\ n # g.last
        <5>1. \A n \in Names : Append(g.path, n) \in Paths /\ IsPrefix(rm[t].path, Append(g.path, n))
          BY <2>4, <4>2, ChildPath, PathPrefix
        <5> QED
          BY <2>6, <2>7, <4>2, <5>1 DEF NothingNew
      <4>4. \A n \in Names : disk'[Append(g.path, n)].kind # "absent" => n \in g.at /\ n > g.last
        BY <4>2, <4>3 DEF AheadOK, Entries
      <4>5. \A n \in Names : disk'[Append(h.path, n)].kind # "absent" => n \in h.at /\ n > h.last
        BY <3>2, <4>2, <4>4
      <4>6. AheadOK(frames[t][d], d < Len(frames[t]))'
        BY <4>5 DEF AheadOK, Entries
      <4>7. h.path = g.path /\ h.phase = "read"
        BY <3>2, <4>2
      <4> QED
        BY <3>1, <4>1, <4>2, <4>6, <4>7 DEF FrameOK
    <3>6. \A d \in 1 .. Len(frames'[t]) : FrameOK(frames[t], d, rm[t].path)'
      BY <2>3, <2>8, <3>4, <3>5
    <3>7. frames'[t][1].path = rm'[t].path
      BY <2>3, <2>4, <2>10, <3>1, <3>3
    <3>8. rm'[t].found => disk'[rm'[t].path].kind # "absent"
      <4>1. rm[t].path # p
        <5>1. frames[t][k].path = p /\ k - 1 \in 1 .. k - 1 /\ k - 1 + 1 = k
          BY <2>2, <2>3, <2>10
        <5>2. /\ p = Append(frames[t][k - 1].path, frames[t][k - 1].last)
              /\ IsPrefix(rm[t].path, frames[t][k - 1].path) /\ frames[t][k - 1].path \in Paths
              /\ frames[t][k - 1].last \in Names
          BY <2>2, <2>3, <2>4, <5>1 DEF FrameOK
        <5>3. Len(rm[t].path) <= Len(frames[t][k - 1].path)
          BY <2>4, <5>2, PathIsSeq, PrefixDef
        <5>4. Len(p) = Len(frames[t][k - 1].path) + 1 /\ Len(frames[t][k - 1].path) \in Nat
          BY <5>2, PathIsSeq, AppendProperties, LenProperties
        <5> QED
          BY <5>3, <5>4
      <4> QED
        BY <2>1, <2>4, <2>6, <3>1, <4>1 DEF BusyOK
    <3>9. BusyOK(t)'
      BY <2>4, <3>1, <3>6, <3>7, <3>8 DEF BusyOK
    <3> QED
      BY <2>1, <3>1, <3>9 DEF TaskOK
  <2> QED
    BY <2>9, <2>10
<1> QED
  BY <1>2, <1>3

\* What task t does in its removal tells the others nothing, unless it removes.
LEMMA StepRemove ==
  ASSUME FsTypeOK, FsTypeOK', TreeOK, AboveOK, RemoveOK, NEW t \in Tasks, RemoveStep(t)
  PROVE  RemoveOK'
<1> SUFFICES ASSUME NEW u \in Tasks PROVE TaskOK(u)'
  BY DEF RemoveOK
<1>1. PICK err \in BOOLEAN : RemoveEnter(t, err) \/ RemoveRead(t, err) \/ RemoveLast(t, err)
  BY DEF RemoveStep
<1>2. CASE u = t
  BY <1>1, <1>2, EnterRemove, ReadRemove, LastRemove DEF RemoveOK
<1>3. CASE u # t /\ (RemoveEnter(t, err) \/ RemoveRead(t, err))
  <2>1. UNCHANGED disk /\ rm'[u] = rm[u] /\ frames'[u] = frames[u]
    BY <1>3 DEF RemoveEnter, RemoveRead, Disturb, SetTop, FsTypeOK
  <2>2. NothingNew(rm[u].path) /\ TaskOK(u)
    BY <2>1 DEF NothingNew, RemoveOK
  <2> QED
    BY <2>1, <2>2, TaskStays
<1>4. CASE u # t /\ RemoveLast(t, err)
  BY <1>4, OthersRemove
<1> QED
  BY <1>1, <1>2, <1>3, <1>4

\* RemoveOK is inductive, given the tree invariants.
LEMMA RemoveInv ==
  FsTypeOK /\ FsTypeOK' /\ TreeOK /\ AboveOK /\ RemoveOK /\ [FsNext]_fsVars => RemoveOK'
<1> SUFFICES ASSUME FsTypeOK, FsTypeOK', TreeOK, AboveOK, RemoveOK, [FsNext]_fsVars
             PROVE  RemoveOK'
  OBVIOUS
<1>1. CASE UNCHANGED <<disk, frames, rm>>
  BY <1>1, QuietRemove DEF SameKinds
<1>2. ASSUME NEW p \in Paths, NEW err \in BOOLEAN, UNCHANGED frames,
             \/ fs_mkdir(p, err)
             \/ \E h \in Addrs, mode \in {"r", "w", "a"} : fs_open(p, mode, h, err)
      PROVE  RemoveOK'
  BY <1>2, Creation, CreateRemove, QuietRemove
<1>3. ASSUME NEW h \in Addrs, files[h].open, NEW err \in BOOLEAN,
             fs_close(h, err), UNCHANGED <<dirs, frames, rm>>
      PROVE  RemoveOK'
  BY <1>3, CloseKinds, QuietRemove
<1>4. ASSUME NEW t \in Tasks, NEW p \in Paths \ {Root}, fs_remove(t, p),
             UNCHANGED <<disk, files, dirs, heap>>
      PROVE  RemoveOK'
  <2> SUFFICES ASSUME NEW u \in Tasks PROVE TaskOK(u)'
    BY DEF RemoveOK
  <2>1. CASE u # t
    <3>1. rm'[u] = rm[u] /\ frames'[u] = frames[u] /\ TaskOK(u) /\ NothingNew(rm[u].path)
      BY <1>4, <2>1 DEF fs_remove, FsTypeOK, RemoveOK, NothingNew
    <3> QED
      BY <1>4, <3>1, TaskStays
  <2>2. CASE u = t
    <3>1. /\ rm'[u] = [path |-> p, ret |-> "busy", found |-> disk[p].kind # "absent"]
          /\ frames'[u] = <<Frame(p)>>
      BY <1>4, <2>2 DEF fs_remove, FsTypeOK
    <3>2. /\ frames'[u] # <<>> /\ Len(frames'[u]) = 1 /\ frames'[u][1] = Frame(p)
          /\ rm'[u].path = p /\ rm'[u].ret = "busy"
          /\ rm'[u].found = (disk[p].kind # "absent")
      BY <3>1
    <3>3. FrameOK(frames[u], 1, rm[u].path)'
      BY <3>2, PathPrefixSelf DEF FrameOK, Frame
    <3>4. BusyOK(u)'
      <4>1. \A d \in 1 .. Len(frames'[u]) : d = 1
        BY <3>2
      <4>2. \A d \in 1 .. Len(frames'[u]) : FrameOK(frames[u], d, rm[u].path)'
        BY <3>3, <4>1
      <4>3. p # Root /\ UNCHANGED disk /\ (rm'[u].found => disk[p].kind # "absent")
        BY <1>4, <3>2, Zenon
      <4>4. frames'[u][1].path = p
        BY <3>2 DEF Frame
      <4> QED
        BY <3>2, <4>2, <4>3, <4>4 DEF BusyOK
    <3> QED
      BY <3>2, <3>4 DEF TaskOK
  <2> QED
    BY <2>1, <2>2
<1>5. ASSUME NEW t \in Tasks, rm' = [rm EXCEPT ![t] = NoRemove],
             UNCHANGED <<disk, files, dirs, heap, frames>>
      PROVE  RemoveOK'
  <2> SUFFICES ASSUME NEW u \in Tasks PROVE TaskOK(u)'
    BY DEF RemoveOK
  <2>1. CASE u = t
    BY <1>5, <2>1, NoRecord DEF FsTypeOK
  <2>2. CASE u # t
    <3>1. rm'[u] = rm[u] /\ frames'[u] = frames[u] /\ TaskOK(u) /\ NothingNew(rm[u].path)
      BY <1>5, <2>2 DEF FsTypeOK, RemoveOK, NothingNew
    <3> QED
      BY <1>5, <3>1, TaskStays
  <2> QED
    BY <2>1, <2>2
<1>6. CASE fs_init
  BY <1>6, NoRecord DEF fs_init, RemoveOK
<1> QED
  BY <1>1, <1>2, <1>3, <1>4, <1>5, <1>6, StepRemove DEF FsNext, fsVars

\* fs_remove empties a directory while it reads it, and other tasks may remove
\* and write there too: if no call into littlefs failed and nobody created
\* anything there meanwhile, nothing is left of the tree, and fs_remove returns
\* 0 if there was one that no other task removed first.
THEOREM RemovalIsComplete == FsSpec => []RemoveComplete
<1>1. FsInit => RemoveOK
  BY DEF FsInit, RemoveOK, TaskOK, NoRemove
<1>2. RemoveOK => RemoveComplete
  BY DEF RemoveOK, TaskOK, DoneOK, RemoveComplete
<1> QED
  BY <1>1, <1>2, FsTypeCorrect, TreeStaysWhole, FsAboveOK, RemoveInv, PTL DEF FsSpec

-----------------------------------------------------------------------------
(* Appending.                                                              *)

\* What is open for appending begins with the version that was opened.
AppendOK ==
  \A h \in Addrs : files[h].open /\ files[h].mode = "a" => IsPrefix(files[h].base, files[h].data)

\* Writing at the end of a text keeps the text.
LEMMA OverwriteAtEnd ==
  ASSUME NEW data \in Contents, NEW bytes \in Seq(Bytes)
  PROVE  IsPrefix(data, Overwrite(data, Len(data), bytes))
<1> DEFINE o == Overwrite(data, Len(data), bytes)
           len == IF Len(data) + Len(bytes) > Len(data) THEN Len(data) + Len(bytes) ELSE Len(data)
<1>1. Len(data) \in Nat /\ Len(bytes) \in Nat
  BY LenProperties DEF Contents
<1>2. len \in Nat /\ Len(data) <= len
  BY <1>1
<1>3. o \in Contents /\ Len(o) = len
  BY <1>1, OverwriteType
<1>4. DOMAIN o = 1 .. len /\ \A i \in 1 .. Len(data) : o[i] = data[i]
  BY <1>1 DEF Overwrite
<1> HIDE DEF o, len
<1>5. IsPrefix(data, o)
  BY <1>2, <1>3, <1>4, PrefixDef DEF Contents
<1> QED
  BY <1>5 DEF o

\* Beginning with is transitive.
LEMMA PrefixTransitive ==
  ASSUME NEW S, NEW p \in Seq(S), NEW q \in Seq(S), NEW r \in Seq(S),
         IsPrefix(p, q), IsPrefix(q, r)
  PROVE  IsPrefix(p, r)
<1>1. /\ Len(p) \in Nat /\ Len(q) \in Nat /\ Len(r) \in Nat
      /\ Len(p) <= Len(q) /\ \A i \in 1 .. Len(p) : p[i] = q[i]
      /\ Len(q) <= Len(r) /\ \A i \in 1 .. Len(q) : q[i] = r[i]
  BY PrefixDef, LenProperties
<1>2. Len(p) <= Len(r) /\ \A i \in 1 .. Len(p) : p[i] = r[i]
  BY <1>1
<1> QED
  BY <1>2, PrefixDef

\* AppendOK is inductive, given the types.
LEMMA AppendStep == FsTypeOK /\ AppendOK /\ [FsNext]_fsVars => AppendOK'
<1> SUFFICES ASSUME FsTypeOK, AppendOK, [FsNext]_fsVars,
                    NEW a \in Addrs, files'[a].open, files'[a].mode = "a"
             PROVE  IsPrefix(files'[a].base, files'[a].data)
  BY DEF AppendOK
<1>0. files[a] \in FileRecords
  BY DEF FsTypeOK
<1>1. CASE files'[a] = files[a]
  BY <1>1 DEF AppendOK
<1>2. ASSUME NEW h \in Addrs, NEW p \in Paths, NEW err \in BOOLEAN, NEW mode \in {"r", "w", "a"},
             fs_open(p, mode, h, err)
      PROVE  IsPrefix(files'[a].base, files'[a].data)
  <2>1. disk[p].data \in Contents
    BY DEF FsTypeOK, Nodes
  <2>2. IsPrefix(disk[p].data, disk[p].data)
    BY <2>1, PrefixSelf DEF Contents
  <2>3. CASE a = h /\ files'[a] # files[a]
    <3>1. files'[a].mode = mode /\ files'[a].base = disk[p].data
          /\ files'[a].data = IF Truncates(mode) THEN <<>> ELSE disk[p].data
      BY <1>2, <2>3 DEF fs_open, FsTypeOK
    <3>2. ~Truncates(mode)
      BY <3>1 DEF Truncates
    <3> QED
      BY <2>2, <3>1, <3>2
  <2>4. a # h => files'[a] = files[a]
    BY <1>2 DEF fs_open, FsTypeOK
  <2> QED
    BY <1>1, <2>3, <2>4
<1>3. ASSUME NEW h \in Addrs, NEW err \in BOOLEAN, fs_close(h, err) PROVE files'[a] = files[a]
  BY <1>3 DEF fs_close, FsTypeOK, ClosedFile
<1>4. ASSUME NEW h \in Addrs, NEW n \in Nat, fs_seek(h, n) \/ fs_read(h, n)
      PROVE  IsPrefix(files'[a].base, files'[a].data)
  <2>1. files'[a].open = files[a].open /\ files'[a].mode = files[a].mode
        /\ files'[a].base = files[a].base /\ files'[a].data = files[a].data
    <3>1. \E m : files'[a] \in {files[a], [files[a] EXCEPT !.pos = m]}
      BY <1>4 DEF fs_seek, fs_read, FsTypeOK
    <3> QED
      BY <1>0, <3>1 DEF FileRecords
  <2> QED
    BY <2>1 DEF AppendOK
<1>5. ASSUME NEW h \in Addrs, NEW bytes \in Seq(Bytes), NEW err \in BOOLEAN,
             fs_write(h, bytes, err)
      PROVE  IsPrefix(files'[a].base, files'[a].data)
  <2>1. /\ files'[a].open = files[a].open /\ files'[a].mode = files[a].mode
        /\ files'[a].base = files[a].base
    BY <1>5, UseKeeps
  <2>2. IsPrefix(files[a].base, files[a].data)
    BY <2>1 DEF AppendOK
  <2>3. \/ files'[a].data = files[a].data
        \/ files'[a].data = Overwrite(files[a].data, Len(files[a].data), bytes)
    <3>1. CASE a # h
      BY <1>5, <3>1 DEF fs_write, FsTypeOK
    <3>2. CASE a = h /\ err
      BY <1>0, <1>5, <3>2 DEF fs_write, FsTypeOK, FileRecords
    <3>3. CASE a = h /\ ~err
      BY <1>0, <1>5, <2>1, <3>3 DEF fs_write, FsTypeOK, FileRecords
    <3> QED
      BY <3>1, <3>2, <3>3
  <2>4. files[a].base \in Contents /\ files[a].data \in Contents /\ Len(files[a].data) \in Nat
    BY <1>0, LenProperties DEF FileRecords, Contents
  <2>5. /\ Overwrite(files[a].data, Len(files[a].data), bytes) \in Contents
        /\ IsPrefix(files[a].data, Overwrite(files[a].data, Len(files[a].data), bytes))
    BY <2>4, OverwriteType, OverwriteAtEnd
  <2> QED
    BY <2>1, <2>2, <2>3, <2>4, <2>5, PrefixTransitive DEF Contents
<1>6. ASSUME NEW t \in Tasks, RemoveStep(t) PROVE IsPrefix(files'[a].base, files'[a].data)
  <2>1. files'[a] \in {files[a], [files[a] EXCEPT !.orphan = TRUE]}
    BY <1>6 DEF RemoveStep, RemoveEnter, RemoveRead, RemoveLast
  <2>2. /\ files'[a].open = files[a].open /\ files'[a].mode = files[a].mode
        /\ files'[a].base = files[a].base /\ files'[a].data = files[a].data
    BY <1>0, <2>1 DEF FileRecords
  <2> QED
    BY <2>2 DEF AppendOK
<1>7. CASE fs_init
  BY <1>7 DEF fs_init, ClosedFile
<1>8. CASE UNCHANGED files
  BY <1>1, <1>8
<1> QED
  BY <1>1, <1>2, <1>3, <1>4, <1>5, <1>6, <1>7, <1>8 DEF FsNext, fsVars

\* A file opened for appending begins with the text it was opened with.
LEMMA FsAppendOK == FsSpec => []AppendOK
<1>1. FsInit => AppendOK
  BY DEF FsInit, AppendOK, ClosedFile
<1> QED
  BY <1>1, FsTypeCorrect, AppendStep, PTL DEF FsSpec

\* The step that closes a file opened for appending puts what was appended
\* behind what was there.
LEMMA AppendCommits ==
  ASSUME FsTypeOK, FsTypeOK', HeapOK, AppendOK, FsNext, NEW h \in Addrs,
         files[h].open, files[h].mode = "a", ~files'[h].open,
         disk[files[h].path] = File(files[h].base), disk'[files[h].path].kind = "file"
  PROVE  IsPrefix(disk[files[h].path].data, disk'[files[h].path].data)
<1> DEFINE p == files[h].path
<1>1. /\ files[h] \in FileRecords /\ p \in Paths /\ files[h].base \in Contents
      /\ disk[p].data = files[h].base
  BY DEF FsTypeOK, FileRecords, File
<1>2. IsPrefix(files[h].base, files[h].base)
  BY <1>1, PrefixSelf DEF Contents
<1>3. CASE disk'[p] = disk[p]
  BY <1>1, <1>2, <1>3
<1>4. ASSUME NEW a \in Addrs, NEW err \in BOOLEAN, fs_close(a, err)
      PROVE  IsPrefix(disk[p].data, disk'[p].data)
  <2>1. a = h
    BY <1>4 DEF fs_close, FsTypeOK
  <2>2. disk'[p] = disk[p] \/ disk'[p] = File(files[h].data)
    BY <1>1, <1>4, <2>1 DEF fs_close, FsTypeOK
  <2>3. CASE disk'[p] = File(files[h].data)
    BY <1>1, <2>3 DEF AppendOK, File
  <2> QED
    BY <1>3, <2>2, <2>3
<1>5. CASE fs_init
  <2>1. disk'[p] = disk[p]
    BY <1>1, <1>5 DEF fs_init, Formatted, Dir, Absent
  <2> QED
    BY <1>3, <2>1
<1>6. ASSUME NEW a \in Addrs \ heap, NEW q \in Paths, NEW err \in BOOLEAN,
             NEW mode \in {"r", "w", "a"}, fs_open(q, mode, a, err)
      PROVE  FALSE
  <2>1. a # h
    BY <1>6 DEF HeapOK
  <2> QED
    BY <1>6, <2>1 DEF fs_open, FsTypeOK
<1>7. ASSUME NEW a \in Addrs,
             \/ \E n \in Nat : fs_seek(a, n) \/ fs_read(a, n)
             \/ \E bytes \in Seq(Bytes), err \in BOOLEAN : fs_write(a, bytes, err)
      PROVE  FALSE
  BY <1>7, UseKeeps
<1>8. ASSUME NEW t \in Tasks, RemoveStep(t) PROVE FALSE
  <2>1. files'[h] \in {files[h], [files[h] EXCEPT !.orphan = TRUE]}
    BY <1>8 DEF RemoveStep, RemoveEnter, RemoveRead, RemoveLast
  <2> QED
    BY <1>1, <2>1 DEF FileRecords
<1>9. ~UNCHANGED files
  OBVIOUS
<1> QED
  BY <1>4, <1>5, <1>6, <1>7, <1>8, <1>9 DEF FsNext

-----------------------------------------------------------------------------
(* The stack of an fs_remove, whether or not anything is recorded of it.   *)

Chain(t) ==
  \A d \in 1 .. Len(frames[t]) :
    /\ IsPrefix(frames[t][1].path, frames[t][d].path)
    /\ d < Len(frames[t]) =>
         /\ frames[t][d].phase = "read" /\ frames[t][d].last \in Names
         /\ Len(frames[t][d].path) < MaxDepth
         /\ frames[t][d + 1].path = Append(frames[t][d].path, frames[t][d].last)
    /\ frames[t][d].phase = "enter" => frames[t][d].last = 0
ChainOK == \A t \in Tasks : Chain(t)

\* The removal of something leaves the stacks as they are, except for the
\* activation that returns.
LEMMA LastStacks ==
  ASSUME FsTypeOK, NEW t \in Tasks, NEW err \in BOOLEAN, RemoveLast(t, err), NEW u \in Tasks
  PROVE  /\ Len(frames'[u]) = IF u = t THEN Len(frames[u]) - 1 ELSE Len(frames[u])
         /\ Len(frames[u]) \in Nat
         /\ \A d \in 1 .. Len(frames'[u]) :
              /\ d \in 1 .. Len(frames[u])
              /\ frames[u][d] \in Frames /\ frames[u][d].path \in Paths
              /\ frames'[u][d].path = frames[u][d].path
              /\ frames'[u][d].phase = frames[u][d].phase
              /\ frames'[u][d].last = frames[u][d].last
              /\ \/ frames'[u][d].at = frames[u][d].at
                 \/ /\ disk'[Top(t).path].kind = "absent" /\ Top(t).path # Root
                    /\ frames[u][d].path = Front(Top(t).path)
                    /\ frames'[u][d].at = frames[u][d].at \ {Last(Top(t).path)}
<1> DEFINE p == Top(t).path
           s == IF u = t THEN Front(frames[u]) ELSE frames[u]
<1>1. /\ Len(frames[u]) \in Nat /\ frames[u] \in Seq(Frames)
      /\ u = t => Len(frames[t]) \in Nat \ {0}
      /\ s \in Seq(Frames) /\ Len(s) = IF u = t THEN Len(frames[u]) - 1 ELSE Len(frames[u])
      /\ \A d \in 1 .. Len(s) : s[d] = frames[u][d]
  <2>1. Len(frames[u]) \in Nat /\ frames[u] \in Seq(Frames)
    BY LenProperties DEF FsTypeOK
  <2>2. CASE u = t
    BY <2>1, <2>2, TopOfStack DEF RemoveLast
  <2>3. CASE u # t
    BY <2>1, <2>3
  <2> QED
    BY <2>2, <2>3
<1>2. Len(s) \in Nat /\ \A d \in 1 .. Len(s) : d \in 1 .. Len(frames[u])
  BY <1>1
<1>3. \A d \in 1 .. Len(s) : s[d] \in Frames /\ s[d].path \in Paths
  <2>1. \A d \in 1 .. Len(s) : s[d] \in Frames
    BY <1>1, ElementOfSeq
  <2> QED
    BY <2>1 DEF Frames
<1>4. CASE ~err /\ CanRemove(p)
  <2>1. frames'[u] = [d \in DOMAIN s |-> Forget(s[d], p)]
    BY <1>4 DEF RemoveLast, FsTypeOK
  <2> HIDE DEF s
  <2>2. /\ Len(frames'[u]) = Len(s)
        /\ \A d \in 1 .. Len(s) : frames'[u][d] = Forget(s[d], p)
    BY <1>1, <2>1, ForgetStack
  <2>3. disk'[p].kind = "absent" /\ p # Root
    BY <1>4, LastOutcome
  <2>4. ASSUME NEW d \in 1 .. Len(s)
        PROVE  /\ frames'[u][d].path = s[d].path /\ frames'[u][d].phase = s[d].phase
               /\ frames'[u][d].last = s[d].last
               /\ \/ frames'[u][d].at = s[d].at
                  \/ s[d].path = Front(p) /\ frames'[u][d].at = s[d].at \ {Last(p)}
    <3>1. s[d] \in Frames
      BY <1>3
    <3>2. CASE s[d].path # Front(p)
      BY <2>2, <3>2 DEF Forget
    <3>3. CASE s[d].path = Front(p)
      <4>1. frames'[u][d] = [s[d] EXCEPT !.at = @ \ {Last(p)}]
        BY <2>2, <3>3 DEF Forget
      <4> QED
        BY <3>1, <3>3, <4>1 DEF Frames
    <3> QED
      BY <3>2, <3>3
  <2> QED
    BY <1>1, <1>2, <1>3, <2>2, <2>3, <2>4
<1>5. CASE ~(~err /\ CanRemove(p))
  <2>1. frames'[u] = s
    BY <1>5 DEF RemoveLast, FsTypeOK
  <2> HIDE DEF s
  <2> QED
    BY <1>1, <1>2, <1>3, <2>1
<1> QED
  BY <1>4, <1>5

\* The other two steps, in terms of the stack.
LEMMA EnterStacks ==
  ASSUME FsTypeOK, NEW t \in Tasks, NEW err \in BOOLEAN, RemoveEnter(t, err),
         NEW k \in Nat, k = Len(frames[t])
  PROVE  /\ k \in Nat \ {0} /\ Len(frames'[t]) = k /\ Top(t) = frames[t][k]
         /\ \A d \in 1 .. k : frames[t][d] \in Frames /\ frames[t][d].path \in Paths
         /\ \A d \in 1 .. k - 1 : frames'[t][d] = frames[t][d]
         /\ frames'[t][k].path = frames[t][k].path /\ frames'[t][k].last = frames[t][k].last
         /\ frames[t][k].phase = "enter"
         /\ IF ~err /\ disk[frames[t][k].path].kind = "dir"
              THEN frames'[t][k].phase = "read" /\ frames'[t][k].at = Entries(frames[t][k].path)
              ELSE frames'[t][k].phase = "remove"
         /\ \A u \in Tasks \ {t} : frames'[u] = frames[u]
<1> DEFINE g == IF ~err /\ disk[Top(t).path].kind = "dir"
                  THEN [Top(t) EXCEPT !.phase = "read", !.at = Entries(Top(t).path)]
                  ELSE [Top(t) EXCEPT !.phase = "remove"]
<1>1. Removing(t) /\ Top(t).phase = "enter"
  BY DEF RemoveEnter
<1>2. /\ k \in Nat \ {0} /\ Top(t) = frames[t][k]
      /\ \A d \in 1 .. k : frames[t][d] \in Frames /\ frames[t][d].path \in Paths
  BY <1>1, TopOfStack
<1>3. Top(t) \in Frames
  BY <1>1, StackType
<1>4. /\ g \in Frames /\ g.path = Top(t).path /\ g.last = Top(t).last
      /\ IF ~err /\ disk[Top(t).path].kind = "dir"
           THEN g.phase = "read" /\ g.at = Entries(Top(t).path) ELSE g.phase = "remove"
  BY <1>3, EntriesAreNames DEF Frames
<1>5. frames'[t] = Append(Front(frames[t]), g) /\ \A u \in Tasks \ {t} : frames'[u] = frames[u]
  BY DEF RemoveEnter, SetTop, FsTypeOK
<1> HIDE DEF g
<1>6. Len(frames'[t]) = k /\ frames'[t][k] = g /\ \A d \in 1 .. k - 1 : frames'[t][d] = frames[t][d]
  BY <1>1, <1>4, <1>5, TopOfStack
<1> QED
  BY <1>1, <1>2, <1>4, <1>5, <1>6

\* The innermost activation, k, has read entry n and calls fs_remove for it.
Descends(t, k, n) ==
  /\ n \in lfs_dir_read(frames[t][k]) /\ n > frames[t][k].last /\ Len(frames[t][k].path) < MaxDepth
  /\ Len(frames'[t]) = k + 1 /\ frames'[t][k].phase = "read"
  /\ frames'[t][k].last = n /\ frames'[t][k].at = frames[t][k].at
  /\ frames'[t][k + 1].path = Append(frames[t][k].path, n)
  /\ frames'[t][k + 1].phase = "enter" /\ frames'[t][k + 1].last = 0

\* What a read of the directory does to the stacks of activations.
LEMMA ReadStacks ==
  ASSUME FsTypeOK, NEW t \in Tasks, NEW err \in BOOLEAN, RemoveRead(t, err),
         NEW k \in Nat, k = Len(frames[t])
  PROVE  /\ k \in Nat \ {0} /\ Top(t) = frames[t][k] /\ frames[t][k].phase = "read"
         /\ \A d \in 1 .. k : frames[t][d] \in Frames /\ frames[t][d].path \in Paths
         /\ \A d \in 1 .. k - 1 : frames'[t][d] = frames[t][d]
         /\ frames'[t][k].path = frames[t][k].path
         /\ \/ /\ err \/ AtEnd(frames[t][k])
               /\ Len(frames'[t]) = k /\ frames'[t][k].phase = "remove"
            \/ \E n \in Names : Descends(t, k, n)
         /\ \A u \in Tasks \ {t} : frames'[u] = frames[u]
<1> DEFINE f == Top(t)
<1>1. Removing(t) /\ f.phase = "read"
  BY DEF RemoveRead
<1>2. /\ k \in Nat \ {0} /\ f = frames[t][k] /\ f \in Frames /\ f.path \in Paths
      /\ \A d \in 1 .. k : frames[t][d] \in Frames /\ frames[t][d].path \in Paths
  BY <1>1, TopOfStack, StackType
<1>3. \A u \in Tasks \ {t} : frames'[u] = frames[u]
  BY DEF RemoveRead, SetTop, FsTypeOK
<1>4. CASE (err \/ AtEnd(f)) /\ frames' = SetTop(t, [f EXCEPT !.phase = "remove"])
  <2> DEFINE g == [f EXCEPT !.phase = "remove"]
  <2>1. g \in Frames /\ g.path = f.path /\ g.phase = "remove"
    BY <1>2 DEF Frames
  <2>2. frames'[t] = Append(Front(frames[t]), g)
    BY <1>4 DEF SetTop, FsTypeOK
  <2> HIDE DEF g
  <2>3. /\ Len(frames'[t]) = k /\ frames'[t][k] = g
        /\ \A d \in 1 .. k - 1 : frames'[t][d] = frames[t][d]
    BY <1>1, <2>1, <2>2, TopOfStack
  <2> QED
    BY <1>1, <1>2, <1>3, <1>4, <2>1, <2>3
<1>5. ASSUME NEW n \in lfs_dir_read(f),
             frames' = [frames EXCEPT ![t] =
               Append(Append(Front(@), Advance(f, n)), Frame(Append(f.path, n)))]
      PROVE  /\ n \in Names /\ n > f.last /\ Len(f.path) < MaxDepth
             /\ Len(frames'[t]) = k + 1 /\ frames'[t][k].path = f.path
             /\ frames'[t][k].phase = "read"
             /\ frames'[t][k].last = n /\ frames'[t][k].at = f.at
             /\ frames'[t][k + 1].path = Append(f.path, n)
             /\ frames'[t][k + 1].phase = "enter" /\ frames'[t][k + 1].last = 0
             /\ \A d \in 1 .. k - 1 : frames'[t][d] = frames[t][d]
  <2> DEFINE g == Advance(f, n)
             c == Frame(Append(f.path, n))
             s == Append(Front(frames[t]), g)
  <2>1. n \in Entries(f.path) /\ n > f.last
    BY <1>5 DEF lfs_dir_read, Ahead
  <2>2. n \in Names /\ Len(f.path) < MaxDepth
    BY <2>1 DEF Entries
  <2>3. g \in Frames /\ g.path = f.path /\ g.phase = "read" /\ g.last = n /\ g.at = f.at
    BY <1>1, <1>2, <2>2 DEF Advance, Frames
  <2>4. Append(f.path, n) \in Paths
    BY <1>2, <2>2, ChildPath
  <2>5. c \in Frames /\ c.path = Append(f.path, n) /\ c.phase = "enter" /\ c.last = 0
    BY <2>4, ConstantTypes DEF Frame
  <2>6. frames'[t] = Append(s, c)
    BY <1>5 DEF FsTypeOK
  <2> HIDE DEF g, c
  <2>7. /\ s \in Seq(Frames) /\ Len(s) = k /\ s[k] = g
        /\ \A d \in 1 .. k - 1 : s[d] = frames[t][d]
    BY <1>1, <2>3, TopOfStack
  <2> HIDE DEF s
  <2>8. /\ Len(Append(s, c)) = Len(s) + 1 /\ Append(s, c)[Len(s) + 1] = c
        /\ \A d \in 1 .. Len(s) : Append(s, c)[d] = s[d]
    BY <2>5, <2>7, AppendProperties
  <2>9. k \in 1 .. k /\ \A d \in 1 .. k - 1 : d \in 1 .. k
    BY <1>2, Places
  <2>10. /\ Len(frames'[t]) = k + 1 /\ frames'[t][k] = g /\ frames'[t][k + 1] = c
         /\ \A d \in 1 .. k - 1 : frames'[t][d] = frames[t][d]
    BY <2>6, <2>7, <2>8, <2>9
  <2> QED
    BY <2>1, <2>2, <2>3, <2>5, <2>10
<1>6. \/ (err \/ AtEnd(f)) /\ frames' = SetTop(t, [f EXCEPT !.phase = "remove"])
      \/ \E n \in lfs_dir_read(f) : frames' = [frames EXCEPT ![t] =
               Append(Append(Front(@), Advance(f, n)), Frame(Append(f.path, n)))]
  BY DEF RemoveRead
<1>7. CASE \E n \in lfs_dir_read(f) : frames' = [frames EXCEPT ![t] =
               Append(Append(Front(@), Advance(f, n)), Frame(Append(f.path, n)))]
  <2>1. PICK n \in lfs_dir_read(f) : frames' = [frames EXCEPT ![t] =
               Append(Append(Front(@), Advance(f, n)), Frame(Append(f.path, n)))]
    BY <1>7
  <2>2. /\ n \in Names /\ n > f.last /\ Len(f.path) < MaxDepth
        /\ Len(frames'[t]) = k + 1 /\ frames'[t][k].path = f.path
        /\ frames'[t][k].phase = "read"
        /\ frames'[t][k].last = n /\ frames'[t][k].at = f.at
        /\ frames'[t][k + 1].path = Append(f.path, n)
        /\ frames'[t][k + 1].phase = "enter" /\ frames'[t][k + 1].last = 0
        /\ \A d \in 1 .. k - 1 : frames'[t][d] = frames[t][d]
    BY <1>5, <2>1
  <2>3. n \in Names /\ Descends(t, k, n)
    BY <1>2, <2>1, <2>2 DEF Descends
  <2> QED
    BY <1>1, <1>2, <1>3, <2>2, <2>3
<1> QED
  BY <1>4, <1>6, <1>7

\* ChainOK is inductive, given the types.
LEMMA ChainStep == FsTypeOK /\ ChainOK /\ [FsNext]_fsVars => ChainOK'
<1> SUFFICES ASSUME FsTypeOK, ChainOK, [FsNext]_fsVars, NEW u \in Tasks
             PROVE  Chain(u)'
  BY DEF ChainOK
<1>0. Chain(u) /\ Len(frames[u]) \in Nat /\ frames[u] \in Seq(Frames)
  BY LenProperties DEF ChainOK, FsTypeOK
<1>1. CASE frames'[u] = frames[u]
  BY <1>0, <1>1 DEF Chain
<1>2. ASSUME NEW t \in Tasks, NEW p \in Paths \ {Root}, fs_remove(t, p) PROVE Chain(u)'
  <2>1. CASE u # t
    BY <1>1, <1>2, <2>1 DEF fs_remove, FsTypeOK
  <2>2. CASE u = t
    <3>1. frames'[u] = <<Frame(p)>>
      BY <1>2, <2>2 DEF fs_remove, FsTypeOK
    <3>2. /\ Len(frames'[u]) = 1 /\ frames'[u][1].path = p /\ frames'[u][1].last = 0
      BY <3>1 DEF Frame
    <3>3. \A d \in 1 .. Len(frames'[u]) : d = 1 /\ ~(d < Len(frames'[u]))
      BY <3>2
    <3> QED
      BY <1>2, <3>2, <3>3, PathPrefixSelf DEF Chain
  <2> QED
    BY <2>1, <2>2
<1>3. ASSUME NEW err \in BOOLEAN, RemoveEnter(u, err) PROVE Chain(u)'
  <2>1. PICK k \in Nat : k = Len(frames[u])
    BY <1>0
  <2>2. /\ k \in Nat \ {0} /\ Len(frames'[u]) = k
        /\ \A d \in 1 .. k - 1 : frames'[u][d] = frames[u][d]
        /\ frames'[u][k].path = frames[u][k].path /\ frames'[u][k].phase # "enter"
    BY <1>3, <2>1, EnterStacks
  <2>3. /\ \A d \in 1 .. k : d = k \/ d \in 1 .. k - 1
        /\ \A d \in 1 .. k - 1 : d \in 1 .. k /\ d < k /\ (d + 1 \in 1 .. k - 1 \/ d + 1 = k)
        /\ (k = 1 \/ 1 \in 1 .. k - 1) /\ k \in 1 .. k /\ ~(k < k)
    BY <2>2, Places
  <2>4. \A d \in 1 .. k : frames'[u][d].path = frames[u][d].path
    BY <2>2, <2>3
  <2>5. frames'[u][1].path = frames[u][1].path
    BY <2>2, <2>3
  <2>6. \A d \in 1 .. k - 1 : frames'[u][d + 1].path = frames[u][d + 1].path
    BY <2>3, <2>4
  <2> QED
    BY <1>0, <2>1, <2>2, <2>3, <2>4, <2>5, <2>6 DEF Chain
<1>4. ASSUME NEW err \in BOOLEAN, RemoveRead(u, err) PROVE Chain(u)'
  <2>1. PICK k \in Nat : k = Len(frames[u])
    BY <1>0
  <2>2. /\ k \in Nat \ {0}
        /\ \A d \in 1 .. k : frames[u][d] \in Frames /\ frames[u][d].path \in Paths
        /\ \A d \in 1 .. k - 1 : frames'[u][d] = frames[u][d]
        /\ frames'[u][k].path = frames[u][k].path
        /\ \/ Len(frames'[u]) = k /\ frames'[u][k].phase = "remove"
           \/ \E n \in Names : Descends(u, k, n)
    BY <1>4, <2>1, ReadStacks
  <2>3. /\ \A d \in 1 .. k : d = k \/ d \in 1 .. k - 1
        /\ \A d \in 1 .. k - 1 : d \in 1 .. k /\ d < k /\ (d + 1 \in 1 .. k - 1 \/ d + 1 = k)
        /\ (k = 1 \/ 1 \in 1 .. k - 1) /\ k \in 1 .. k /\ ~(k < k) /\ 1 \in 1 .. k
    BY <2>2, Places
  <2>4. \A d \in 1 .. k : frames'[u][d].path = frames[u][d].path
    BY <2>2, <2>3
  <2>5. frames'[u][1].path = frames[u][1].path
    BY <2>2, <2>3
  <2>6. \A d \in 1 .. k - 1 : frames'[u][d + 1].path = frames[u][d + 1].path
    BY <2>3, <2>4
  <2>7. ASSUME NEW d \in 1 .. k - 1
        PROVE  /\ IsPrefix(frames'[u][1].path, frames'[u][d].path)
               /\ frames'[u][d].phase = "read" /\ frames'[u][d].last \in Names
               /\ Len(frames'[u][d].path) < MaxDepth
               /\ frames'[u][d + 1].path = Append(frames'[u][d].path, frames'[u][d].last)
    <3>1. /\ IsPrefix(frames[u][1].path, frames[u][d].path)
          /\ frames[u][d].phase = "read" /\ frames[u][d].last \in Names
          /\ Len(frames[u][d].path) < MaxDepth
          /\ frames[u][d + 1].path = Append(frames[u][d].path, frames[u][d].last)
      BY <1>0, <2>1, <2>3 DEF Chain
    <3>2. frames'[u][d] = frames[u][d]
      BY <2>2
    <3> QED
      BY <2>5, <2>6, <3>1, <3>2
  <2>8. IsPrefix(frames'[u][1].path, frames'[u][k].path)
    BY <1>0, <2>1, <2>2, <2>3, <2>5 DEF Chain
  <2>9. CASE Len(frames'[u]) = k /\ frames'[u][k].phase = "remove"
    BY <2>3, <2>7, <2>8, <2>9 DEF Chain
  <2>10. ASSUME NEW n \in Names, Descends(u, k, n) PROVE Chain(u)'
    <3>0. /\ Len(frames[u][k].path) < MaxDepth
          /\ Len(frames'[u]) = k + 1 /\ frames'[u][k].phase = "read" /\ frames'[u][k].last = n
          /\ frames'[u][k + 1].path = Append(frames[u][k].path, n)
          /\ frames'[u][k + 1].phase = "enter" /\ frames'[u][k + 1].last = 0
      BY <2>10 DEF Descends
    <3>1. IsPrefix(frames'[u][1].path, frames'[u][k + 1].path)
      BY <2>2, <2>3, <2>5, <2>8, <3>0, PathPrefix
    <3>2. \A d \in 1 .. k + 1 : d = k + 1 \/ d = k \/ d \in 1 .. k - 1
      BY <2>2
    <3>3. ~(k + 1 < k + 1)
      BY <2>2
    <3>4. \A d \in 1 .. k - 1 : frames'[u][d].phase # "enter"
      BY <2>7
    <3> QED
      BY <2>2, <2>7, <2>8, <3>0, <3>1, <3>2, <3>3, <3>4 DEF Chain
  <2> QED
    BY <2>2, <2>9, <2>10
<1>5. ASSUME NEW t \in Tasks, NEW err \in BOOLEAN, RemoveLast(t, err) PROVE Chain(u)'
  <2>1. PICK k \in Nat, j \in Int : k = Len(frames[u]) /\ j = Len(frames'[u]) /\ j <= k
    BY <1>0, <1>5, LastStacks
  <2>2. \A d \in 1 .. j : /\ d \in 1 .. k
                          /\ frames'[u][d].path = frames[u][d].path
                          /\ frames'[u][d].phase = frames[u][d].phase
                          /\ frames'[u][d].last = frames[u][d].last
    BY <1>5, <2>1, LastStacks
  <2>3. \A d \in 1 .. j : 1 \in 1 .. j /\ (d < j => d < k /\ d + 1 \in 1 .. j)
    BY <2>1
  <2> QED
    BY <1>0, <2>1, <2>2, <2>3 DEF Chain
<1>6. ASSUME NEW t \in Tasks, RemoveStep(t) PROVE Chain(u)'
  <2>1. PICK err \in BOOLEAN : RemoveEnter(t, err) \/ RemoveRead(t, err) \/ RemoveLast(t, err)
    BY <1>6 DEF RemoveStep
  <2>2. ASSUME u # t, RemoveEnter(t, err) \/ RemoveRead(t, err) PROVE frames'[u] = frames[u]
    BY <2>2 DEF RemoveEnter, RemoveRead, SetTop, FsTypeOK
  <2> QED
    BY <1>1, <1>3, <1>4, <1>5, <2>1, <2>2
<1>7. CASE fs_init
  BY <1>7 DEF fs_init, Chain
<1>8. CASE UNCHANGED frames
  BY <1>1, <1>8
<1> QED
  BY <1>2, <1>6, <1>7, <1>8 DEF FsNext, fsVars

\* The activations of an fs_remove are a chain of directories, each an entry of the one before.
LEMMA FsChainOK == FsSpec => []ChainOK
<1>1. FsInit => ChainOK
  BY DEF FsInit, ChainOK, Chain
<1> QED
  BY <1>1, ChainStep, FsTypeCorrect, PTL DEF FsSpec

=============================================================================
