------------------------------ MODULE FileSystem ------------------------------
(***************************************************************************)
(* Files and directories as module/fs.c offers them to the firmware and to *)
(* applications, by way of the stdio wrappers of module/patch/file.c.      *)
(*                                                                         *)
(* littlefs is external and modelled from how fs.c uses it: disk is the    *)
(* tree that is committed to flash, an open file is a copy of the version  *)
(* it opened, and close commits the copy in one step.  Each call into      *)
(* littlefs is one step and may fail.  Names are numbered in the order in  *)
(* which littlefs keeps them in a directory.  fs_gets has a module of its  *)
(* own (FsGets), the flash driver below littlefs too (FlashHal).           *)
(***************************************************************************)
EXTENDS Integers, Sequences, FiniteSets, SequencesExt

CONSTANTS
  Tasks,      \* tasks that use the file system
  Names,      \* names of files and directories
  MaxDepth,   \* bound on the components of a path
  Bytes,      \* what a file is made of
  Addrs       \* addresses calloc may return

ASSUME NamesAssumption == Names \subseteq (Nat \ {0})
ASSUME DepthAssumption == MaxDepth \in Nat

VARIABLES
  disk,     \* the committed tree
  files,    \* lfs_file_t at each address
  dirs,     \* lfs_dir_t at each address, from fs_dir_open
  heap,     \* live blocks that hold an lfs_file_t or an lfs_dir_t
  frames,   \* activations of fs_remove in each task, the innermost last
  rm        \* history: what became of the last fs_remove of each task

fsVars == <<disk, files, dirs, heap, frames, rm>>

-----------------------------------------------------------------------------
(* littlefs.                                                               *)

Paths == UNION {[1 .. n -> Names] : n \in 0 .. MaxDepth}
Root == <<>>
Absent == [kind |-> "absent", data |-> <<>>]
Dir == [kind |-> "dir", data |-> <<>>]
File(data) == [kind |-> "file", data |-> data]
Formatted == [p \in Paths |-> IF p = Root THEN Dir ELSE Absent]

Entries(p) == {n \in Names : /\ Len(p) < MaxDepth
                             /\ disk[Append(p, n)].kind # "absent"}
CanCreate(p) == /\ p # Root /\ disk[p].kind = "absent"
                /\ disk[Front(p)].kind = "dir"
CanRemove(p) == p # Root /\ disk[p].kind # "absent" /\ Entries(p) = {}

\* base is the version that was opened.
ClosedFile == [open |-> FALSE, path |-> Root, mode |-> "r", pos |-> 0,
               data |-> <<>>, base |-> <<>>,
               dirty |-> FALSE, erred |-> FALSE, orphan |-> FALSE]
ClosedDir == [open |-> FALSE, path |-> Root, at |-> {}, last |-> 0]

\* An iterator is behind the entry named last.  littlefs moves it when entries
\* in front of it come or go: every entry that is there since the iterator was
\* opened (at) is met, an entry created later may be.
Ahead(it) == {n \in Entries(it.path) : n > it.last}
lfs_dir_read(it) ==
  {n \in Ahead(it) : \A m \in Ahead(it) \cap it.at : n <= m}
AtEnd(it) == Ahead(it) \cap it.at = {}

\* An iterator after the removal of path p.
Forget(it, p) ==
  IF it.path = Front(p) THEN [it EXCEPT !.at = @ \ {Last(p)}] ELSE it

\* The record of no fs_remove, or of one in which a call into littlefs failed.
NoRemove == [path |-> Root, ret |-> "none", found |-> FALSE]

-----------------------------------------------------------------------------
(* Files.                                                                  *)

\* Nothing is recorded of an fs_remove that may have passed path p before p
\* was created.
Created(p) ==
  rm' = [t \in Tasks |-> IF IsPrefix(rm[t].path, p) THEN NoRemove ELSE rm[t]]

CanOpen(p, mode) == disk[p].kind = "file" \/ (mode # "r" /\ CanCreate(p))
CreateFile(p) ==
  IF disk[p].kind = "absent"
    THEN disk' = [disk EXCEPT ![p] = File(<<>>)] /\ Created(p)
    ELSE UNCHANGED <<disk, rm>>

\* Mutant: "a" truncates as well.
TruncatesAll(mode) == mode # "r"
Truncates(mode) == mode = "w"

\* Mutant: the block is not freed when lfs_file_open fails.
OpenLeaks(h) == heap' = heap \cup {h}
OpenFails(h) == UNCHANGED heap

\* A new file is created, empty, by the call; truncation waits for the commit.
\* An error may come after the creation.
fs_open(p, mode, h, err) ==
  \/ /\ ~err /\ CanOpen(p, mode) /\ CreateFile(p) /\ heap' = heap \cup {h}
     /\ files' = [files EXCEPT ![h] =
          [open |-> TRUE, path |-> p, mode |-> mode, pos |-> 0,
           data |-> IF Truncates(mode) THEN <<>> ELSE disk[p].data, base |-> disk[p].data,
           dirty |-> Truncates(mode) /\ disk[p].kind = "file",
           erred |-> FALSE, orphan |-> FALSE]]
  \/ /\ err \/ ~CanOpen(p, mode)
     /\ \/ UNCHANGED <<disk, rm>>
        \/ err /\ mode # "r" /\ CanCreate(p) /\ CreateFile(p)
     /\ OpenFails(h) /\ UNCHANGED files

\* lfs_file_close commits what was written, unless a write failed or the file
\* was removed meanwhile; its result is dropped.
\* Mutant: a removed file is committed.
CommitsRemoved(h) == files[h].dirty /\ ~files[h].erred
Commits(h) == files[h].dirty /\ ~files[h].erred /\ ~files[h].orphan
fs_close(h, err) ==
  /\ disk' = IF Commits(h) /\ ~err
               THEN [disk EXCEPT ![files[h].path] = File(files[h].data)] ELSE disk
  /\ files' = [files EXCEPT ![h] = ClosedFile] /\ heap' = heap \ {h}

fs_seek(h, pos) == files' = [files EXCEPT ![h].pos = pos]

\* What a read of n bytes yields; fs_getc reads one.
Bytes_at(h, n) ==
  LET end == files[h].pos + n
  IN  SubSeq(files[h].data, files[h].pos + 1,
             IF end < Len(files[h].data) THEN end ELSE Len(files[h].data))
fs_read(h, n) ==
  files' = [files EXCEPT ![h].pos = @ + Len(Bytes_at(h, n))]

\* Bytes that were never written read as 0, here the first of them.
Overwrite(data, pos, bytes) ==
  [n \in 1 .. (IF pos + Len(bytes) > Len(data) THEN pos + Len(bytes) ELSE Len(data)) |->
     IF n \in pos + 1 .. pos + Len(bytes) THEN bytes[n - pos]
     ELSE IF n <= Len(data) THEN data[n] ELSE 0]
fs_write(h, bytes, err) ==
  LET f == files[h]
      pos == IF f.mode = "a" THEN Len(f.data) ELSE f.pos
  IN  files' = [files EXCEPT ![h] =
        IF err THEN [f EXCEPT !.erred = TRUE]
        ELSE [f EXCEPT !.data = Overwrite(f.data, pos, bytes), !.dirty = TRUE,
                       !.pos = pos + Len(bytes)]]

fs_mkdir(p, err) ==
  IF ~err /\ CanCreate(p)
    THEN disk' = [disk EXCEPT ![p] = Dir] /\ Created(p)
    ELSE UNCHANGED <<disk, rm>>

-----------------------------------------------------------------------------
(* Directories.                                                            *)

\* Mutants: the entry behind a removed one is passed over; the directory is
\* read from its start again.
SkipEntry(it, n) == [it EXCEPT !.last = n + 1]
Rewind(it, n) == it
Advance(it, n) == [it EXCEPT !.last = n]

\* lfs_dir_seek(2) skips "." and "..".
fs_dir_open(p, h, err) ==
  IF ~err /\ disk[p].kind = "dir"
    THEN /\ dirs' = [dirs EXCEPT ![h] = [open |-> TRUE, path |-> p,
                                         at |-> Entries(p), last |-> 0]]
         /\ heap' = heap \cup {h}
    ELSE UNCHANGED <<dirs, heap>>
fs_dir_read(h, n) == n \in lfs_dir_read(dirs[h]) /\ dirs' = [dirs EXCEPT ![h] = Advance(@, n)]
fs_dir_close(h) == dirs' = [dirs EXCEPT ![h] = ClosedDir] /\ heap' = heap \ {h}

-----------------------------------------------------------------------------
(* fs_remove, which calls itself for every entry of a directory.           *)

Frame(p) == [path |-> p, phase |-> "enter", at |-> {}, last |-> 0]
Top(t) == Last(frames[t])
SetTop(t, f) == [frames EXCEPT ![t] = Append(Front(@), f)]
Removing(t) == frames[t] # <<>>

fs_remove(t, p) ==
  /\ ~Removing(t) /\ frames' = [frames EXCEPT ![t] = <<Frame(p)>>]
  /\ rm' = [rm EXCEPT ![t] = [path |-> p, ret |-> "busy",
                              found |-> disk[p].kind # "absent"]]

Disturb(t, err) == rm' = [rm EXCEPT ![t] = IF err THEN NoRemove ELSE @]

\* lfs_dir_open: a directory is emptied first.
RemoveEnter(t, err) ==
  /\ Removing(t) /\ Top(t).phase = "enter"
  /\ frames' = SetTop(t, IF ~err /\ disk[Top(t).path].kind = "dir"
                           THEN [Top(t) EXCEPT !.phase = "read", !.at = Entries(Top(t).path)]
                           ELSE [Top(t) EXCEPT !.phase = "remove"])
  /\ Disturb(t, err) /\ UNCHANGED <<disk, files, dirs, heap>>

\* lfs_dir_read: fs_remove of the next entry, or lfs_dir_close at the end.
RemoveRead(t, err) ==
  /\ Removing(t) /\ Top(t).phase = "read"
  /\ \/ \E n \in lfs_dir_read(Top(t)) : ~err /\
          frames' = [frames EXCEPT ![t] =
             Append(Append(Front(@), Advance(Top(t), n)),
                    Frame(Append(Top(t).path, n)))]
     \/ /\ err \/ AtEnd(Top(t))
        /\ frames' = SetTop(t, [Top(t) EXCEPT !.phase = "remove"])
  /\ Disturb(t, err) /\ UNCHANGED <<disk, files, dirs, heap>>

\* lfs_remove, and back to the caller.  Files open on the path are cut off.
RemoveLast(t, err) ==
  LET p == Top(t).path
      ok == ~err /\ CanRemove(p)
      rest == [frames EXCEPT ![t] = Front(@)]
  IN  /\ Removing(t) /\ Top(t).phase = "remove"
      /\ IF ok
           THEN /\ disk' = [disk EXCEPT ![p] = Absent]
                /\ files' = [h \in Addrs |-> IF files[h].open /\ files[h].path = p
                               THEN [files[h] EXCEPT !.orphan = TRUE] ELSE files[h]]
                /\ dirs' = [h \in Addrs |-> Forget(dirs[h], p)]
                /\ frames' = [u \in Tasks |->
                     [d \in DOMAIN rest[u] |-> Forget(rest[u][d], p)]]
           ELSE frames' = rest /\ UNCHANGED <<disk, files, dirs>>
      /\ rm' = [u \in Tasks |->
           IF u = t THEN IF err THEN NoRemove
                         ELSE IF rest[t] # <<>> \/ rm[t] = NoRemove THEN rm[t]
                         ELSE [rm[t] EXCEPT !.ret = IF ok THEN "ok" ELSE "error"]
           ELSE IF ok /\ rm[u].path = p THEN [rm[u] EXCEPT !.found = FALSE] ELSE rm[u]]
      /\ UNCHANGED heap

RemoveStep(t) ==
  \E err \in BOOLEAN : RemoveEnter(t, err) \/ RemoveRead(t, err) \/ RemoveLast(t, err)

-----------------------------------------------------------------------------
\* fs_init: what cannot be mounted is formatted.  Open files are lost.
fs_init ==
  /\ disk' \in {disk, Formatted}
  /\ files' = [h \in Addrs |-> ClosedFile] /\ dirs' = [h \in Addrs |-> ClosedDir]
  /\ heap' = {} /\ frames' = [t \in Tasks |-> <<>>] /\ rm' = [t \in Tasks |-> NoRemove]

FsInit ==
  /\ disk = Formatted /\ files = [h \in Addrs |-> ClosedFile]
  /\ dirs = [h \in Addrs |-> ClosedDir] /\ heap = {}
  /\ frames = [t \in Tasks |-> <<>>] /\ rm = [t \in Tasks |-> NoRemove]

\* What callers do to the file system, one call or step of a removal at a time.
\* A block that calloc returns is not in use, an open handle has one; nobody
\* removes the root.
FsNext ==
  \/ \E h \in Addrs \ heap, p \in Paths, err \in BOOLEAN :
       \/ \E mode \in {"r", "w", "a"} : fs_open(p, mode, h, err) /\ UNCHANGED <<dirs, frames>>
       \/ fs_dir_open(p, h, err) /\ UNCHANGED <<disk, files, frames, rm>>
  \/ \E h \in Addrs : files[h].open /\
       \/ \E err \in BOOLEAN : fs_close(h, err) /\ UNCHANGED <<dirs, frames, rm>>
       \/ /\ \/ \E n \in Nat : fs_seek(h, n) \/ fs_read(h, n)
             \/ \E bytes \in Seq(Bytes), err \in BOOLEAN : fs_write(h, bytes, err)
          /\ UNCHANGED <<disk, dirs, heap, frames, rm>>
  \/ \E h \in Addrs : dirs[h].open /\
       \/ \E n \in Names : fs_dir_read(h, n) /\ UNCHANGED <<disk, files, heap, frames, rm>>
       \/ fs_dir_close(h) /\ UNCHANGED <<disk, files, frames, rm>>
  \/ \E p \in Paths, err \in BOOLEAN : fs_mkdir(p, err) /\ UNCHANGED <<files, dirs, heap, frames>>
  \/ \E t \in Tasks, p \in Paths \ {Root} :
       fs_remove(t, p) /\ UNCHANGED <<disk, files, dirs, heap>>
  \/ \E t \in Tasks : RemoveStep(t)
  \/ \E t \in Tasks : /\ ~Removing(t) /\ rm' = [rm EXCEPT ![t] = NoRemove]
                      /\ UNCHANGED <<disk, files, dirs, heap, frames>>
  \/ fs_init

FsSpec == FsInit /\ [][FsNext]_fsVars

-----------------------------------------------------------------------------
(* Properties of the file system, whoever uses it.                         *)

Contents == Seq(Bytes \cup {0})
Nodes == [kind : {"absent", "dir", "file"}, data : Contents]
FileRecords ==
  [open : BOOLEAN, path : Paths, mode : {"r", "w", "a"}, pos : Nat,
   data : Contents, base : Contents,
   dirty : BOOLEAN, erred : BOOLEAN, orphan : BOOLEAN]
DirRecords ==
  [open : BOOLEAN, path : Paths, at : SUBSET Names, last : Names \cup {0}]
Frames == [path : Paths, phase : {"enter", "read", "remove"}, at : SUBSET Names,
           last : Names \cup {0}]
Records == [path : Paths, ret : {"none", "busy", "ok", "error"}, found : BOOLEAN]

\* Every variable of the file system keeps its type.
FsTypeOK ==
  /\ disk \in [Paths -> Nodes] /\ files \in [Addrs -> FileRecords]
  /\ dirs \in [Addrs -> DirRecords] /\ heap \subseteq Addrs
  /\ frames \in [Tasks -> Seq(Frames)] /\ rm \in [Tasks -> Records]

\* Whatever is removed, fails or crashes half-way, nothing is left behind in
\* the tree without the directories above it, and an open file that has not
\* been cut off still has its entry: its commit cannot bring back a file, or
\* write into a directory, that was removed meanwhile.
TreeOK ==
  /\ disk[Root] = Dir
  /\ \A p \in Paths : disk[p].kind # "absent" /\ p # Root => disk[Front(p)].kind = "dir"
  /\ \A h \in Addrs : files[h].open /\ ~files[h].orphan =>
       disk[files[h].path].kind = "file"

\* fs_remove empties a directory while it iterates over it: when nothing fails
\* and nobody creates entries there meanwhile, it removes the whole tree, and
\* returns 0 if there was one that no other task removed first.
RemoveComplete ==
  \A t \in Tasks : rm[t].ret \in {"ok", "error"} =>
    /\ \A p \in Paths : IsPrefix(rm[t].path, p) => disk[p].kind = "absent"
    /\ rm[t].ret = "error" => ~rm[t].found

=============================================================================
