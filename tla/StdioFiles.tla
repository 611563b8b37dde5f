------------------------------ MODULE StdioFiles ------------------------------
(***************************************************************************)
(* Tasks of an application that use files through the wrappers of          *)
(* module/patch/file.c, and directories through fs.c itself.  A FILE* is   *)
(* the address of the lfs_file_t that fs_open allocated.                   *)
(***************************************************************************)
EXTENDS FileSystem

CONSTANTS
  Removers,   \* tasks that call fs_remove
  MaxLen      \* bound on the size of a file

ASSUME RemoversAssumption == Removers \subseteq Tasks

VARIABLE held     \* the FILE* and directory handles each task has

vars == <<fsVars, held>>

Free == Addrs \ heap
\* A task calls when it is not inside fs_remove; the record of the last one
\* is cleared when it has returned.
Calls(t) == ~Removing(t) /\ rm[t] = NoRemove
Returned(t) ==
  /\ ~Removing(t) /\ rm[t] # NoRemove /\ rm' = [rm EXCEPT ![t] = NoRemove]
  /\ UNCHANGED <<disk, files, dirs, heap, frames, held>>
FileOf(t, h) == h \in held[t] /\ files[h].open
DirOf(t, h) == h \in held[t] /\ dirs[h].open

\* NULL when fs_open fails: the caller then holds what the heap gained.
fopen(t, p, mode) ==
  /\ Calls(t)
  /\ \E h \in Free, err \in BOOLEAN : fs_open(p, mode, h, err)
       /\ held' = [held EXCEPT ![t] = @ \cup {a \in {h} : files'[a].open}]
  /\ UNCHANGED <<dirs, frames>>

fclose(t, h) ==
  /\ Calls(t) /\ FileOf(t, h)
  /\ \E err \in BOOLEAN : fs_close(h, err)
  /\ held' = [held EXCEPT ![t] = @ \ {h}] /\ UNCHANGED <<dirs, frames, rm>>

\* fread and fgetc; an element that is only partly there is consumed as well.
fread(t, h, size, n) ==
  /\ Calls(t) /\ FileOf(t, h) /\ files[h].mode = "r" /\ fs_read(h, size * n)
  /\ UNCHANGED <<disk, dirs, heap, frames, rm, held>>

fwrite(t, h, b) ==
  /\ Calls(t) /\ FileOf(t, h) /\ files[h].mode # "r" /\ Len(files[h].data) < MaxLen
  /\ \E err \in BOOLEAN : fs_write(h, <<b>>, err)
  /\ UNCHANGED <<disk, dirs, heap, frames, rm, held>>

\* The result of lfs_file_seek is dropped: a position that is refused leaves
\* the old one, and fseek answers 0.
fseek(t, h, pos) ==
  /\ Calls(t) /\ FileOf(t, h) /\ fs_seek(h, pos)
  /\ UNCHANGED <<disk, dirs, heap, frames, rm, held>>

mkdir(t, p) ==
  /\ Calls(t) /\ Len(p) < MaxDepth /\ \E err \in BOOLEAN : fs_mkdir(p, err)
  /\ UNCHANGED <<files, dirs, heap, frames, held>>

remove(t, p) ==
  /\ t \in Removers /\ Calls(t) /\ p # Root /\ fs_remove(t, p)
  /\ UNCHANGED <<disk, files, dirs, heap, held>>

opendir(t, p) ==
  /\ Calls(t)
  /\ \E h \in Free, err \in BOOLEAN : fs_dir_open(p, h, err)
       /\ held' = [held EXCEPT ![t] = @ \cup {a \in {h} : dirs'[a].open}]
  /\ UNCHANGED <<disk, files, frames, rm>>
readdir(t, h) ==
  /\ Calls(t) /\ DirOf(t, h) /\ \E n \in Names : fs_dir_read(h, n)
  /\ UNCHANGED <<disk, files, heap, frames, rm, held>>
closedir(t, h) ==
  /\ Calls(t) /\ DirOf(t, h) /\ fs_dir_close(h)
  /\ held' = [held EXCEPT ![t] = @ \ {h}] /\ UNCHANGED <<disk, files, frames, rm>>

\* The step of fs_remove that task t takes next.
Removal(t) == RemoveStep(t) /\ UNCHANGED held

\* The chip restarts at any moment.
Crash == fs_init /\ held' = [t \in Tasks |-> {}]

Init == FsInit /\ held = [t \in Tasks |-> {}]

Call(t) ==
  \/ \E p \in Paths : \/ \E mode \in {"r", "w", "a"} : fopen(t, p, mode)
                      \/ mkdir(t, p) \/ remove(t, p) \/ opendir(t, p)
  \/ \E h \in Addrs : \/ fclose(t, h) \/ \E n \in 1 .. MaxLen : fread(t, h, 1, n)
                      \/ \E b \in Bytes : fwrite(t, h, b)
                      \/ \E pos \in 0 .. MaxLen - 1 : fseek(t, h, pos)
                      \/ readdir(t, h) \/ closedir(t, h)

Next == Crash \/ \E t \in Tasks : Call(t) \/ Removal(t) \/ Returned(t)

\* A task inside fs_remove is scheduled.
Spec == Init /\ [][Next]_vars /\ \A t \in Removers : WF_vars(Removal(t))

-----------------------------------------------------------------------------
(* Properties.                                                             *)

\* The blocks on the heap are the handles that callers have, each one open in
\* littlefs, whatever failed on the way: a failed open frees its block, and
\* littlefs never has a freed lfs_file_t in its list of open files.
HandlesOwned ==
  /\ heap = UNION {held[t] : t \in Tasks}
  /\ \A h \in Addrs : h \in heap <=> files[h].open \/ dirs[h].open
  /\ \A h \in Addrs : ~(files[h].open /\ dirs[h].open)

\* A file opened for appending keeps all it held: the commit extends the
\* version that was opened, and so loses nothing unless another handle
\* committed in between.
AppendKeeps ==
  [][\A h \in Addrs :
       LET p == files[h].path IN
       /\ files[h].open /\ files[h].mode = "a" /\ ~files'[h].open
       /\ disk[p] = File(files[h].base) /\ disk'[p].kind = "file"
       => IsPrefix(disk[p].data, disk'[p].data)]_vars

\* Every fs_remove returns, also while others create entries in its way.
RemoveReturns == \A t \in Removers : Removing(t) ~> ~Removing(t)

=============================================================================
