------------------------------- MODULE KeyStore -------------------------------
(***************************************************************************)
(* The key store of module/patch/homekit.c: a key is the file              *)
(* hap/<name space>/<key>.  Several tasks of the HomeKit library call it;  *)
(* every call into fs.c is one step, fs_remove is many, and the chip may   *)
(* restart between any two.  Paths are assumed to fit the 64-byte buffer,  *)
(* and values the caller's buffer.  The factory functions are the same.    *)
(***************************************************************************)
EXTENDS FileSystem

CONSTANTS NameSpaces, Keys

HAP == <<1>>
Space(ns) == Append(HAP, ns)
KeyPaths == {Append(Space(ns), k) : ns \in NameSpaces, k \in Keys}
ASSUME KeyPathsAssumption == {1} \cup NameSpaces \cup Keys \subseteq Names /\ MaxDepth >= 3

VARIABLES
  call,   \* the call each task is in; done, fault, gone and res are history
  ans     \* what the last call of each task returned

vars == <<fsVars, call, ans>>

NoCall == [op |-> "idle", path |-> Root, val |-> <<>>, pc |-> "idle", h |-> {}, ret |-> "ok",
           done |-> FALSE, fault |-> FALSE, gone |-> {}, res |-> {}]
Under(p) == {k \in KeyPaths : IsPrefix(p, k)}

At(t, op, pc) == call[t].op = op /\ call[t].pc = pc
Next_pc(t, pc, err) == call' = [call EXCEPT ![t].pc = pc, ![t].fault = @ \/ err]

-----------------------------------------------------------------------------
Begin(t, op, p, val, pc) ==
  /\ call[t] = NoCall /\ ans' = [ans EXCEPT ![t] = "none"]
  /\ call' = [call EXCEPT ![t] =
       [NoCall EXCEPT !.op = op, !.path = p, !.val = val, !.pc = pc,
                      !.gone = {k \in Under(p) : disk[k].kind = "absent"}]]

hap_keystore_get(t, k) == Begin(t, "get", k, <<>>, "open") /\ UNCHANGED fsVars
hap_keystore_set(t, k, v) == Begin(t, "set", k, <<v>>, "hap") /\ UNCHANGED fsVars
Delete(t, p) ==
  /\ Begin(t, "delete", p, <<>>, "remove") /\ fs_remove(t, p)
  /\ UNCHANGED <<disk, files, dirs, heap>>
hap_keystore_delete(t, k) == Delete(t, k)
hap_keystore_delete_namespace(t, ns) == Delete(t, Space(ns))
hap_keystore_erase_all_data(t) == Delete(t, HAP)

\* The result of fs_mkdir is ignored: the directory may be there already.
MakeDirs(t) ==
  \E err \in BOOLEAN :
    /\ \/ At(t, "set", "hap") /\ fs_mkdir(HAP, err) /\ Next_pc(t, "space", FALSE)
       \/ /\ At(t, "set", "space") /\ fs_mkdir(Front(call[t].path), err)
          /\ Next_pc(t, "open", FALSE)
    /\ UNCHANGED <<files, dirs, heap, frames, ans>>

\* Mutant: the result of fs_open is not looked at.
OpenUnchecked(c) == [c EXCEPT !.pc = "done"]
OpenFailed(c) == [c EXCEPT !.pc = "done", !.ret = "fail"]
Open(t) ==
  LET get == call[t].op = "get" IN
  \E h \in Addrs \ heap, err \in BOOLEAN :
    /\ call[t].pc = "open" /\ fs_open(call[t].path, IF get THEN "r" ELSE "w", h, err)
    /\ call' = [call EXCEPT ![t] =
         IF files'[h].open
           THEN [@ EXCEPT !.pc = IF get THEN "read" ELSE "write", !.h = {h},
                          !.res = IF get THEN {files'[h].data} ELSE {}]
           ELSE OpenFailed([@ EXCEPT !.fault = get /\ err])]
    /\ UNCHANGED <<dirs, frames, ans>>

\* A negative result becomes the size of the value.
Read(t) ==
  \E h \in call[t].h, err \in BOOLEAN :
    /\ call[t].pc = "read"
    /\ IF err THEN UNCHANGED files ELSE fs_read(h, Len(files[h].data))
    /\ Next_pc(t, "close", err) /\ UNCHANGED <<disk, dirs, heap, frames, rm, ans>>

\* Whether the value was written is not looked at.
Write(t) ==
  \E h \in call[t].h, err \in BOOLEAN :
    /\ call[t].pc = "write" /\ fs_write(h, call[t].val, err)
    /\ Next_pc(t, "close", err) /\ UNCHANGED <<disk, dirs, heap, frames, rm, ans>>

\* Nor whether it was committed.
Close(t) ==
  \E h \in call[t].h, err \in BOOLEAN :
    /\ call[t].pc = "close" /\ fs_close(h, err)
    /\ call' = [call EXCEPT ![t].pc = "done", ![t].h = {},
                            ![t].fault = @ \/ (err /\ Commits(h)),
                            ![t].done = @ \/ (~err /\ Commits(h))]
    /\ UNCHANGED <<dirs, frames, rm, ans>>

\* The key at path p is removed from under the calls that others are in.
Dropped(c, p) ==
  IF c = NoCall \/ p \notin Under(c.path) THEN c
  ELSE [c EXCEPT !.gone = @ \cup {p}, !.done = @ \/ (c.op = "set" /\ c.h # {})]
RemoveEntries(t) ==
  \E err \in BOOLEAN :
    /\ \/ RemoveEnter(t, err) /\ call' = [call EXCEPT ![t].fault = @ \/ err]
       \/ RemoveRead(t, err) /\ call' = [call EXCEPT ![t].fault = @ \/ err]
       \/ /\ RemoveLast(t, err)
          /\ LET p == Top(t).path
                 after == IF disk'[p] # disk[p] THEN [u \in Tasks |-> Dropped(call[u], p)] ELSE call
             IN  call' = [after EXCEPT ![t].fault = @ \/ err,
                                       ![t].pc = IF frames'[t] = <<>> THEN "done" ELSE @]
    /\ UNCHANGED ans

Return(t) ==
  /\ call[t].pc = "done" /\ ans' = [ans EXCEPT ![t] = call[t].ret]
  /\ call' = [call EXCEPT ![t] = NoCall] /\ rm' = [rm EXCEPT ![t] = NoRemove]
  /\ UNCHANGED <<disk, files, dirs, heap, frames>>

Step(t) ==
  MakeDirs(t) \/ Open(t) \/ Read(t) \/ Write(t) \/ Close(t) \/ RemoveEntries(t) \/ Return(t)

Restart == fs_init /\ call' = [t \in Tasks |-> NoCall] /\ ans' = [t \in Tasks |-> "none"]

Init == FsInit /\ call = [t \in Tasks |-> NoCall] /\ ans = [t \in Tasks |-> "none"]

Call(t) ==
  \/ \E k \in KeyPaths : \/ hap_keystore_get(t, k) \/ hap_keystore_delete(t, k)
                         \/ \E v \in Bytes : hap_keystore_set(t, k, v)
  \/ \E ns \in NameSpaces : hap_keystore_delete_namespace(t, ns)
  \/ hap_keystore_erase_all_data(t)

Next == Restart \/ \E t \in Tasks : Call(t) \/ Step(t)

Spec == Init /\ [][Next]_vars

-----------------------------------------------------------------------------
(* Properties.                                                             *)

\* The key store is the one KeyValue specifies: seen from its callers, every
\* hap_keystore call reads, stores or deletes at one moment while it runs,
\* whatever other tasks do, wherever the chip restarts.
store == [k \in KeyPaths |-> IF disk[k].kind = "absent" THEN {} ELSE {disk[k].data}]
req == [t \in Tasks |->
  [op |-> call[t].op, keys |-> IF call[t] = NoCall THEN {} ELSE Under(call[t].path),
   val |-> call[t].val, done |-> call[t].done, fault |-> call[t].fault,
   gone |-> call[t].gone, res |-> call[t].res]]
Abstract == INSTANCE KeyValue WITH Keys <- KeyPaths, Vals <- Bytes
ImplementsKeyValue == Abstract!Spec

\* No file stays open behind a call: what is open and allocated belongs to a
\* call in progress, on every path through it, so that littlefs never has a
\* freed lfs_file_t in its list.
FilesOfCalls ==
  /\ heap = UNION {call[t].h : t \in Tasks}
  /\ \A h \in Addrs : h \in heap <=> files[h].open

=============================================================================
