---------------------------- MODULE KeyStoreProofs ----------------------------
(***************************************************************************)
(* Proofs about the key store for any number of tasks, name spaces, keys   *)
(* and values: its calls use the file system as FsSpec says, each has the  *)
(* files it opened to itself, and together they are the KeyValue store.    *)
(***************************************************************************)
EXTENDS KeyStore, FileSystemProofs

-----------------------------------------------------------------------------
(* The paths of keys.                                                      *)

\* What is deleted: a key, a name space or everything.
Targets == {HAP} \cup {Space(ns) : ns \in NameSpaces} \cup KeyPaths

\* The directory of the key store is a path below the root.
LEMMA HapIsPath == HAP \in Paths /\ Len(HAP) = 1 /\ HAP # Root
<1>1. 1 \in Names /\ MaxDepth \in Nat /\ 0 < MaxDepth
  BY KeyPathsAssumption, DepthAssumption
<1>2. Root \in Paths /\ Len(Root) = 0 /\ HAP = Append(Root, 1)
  BY RootIsPath DEF HAP, Root
<1>3. HAP \in Paths /\ Len(HAP) = Len(Root) + 1 /\ HAP # Root
  BY <1>1, <1>2, ChildPath
<1> QED
  BY <1>2, <1>3

\* A name space is a path of two names.
LEMMA SpaceIsPath ==
  ASSUME NEW ns \in NameSpaces
  PROVE  Space(ns) \in Paths /\ Len(Space(ns)) = 2 /\ Space(ns) # Root
<1>1. ns \in Names /\ Len(HAP) < MaxDepth
  BY HapIsPath, KeyPathsAssumption, DepthAssumption
<1>2. Space(ns) \in Paths /\ Len(Space(ns)) = Len(HAP) + 1 /\ Space(ns) # Root
  BY <1>1, HapIsPath, ChildPath DEF Space
<1> QED
  BY <1>2, HapIsPath

\* A key is a path of three names, in a name space.
LEMMA KeyIsPath ==
  ASSUME NEW k \in KeyPaths
  PROVE  /\ k \in Paths /\ Len(k) = 3 /\ k # Root
         /\ Front(k) \in Paths /\ Len(Front(k)) = 2 /\ Front(k) # Root
<1>1. PICK ns \in NameSpaces, n \in Keys : k = Append(Space(ns), n)
  BY DEF KeyPaths
<1>0. Space(ns) \in Paths /\ Len(Space(ns)) = 2 /\ Space(ns) # Root
  BY SpaceIsPath
<1>2. n \in Names /\ Len(Space(ns)) < MaxDepth
  BY <1>0, KeyPathsAssumption, DepthAssumption
<1>3. k \in Paths /\ Len(k) = Len(Space(ns)) + 1 /\ k # Root /\ Front(k) = Space(ns)
  BY <1>0, <1>1, <1>2, ChildPath
<1> QED
  BY <1>0, <1>3

\* What the key store removes is never the root.
LEMMA TargetIsPath == \A p \in Targets : p \in Paths \ {Root}
BY HapIsPath, SpaceIsPath, KeyIsPath DEF Targets

\* No key is above another one.
LEMMA UnderKey == \A k \in KeyPaths : Under(k) = {k}
<1> SUFFICES ASSUME NEW k \in KeyPaths, NEW q \in KeyPaths, IsPrefix(k, q), k # q PROVE FALSE
  BY KeyIsPath, PathPrefixSelf DEF Under
<1>1. k \in Seq(Names) /\ q \in Seq(Names) /\ Len(k) = 3 /\ Len(q) = 3
  BY KeyIsPath, PathIsSeq
<1>2. Len(k) < Len(q)
  BY <1>1, PrefixFront
<1> QED
  BY <1>1, <1>2

-----------------------------------------------------------------------------
(* What each call knows at each of its steps.                              *)

Phases == {"idle", "hap", "space", "open", "read", "write", "close", "remove", "done"}
CallRecords ==
  [op : {"idle", "get", "set", "delete"}, path : Paths, val : Seq(Bytes), pc : Phases,
   h : SUBSET Addrs, ret : {"ok", "fail"}, done : BOOLEAN, fault : BOOLEAN,
   gone : SUBSET KeyPaths, res : SUBSET Contents]
CallTypeOK ==
  /\ call \in [Tasks -> CallRecords]
  /\ \A t \in Tasks : call[t].op = "idle" => call[t] = NoCall

\* A get: what it has open, and what it may answer.
GetOK(t) ==
  /\ call[t].path \in KeyPaths /\ ~call[t].done /\ frames[t] = <<>>
  /\ \/ call[t].pc = "open" /\ call[t].h = {} /\ ~call[t].fault /\ call[t].res = {} /\ call[t].ret = "ok"
     \/ /\ call[t].pc \in {"read", "close"} /\ call[t].res # {} /\ call[t].ret = "ok"
        /\ \E a \in Addrs : call[t].h = {a} /\ files[a].open /\ ~files[a].dirty
     \/ /\ call[t].pc = "done" /\ call[t].h = {}
        /\ IF call[t].ret = "ok" THEN call[t].res # {} ELSE call[t].fault \/ call[t].gone # {}

\* A set.
Holds(t, a) ==
  /\ call[t].h = {a} /\ files[a].open /\ files[a].path = call[t].path
  /\ files[a].orphan <=> call[t].done
SetOK(t) ==
  /\ call[t].path \in KeyPaths /\ call[t].res = {} /\ frames[t] = <<>>
  /\ \E v \in Bytes : call[t].val = <<v>>
  /\ \/ /\ call[t].pc \in {"hap", "space", "open"} /\ call[t].h = {} /\ ~call[t].done
        /\ ~call[t].fault /\ call[t].ret = "ok"
     \/ /\ call[t].pc = "write" /\ call[t].ret = "ok"
        /\ \E a \in Addrs : /\ Holds(t, a) /\ files[a].mode = "w" /\ files[a].data = <<>>
                            /\ files[a].pos = 0 /\ ~files[a].erred
     \/ /\ call[t].pc = "close" /\ call[t].ret = "ok"
        /\ \E a \in Addrs : /\ Holds(t, a)
                            /\ IF files[a].erred THEN call[t].fault
                               ELSE files[a].dirty /\ files[a].data = call[t].val
     \/ /\ call[t].pc = "done" /\ call[t].h = {}
        /\ IF call[t].ret = "ok" THEN call[t].done \/ call[t].fault ELSE ~call[t].done

\* The entry of f's directory on the way to key k.
Toward(f, k) == k[Len(f.path) + 1]
\* Key k is ahead of the activation at depth d of stack s.
KeyAhead(s, d, k) ==
  IsPrefix(s[d].path, k) /\ s[d].path # k =>
    /\ s[d].phase # "remove"
    /\ s[d].phase = "read" => /\ Toward(s[d], k) \in s[d].at
                              /\ \/ Toward(s[d], k) > s[d].last
                                 \/ d < Len(s) /\ Toward(s[d], k) = s[d].last
DeleteOK(t) ==
  /\ call[t].path \in Targets /\ call[t].h = {} /\ call[t].ret = "ok"
  /\ \/ /\ call[t].pc = "remove" /\ frames[t] # <<>> /\ frames[t][1].path = call[t].path
        /\ ~call[t].fault =>
             \A k \in Under(call[t].path) \ call[t].gone, d \in 1 .. Len(frames[t]) :
               KeyAhead(frames[t], d, k)
     \/ /\ call[t].pc = "done" /\ frames[t] = <<>>
        /\ call[t].fault \/ Under(call[t].path) \subseteq call[t].gone

CallOK(t) ==
  /\ call[t].op = "idle" => frames[t] = <<>>
  /\ call[t].op = "get" => GetOK(t)
  /\ call[t].op = "set" => SetOK(t)
  /\ call[t].op = "delete" => DeleteOK(t)

\* A key that is not there now was gone at some moment of each call.
GoneOK ==
  \A t \in Tasks : call[t] # NoCall =>
    \A k \in Under(call[t].path) : disk[k].kind = "absent" => k \in call[t].gone

KeysOK == \A k \in KeyPaths : disk[k].kind # "dir"
DirsClosed == \A h \in Addrs : ~dirs[h].open
OwnOK ==
  /\ \A t, u \in Tasks : t # u => call[t].h \cap call[u].h = {}
  /\ heap = UNION {call[t].h : t \in Tasks}

\* The inductive invariant of the calls, beside that of the file system.
FsInv == FsTypeOK /\ HeapOK /\ TreeOK /\ AboveOK /\ ChainOK
CallsInv ==
  /\ CallTypeOK /\ (\A t \in Tasks : CallOK(t))
  /\ GoneOK /\ KeysOK /\ DirsClosed /\ OwnOK

\* The file system invariants are inductive together.
LEMMA FsInvStep == FsInv /\ [FsNext]_fsVars => FsInv'
BY FsTypeStep, HeapStep, TreeStep, AboveStep, ChainStep DEF FsInv

\* What the program counter of a call says.
LEMMA PcOfCall ==
  ASSUME CallsInv, NEW t \in Tasks
  PROVE  /\ call[t] \in CallRecords /\ (call[t].op = "idle" => call[t] = NoCall)
         /\ call[t] = NoCall => call[t].op = "idle" /\ call[t].h = {} /\ frames[t] = <<>>
         /\ call[t].pc \in {"hap", "space", "write"} => call[t].op = "set"
         /\ call[t].pc = "read" => call[t].op = "get"
         /\ call[t].pc \in {"open", "close"} => call[t].op \in {"get", "set"}
         /\ call[t].op \in {"get", "set"} => call[t].path \in KeyPaths
         /\ call[t].pc = "done" => call[t].op # "idle" /\ frames[t] = <<>> /\ call[t].h = {}
         /\ Removing(t) => call[t].op = "delete" /\ call[t].pc = "remove"
         /\ \A h \in call[t].h : h \in Addrs /\ files[h].open /\ call[t].h = {h}
<1>1. call[t] \in CallRecords /\ (call[t].op = "idle" => call[t] = NoCall) /\ CallOK(t)
  BY DEF CallsInv, CallTypeOK
<1>2. call[t].op \in {"idle", "get", "set", "delete"}
  BY <1>1 DEF CallRecords
<1>3. CASE call[t].op = "idle"
  BY <1>1, <1>3 DEF NoCall, CallOK, Removing
<1>4. CASE call[t].op = "get"
  BY <1>1, <1>4 DEF NoCall, CallOK, Removing, GetOK
<1>5. CASE call[t].op = "set"
  BY <1>1, <1>5 DEF NoCall, CallOK, Removing, SetOK, Holds
<1>6. CASE call[t].op = "delete"
  BY <1>1, <1>6 DEF NoCall, CallOK, Removing, DeleteOK
<1> QED
  BY <1>2, <1>3, <1>4, <1>5, <1>6

-----------------------------------------------------------------------------
(* The calls use the file system as any caller may.                        *)

\* The beginning of a call is a step of the file system, or none.
LEMMA CallIsFs ==
  ASSUME NEW t \in Tasks, Call(t)
  PROVE  FsNext \/ UNCHANGED fsVars
<1>1. ASSUME NEW p \in Targets, Delete(t, p) PROVE FsNext
  BY <1>1, TargetIsPath DEF Delete, FsNext
<1>2. ASSUME NEW k \in KeyPaths, hap_keystore_delete(t, k) PROVE FsNext
  BY <1>1, <1>2 DEF hap_keystore_delete, Targets
<1>3. ASSUME NEW ns \in NameSpaces, hap_keystore_delete_namespace(t, ns) PROVE FsNext
  BY <1>1, <1>3 DEF hap_keystore_delete_namespace, Targets
<1>4. ASSUME hap_keystore_erase_all_data(t) PROVE FsNext
  BY <1>1, <1>4 DEF hap_keystore_erase_all_data, Targets
<1> QED
  BY <1>2, <1>3, <1>4 DEF Call, hap_keystore_get, hap_keystore_set

\* MakeDirs is an fs_mkdir of the directory of the key store or of the name space.
LEMMA MakeDirsIsFs ==
  ASSUME CallsInv, NEW t \in Tasks, MakeDirs(t)
  PROVE  \E p \in Paths, err \in BOOLEAN :
           /\ p = HAP \/ (call[t].path \in KeyPaths /\ p = Front(call[t].path))
           /\ fs_mkdir(p, err) /\ UNCHANGED <<files, dirs, heap, frames>>
<1>1. call[t].pc \in {"hap", "space"}
  BY DEF MakeDirs, At
<1>2. call[t].path \in KeyPaths /\ Front(call[t].path) \in Paths /\ HAP \in Paths
  BY <1>1, PcOfCall, KeyIsPath, HapIsPath
<1> QED
  BY <1>2 DEF MakeDirs

\* Reading, writing and closing of an own file is a step of the file system, or none.
LEMMA UseIsFs ==
  ASSUME FsInv, CallsInv, NEW t \in Tasks, Read(t) \/ Write(t) \/ Close(t)
  PROVE  FsNext \/ UNCHANGED fsVars
<1>1. CASE Read(t)
  <2>1. PICK h \in call[t].h, err \in BOOLEAN :
          /\ IF err THEN UNCHANGED files ELSE fs_read(h, Len(files[h].data))
          /\ UNCHANGED <<disk, dirs, heap, frames, rm>>
    BY <1>1 DEF Read
  <2>2. h \in Addrs /\ files[h].open
    BY PcOfCall
  <2>3. Len(files[h].data) \in Nat
    BY <2>2, LenProperties DEF FsInv, FsTypeOK, FileRecords, Contents
  <2> QED
    BY <2>1, <2>2, <2>3 DEF FsNext, fsVars
<1>2. CASE Write(t)
  <2>1. PICK h \in call[t].h, err \in BOOLEAN :
          fs_write(h, call[t].val, err) /\ UNCHANGED <<disk, dirs, heap, frames, rm>>
    BY <1>2 DEF Write
  <2>2. h \in Addrs /\ files[h].open /\ call[t].val \in Seq(Bytes)
    BY PcOfCall DEF CallRecords
  <2> QED
    BY <2>1, <2>2 DEF FsNext
<1>3. CASE Close(t)
  <2>1. PICK h \in call[t].h, err \in BOOLEAN :
          fs_close(h, err) /\ UNCHANGED <<dirs, frames, rm>>
    BY <1>3 DEF Close
  <2>2. h \in Addrs /\ files[h].open
    BY PcOfCall
  <2> QED
    BY <2>1, <2>2 DEF FsNext
<1> QED
  BY <1>1, <1>2, <1>3

\* Open is a step of the file system.
LEMMA OpenIsFs ==
  ASSUME CallsInv, NEW t \in Tasks, Open(t)
  PROVE  FsNext
<1>1. PICK h \in Addrs \ heap, err \in BOOLEAN :
        /\ call[t].pc = "open"
        /\ fs_open(call[t].path, IF call[t].op = "get" THEN "r" ELSE "w", h, err)
        /\ UNCHANGED <<dirs, frames>>
  BY DEF Open
<1>2. call[t].path \in Paths
  BY <1>1, PcOfCall, KeyIsPath
<1> QED
  BY <1>1, <1>2 DEF FsNext

\* Every step of the key store is a step of the file system, or none.
LEMMA StepIsFs == FsInv /\ CallsInv /\ [Next]_vars => [FsNext]_fsVars
<1> SUFFICES ASSUME FsInv, CallsInv, Next PROVE [FsNext]_fsVars
  BY DEF vars
<1>1. ASSUME NEW t \in Tasks, MakeDirs(t) PROVE FsNext
  BY <1>1, MakeDirsIsFs DEF FsNext
<1>2. ASSUME NEW t \in Tasks, RemoveEntries(t) PROVE FsNext
  BY <1>2 DEF RemoveEntries, FsNext, RemoveStep
<1>3. ASSUME NEW t \in Tasks, Return(t) PROVE FsNext
  BY <1>3, PcOfCall DEF Return, FsNext, Removing
<1>4. Restart => FsNext
  BY DEF Restart, FsNext
<1> QED
  BY <1>1, <1>2, <1>3, <1>4, CallIsFs, OpenIsFs, UseIsFs DEF Next, Step

-----------------------------------------------------------------------------
(* The steps of one call leave the others alone.                           *)

\* A call whose stack and files are as they were is as it was.
LEMMA Undisturbed ==
  ASSUME CallsInv, NEW u \in Tasks, call'[u] = call[u], frames'[u] = frames[u],
         \A a \in call[u].h : files'[a] = files[a]
  PROVE  CallOK(u)'
<1>1. CallOK(u)
  BY DEF CallsInv
<1> QED
  BY <1>1 DEF CallOK, GetOK, SetOK, DeleteOK, Holds

\* What a step of task t that is no removal has to show.
LEMMA OneCall ==
  ASSUME CallsInv, NEW t \in Tasks, NEW c \in CallRecords,
         call' = [call EXCEPT ![t] = c], c.op = "idle" => c = NoCall,
         CallOK(t)', OwnOK', UNCHANGED dirs,
         \A u \in Tasks \ {t} : /\ frames'[u] = frames[u]
                                /\ \A a \in call[u].h : files'[a] = files[a],
         \A k \in KeyPaths : /\ disk'[k].kind # "dir"
                             /\ disk'[k].kind = "absent" => disk[k].kind = "absent",
         c = NoCall \/ (c.gone = call[t].gone /\ c.path = call[t].path /\ call[t] # NoCall)
           \/ \A k \in Under(c.path) : disk'[k].kind = "absent" => k \in c.gone
  PROVE  CallsInv'
<1>1. call \in [Tasks -> CallRecords] /\ \A u \in Tasks : call[u].op = "idle" => call[u] = NoCall
  BY DEF CallsInv, CallTypeOK
<1>2. \A u \in Tasks : call'[u] = IF u = t THEN c ELSE call[u]
  BY <1>1
<1>3. CallTypeOK'
  BY <1>1, <1>2 DEF CallTypeOK
<1>4. \A u \in Tasks : CallOK(u)'
  BY <1>2, Undisturbed
<1>5. GoneOK'
  <2> SUFFICES ASSUME NEW u \in Tasks, call'[u] # NoCall, NEW k \in Under(call'[u].path),
                      disk'[k].kind = "absent"
               PROVE  k \in call'[u].gone
    BY DEF GoneOK
  <2>1. k \in KeyPaths
    BY DEF Under
  <2> QED
    BY <1>2, <2>1 DEF CallsInv, GoneOK
<1>6. KeysOK' /\ DirsClosed'
  BY DEF CallsInv, KeysOK, DirsClosed
<1> QED
  BY <1>3, <1>4, <1>5, <1>6 DEF CallsInv

\* Who owns which handle, after a call gets, keeps or gives back its own.
LEMMA Owns ==
  ASSUME OwnOK, NEW t \in Tasks, call \in [Tasks -> CallRecords], NEW c,
         call' = [call EXCEPT ![t] = c],
         \/ c.h = call[t].h /\ heap' = heap
         \/ \E h \in Addrs \ heap : call[t].h = {} /\ c.h = {h} /\ heap' = heap \cup {h}
         \/ \E h \in Addrs : call[t].h = {h} /\ c.h = {} /\ heap' = heap \ {h}
  PROVE  OwnOK'
<1>1. \A u \in Tasks : call'[u] = IF u = t THEN c ELSE call[u]
  OBVIOUS
<1>2. \A u \in Tasks : call[u].h \subseteq heap
  BY DEF OwnOK
<1>3. \A u, v \in Tasks : u # v => call'[u].h \cap call'[v].h = {}
  BY <1>1, <1>2 DEF OwnOK
<1>4. heap' = UNION {call'[u].h : u \in Tasks}
  <2>1. ASSUME NEW h PROVE h \in heap' <=> \E u \in Tasks : h \in call'[u].h
    <3>1. h \in heap <=> \E u \in Tasks : h \in call[u].h
      BY DEF OwnOK
    <3>2. \A u \in Tasks \ {t} : call[u].h \cap call[t].h = {}
      BY DEF OwnOK
    <3> QED
      BY <1>1, <3>1, <3>2
  <2> QED
    BY <2>1
<1> QED
  BY <1>3, <1>4 DEF OwnOK

\* The files of other calls are not the ones task t has or gets.
LEMMA OthersFiles ==
  ASSUME CallsInv, NEW t \in Tasks, NEW u \in Tasks \ {t}
  PROVE  /\ \A a \in call[u].h : a \in heap
         /\ \A a \in call[u].h : a \notin call[t].h
BY DEF CallsInv, OwnOK

-----------------------------------------------------------------------------
(* One step of a call, operation by operation: the calls of get and set,   *)
(* and what begins and ends one.                                           *)

\* An idle task has the record of no call.
LEMMA NoCallType == NoCall \in CallRecords /\ NoCall.op = "idle" /\ NoCall.h = {}
<1>1. <<>> \in Seq(Bytes) /\ Root \in Paths
  BY RootIsPath
<1> QED
  BY <1>1 DEF NoCall, CallRecords, Phases

\* A call begins with a record that fits the stacks and the open files.
LEMMA BeginKeeps ==
  ASSUME FsInv, CallsInv, NEW t \in Tasks, NEW op, NEW p \in Targets, NEW val \in Seq(Bytes),
         NEW pc, Begin(t, op, p, val, pc), UNCHANGED <<disk, files, dirs, heap>>,
         \A u \in Tasks \ {t} : frames'[u] = frames[u],
         \/ op = "get" /\ p \in KeyPaths /\ pc = "open" /\ UNCHANGED frames
         \/ /\ op = "set" /\ p \in KeyPaths /\ pc = "hap" /\ UNCHANGED frames
            /\ \E v \in Bytes : val = <<v>>
         \/ op = "delete" /\ pc = "remove" /\ frames'[t] = <<Frame(p)>>
  PROVE  CallsInv'
<1> DEFINE gone == {k \in Under(p) : disk[k].kind = "absent"}
           c == [NoCall EXCEPT !.op = op, !.path = p, !.val = val, !.pc = pc, !.gone = gone]
<1>1. call[t] = NoCall /\ call' = [call EXCEPT ![t] = c]
  BY DEF Begin
<1>2. gone \in SUBSET KeyPaths /\ \A k \in Under(p) : disk[k].kind = "absent" => k \in gone
  BY DEF Under
<1> HIDE DEF gone
<1>3. /\ c.op = op /\ c.path = p /\ c.val = val /\ c.pc = pc /\ c.h = {} /\ c.ret = "ok"
      /\ c.done = FALSE /\ c.fault = FALSE /\ c.gone = gone /\ c.res = {}
  BY DEF NoCall
<1>4. c \in CallRecords
  BY <1>2, <1>3, NoCallType, TargetIsPath DEF CallRecords, Phases
<1> HIDE DEF c
<1>5. call[t].h = {} /\ frames[t] = <<>> /\ call \in [Tasks -> CallRecords]
  BY <1>1, PcOfCall DEF CallsInv, CallTypeOK
<1>6. call'[t] = c
  BY <1>1, <1>5
<1>7. CallOK(t)'
  <2>1. CASE op = "get"
    BY <1>3, <1>5, <1>6, <2>1 DEF CallOK, GetOK
  <2>2. CASE op = "set"
    BY <1>3, <1>5, <1>6, <2>2 DEF CallOK, SetOK
  <2>3. CASE op = "delete" /\ pc = "remove" /\ frames'[t] = <<Frame(p)>>
    <3>1. frames'[t] # <<>> /\ Len(frames'[t]) = 1 /\ frames'[t][1].path = p
          /\ frames'[t][1].phase = "enter"
      BY <2>3 DEF Frame
    <3>2. \A d \in 1 .. Len(frames'[t]) : d = 1
      BY <3>1
    <3>3. \A k \in KeyPaths, d \in 1 .. Len(frames'[t]) : KeyAhead(frames'[t], d, k)
      BY <3>1, <3>2 DEF KeyAhead
    <3> QED
      BY <1>3, <1>6, <2>3, <3>1, <3>3 DEF CallOK, DeleteOK, Under
  <2> QED
    BY <2>1, <2>2, <2>3
<1>8. OwnOK'
  BY <1>1, <1>3, <1>5, Owns DEF CallsInv
<1>9. \A k \in KeyPaths : disk'[k].kind # "dir"
  BY DEF CallsInv, KeysOK
<1> QED
  BY <1>1, <1>2, <1>3, <1>4, <1>7, <1>8, <1>9, OneCall

\* CallsInv is kept by Call.
LEMMA CallKeeps ==
  ASSUME FsInv, CallsInv, NEW t \in Tasks, Call(t)
  PROVE  CallsInv'
<1>0. <<>> \in Seq(Bytes) /\ \A v \in Bytes : <<v>> \in Seq(Bytes)
  OBVIOUS
<1>1. ASSUME NEW k \in KeyPaths, hap_keystore_get(t, k) PROVE CallsInv'
  BY <1>0, <1>1, BeginKeeps DEF hap_keystore_get, fsVars, Targets
<1>2. ASSUME NEW k \in KeyPaths, NEW v \in Bytes, hap_keystore_set(t, k, v) PROVE CallsInv'
  BY <1>0, <1>2, BeginKeeps DEF hap_keystore_set, fsVars, Targets
<1>3. ASSUME NEW p \in Targets, Delete(t, p) PROVE CallsInv'
  <2>1. frames'[t] = <<Frame(p)>> /\ \A u \in Tasks \ {t} : frames'[u] = frames[u]
    BY <1>3 DEF Delete, fs_remove, FsInv, FsTypeOK
  <2> QED
    BY <1>0, <1>3, <2>1, BeginKeeps DEF Delete
<1> QED
  BY <1>1, <1>2, <1>3 DEF Call, hap_keystore_delete, hap_keystore_delete_namespace,
                          hap_keystore_erase_all_data, Targets

\* CallsInv is kept by Return.
LEMMA ReturnKeeps ==
  ASSUME CallsInv, NEW t \in Tasks, Return(t)
  PROVE  CallsInv'
<1>1. call \in [Tasks -> CallRecords] /\ call' = [call EXCEPT ![t] = NoCall]
      /\ call[t].h = {} /\ frames[t] = <<>> /\ UNCHANGED <<disk, files, dirs, heap, frames>>
  BY PcOfCall DEF Return, CallsInv, CallTypeOK
<1>2. call'[t] = NoCall
  BY <1>1
<1>3. CallOK(t)'
  BY <1>1, <1>2, NoCallType DEF CallOK
<1>4. OwnOK'
  BY <1>1, NoCallType, Owns DEF CallsInv
<1>5. \A k \in KeyPaths : disk'[k].kind # "dir"
  BY <1>1 DEF CallsInv, KeysOK
<1> QED
  BY <1>1, <1>3, <1>4, <1>5, NoCallType, OneCall

\* CallsInv is kept by Restart.
LEMMA RestartKeeps == FsInv /\ CallsInv /\ Restart => CallsInv'
<1> SUFFICES ASSUME FsInv, CallsInv, Restart PROVE CallsInv'
  OBVIOUS
<1>1. /\ disk' \in {disk, Formatted} /\ dirs' = [h \in Addrs |-> ClosedDir] /\ heap' = {}
      /\ frames' = [t \in Tasks |-> <<>>] /\ call' = [t \in Tasks |-> NoCall]
  BY DEF Restart, fs_init
<1>2. CallTypeOK'
  BY <1>1, NoCallType DEF CallTypeOK
<1>3. \A t \in Tasks : CallOK(t)'
  BY <1>1, NoCallType DEF CallOK
<1>4. GoneOK' /\ OwnOK' /\ DirsClosed'
  BY <1>1, NoCallType DEF GoneOK, OwnOK, DirsClosed, ClosedDir
<1>5. KeysOK'
  BY <1>1, KeyIsPath DEF CallsInv, KeysOK, Formatted, Absent
<1> QED
  BY <1>2, <1>3, <1>4, <1>5 DEF CallsInv

\* The directories above a key are no keys.
LEMMA MakeDirsKeeps ==
  ASSUME FsInv, CallsInv, NEW t \in Tasks, MakeDirs(t)
  PROVE  CallsInv' /\ \A k \in KeyPaths : disk'[k] = disk[k]
<1>1. PICK p \in Paths, err \in BOOLEAN :
        /\ p = HAP \/ (call[t].path \in KeyPaths /\ p = Front(call[t].path))
        /\ fs_mkdir(p, err) /\ UNCHANGED <<files, dirs, heap, frames>>
  BY MakeDirsIsFs
<1>2. p \notin KeyPaths
  BY <1>1, HapIsPath, KeyIsPath
<1>3. \A k \in KeyPaths : disk'[k] = disk[k]
  <2>1. disk' = disk \/ disk' = [disk EXCEPT ![p] = Dir]
    BY <1>1 DEF fs_mkdir
  <2>2. \A q \in Paths \ {p} : disk'[q] = disk[q]
    BY <2>1 DEF FsInv, FsTypeOK
  <2> QED
    BY <1>2, <2>2, KeyIsPath
<1>4. PICK pc \in {"space", "open"} :
        /\ call[t].op = "set" /\ call[t].pc \in {"hap", "space"}
        /\ call' = [call EXCEPT ![t].pc = pc, ![t].fault = @ \/ FALSE]
  BY DEF MakeDirs, At, Next_pc
<1> DEFINE c == [call[t] EXCEPT !.pc = pc, !.fault = @ \/ FALSE]
<1>5. call' = [call EXCEPT ![t] = c] /\ call \in [Tasks -> CallRecords] /\ call'[t] = c
  BY <1>4 DEF CallsInv, CallTypeOK
<1>6. call[t] \in CallRecords
  BY <1>5
<1>7. /\ c \in CallRecords /\ c.op = call[t].op /\ c.path = call[t].path /\ c.val = call[t].val
      /\ c.pc = pc /\ c.h = call[t].h /\ c.ret = call[t].ret /\ c.done = call[t].done
      /\ (c.fault <=> call[t].fault) /\ c.gone = call[t].gone /\ c.res = call[t].res
  BY <1>4, <1>6 DEF CallRecords, Phases
<1> HIDE DEF c
<1>8. SetOK(t)
  BY <1>4 DEF CallsInv, CallOK
<1>9. CallOK(t)'
  BY <1>1, <1>4, <1>5, <1>7, <1>8 DEF CallOK, SetOK
<1>10. OwnOK'
  BY <1>1, <1>5, <1>7, Owns DEF CallsInv
<1>11. call[t] # NoCall
  BY <1>4, NoCallType
<1>12. \A k \in KeyPaths : disk'[k].kind # "dir"
  BY <1>3 DEF CallsInv, KeysOK
<1>13. \A u \in Tasks \ {t} : frames'[u] = frames[u] /\ \A a \in call[u].h : files'[a] = files[a]
  BY <1>1
<1>14. /\ c.op # "idle" /\ UNCHANGED dirs
       /\ \A k \in KeyPaths : disk'[k].kind = "absent" => disk[k].kind = "absent"
  BY <1>1, <1>3, <1>4, <1>7
<1>15. CallsInv'
  BY <1>5, <1>7, <1>9, <1>10, <1>11, <1>12, <1>13, <1>14, OneCall
<1> QED
  BY <1>3, <1>15

\* CallsInv is kept by Read.
LEMMA ReadKeeps ==
  ASSUME FsInv, CallsInv, NEW t \in Tasks, Read(t)
  PROVE  CallsInv'
<1>1. PICK h \in call[t].h, err \in BOOLEAN :
        /\ call[t].pc = "read"
        /\ IF err THEN UNCHANGED files ELSE fs_read(h, Len(files[h].data))
        /\ call' = [call EXCEPT ![t].pc = "close", ![t].fault = @ \/ err]
        /\ UNCHANGED <<disk, dirs, heap, frames>>
  BY DEF Read, Next_pc
<1> DEFINE c == [call[t] EXCEPT !.pc = "close", !.fault = @ \/ err]
<1>2. call' = [call EXCEPT ![t] = c] /\ call \in [Tasks -> CallRecords] /\ call'[t] = c
  BY <1>1 DEF CallsInv, CallTypeOK
<1>3. call[t] \in CallRecords /\ call[t].op = "get" /\ h \in Addrs /\ call[t].h = {h} /\ GetOK(t)
  BY <1>1, PcOfCall DEF CallsInv, CallOK
<1>4. /\ c \in CallRecords /\ c.op = call[t].op /\ c.path = call[t].path
      /\ c.pc = "close" /\ c.h = call[t].h /\ c.ret = call[t].ret /\ c.done = call[t].done
      /\ c.gone = call[t].gone /\ c.res = call[t].res
  BY <1>3 DEF CallRecords, Phases
<1> HIDE DEF c
<1>5. /\ \A a \in Addrs \ {h} : files'[a] = files[a]
      /\ files'[h].open = files[h].open /\ files'[h].dirty = files[h].dirty
  BY <1>1, <1>3 DEF fs_read, FsInv, FsTypeOK, FileRecords
<1>6. files[h].open /\ ~files[h].dirty
  BY <1>1, <1>3 DEF GetOK
<1>7. CallOK(t)'
  BY <1>1, <1>2, <1>3, <1>4, <1>5, <1>6 DEF CallOK, GetOK
<1>8. OwnOK'
  BY <1>1, <1>2, <1>4, Owns DEF CallsInv
<1>9. call[t] # NoCall
  BY <1>3, NoCallType
<1>10. \A k \in KeyPaths : disk'[k].kind # "dir"
  BY <1>1 DEF CallsInv, KeysOK
<1>11. \A u \in Tasks \ {t} : frames'[u] = frames[u] /\ \A a \in call[u].h : files'[a] = files[a]
  BY <1>1, <1>3, <1>5, OthersFiles, PcOfCall
<1> QED
  BY <1>1, <1>2, <1>3, <1>4, <1>7, <1>8, <1>9, <1>10, <1>11, OneCall, ZenonT(40)

\* The file of a set holds the value, unless the write failed.
LEMMA WriteKeeps ==
  ASSUME FsInv, CallsInv, NEW t \in Tasks, Write(t)
  PROVE  CallsInv'
<1>1. PICK h \in call[t].h, err \in BOOLEAN :
        /\ call[t].pc = "write" /\ fs_write(h, call[t].val, err)
        /\ call' = [call EXCEPT ![t].pc = "close", ![t].fault = @ \/ err]
        /\ UNCHANGED <<disk, dirs, heap, frames>>
  BY DEF Write, Next_pc
<1> DEFINE c == [call[t] EXCEPT !.pc = "close", !.fault = @ \/ err]
<1>2. call' = [call EXCEPT ![t] = c] /\ call \in [Tasks -> CallRecords] /\ call'[t] = c
  BY <1>1 DEF CallsInv, CallTypeOK
<1>3. call[t] \in CallRecords /\ call[t].op = "set" /\ h \in Addrs /\ call[t].h = {h} /\ SetOK(t)
  BY <1>1, PcOfCall DEF CallsInv, CallOK
<1>4. /\ c \in CallRecords /\ c.op = call[t].op /\ c.path = call[t].path /\ c.val = call[t].val
      /\ c.pc = "close" /\ c.h = call[t].h /\ c.ret = call[t].ret /\ c.done = call[t].done
      /\ c.gone = call[t].gone /\ c.res = call[t].res /\ (err => c.fault)
  BY <1>3 DEF CallRecords, Phases
<1> HIDE DEF c
<1>5. \A a \in Addrs \ {h} : files'[a] = files[a]
  BY <1>1, <1>3 DEF fs_write, FsInv, FsTypeOK
<1>6. /\ files[h].open /\ files[h].path = call[t].path /\ (files[h].orphan <=> call[t].done)
      /\ files[h].mode = "w" /\ files[h].data = <<>> /\ files[h].pos = 0 /\ ~files[h].erred
      /\ call[t].ret = "ok"
  BY <1>1, <1>3 DEF SetOK, Holds
<1>7. PICK v \in Bytes : call[t].val = <<v>>
  BY <1>3 DEF SetOK
<1>8. Overwrite(<<>>, 0, <<v>>) = <<v>>
  BY DEF Overwrite
<1>9. /\ files'[h].open /\ files'[h].path = call[t].path /\ (files'[h].orphan <=> call[t].done)
      /\ IF files'[h].erred THEN err ELSE files'[h].dirty /\ files'[h].data = call[t].val
  BY <1>1, <1>3, <1>6, <1>7, <1>8 DEF fs_write, FsInv, FsTypeOK, FileRecords
<1>10. CallOK(t)'
  BY <1>1, <1>2, <1>3, <1>4, <1>6, <1>9 DEF CallOK, SetOK, Holds
<1>11. OwnOK'
  BY <1>1, <1>2, <1>4, Owns, ZenonT(40) DEF CallsInv
<1>12. call[t] # NoCall
  BY <1>3, NoCallType
<1>13. \A k \in KeyPaths : disk'[k].kind # "dir"
  BY <1>1 DEF CallsInv, KeysOK
<1>14. \A u \in Tasks \ {t} : frames'[u] = frames[u] /\ \A a \in call[u].h : files'[a] = files[a]
  BY <1>1, <1>3, <1>5, OthersFiles, PcOfCall
<1> QED
  <2>1. c.op # "idle" /\ UNCHANGED <<disk, dirs>>
    BY <1>1, <1>3, <1>4
  <2> QED
    BY <1>2, <1>4, <1>10, <1>11, <1>12, <1>13, <1>14, <2>1, OneCall

\* Only a set creates its key, with nothing in it.
LEMMA OpenDisk ==
  ASSUME FsInv, CallsInv, NEW t \in Tasks, NEW h \in Addrs \ heap, NEW err \in BOOLEAN,
         call[t].pc = "open",
         fs_open(call[t].path, IF call[t].op = "get" THEN "r" ELSE "w", h, err)
  PROVE  /\ call[t].path \in KeyPaths /\ call[t].op \in {"get", "set"} /\ call[t].h = {}
         /\ ~files[h].open
         /\ \A a \in Addrs \ {h} : files'[a] = files[a]
         /\ \A k \in KeyPaths \ {call[t].path} : disk'[k] = disk[k]
         /\ \/ disk' = disk
            \/ /\ call[t].op = "set" /\ disk[call[t].path].kind = "absent"
               /\ disk'[call[t].path] = File(<<>>)
<1> DEFINE p == call[t].path
           mode == IF call[t].op = "get" THEN "r" ELSE "w"
<1>1. /\ p \in KeyPaths /\ p \in Paths /\ call[t].op \in {"get", "set"}
      /\ (call[t].op = "set" <=> mode # "r") /\ mode \in {"r", "w"}
  BY PcOfCall, KeyIsPath
<1>2. call[t].h = {}
  BY <1>1 DEF CallsInv, CallOK, GetOK, SetOK
<1> HIDE DEF mode
<1>3. ~files[h].open
  BY DEF FsInv, HeapOK
<1>4. \A a \in Addrs \ {h} : files'[a] = files[a]
  BY DEF fs_open, FsInv, FsTypeOK
<1>5. disk' = disk \/ (mode # "r" /\ disk[p].kind = "absent" /\ disk' = [disk EXCEPT ![p] = File(<<>>)])
  <2>1. disk' = disk \/ (disk[p].kind = "absent" /\ disk' = [disk EXCEPT ![p] = File(<<>>)])
    BY DEF fs_open, CreateFile, mode
  <2>2. mode = "r" => disk' = disk
    BY DEF fs_open, CreateFile, CanOpen, mode
  <2> QED
    BY <2>1, <2>2
<1>6. \A k \in KeyPaths : k \in Paths
  BY KeyIsPath
<1>7. disk \in [Paths -> Nodes]
  BY DEF FsInv, FsTypeOK
<1> QED
  BY <1>1, <1>2, <1>3, <1>4, <1>5, <1>6, <1>7

\* What a call has when its file is open, and when it is not.
Opened(t, h) ==
  LET get == call[t].op = "get" IN
  /\ heap' = heap \cup {h} /\ disk'[call[t].path].kind = "file"
  /\ files'[h].open /\ files'[h].path = call[t].path /\ ~files'[h].orphan /\ files'[h].pos = 0
  /\ ~files'[h].erred
  /\ IF get THEN files'[h].data = disk[call[t].path].data /\ ~files'[h].dirty
            ELSE files'[h].mode = "w" /\ files'[h].data = <<>>
  /\ call' = [call EXCEPT ![t] =
       [call[t] EXCEPT !.pc = IF get THEN "read" ELSE "write", !.h = {h},
                       !.res = IF get THEN {files'[h].data} ELSE {}]]
NotOpened(t, err) ==
  /\ UNCHANGED <<files, heap>>
  /\ call' = [call EXCEPT ![t] = [call[t] EXCEPT !.pc = "done", !.ret = "fail",
                                                 !.fault = call[t].op = "get" /\ err]]
  /\ call[t].op = "get" => err \/ disk[call[t].path].kind = "absent"

\* What Open may have done: opened the file, created it and opened it, created it only, or failed.
LEMMA OpenOutcome ==
  ASSUME FsInv, CallsInv, NEW t \in Tasks, Open(t)
  PROVE  /\ call[t].pc = "open" /\ call[t].path \in KeyPaths /\ call[t].op \in {"get", "set"}
         /\ call[t].h = {} /\ UNCHANGED <<dirs, frames, ans>>
         /\ \A k \in KeyPaths \ {call[t].path} : disk'[k] = disk[k]
         /\ \/ disk' = disk
            \/ /\ call[t].op = "set" /\ disk[call[t].path].kind = "absent"
               /\ disk'[call[t].path] = File(<<>>)
         /\ \E h \in Addrs \ heap, err \in BOOLEAN :
              /\ \A a \in Addrs \ {h} : files'[a] = files[a]
              /\ Opened(t, h) \/ NotOpened(t, err)
<1> DEFINE p == call[t].path
           mode == IF call[t].op = "get" THEN "r" ELSE "w"
<1>1. PICK h \in Addrs \ heap, err \in BOOLEAN :
        /\ call[t].pc = "open" /\ fs_open(p, mode, h, err)
        /\ call' = [call EXCEPT ![t] =
             IF files'[h].open
               THEN [@ EXCEPT !.pc = IF call[t].op = "get" THEN "read" ELSE "write", !.h = {h},
                              !.res = IF call[t].op = "get" THEN {files'[h].data} ELSE {}]
               ELSE OpenFailed([@ EXCEPT !.fault = call[t].op = "get" /\ err])]
        /\ UNCHANGED <<dirs, frames, ans>>
  BY DEF Open
<1>2. /\ p \in KeyPaths /\ call[t].op \in {"get", "set"} /\ call[t].h = {} /\ ~files[h].open
      /\ \A a \in Addrs \ {h} : files'[a] = files[a]
      /\ \A k \in KeyPaths \ {p} : disk'[k] = disk[k]
      /\ \/ disk' = disk
         \/ call[t].op = "set" /\ disk[p].kind = "absent" /\ disk'[p] = File(<<>>)
  BY <1>1, OpenDisk
<1>3. call \in [Tasks -> CallRecords] /\ call[t] \in CallRecords
  BY DEF CallsInv, CallTypeOK
<1>4. disk[p].kind \in {"absent", "file"}
  BY <1>2, KeyIsPath DEF CallsInv, KeysOK, FsInv, FsTypeOK, Nodes
<1>5. CASE ~err /\ CanOpen(p, mode) /\ CreateFile(p) /\ heap' = heap \cup {h}
           /\ files' = [files EXCEPT ![h] =
                [open |-> TRUE, path |-> p, mode |-> mode, pos |-> 0,
                 data |-> IF Truncates(mode) THEN <<>> ELSE disk[p].data, base |-> disk[p].data,
                 dirty |-> Truncates(mode) /\ disk[p].kind = "file",
                 erred |-> FALSE, orphan |-> FALSE]]
  <2>1. files'[h] = [open |-> TRUE, path |-> p, mode |-> mode, pos |-> 0,
                     data |-> IF Truncates(mode) THEN <<>> ELSE disk[p].data, base |-> disk[p].data,
                     dirty |-> Truncates(mode) /\ disk[p].kind = "file",
                     erred |-> FALSE, orphan |-> FALSE]
    BY <1>5 DEF FsInv, FsTypeOK
  <2>2. /\ files'[h].open /\ files'[h].path = p /\ ~files'[h].orphan /\ files'[h].pos = 0
        /\ ~files'[h].erred
        /\ IF call[t].op = "get" THEN files'[h].data = disk[p].data /\ ~files'[h].dirty
                                 ELSE files'[h].mode = "w" /\ files'[h].data = <<>>
    <3>1. /\ files'[h].open = TRUE /\ files'[h].path = p /\ files'[h].orphan = FALSE
          /\ files'[h].pos = 0 /\ files'[h].erred = FALSE /\ files'[h].mode = mode
          /\ files'[h].data = IF mode = "w" THEN <<>> ELSE disk[p].data
          /\ files'[h].dirty = (mode = "w" /\ disk[p].kind = "file")
      BY <2>1 DEF Truncates
    <3>2. IF call[t].op = "get" THEN mode = "r" /\ mode # "w" ELSE mode = "w"
      OBVIOUS
    <3> HIDE DEF mode
    <3> QED
      BY <3>1, <3>2
  <2>3. disk'[p].kind = "file"
    <3>1. disk[p].kind = "absent" => disk' = [disk EXCEPT ![p] = File(<<>>)]
      BY <1>5 DEF CreateFile
    <3>2. disk[p].kind # "absent" => disk' = disk
      BY <1>5 DEF CreateFile
    <3>3. p \in Paths /\ disk \in [Paths -> Nodes]
      BY <1>2, KeyIsPath DEF FsInv, FsTypeOK
    <3> QED
      BY <1>4, <3>1, <3>2, <3>3 DEF File
  <2>4. call' = [call EXCEPT ![t] =
          [call[t] EXCEPT !.pc = IF call[t].op = "get" THEN "read" ELSE "write", !.h = {h},
                          !.res = IF call[t].op = "get" THEN {files'[h].data} ELSE {}]]
    BY <1>1, <1>3, <2>2
  <2>5. Opened(t, h)
    BY <1>5, <2>2, <2>3, <2>4 DEF Opened
  <2> QED
    BY <1>1, <1>2, <2>5
<1>6. CASE (err \/ ~CanOpen(p, mode)) /\ UNCHANGED <<files, heap>>
  <2>1. call' = [call EXCEPT ![t] = [call[t] EXCEPT !.pc = "done", !.ret = "fail",
                                                    !.fault = call[t].op = "get" /\ err]]
    <3>1. OpenFailed([call[t] EXCEPT !.fault = call[t].op = "get" /\ err])
            = [call[t] EXCEPT !.pc = "done", !.ret = "fail", !.fault = call[t].op = "get" /\ err]
      BY <1>3 DEF OpenFailed, CallRecords
    <3> QED
      BY <1>1, <1>2, <1>3, <1>6, <3>1
  <2>2. call[t].op = "get" => err \/ disk[p].kind = "absent"
    BY <1>4, <1>6 DEF CanOpen
  <2>3. NotOpened(t, err)
    BY <1>6, <2>1, <2>2 DEF NotOpened
  <2> QED
    BY <1>1, <1>2, <2>3
<1> QED
  BY <1>1, <1>5, <1>6 DEF fs_open, OpenFails

\* CallsInv is kept by Open.
LEMMA OpenKeeps ==
  ASSUME FsInv, FsInv', CallsInv, NEW t \in Tasks, Open(t)
  PROVE  CallsInv'
<1> DEFINE p == call[t].path
           get == call[t].op = "get"
<1>1. /\ call[t].pc = "open" /\ p \in KeyPaths /\ call[t].op \in {"get", "set"}
      /\ call[t].h = {} /\ UNCHANGED <<dirs, frames>>
      /\ \A k \in KeyPaths \ {p} : disk'[k] = disk[k]
      /\ \/ disk' = disk
         \/ call[t].op = "set" /\ disk[p].kind = "absent" /\ disk'[p] = File(<<>>)
  BY OpenOutcome
<1>2. PICK h \in Addrs \ heap, err \in BOOLEAN :
        (\A a \in Addrs \ {h} : files'[a] = files[a]) /\ (Opened(t, h) \/ NotOpened(t, err))
  BY OpenOutcome
<1>3. call \in [Tasks -> CallRecords] /\ call[t] \in CallRecords /\ call[t] # NoCall
  BY <1>1, NoCallType DEF CallsInv, CallTypeOK
<1>4. \A u \in Tasks \ {t} : frames'[u] = frames[u] /\ \A a \in call[u].h : files'[a] = files[a]
  BY <1>1, <1>2, OthersFiles, PcOfCall
<1>5. \A k \in KeyPaths : /\ disk'[k].kind # "dir"
                          /\ disk'[k].kind = "absent" => disk[k].kind = "absent"
  BY <1>1 DEF CallsInv, KeysOK, File
<1>6. IF get THEN GetOK(t) ELSE SetOK(t)
  BY <1>1 DEF CallsInv, CallOK
<1>7. CASE Opened(t, h)
  <2> DEFINE c == [call[t] EXCEPT !.pc = IF get THEN "read" ELSE "write", !.h = {h},
                                  !.res = IF get THEN {files'[h].data} ELSE {}]
  <2>1. call' = [call EXCEPT ![t] = c] /\ call'[t] = c
    BY <1>3, <1>7 DEF Opened
  <2>2. files'[h].data \in Contents
    BY DEF FsInv, FsTypeOK, FileRecords
  <2>3. /\ c \in CallRecords /\ c.op = call[t].op /\ c.path = p /\ c.val = call[t].val
        /\ c.pc = (IF get THEN "read" ELSE "write") /\ c.h = {h} /\ c.ret = call[t].ret
        /\ c.done = call[t].done /\ c.gone = call[t].gone
        /\ c.res = IF get THEN {files'[h].data} ELSE {}
    BY <1>3, <2>2 DEF CallRecords, Phases
  <2> HIDE DEF c
  <2>4. /\ files'[h].open /\ files'[h].path = p /\ ~files'[h].orphan /\ files'[h].pos = 0
        /\ ~files'[h].erred /\ heap' = heap \cup {h}
        /\ IF get THEN ~files'[h].dirty ELSE files'[h].mode = "w" /\ files'[h].data = <<>>
    BY <1>7 DEF Opened
  <2>5. CallOK(t)'
    <3>1. CASE get
      <4>1. c.res # {} /\ c.op = "get" /\ c.pc = "read"
        BY <2>3, <3>1
      <4>2. p \in KeyPaths /\ ~call[t].done /\ frames[t] = <<>> /\ call[t].ret = "ok"
        BY <1>1, <1>6, <3>1 DEF GetOK
      <4>3. GetOK(t)'
        BY <1>1, <2>1, <2>3, <2>4, <3>1, <4>1, <4>2 DEF GetOK
      <4> QED
        BY <2>1, <4>1, <4>3 DEF CallOK
    <3>2. CASE ~get
      <4>1. c.res = {} /\ c.op = "set" /\ c.pc = "write"
        BY <1>1, <2>3, <3>2
      <4>2. /\ p \in KeyPaths /\ ~call[t].done /\ frames[t] = <<>> /\ call[t].ret = "ok"
            /\ \E v \in Bytes : call[t].val = <<v>>
        BY <1>1, <1>6, <3>2 DEF SetOK
      <4>3. SetOK(t)'
        BY <1>1, <2>1, <2>3, <2>4, <3>2, <4>1, <4>2 DEF SetOK, Holds
      <4> QED
        BY <2>1, <4>1, <4>3 DEF CallOK
    <3> QED
      BY <3>1, <3>2
  <2>6. OwnOK'
    BY <1>1, <1>3, <2>1, <2>3, <2>4, Owns DEF CallsInv
  <2>7. c.op # "idle" /\ UNCHANGED dirs
    BY <1>1, <2>3
  <2> QED
    BY <1>3, <1>4, <1>5, <2>1, <2>3, <2>5, <2>6, <2>7, OneCall
<1>8. CASE NotOpened(t, err)
  <2> DEFINE c == [call[t] EXCEPT !.pc = "done", !.ret = "fail", !.fault = get /\ err]
  <2>1. call' = [call EXCEPT ![t] = c] /\ call'[t] = c
    BY <1>3, <1>8 DEF NotOpened
  <2>2. /\ c \in CallRecords /\ c.op = call[t].op /\ c.path = p /\ c.val = call[t].val
        /\ c.pc = "done" /\ c.h = {} /\ c.ret = "fail" /\ c.fault = (get /\ err)
        /\ c.done = call[t].done /\ c.gone = call[t].gone /\ c.res = call[t].res
    BY <1>1, <1>3 DEF CallRecords, Phases
  <2> HIDE DEF c
  <2>3. UNCHANGED <<files, heap>> /\ (get => err \/ disk[p].kind = "absent")
    BY <1>8 DEF NotOpened
  <2>4. CallOK(t)'
    <3>1. CASE get
      <4>1. p \in KeyPaths /\ ~call[t].done /\ frames[t] = <<>>
        BY <1>1, <1>6, <3>1 DEF GetOK
      <4>2. err \/ p \in c.gone
        BY <1>1, <1>3, <2>2, <2>3, <3>1, UnderKey DEF CallsInv, GoneOK
      <4>3. GetOK(t)'
        BY <1>1, <2>1, <2>2, <3>1, <4>1, <4>2 DEF GetOK
      <4> QED
        BY <2>1, <2>2, <3>1, <4>3 DEF CallOK
    <3>2. CASE ~get
      <4>1. /\ p \in KeyPaths /\ ~call[t].done /\ frames[t] = <<>> /\ call[t].res = {}
            /\ \E v \in Bytes : call[t].val = <<v>>
        BY <1>1, <1>6, <3>2 DEF SetOK
      <4>2. SetOK(t)'
        BY <1>1, <2>1, <2>2, <4>1 DEF SetOK
      <4> QED
        BY <1>1, <2>1, <2>2, <3>2, <4>2 DEF CallOK
    <3> QED
      BY <3>1, <3>2
  <2>5. OwnOK'
    BY <1>1, <1>3, <2>1, <2>2, <2>3, Owns DEF CallsInv
  <2>6. c.op # "idle" /\ UNCHANGED dirs
    BY <1>1, <2>2
  <2> QED
    BY <1>3, <1>4, <1>5, <2>1, <2>2, <2>4, <2>5, <2>6, OneCall
<1> QED
  BY <1>2, <1>7, <1>8

\* A get commits nothing; a set its value, unless its file was cut off.
Closed(t, h, err) ==
  /\ call[t].pc = "close" /\ call[t].h = {h} /\ fs_close(h, err)
  /\ call[t].path \in KeyPaths /\ call[t].op \in {"get", "set"} /\ files[h].open
  /\ call' = [call EXCEPT ![t] =
       [call[t] EXCEPT !.pc = "done", !.h = {}, !.fault = @ \/ (err /\ Commits(h)),
                       !.done = @ \/ (~err /\ Commits(h))]]
  /\ UNCHANGED <<dirs, frames, rm, ans>>
  /\ call[t].op = "get" => ~Commits(h)
  /\ call[t].op = "set" =>
       IF Commits(h)
         THEN files[h].path = call[t].path /\ files[h].data = call[t].val /\ ~call[t].done
         ELSE call[t].done \/ call[t].fault

\* What Close may have done: committed the value, or failed to.
LEMMA CloseOutcome ==
  ASSUME FsInv, CallsInv, NEW t \in Tasks, Close(t)
  PROVE  \E h \in Addrs, err \in BOOLEAN : Closed(t, h, err)
<1>1. PICK h \in call[t].h, err \in BOOLEAN :
        /\ call[t].pc = "close" /\ fs_close(h, err)
        /\ call' = [call EXCEPT ![t].pc = "done", ![t].h = {},
                                ![t].fault = @ \/ (err /\ Commits(h)),
                                ![t].done = @ \/ (~err /\ Commits(h))]
        /\ UNCHANGED <<dirs, frames, rm, ans>>
  BY DEF Close
<1>2. /\ call[t].path \in KeyPaths /\ call[t].op \in {"get", "set"}
      /\ h \in Addrs /\ files[h].open /\ call[t].h = {h}
  BY <1>1, PcOfCall
<1>3. call' = [call EXCEPT ![t] =
        [call[t] EXCEPT !.pc = "done", !.h = {}, !.fault = @ \/ (err /\ Commits(h)),
                        !.done = @ \/ (~err /\ Commits(h))]]
  <2>1. call \in [Tasks -> CallRecords] /\ call[t] \in CallRecords
    BY DEF CallsInv, CallTypeOK
  <2> QED
    BY <1>1, <2>1 DEF CallRecords
<1>4. call[t].op = "get" => ~Commits(h)
  BY <1>1, <1>2 DEF CallsInv, CallOK, GetOK, Commits
<1>5. ASSUME call[t].op = "set"
      PROVE  IF Commits(h)
               THEN /\ files[h].path = call[t].path /\ files[h].data = call[t].val
                    /\ ~call[t].done
               ELSE call[t].done \/ call[t].fault
  <2>1. /\ files[h].path = call[t].path /\ (files[h].orphan <=> call[t].done)
        /\ IF files[h].erred THEN call[t].fault
           ELSE files[h].dirty /\ files[h].data = call[t].val
    BY <1>1, <1>2, <1>5, SMTT(20) DEF CallsInv, CallOK, SetOK, Holds
  <2> QED
    BY <2>1 DEF Commits
<1> QED
  BY <1>1, <1>2, <1>3, <1>4, <1>5 DEF Closed

\* CallsInv is kept by Close.
LEMMA CloseKeeps ==
  ASSUME FsInv, FsInv', CallsInv, NEW t \in Tasks, Close(t)
  PROVE  CallsInv'
<1>0. PICK h \in Addrs, err \in BOOLEAN : Closed(t, h, err)
  BY CloseOutcome
<1>1. /\ call[t].pc = "close" /\ call[t].h = {h} /\ fs_close(h, err)
      /\ call[t].path \in KeyPaths /\ call[t].op \in {"get", "set"} /\ files[h].open
      /\ call' = [call EXCEPT ![t] =
           [call[t] EXCEPT !.pc = "done", !.h = {}, !.fault = @ \/ (err /\ Commits(h)),
                           !.done = @ \/ (~err /\ Commits(h))]]
      /\ UNCHANGED <<dirs, frames>>
      /\ call[t].op = "get" => ~Commits(h)
      /\ call[t].op = "set" => Commits(h) \/ call[t].done \/ call[t].fault
  BY <1>0 DEF Closed
<1> DEFINE c == [call[t] EXCEPT !.pc = "done", !.h = {}, !.fault = @ \/ (err /\ Commits(h)),
                                !.done = @ \/ (~err /\ Commits(h))]
<1>2. call \in [Tasks -> CallRecords] /\ call[t] \in CallRecords /\ call[t] # NoCall
  BY <1>1, NoCallType DEF CallsInv, CallTypeOK
<1>3. call' = [call EXCEPT ![t] = c] /\ call'[t] = c
  BY <1>1, <1>2
<1>4. /\ c \in CallRecords /\ c.op = call[t].op /\ c.path = call[t].path /\ c.val = call[t].val
      /\ c.pc = "done" /\ c.h = {} /\ c.ret = call[t].ret /\ c.gone = call[t].gone
      /\ c.res = call[t].res
      /\ c.fault = (call[t].fault \/ (err /\ Commits(h)))
      /\ c.done = (call[t].done \/ (~err /\ Commits(h)))
  BY <1>2 DEF CallRecords, Phases
<1> HIDE DEF c
<1>5. CallOK(t)'
  <2>1. CASE call[t].op = "get"
    <3>1. /\ call[t].path \in KeyPaths /\ ~call[t].done /\ frames[t] = <<>>
          /\ call[t].res # {} /\ call[t].ret = "ok"
      BY <1>1, <2>1 DEF CallsInv, CallOK, GetOK
    <3>2. GetOK(t)'
      BY <1>1, <1>3, <1>4, <2>1, <3>1 DEF GetOK
    <3> QED
      BY <1>3, <1>4, <2>1, <3>2 DEF CallOK
  <2>2. CASE call[t].op = "set"
    <3>1. /\ call[t].path \in KeyPaths /\ frames[t] = <<>> /\ call[t].res = {}
          /\ call[t].ret = "ok" /\ \E v \in Bytes : call[t].val = <<v>>
      BY <1>1, <2>2 DEF CallsInv, CallOK, SetOK
    <3>2. c.done \/ c.fault
      BY <1>1, <1>4, <2>2
    <3>3. SetOK(t)'
      BY <1>1, <1>3, <1>4, <3>1, <3>2 DEF SetOK
    <3> QED
      BY <1>3, <1>4, <2>2, <3>3 DEF CallOK
  <2> QED
    BY <1>1, <2>1, <2>2
<1>6. heap' = heap \ {h} /\ \A a \in Addrs \ {h} : files'[a] = files[a]
  BY <1>1 DEF fs_close, FsInv, FsTypeOK
<1>7. OwnOK'
  BY <1>1, <1>2, <1>3, <1>4, <1>6, Owns, ZenonT(40) DEF CallsInv
<1>8. \A u \in Tasks \ {t} : frames'[u] = frames[u] /\ \A a \in call[u].h : files'[a] = files[a]
  BY <1>1, <1>6, OthersFiles, PcOfCall
<1>9. \A k \in KeyPaths : disk'[k].kind = disk[k].kind
  BY <1>1, CloseKinds, KeyIsPath DEF FsInv, SameKinds
<1>10. \A k \in KeyPaths : disk'[k].kind # "dir"
  BY <1>9 DEF CallsInv, KeysOK
<1>11. c.op # "idle" /\ UNCHANGED dirs
  BY <1>1, <1>4
<1> QED
  BY <1>2, <1>3, <1>4, <1>5, <1>7, <1>8, <1>9, <1>10, <1>11, OneCall

-----------------------------------------------------------------------------
(* What a deletion still has in front of it.                               *)

\* The next entry on the way from the directory of an activation to a key.
LEMMA WayTo ==
  ASSUME NEW f, f.path \in Paths, NEW k \in Paths, IsPrefix(f.path, k), f.path # k
  PROVE  /\ Toward(f, k) \in Names /\ Len(f.path) < MaxDepth
         /\ Append(f.path, Toward(f, k)) \in Paths /\ IsPrefix(Append(f.path, Toward(f, k)), k)
<1> DEFINE p == f.path
<1>1. /\ p \in Seq(Names) /\ k \in Seq(Names) /\ Len(p) \in Nat /\ Len(k) \in Nat
      /\ Len(k) <= MaxDepth /\ MaxDepth \in Nat
  BY PathIsSeq, LenProperties, DepthAssumption
<1>2. Len(p) < MaxDepth
  <2>1. Len(p) < Len(k)
    BY <1>1, PrefixFront
  <2> QED
    BY <1>1, <2>1
<1>3. k[Len(p) + 1] \in Names /\ IsPrefix(Append(p, k[Len(p) + 1]), k)
  BY <1>1, PrefixNext
<1> QED
  BY <1>2, <1>3, ChildPath DEF Toward

\* It is there as long as the key is.
LEMMA WayOn ==
  ASSUME FsInv, NEW f, f.path \in Paths, NEW k \in Paths, IsPrefix(f.path, k), f.path # k,
         disk[k].kind # "absent"
  PROVE  Toward(f, k) \in Entries(f.path) /\ disk[f.path].kind = "dir"
<1>1. /\ Toward(f, k) \in Names /\ Len(f.path) < MaxDepth
      /\ Append(f.path, Toward(f, k)) \in Paths /\ IsPrefix(Append(f.path, Toward(f, k)), k)
  BY WayTo
<1>2. disk[Append(f.path, Toward(f, k))].kind # "absent"
  BY <1>1 DEF FsInv, AboveOK
<1>3. Toward(f, k) \in Entries(f.path)
  BY <1>1, <1>2 DEF Entries
<1> QED
  BY <1>3, OnlyDirsHaveEntries DEF FsInv

\* A key that exists stays ahead of the iterators when a directory is opened.
LEMMA EnterAhead ==
  ASSUME FsInv, NEW t \in Tasks, NEW err \in BOOLEAN, RemoveEnter(t, err), ~err, NEW k \in Paths,
         disk[k].kind # "absent", \A d \in 1 .. Len(frames[t]) : KeyAhead(frames[t], d, k)
  PROVE  \A d \in 1 .. Len(frames'[t]) : KeyAhead(frames'[t], d, k)
<1>1. PICK n \in Nat : n = Len(frames[t])
  BY LenProperties DEF FsInv, FsTypeOK
<1>2. /\ n \in Nat \ {0} /\ Len(frames'[t]) = n
      /\ \A d \in 1 .. n : frames[t][d] \in Frames /\ frames[t][d].path \in Paths
      /\ \A d \in 1 .. n - 1 : frames'[t][d] = frames[t][d]
      /\ frames'[t][n].path = frames[t][n].path /\ frames'[t][n].last = frames[t][n].last
      /\ frames[t][n].phase = "enter"
      /\ IF ~err /\ disk[frames[t][n].path].kind = "dir"
           THEN frames'[t][n].phase = "read" /\ frames'[t][n].at = Entries(frames[t][n].path)
           ELSE frames'[t][n].phase = "remove"
  BY <1>1, EnterStacks DEF FsInv
<1>3. n \in 1 .. n /\ \A d \in 1 .. n : d = n \/ d \in 1 .. n - 1
  BY <1>2, Places
<1>4. ASSUME NEW d \in 1 .. n - 1 PROVE KeyAhead(frames'[t], d, k)
  <2>1. d \in 1 .. n
    BY <1>2, <1>4
  <2> QED
    BY <1>1, <1>2, <2>1 DEF KeyAhead
<1>5. ASSUME IsPrefix(frames[t][n].path, k), frames[t][n].path # k
      PROVE  /\ frames'[t][n].phase = "read"
             /\ Toward(frames'[t][n], k) \in frames'[t][n].at
             /\ Toward(frames'[t][n], k) > frames'[t][n].last
  <2>1. frames[t][n].last = 0
    BY <1>1, <1>2, <1>3 DEF FsInv, ChainOK, Chain
  <2>2. /\ Toward(frames[t][n], k) \in Entries(frames[t][n].path)
        /\ disk[frames[t][n].path].kind = "dir"
    BY <1>2, <1>3, <1>5, WayOn
  <2>3. Toward(frames'[t][n], k) = Toward(frames[t][n], k)
    BY <1>2 DEF Toward
  <2>4. Toward(frames[t][n], k) > 0
    BY <2>2, EntriesAreNames, NamesPositive
  <2> QED
    BY <1>2, <2>1, <2>2, <2>3, <2>4
<1>6. KeyAhead(frames'[t], n, k)
  BY <1>2, <1>5 DEF KeyAhead
<1> QED
  BY <1>2, <1>3, <1>4, <1>6

\* A key that exists stays ahead of the iterators when a directory is read.
LEMMA ReadAhead ==
  ASSUME FsInv, NEW t \in Tasks, NEW err \in BOOLEAN, RemoveRead(t, err), ~err, NEW k \in Paths,
         disk[k].kind # "absent", \A d \in 1 .. Len(frames[t]) : KeyAhead(frames[t], d, k)
  PROVE  \A d \in 1 .. Len(frames'[t]) : KeyAhead(frames'[t], d, k)
<1>1. PICK n \in Nat : n = Len(frames[t])
  BY LenProperties DEF FsInv, FsTypeOK
<1>2. /\ n \in Nat \ {0} /\ frames[t][n].phase = "read"
      /\ \A d \in 1 .. n : frames[t][d] \in Frames /\ frames[t][d].path \in Paths
      /\ \A d \in 1 .. n - 1 : frames'[t][d] = frames[t][d]
      /\ frames'[t][n].path = frames[t][n].path
      /\ \/ (err \/ AtEnd(frames[t][n])) /\ Len(frames'[t]) = n /\ frames'[t][n].phase = "remove"
         \/ \E m \in Names : Descends(t, n, m)
  BY <1>1, ReadStacks DEF FsInv
<1>3. n \in 1 .. n /\ \A d \in 1 .. n : d = n \/ d \in 1 .. n - 1
  BY <1>2, Places
<1>4. Len(frames'[t]) \in {n, n + 1}
  BY <1>2 DEF Descends
<1>5. ASSUME NEW d \in 1 .. n - 1 PROVE KeyAhead(frames'[t], d, k)
  <2>1. d \in 1 .. n /\ d < n /\ d < Len(frames'[t])
    BY <1>2, <1>4, <1>5
  <2> QED
    BY <1>1, <1>2, <2>1 DEF KeyAhead
\* Whatever is on the way to the key is in front of the iterator.
<1>6. ASSUME IsPrefix(frames[t][n].path, k), frames[t][n].path # k
      PROVE  Toward(frames[t][n], k) \in Ahead(frames[t][n]) \cap frames[t][n].at
  <2>1. KeyAhead(frames[t], n, k)
    BY <1>1, <1>3
  <2>2. /\ Toward(frames[t][n], k) \in frames[t][n].at
        /\ Toward(frames[t][n], k) > frames[t][n].last
    BY <1>1, <1>2, <1>6, <2>1 DEF KeyAhead
  <2>3. Toward(frames[t][n], k) \in Entries(frames[t][n].path)
    BY <1>2, <1>3, <1>6, WayOn
  <2> QED
    BY <2>2, <2>3 DEF Ahead
<1>7. CASE AtEnd(frames[t][n]) /\ Len(frames'[t]) = n /\ frames'[t][n].phase = "remove"
  <2>1. KeyAhead(frames'[t], n, k)
    BY <1>2, <1>6, <1>7 DEF AtEnd, KeyAhead
  <2> QED
    BY <1>3, <1>5, <1>7, <2>1
<1>8. ASSUME NEW m \in Names, Descends(t, n, m)
      PROVE  \A d \in 1 .. Len(frames'[t]) : KeyAhead(frames'[t], d, k)
  <2>1. /\ m \in lfs_dir_read(frames[t][n])
        /\ Len(frames'[t]) = n + 1 /\ frames'[t][n].phase = "read"
        /\ frames'[t][n].last = m /\ frames'[t][n].at = frames[t][n].at
        /\ frames'[t][n + 1].phase = "enter"
    BY <1>8 DEF Descends
  <2>2. ASSUME IsPrefix(frames[t][n].path, k), frames[t][n].path # k
        PROVE  /\ Toward(frames'[t][n], k) \in frames'[t][n].at
               /\ Toward(frames'[t][n], k) > m \/ Toward(frames'[t][n], k) = m
    <3>1. Toward(frames'[t][n], k) = Toward(frames[t][n], k)
      BY <1>2 DEF Toward
    <3>2. m <= Toward(frames[t][n], k)
      BY <1>6, <2>1, <2>2 DEF lfs_dir_read
    <3>3. Toward(frames[t][n], k) \in Nat /\ m \in Nat
      BY <1>2, <1>3, <2>2, WayTo, NamesPositive
    <3> QED
      BY <1>6, <2>1, <2>2, <3>1, <3>2, <3>3
  <2>3. n < n + 1
    BY <1>2
  <2>4. KeyAhead(frames'[t], n, k)
    BY <1>2, <2>1, <2>2, <2>3 DEF KeyAhead
  <2>5. KeyAhead(frames'[t], n + 1, k)
    BY <2>1 DEF KeyAhead
  <2>6. \A d \in 1 .. n + 1 : d = n + 1 \/ d = n \/ d \in 1 .. n - 1
    BY <1>2
  <2> QED
    BY <1>5, <2>1, <2>4, <2>5, <2>6
<1> QED
  BY <1>2, <1>7, <1>8

\* What the removal of path p by task t, which may be task u itself or another,
\* leaves ahead of an fs_remove of task u; key k is another one than p.
LEMMA LastAhead ==
  ASSUME FsInv, KeysOK, NEW t \in Tasks, NEW err \in BOOLEAN, RemoveLast(t, err),
         NEW u \in Tasks, u = t => ~err, NEW k \in KeyPaths, disk[k].kind # "absent",
         ~err /\ CanRemove(Top(t).path) => Top(t).path # k,
         \A d \in 1 .. Len(frames[u]) : KeyAhead(frames[u], d, k)
  PROVE  /\ \A d \in 1 .. Len(frames'[u]) : KeyAhead(frames'[u], d, k)
         /\ u = t => ~IsPrefix(Top(t).path, k)
<1> DEFINE p == Top(t).path
<1>1. /\ Top(t).phase = "remove" /\ p \in Paths /\ k \in Paths /\ k # Root
      /\ IF ~err /\ CanRemove(p) THEN p # Root /\ Entries(p) = {} ELSE UNCHANGED disk
  BY LastOutcome, KeyIsPath DEF RemoveLast, FsInv
<1>2. /\ Len(frames[t]) \in Nat \ {0} /\ Top(t) = frames[t][Len(frames[t])]
  BY TopOfStack DEF RemoveLast, FsInv
<1>3. ~err /\ CanRemove(p) => ~IsPrefix(p, k)
  BY <1>1, WayOn
<1>4. u = t => ~IsPrefix(p, k)
  <2> SUFFICES ASSUME u = t, IsPrefix(p, k) PROVE FALSE
    OBVIOUS
  <2>1. KeyAhead(frames[t], Len(frames[t]), k)
    BY <1>2
  <2>2. p = k
    BY <1>1, <1>2, <2>1 DEF KeyAhead
  <2>3. Entries(k) = {}
    BY <1>1, OnlyDirsHaveEntries DEF KeysOK, FsInv
  <2>4. CanRemove(p)
    BY <1>1, <2>2, <2>3 DEF CanRemove
  <2> QED
    BY <1>3, <2>4
<1>5. PICK n \in Nat, j \in Int :
        n = Len(frames[u]) /\ j = Len(frames'[u]) /\ j = IF u = t THEN n - 1 ELSE n
  BY LastStacks DEF FsInv
<1>6. ASSUME NEW d \in 1 .. j PROVE KeyAhead(frames'[u], d, k)
  <2>1. /\ d \in 1 .. n /\ frames[u][d].path \in Paths
        /\ frames'[u][d].path = frames[u][d].path
        /\ frames'[u][d].phase = frames[u][d].phase
        /\ frames'[u][d].last = frames[u][d].last
        /\ \/ frames'[u][d].at = frames[u][d].at
           \/ /\ disk'[p].kind = "absent" /\ p # Root
              /\ frames[u][d].path = Front(p)
              /\ frames'[u][d].at = frames[u][d].at \ {Last(p)}
    BY <1>5, <1>6, LastStacks DEF FsInv
  <2>2. KeyAhead(frames[u], d, k)
    BY <1>5, <2>1
  <2> SUFFICES ASSUME IsPrefix(frames[u][d].path, k), frames[u][d].path # k,
                      frames[u][d].phase = "read"
               PROVE  /\ Toward(frames[u][d], k) \in frames'[u][d].at
                      /\ \/ Toward(frames[u][d], k) > frames[u][d].last
                         \/ d < j /\ Toward(frames[u][d], k) = frames[u][d].last
    BY <1>5, <2>1, <2>2 DEF KeyAhead, Toward
  <2> DEFINE w == Toward(frames[u][d], k)
  <2>3. /\ w \in frames[u][d].at
        /\ w > frames[u][d].last \/ (d < n /\ w = frames[u][d].last)
    BY <1>5, <2>2 DEF KeyAhead
  <2>4. IsPrefix(Append(frames[u][d].path, w), k)
    BY <1>1, <2>1, WayTo
  <2> HIDE DEF w
  <2>5. ASSUME disk'[p].kind = "absent" PROVE ~IsPrefix(p, k)
    <3>1. CASE ~err /\ CanRemove(p)
      BY <1>3, <3>1
    <3>2. CASE ~(~err /\ CanRemove(p))
      BY <1>1, <2>5, <3>2 DEF FsInv, AboveOK
    <3> QED
      BY <3>1, <3>2
  <2>6. w \in frames'[u][d].at
    <3>1. ASSUME disk'[p].kind = "absent", p # Root, frames[u][d].path = Front(p)
          PROVE  w # Last(p)
      <4>1. Append(Front(p), Last(p)) = p
        BY <1>1, <3>1, ParentPath
      <4> QED
        BY <2>4, <2>5, <3>1, <4>1
    <3> QED
      BY <2>1, <2>3, <3>1
  <2>7. w > frames[u][d].last \/ (d < j /\ w = frames[u][d].last)
    <3> SUFFICES ASSUME d < n, w = frames[u][d].last PROVE d < j
      BY <2>3
    <3>1. CASE u # t
      BY <1>5, <3>1
    <3>2. CASE u = t
      <4>1. Append(frames[u][d].path, w) = frames[u][d + 1].path
        BY <1>5, <2>1, <3>2 DEF FsInv, ChainOK, Chain
      <4>2. d + 1 # n
        BY <1>2, <1>4, <1>5, <2>4, <3>2, <4>1
      <4> QED
        BY <1>5, <3>2, <4>2
    <3> QED
      BY <3>1, <3>2
  <2> QED
    BY <2>6, <2>7 DEF w
<1> QED
  BY <1>4, <1>5, <1>6

-----------------------------------------------------------------------------
(* The steps of a deletion.                                                *)

\* It goes down the tree or ends a directory.
LEMMA RemoveReadsOn ==
  ASSUME FsInv, CallsInv, NEW t \in Tasks, NEW err \in BOOLEAN,
         RemoveEnter(t, err) \/ RemoveRead(t, err),
         call' = [call EXCEPT ![t].fault = @ \/ err]
  PROVE  CallsInv'
<1> DEFINE c == [call[t] EXCEPT !.fault = @ \/ err]
           p == call[t].path
<1>1. call \in [Tasks -> CallRecords] /\ call[t] \in CallRecords
  BY DEF CallsInv, CallTypeOK
<1>2. call' = [call EXCEPT ![t] = c] /\ call'[t] = c
  BY <1>1
<1>3. /\ c \in CallRecords /\ c.op = call[t].op /\ c.path = p /\ c.val = call[t].val
      /\ c.pc = call[t].pc /\ c.h = call[t].h /\ c.ret = call[t].ret /\ c.done = call[t].done
      /\ c.fault = (call[t].fault \/ err) /\ c.gone = call[t].gone /\ c.res = call[t].res
  BY <1>1 DEF CallRecords
<1> HIDE DEF c
<1>4. call[t].op = "delete" /\ call[t].pc = "remove" /\ Removing(t)
  BY PcOfCall DEF RemoveEnter, RemoveRead
<1>5. /\ p \in Targets /\ call[t].h = {} /\ call[t].ret = "ok" /\ frames[t][1].path = p
      /\ ~call[t].fault =>
           \A k \in Under(p) \ call[t].gone, d \in 1 .. Len(frames[t]) : KeyAhead(frames[t], d, k)
  BY <1>4 DEF CallsInv, CallOK, DeleteOK
<1>6. UNCHANGED <<disk, files, dirs, heap>>
  BY DEF RemoveEnter, RemoveRead
<1>7. \A u \in Tasks \ {t} : frames'[u] = frames[u]
  BY DEF RemoveEnter, RemoveRead, SetTop, FsInv, FsTypeOK
<1>8. frames'[t] # <<>> /\ frames'[t][1].path = p
  <2>1. PICK n \in Nat : n = Len(frames[t])
    BY LenProperties DEF FsInv, FsTypeOK
  <2>2. /\ n \in Nat \ {0} /\ Len(frames'[t]) \in {n, n + 1}
        /\ \A d \in 1 .. n - 1 : frames'[t][d] = frames[t][d]
        /\ frames'[t][n].path = frames[t][n].path
    <3>1. CASE RemoveEnter(t, err)
      BY <2>1, <3>1, EnterStacks DEF FsInv
    <3>2. CASE RemoveRead(t, err)
      <4>1. /\ n \in Nat \ {0} /\ frames'[t][n].path = frames[t][n].path
            /\ \A d \in 1 .. n - 1 : frames'[t][d] = frames[t][d]
            /\ Len(frames'[t]) = n \/ \E m \in Names : Descends(t, n, m)
        BY <2>1, <3>2, ReadStacks DEF FsInv
      <4> QED
        BY <4>1 DEF Descends
    <3> QED
      BY <3>1, <3>2
  <2>3. n = 1 \/ 1 \in 1 .. n - 1
    BY <2>2
  <2>4. frames'[t][1].path = frames[t][1].path
    BY <2>2, <2>3
  <2>5. Len(frames'[t]) # 0
    BY <2>2
  <2> QED
    BY <1>5, <2>4, <2>5
<1>9. ASSUME ~c.fault, NEW k \in Under(p) \ c.gone
      PROVE  \A d \in 1 .. Len(frames'[t]) : KeyAhead(frames'[t], d, k)
  <2>1. ~err /\ ~call[t].fault /\ k \in Under(p) \ call[t].gone
    BY <1>3, <1>9
  <2>2. k \in KeyPaths /\ k \in Paths
    BY KeyIsPath DEF Under
  <2>3. disk[k].kind # "absent"
    BY <1>4, <2>1, NoCallType DEF CallsInv, GoneOK
  <2>4. \A d \in 1 .. Len(frames[t]) : KeyAhead(frames[t], d, k)
    BY <1>5, <2>1
  <2> QED
    BY <2>1, <2>2, <2>3, <2>4, EnterAhead, ReadAhead
<1>10. CallOK(t)'
  BY <1>2, <1>3, <1>4, <1>5, <1>8, <1>9 DEF CallOK, DeleteOK
<1>11. OwnOK'
  BY <1>1, <1>2, <1>3, <1>6, Owns DEF CallsInv
<1>12. call[t] # NoCall /\ c.op # "idle" /\ UNCHANGED dirs
  BY <1>3, <1>4, <1>6, NoCallType
<1>13. \A k \in KeyPaths : /\ disk'[k].kind # "dir"
                           /\ disk'[k].kind = "absent" => disk[k].kind = "absent"
  BY <1>6 DEF CallsInv, KeysOK
<1>14. \A u \in Tasks \ {t} : frames'[u] = frames[u] /\ \A a \in call[u].h : files'[a] = files[a]
  BY <1>6, <1>7
<1> QED
  BY <1>2, <1>3, <1>10, <1>11, <1>12, <1>13, <1>14, OneCall

\* What the removal of p changes in the record of a call.
LEMMA DroppedFields ==
  ASSUME NEW c \in CallRecords, NEW p
  PROVE  LET e == Dropped(c, p)
             hit == c # NoCall /\ p \in Under(c.path)
         IN  /\ e \in CallRecords /\ e.op = c.op /\ e.path = c.path /\ e.val = c.val
             /\ e.pc = c.pc /\ e.h = c.h /\ e.ret = c.ret /\ e.fault = c.fault /\ e.res = c.res
             /\ e.gone = c.gone \cup (IF hit THEN {p} ELSE {})
             /\ e.done = (c.done \/ (hit /\ c.op = "set" /\ c.h # {}))
             /\ (c = NoCall => e = NoCall)
<1>1. CASE c # NoCall /\ p \in Under(c.path)
  <2>1. p \in KeyPaths
    BY <1>1 DEF Under
  <2>2. Dropped(c, p) = [c EXCEPT !.gone = @ \cup {p}, !.done = @ \/ (c.op = "set" /\ c.h # {})]
    BY <1>1 DEF Dropped
  <2> DEFINE e == [c EXCEPT !.gone = @ \cup {p}, !.done = @ \/ (c.op = "set" /\ c.h # {})]
  <2>3. /\ e.op = c.op /\ e.path = c.path /\ e.val = c.val
        /\ e.pc = c.pc /\ e.h = c.h /\ e.ret = c.ret /\ e.fault = c.fault /\ e.res = c.res
        /\ e.gone = c.gone \cup {p}
        /\ e.done = (c.done \/ (c.op = "set" /\ c.h # {}))
    BY DEF CallRecords
  <2>4. e \in CallRecords
    <3>1. (c.done \/ (c.op = "set" /\ c.h # {})) \in BOOLEAN
      OBVIOUS
    <3>2. c.gone \cup {p} \in SUBSET KeyPaths
      BY <2>1 DEF CallRecords
    <3> HIDE DEF e
    <3>3. e = [c EXCEPT !.gone = c.gone \cup {p}, !.done = c.done \/ (c.op = "set" /\ c.h # {})]
      BY DEF e
    <3> QED
      BY <3>1, <3>2, <3>3 DEF CallRecords
  <2> HIDE DEF e
  <2>5. Dropped(c, p) = e
    BY <2>2 DEF e
  <2> QED
    BY <1>1, <2>3, <2>4, <2>5
<1>2. CASE ~(c # NoCall /\ p \in Under(c.path))
  <2>1. Dropped(c, p) = c
    BY <1>2 DEF Dropped
  <2>2. c.gone = c.gone \cup {} /\ c.done \in BOOLEAN
    BY DEF CallRecords
  <2>3. c.done = (c.done \/ FALSE)
    BY <2>2
  <2> QED
    BY <1>2, <2>1, <2>2, <2>3
<1> QED
  BY <1>1, <1>2

\* It removes something, or returns from an fs_remove that could not.
RemovesIt(t, err) ==
  /\ RemoveLast(t, err)
  /\ LET p == Top(t).path
         after == IF disk'[p] # disk[p] THEN [u \in Tasks |-> Dropped(call[u], p)] ELSE call
     IN  call' = [after EXCEPT ![t].fault = @ \/ err,
                               ![t].pc = IF frames'[t] = <<>> THEN "done" ELSE @]

\* What the end of an activation changes in the records of all calls.
LEMMA LastCalls ==
  ASSUME FsInv, CallsInv, NEW t \in Tasks, NEW err \in BOOLEAN, RemovesIt(t, err), NEW u \in Tasks
  PROVE  LET p == Top(t).path
             hit == ~err /\ CanRemove(p) /\ call[u] # NoCall /\ p \in Under(call[u].path)
         IN  /\ call' \in [Tasks -> CallRecords]
             /\ call'[u].op = call[u].op /\ call'[u].path = call[u].path
             /\ call'[u].val = call[u].val /\ call'[u].h = call[u].h
             /\ call'[u].ret = call[u].ret /\ call'[u].res = call[u].res
             /\ call'[u].pc = IF u = t /\ frames'[t] = <<>> THEN "done" ELSE call[u].pc
             /\ call'[u].fault = (call[u].fault \/ (u = t /\ err))
             /\ call'[u].gone = call[u].gone \cup (IF hit THEN {p} ELSE {})
             /\ call'[u].done = (call[u].done \/ (hit /\ call[u].op = "set" /\ call[u].h # {}))
             /\ (call[u] = NoCall => call'[u] = NoCall)
<1> DEFINE p == Top(t).path
           after == IF disk'[p] # disk[p] THEN [v \in Tasks |-> Dropped(call[v], p)] ELSE call
           hits(v) == ~err /\ CanRemove(p) /\ call[v] # NoCall /\ p \in Under(call[v].path)
           e(v) == after[v]
<1>1. call \in [Tasks -> CallRecords] /\ \A v \in Tasks : call[v] \in CallRecords
  BY DEF CallsInv, CallTypeOK
<1>2. p \in Paths /\ (disk'[p] # disk[p] <=> ~err /\ CanRemove(p))
  <2>1. p \in Paths
    BY LastOutcome DEF RemovesIt, FsInv
  <2>2. disk' = IF ~err /\ CanRemove(p) THEN [disk EXCEPT ![p] = Absent] ELSE disk
    BY DEF RemovesIt, RemoveLast
  <2> QED
    BY <2>1, <2>2 DEF CanRemove, Absent, FsInv, FsTypeOK
<1>3. ASSUME NEW v \in Tasks
      PROVE  /\ e(v) \in CallRecords /\ e(v).op = call[v].op /\ e(v).path = call[v].path
             /\ e(v).val = call[v].val /\ e(v).pc = call[v].pc /\ e(v).h = call[v].h
             /\ e(v).ret = call[v].ret /\ e(v).fault = call[v].fault /\ e(v).res = call[v].res
             /\ e(v).gone = call[v].gone \cup (IF hits(v) THEN {p} ELSE {})
             /\ e(v).done = (call[v].done \/ (hits(v) /\ call[v].op = "set" /\ call[v].h # {}))
             /\ (call[v] = NoCall => e(v) = NoCall)
  <2>1. CASE ~err /\ CanRemove(p)
    <3>1. e(v) = Dropped(call[v], p)
      BY <1>2, <2>1
    <3> HIDE DEF e
    <3> QED
      BY <1>1, <2>1, <3>1, DroppedFields
  <2>2. CASE ~(~err /\ CanRemove(p))
    <3>1. e(v) = call[v] /\ ~hits(v)
      BY <1>2, <2>2
    <3>2. call[v].gone = call[v].gone \cup {} /\ call[v].done = (call[v].done \/ FALSE)
      BY <1>1 DEF CallRecords
    <3> HIDE DEF e, hits
    <3> QED
      BY <1>1, <3>1, <3>2
  <2> QED
    BY <2>1, <2>2
<1>4. after \in [Tasks -> CallRecords]
  <2>1. after = [v \in Tasks |-> after[v]]
    BY <1>1
  <2>2. \A v \in Tasks : after[v] \in CallRecords
    BY <1>3
  <2> HIDE DEF after
  <2> QED
    BY <2>1, <2>2
<1>5. call' = [after EXCEPT ![t].fault = @ \/ err,
                            ![t].pc = IF frames'[t] = <<>> THEN "done" ELSE @]
  BY DEF RemovesIt
<1> HIDE DEF after
<1> DEFINE c == [after[t] EXCEPT !.fault = @ \/ err, !.pc = IF frames'[t] = <<>> THEN "done" ELSE @]
<1>6. call' = [after EXCEPT ![t] = c]
  BY <1>4, <1>5
<1>7. /\ c \in CallRecords /\ c.op = after[t].op /\ c.path = after[t].path
      /\ c.val = after[t].val /\ c.h = after[t].h /\ c.ret = after[t].ret
      /\ c.gone = after[t].gone /\ c.res = after[t].res /\ c.done = after[t].done
      /\ c.pc = (IF frames'[t] = <<>> THEN "done" ELSE after[t].pc)
      /\ c.fault = (after[t].fault \/ err)
  <2>1. after[t] \in CallRecords
    BY <1>4
  <2> QED
    BY <2>1 DEF CallRecords, Phases
<1> HIDE DEF c, hits
<1>8. call[t] # NoCall
  BY PcOfCall, NoCallType DEF RemovesIt, RemoveLast
<1>9. CASE u = t
  <2>1. call' \in [Tasks -> CallRecords] /\ call'[u] = c
    BY <1>4, <1>6, <1>7, <1>9
  <2> QED
    BY <1>3, <1>7, <1>8, <1>9, <2>1 DEF hits
<1>10. CASE u # t
  <2>1. call' \in [Tasks -> CallRecords] /\ call'[u] = after[u]
    BY <1>4, <1>6, <1>7, <1>10
  <2>2. call[u].fault = (call[u].fault \/ FALSE)
    BY <1>1 DEF CallRecords
  <2> QED
    BY <1>3, <1>10, <2>1, <2>2 DEF hits
<1> QED
  BY <1>9, <1>10

\* A file is cut off when its entry is removed, and is otherwise as it was.
LEMMA LastFiles ==
  ASSUME FsInv, NEW t \in Tasks, NEW err \in BOOLEAN, RemoveLast(t, err), NEW a \in Addrs
  PROVE  LET p == Top(t).path
         IN  /\ files'[a].open = files[a].open /\ files'[a].path = files[a].path
             /\ files'[a].dirty = files[a].dirty /\ files'[a].erred = files[a].erred
             /\ files'[a].mode = files[a].mode /\ files'[a].pos = files[a].pos
             /\ files'[a].data = files[a].data
             /\ files'[a].orphan =
                  (files[a].orphan \/ (~err /\ CanRemove(p) /\ files[a].open /\ files[a].path = p))
<1> DEFINE p == Top(t).path
<1>1. files[a] \in FileRecords
  BY DEF FsInv, FsTypeOK
<1>2. files'[a] = IF ~err /\ CanRemove(p) /\ files[a].open /\ files[a].path = p
                    THEN [files[a] EXCEPT !.orphan = TRUE] ELSE files[a]
  BY DEF RemoveLast
<1>3. files[a].orphan = (files[a].orphan \/ FALSE)
  BY <1>1 DEF FileRecords
<1> QED
  BY <1>1, <1>2, <1>3 DEF FileRecords

\* CallsInv is kept by the end of an activation of fs_remove.
LEMMA RemoveLastKeeps ==
  ASSUME FsInv, FsInv', CallsInv, NEW t \in Tasks, NEW err \in BOOLEAN, RemovesIt(t, err)
  PROVE  CallsInv'
<1> DEFINE p == Top(t).path
           ok == ~err /\ CanRemove(p)
           hit(u) == ok /\ call[u] # NoCall /\ p \in Under(call[u].path)
<1>1. RemoveLast(t, err) /\ UNCHANGED heap
  BY DEF RemovesIt, RemoveLast
<1>2. /\ p \in Paths
      /\ IF ok THEN /\ disk'[p].kind = "absent"
                    /\ \A q \in Paths \ {p} : disk'[q].kind = disk[q].kind
               ELSE UNCHANGED disk
  BY <1>1, LastOutcome DEF FsInv
<1>3. \A u \in Tasks :
        /\ call' \in [Tasks -> CallRecords]
        /\ call'[u].op = call[u].op /\ call'[u].path = call[u].path
        /\ call'[u].val = call[u].val /\ call'[u].h = call[u].h
        /\ call'[u].ret = call[u].ret /\ call'[u].res = call[u].res
        /\ call'[u].pc = IF u = t /\ frames'[t] = <<>> THEN "done" ELSE call[u].pc
        /\ call'[u].fault = (call[u].fault \/ (u = t /\ err))
        /\ call'[u].gone = call[u].gone \cup (IF hit(u) THEN {p} ELSE {})
        /\ call'[u].done = (call[u].done \/ (hit(u) /\ call[u].op = "set" /\ call[u].h # {}))
        /\ (call[u] = NoCall => call'[u] = NoCall)
  BY LastCalls
<1>4. \A a \in Addrs :
        /\ files'[a].open = files[a].open /\ files'[a].path = files[a].path
        /\ files'[a].dirty = files[a].dirty /\ files'[a].erred = files[a].erred
        /\ files'[a].mode = files[a].mode /\ files'[a].pos = files[a].pos
        /\ files'[a].data = files[a].data
        /\ files'[a].orphan = (files[a].orphan \/ (ok /\ files[a].open /\ files[a].path = p))
  BY <1>1, LastFiles
<1>5. call[t].op = "delete" /\ call[t].pc = "remove" /\ call[t] # NoCall
  BY <1>1, PcOfCall, NoCallType DEF RemoveLast
<1> HIDE DEF ok
<1>6. CallTypeOK' /\ \A u \in Tasks : call[u] # NoCall => call'[u] # NoCall
  <2>1. \A u \in Tasks : call[u].op = "idle" <=> call[u] = NoCall
    BY PcOfCall
  <2>2. \A u \in Tasks : call[u] # NoCall => call'[u] # NoCall
    BY <1>3, <2>1, NoCallType
  <2>3. t \in Tasks /\ call' \in [Tasks -> CallRecords]
    BY <1>3
  <2> QED
    BY <1>3, <2>1, <2>2, <2>3 DEF CallTypeOK
<1>7. \A u \in Tasks \ {t} : frames[u] = <<>> => frames'[u] = <<>>
  <2> SUFFICES ASSUME NEW u \in Tasks \ {t}, frames[u] = <<>> PROVE frames'[u] = <<>>
    OBVIOUS
  <2>1. Len(frames'[u]) = 0
    BY <1>1, LastStacks DEF FsInv
  <2>2. frames'[u] \in Seq(Frames)
    BY DEF FsInv, FsTypeOK
  <2> QED
    BY <2>1, <2>2, EmptySeq
\* A key nobody saw absent is still there, and ahead of every removal.
<1>8. ASSUME NEW u \in Tasks, call[u] # NoCall, NEW k \in Under(call[u].path) \ call'[u].gone
      PROVE  /\ k \in KeyPaths /\ disk[k].kind # "absent" /\ k \notin call[u].gone
             /\ ok => p # k
  <2>1. k \in KeyPaths /\ k \notin call[u].gone
    BY <1>3, <1>8 DEF Under
  <2>2. disk[k].kind # "absent"
    BY <1>8, <2>1 DEF CallsInv, GoneOK
  <2> QED
    BY <1>3, <1>8, <2>1, <2>2
<1>9. ASSUME NEW u \in Tasks, call[u].op = "delete", call[u].pc = "remove", ~call'[u].fault,
             NEW k \in Under(call[u].path) \ call'[u].gone
      PROVE  /\ \A d \in 1 .. Len(frames'[u]) : KeyAhead(frames'[u], d, k)
             /\ u = t => ~IsPrefix(p, k)
  <2>1. call[u] # NoCall /\ ~call[u].fault /\ (u = t => ~err)
    BY <1>3, <1>9, NoCallType
  <2>2. k \in KeyPaths /\ disk[k].kind # "absent" /\ k \notin call[u].gone /\ (ok => p # k)
    BY <1>8, <2>1
  <2>3. \A d \in 1 .. Len(frames[u]) : KeyAhead(frames[u], d, k)
    BY <1>9, <2>1, <2>2 DEF CallsInv, CallOK, DeleteOK
  <2>4. KeysOK
    BY DEF CallsInv
  <2> QED
    BY <1>1, <2>1, <2>2, <2>3, <2>4, LastAhead DEF ok
<1>10. ASSUME NEW u \in Tasks PROVE CallOK(u)'
  <2>1. call[u] \in CallRecords /\ CallOK(u) /\ call[u].op \in {"idle", "get", "set", "delete"}
    BY DEF CallsInv, CallTypeOK, CallRecords
  <2>2. CASE call[u].op = "idle"
    BY <1>3, <1>5, <1>7, <2>1, <2>2 DEF CallOK
  <2>3. CASE call[u].op = "get"
    <3>1. GetOK(u) /\ u # t /\ frames'[u] = <<>>
      BY <1>5, <1>7, <2>1, <2>3 DEF CallOK, GetOK
    <3>2. call'[u].pc = call[u].pc /\ ~call'[u].done /\ (call'[u].fault <=> call[u].fault)
      BY <1>3, <2>3, <3>1 DEF GetOK
    <3>3. call[u].gone # {} => call'[u].gone # {}
      BY <1>3
    <3>4. GetOK(u)'
      BY <1>3, <1>4, <3>1, <3>2, <3>3 DEF GetOK
    <3> QED
      BY <1>3, <2>3, <3>4 DEF CallOK
  <2>4. CASE call[u].op = "set"
    <3>1. SetOK(u) /\ u # t /\ frames'[u] = <<>> /\ call[u] # NoCall
      BY <1>5, <1>7, <2>1, <2>4, NoCallType DEF CallOK, SetOK
    <3>2. call'[u].pc = call[u].pc /\ (call'[u].fault <=> call[u].fault)
      BY <1>3, <3>1
    <3>3. Under(call[u].path) = {call[u].path}
      BY <3>1, UnderKey DEF SetOK
    <3>4. call'[u].done <=> call[u].done \/ (ok /\ call[u].path = p /\ call[u].h # {})
      BY <1>3, <2>4, <3>1, <3>3
    <3>5. ASSUME NEW a \in Addrs, Holds(u, a) PROVE Holds(u, a)'
      BY <1>3, <1>4, <3>4, <3>5 DEF Holds
    <3>6. SetOK(u)'
      <4>1. CASE call[u].pc \in {"hap", "space", "open"}
        BY <1>3, <3>1, <3>2, <3>4, <4>1 DEF SetOK
      <4>2. CASE call[u].pc = "write"
        BY <1>3, <1>4, <3>1, <3>2, <3>5, <4>2 DEF SetOK
      <4>3. CASE call[u].pc = "close"
        BY <1>3, <1>4, <3>1, <3>2, <3>5, <4>3 DEF SetOK
      <4>4. CASE call[u].pc = "done"
        BY <1>3, <3>1, <3>2, <3>4, <4>4 DEF SetOK
      <4> QED
        BY <3>1, <4>1, <4>2, <4>3, <4>4 DEF SetOK
    <3> QED
      BY <1>3, <2>4, <3>6 DEF CallOK
  <2>5. CASE call[u].op = "delete"
    <3>1. /\ DeleteOK(u) /\ call'[u].path \in Targets /\ call'[u].h = {} /\ call'[u].ret = "ok"
          /\ call'[u].path = call[u].path
      BY <1>3, <2>1, <2>5 DEF CallOK, DeleteOK
    <3>2. PICK n \in Nat, j \in Int :
            n = Len(frames[u]) /\ j = Len(frames'[u]) /\ j = IF u = t THEN n - 1 ELSE n
      BY <1>1, LastStacks DEF FsInv
    <3>3. frames[u] \in Seq(Frames) /\ frames'[u] \in Seq(Frames)
      BY DEF FsInv, FsTypeOK
    <3>4. CASE call[u].pc = "done"
      <4>1. u # t /\ frames'[u] = <<>> /\ call'[u].pc = "done"
        BY <1>3, <1>5, <1>7, <3>1, <3>4 DEF DeleteOK
      <4>2. call'[u].fault \/ Under(call'[u].path) \subseteq call'[u].gone
        BY <1>3, <3>1, <3>4 DEF DeleteOK
      <4> QED
        BY <1>3, <2>5, <3>1, <4>1, <4>2 DEF CallOK, DeleteOK
    <3>5. CASE call[u].pc = "remove" /\ frames'[u] # <<>>
      <4>1. frames[u] # <<>> /\ frames[u][1].path = call[u].path /\ call'[u].pc = "remove"
        BY <1>3, <3>1, <3>5 DEF DeleteOK
      <4>2. 1 \in 1 .. j
        <5>1. j # 0 /\ j \in Nat
          BY <3>2, <3>3, <3>5, EmptySeq, LenProperties
        <5> QED
          BY <5>1
      <4>3. frames'[u][1].path = frames[u][1].path
        BY <1>1, <3>2, <4>2, LastStacks DEF FsInv
      <4>4. ASSUME ~call'[u].fault, NEW k \in Under(call'[u].path) \ call'[u].gone
            PROVE  \A d \in 1 .. Len(frames'[u]) : KeyAhead(frames'[u], d, k)
        BY <1>9, <2>5, <3>1, <3>5, <4>4
      <4> QED
        BY <1>3, <2>5, <3>1, <3>5, <4>1, <4>3, <4>4 DEF CallOK, DeleteOK
    <3>6. CASE call[u].pc = "remove" /\ frames'[u] = <<>>
      <4>1. frames[u] # <<>> /\ frames[u][1].path = call[u].path
        BY <3>1, <3>6 DEF DeleteOK
      <4>2. n # 0 /\ j = 0
        BY <3>2, <3>3, <3>6, <4>1, EmptySeq
      <4>3. u = t /\ n = 1
        BY <3>2, <4>2
      <4>4. p = call[t].path
        BY <3>2, <4>1, <4>3, TopOfStack DEF FsInv, Removing
      <4>5. call'[t].pc = "done"
        BY <1>3, <3>6, <4>3
      <4>6. call'[t].fault \/ Under(call'[t].path) \subseteq call'[t].gone
        <5> SUFFICES ASSUME ~call'[t].fault, NEW k \in Under(call[t].path) \ call'[t].gone
                     PROVE  FALSE
          BY <3>1, <4>3
        <5>1. ~IsPrefix(p, k)
          BY <1>5, <1>9
        <5> QED
          BY <4>4, <5>1 DEF Under
      <4> QED
        BY <1>3, <2>5, <3>1, <3>6, <4>3, <4>5, <4>6 DEF CallOK, DeleteOK
    <3> QED
      BY <3>1, <3>4, <3>5, <3>6 DEF DeleteOK
  <2> QED
    BY <2>1, <2>2, <2>3, <2>4, <2>5
<1>11. GoneOK'
  <2> SUFFICES ASSUME NEW u \in Tasks, call'[u] # NoCall, NEW k \in Under(call'[u].path),
                      disk'[k].kind = "absent", k \notin call'[u].gone
               PROVE  FALSE
    BY DEF GoneOK
  <2>1. call[u] # NoCall /\ k \in Under(call[u].path) \ call'[u].gone
    BY <1>3
  <2>2. k \in KeyPaths /\ disk[k].kind # "absent" /\ (ok => p # k)
    BY <1>8, <2>1
  <2> QED
    BY <1>2, <2>2, KeyIsPath
<1>12. KeysOK'
  <2> SUFFICES ASSUME NEW k \in KeyPaths PROVE disk'[k].kind # "dir"
    BY DEF KeysOK
  <2>1. k \in Paths /\ disk[k].kind # "dir"
    BY KeyIsPath DEF CallsInv, KeysOK
  <2> QED
    BY <1>2, <2>1
<1>13. DirsClosed'
  <2>1. \A a \in Addrs : dirs[a] \in DirRecords /\ ~dirs[a].open
    BY DEF CallsInv, DirsClosed, FsInv, FsTypeOK
  <2>2. dirs' = dirs \/ dirs' = [a \in Addrs |-> Forget(dirs[a], p)]
    BY <1>1 DEF RemoveLast
  <2> QED
    BY <2>1, <2>2 DEF DirsClosed, Forget, DirRecords
<1>14. OwnOK'
  BY <1>1, <1>3 DEF CallsInv, OwnOK
<1> QED
  BY <1>6, <1>10, <1>11, <1>12, <1>13, <1>14 DEF CallsInv

-----------------------------------------------------------------------------
(* Whatever tasks call, fail or lose power.                                *)

\* CallsInv is kept by every step of a task.
LEMMA StepKeeps ==
  ASSUME FsInv, FsInv', CallsInv, NEW t \in Tasks, Step(t)
  PROVE  CallsInv'
<1>1. ASSUME RemoveEntries(t) PROVE CallsInv'
  <2>1. PICK err \in BOOLEAN :
          \/ /\ RemoveEnter(t, err) \/ RemoveRead(t, err)
             /\ call' = [call EXCEPT ![t].fault = @ \/ err]
          \/ RemovesIt(t, err)
    BY <1>1 DEF RemoveEntries, RemovesIt
  <2> QED
    BY <2>1, RemoveReadsOn, RemoveLastKeeps
<1> QED
  BY <1>1, MakeDirsKeeps, OpenKeeps, ReadKeeps, WriteKeeps, CloseKeeps, ReturnKeeps DEF Step

\* CallsInv is inductive, given the file system invariants.
LEMMA CallsInvStep == FsInv /\ FsInv' /\ CallsInv /\ [Next]_vars => CallsInv'
<1>1. ASSUME CallsInv, UNCHANGED vars PROVE CallsInv'
  <2>1. UNCHANGED <<disk, files, dirs, heap, frames, call>>
    BY <1>1 DEF vars, fsVars
  <2>2. \A t \in Tasks : CallOK(t)'
    BY <1>1, <2>1, Undisturbed
  <2>3. CallTypeOK' /\ GoneOK' /\ KeysOK' /\ DirsClosed' /\ OwnOK'
    BY <1>1, <2>1 DEF CallsInv, CallTypeOK, GoneOK, KeysOK, DirsClosed, OwnOK
  <2> QED
    BY <2>2, <2>3 DEF CallsInv
<1> QED
  BY <1>1, CallKeeps, StepKeeps, RestartKeeps DEF Next

\* The invariants hold at the start.
LEMMA InitCalls == Init => FsInv /\ CallsInv
<1> SUFFICES ASSUME Init PROVE FsInv /\ CallsInv
  OBVIOUS
<1>1. FsInv
  <2>1. FsInit
    BY DEF Init
  <2>2. HeapOK /\ ChainOK
    BY <2>1 DEF FsInit, HeapOK, ClosedFile, ClosedDir, ChainOK, Chain
  <2> QED
    BY <2>1, <2>2, FsTypeInit, TreeInit, AboveInit DEF FsInv
<1>2. /\ dirs = [h \in Addrs |-> ClosedDir] /\ heap = {} /\ disk = Formatted
      /\ frames = [t \in Tasks |-> <<>>] /\ call = [t \in Tasks |-> NoCall]
  BY DEF Init, FsInit
<1>3. CallTypeOK
  BY <1>2, NoCallType DEF CallTypeOK
<1>4. \A t \in Tasks : CallOK(t)
  BY <1>2, NoCallType DEF CallOK
<1>5. GoneOK /\ OwnOK /\ DirsClosed
  BY <1>2, NoCallType DEF GoneOK, OwnOK, DirsClosed, ClosedDir
<1>6. KeysOK
  BY <1>2, KeyIsPath DEF KeysOK, Formatted, Absent
<1> QED
  BY <1>1, <1>3, <1>4, <1>5, <1>6 DEF CallsInv

\* The invariants hold always.
LEMMA CallsAreRight == Spec => [](FsInv /\ CallsInv)
<1>1. FsInv /\ CallsInv /\ [Next]_vars => FsInv' /\ CallsInv'
  BY StepIsFs, FsInvStep, CallsInvStep
<1> QED
  BY <1>1, InitCalls, PTL DEF Spec

\* The key store is a user of the file system, so that what FileSystemProofs
\* shows of the tree holds below it.
THEOREM UsesFileSystem == Spec => FsSpec
<1>1. Init => FsInit
  BY DEF Init
<1> QED
  BY <1>1, StepIsFs, CallsAreRight, PTL DEF Spec, FsSpec

\* Whatever the key store does, and whatever fails, everything on the disk is
\* in a directory (lfs_mkdir, lfs_remove and the commits at lfs_file_close).
THEOREM TreeStaysWholeBelow == Spec => []TreeOK
BY UsesFileSystem, TreeStaysWhole, PTL

\* An fs_remove called by the key store that met no error, and beside which
\* nobody created anything below its path, leaves nothing there.
THEOREM RemovalsAreComplete == Spec => []RemoveComplete
BY UsesFileSystem, RemovalIsComplete, PTL

\* The open files and the allocated blocks are those of the calls in progress.
THEOREM FilesAreOfCalls == Spec => []FilesOfCalls
<1>1. FsInv /\ CallsInv => FilesOfCalls
  BY DEF FsInv, HeapOK, CallsInv, OwnOK, DirsClosed, FilesOfCalls
<1> QED
  BY <1>1, CallsAreRight, PTL

-----------------------------------------------------------------------------
(* Seen from their callers, the calls are those of KeyValue.               *)

\* What KeyValue sees of a call.
View(c) ==
  [op |-> c.op, keys |-> IF c = NoCall THEN {} ELSE Under(c.path), val |-> c.val,
   done |-> c.done, fault |-> c.fault, gone |-> c.gone, res |-> c.res]

Reqs ==
  [op : {"idle", "get", "set", "delete"}, keys : SUBSET KeyPaths, val : Seq(Bytes),
   done : BOOLEAN, fault : BOOLEAN, gone : SUBSET KeyPaths, res : SUBSET Contents]

\* What KeyValue sees of a call is one of its requests.
LEMMA ViewType ==
  ASSUME NEW c \in CallRecords
  PROVE  /\ View(c) \in Reqs /\ View(c).op = c.op /\ View(c).val = c.val
         /\ View(c).keys = IF c = NoCall THEN {} ELSE Under(c.path)
         /\ View(c).done = c.done /\ View(c).fault = c.fault /\ View(c).gone = c.gone
         /\ View(c).res = c.res
<1>1. (IF c = NoCall THEN {} ELSE Under(c.path)) \in SUBSET KeyPaths
  BY DEF Under
<1> QED
  BY <1>1 DEF View, Reqs, CallRecords

\* Requests with the same fields are the same.
LEMMA SameReq ==
  ASSUME NEW r \in Reqs, NEW s \in Reqs, r.op = s.op, r.keys = s.keys, r.val = s.val,
         r.done = s.done, r.fault = s.fault, r.gone = s.gone, r.res = s.res
  PROVE  r = s
BY DEF Reqs

\* The requests of the refinement are the views of the calls.
LEMMA ReqIsView == req = [t \in Tasks |-> View(call[t])]
BY DEF req, View

\* An idle task has no request.
LEMMA IdleView == View(NoCall) = Abstract!Idle /\ Abstract!Idle \in Reqs
<1>1. View(NoCall) = Abstract!Idle
  BY DEF View, NoCall, Abstract!Idle, Abstract!None
<1> QED
  BY <1>1, NoCallType, ViewType

\* A step of one call.
LEMMA ViewStep ==
  ASSUME CallsInv, NEW t \in Tasks, NEW c, call' = [call EXCEPT ![t] = c]
  PROVE  /\ req' = [req EXCEPT ![t] = View(c)]
         /\ req[t] = View(call[t])
<1>1. call \in [Tasks -> CallRecords]
  BY DEF CallsInv, CallTypeOK
<1>2. \A u \in Tasks : call'[u] = IF u = t THEN c ELSE call[u]
  BY <1>1
<1>3. req' = [u \in Tasks |-> View(call'[u])]
  BY DEF req, View
<1>4. req = [u \in Tasks |-> View(call[u])]
  BY ReqIsView
<1>5. [u \in Tasks |-> View(call'[u])] = [u \in Tasks |-> IF u = t THEN View(c) ELSE View(call[u])]
  BY <1>2
<1> HIDE <1>2
<1> QED
  BY <1>3, <1>4, <1>5

\* The store of the refinement holds the texts of the key files.
LEMMA StoreValue ==
  /\ \A k \in KeyPaths : store[k] = IF disk[k].kind = "absent" THEN {} ELSE {disk[k].data}
  /\ store = [k \in KeyPaths |-> store[k]]
BY DEF store

\* The store changes only with the files of keys.
LEMMA StoreStays ==
  ASSUME \A k \in KeyPaths : disk'[k] = disk[k]
  PROVE  store' = store
BY DEF store

\* One key changes.
LEMMA StoreChange ==
  ASSUME NEW p \in KeyPaths, NEW v, \A k \in KeyPaths \ {p} : disk'[k] = disk[k],
         v = IF disk'[p].kind = "absent" THEN {} ELSE {disk'[p].data}
  PROVE  store' = [store EXCEPT ![p] = v]
<1>1. store' = [k \in KeyPaths |-> IF disk'[k].kind = "absent" THEN {} ELSE {disk'[k].data}]
  BY DEF store
<1>2. store = [k \in KeyPaths |-> IF disk[k].kind = "absent" THEN {} ELSE {disk[k].data}]
  BY DEF store
<1> QED
  BY <1>1, <1>2

\* The beginning of a call implements Invoke.
LEMMA BeginRefines ==
  ASSUME CallsInv, NEW t \in Tasks, NEW op \in {"get", "set", "delete"}, NEW p \in Paths,
         NEW val \in Seq(Bytes), NEW pc \in Phases, Begin(t, op, p, val, pc), UNCHANGED disk
  PROVE  Abstract!Invoke(t, op, Under(p), val)
<1> DEFINE gone == {k \in Under(p) : disk[k].kind = "absent"}
           c == [NoCall EXCEPT !.op = op, !.path = p, !.val = val, !.pc = pc, !.gone = gone]
<1>1. call[t] = NoCall /\ call' = [call EXCEPT ![t] = c] /\ ans' = [ans EXCEPT ![t] = "none"]
  BY DEF Begin
<1>2. gone = Abstract!Missing(Under(p))
  BY DEF store, Under, Abstract!Missing, Abstract!None
<1> HIDE DEF gone
<1>3. /\ c.op = op /\ c.path = p /\ c.val = val /\ c.done = FALSE /\ c.fault = FALSE
      /\ c.gone = gone /\ c.res = {} /\ c \in CallRecords
  <2>1. gone \in SUBSET KeyPaths
    BY DEF gone, Under
  <2> QED
    BY <2>1, NoCallType DEF NoCall, CallRecords
<1> HIDE DEF c
<1>4. c # NoCall
  BY <1>3, NoCallType
<1>5. View(c) = [Abstract!Idle EXCEPT !.op = op, !.keys = Under(p), !.val = val,
                                      !.gone = Abstract!Missing(Under(p))]
  <2> DEFINE r == [Abstract!Idle EXCEPT !.op = op, !.keys = Under(p), !.val = val, !.gone = gone]
  <2>1. /\ Abstract!Idle.done = FALSE /\ Abstract!Idle.fault = FALSE /\ Abstract!Idle.res = {}
        /\ Abstract!Idle \in Reqs
    BY IdleView DEF Abstract!Idle, Abstract!None
  <2>2. Under(p) \in SUBSET KeyPaths /\ gone \in SUBSET KeyPaths
    BY DEF Under, gone
  <2>3. /\ r \in Reqs /\ r.op = op /\ r.keys = Under(p) /\ r.val = val /\ r.done = FALSE
        /\ r.fault = FALSE /\ r.gone = gone /\ r.res = {}
    BY <2>1, <2>2 DEF Reqs
  <2> HIDE DEF r
  <2>4. /\ View(c) \in Reqs /\ View(c).op = op /\ View(c).keys = Under(p) /\ View(c).val = val
        /\ View(c).done = FALSE /\ View(c).fault = FALSE /\ View(c).gone = gone
        /\ View(c).res = {}
    BY <1>3, <1>4, ViewType
  <2>5. View(c) = r
    BY <2>3, <2>4, SameReq
  <2> QED
    BY <1>2, <2>5 DEF r
<1>6. req' = [req EXCEPT ![t] = View(c)] /\ req[t] = Abstract!Idle
  BY <1>1, ViewStep, IdleView
<1>7. store' = store
  BY StoreStays
<1> QED
  BY <1>1, <1>5, <1>6, <1>7 DEF Abstract!Invoke

\* Call implements Invoke, for each of the functions.
LEMMA CallRefines ==
  ASSUME CallsInv, NEW t \in Tasks, Call(t)
  PROVE  Abstract!Next
<1>0. /\ {"open", "hap", "remove"} \subseteq Phases
      /\ <<>> \in Seq(Bytes) /\ \A v \in Bytes : <<v>> \in Seq(Bytes)
  BY DEF Phases
<1>1. ASSUME NEW k \in KeyPaths, hap_keystore_get(t, k) PROVE Abstract!Next
  <2>1. Abstract!Invoke(t, "get", Under(k), <<>>)
    BY <1>0, <1>1, BeginRefines, KeyIsPath DEF hap_keystore_get, fsVars
  <2>2. <<>> \in Abstract!Contents
    BY DEF Abstract!Contents
  <2> QED
    BY <2>1, <2>2, UnderKey DEF Abstract!Next
<1>2. ASSUME NEW k \in KeyPaths, NEW v \in Bytes, hap_keystore_set(t, k, v) PROVE Abstract!Next
  <2>1. Abstract!Invoke(t, "set", Under(k), <<v>>)
    BY <1>0, <1>2, BeginRefines, KeyIsPath DEF hap_keystore_set, fsVars
  <2>2. <<v>> \in Abstract!Contents
    BY DEF Abstract!Contents
  <2> QED
    BY <2>1, <2>2, UnderKey DEF Abstract!Next
<1>3. ASSUME NEW p \in Targets, Delete(t, p) PROVE Abstract!Next
  <2>1. Abstract!Invoke(t, "delete", Under(p), <<>>)
    BY <1>0, <1>3, BeginRefines, TargetIsPath DEF Delete
  <2>2. Under(p) \in SUBSET KeyPaths
    BY DEF Under
  <2> QED
    BY <2>1, <2>2 DEF Abstract!Next
<1> QED
  BY <1>1, <1>2, <1>3 DEF Call, hap_keystore_delete, hap_keystore_delete_namespace,
                          hap_keystore_erase_all_data, Targets

\* The requests after a step of task t.
LEMMA ReqStep ==
  ASSUME CallsInv, CallsInv', NEW t \in Tasks, \A u \in Tasks \ {t} : call'[u] = call[u]
  PROVE  /\ req' = [req EXCEPT ![t] = View(call'[t])] /\ req[t] = View(call[t])
         /\ call'[t] \in CallRecords /\ call[t] \in CallRecords /\ req[t] \in Reqs
<1>1. call \in [Tasks -> CallRecords] /\ call' \in [Tasks -> CallRecords]
  BY DEF CallsInv, CallTypeOK
<1>2. call' = [call EXCEPT ![t] = call'[t]]
  BY <1>1
<1> QED
  BY <1>1, <1>2, ViewStep, ViewType

\* A step that KeyValue sees nothing of, unless it fails.
LEMMA FaultRefines ==
  ASSUME CallsInv, CallsInv', NEW t \in Tasks, NEW err \in BOOLEAN, call[t].op # "idle",
         \A u \in Tasks \ {t} : call'[u] = call[u],
         call'[t].op = call[t].op, call'[t].path = call[t].path, call'[t].val = call[t].val,
         call'[t].done = call[t].done, call'[t].gone = call[t].gone, call'[t].res = call[t].res,
         call'[t].fault = (call[t].fault \/ err),
         \A k \in KeyPaths : disk'[k] = disk[k], ans' = ans
  PROVE  Abstract!Next \/ UNCHANGED Abstract!vars
<1> DEFINE v == View(call'[t])
<1>1. /\ req' = [req EXCEPT ![t] = v] /\ req[t] = View(call[t])
      /\ call'[t] \in CallRecords /\ call[t] \in CallRecords
  BY ReqStep
<1>2. store' = store
  BY StoreStays
<1>3. call[t] # NoCall /\ call'[t] # NoCall
  BY NoCallType
<1>4. /\ v \in Reqs /\ v.op = req[t].op /\ v.keys = req[t].keys /\ v.val = req[t].val
      /\ v.done = req[t].done /\ v.gone = req[t].gone /\ v.res = req[t].res
      /\ v.fault = (call[t].fault \/ err) /\ req[t].fault = call[t].fault
      /\ req[t] \in Reqs /\ req[t].op # "idle" /\ call[t].fault \in BOOLEAN
  BY <1>1, <1>3, ViewType DEF CallRecords
<1> HIDE DEF v
<1>5. CASE call[t].fault \/ ~err
  <2>1. v.fault = req[t].fault
    BY <1>4, <1>5
  <2>2. v = req[t]
    BY <1>4, <2>1, SameReq
  <2>3. req' = req
    BY <1>1, <2>2 DEF req
  <2> QED
    BY <1>2, <2>3 DEF Abstract!vars
<1>6. CASE ~(call[t].fault \/ ~err)
  <2> DEFINE r == [req[t] EXCEPT !.fault = TRUE]
  <2>1. /\ r \in Reqs /\ r.op = req[t].op /\ r.keys = req[t].keys /\ r.val = req[t].val
        /\ r.done = req[t].done /\ r.gone = req[t].gone /\ r.res = req[t].res /\ r.fault = TRUE
    BY <1>4 DEF Reqs
  <2> HIDE DEF r
  <2>2. v.fault = TRUE
    BY <1>4, <1>6
  <2>3. v = r
    BY <1>4, <2>1, <2>2, SameReq, ZenonT(40)
  <2>4. req' = [req EXCEPT ![t].fault = TRUE]
    BY <1>1, <2>3 DEF r
  <2>5. Abstract!Fault(t)
    BY <1>2, <1>4, <2>4 DEF Abstract!Fault
  <2> QED
    BY <2>5 DEF Abstract!Next
<1> QED
  BY <1>5, <1>6

\* Steps that KeyValue sees nothing of, but for a fault or the answer of a get.
LEMMA QuietRefines ==
  ASSUME CallsInv, CallsInv', NEW t \in Tasks, FsInv, Read(t) \/ Write(t) \/ MakeDirs(t)
  PROVE  Abstract!Next \/ UNCHANGED Abstract!vars
<1>1. call \in [Tasks -> CallRecords]
  BY DEF CallsInv, CallTypeOK
<1>2. PICK pc \in Phases, err \in BOOLEAN :
        call' = [call EXCEPT ![t].pc = pc, ![t].fault = @ \/ err]
  <2>1. {"space", "open", "close"} \subseteq Phases
    BY DEF Phases
  <2> QED
    BY <2>1 DEF Read, Write, MakeDirs, Next_pc
<1>3. call[t].op # "idle"
  BY PcOfCall, NoCallType DEF Read, Write, MakeDirs, At
<1>4. \A k \in KeyPaths : disk'[k] = disk[k]
  BY MakeDirsKeeps DEF Read, Write
<1>5. ans' = ans
  BY DEF Read, Write, MakeDirs
<1>6. /\ call'[t].op = call[t].op /\ call'[t].path = call[t].path /\ call'[t].val = call[t].val
      /\ call'[t].done = call[t].done /\ call'[t].gone = call[t].gone
      /\ call'[t].res = call[t].res /\ call'[t].fault = (call[t].fault \/ err)
      /\ \A u \in Tasks \ {t} : call'[u] = call[u]
  BY <1>1, <1>2 DEF CallRecords
<1> QED
  BY <1>3, <1>4, <1>5, <1>6, FaultRefines

\* Open implements Look, Blank or Fault, or nothing.
LEMMA OpenRefines ==
  ASSUME FsInv, CallsInv, CallsInv', NEW t \in Tasks, Open(t)
  PROVE  Abstract!Next \/ UNCHANGED Abstract!vars
<1> DEFINE p == call[t].path
<1>1. /\ call[t].pc = "open" /\ p \in KeyPaths /\ call[t].op \in {"get", "set"}
      /\ ans' = ans /\ \A k \in KeyPaths \ {p} : disk'[k] = disk[k]
      /\ \/ disk' = disk
         \/ call[t].op = "set" /\ disk[p].kind = "absent" /\ disk'[p] = File(<<>>)
  BY OpenOutcome
<1>2. PICK h \in Addrs \ heap, err \in BOOLEAN : Opened(t, h) \/ NotOpened(t, err)
  BY OpenOutcome
<1>3. call \in [Tasks -> CallRecords]
  BY DEF CallsInv, CallTypeOK
<1>4. ~call[t].fault /\ (call[t].op = "set" => call[t].res = {})
  BY <1>1 DEF CallsInv, CallOK, GetOK, SetOK
<1>5. CASE call[t].op = "set"
  <2>1. /\ call'[t].op = call[t].op /\ call'[t].path = p /\ call'[t].val = call[t].val
        /\ call'[t].done = call[t].done /\ call'[t].gone = call[t].gone
        /\ call'[t].res = call[t].res /\ call'[t].fault = (call[t].fault \/ FALSE)
        /\ \A u \in Tasks \ {t} : call'[u] = call[u]
    <3>1. CASE Opened(t, h)
      BY <1>3, <1>4, <1>5, <3>1 DEF Opened, CallRecords
    <3>2. CASE NotOpened(t, err)
      BY <1>3, <1>4, <1>5, <3>2 DEF NotOpened, CallRecords
    <3> QED
      BY <1>2, <3>1, <3>2
  <2>2. CASE disk' = disk
    BY <1>1, <1>5, <2>1, <2>2, FaultRefines
  <2>3. CASE disk[p].kind = "absent" /\ disk'[p] = File(<<>>)
    <3>1. store' = [store EXCEPT ![p] = {<<>>}]
      <4>1. {<<>>} = IF disk'[p].kind = "absent" THEN {} ELSE {disk'[p].data}
        BY <2>3 DEF File
      <4> QED
        BY <1>1, <4>1, StoreChange
    <3>2. /\ req' = [req EXCEPT ![t] = View(call'[t])] /\ req[t] = View(call[t])
          /\ call'[t] \in CallRecords /\ call[t] \in CallRecords
      BY <2>1, ReqStep
    <3>3. call[t] # NoCall /\ call'[t] # NoCall
      BY <1>5, <2>1, NoCallType
    <3>4. View(call'[t]).fault = req[t].fault
      BY <1>4, <2>1, <3>2, ViewType DEF CallRecords
    <3>5. View(call'[t]) = req[t]
      BY <2>1, <3>2, <3>3, <3>4, ViewType, SameReq
    <3>6. req' = req
      BY <3>2, <3>5 DEF req
    <3>7. req[t].op = "set" /\ req[t].keys = {p}
      BY <1>1, <1>5, <3>2, <3>3, ViewType, UnderKey
    <3>8. p \in Abstract!Missing(req[t].keys)
      BY <1>1, <2>3, <3>7 DEF Abstract!Missing, Abstract!None, store
    <3>9. Abstract!Blank(t)
      BY <1>1, <3>1, <3>6, <3>7, <3>8 DEF Abstract!Blank
    <3> QED
      BY <3>9 DEF Abstract!Next
  <2> QED
    BY <1>1, <2>2, <2>3
<1>6. CASE call[t].op = "get"
  <2>1. disk' = disk
    BY <1>1, <1>6
  <2>2. CASE NotOpened(t, err)
    <3>1. /\ call'[t].op = call[t].op /\ call'[t].path = p /\ call'[t].val = call[t].val
          /\ call'[t].done = call[t].done /\ call'[t].gone = call[t].gone
          /\ call'[t].res = call[t].res /\ call'[t].fault = (call[t].fault \/ err)
          /\ \A u \in Tasks \ {t} : call'[u] = call[u]
      BY <1>3, <1>4, <1>6, <2>2 DEF NotOpened, CallRecords
    <3> QED
      BY <1>1, <1>6, <2>1, <3>1, FaultRefines
  <2>3. CASE Opened(t, h)
    <3>1. /\ call'[t].op = call[t].op /\ call'[t].path = p /\ call'[t].val = call[t].val
          /\ call'[t].done = call[t].done /\ call'[t].gone = call[t].gone
          /\ call'[t].res = {files'[h].data} /\ call'[t].fault = call[t].fault
          /\ \A u \in Tasks \ {t} : call'[u] = call[u]
      BY <1>3, <1>6, <2>3 DEF Opened, CallRecords
    <3>2. files'[h].data = disk[p].data /\ disk[p].kind = "file"
      BY <1>6, <2>1, <2>3 DEF Opened
    <3>3. store[p] = {disk[p].data} /\ p \notin Abstract!Missing(KeyPaths) /\ store' = store
      BY <1>1, <2>1, <3>2, StoreStays DEF Abstract!Missing, Abstract!None, store
    <3>4. /\ req' = [req EXCEPT ![t] = View(call'[t])] /\ req[t] = View(call[t])
          /\ call'[t] \in CallRecords /\ call[t] \in CallRecords /\ req[t] \in Reqs
      BY <3>1, ReqStep
    <3>5. call[t] # NoCall /\ call'[t] # NoCall
      BY <1>6, <3>1, NoCallType
    <3> DEFINE r == [req[t] EXCEPT !.res = store[p]]
    <3>6. {disk[p].data} \in SUBSET Contents
      BY <3>1, <3>2, <3>4 DEF CallRecords
    <3>7. /\ r \in Reqs /\ r.op = req[t].op /\ r.keys = req[t].keys /\ r.val = req[t].val
          /\ r.done = req[t].done /\ r.gone = req[t].gone /\ r.res = {disk[p].data}
          /\ r.fault = req[t].fault
      BY <3>3, <3>4, <3>6 DEF Reqs
    <3> HIDE DEF r
    <3>8. View(call'[t]) = r
      <4> DEFINE v == View(call'[t])
      <4>1. /\ v \in Reqs /\ v.op = req[t].op /\ v.keys = req[t].keys /\ v.val = req[t].val
            /\ v.gone = req[t].gone /\ v.done = req[t].done /\ v.fault = req[t].fault
        BY <3>1, <3>4, <3>5, ViewType
      <4>2. v.res = {disk[p].data}
        BY <3>1, <3>2, <3>4, ViewType
      <4> HIDE DEF v
      <4>3. v = r
        BY <3>7, <4>1, <4>2, SameReq
      <4> QED
        BY <4>3 DEF v
    <3>9. req' = [req EXCEPT ![t].res = store[p]]
      BY <3>4, <3>8 DEF r
    <3>10. req[t].op = "get" /\ req[t].keys = {p}
      BY <1>1, <1>6, <3>4, <3>5, ViewType, UnderKey
    <3>11. Abstract!Look(t)
      BY <1>1, <3>3, <3>9, <3>10 DEF Abstract!Look
    <3> QED
      BY <3>11 DEF Abstract!Next
  <2> QED
    BY <1>2, <2>2, <2>3
<1> QED
  BY <1>1, <1>5, <1>6

\* Close implements Put or Fault, or nothing.
LEMMA CloseRefines ==
  ASSUME FsInv, CallsInv, CallsInv', NEW t \in Tasks, Close(t)
  PROVE  Abstract!Next \/ UNCHANGED Abstract!vars
<1> DEFINE p == call[t].path
<1>1. PICK h \in Addrs, err \in BOOLEAN : Closed(t, h, err)
  BY CloseOutcome
<1>2. call \in [Tasks -> CallRecords]
  BY DEF CallsInv, CallTypeOK
<1>3. /\ p \in KeyPaths /\ call[t].op \in {"get", "set"} /\ ans' = ans
      /\ Commits(h) => call[t].op = "set" /\ files[h].path = p /\ files[h].data = call[t].val
                       /\ ~call[t].done
      /\ disk' = IF Commits(h) /\ ~err
                   THEN [disk EXCEPT ![files[h].path] = File(files[h].data)] ELSE disk
      /\ call'[t].op = call[t].op /\ call'[t].path = p /\ call'[t].val = call[t].val
      /\ call'[t].done = (call[t].done \/ (~err /\ Commits(h)))
      /\ call'[t].gone = call[t].gone /\ call'[t].res = call[t].res
      /\ call'[t].fault = (call[t].fault \/ (err /\ Commits(h)))
      /\ \A u \in Tasks \ {t} : call'[u] = call[u]
  BY <1>1, <1>2 DEF Closed, fs_close, CallRecords
<1>4. CASE ~(Commits(h) /\ ~err)
  <2>1. (err /\ Commits(h)) \in BOOLEAN
    OBVIOUS
  <2>2. call'[t].done = call[t].done
    BY <1>2, <1>3, <1>4 DEF CallRecords
  <2> QED
    BY <1>3, <1>4, <2>1, <2>2, FaultRefines
<1>5. CASE Commits(h) /\ ~err
  <2>1. /\ call[t].op = "set" /\ ~call[t].done /\ disk' = [disk EXCEPT ![p] = File(call[t].val)]
        /\ call'[t].done = TRUE
    BY <1>3, <1>5
  <2>2. p \in Paths /\ disk \in [Paths -> Nodes]
    BY <1>3, KeyIsPath DEF FsInv, FsTypeOK
  <2>3. /\ \A k \in KeyPaths \ {p} : disk'[k] = disk[k]
        /\ {call[t].val} = IF disk'[p].kind = "absent" THEN {} ELSE {disk'[p].data}
    BY <2>1, <2>2, KeyIsPath DEF File
  <2>4. store' = [store EXCEPT ![p] = {call[t].val}]
    BY <1>3, <2>3, StoreChange
  <2>5. /\ req' = [req EXCEPT ![t] = View(call'[t])] /\ req[t] = View(call[t])
        /\ call'[t] \in CallRecords /\ call[t] \in CallRecords /\ req[t] \in Reqs
    BY <1>3, ReqStep
  <2>6. call[t] # NoCall /\ call'[t] # NoCall
    BY <1>3, <2>1, NoCallType
  <2>7. call'[t].fault = call[t].fault
    BY <1>3, <1>5, <2>5 DEF CallRecords
  <2> DEFINE r == [req[t] EXCEPT !.done = TRUE]
  <2>8. /\ r \in Reqs /\ r.op = req[t].op /\ r.keys = req[t].keys /\ r.val = req[t].val
        /\ r.done = TRUE /\ r.gone = req[t].gone /\ r.res = req[t].res
        /\ r.fault = req[t].fault
    BY <2>5 DEF Reqs
  <2> HIDE DEF r
  <2>9. View(call'[t]) = r
    <3> DEFINE v == View(call'[t])
    <3>1. /\ v \in Reqs /\ v.op = req[t].op /\ v.keys = req[t].keys /\ v.val = req[t].val
          /\ v.gone = req[t].gone /\ v.res = req[t].res /\ v.fault = req[t].fault
      BY <1>3, <2>5, <2>6, <2>7, ViewType
    <3>2. v.done = TRUE
      BY <2>1, <2>5, ViewType
    <3> HIDE DEF v
    <3>3. v = r
      BY <2>8, <3>1, <3>2, SameReq
    <3> QED
      BY <3>3 DEF v
  <2>10. req' = [req EXCEPT ![t].done = TRUE]
    BY <2>5, <2>9 DEF r
  <2>11. /\ req[t].op = "set" /\ req[t].keys = {p} /\ req[t].val = call[t].val
         /\ req[t].done = call[t].done
    BY <1>3, <2>1, <2>5, <2>6, ViewType, UnderKey
  <2>12. Abstract!Put(t)
    BY <1>3, <2>1, <2>4, <2>10, <2>11 DEF Abstract!Put
  <2> QED
    BY <2>12 DEF Abstract!Next
<1> QED
  BY <1>4, <1>5

\* Return implements Reply.
LEMMA ReturnRefines ==
  ASSUME CallsInv, CallsInv', NEW t \in Tasks, Return(t)
  PROVE  Abstract!Next
<1>1. /\ call[t].pc = "done" /\ ans' = [ans EXCEPT ![t] = call[t].ret]
      /\ call' = [call EXCEPT ![t] = NoCall] /\ disk' = disk
  BY DEF Return
<1>2. call[t].op \in {"get", "set", "delete"} /\ call[t] # NoCall /\ call[t] \in CallRecords
  BY <1>1, PcOfCall, NoCallType DEF CallRecords
<1>3. req' = [req EXCEPT ![t] = Abstract!Idle] /\ req[t] = View(call[t])
  BY <1>1, ViewStep, IdleView
<1>4. /\ req[t].op = call[t].op /\ req[t].keys = Under(call[t].path)
      /\ req[t].done = call[t].done /\ req[t].fault = call[t].fault
      /\ req[t].gone = call[t].gone /\ req[t].res = call[t].res
  BY <1>2, <1>3, ViewType
<1>5. CallOK(t)
  BY DEF CallsInv
<1>6. Abstract!MayReply(req[t], call[t].ret)
  <2>1. CASE call[t].op = "set"
    BY <1>1, <1>4, <1>5, <2>1 DEF Abstract!MayReply, CallOK, SetOK
  <2>2. CASE call[t].op = "get"
    BY <1>1, <1>4, <1>5, <2>2 DEF Abstract!MayReply, Abstract!None, CallOK, GetOK
  <2>3. CASE call[t].op = "delete"
    BY <1>1, <1>4, <1>5, <2>3 DEF Abstract!MayReply, CallOK, DeleteOK
  <2> QED
    BY <1>2, <2>1, <2>2, <2>3
<1>7. store' = store
  BY <1>1, StoreStays
<1>8. Abstract!Reply(t, call[t].ret)
  BY <1>1, <1>2, <1>3, <1>4, <1>6, <1>7 DEF Abstract!Reply
<1>9. call[t].ret \in {"ok", "fail"}
  BY <1>2 DEF CallRecords
<1> QED
  BY <1>8, <1>9 DEF Abstract!Next

\* The removal of a key is the moment at which it is deleted; a set whose file
\* it cuts off has taken effect just before.
LEMMA DropRefines ==
  ASSUME FsInv, CallsInv, CallsInv', NEW t \in Tasks, NEW err \in BOOLEAN, RemovesIt(t, err),
         ~err, CanRemove(Top(t).path), Top(t).path \in KeyPaths, ans' = ans
  PROVE  Abstract!Next
<1> DEFINE p == Top(t).path
           hit(u) == ~err /\ CanRemove(p) /\ call[u] # NoCall /\ p \in Under(call[u].path)
           overtaken == {u \in Tasks : call[u].op = "set" /\ call[u].h # {}}
<1>1. RemoveLast(t, err) /\ Removing(t)
  BY DEF RemovesIt, RemoveLast
<1>2. call[t].op = "delete" /\ call[t].pc = "remove" /\ call[t] # NoCall
  BY <1>1, PcOfCall, NoCallType
<1>3. p \in Under(call[t].path)
  <2>1. frames[t][1].path = call[t].path
    BY <1>2 DEF CallsInv, CallOK, DeleteOK
  <2>2. Len(frames[t]) \in Nat \ {0} /\ Top(t) = frames[t][Len(frames[t])]
    BY <1>1, TopOfStack DEF FsInv
  <2>3. Chain(t)
    BY DEF FsInv, ChainOK
  <2>4. PICK n \in 1 .. Len(frames[t]) : Top(t) = frames[t][n]
    BY <2>2
  <2>5. IsPrefix(frames[t][1].path, frames[t][n].path)
    BY <2>3 DEF Chain
  <2> QED
    BY <2>1, <2>4, <2>5 DEF Under
<1>4. \A u \in Tasks :
        /\ call'[u] \in CallRecords /\ call[u] \in CallRecords
        /\ call'[u].op = call[u].op /\ call'[u].path = call[u].path
        /\ call'[u].val = call[u].val /\ call'[u].res = call[u].res
        /\ call'[u].fault = (call[u].fault \/ (u = t /\ err))
        /\ call'[u].gone = call[u].gone \cup (IF hit(u) THEN {p} ELSE {})
        /\ call'[u].done = (call[u].done \/ (hit(u) /\ call[u].op = "set" /\ call[u].h # {}))
        /\ (call[u] = NoCall <=> call'[u] = NoCall)
  <2> SUFFICES ASSUME NEW u \in Tasks
               PROVE  /\ call'[u] \in CallRecords /\ call[u] \in CallRecords
                      /\ call'[u].op = call[u].op /\ call'[u].path = call[u].path
                      /\ call'[u].val = call[u].val /\ call'[u].res = call[u].res
                      /\ call'[u].fault = (call[u].fault \/ (u = t /\ err))
                      /\ call'[u].gone = call[u].gone \cup (IF hit(u) THEN {p} ELSE {})
                      /\ call'[u].done =
                           (call[u].done \/ (hit(u) /\ call[u].op = "set" /\ call[u].h # {}))
                      /\ (call[u] = NoCall <=> call'[u] = NoCall)
    OBVIOUS
  <2>1. /\ call' \in [Tasks -> CallRecords] /\ call'[u].op = call[u].op
        /\ (call[u] = NoCall => call'[u] = NoCall)
    BY LastCalls
  <2>2. call'[u] = NoCall => call[u] = NoCall
    BY <2>1, PcOfCall, NoCallType
  <2>3. call'[u] \in CallRecords /\ call[u] \in CallRecords
    BY <2>1, PcOfCall
  <2> QED
    BY <2>1, <2>2, <2>3, LastCalls
<1>5. store' = [store EXCEPT ![p] = {}] /\ store[p] # {}
  <2>1. disk' = [disk EXCEPT ![p] = Absent] /\ disk[p].kind # "absent"
    BY <1>1 DEF RemoveLast, CanRemove
  <2>2. p \in Paths /\ disk \in [Paths -> Nodes]
    BY KeyIsPath DEF FsInv, FsTypeOK
  <2>3. /\ \A k \in KeyPaths \ {p} : disk'[k] = disk[k]
        /\ {} = IF disk'[p].kind = "absent" THEN {} ELSE {disk'[p].data}
    BY <2>1, <2>2, KeyIsPath DEF Absent
  <2>4. store[p] # {}
    BY <2>1, StoreValue
  <2> QED
    BY <2>3, <2>4, StoreChange
<1>6. ASSUME NEW u \in Tasks
      PROVE  View(call'[u]) = IF p \notin req[u].keys THEN req[u]
                              ELSE [req[u] EXCEPT !.gone = @ \cup {p}, !.done = @ \/ u \in overtaken]
  <2>1. req[u] = View(call[u])
    BY ReqIsView
  <2>2. call'[u].fault = call[u].fault
    BY <1>4 DEF CallRecords
  <2>3. /\ View(call'[u]) \in Reqs /\ req[u] \in Reqs
        /\ View(call'[u]).op = req[u].op /\ View(call'[u]).keys = req[u].keys
        /\ View(call'[u]).val = req[u].val /\ View(call'[u]).res = req[u].res
        /\ View(call'[u]).fault = req[u].fault
    BY <1>4, <2>1, <2>2, ViewType
  <2>4. p \in req[u].keys <=> hit(u)
    BY <1>4, <2>1, ViewType
  <2>5. /\ View(call'[u]).gone = req[u].gone \cup (IF hit(u) THEN {p} ELSE {})
        /\ View(call'[u]).done = (req[u].done \/ (hit(u) /\ u \in overtaken))
    <3>1. u \in overtaken <=> call[u].op = "set" /\ call[u].h # {}
      OBVIOUS
    <3> HIDE DEF overtaken
    <3>2. /\ req[u].gone = call[u].gone /\ req[u].done = call[u].done
          /\ View(call'[u]).gone = call'[u].gone /\ View(call'[u]).done = call'[u].done
      BY <1>4, <2>1, ViewType
    <3>3. call'[u].done = (call[u].done \/ (hit(u) /\ u \in overtaken))
      BY <1>4, <3>1
    <3> QED
      BY <1>4, <3>2, <3>3
  <2> HIDE DEF hit, overtaken
  <2>6. CASE hit(u)
    <3> DEFINE r == [req[u] EXCEPT !.gone = @ \cup {p}, !.done = @ \/ u \in overtaken]
    <3>1. req[u].gone \cup {p} \in SUBSET KeyPaths
      BY <2>3 DEF Reqs
    <3>2. /\ r \in Reqs /\ r.op = req[u].op /\ r.keys = req[u].keys /\ r.val = req[u].val
          /\ r.done = (req[u].done \/ u \in overtaken) /\ r.gone = req[u].gone \cup {p}
          /\ r.res = req[u].res /\ r.fault = req[u].fault
      BY <2>3, <3>1 DEF Reqs
    <3> HIDE DEF r
    <3>3. View(call'[u]).gone = r.gone /\ View(call'[u]).done = r.done
      BY <2>5, <2>6, <3>2
    <3>4. View(call'[u]) = r
      BY <2>3, <3>2, <3>3, SameReq, ZenonT(40)
    <3> QED
      BY <2>4, <2>6, <3>4 DEF r
  <2>7. CASE ~hit(u)
    <3>1. View(call'[u]).gone = req[u].gone /\ View(call'[u]).done = req[u].done
      BY <2>3, <2>5, <2>7 DEF Reqs
    <3>2. View(call'[u]) = req[u]
      BY <2>3, <3>1, SameReq
    <3> QED
      BY <2>4, <2>7, <3>2
  <2> QED
    BY <2>6, <2>7
<1>7. req' = [u \in Tasks |-> View(call'[u])]
  BY DEF req, View
<1> HIDE DEF hit, p
<1>8. req' = [u \in Tasks |->
        IF p \notin req[u].keys THEN req[u]
        ELSE [req[u] EXCEPT !.gone = @ \cup {p}, !.done = @ \/ u \in overtaken]]
  BY <1>6, <1>7
<1>9. overtaken \in SUBSET {u \in Tasks : req[u].op = "set"}
  <2>1. \A u \in Tasks : req[u].op = call[u].op
    BY <1>4, ReqIsView, ViewType
  <2> QED
    BY <2>1
<1>10. req[t].op = "delete" /\ p \in req[t].keys
  BY <1>2, <1>3, <1>4, ReqIsView, ViewType DEF p
<1>11. p \in KeyPaths /\ p \notin Abstract!Missing(KeyPaths)
  BY <1>5 DEF Abstract!Missing, Abstract!None, p
<1> HIDE DEF overtaken
<1>12. Abstract!Drop(t, p)
  BY <1>5, <1>8, <1>9, <1>10, <1>11 DEF Abstract!Drop, Abstract!None, p
<1> QED
  BY <1>11, <1>12 DEF Abstract!Next

\* A step of fs_remove implements Drop or Fault, or nothing.
LEMMA RemoveRefines ==
  ASSUME FsInv, CallsInv, CallsInv', NEW t \in Tasks, RemoveEntries(t)
  PROVE  Abstract!Next \/ UNCHANGED Abstract!vars
<1>1. ans' = ans
  BY DEF RemoveEntries
<1>2. PICK err \in BOOLEAN :
        \/ /\ RemoveEnter(t, err) \/ RemoveRead(t, err)
           /\ call' = [call EXCEPT ![t].fault = @ \/ err]
        \/ RemovesIt(t, err)
  BY DEF RemoveEntries, RemovesIt
<1>3. call \in [Tasks -> CallRecords]
  BY DEF CallsInv, CallTypeOK
<1>4. CASE /\ RemoveEnter(t, err) \/ RemoveRead(t, err)
           /\ call' = [call EXCEPT ![t].fault = @ \/ err]
  <2>1. disk' = disk /\ Removing(t)
    BY <1>4 DEF RemoveEnter, RemoveRead
  <2>2. call[t].op # "idle"
    BY <2>1 DEF CallsInv, CallOK, Removing
  <2>3. /\ call'[t].op = call[t].op /\ call'[t].path = call[t].path
        /\ call'[t].val = call[t].val /\ call'[t].done = call[t].done
        /\ call'[t].gone = call[t].gone /\ call'[t].res = call[t].res
        /\ call'[t].fault = (call[t].fault \/ err)
        /\ \A u \in Tasks \ {t} : call'[u] = call[u]
    BY <1>3, <1>4 DEF CallRecords
  <2> QED
    BY <1>1, <2>1, <2>2, <2>3, FaultRefines
<1>5. CASE RemovesIt(t, err)
  <2> DEFINE p == Top(t).path
  <2>1. RemoveLast(t, err) /\ Removing(t)
    BY <1>5 DEF RemovesIt, RemoveLast
  <2>2. CASE ~err /\ CanRemove(p) /\ p \in KeyPaths
    BY <1>1, <1>5, <2>2, DropRefines
  <2>3. CASE ~(~err /\ CanRemove(p) /\ p \in KeyPaths)
    <3>1. call[t].op # "idle"
      BY <2>1 DEF CallsInv, CallOK, Removing
    <3>2. \A k \in KeyPaths : disk'[k] = disk[k]
      <4>1. disk' = IF ~err /\ CanRemove(p) THEN [disk EXCEPT ![p] = Absent] ELSE disk
        BY <2>1 DEF RemoveLast
      <4>2. disk \in [Paths -> Nodes]
        BY DEF FsInv, FsTypeOK
      <4> QED
        BY <2>3, <4>1, <4>2, KeyIsPath
    <3>3. \A u \in Tasks : ~(~err /\ CanRemove(p) /\ call[u] # NoCall /\ p \in Under(call[u].path))
      BY <2>3 DEF Under
    <3> HIDE DEF p
    <3>4. \A u \in Tasks :
            /\ call'[u] \in CallRecords /\ call'[u].op = call[u].op
            /\ call'[u].path = call[u].path /\ call'[u].val = call[u].val
            /\ call'[u].h = call[u].h /\ call'[u].ret = call[u].ret
            /\ call'[u].res = call[u].res
            /\ call'[u].pc = IF u = t /\ frames'[t] = <<>> THEN "done" ELSE call[u].pc
            /\ call'[u].fault = (call[u].fault \/ (u = t /\ err))
            /\ call'[u].gone = call[u].gone /\ call'[u].done = (call[u].done \/ FALSE)
      <4> SUFFICES ASSUME NEW u \in Tasks
                   PROVE  /\ call'[u] \in CallRecords /\ call'[u].op = call[u].op
                          /\ call'[u].path = call[u].path /\ call'[u].val = call[u].val
                          /\ call'[u].h = call[u].h /\ call'[u].ret = call[u].ret
                          /\ call'[u].res = call[u].res
                          /\ call'[u].pc = IF u = t /\ frames'[t] = <<>> THEN "done" ELSE call[u].pc
                          /\ call'[u].fault = (call[u].fault \/ (u = t /\ err))
                          /\ call'[u].gone = call[u].gone /\ call'[u].done = (call[u].done \/ FALSE)
        OBVIOUS
      <4> DEFINE hit == ~err /\ CanRemove(p) /\ call[u] # NoCall /\ p \in Under(call[u].path)
      <4>1. /\ call' \in [Tasks -> CallRecords]
            /\ call'[u].op = call[u].op /\ call'[u].path = call[u].path
            /\ call'[u].val = call[u].val /\ call'[u].h = call[u].h
            /\ call'[u].ret = call[u].ret /\ call'[u].res = call[u].res
            /\ call'[u].pc = IF u = t /\ frames'[t] = <<>> THEN "done" ELSE call[u].pc
            /\ call'[u].fault = (call[u].fault \/ (u = t /\ err))
            /\ call'[u].gone = call[u].gone \cup (IF hit THEN {p} ELSE {})
            /\ call'[u].done = (call[u].done \/ (hit /\ call[u].op = "set" /\ call[u].h # {}))
        BY <1>5, LastCalls DEF p
      <4>2. ~hit
        BY <3>3
      <4> HIDE DEF hit
      <4>3. call'[u].gone = call[u].gone
        BY <4>1, <4>2
      <4>4. call'[u].done = (call[u].done \/ FALSE)
        BY <4>1, <4>2
      <4>5. call'[u] \in CallRecords
        BY <4>1
      <4> QED
        BY <4>1, <4>3, <4>4, <4>5
    <3>5. call'[t].done = call[t].done /\ call'[t].fault = (call[t].fault \/ err)
      BY <1>3, <3>4 DEF CallRecords
    <3>6. \A u \in Tasks \ {t} : call'[u] = call[u]
      <4> SUFFICES ASSUME NEW u \in Tasks \ {t} PROVE call'[u] = call[u]
        OBVIOUS
      <4>1. /\ call'[u] \in CallRecords /\ call[u] \in CallRecords
            /\ call'[u].op = call[u].op /\ call'[u].path = call[u].path
            /\ call'[u].val = call[u].val /\ call'[u].h = call[u].h
            /\ call'[u].ret = call[u].ret /\ call'[u].res = call[u].res
            /\ call'[u].pc = call[u].pc /\ call'[u].gone = call[u].gone
        BY <1>3, <3>4
      <4>2. call'[u].fault = call[u].fault /\ call'[u].done = call[u].done
        BY <1>3, <3>4, <4>1 DEF CallRecords
      <4> QED
        BY <4>1, <4>2 DEF CallRecords
    <3> QED
      BY <1>1, <3>1, <3>2, <3>4, <3>5, <3>6, FaultRefines
  <2> QED
    BY <2>2, <2>3
<1> QED
  BY <1>2, <1>4, <1>5

\* Restart implements the Restart of KeyValue.
LEMMA RestartRefines ==
  ASSUME Restart
  PROVE  Abstract!Restart
<1>1. /\ disk' \in {disk, Formatted} /\ call' = [t \in Tasks |-> NoCall]
      /\ ans' = [t \in Tasks |-> "none"]
  BY DEF Restart, fs_init
<1>2. req' = [t \in Tasks |-> Abstract!Idle]
  <2>1. req' = [t \in Tasks |-> View(call'[t])]
    BY DEF req, View
  <2>2. \A t \in Tasks : View(call'[t]) = Abstract!Idle
    BY <1>1, IdleView
  <2> QED
    BY <2>1, <2>2
<1>3. store' \in {store, [k \in KeyPaths |-> Abstract!None]}
  <2>1. CASE disk' = disk
    BY <2>1, StoreStays
  <2>2. CASE disk' = Formatted
    <3>1. \A k \in KeyPaths : disk'[k].kind = "absent"
      BY <2>2, KeyIsPath DEF Formatted, Absent
    <3>2. store' = [k \in KeyPaths |-> IF disk'[k].kind = "absent" THEN {} ELSE {disk'[k].data}]
      BY DEF store
    <3> QED
      BY <3>1, <3>2 DEF Abstract!None
  <2> QED
    BY <1>1, <2>1, <2>2
<1> QED
  BY <1>1, <1>2, <1>3 DEF Abstract!Restart

\* Every step of the key store implements a step of KeyValue, or none.
LEMMA StepRefines ==
  FsInv /\ CallsInv /\ CallsInv' /\ [Next]_vars => [Abstract!Next]_(Abstract!vars)
<1> SUFFICES ASSUME FsInv, CallsInv, CallsInv', [Next]_vars
             PROVE  Abstract!Next \/ UNCHANGED Abstract!vars
  OBVIOUS
<1>1. ASSUME UNCHANGED vars PROVE UNCHANGED Abstract!vars
  <2>1. disk' = disk /\ call' = call /\ ans' = ans
    BY <1>1 DEF vars, fsVars
  <2>2. store' = store /\ req' = req
    BY <2>1 DEF store, req
  <2> QED
    BY <2>1, <2>2 DEF Abstract!vars
<1>2. ASSUME Restart PROVE Abstract!Next
  BY <1>2, RestartRefines DEF Abstract!Next
<1>3. ASSUME NEW t \in Tasks, Call(t) PROVE Abstract!Next
  BY <1>3, CallRefines
<1>4. ASSUME NEW t \in Tasks, Step(t) PROVE Abstract!Next \/ UNCHANGED Abstract!vars
  BY <1>4, QuietRefines, OpenRefines, CloseRefines, RemoveRefines, ReturnRefines DEF Step
<1> QED
  BY <1>1, <1>2, <1>3, <1>4 DEF Next

\* The initial states of the key store are initial for KeyValue.
LEMMA InitRefines == Init => Abstract!Init
<1> SUFFICES ASSUME Init PROVE Abstract!Init
  OBVIOUS
<1>1. /\ disk = Formatted /\ call = [t \in Tasks |-> NoCall] /\ ans = [t \in Tasks |-> "none"]
  BY DEF Init, FsInit
<1>2. req = [t \in Tasks |-> Abstract!Idle]
  BY <1>1, ReqIsView, IdleView
<1>3. \A k \in KeyPaths : disk[k].kind = "absent"
  BY <1>1, KeyIsPath DEF Formatted, Absent
<1>4. store = [k \in KeyPaths |-> Abstract!None]
  BY <1>3 DEF store, Abstract!None
<1> QED
  BY <1>1, <1>2, <1>4 DEF Abstract!Init

\* The key store of homekit.c is the one KeyValue specifies: however the tasks'
\* calls into fs.c interleave, whatever littlefs fails at and wherever the chip
\* restarts, every get, set and delete takes effect at one moment.
THEOREM KeyStoreIsKeyValue == Spec => ImplementsKeyValue
<1>1. FsInv /\ CallsInv /\ CallsInv' /\ [Next]_vars => [Abstract!Next]_(Abstract!vars)
  BY StepRefines
<1> QED
  BY <1>1, InitRefines, CallsAreRight, PTL DEF Spec, ImplementsKeyValue, Abstract!Spec

=============================================================================
