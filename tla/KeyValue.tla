------------------------------- MODULE KeyValue -------------------------------
(***************************************************************************)
(* What the HomeKit library may expect of its key store, whatever tasks    *)
(* call it at the same time: each call takes effect on a key at one moment *)
(* between its invocation and its reply.  The exceptions are the ones that *)
(* module/patch/homekit.c really has: a set creates its key with an empty  *)
(* value before it stores the value, a flash error (fault) is not always   *)
(* reported, and a restart may find a file system it has to format.        *)
(***************************************************************************)
CONSTANTS Tasks, Keys, Vals

VARIABLES
  store,   \* the value of each key: a set of one, or of none for no such key
  req,     \* the call each task is in
  ans      \* what the last call of each task returned

vars == <<store, req, ans>>

None == {}
Contents == {<<>>} \cup {<<v>> : v \in Vals}
\* done: a set took effect; fault: a flash error hit the call; gone: keys that
\* were absent at some moment of it; res: what a get saw.
Idle == [op |-> "idle", keys |-> {}, val |-> <<>>, done |-> FALSE,
         fault |-> FALSE, gone |-> {}, res |-> None]
Missing(ks) == {k \in ks : store[k] = None}

Invoke(t, op, ks, val) ==
  /\ req[t] = Idle /\ ans' = [ans EXCEPT ![t] = "none"] /\ UNCHANGED store
  /\ req' = [req EXCEPT ![t] = [Idle EXCEPT !.op = op, !.keys = ks, !.val = val,
                                            !.gone = Missing(ks)]]

Blank(t) ==
  /\ req[t].op = "set" /\ \E k \in Missing(req[t].keys) : store' = [store EXCEPT ![k] = {<<>>}]
  /\ UNCHANGED <<req, ans>>
Put(t) ==
  /\ req[t].op = "set" /\ ~req[t].done
  /\ \E k \in req[t].keys : store' = [store EXCEPT ![k] = {req[t].val}]
  /\ req' = [req EXCEPT ![t].done = TRUE] /\ UNCHANGED ans
Look(t) ==
  /\ req[t].op = "get"
  /\ \E k \in req[t].keys \ Missing(Keys) : req' = [req EXCEPT ![t].res = store[k]]
  /\ UNCHANGED <<store, ans>>

\* A set may have taken effect just before the deletion.
Drop(t, k) ==
  /\ req[t].op = "delete" /\ k \in req[t].keys \ Missing(Keys)
  /\ store' = [store EXCEPT ![k] = None]
  /\ \E overtaken \in SUBSET {u \in Tasks : req[u].op = "set"} :
       req' = [u \in Tasks |-> IF k \notin req[u].keys THEN req[u]
                 ELSE [req[u] EXCEPT !.gone = @ \cup {k}, !.done = @ \/ u \in overtaken]]
  /\ UNCHANGED ans

Fault(t) ==
  /\ req[t].op # "idle" /\ req' = [req EXCEPT ![t].fault = TRUE]
  /\ UNCHANGED <<store, ans>>

\* Without a flash error a set that succeeds has stored its value and one that
\* fails has not, a get returns a value the key had, or fails on a key that
\* was absent, and a delete leaves no key that was there all the time.
MayReply(r, ret) ==
  CASE r.op = "set" -> IF ret = "ok" THEN r.done \/ r.fault ELSE ~r.done
    [] r.op = "get" -> r.fault \/ (IF ret = "ok" THEN r.res # None ELSE r.gone # {})
    [] r.op = "delete" -> ret = "ok" /\ (r.fault \/ r.keys \subseteq r.gone)
Reply(t, ret) ==
  /\ req[t].op # "idle" /\ MayReply(req[t], ret)
  /\ ans' = [ans EXCEPT ![t] = ret] /\ req' = [req EXCEPT ![t] = Idle]
  /\ UNCHANGED store

Restart ==
  /\ store' \in {store, [k \in Keys |-> None]}
  /\ req' = [t \in Tasks |-> Idle] /\ ans' = [t \in Tasks |-> "none"]

Init ==
  /\ store = [k \in Keys |-> None] /\ req = [t \in Tasks |-> Idle]
  /\ ans = [t \in Tasks |-> "none"]

Next ==
  \/ Restart
  \/ \E t \in Tasks :
       \/ \E k \in Keys, v \in Contents : Invoke(t, "get", {k}, <<>>) \/ Invoke(t, "set", {k}, v)
       \/ \E ks \in SUBSET Keys : Invoke(t, "delete", ks, <<>>)
       \/ Blank(t) \/ Put(t) \/ Look(t) \/ Fault(t)
       \/ \E k \in Keys : Drop(t, k)
       \/ \E ret \in {"ok", "fail"} : Reply(t, ret)

Spec == Init /\ [][Next]_vars

=============================================================================
