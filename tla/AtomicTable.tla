---------------------------- MODULE AtomicTable ----------------------------
(***************************************************************************)
(* What a primary FixedTable promises to the transaction layer: each of    *)
(* the six datastore requests acts at one instant on a map with one lock   *)
(* and one version per bucket.  Module Tx uses the table in this form;     *)
(* module FixedTable implements it.                                        *)
(***************************************************************************)
EXTENDS Naturals

CONSTANTS
  Callers,        \* coordinators; the requests of one are served in turn
  Keys, Buckets,
  BucketOf,       \* the bucket of a key
  Vals,           \* values that a put may carry
  Absent,         \* no value
  Populated,      \* contents[k] before the first request
  StaleVersions   \* versions that left-over bytes of a response may spell

VARIABLES
  contents,       \* contents[k]: the value of k, or Absent
  version,        \* version[b]
  hold,           \* hold[c]: keys for which c was granted a lock of their bucket
  phase,          \* phase[c]: what the coordinator c is doing with its locks
  req,            \* req[c]: the request of c being served, or NoReq
  ans,            \* ans[c]: the response to the last request of c
  down            \* the process has ended: see Full and AssertFails

avars == <<contents, version, hold, phase, req, ans, down>>

NoReq == [type |-> "none"]
NoAns == [type |-> "none"]

\* A caller that holds a key of bucket b.
Holds(c, b) == \E k \in hold[c] : BucketOf[k] = b

Others(c, b) == \E d \in Callers \ {c} : Holds(d, b)

\* c gives one lock back: the last one of a bucket moves its version.
Release(c, k) ==
  LET left == hold[c] \ {k} IN
  /\ hold' = [hold EXCEPT ![c] = left]
  /\ version' = [version EXCEPT ![BucketOf[k]] =
       IF \E j \in left : BucketOf[j] = BucketOf[k] THEN @ ELSE @ + 1]
  /\ phase' = [phase EXCEPT ![c] = IF left = {} THEN "exec" ELSE @]

Reply(c, answer) ==
  /\ req' = [req EXCEPT ![c] = NoReq]
  /\ ans' = [ans EXCEPT ![c] = answer]

\* The requests that a coordinator may send: it reads and locks keys, and then
\* either writes or unlocks what it has locked, one request per key.
Request(c, type, k, v) ==
  /\ type \in {"get_rdonly", "get_for_upd", "lock_for_ins"} =>
       phase[c] = "exec" /\ k \notin hold[c]
  /\ type \in {"put", "del"} => phase[c] \in {"exec", "commit"} /\ k \in hold[c]
  /\ type = "del" => contents[k] # Absent
  /\ type = "unlock" => phase[c] \in {"exec", "abort"} /\ k \in hold[c]
  /\ type = "put" <=> v # Absent

Call(c, type, k, v) ==
  /\ req[c] = NoReq
  /\ Request(c, type, k, v)
  /\ req' = [req EXCEPT ![c] = [type |-> type, key |-> k, val |-> v]]
  /\ ans' = [ans EXCEPT ![c] = NoAns]
  /\ phase' = [phase EXCEPT ![c] =
       CASE type \in {"put", "del"} -> "commit"
         [] type = "unlock" -> "abort"
         [] OTHER -> @]
  /\ UNCHANGED <<contents, version, hold, down>>

\* get(): a value is read whole, with the version of its bucket.
Get(c) ==
  LET k == req[c].key IN
  /\ req[c].type = "get_rdonly"
  /\ ~Others(c, BucketOf[k])
  /\ \/ /\ contents[k] # Absent
        /\ Reply(c, [type |-> "success", val |-> <<contents[k], contents[k]>>,
                     ver |-> version[BucketOf[k]]])
     \/ /\ contents[k] = Absent
        /\ \E w \in IF Holds(c, BucketOf[k]) THEN StaleVersions
                    ELSE {version[BucketOf[k]]} :
             Reply(c, [type |-> "not_found", ver |-> w])
  /\ UNCHANGED <<contents, version, hold, phase, down>>

\* Any of the three may be refused while requests of other callers overlap.
Refuse(c) ==
  /\ req[c].type \in {"get_rdonly", "get_for_upd", "lock_for_ins"}
  /\ ~Holds(c, BucketOf[req[c].key])
  /\ Reply(c, [type |-> "locked"])
  /\ UNCHANGED <<contents, version, hold, phase, down>>

\* lock_bkt_and_get() and lock_bkt_for_ins() when the key is as expected.
Lock(c) ==
  LET k == req[c].key IN
  /\ req[c].type \in {"get_for_upd", "lock_for_ins"}
  /\ ~Others(c, BucketOf[k])
  /\ \/ /\ req[c].type = "get_for_upd"
        /\ contents[k] # Absent
        /\ Reply(c, [type |-> "success", val |-> <<contents[k], contents[k]>>,
                     ver |-> version[BucketOf[k]]])
     \/ /\ req[c].type = "lock_for_ins"
        /\ contents[k] = Absent
        /\ Reply(c, [type |-> "success", ver |-> version[BucketOf[k]]])
  /\ hold' = [hold EXCEPT ![c] = @ \cup {k}]
  /\ UNCHANGED <<contents, version, phase, down>>

\* The same two when it is not: the lock is given back at once.
LockFails(c) ==
  LET k == req[c].key IN
  /\ req[c].type \in {"get_for_upd", "lock_for_ins"}
  /\ ~Others(c, BucketOf[k])
  /\ \/ /\ req[c].type = "get_for_upd"
        /\ contents[k] = Absent
        /\ Reply(c, [type |-> "not_found"])
     \/ /\ req[c].type = "lock_for_ins"
        /\ contents[k] # Absent
        /\ Reply(c, [type |-> "exists"])
  /\ version' = [version EXCEPT ![BucketOf[k]] =
       IF Holds(c, BucketOf[k]) THEN @ ELSE @ + 1]
  /\ UNCHANGED <<contents, hold, phase, down>>

\* set(), del() and unlock_bucket_hash()
Write(c) ==
  LET k == req[c].key IN
  /\ req[c].type \in {"put", "del", "unlock"}
  /\ contents' = IF req[c].type = "unlock" THEN contents
                 ELSE [contents EXCEPT ![k] = req[c].val]
  /\ Release(c, k)
  /\ Reply(c, [type |-> "success"])
  /\ UNCHANGED down

\* set() finds no free slot: it unlocks the bucket and the process exits.
Full(c) ==
  /\ req[c].type = "put"
  /\ Release(c, req[c].key)
  /\ Reply(c, [type |-> "no_space"])
  /\ down' = TRUE
  /\ UNCHANGED contents

\* A reader's walk trips over an extra bucket that is being freed: see
\* GetExtraBucket in FixedTable.
AssertFails(c) ==
  /\ req[c].type = "get_rdonly"
  /\ down' = TRUE
  /\ UNCHANGED <<contents, version, hold, phase, req, ans>>

Init ==
  /\ contents = Populated
  /\ version = [b \in Buckets |-> 0]
  /\ hold = [c \in Callers |-> {}]
  /\ phase = [c \in Callers |-> "exec"]
  /\ req = [c \in Callers |-> NoReq]
  /\ ans = [c \in Callers |-> NoAns]
  /\ down = FALSE

Types == {"get_rdonly", "get_for_upd", "lock_for_ins", "put", "del", "unlock"}

Next ==
  /\ ~down
  /\ \E c \in Callers :
       \/ \E type \in Types, k \in Keys, v \in Vals \cup {Absent} : Call(c, type, k, v)
       \/ Get(c) \/ Refuse(c) \/ Lock(c) \/ LockFails(c) \/ Write(c) \/ Full(c)
       \/ AssertFails(c)

Spec == Init /\ [][Next]_avars
=============================================================================
