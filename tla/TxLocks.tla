------------------------------ MODULE TxLocks -------------------------------
(***************************************************************************)
(* The bucket locks of module Tx and what they protect, for any            *)
(* coordinators, keys, buckets, number of backups and batches.             *)
(*                                                                         *)
(* First, every RPC handler and every step of a coordinator keeps LockInv; *)
(* the steps of commit() and abort() go through ControlStep.  Then come    *)
(* the versions, the sizes of the batches, and ReplInv: a backup differs   *)
(* from the primary only under the writer's lock and with the writer's     *)
(* record in every log, and an aborted transaction leaves nothing in       *)
(* either.                                                                 *)
(***************************************************************************)
EXTENDS TxInvariants

\* What the lock count needs to know of sets of keys.  It follows from Keys being
\* finite (KeysCounted in TxProofs).
Counting ==
  \A S \in SUBSET Keys :
    /\ Cardinality(S) \in Nat /\ (Cardinality(S) = 0 <=> S = {})
    /\ \A k \in S : Cardinality(S \ {k}) = Cardinality(S) - 1
    /\ \A k \in Keys \ S : Cardinality(S \cup {k}) = Cardinality(S) + 1

-----------------------------------------------------------------------------
(* How a step that grants or gives back a lock keeps the accounting.       *)

\* A step that neither grants nor gives back a lock keeps the accounting.
LEMMA KeepAccounting ==
  ASSUME Types, LockAccounting, UNCHANGED <<locker, numLocks>>,
         \A d \in Coros : Held(d)' = Held(d)
  PROVE  LockAccounting'
<1> TypeOK
  BY Zenon DEF Types
<1>1. \A d \in Coros, b \in Buckets : HeldIn(d, b)' = HeldIn(d, b)
  BY Zenon DEF HeldIn
<1>2. \A b \in Buckets : locker[b] # NoCaller => locker[b] \in Coros
  BY Zenon DEF TypeOK
<1>3. QED BY <1>1, <1>2 DEF LockAccounting, Accounts

\* A bucket none of whose keys is granted or given back.
LEMMA OtherBucket ==
  ASSUME Types, LockAccounting, NEW c \in Coros, NEW e \in Buckets,
         locker'[e] = locker[e], numLocks'[e] = numLocks[e],
         HeldIn(c, e)' = HeldIn(c, e),
         \A d \in Coros \ {c} : Held(d)' = Held(d)
  PROVE  Accounts(e)'
<1> TypeOK
  BY Zenon DEF Types
<1>1. \A d \in Coros : HeldIn(d, e)' = HeldIn(d, e)
  BY Zenon DEF HeldIn
<1>2. locker[e] # NoCaller => locker[e] \in Coros
  BY Zenon DEF TypeOK
<1>3. QED BY <1>1, <1>2, Zenon DEF LockAccounting, Accounts

\* lock_bucket_ptr() on a bucket that c may lock: num_locks counts one key more.
LEMMA GrantAccounting ==
  ASSUME Counting, Types, LockAccounting, NEW c \in Coros, NEW k \in Keys,
         CanLock(c, BucketOf[k]), LockBucket(c, BucketOf[k]),
         k \notin Held(c), Held(c)' = Held(c) \cup {k},
         \A d \in Coros \ {c} : Held(d)' = Held(d)
  PROVE  LockAccounting'
<1> TypeOK
  BY Zenon DEF Types
<1> DEFINE b == BucketOf[k]
<1>b. b \in Buckets
  BY ConstAssumption, Zenon
<1>1. ASSUME NEW e \in Buckets, e # b PROVE Accounts(e)'
  <2>1. HeldIn(c, e)' = HeldIn(c, e)
    BY <1>1, Zenon DEF HeldIn
  <2>2. locker'[e] = locker[e] /\ numLocks'[e] = numLocks[e]
    BY <1>1, Zenon DEF LockBucket, TypeOK
  <2>3. QED BY <2>1, <2>2, OtherBucket, Zenon DEF Types
<1>2. HeldIn(c, b)' = HeldIn(c, b) \cup {k} /\ k \notin HeldIn(c, b)
  BY Zenon DEF HeldIn
<1>3. ASSUME NEW d \in Coros \ {c} PROVE HeldIn(d, b)' = {}
  <2>1. HeldIn(d, b)' = HeldIn(d, b)
    BY Zenon DEF HeldIn
  <2>2. locker[b] # d
    BY ConstAssumption, Zenon DEF CanLock
  <2>3. QED BY <2>1, <2>2, <1>b, Zenon DEF LockAccounting, Accounts
<1>4. locker'[b] = c /\ numLocks'[b] = numLocks[b] + 1
  BY <1>b, Zenon DEF LockBucket, TypeOK
<1>5. numLocks[b] = Cardinality(HeldIn(c, b))
  <2>1. CASE locker[b] = c
    BY <2>1, <1>b, ConstTypes, Zenon DEF LockAccounting, Accounts
  <2>2. CASE locker[b] = NoCaller
    <3>1. HeldIn(c, b) = {}
      BY <2>2, <1>b, ConstTypes, Zenon DEF LockAccounting, Accounts
    <3>2. Cardinality({}) = 0
      BY Zenon DEF Counting
    <3>3. QED BY <3>1, <3>2, <2>2, <1>b, Zenon DEF LockAccounting, Accounts
  <2>3. QED BY <2>1, <2>2, Zenon DEF CanLock
<1>6. Cardinality(HeldIn(c, b)') = Cardinality(HeldIn(c, b)) + 1
  <2>1. HeldIn(c, b) \in SUBSET Keys
    BY <1>b, HeldType, Zenon DEF Types
  <2> HIDE DEF b
  <2>2. QED BY <1>2, <2>1 DEF Counting
<1>7. Accounts(b)'
  BY <1>2, <1>3, <1>4, <1>5, <1>6, ConstTypes, Zenon DEF Accounts
<1>8. QED BY <1>1, <1>7, Zenon DEF LockAccounting

\* unlock_bucket_ptr() by c for one of its keys: num_locks counts one key less,
\* and the bucket is free when it was the last.
LEMMA ReleaseAccounting ==
  ASSUME Counting, Types, LockAccounting, NEW c \in Coros, NEW k \in Keys,
         UnlockBucket(BucketOf[k]),
         k \in Held(c), Held(c)' = Held(c) \ {k},
         \A d \in Coros \ {c} : Held(d)' = Held(d)
  PROVE  /\ LockAccounting'
         /\ numLocks' \in [Buckets -> Nat]
         /\ locker' \in [Buckets -> Coros \cup {NoCaller}]
         /\ version' \in [Buckets -> Nat]
         /\ locker[BucketOf[k]] = c
<1> TypeOK
  BY Zenon DEF Types
<1> DEFINE b == BucketOf[k]
<1>b. b \in Buckets
  BY ConstAssumption, Zenon
<1>1. ASSUME NEW e \in Buckets, e # b PROVE Accounts(e)'
  <2>1. HeldIn(c, e)' = HeldIn(c, e)
    BY <1>1, Zenon DEF HeldIn
  <2>2. locker'[e] = locker[e] /\ numLocks'[e] = numLocks[e]
    BY <1>1, Zenon DEF UnlockBucket, TypeOK
  <2>3. QED BY <2>1, <2>2, OtherBucket, Zenon DEF Types
<1>2. HeldIn(c, b)' = HeldIn(c, b) \ {k} /\ k \in HeldIn(c, b)
  BY Zenon DEF HeldIn
<1>3. locker[b] = c /\ numLocks[b] = Cardinality(HeldIn(c, b))
  BY <1>2, <1>b, ConstTypes DEF LockAccounting, Accounts
<1>4. \A d \in Coros \ {c} : HeldIn(d, b)' = {}
  BY <1>3, <1>b, ConstTypes DEF HeldIn, LockAccounting, Accounts
<1>5. /\ Cardinality(HeldIn(c, b)') = numLocks[b] - 1
      /\ Cardinality(HeldIn(c, b)') \in Nat
      /\ Cardinality(HeldIn(c, b)') = 0 <=> HeldIn(c, b)' = {}
  <2>1. HeldIn(c, b) \in SUBSET Keys
    BY <1>b, HeldType, Zenon DEF Types
  <2> DEFINE held == HeldIn(c, b)
             less == HeldIn(c, b)'
             num == numLocks[b]
  <2>2. held \in SUBSET Keys /\ k \in held /\ less = held \ {k} /\ num = Cardinality(held)
    BY <2>1, <1>2, <1>3, Zenon
  <2> HIDE DEF held, less, num
  <2>3. /\ Cardinality(less) = num - 1 /\ Cardinality(less) \in Nat
        /\ Cardinality(less) = 0 <=> less = {}
    BY <2>2, Zenon DEF Counting
  <2>4. QED BY <2>3, Zenon DEF less, num
<1>6. numLocks[b] \in Nat \ {0} /\ numLocks'[b] = numLocks[b] - 1
  BY <1>b, <1>5 DEF UnlockBucket, TypeOK
<1>7. Accounts(b)'
  <2>1. CASE numLocks[b] = 1
    <3>1. HeldIn(c, b)' = {}
      BY <2>1, <1>5
    <3>2. locker'[b] = NoCaller
      BY <2>1, <1>b, Zenon DEF UnlockBucket, TypeOK
    <3>3. QED BY <3>1, <3>2, <1>4, <1>6, <2>1 DEF Accounts
  <2>2. CASE numLocks[b] # 1
    <3>1. HeldIn(c, b)' # {}
      BY <2>2, <1>5, <1>6
    <3>2. locker'[b] = c
      BY <2>2, <1>3, <1>b, Zenon DEF UnlockBucket, TypeOK
    <3>3. QED BY <3>1, <3>2, <1>4, <1>5, <1>6, ConstTypes, Zenon DEF Accounts
  <2>3. QED BY <2>1, <2>2, Zenon
<1>8. numLocks' \in [Buckets -> Nat]
  BY <1>6, <1>b DEF UnlockBucket, TypeOK
<1>9. QED BY <1>1, <1>3, <1>7, <1>8 DEF LockAccounting, UnlockBucket, TypeOK

-----------------------------------------------------------------------------
(* A step of coordinator c leaves what belongs to the others alone.        *)

\* A step of c that grants and gives back nothing.
LEMMA QuietStep ==
  ASSUME LockInv, NEW c \in Coros, Types', Phase(c)', Held(c)' = Held(c),
         UNCHANGED <<locker, numLocks>>,
         \A d \in Coros \ {c} : Same(d)
  PROVE  LockInv'
<1> TypeOK'
  BY Zenon DEF Types
<1>1. \A d \in Coros \ {c} : Phase(d)' /\ Held(d)' = Held(d)
  BY SameHeld, Zenon DEF LockInv, PhaseInv
<1>2. PhaseInv'
  BY <1>1, Zenon DEF PhaseInv
<1>3. LockAccounting'
  BY <1>1, KeepAccounting, Zenon DEF Types, LockInv
<1>4. QED BY <1>2, <1>3, Zenon DEF LockInv

\* The phase, batch and items of c after a control step.
After(c, st, ph, reqs, logs) ==
  /\ status'[c] = st /\ pc'[c] = ph
  /\ pend'[c] = reqs /\ pendLog'[c] = logs
  /\ rs'[c] = rs[c] /\ ws'[c] = ws[c] /\ execWsLocked'[c] = execWsLocked[c]

-----------------------------------------------------------------------------
(* The handlers that answer a read or a lock request.                      *)

\* An answer to a read or lock request keeps the types and the phases.
LEMMA RespondInv ==
  ASSUME Types, PhaseInv, NEW c \in Coros, NEW k \in Keys,
         <<0, k>> \in pend[c], pc[c] \in {"read", "validate"},
         NEW t \in RespTypes \ {"none"}, NEW v \in Nat, NEW x \in Vals,
         Respond(c, k, t, v, x)
  PROVE  ItemTypes' /\ BatchTypes' /\ PhaseInv'
<1> TypeOK
  BY Zenon DEF Types
<1> USE ConstAssumption, ReplicasType
<1>1. ItemTypes'
  BY Zenon DEF TypeOK, ItemTypes, Respond, itemVars
<1>2. BatchTypes'
  <2>1. pend' \in [Coros -> SUBSET (Replicas \X Keys)]
    BY Zenon DEF TypeOK, BatchTypes, Respond
  <2>2. resp' \in [Coros -> [Keys -> [type : RespTypes, ver : Nat, val : Vals]]]
    BY Zenon DEF TypeOK, BatchTypes, Respond
  <2>3. QED BY <2>1, <2>2, Zenon DEF TypeOK, BatchTypes, Respond
<1>3. PhaseInv'
  <2> SUFFICES ASSUME NEW d \in Coros PROVE Phase(d)'
    BY Zenon DEF PhaseInv
  <2>1. CASE d # c
    <3>1. Same(d)
      BY <2>1, Domains, Zenon DEF Same, Respond, itemVars
    <3>2. QED BY <3>1, SameHeld, Zenon DEF PhaseInv
  <2>2. CASE d = c
    <3>1. /\ status' = status /\ pc' = pc /\ rs' = rs /\ ws' = ws
          /\ execWsLocked' = execWsLocked /\ pendLog' = pendLog
      BY Zenon DEF Respond, itemVars
    <3>2. pend'[c] = pend[c] \ {<<0, k>>}
      BY Domains, Zenon DEF Respond
    <3>3. \A j \in Keys : resp'[c][j].type = IF j = k THEN t ELSE resp[c][j].type
      BY Domains, Zenon DEF Respond
    <3>4. Phase(c)
      BY Zenon DEF PhaseInv
    <3>5. CASE pc[c] = "read"
      BY <2>2, <3>1, <3>2, <3>3, <3>4, <3>5, Zenon DEF Phase
    <3>6. CASE pc[c] = "validate"
      BY <2>2, <3>1, <3>2, <3>4, <3>6, Zenon DEF Phase
    <3>7. QED BY <3>5, <3>6, Zenon
  <2> QED BY <2>1, <2>2, Zenon
<1> QED BY <1>1, <1>2, <1>3, Zenon

\* An answer changes what c holds by at most the key that it answers for.
LEMMA RespondHeld ==
  ASSUME Types, PhaseInv, NEW c \in Coros, NEW k \in Keys,
         <<0, k>> \in pend[c], pc[c] \in {"read", "validate"},
         NEW t \in RespTypes \ {"none"}, NEW v \in Nat, NEW x \in Vals,
         Respond(c, k, t, v, x)
  PROVE  /\ \A d \in Coros \ {c} : Held(d)' = Held(d)
         /\ k \in rs[c] \/ t # "success" => Held(c)' = Held(c)
         /\ k \in ws[c] /\ pc[c] = "read" /\ t = "success" =>
              k \notin Held(c) /\ Held(c)' = Held(c) \cup {k}
<1> TypeOK
  BY Zenon DEF Types
<1>1. \A d \in Coros \ {c} : Same(d)
  BY Zenon DEF Same, Respond, itemVars, TypeOK, BatchTypes
<1>2. \A d \in Coros \ {c} : Held(d)' = Held(d)
  BY <1>1, SameHeld, Zenon DEF PhaseInv
<1>a. /\ status'[c] = status[c] /\ pc'[c] = pc[c] /\ ws'[c] = ws[c]
      /\ execWsLocked'[c] = execWsLocked[c]
      /\ \A j \in Keys : resp'[c][j].type = IF j = k THEN t ELSE resp[c][j].type
  BY Zenon DEF Respond, itemVars, TypeOK, BatchTypes
<1>b. /\ ws[c] \subseteq Keys /\ rs[c] \cap ws[c] = {}
      /\ pc[c] = "read" => resp[c][k].type = "none" /\ k \notin execWsLocked[c]
  BY Zenon DEF PhaseInv, Phase, TypeOK, ItemTypes
<1>3. k \in rs[c] \/ t # "success" => Held(c)' = Held(c)
  BY <1>a, <1>b, Zenon DEF Held, Active
<1>4. k \in ws[c] /\ pc[c] = "read" /\ t = "success" =>
        k \notin Held(c) /\ Held(c)' = Held(c) \cup {k}
  BY <1>a, <1>b, Zenon DEF Held, Active
<1>5. QED BY <1>2, <1>3, <1>4, Zenon

\* An answer that grants nothing.
LEMMA PlainAnswer ==
  ASSUME LockInv, NEW c \in Coros, NEW k \in Keys,
         <<0, k>> \in pend[c], pc[c] \in {"read", "validate"},
         NEW t \in RespTypes \ {"none"}, NEW v \in Nat, NEW x \in Vals,
         Respond(c, k, t, v, x), k \in rs[c] \/ t # "success",
         UNCHANGED <<locker, numLocks>>, version' \in [Buckets -> Nat]
  PROVE  LockInv'
<1>t. TypeOK /\ PhaseInv /\ LockAccounting
  BY Zenon DEF LockInv
<1>1. ItemTypes' /\ BatchTypes' /\ PhaseInv'
  BY <1>t, RespondInv, Zenon DEF Types
<1>2. TypeOK'
  BY <1>1, <1>t, Zenon DEF TypeOK, Respond
<1>3. \A d \in Coros : Held(d)' = Held(d)
  BY <1>t, RespondHeld, Zenon DEF Types
<1>4. LockAccounting'
  BY <1>t, <1>3, KeepAccounting, Zenon DEF Types
<1>5. QED BY <1>1, <1>2, <1>4, Zenon DEF LockInv

\* An answer that grants a lock.
LEMMA GrantAnswer ==
  ASSUME Counting, LockInv, NEW c \in Coros, NEW k \in Keys,
         <<0, k>> \in pend[c], pc[c] = "read", k \in ws[c],
         NEW v \in Nat, NEW x \in Vals, Respond(c, k, "success", v, x),
         CanLock(c, BucketOf[k]), LockBucket(c, BucketOf[k])
  PROVE  LockInv'
<1>t. TypeOK /\ PhaseInv /\ LockAccounting
  BY Zenon DEF LockInv
<1>1. "success" \in RespTypes \ {"none"} /\ pc[c] \in {"read", "validate"}
  BY Zenon DEF RespTypes
<1>2. ItemTypes' /\ BatchTypes' /\ PhaseInv'
  BY <1>t, <1>1, RespondInv, Zenon DEF Types
<1>3. TypeOK'
  BY <1>2, <1>t, ConstAssumption DEF TypeOK, Respond, LockBucket
<1>4. /\ \A d \in Coros \ {c} : Held(d)' = Held(d)
      /\ k \notin Held(c) /\ Held(c)' = Held(c) \cup {k}
  BY <1>t, <1>1, RespondHeld, Zenon DEF Types
<1>5. LockAccounting'
  BY <1>t, <1>4, GrantAccounting, Zenon DEF Types
<1>6. QED BY <1>2, <1>3, <1>5, Zenon DEF LockInv

\* The types of what a read or lock handler sends back.
LEMMA AnswerTypes ==
  ASSUME LockInv, NEW k \in Keys
  PROVE  /\ version[BucketOf[k]] \in Nat /\ store[0][k] \in Vals /\ Absent \in Vals
         /\ 0 \in Nat
         /\ {"success", "not_found", "exists", "locked"} = RespTypes \ {"none"}
<1>1. version \in [Buckets -> Nat] /\ store \in [Replicas -> [Keys -> Vals]]
  BY Zenon DEF LockInv, TypeOK
<1>2. version[BucketOf[k]] \in Nat /\ store[0][k] \in Vals
  BY <1>1, ConstTypes, ReplicasType, Zenon
<1>3. QED BY <1>2, Zenon DEF Vals, RespTypes

\* get_rdonly locks nothing.
LEMMA GetRdonlyInv ==
  ASSUME LockInv, NEW c \in Coros, NEW k \in Keys, GetRdonly(c, k)
  PROVE  LockInv'
<1> USE ConstAssumption
<1>1. /\ <<0, k>> \in pend[c] /\ pc[c] \in {"read", "validate"} /\ k \in rs[c]
      /\ UNCHANGED <<locker, numLocks>> /\ version' \in [Buckets -> Nat]
  BY Zenon DEF GetRdonly, bucketVars, LockInv, TypeOK
<1>2. \E t \in RespTypes \ {"none"}, v \in Nat, x \in Vals : Respond(c, k, t, v, x)
  BY AnswerTypes, Zenon DEF GetRdonly, GetAnswer, GetLocked
<1>3. QED BY <1>1, <1>2, PlainAnswer, Zenon

\* A refused lock request locks nothing.
LEMMA LockRefusedInv ==
  ASSUME LockInv, NEW c \in Coros, NEW k \in Keys, LockRefused(c, k)
  PROVE  LockInv'
<1>1. /\ <<0, k>> \in pend[c] /\ pc[c] \in {"read", "validate"}
      /\ Respond(c, k, "locked", 0, Absent)
      /\ UNCHANGED <<locker, numLocks>> /\ version' \in [Buckets -> Nat]
  BY Zenon DEF LockRefused, GetLocked, LockRequested, bucketVars, LockInv, TypeOK
<1>2. QED BY <1>1, AnswerTypes, PlainAnswer, Zenon

\* get_for_upd and lock_for_ins lock the bucket if and only if they succeed.
LEMMA LockRequestInv ==
  ASSUME Counting, LockInv, NEW c \in Coros, NEW k \in Keys,
         GetForUpd(c, k) \/ LockForIns(c, k)
  PROVE  LockInv'
<1> DEFINE b == BucketOf[k]
<1>1. /\ <<0, k>> \in pend[c] /\ pc[c] = "read" /\ pc[c] \in {"read", "validate"}
      /\ k \in ws[c] /\ CanLock(c, b)
  BY Zenon DEF GetForUpd, LockForIns, LockRequested
<1>2. CASE \E x \in Vals : LockBucket(c, b) /\ Respond(c, k, "success", version[b], x)
  BY <1>1, <1>2, AnswerTypes, GrantAnswer, Zenon
<1>3. CASE \E t \in {"not_found", "exists"} :
             LockAndUnlockBucket(b) /\ Respond(c, k, t, 0, Absent)
  <2>1. UNCHANGED <<locker, numLocks>> /\ version' \in [Buckets -> Nat]
    <3>1. version \in [Buckets -> Nat]
      BY Zenon DEF LockInv, TypeOK
    <3>2. LockAndUnlockBucket(b) /\ b \in Buckets
      BY <1>3, ConstTypes, Zenon
    <3> HIDE DEF b
    <3>3. QED BY <3>1, <3>2 DEF LockAndUnlockBucket
  <2>2. QED BY <1>1, <1>3, <2>1, AnswerTypes, PlainAnswer, Zenon
<1>4. QED BY <1>2, <1>3, AnswerTypes, Zenon DEF GetForUpd, LockForIns

-----------------------------------------------------------------------------
(* The handlers that apply a put, a del or an unlock, and the logger's.    *)

\* One request of the batch of c has been served.
LEMMA ServedPhase ==
  ASSUME Types, PhaseInv, NEW c \in Coros, NEW p,
         pc[c] \notin {"read", "validate"},
         pend' = [pend EXCEPT ![c] = @ \ {p}],
         UNCHANGED <<status, pc, itemVars, pendLog, repl, resp, snap>>
  PROVE  /\ ItemTypes' /\ BatchTypes' /\ PhaseInv'
         /\ \A d \in Coros \ {c} : Held(d)' = Held(d)
<1> TypeOK
  BY Zenon DEF Types
<1>1. ItemTypes'
  BY Zenon DEF TypeOK, ItemTypes, itemVars
<1>2. BatchTypes'
  BY Zenon DEF TypeOK, BatchTypes
<1>3. \A d \in Coros \ {c} : Same(d)
  BY Zenon DEF Same, itemVars, TypeOK, BatchTypes
<1>4. \A d \in Coros \ {c} : Phase(d)' /\ Held(d)' = Held(d)
  BY <1>3, SameHeld, Zenon DEF PhaseInv
<1>5. Phase(c)'
  <2>1. pend'[c] \subseteq pend[c]
    BY Zenon DEF TypeOK, BatchTypes
  <2>2. QED BY <2>1, Zenon DEF PhaseInv, Phase, itemVars
<1>6. QED BY <1>1, <1>2, <1>4, <1>5, Zenon DEF PhaseInv

\* A put or del at the primary and an unlock give back the lock of their key.
LEMMA GivesBack ==
  ASSUME Types, PhaseInv, NEW c \in Coros, NEW k \in Keys,
         pc[c] \in {"primary", "abort"}, <<0, k>> \in pend[c],
         pend' = [pend EXCEPT ![c] = @ \ {<<0, k>>}],
         UNCHANGED <<status, pc, itemVars, resp>>
  PROVE  k \in Held(c) /\ Held(c)' = Held(c) \ {k}
<1> TypeOK
  BY Zenon DEF Types
<1>1. Phase(c)
  BY Zenon DEF PhaseInv
<1>2. k \in ws[c]
  BY <1>1, Zenon DEF Phase
<1>3. pend'[c] = pend[c] \ {<<0, k>>}
  BY Zenon DEF TypeOK, BatchTypes
<1>4. pc[c] = "abort" => ~Active(c)
  BY <1>1, Zenon DEF Phase, Active
<1>5. Held(c) = {j \in ws[c] : <<0, j>> \in pend[c]}
  BY <1>4, Zenon DEF Held
<1>6. Held(c)' = {j \in ws[c] : <<0, j>> \in pend'[c]}
  BY <1>4, Zenon DEF Held, Active, itemVars
<1>7. QED BY <1>2, <1>3, <1>5, <1>6, Zenon

\* An unlock request of abort() gives one lock back.
LEMMA UnlockInv ==
  ASSUME Counting, LockInv, NEW c \in Coros, NEW k \in Keys, Unlock(c, k)
  PROVE  LockInv'
<1>t. TypeOK /\ PhaseInv /\ LockAccounting
  BY Zenon DEF LockInv
<1>1. /\ ItemTypes' /\ BatchTypes' /\ PhaseInv'
      /\ \A d \in Coros \ {c} : Held(d)' = Held(d)
  BY <1>t, ServedPhase, Zenon DEF Types, Unlock
<1>2. k \in Held(c) /\ Held(c)' = Held(c) \ {k}
  <2>1. /\ pc[c] \in {"primary", "abort"} /\ <<0, k>> \in pend[c]
        /\ pend' = [pend EXCEPT ![c] = @ \ {<<0, k>>}]
        /\ UNCHANGED <<status, pc, itemVars, resp>>
    BY Zenon DEF Unlock
  <2>2. QED BY <2>1, <1>t, GivesBack, Zenon DEF Types
<1>3. /\ LockAccounting' /\ numLocks' \in [Buckets -> Nat]
      /\ locker' \in [Buckets -> Coros \cup {NoCaller}]
      /\ version' \in [Buckets -> Nat]
  BY <1>t, <1>1, <1>2, ReleaseAccounting, Zenon DEF Types, Unlock
<1>4. TypeOK'
  BY <1>t, <1>1, <1>3, Zenon DEF TypeOK, Unlock
<1>5. QED BY <1>1, <1>3, <1>4, Zenon DEF LockInv

\* A put or del gives one lock back at the primary and none at a backup.
LEMMA UpdateInv ==
  ASSUME Counting, LockInv, NEW c \in Coros, NEW k \in Keys, NEW r \in Replicas, Update(c, r, k)
  PROVE  LockInv'
<1>t. TypeOK /\ PhaseInv /\ LockAccounting /\ Phase(c)
  BY Zenon DEF LockInv, PhaseInv
<1>1. /\ ItemTypes' /\ BatchTypes' /\ PhaseInv'
      /\ \A d \in Coros \ {c} : Held(d)' = Held(d)
  BY <1>t, ServedPhase, Zenon DEF Types, Update
<1>2. store' \in [Replicas -> [Keys -> Vals]]
  BY <1>t, Zenon DEF Update, NewVal, TypeOK, ItemTypes, Vals, Written
<1>3. CASE r = 0
  <2>1. pc[c] = "primary"
    BY <1>3, <1>t DEF Update, Phase
  <2>2. k \in Held(c) /\ Held(c)' = Held(c) \ {k}
    <3>1. /\ pc[c] \in {"primary", "abort"} /\ <<0, k>> \in pend[c]
          /\ pend' = [pend EXCEPT ![c] = @ \ {<<0, k>>}]
          /\ UNCHANGED <<status, pc, itemVars, resp>>
      BY <1>3, <2>1, Zenon DEF Update
    <3>2. QED BY <3>1, <1>t, GivesBack, Zenon DEF Types
  <2>3. /\ LockAccounting' /\ numLocks' \in [Buckets -> Nat]
        /\ locker' \in [Buckets -> Coros \cup {NoCaller}]
        /\ version' \in [Buckets -> Nat]
    BY <1>3, <1>t, <1>1, <2>2, ReleaseAccounting, Zenon DEF Types, Update
  <2>4. TypeOK'
    BY <1>t, <1>1, <1>2, <2>3, Zenon DEF TypeOK, Update
  <2>5. QED BY <1>1, <2>3, <2>4, Zenon DEF LockInv
<1>4. CASE r # 0
  <2>1. UNCHANGED bucketVars
    BY <1>4, Zenon DEF Update
  <2>2. pc[c] = "backup"
    BY <1>4, <1>t, Zenon DEF Update, Phase
  <2>3. Held(c)' = Held(c)
    BY <2>2, Zenon DEF Held, Active, Update, itemVars
  <2>4. LockAccounting'
    BY <1>t, <1>1, <2>1, <2>3, KeepAccounting, Zenon DEF Types, bucketVars
  <2>5. TypeOK'
    BY <1>t, <1>1, <1>2, <2>1, Zenon DEF TypeOK, Update, bucketVars
  <2>6. QED BY <1>1, <2>4, <2>5, Zenon DEF LockInv
<1>5. QED BY <1>3, <1>4, Zenon

\* The logger's handler touches no lock.
LEMMA SaveLogRecordInv ==
  ASSUME LockInv, NEW c \in Coros, NEW r \in 1 .. NumBackups, SaveLogRecord(c, r)
  PROVE  LockInv'
<1>t. TypeOK /\ PhaseInv /\ LockAccounting /\ Phase(c)
  BY Zenon DEF LockInv, PhaseInv
<1>1. ItemTypes'
  BY <1>t, Zenon DEF TypeOK, ItemTypes, SaveLogRecord, itemVars
<1>2. BatchTypes'
  BY <1>t, Zenon DEF TypeOK, BatchTypes, SaveLogRecord
<1>3. logRecord' \in [1 .. NumBackups -> [Coros ->
        [txn : Nat, entries : SUBSET (Keys \X (Vals \cup {ItemBytes}))]]]
  <2>1. LogRecord(c) \in [txn : Nat, entries : SUBSET (Keys \X (Vals \cup {ItemBytes}))]
    <3>1. txn[c] \in Nat /\ ws[c] \subseteq Keys
      BY <1>t, Zenon DEF TypeOK, ItemTypes
    <3>2. {<<k, LoggedObj(c, k)>> : k \in ws[c]} \subseteq Keys \X (Vals \cup {ItemBytes})
      <4>1. \A k \in ws[c] : <<k, LoggedObj(c, k)>> \in Keys \X (Vals \cup {ItemBytes})
        BY <3>1, Zenon DEF LoggedObj
      <4>2. QED BY <4>1, Zenon
    <3>3. QED BY <3>1, <3>2, Zenon DEF LogRecord
  <2>2. QED BY <2>1, <1>t, Zenon DEF SaveLogRecord, TypeOK
<1>4. TypeOK'
  BY <1>t, <1>1, <1>2, <1>3, Zenon DEF TypeOK, SaveLogRecord, bucketVars
<1>5. \A d \in Coros \ {c} : Same(d)
  BY <1>t, Zenon DEF Same, SaveLogRecord, TypeOK, BatchTypes, itemVars
<1>6. pc[c] = "log"
  BY <1>t, Zenon DEF SaveLogRecord, Phase
<1>7. Phase(c)'
  BY <1>t, <1>6, Zenon DEF SaveLogRecord, Phase, itemVars
<1>8. Held(c)' = Held(c)
  BY Zenon DEF SaveLogRecord, Held, Active, itemVars
<1>9. QED BY <1>4, <1>5, <1>7, <1>8, QuietStep, Zenon DEF Types, SaveLogRecord, bucketVars

-----------------------------------------------------------------------------
(* The coordinator reads.                                                  *)

\* What is known of a batch of keys that the application adds.
LEMMA BatchKeys ==
  ASSUME NEW p \in Batches
  PROVE  /\ p.rd \subseteq Keys /\ DOMAIN p.wr \subseteq Keys
         /\ p.rd \cap DOMAIN p.wr = {}
         /\ \A k \in DOMAIN p.wr : p.wr[k] \in Modes
BY ConstAssumption, Zenon

\* An entry of an array of the coordinators is given a new value.
LEMMA Assigned ==
  ASSUME NEW S, NEW f \in [Coros -> S], NEW c \in Coros, NEW x \in S
  PROVE  [f EXCEPT ![c] = x] \in [Coros -> S]
OBVIOUS

\* The sets and the batch of c after do_read() has sent its requests have their types.
LEMMA SendReadTypes ==
  ASSUME Types, NEW c \in Coros, NEW p \in Batches, NEW rd \in SUBSET Keys,
         NEW wr \in SUBSET Keys, SendRead(c, rd, wr, p)
  PROVE  /\ rs' \in [Coros -> SUBSET Keys] /\ ws' \in [Coros -> SUBSET Keys]
         /\ mode' \in [Coros -> [Keys -> Modes]]
         /\ pend' \in [Coros -> SUBSET (Replicas \X Keys)]
         /\ pc' \in [Coros -> {"run", "read", "validate", "log", "backup", "primary", "abort"}]
<1>t. /\ rs \in [Coros -> SUBSET Keys] /\ ws \in [Coros -> SUBSET Keys]
      /\ mode \in [Coros -> [Keys -> Modes]]
      /\ pend \in [Coros -> SUBSET (Replicas \X Keys)]
      /\ pc \in [Coros -> {"run", "read", "validate", "log", "backup", "primary", "abort"}]
  BY Zenon DEF Types, TypeOK, ItemTypes, BatchTypes
<1>s. /\ rs' = [rs EXCEPT ![c] = rd \cup p.rd]
      /\ ws' = [ws EXCEPT ![c] = wr \cup DOMAIN p.wr]
      /\ mode' = [mode EXCEPT ![c] =
           [k \in Keys |-> IF k \in DOMAIN p.wr THEN p.wr[k] ELSE mode[c][k]]]
      /\ pend' = [pend EXCEPT ![c] = {0} \X (p.rd \cup DOMAIN p.wr)]
      /\ pc' = [pc EXCEPT ![c] = "read"]
  BY Zenon DEF SendRead
<1>1. rs' \in [Coros -> SUBSET Keys] /\ ws' \in [Coros -> SUBSET Keys]
  BY <1>t, <1>s, BatchKeys, Zenon
<1>2. mode' \in [Coros -> [Keys -> Modes]]
  <2>1. [k \in Keys |-> IF k \in DOMAIN p.wr THEN p.wr[k] ELSE mode[c][k]] \in [Keys -> Modes]
    BY <1>t, BatchKeys
  <2>2. QED BY <2>1, <1>t, <1>s, Assigned, Zenon
<1>3. pend' \in [Coros -> SUBSET (Replicas \X Keys)]
  <2>1. {0} \X (p.rd \cup DOMAIN p.wr) \in SUBSET (Replicas \X Keys)
    BY BatchKeys, ReplicasType, Zenon
  <2>2. QED BY <2>1, <1>t, <1>s, Assigned, Zenon
<1>4. pc' \in [Coros -> {"run", "read", "validate", "log", "backup", "primary", "abort"}]
  BY <1>t, <1>s, Zenon
<1>5. QED BY <1>1, <1>2, <1>3, <1>4, Zenon

\* start() and the first do_read() of a transaction hold nothing yet.
LEMMA StartInv ==
  ASSUME LockInv, NEW c \in Coros, Start(c)
  PROVE  LockInv'
<1>p. PICK p \in Batches : SendRead(c, {}, {}, p)
  BY Zenon DEF Start
<1>t. Types /\ Phase(c)
  BY Zenon DEF LockInv, PhaseInv, Types
<1>s. /\ status' = [status EXCEPT ![c] = "in_progress"]
      /\ txn' = [txn EXCEPT ![c] = txn[c] + 1]
      /\ execExists' = [execExists EXCEPT ![c] = {}]
      /\ execVersion' = [execVersion EXCEPT ![c] = [k \in Keys |-> 0]]
      /\ execWsLocked' = [execWsLocked EXCEPT ![c] = {}]
      /\ obj' = [obj EXCEPT ![c] = [k \in Keys |-> Absent]]
      /\ snap' = [snap EXCEPT ![c] = [k \in Keys |-> Absent]]
  BY Zenon DEF Start
<1>u. UNCHANGED <<bucketVars, store, logRecord, pendLog, repl, resp>>
  BY <1>p, Zenon DEF SendRead
<1>r. /\ Running(c) /\ pend[c] = {} /\ pendLog[c] = {} /\ resp[c] = [k \in Keys |-> NoResp]
      /\ ~Active(c)
  BY <1>t, Zenon DEF Phase, Start, Running, Active
<1>1. /\ rs' \in [Coros -> SUBSET Keys] /\ ws' \in [Coros -> SUBSET Keys]
      /\ mode' \in [Coros -> [Keys -> Modes]]
      /\ pend' \in [Coros -> SUBSET (Replicas \X Keys)]
      /\ pc' \in [Coros -> {"run", "read", "validate", "log", "backup", "primary", "abort"}]
  <2>1. {} \in SUBSET Keys
    OBVIOUS
  <2>2. QED BY <2>1, <1>p, <1>t, SendReadTypes, Zenon
<1>2. ItemTypes'
  <2>1. txn \in [Coros -> Nat] /\ execVersion \in [Coros -> [Keys -> Nat]]
    BY <1>t, Zenon DEF Types, TypeOK, ItemTypes
  <2>2. txn' \in [Coros -> Nat] /\ execVersion' \in [Coros -> [Keys -> Nat]]
    BY <2>1, <1>s
  <2>3. /\ execExists \in [Coros -> SUBSET Keys] /\ execWsLocked \in [Coros -> SUBSET Keys]
        /\ obj \in [Coros -> [Keys -> Vals]] /\ snap \in [Coros -> [Keys -> Vals \cup Coros]]
    BY <1>t, Zenon DEF Types, TypeOK, ItemTypes
  <2>4. execExists' \in [Coros -> SUBSET Keys] /\ execWsLocked' \in [Coros -> SUBSET Keys]
    BY <2>3, <1>s, Zenon
  <2>5. obj' \in [Coros -> [Keys -> Vals]] /\ snap' \in [Coros -> [Keys -> Vals \cup Coros]]
    <3>1. /\ [k \in Keys |-> Absent] \in [Keys -> Vals]
          /\ [k \in Keys |-> Absent] \in [Keys -> Vals \cup Coros]
      BY Zenon DEF Vals
    <3>2. QED BY <3>1, <2>3, <1>s, Assigned, Zenon
  <2>6. QED BY <1>1, <2>2, <2>4, <2>5, Zenon DEF ItemTypes
<1>3. BatchTypes'
  <2>1. /\ status \in [Coros -> {"in_progress", "must_abort", "committed", "aborted"}]
        /\ pendLog \in [Coros -> SUBSET (1 .. NumBackups)] /\ repl \in [Coros -> Replicas]
        /\ resp \in [Coros -> [Keys -> [type : RespTypes, ver : Nat, val : Vals]]]
    BY <1>t, Zenon DEF Types, TypeOK, BatchTypes
  <2>2. status' \in [Coros -> {"in_progress", "must_abort", "committed", "aborted"}]
    BY <2>1, <1>s, Zenon
  <2>3. QED BY <1>1, <1>u, <2>1, <2>2, Zenon DEF BatchTypes
<1>4. Types'
  BY <1>2, <1>3, <1>u, <1>t, Zenon DEF Types, TypeOK, bucketVars
<1>5. \A d \in Coros \ {c} : Same(d)
  BY <1>p, <1>s, <1>t, Domains, Zenon DEF Same, SendRead
<1>a. ReadSent(c, {}, {}, p)
  BY <1>p, <1>t, SendReadAt, Zenon
<1>b. execWsLocked'[c] = {} /\ status'[c] = "in_progress" /\ pendLog'[c] = {}
  BY <1>s, <1>t, <1>r, <1>u, Domains, Zenon
<1>c. \A k \in Keys : resp'[c][k].type = "none"
  BY <1>a, <1>r, NoRespType, Zenon DEF ReadSent
<1>6. Phase(c)'
  BY <1>a, <1>b, <1>c, BatchKeys, Zenon DEF Phase, ReadSent
<1>7. Held(c) = {}
  BY <1>r, Zenon DEF Running, Held
<1>8. Held(c)' = {}
  BY <1>a, <1>b, <1>c, BatchKeys, Zenon DEF Held, Active, ReadSent
<1>9. QED BY <1>4, <1>5, <1>6, <1>7, <1>8, <1>u, QuietStep, Zenon DEF bucketVars

\* A later do_read() keeps the locks of the earlier ones.
LEMMA ReadMoreInv ==
  ASSUME LockInv, NEW c \in Coros, ReadMore(c)
  PROVE  LockInv'
<1>p. PICK p \in Batches : SendRead(c, rs[c], ws[c], p)
  BY Zenon DEF ReadMore
<1>t. Types /\ Phase(c)
  BY Zenon DEF LockInv, PhaseInv, Types
<1>k. rs[c] \in SUBSET Keys /\ ws[c] \in SUBSET Keys
  BY <1>t, Typed, Zenon
<1>s. UNCHANGED <<status, txn, execExists, execVersion, execWsLocked, obj, snap>>
  BY Zenon DEF ReadMore
<1>u. UNCHANGED <<bucketVars, store, logRecord, pendLog, repl, resp>>
  BY <1>p, Zenon DEF SendRead
<1>r. /\ Running(c) /\ pend[c] = {} /\ pendLog[c] = {} /\ resp[c] = [k \in Keys |-> NoResp]
      /\ status[c] = "in_progress" /\ execWsLocked[c] = ws[c] /\ rs[c] \cap ws[c] = {}
  BY <1>t, Zenon DEF Phase, ReadMore, Running
<1>1. /\ rs' \in [Coros -> SUBSET Keys] /\ ws' \in [Coros -> SUBSET Keys]
      /\ mode' \in [Coros -> [Keys -> Modes]]
      /\ pend' \in [Coros -> SUBSET (Replicas \X Keys)]
      /\ pc' \in [Coros -> {"run", "read", "validate", "log", "backup", "primary", "abort"}]
  BY <1>p, <1>t, <1>k, SendReadTypes, Zenon
<1>2. ItemTypes' /\ BatchTypes'
  BY <1>1, <1>s, <1>u, <1>t, Zenon DEF Types, TypeOK, ItemTypes, BatchTypes
<1>4. Types'
  BY <1>2, <1>u, <1>t, Zenon DEF Types, TypeOK, bucketVars
<1>5. \A d \in Coros \ {c} : Same(d)
  BY <1>p, <1>s, <1>t, Domains, Zenon DEF Same, SendRead
<1>a. ReadSent(c, rs[c], ws[c], p)
  BY <1>p, <1>t, SendReadAt, Zenon
<1>c. \A k \in Keys : resp'[c][k].type = "none"
  BY <1>a, <1>r, NoRespType, Zenon DEF ReadSent
<1>6. Phase(c)'
  <2>1. rs'[c] \cap ws'[c] = {} /\ execWsLocked'[c] \subseteq ws'[c]
    BY <1>a, <1>r, <1>s, BatchKeys, Zenon DEF ReadSent
  <2>2. /\ pend'[c] \subseteq {0} \X (rs'[c] \cup ws'[c])
        /\ \A k \in execWsLocked'[c] : <<0, k>> \notin pend'[c]
        /\ \A k \in ws'[c] : k \in execWsLocked'[c] \/ <<0, k>> \in pend'[c]
    BY <1>a, <1>r, <1>s, Zenon DEF ReadSent
  <2>3. pc'[c] = "read" /\ status'[c] = "in_progress" /\ pendLog'[c] = {}
    BY <1>a, <1>r, <1>s, <1>u, Zenon DEF ReadSent
  <2>4. QED BY <2>1, <2>2, <2>3, <1>c, Zenon DEF Phase
<1>7. Held(c) = execWsLocked[c]
  BY <1>r, Zenon DEF Running, Held, Active
<1>8. Held(c)' = execWsLocked[c]
  BY <1>a, <1>r, <1>s, <1>c, <1>k, BatchKeys, Zenon DEF Held, Active, ReadSent
<1>9. QED BY <1>4, <1>5, <1>6, <1>7, <1>8, <1>u, QuietStep, Zenon DEF bucketVars

-----------------------------------------------------------------------------
(* The steps of commit() and abort() change the status, the phase and the  *)
(* batch of c, and no item.                                                *)

NoResps == [k \in Keys |-> NoResp]

Control(c, st, ph, reqs, logs) ==
  /\ status' = [status EXCEPT ![c] = st]
  /\ pc' = [pc EXCEPT ![c] = ph]
  /\ pend' = [pend EXCEPT ![c] = reqs]
  /\ pendLog' = [pendLog EXCEPT ![c] = logs]
  /\ repl' \in [Coros -> Replicas]

\* A coordinator step that only moves its phase and its batch, and after which
\* it holds what it held before.
LEMMA ControlStep ==
  ASSUME LockInv, NEW c \in Coros,
         NEW st \in {"in_progress", "must_abort", "committed", "aborted"},
         NEW ph \in {"run", "validate", "log", "backup", "primary", "abort"},
         NEW reqs \in SUBSET (Replicas \X Keys), NEW logs \in SUBSET (1 .. NumBackups),
         Control(c, st, ph, reqs, logs),
         UNCHANGED <<bucketVars, store, logRecord, itemVars>>,
         resp' = resp \/ resp' = [resp EXCEPT ![c] = NoResps],
         snap' \in [Coros -> [Keys -> Vals \cup Coros]],
         Phase(c)', Held(c)' = Held(c)
  PROVE  LockInv'
<1>t. TypeOK
  BY Zenon DEF LockInv
<1>1. ItemTypes'
  BY <1>t, Zenon DEF TypeOK, ItemTypes, itemVars
<1>2. BatchTypes'
  <2>1. NoResps \in [Keys -> [type : RespTypes, ver : Nat, val : Vals]]
    BY Zenon DEF NoResps, NoResp, RespTypes, Vals
  <2>2. resp' \in [Coros -> [Keys -> [type : RespTypes, ver : Nat, val : Vals]]]
    BY <2>1, <1>t, Zenon DEF TypeOK, BatchTypes
  <2>3. QED BY <2>2, <1>t, Zenon DEF TypeOK, BatchTypes, Control
<1>3. TypeOK'
  BY <1>1, <1>2, <1>t, Zenon DEF TypeOK, bucketVars
<1>4. \A d \in Coros \ {c} : Same(d)
  BY <1>t, Zenon DEF Same, Control, TypeOK, BatchTypes, itemVars
<1>5. QED BY <1>3, <1>4, QuietStep, Zenon DEF Types, bucketVars

\* The end of a transaction as a control step.
LEMMA FinishControl ==
  ASSUME Types, NEW c \in Coros, NEW o, Finish(c, o)
  PROVE  Control(c, o, "run", pend[c], pendLog[c])
<1> TypeOK
  BY Zenon DEF Types
<1> QED BY Zenon DEF Finish, Control, TypeOK, BatchTypes

\* abort() as a control step.
LEMMA SendAbortControl ==
  ASSUME Types, NEW c \in Coros, SendAbort(c), pend[c] = {}
  PROVE  Control(c, "aborted", IF execWsLocked[c] = {} THEN "run" ELSE "abort",
                 {0} \X execWsLocked[c], pendLog[c])
<1> TypeOK
  BY Zenon DEF Types
<1>1. CASE execWsLocked[c] = {}
  <2>1. {0} \X execWsLocked[c] = pend[c]
    BY <1>1, Zenon
  <2>2. QED BY <1>1, <2>1, FinishControl, Zenon DEF Types, SendAbort
<1>2. CASE execWsLocked[c] # {}
  BY <1>2, Zenon DEF SendAbort, Control, TypeOK, BatchTypes
<1>3. QED BY <1>1, <1>2, Zenon

\* Sending a batch as a control step.
LEMMA SendControl ==
  ASSUME Types, NEW c \in Coros, NEW ph, NEW reqs, Send(c, ph, reqs),
         repl' \in [Coros -> Replicas]
  PROVE  Control(c, status[c], ph, reqs, pendLog[c])
<1> TypeOK
  BY Zenon DEF Types
<1>1. status' = [status EXCEPT ![c] = status[c]] /\ pendLog' = [pendLog EXCEPT ![c] = pendLog[c]]
  BY Zenon DEF Send, TypeOK, BatchTypes
<1>2. QED BY <1>1, Zenon DEF Send, Control

\* The batch of updates to the primaries as a control step.
LEMMA SendPrimaryControl ==
  ASSUME Types, NEW c \in Coros, SendPrimary(c)
  PROVE  Control(c, status[c], "primary", {0} \X ws[c], pendLog[c])
<1> TypeOK
  BY Zenon DEF Types
<1>1. repl' \in [Coros -> Replicas]
  BY Zenon DEF SendPrimary, TypeOK, BatchTypes
<1>2. QED BY <1>1, SendControl, Zenon DEF Types, SendPrimary

\* Tx::log() as a control step.
LEMMA SendLogControl ==
  ASSUME Types, NEW c \in Coros, SendLog(c), pend[c] = {}, pendLog[c] = {}
  PROVE  \/ Control(c, status[c], "primary", {0} \X ws[c], {})
         \/ NumBackups # 0 /\ Control(c, status[c], "log", {}, 1 .. NumBackups)
<1> TypeOK
  BY Zenon DEF Types
<1>1. CASE NumBackups = 0
  BY <1>1, SendPrimaryControl, Zenon DEF Types, SendLog
<1>2. CASE NumBackups # 0
  <2>1. status' = [status EXCEPT ![c] = status[c]] /\ pend' = [pend EXCEPT ![c] = {}]
    BY <1>2, Zenon DEF SendLog, TypeOK, BatchTypes
  <2>2. /\ pc' = [pc EXCEPT ![c] = "log"] /\ pendLog' = [pendLog EXCEPT ![c] = 1 .. NumBackups]
        /\ repl' \in [Coros -> Replicas]
    BY <1>2, Zenon DEF SendLog, TypeOK, BatchTypes
  <2>3. QED BY <2>1, <2>2, <1>2, Zenon DEF Control
<1>3. QED BY <1>1, <1>2, Zenon

\* A batch of updates to the backups as a control step.
LEMMA SendBackupsControl ==
  ASSUME Types, NEW c \in Coros, NEW r \in 1 .. NumBackups, SendBackups(c, r)
  PROVE  \E reqs \in SUBSET ((1 .. NumBackups) \X ws[c]) :
           Control(c, status[c], "backup", reqs, pendLog[c])
<1> TypeOK
  BY Zenon DEF Types
<1>r. repl' \in [Coros -> Replicas]
  <2>1. NumBackups \in Replicas /\ r \in Replicas
    BY ConstTypes DEF Replicas
  <2>2. QED BY <2>1, Zenon DEF SendBackups, TypeOK, BatchTypes
<1>1. CASE BackupsInOneBatch(c)
  <2>1. Control(c, status[c], "backup", (1 .. NumBackups) \X ws[c], pendLog[c])
    BY <1>1, <1>r, SendControl, Zenon DEF Types, SendBackups
  <2>2. QED BY <2>1, Zenon
<1>2. CASE ~BackupsInOneBatch(c)
  <2>1. Control(c, status[c], "backup", {r} \X ws[c], pendLog[c])
    BY <1>2, <1>r, SendControl, Zenon DEF Types, SendBackups
  <2>2. {r} \X ws[c] \in SUBSET ((1 .. NumBackups) \X ws[c])
    OBVIOUS
  <2>3. QED BY <2>1, <2>2, Zenon
<1>3. QED BY <1>1, <1>2, Zenon

\* A control step gives the status, phase and batch of c their new values and
\* leaves its items alone.
LEMMA ControlAt ==
  ASSUME Types, NEW c \in Coros, NEW st, NEW ph, NEW reqs, NEW logs,
         Control(c, st, ph, reqs, logs), UNCHANGED itemVars
  PROVE  After(c, st, ph, reqs, logs)
<1> TypeOK
  BY Zenon DEF Types
<1> QED BY Zenon DEF After, Control, TypeOK, BatchTypes, itemVars

\* The steps that end a transaction: commit_single_read(), abort_rdonly(), and
\* the return from the primary's and from abort()'s batch.
LEMMA EndsInv ==
  ASSUME LockInv, NEW c \in Coros,
         CommitSingleRead(c) \/ AbortRdonly(c) \/ AbortDone(c) \/ PrimaryDone(c)
  PROVE  LockInv'
<1> USE ReplicasType
<1>t. TypeOK /\ Phase(c)
  BY Zenon DEF LockInv, PhaseInv
<1>r. /\ pend[c] = {} /\ pendLog[c] = {} /\ resp[c] = NoResps
      /\ pc[c] \in {"run", "abort", "primary"}
      /\ pc[c] = "abort" => status[c] = "aborted"
  BY <1>t, Zenon DEF Phase, CommitSingleRead, AbortRdonly, AbortDone, PrimaryDone,
              BatchDone, Running, NoResps
<1>1. PICK st \in {"committed", "aborted"} : Control(c, st, "run", {}, {})
  <2>1. CASE CommitSingleRead(c)
    <3>1. Control(c, "committed", "run", {}, {})
      BY <2>1, <1>t, <1>r, Zenon DEF CommitSingleRead, Running, Control, TypeOK, BatchTypes
    <3>2. QED BY <3>1, Zenon
  <2>2. CASE AbortRdonly(c)
    <3>1. Control(c, "aborted", "run", {}, {})
      BY <2>2, <1>t, <1>r, Zenon DEF AbortRdonly, Running, Control, TypeOK, BatchTypes
    <3>2. QED BY <3>1, Zenon
  <2>3. CASE AbortDone(c)
    <3>1. Control(c, "aborted", "run", {}, {})
      BY <2>3, <1>t, <1>r, Zenon DEF AbortDone, BatchDone, Control, TypeOK, BatchTypes
    <3>2. QED BY <3>1, Zenon
  <2>4. CASE PrimaryDone(c)
    <3>1. Control(c, "committed", "run", {}, {})
      BY <2>4, <1>t, <1>r, FinishControl, Zenon DEF Types, PrimaryDone
    <3>2. QED BY <3>1, Zenon
  <2>5. QED BY <2>1, <2>2, <2>3, <2>4, Zenon
<1>2. UNCHANGED <<bucketVars, store, logRecord, itemVars, resp, snap>>
  BY Zenon DEF CommitSingleRead, AbortRdonly, AbortDone, PrimaryDone
<1>3. Held(c) = {}
  BY <1>t, <1>r, Zenon DEF CommitSingleRead, AbortRdonly, AbortDone, PrimaryDone,
                    Running, BatchDone, Held, Active, Phase
<1>a. After(c, st, "run", {}, {}) /\ resp'[c] = NoResps
  <2>1. UNCHANGED itemVars /\ UNCHANGED resp
    BY <1>2, Zenon
  <2>2. QED BY <2>1, <1>1, <1>t, <1>r, ControlAt, Zenon DEF Types
<1>4. Held(c)' = {}
  BY <1>a, Zenon DEF After, Held, Active
<1>5. Phase(c)'
  BY <1>a, <1>t, Zenon DEF After, Phase, NoResps
<1>6. snap' \in [Coros -> [Keys -> Vals \cup Coros]]
  BY <1>2, <1>t, Zenon DEF TypeOK, ItemTypes
<1>7. /\ {} \in SUBSET (Replicas \X Keys) /\ {} \in SUBSET (1 .. NumBackups)
      /\ resp' = resp /\ UNCHANGED <<bucketVars, store, logRecord, itemVars>>
      /\ Held(c)' = Held(c)
  BY <1>2, <1>3, <1>4, Zenon
<1>8. QED BY <1>1, <1>5, <1>6, <1>7, ControlStep, Zenon

\* abort(), and validate() followed by abort(): the keys to unlock move from
\* the execWsLocked flags of the items to the batch.
LEMMA SendAbortInv ==
  ASSUME LockInv, NEW c \in Coros, SendAbort(c), Active(c),
         pc[c] \in {"run", "validate"}, pend[c] = {},
         UNCHANGED <<bucketVars, store, logRecord, itemVars, snap>>,
         resp' = resp \/ resp' = [resp EXCEPT ![c] = NoResps],
         resp'[c] = NoResps
  PROVE  LockInv'
<1> USE ReplicasType
<1>t. TypeOK /\ Phase(c)
  BY Zenon DEF LockInv, PhaseInv
<1> DEFINE ph == IF execWsLocked[c] = {} THEN "run" ELSE "abort"
           reqs == {0} \X execWsLocked[c]
<1>r. pendLog[c] = {}
  BY <1>t, Zenon DEF Phase
<1>1. Control(c, "aborted", ph, reqs, {})
  BY <1>t, <1>r, SendAbortControl, Zenon DEF Types
<1>a. After(c, "aborted", ph, reqs, {})
  <2>1. UNCHANGED itemVars
    OBVIOUS
  <2>2. QED BY <2>1, <1>1, <1>t, ControlAt, Zenon DEF Types
<1>2. Held(c) = execWsLocked[c]
  BY <1>t, HeldAtRest, Zenon DEF Types
<1>3. Held(c)' = execWsLocked[c]
  BY <1>a, <1>t, Zenon DEF After, Held, Active, Phase
<1>4. Phase(c)'
  BY <1>a, <1>t, Zenon DEF After, Phase, NoResps
<1>5. /\ reqs \in SUBSET (Replicas \X Keys)
      /\ snap' \in [Coros -> [Keys -> Vals \cup Coros]]
  BY <1>t, Zenon DEF TypeOK, ItemTypes
<1>6. ph \in {"run", "validate", "log", "backup", "primary", "abort"} /\ {} \in SUBSET (1 .. NumBackups)
  BY Zenon
<1> HIDE DEF ph, reqs
<1>7. QED BY <1>1, <1>2, <1>3, <1>4, <1>5, <1>6, ControlStep, Zenon

\* commit() and validate() go on to the log, or without backups to the primary.
LEMMA SendLogInv ==
  ASSUME LockInv, NEW c \in Coros, SendLog(c), status[c] = "in_progress",
         pc[c] \in {"run", "validate"}, pend[c] = {},
         UNCHANGED <<bucketVars, store, logRecord, itemVars>>,
         snap' \in [Coros -> [Keys -> Vals \cup Coros]],
         resp' = resp \/ resp' = [resp EXCEPT ![c] = NoResps],
         resp'[c] = NoResps
  PROVE  LockInv'
<1> USE ReplicasType
<1>t. TypeOK /\ Phase(c)
  BY Zenon DEF LockInv, PhaseInv
<1>r. pendLog[c] = {} /\ execWsLocked[c] = ws[c]
  BY <1>t, Zenon DEF Phase
<1>u. UNCHANGED itemVars
  OBVIOUS
<1>s. status[c] \in {"in_progress", "must_abort", "committed", "aborted"}
  OBVIOUS
<1>2. Held(c) = ws[c]
  BY <1>t, <1>r, HeldAtRest, Zenon DEF Types, Active
<1>3. /\ {0} \X ws[c] \in SUBSET (Replicas \X Keys)
      /\ {} \in SUBSET (Replicas \X Keys) /\ {} \in SUBSET (1 .. NumBackups)
      /\ 1 .. NumBackups \in SUBSET (1 .. NumBackups)
  BY <1>t, Zenon DEF TypeOK, ItemTypes
<1>4. CASE Control(c, status[c], "primary", {0} \X ws[c], {})
  <2>a. After(c, status[c], "primary", {0} \X ws[c], {})
    BY <1>4, <1>t, <1>u, ControlAt, Zenon DEF Types
  <2>1. Held(c)' = ws[c]
    BY <2>a, Zenon DEF After, Held, Active
  <2>2. Phase(c)'
    BY <2>a, <1>t, <1>r, Zenon DEF After, Phase, NoResps
  <2>3. QED BY <1>2, <1>3, <1>4, <1>s, <2>1, <2>2, ControlStep, Zenon
<1>5. CASE NumBackups # 0 /\ Control(c, status[c], "log", {}, 1 .. NumBackups)
  <2>a. After(c, status[c], "log", {}, 1 .. NumBackups)
    BY <1>5, <1>t, <1>u, ControlAt, Zenon DEF Types
  <2>1. Held(c)' = ws[c]
    BY <2>a, <1>r, Zenon DEF After, Held, Active
  <2>2. Phase(c)'
    BY <2>a, <1>t, <1>r, <1>5, Zenon DEF After, Phase, NoResps
  <2>3. QED BY <1>2, <1>3, <1>5, <1>s, <2>1, <2>2, ControlStep, Zenon
<1>6. QED BY <1>4, <1>5, <1>t, <1>r, SendLogControl, Zenon DEF Types

\* commit() keeps the lock invariant.
LEMMA CommitInv ==
  ASSUME LockInv, NEW c \in Coros, Commit(c)
  PROVE  LockInv'
<1> USE ReplicasType
<1>t. TypeOK /\ Phase(c)
  BY Zenon DEF LockInv, PhaseInv
<1>r. /\ pend[c] = {} /\ pendLog[c] = {} /\ resp[c] = NoResps /\ resp' = resp
      /\ execWsLocked[c] = ws[c]
      /\ pc[c] = "run" /\ status[c] = "in_progress"
      /\ UNCHANGED <<bucketVars, store, logRecord, itemVars>>
  BY <1>t, Zenon DEF Phase, Commit, Running, NoResps
<1>1. snap' \in [Coros -> [Keys -> Vals \cup Coros]]
  <2>1. Snapshot(c) \in [Keys -> Vals \cup Coros]
    BY <1>t, ConstTypes DEF Snapshot, CanLock, TypeOK
  <2>2. QED BY <2>1, <1>t, Zenon DEF Commit, TypeOK, ItemTypes
<1>2. CASE rs[c] # {}
  <2>1. Control(c, status[c], "validate", {0} \X rs[c], {})
    <3>1. repl' \in [Coros -> Replicas] /\ Send(c, "validate", {0} \X rs[c])
      BY <1>2, <1>t, Zenon DEF Commit, SendValidate, TypeOK, BatchTypes
    <3>2. QED BY <3>1, <1>t, <1>r, SendControl, Zenon DEF Types
  <2>a. After(c, status[c], "validate", {0} \X rs[c], {})
    <3>1. UNCHANGED itemVars
      BY <1>r, Zenon
    <3>2. QED BY <2>1, <3>1, <1>t, ControlAt, Zenon DEF Types
  <2>2. Held(c) = ws[c]
    BY <1>t, <1>r, HeldAtRest, Zenon DEF Types, Active
  <2>3. Held(c)' = ws[c]
    BY <2>a, <1>r, Zenon DEF After, Held, Active
  <2>4. Phase(c)'
    BY <2>a, <1>t, <1>r, Zenon DEF After, Phase
  <2>5. {0} \X rs[c] \in SUBSET (Replicas \X Keys) /\ {} \in SUBSET (1 .. NumBackups)
    BY <1>t, Zenon DEF TypeOK, ItemTypes
  <2>6. status[c] \in {"in_progress", "must_abort", "committed", "aborted"}
    BY <1>r, Zenon
  <2>7. QED BY <1>1, <1>r, <2>1, <2>2, <2>3, <2>4, <2>5, <2>6, ControlStep, Zenon
<1>3. CASE rs[c] = {}
  <2>1. SendLog(c)
    BY <1>3, Zenon DEF Commit
  <2>2. QED BY <2>1, <1>1, <1>r, SendLogInv, Zenon
<1>4. QED BY <1>2, <1>3, Zenon

\* abort() keeps the lock invariant.
LEMMA AbortInv ==
  ASSUME LockInv, NEW c \in Coros, Abort(c)
  PROVE  LockInv'
<1>1. /\ pend[c] = {} /\ resp[c] = NoResps /\ resp' = resp /\ pc[c] = "run"
      /\ UNCHANGED <<bucketVars, store, logRecord, itemVars, snap>>
      /\ SendAbort(c) /\ Active(c)
  BY Zenon DEF LockInv, PhaseInv, Phase, Abort, Running, NoResps, Active
<1>2. QED BY <1>1, SendAbortInv, Zenon

\* The end of validate(), whichever way it goes, keeps the lock invariant.
LEMMA ValidateDoneInv ==
  ASSUME LockInv, NEW c \in Coros, ValidateDone(c)
  PROVE  LockInv'
<1> USE ReplicasType
<1>t. TypeOK /\ Phase(c)
  BY Zenon DEF LockInv, PhaseInv
<1>r. /\ pend[c] = {} /\ pendLog[c] = {}
      /\ execWsLocked[c] = ws[c]
      /\ pc[c] = "validate" /\ status[c] = "in_progress"
      /\ UNCHANGED <<bucketVars, store, logRecord, itemVars, snap>>
  BY <1>t, Zenon DEF Phase, ValidateDone, BatchDone
<1>1. snap' \in [Coros -> [Keys -> Vals \cup Coros]]
  BY <1>r, <1>t, Zenon DEF TypeOK, ItemTypes
<1>2. resp' = [resp EXCEPT ![c] = NoResps] /\ resp'[c] = NoResps
  BY <1>t, Zenon DEF ValidateDone, NoResps, TypeOK, BatchTypes
<1>3. CASE SendAbort(c)
  BY <1>3, <1>r, <1>2, SendAbortInv, Zenon DEF Active
<1>4. CASE SendLog(c)
  BY <1>4, <1>r, <1>1, <1>2, SendLogInv, Zenon
<1>5. CASE ws[c] = {} /\ Finish(c, "committed")
  <2>1. Control(c, "committed", "run", {}, {})
    BY <1>5, <1>t, <1>r, FinishControl, Zenon DEF Types
  <2>a. After(c, "committed", "run", {}, {})
    <3>1. UNCHANGED itemVars
      BY <1>r, Zenon
    <3>2. QED BY <2>1, <3>1, <1>t, ControlAt, Zenon DEF Types
  <2>2. Held(c) = {} /\ Held(c)' = {}
    BY <1>5, <2>a, Zenon DEF After, Held
  <2>3. Phase(c)'
    BY <2>a, <1>2, <1>t, Zenon DEF After, Phase, NoResps
  <2>4. {} \in SUBSET (Replicas \X Keys) /\ {} \in SUBSET (1 .. NumBackups)
    OBVIOUS
  <2>5. QED BY <2>1, <2>2, <2>3, <2>4, <1>1, <1>2, <1>r, ControlStep, Zenon
<1>6. QED BY <1>3, <1>4, <1>5, Zenon DEF ValidateDone

\* The batches to the backups and to the primary.
LEMMA UpdatesInv ==
  ASSUME LockInv, NEW c \in Coros, LogDone(c) \/ BackupDone(c)
  PROVE  LockInv'
<1> USE ReplicasType
<1>t. TypeOK /\ Phase(c)
  BY Zenon DEF LockInv, PhaseInv
<1>r. /\ pend[c] = {} /\ pendLog[c] = {} /\ resp[c] = NoResps /\ resp' = resp
      /\ execWsLocked[c] = ws[c]
      /\ pc[c] \in {"log", "backup"} /\ status[c] = "in_progress"
      /\ UNCHANGED <<bucketVars, store, logRecord, itemVars, snap>>
  BY <1>t, Zenon DEF Phase, LogDone, BackupDone, BatchDone, NoResps
<1>1. snap' \in [Coros -> [Keys -> Vals \cup Coros]]
  BY <1>r, <1>t, Zenon DEF TypeOK, ItemTypes
<1>2. Held(c) = ws[c]
  BY <1>t, <1>r, HeldAtRest, Zenon DEF Types, Active
<1>u. UNCHANGED itemVars /\ UNCHANGED <<bucketVars, store, logRecord, itemVars>>
  BY <1>r, Zenon
<1>s. status[c] \in {"in_progress", "must_abort", "committed", "aborted"}
  BY <1>r, Zenon
<1>3. CASE SendPrimary(c)
  <2>1. Control(c, status[c], "primary", {0} \X ws[c], {})
    BY <1>3, <1>t, <1>r, SendPrimaryControl, Zenon DEF Types
  <2>a. After(c, status[c], "primary", {0} \X ws[c], {})
    BY <2>1, <1>t, <1>r, <1>u, ControlAt, Zenon DEF Types
  <2>2. Held(c)' = ws[c]
    BY <2>a, Zenon DEF After, Held, Active
  <2>3. Phase(c)'
    BY <2>a, <1>t, <1>r, Zenon DEF After, Phase, NoResps
  <2>4. {0} \X ws[c] \in SUBSET (Replicas \X Keys) /\ {} \in SUBSET (1 .. NumBackups)
    BY <1>t, Zenon DEF TypeOK, ItemTypes
  <2>5. QED BY <1>1, <1>2, <1>r, <1>s, <1>u, <2>1, <2>2, <2>3, <2>4, ControlStep, Zenon
<1>4. ASSUME NEW r \in 1 .. NumBackups, SendBackups(c, r) PROVE LockInv'
  <2>1. PICK reqs \in SUBSET ((1 .. NumBackups) \X ws[c]) :
          Control(c, status[c], "backup", reqs, pendLog[c])
    BY <1>4, <1>t, SendBackupsControl, Zenon DEF Types
  <2>a. After(c, status[c], "backup", reqs, {})
    BY <2>1, <1>t, <1>r, <1>u, ControlAt, Zenon DEF Types
  <2>2. Held(c)' = ws[c]
    BY <2>a, <1>r, Zenon DEF After, Held, Active
  <2>3. Phase(c)'
    BY <2>a, <1>t, <1>r, Zenon DEF After, Phase, NoResps
  <2>4. reqs \in SUBSET (Replicas \X Keys) /\ pendLog[c] \in SUBSET (1 .. NumBackups)
    BY <1>t, Zenon DEF TypeOK, ItemTypes, BatchTypes
  <2>5. QED BY <1>1, <1>2, <1>r, <1>s, <1>u, <2>1, <2>2, <2>3, <2>4, ControlStep, Zenon
<1>5. CASE LogDone(c)
  <2>1. 1 \in 1 .. NumBackups
    <3>1. NumBackups # 0
      BY <1>r, <1>t, Zenon DEF Phase
    <3>2. QED BY <3>1, ConstTypes
  <2>2. QED BY <2>1, <1>4, <1>5, Zenon DEF LogDone
<1>6. CASE BackupDone(c)
  <2>1. CASE repl[c] < NumBackups
    <3>1. repl[c] + 1 \in 1 .. NumBackups
      BY <2>1, <1>t, ConstTypes DEF TypeOK, BatchTypes, Replicas
    <3>2. QED BY <3>1, <2>1, <1>4, <1>6, Zenon DEF BackupDone
  <2>2. CASE ~(repl[c] < NumBackups)
    BY <2>2, <1>3, <1>6, Zenon DEF BackupDone
  <2>3. QED BY <2>1, <2>2, Zenon
<1>7. QED BY <1>5, <1>6, Zenon

\* do_read() turns the responses into flags of the items.
LEMMA ReadDoneInv ==
  ASSUME LockInv, NEW c \in Coros, ReadDone(c)
  PROVE  LockInv'
<1> USE ReplicasType
<1>t. TypeOK /\ Phase(c)
  BY Zenon DEF LockInv, PhaseInv
<1> DEFINE got == Answered(c, "success")
           failed == Answered(c, "locked")
                  \cup ((Answered(c, "exists") \cup Answered(c, "not_found")) \cap ws[c])
<1>1. ItemTypes'
  <2>r. resp[c] \in [Keys -> [type : RespTypes, ver : Nat, val : Vals]]
    BY <1>t, Zenon DEF TypeOK, BatchTypes
  <2>s. \A k \in Keys : resp[c][k].ver \in Nat /\ resp[c][k].val \in Vals
    BY <2>r, Zenon
  <2>i. execVersion \in [Coros -> [Keys -> Nat]] /\ obj \in [Coros -> [Keys -> Vals]]
    BY <1>t, Zenon DEF TypeOK, ItemTypes
  <2>1. execVersion' \in [Coros -> [Keys -> Nat]]
    <3>1. PICK s : execVersion' = [execVersion EXCEPT ![c] =
             [k \in Keys |-> IF k \in s THEN resp[c][k].ver ELSE execVersion[c][k]]]
      BY <2>i, Zenon DEF ReadDone
    <3>2. QED BY <3>1, <2>s, <2>i, Zenon
  <2>2. obj' \in [Coros -> [Keys -> Vals]]
    <3>1. PICK s : obj' = [obj EXCEPT ![c] =
             [k \in Keys |-> IF k \in s THEN resp[c][k].val ELSE obj[c][k]]]
      BY <2>i, Zenon DEF ReadDone
    <3>2. QED BY <3>1, <2>s, <2>i, Zenon
  <2>3. /\ execExists' \in [Coros -> SUBSET Keys]
        /\ execWsLocked' \in [Coros -> SUBSET Keys]
    BY <1>t, Zenon DEF ReadDone, Answered, TypeOK, ItemTypes
  <2>4. QED BY <2>1, <2>2, <2>3, <1>t, Zenon DEF ReadDone, TypeOK, ItemTypes
<1>2. BatchTypes'
  <2>1. NoResps \in [Keys -> [type : RespTypes, ver : Nat, val : Vals]]
    BY Zenon DEF NoResps, NoResp, RespTypes, Vals
  <2>2. resp' \in [Coros -> [Keys -> [type : RespTypes, ver : Nat, val : Vals]]]
    BY <2>1, <1>t, Zenon DEF TypeOK, BatchTypes, ReadDone, NoResps
  <2>3. status' = [status EXCEPT ![c] = IF failed = {} THEN @ ELSE "must_abort"]
    BY Zenon DEF ReadDone
  <2>4. QED BY <2>2, <2>3, <1>t, Zenon DEF TypeOK, BatchTypes, ReadDone
<1>3. TypeOK'
  BY <1>1, <1>2, <1>t, Zenon DEF TypeOK, ReadDone, bucketVars
<1>4. \A d \in Coros \ {c} : Same(d)
  BY <1>t, Zenon DEF Same, ReadDone, TypeOK, ItemTypes, BatchTypes
<1>r. /\ pc[c] = "read" /\ status[c] = "in_progress" /\ pend[c] = {} /\ pendLog[c] = {}
      /\ rs[c] \cap ws[c] = {} /\ execWsLocked[c] \subseteq ws[c]
      /\ \A k \in ws[c] : k \in execWsLocked[c] \/ resp[c][k].type # "none"
  BY <1>t, Zenon DEF Phase, ReadDone, BatchDone, TypeOK, ItemTypes
<1>a. /\ rs'[c] = rs[c] /\ ws'[c] = ws[c] /\ pc'[c] = "run"
      /\ pend'[c] = {} /\ pendLog'[c] = {} /\ resp'[c] = NoResps
      /\ execWsLocked'[c] = execWsLocked[c] \cup (got \cap ws[c])
      /\ status'[c] = IF failed = {} THEN "in_progress" ELSE "must_abort"
  BY <1>r, <1>t, Zenon DEF ReadDone, TypeOK, ItemTypes, BatchTypes, NoResps
<1>5. failed = {} => ws[c] \subseteq execWsLocked[c] \cup got
  <2> SUFFICES ASSUME failed = {}, NEW k \in ws[c], k \notin execWsLocked[c]
               PROVE  k \in got
    OBVIOUS
  <2>1. k \in Keys /\ resp[c][k].type \in RespTypes \ {"none"}
    <3>1. ws[c] \subseteq Keys
      BY <1>t, Zenon DEF TypeOK, ItemTypes
    <3>2. resp[c] \in [Keys -> [type : RespTypes, ver : Nat, val : Vals]]
      BY <1>t, Zenon DEF TypeOK, BatchTypes
    <3>3. QED BY <3>1, <3>2, <1>r, Zenon
  <2>2. QED BY <2>1, Zenon DEF Answered, RespTypes
<1>6. got \subseteq Keys
  BY Zenon DEF Answered
<1>7. Held(c) = execWsLocked[c] \cup (got \cap ws[c])
  <2>1. \A k \in ws[c] : k \in got <=> resp[c][k].type = "success"
    BY <1>t, Zenon DEF Answered, TypeOK, ItemTypes
  <2>2. QED BY <2>1, <1>r, Zenon DEF Held, Active
<1> HIDE DEF got, failed
<1>8. Phase(c)'
  BY <1>a, <1>r, <1>5, Zenon DEF Phase, NoResps
<1>9. Held(c)' = execWsLocked[c] \cup (got \cap ws[c])
  BY <1>a, <1>r, Zenon DEF Held, Active
<1>10. UNCHANGED <<locker, numLocks>>
  BY Zenon DEF ReadDone, bucketVars
<1>11. QED BY <1>3, <1>4, <1>7, <1>8, <1>9, <1>10, QuietStep, Zenon DEF Types

\* Every step keeps the lock invariant.
LEMMA NextLockInv ==
  ASSUME Counting, LockInv, [Next]_vars
  PROVE  LockInv'
<1>1. ASSUME NEW c \in Coros, Coordinator(c) PROVE LockInv'
  BY <1>1, StartInv, ReadMoreInv, ReadDoneInv, EndsInv, CommitInv, ValidateDoneInv,
     UpdatesInv, AbortInv, Zenon DEF Coordinator
<1>2. ASSUME NEW c \in Coros, Server(c) PROVE LockInv'
  <2>1. CASE \E k \in Keys : GetRdonly(c, k) \/ LockRefused(c, k)
    BY <2>1, GetRdonlyInv, LockRefusedInv, Zenon
  <2>2. CASE \E k \in Keys : GetForUpd(c, k) \/ LockForIns(c, k)
    BY <2>2, LockRequestInv, Zenon
  <2>3. CASE \E k \in Keys : Unlock(c, k)
    BY <2>3, UnlockInv, Zenon
  <2>4. CASE \E k \in Keys, r \in Replicas : Update(c, r, k)
    BY <2>4, UpdateInv, Zenon
  <2>5. CASE \E r \in 1 .. NumBackups : SaveLogRecord(c, r)
    BY <2>5, SaveLogRecordInv, Zenon
  <2>6. QED BY <1>2, <2>1, <2>2, <2>3, <2>4, <2>5, Zenon DEF Server
<1>3. CASE UNCHANGED vars
  <2>1. TypeOK'
    BY <1>3, Zenon DEF LockInv, TypeOK, ItemTypes, BatchTypes, vars, bucketVars, itemVars
  <2>2. \A d \in Coros : Same(d)
    BY <1>3, Zenon DEF Same, vars, itemVars
  <2>3. \A d \in Coros : Phase(d)' /\ Held(d)' = Held(d)
    BY <2>2, SameHeld, Zenon DEF LockInv, PhaseInv
  <2>4. LockAccounting'
    BY <1>3, <2>3, KeepAccounting, Zenon DEF Types, LockInv, vars, bucketVars
  <2>5. QED BY <2>1, <2>3, <2>4, Zenon DEF LockInv, PhaseInv
<1>4. QED BY <1>1, <1>2, <1>3, Zenon DEF Next

-----------------------------------------------------------------------------
(* What the locks say about who writes.                                    *)

\* Whoever has puts and dels on the wire holds the locks of their keys.
LEMMA HoldersExclusive ==
  ASSUME LockInv PROVE BackupWritersExclusive
<1>1. ASSUME NEW c \in Coros, NEW p \in pend[c], pc[c] \in {"backup", "primary"}
      PROVE  p[2] \in Keys /\ locker[BucketOf[p[2]]] = c
  <2>1. TypeOK /\ Phase(c) /\ LockAccounting
    BY Zenon DEF LockInv, PhaseInv
  <2>2. p[2] \in ws[c] /\ p[2] \in Keys /\ p = <<p[1], p[2]>>
    BY <2>1, <1>1 DEF TypeOK, BatchTypes, Phase
  <2>3. p[2] \in Held(c)
    <3>1. CASE pc[c] = "backup"
      BY <3>1, <2>1, <2>2, Zenon DEF Phase, Held, Active
    <3>2. CASE pc[c] = "primary"
      <4>1. p[1] = 0
        BY <3>2, <2>1, Zenon DEF Phase
      <4>2. QED BY <4>1, <3>2, <2>2, Zenon DEF Held
    <3>3. QED BY <3>1, <3>2, <1>1, Zenon
  <2>4. BucketOf[p[2]] \in Buckets /\ p[2] \in HeldIn(c, BucketOf[p[2]])
    BY <2>2, <2>3, ConstAssumption, Zenon DEF HeldIn
  <2>5. QED BY <2>1, <2>2, <2>4, Zenon DEF LockAccounting, Accounts
<1>2. QED BY <1>1 DEF BackupWritersExclusive

-----------------------------------------------------------------------------
(* Validation by version.                                                  *)

\* A step that leaves the primaries alone only has to move no version back.
LEMMA NoWrite ==
  ASSUME Types, NEW k \in Keys, UNCHANGED store, NEW d \in Buckets,
         \/ UNCHANGED bucketVars
         \/ UnlockBucket(d) \/ LockAndUnlockBucket(d)
         \/ \E c \in Coros : LockBucket(c, d)
  PROVE  KeyVersioned(k)
<1> TypeOK
  BY Zenon DEF Types
<1>1. BucketOf[k] \in Buckets
  BY ConstAssumption, Zenon
<1>2. version'[BucketOf[k]] >= version[BucketOf[k]]
  BY <1>1, VersionsGrow, Zenon DEF Types
<1>3. QED BY <1>2, Zenon DEF KeyVersioned

\* A put or del at the primary finds its bucket locked by its own coordinator.
LEMMA UpdateVersioned ==
  ASSUME LockInv, NEW k \in Keys, NEW c \in Coros, NEW j \in Keys, NEW r \in Replicas,
         Update(c, r, j)
  PROVE  KeyVersioned(k)
<1> USE ConstAssumption
<1>t. TypeOK /\ Phase(c) /\ LockAccounting
  BY Zenon DEF LockInv, PhaseInv
<1>1. BucketOf[j] \in Buckets /\ BucketOf[k] \in Buckets
  OBVIOUS
<1>2. version'[BucketOf[k]] >= version[BucketOf[k]]
  BY <1>t, <1>1, VersionsGrow, Zenon DEF Types, Update
<1>3. CASE r # 0 \/ j # k
  <2>1. store'[0][k] = store[0][k]
    BY <1>t, <1>3, ReplicasType, Zenon DEF Update, TypeOK
  <2>2. QED BY <1>2, <2>1, Zenon DEF KeyVersioned
<1>4. CASE r = 0 /\ j = k
  <2>1. pc[c] = "primary" /\ k \in ws[c] /\ <<0, k>> \in pend[c]
    BY <1>4, <1>t DEF Update, Phase
  <2>2. k \in HeldIn(c, BucketOf[k])
    BY <2>1, Zenon DEF HeldIn, Held
  <2>3. locker[BucketOf[k]] = c
    BY <1>t, <1>1, <2>2, Zenon DEF LockAccounting, Accounts
  <2>4. UnlockBucket(BucketOf[k])
    BY <1>4, Zenon DEF Update
  <2>5. version[BucketOf[k]] \in Nat
    BY <1>t, <1>1, Zenon DEF TypeOK
  <2>6. locker'[BucketOf[k]] = locker[BucketOf[k]] \/ version'[BucketOf[k]] > version[BucketOf[k]]
    BY <1>t, <1>1, <2>4, <2>5 DEF UnlockBucket, TypeOK
  <2>7. store'[0][k] = NewVal(c, k)
    BY <1>t, <1>4, ReplicasType, Zenon DEF Update, TypeOK
  <2>8. store'[0][k] \in {Absent, <<c, txn[c]>>}
    BY <2>7, Zenon DEF NewVal
  <2>9. QED BY <1>2, <2>3, <2>6, <2>8, Zenon DEF KeyVersioned
<1>5. QED BY <1>3, <1>4, Zenon

\* No step changes the contents of a bucket behind an unchanged version and a free lock.
LEMMA StepVersioned ==
  ASSUME LockInv, [Next]_vars, NEW k \in Keys
  PROVE  KeyVersioned(k)
<1> USE ConstAssumption
<1>t. TypeOK /\ BucketOf[k] \in Buckets
  BY Zenon DEF LockInv
<1>1. CASE UNCHANGED vars
  BY <1>t, <1>1, NoWrite, Zenon DEF Types, vars
<1>2. ASSUME NEW c \in Coros, Coordinator(c) PROVE KeyVersioned(k)
  <2>1. UNCHANGED <<bucketVars, store>>
    BY <1>2, CoordinatorLeaves, Zenon
  <2>2. QED BY <1>t, <2>1, NoWrite, Zenon DEF Types
<1>3. ASSUME NEW c \in Coros, Server(c) PROVE KeyVersioned(k)
  <2>1. CASE \E j \in Keys : GetRdonly(c, j) \/ LockRefused(c, j)
    <3>1. UNCHANGED <<bucketVars, store>>
      BY <2>1, Zenon DEF GetRdonly, LockRefused, GetAnswer, GetLocked, Respond
    <3>2. QED BY <1>t, <3>1, NoWrite, Zenon DEF Types
  <2>2. ASSUME NEW j \in Keys, GetForUpd(c, j) \/ LockForIns(c, j) PROVE KeyVersioned(k)
    <3>1. /\ UNCHANGED store
          /\ LockAndUnlockBucket(BucketOf[j]) \/ LockBucket(c, BucketOf[j])
      BY <2>2, Zenon DEF GetForUpd, LockForIns, Respond
    <3>2. QED BY <1>t, <3>1, NoWrite, Zenon DEF Types
  <2>3. ASSUME NEW j \in Keys, Unlock(c, j) PROVE KeyVersioned(k)
    <3>1. UNCHANGED store /\ UnlockBucket(BucketOf[j])
      BY <2>3, Zenon DEF Unlock
    <3>2. QED BY <1>t, <3>1, NoWrite, Zenon DEF Types
  <2>4. CASE \E j \in Keys, r \in Replicas : Update(c, r, j)
    BY <2>4, UpdateVersioned, Zenon
  <2>5. CASE \E r \in 1 .. NumBackups : SaveLogRecord(c, r)
    <3>1. UNCHANGED <<bucketVars, store>>
      BY <2>5, Zenon DEF SaveLogRecord
    <3>2. QED BY <1>t, <3>1, NoWrite, Zenon DEF Types
  <2>6. QED BY <1>3, <2>1, <2>2, <2>3, <2>4, <2>5, Zenon DEF Server
<1>4. QED BY <1>1, <1>2, <1>3, Zenon DEF Next

-----------------------------------------------------------------------------
(* The sizes of batches.                                                   *)

\* The keys of the transaction of c, and the requests that it has on the wire.
Fit(c) ==
  /\ Cardinality(rs[c] \cup ws[c]) <= MaxMsgCoro
  /\ Cardinality(pend[c]) <= MaxMsgCoro

FitInv == \A c \in Coros : Fit(c)

\* What the sizes of batches need to know of sets of keys and of requests.  It follows
\* from there being finitely many (RequestsCounted in TxProofs).
Sizes ==
  /\ Cardinality({}) = 0
  /\ \A P \in SUBSET (Replicas \X Keys) :
       Cardinality(P) \in Nat /\ \A Q \in SUBSET P : Cardinality(Q) <= Cardinality(P)
  /\ \A L \in SUBSET (1 .. NumBackups) :
       Cardinality(L) \in Nat /\ Cardinality(L) <= NumBackups
  /\ \A S \in SUBSET Keys :
       /\ Cardinality(S) \in Nat
       /\ \A T \in SUBSET S : Cardinality(T) <= Cardinality(S)
       /\ \A r \in Replicas : Cardinality({r} \X S) = Cardinality(S)
       /\ Cardinality((1 .. NumBackups) \X S) = NumBackups * Cardinality(S)

\* A step of c that answers requests, or that sends one request for each of some of
\* the transaction's keys.
LEMMA FitStep ==
  ASSUME Sizes, Types, Types', FitInv, NEW c \in Coros,
         \A d \in Coros \ {c} : rs'[d] = rs[d] /\ ws'[d] = ws[d] /\ pend'[d] = pend[d],
         Cardinality(rs'[c] \cup ws'[c]) <= MaxMsgCoro,
         \/ pend'[c] \subseteq pend[c]
         \/ \E r \in Replicas : pend'[c] \subseteq {r} \X (rs'[c] \cup ws'[c])
         \/ Cardinality(pend'[c]) <= MaxMsgCoro
  PROVE  FitInv'
<1> TypeOK /\ TypeOK'
  BY Zenon DEF Types
<1>1. \A d \in Coros \ {c} : Fit(d)'
  BY Zenon DEF FitInv, Fit
<1>2. Cardinality(pend'[c]) <= MaxMsgCoro
  <2>1. /\ pend[c] \in SUBSET (Replicas \X Keys) /\ pend'[c] \in SUBSET (Replicas \X Keys)
        /\ rs'[c] \cup ws'[c] \in SUBSET Keys
    BY Zenon DEF TypeOK, BatchTypes, ItemTypes
  <2>2. /\ Cardinality(pend[c]) \in Nat /\ Cardinality(pend'[c]) \in Nat /\ MaxMsgCoro \in Nat
        /\ Cardinality(pend[c]) <= MaxMsgCoro
    BY <2>1, ConstAssumption, Zenon DEF Sizes, FitInv, Fit
  <2>3. ASSUME NEW P \in SUBSET (Replicas \X Keys), pend'[c] \subseteq P,
               Cardinality(P) \in Nat, Cardinality(P) <= MaxMsgCoro
        PROVE  Cardinality(pend'[c]) <= MaxMsgCoro
    <3>1. Cardinality(pend'[c]) <= Cardinality(P)
      BY <2>3, Zenon DEF Sizes
    <3>2. QED BY <2>2, <2>3, <3>1
  <2>4. CASE pend'[c] \subseteq pend[c]
    BY <2>1, <2>2, <2>3, <2>4, Zenon
  <2>5. ASSUME NEW r \in Replicas, pend'[c] \subseteq {r} \X (rs'[c] \cup ws'[c])
        PROVE  Cardinality(pend'[c]) <= MaxMsgCoro
    <3> DEFINE S == rs'[c] \cup ws'[c]
    <3>1. S \in SUBSET Keys /\ {r} \X S \in SUBSET (Replicas \X Keys)
      BY <2>1, Zenon
    <3>2. Cardinality(S) <= MaxMsgCoro /\ pend'[c] \subseteq {r} \X S
      BY <2>5, Zenon
    <3> HIDE DEF S
    <3>3. Cardinality({r} \X S) = Cardinality(S) /\ Cardinality(S) \in Nat
      BY <3>1, Zenon DEF Sizes
    <3>4. Cardinality({r} \X S) \in Nat /\ Cardinality({r} \X S) <= MaxMsgCoro
      BY <3>2, <3>3, Zenon
    <3>5. QED BY <2>3, <3>1, <3>2, <3>4, Zenon
  <2>6. QED BY <2>4, <2>5, Zenon
<1>3. QED BY <1>1, <1>2, Zenon DEF FitInv, Fit

\* The backups' requests go out together only if they fit one batch.
LEMMA SendBackupsFit ==
  ASSUME Sizes, Types, NEW c \in Coros, NEW r \in 1 .. NumBackups, SendBackups(c, r)
  PROVE  \/ \E s \in Replicas : pend'[c] = {s} \X ws[c]
         \/ Cardinality(pend'[c]) <= MaxMsgCoro
<1> TypeOK
  BY Zenon DEF Types
<1>1. CASE BackupsInOneBatch(c)
  <2>1. pend'[c] = (1 .. NumBackups) \X ws[c] /\ ws[c] \in SUBSET Keys
    BY <1>1 DEF SendBackups, Send, TypeOK, BatchTypes, ItemTypes
  <2>2. /\ Cardinality((1 .. NumBackups) \X ws[c]) = NumBackups * Cardinality(ws[c])
        /\ Cardinality(ws[c]) \in Nat
    BY <2>1, Zenon DEF Sizes
  <2>3. Cardinality(ws[c]) * NumBackups <= MaxMsgCoro
    BY <1>1, Zenon DEF BackupsInOneBatch
  <2>4. QED BY <2>1, <2>2, <2>3, ConstTypes
<1>2. CASE ~BackupsInOneBatch(c)
  <2>1. pend'[c] = {r} \X ws[c]
    BY <1>2, Zenon DEF SendBackups, Send, TypeOK, BatchTypes
  <2>2. QED BY <2>1, ReplicasType, Zenon
<1>3. QED BY <1>1, <1>2, Zenon

\* do_read() sends one request for each key that was added.
LEMMA SendReadFit ==
  ASSUME Types, NEW c \in Coros, NEW p \in Batches, NEW rd, NEW wr, SendRead(c, rd, wr, p)
  PROVE  /\ \A d \in Coros \ {c} : rs'[d] = rs[d] /\ ws'[d] = ws[d] /\ pend'[d] = pend[d]
         /\ Cardinality(rs'[c] \cup ws'[c]) <= MaxMsgCoro
         /\ pend'[c] \subseteq {0} \X (rs'[c] \cup ws'[c])
<1> TypeOK
  BY Zenon DEF Types
<1>1. /\ rs' = [rs EXCEPT ![c] = rd \cup p.rd]
      /\ ws' = [ws EXCEPT ![c] = wr \cup DOMAIN p.wr]
      /\ pend' = [pend EXCEPT ![c] = {0} \X (p.rd \cup DOMAIN p.wr)]
      /\ Cardinality((p.rd \cup DOMAIN p.wr) \cup rd \cup wr) <= MaxMsgCoro
  BY Zenon DEF SendRead
<1>2. /\ rs'[c] = rd \cup p.rd /\ ws'[c] = wr \cup DOMAIN p.wr
      /\ pend'[c] = {0} \X (p.rd \cup DOMAIN p.wr)
  BY <1>1, Zenon DEF TypeOK, ItemTypes, BatchTypes
<1>3. rs'[c] \cup ws'[c] = (p.rd \cup DOMAIN p.wr) \cup rd \cup wr
  BY <1>2, Zenon
<1>4. \A d \in Coros \ {c} : rs'[d] = rs[d] /\ ws'[d] = ws[d] /\ pend'[d] = pend[d]
  BY <1>1, Zenon DEF TypeOK, ItemTypes, BatchTypes
<1>5. QED BY <1>1, <1>2, <1>3, <1>4, Zenon

\* The steps of commit() and abort() leave the keys alone and send one request for
\* each of some of them, or what SendBackups() sends.
LEMMA CoordinatorFit ==
  ASSUME Sizes, LockInv, Types', FitInv, NEW c \in Coros, Coordinator(c)
  PROVE  FitInv'
<1> TypeOK'
  BY Zenon DEF Types
<1> USE ReplicasType
<1>t. TypeOK /\ Phase(c)
  BY Zenon DEF LockInv, PhaseInv
<1>1. CASE Start(c)
  <2>1. PICK p \in Batches : SendRead(c, {}, {}, p)
    BY <1>1, Zenon DEF Start
  <2>2. QED BY <2>1, <1>t, SendReadFit, FitStep, Zenon DEF Types
<1>2. CASE ReadMore(c)
  <2>1. PICK p \in Batches : SendRead(c, rs[c], ws[c], p)
    BY <1>2, Zenon DEF ReadMore
  <2>2. QED BY <2>1, <1>t, SendReadFit, FitStep, Zenon DEF Types
<1>3. ASSUME rs' = rs, ws' = ws, NEW reqs, pend' = [pend EXCEPT ![c] = reqs],
             \/ reqs \subseteq pend[c]
             \/ \E r \in Replicas : reqs \subseteq {r} \X (rs[c] \cup ws[c])
             \/ Cardinality(reqs) <= MaxMsgCoro
      PROVE  FitInv'
  <2>1. pend'[c] = reqs /\ \A d \in Coros \ {c} : pend'[d] = pend[d]
    BY <1>3, <1>t, Zenon DEF TypeOK, BatchTypes
  <2>2. Cardinality(rs'[c] \cup ws'[c]) <= MaxMsgCoro
    BY <1>3, Zenon DEF FitInv, Fit
  <2>3. QED BY <2>1, <2>2, <1>3, <1>t, FitStep, Zenon DEF Types
<1>4. ASSUME rs' = rs, ws' = ws, pend' = pend PROVE FitInv'
  BY <1>4, Zenon DEF FitInv, Fit
<1>5. ASSUME SendPrimary(c), rs' = rs, ws' = ws PROVE FitInv'
  <2>1. pend' = [pend EXCEPT ![c] = {0} \X ws[c]]
    BY <1>5, Zenon DEF SendPrimary, Send
  <2>2. {0} \X ws[c] \subseteq {0} \X (rs[c] \cup ws[c])
    OBVIOUS
  <2>3. QED BY <2>1, <2>2, <1>3, <1>5, Zenon
<1>6. ASSUME SendAbort(c), rs' = rs, ws' = ws PROVE FitInv'
  <2>1. pend' = pend \/ pend' = [pend EXCEPT ![c] = {0} \X execWsLocked[c]]
    BY <1>6, Zenon DEF SendAbort, Finish
  <2>2. {0} \X execWsLocked[c] \subseteq {0} \X (rs[c] \cup ws[c])
    BY <1>t, Zenon DEF Phase
  <2>3. QED BY <2>1, <2>2, <1>3, <1>4, <1>6, Zenon
<1>7. ASSUME SendLog(c), rs' = rs, ws' = ws PROVE FitInv'
  BY <1>4, <1>5, <1>7, Zenon DEF SendLog
<1>8. ASSUME NEW r \in 1 .. NumBackups, SendBackups(c, r), rs' = rs, ws' = ws PROVE FitInv'
  <2>1. \/ \E s \in Replicas : pend'[c] = {s} \X ws[c]
        \/ Cardinality(pend'[c]) <= MaxMsgCoro
    BY <1>8, <1>t, SendBackupsFit, Zenon DEF Types
  <2>2. pend' = [pend EXCEPT ![c] = pend'[c]]
    BY <1>8, <1>t, Zenon DEF SendBackups, Send, TypeOK, BatchTypes
  <2>3. \A s : {s} \X ws[c] \subseteq {s} \X (rs[c] \cup ws[c])
    OBVIOUS
  <2>4. QED BY <2>1, <2>2, <2>3, <1>3, <1>8, Zenon
<1>9. CASE ReadDone(c) \/ CommitSingleRead(c) \/ AbortRdonly(c) \/ PrimaryDone(c) \/ AbortDone(c)
  BY <1>9, <1>4, Zenon DEF ReadDone, CommitSingleRead, AbortRdonly, PrimaryDone, AbortDone, Finish, itemVars
<1>10. CASE Commit(c)
  <2>1. rs' = rs /\ ws' = ws
    BY <1>10, Zenon DEF Commit, itemVars
  <2>2. CASE rs[c] # {}
    <3>1. pend' = [pend EXCEPT ![c] = {0} \X rs[c]]
      BY <1>10, <2>2, Zenon DEF Commit, SendValidate, Send
    <3>2. {0} \X rs[c] \subseteq {0} \X (rs[c] \cup ws[c])
      OBVIOUS
    <3>3. QED BY <3>1, <3>2, <2>1, <1>3, Zenon
  <2>3. QED BY <2>1, <2>2, <1>7, <1>10, Zenon DEF Commit
<1>11. CASE ValidateDone(c)
  BY <1>11, <1>4, <1>6, <1>7, Zenon DEF ValidateDone, Finish, itemVars
<1>12. CASE Abort(c)
  BY <1>12, <1>6, Zenon DEF Abort, itemVars
<1>13. CASE LogDone(c)
  <2>1. NumBackups # 0
    BY <1>13, <1>t, Zenon DEF LogDone, BatchDone, Phase
  <2>2. 1 \in 1 .. NumBackups
    BY <2>1, ConstTypes
  <2>3. QED BY <2>2, <1>13, <1>8, Zenon DEF LogDone, itemVars
<1>14. CASE BackupDone(c)
  <2>1. repl[c] < NumBackups => repl[c] + 1 \in 1 .. NumBackups
    BY <1>t, ConstTypes DEF TypeOK, BatchTypes, Replicas
  <2>2. QED BY <2>1, <1>14, <1>5, <1>8, Zenon DEF BackupDone, itemVars
<1>15. QED BY <1>1, <1>2, <1>9, <1>10, <1>11, <1>12, <1>13, <1>14, Zenon DEF Coordinator

\* A handler takes a request off the wire.
LEMMA ServerFit ==
  ASSUME Sizes, LockInv, Types', FitInv, NEW c \in Coros, Server(c)
  PROVE  FitInv'
<1> TypeOK'
  BY Zenon DEF Types
<1>t. TypeOK
  BY Zenon DEF LockInv
<1>1. rs' = rs /\ ws' = ws /\ (pend' = pend \/ \E p : pend' = [pend EXCEPT ![c] = @ \ {p}])
  <2>1. CASE \E k \in Keys : GetRdonly(c, k) \/ LockRefused(c, k)
    BY <2>1, Zenon DEF GetRdonly, LockRefused, GetAnswer, GetLocked, Respond, itemVars
  <2>2. CASE \E k \in Keys : GetForUpd(c, k) \/ LockForIns(c, k)
    BY <2>2, Zenon DEF GetForUpd, LockForIns, Respond, itemVars
  <2>3. CASE \E k \in Keys : Unlock(c, k)
    BY <2>3, Zenon DEF Unlock, itemVars
  <2>4. CASE \E k \in Keys, r \in Replicas : Update(c, r, k)
    BY <2>4, Zenon DEF Update, itemVars
  <2>5. CASE \E r \in 1 .. NumBackups : SaveLogRecord(c, r)
    BY <2>5, Zenon DEF SaveLogRecord, itemVars
  <2>6. QED BY <2>1, <2>2, <2>3, <2>4, <2>5, Zenon DEF Server
<1>2. pend'[c] \subseteq pend[c] /\ \A d \in Coros \ {c} : pend'[d] = pend[d]
  BY <1>1, <1>t DEF TypeOK, BatchTypes
<1>3. Cardinality(rs'[c] \cup ws'[c]) <= MaxMsgCoro
  BY <1>1, Zenon DEF FitInv, Fit
<1>4. QED BY <1>1, <1>2, <1>3, <1>t, FitStep, Zenon DEF Types

\* Every step keeps the sizes.
LEMMA NextFitInv ==
  ASSUME Sizes, LockInv, LockInv', FitInv, [Next]_vars
  PROVE  FitInv'
<1>1. TypeOK'
  BY Zenon DEF LockInv
<1>2. CASE UNCHANGED vars
  BY <1>2, Zenon DEF FitInv, Fit, vars, itemVars
<1>3. QED BY <1>1, <1>2, CoordinatorFit, ServerFit, Zenon DEF Types, Next

\* Before the first transaction there is nothing to count.
LEMMA InitFitInv ==
  ASSUME Sizes, Init PROVE FitInv
<1> SUFFICES ASSUME NEW c \in Coros PROVE Fit(c)
  BY Zenon DEF FitInv
<1>1. rs[c] \cup ws[c] = {} /\ pend[c] = {}
  BY Zenon DEF Init
<1>2. Cardinality({}) = 0 /\ MaxMsgCoro \in Nat
  BY ConstAssumption, Zenon DEF Sizes
<1>3. Cardinality(rs[c] \cup ws[c]) = 0 /\ Cardinality(pend[c]) = 0
  BY <1>1, <1>2, Zenon
<1> DEFINE keys == Cardinality(rs[c] \cup ws[c])
           reqs == Cardinality(pend[c])
<1>4. keys = 0 /\ reqs = 0
  BY <1>3, Zenon
<1> HIDE DEF keys, reqs
<1>5. keys <= MaxMsgCoro /\ reqs <= MaxMsgCoro
  BY <1>4, <1>2
<1>6. QED BY <1>5, Zenon DEF Fit, keys, reqs

\* A bucket counts the keys that one transaction has locked in it.
LEMMA FitLocks ==
  ASSUME Sizes, LockInv, FitInv PROVE BatchesFit
<1>m. MaxMsgCoro \in Nat /\ NumBackups \in Nat
  BY ConstAssumption, Zenon
<1>c. ASSUME NEW c \in Coros
      PROVE  Cardinality(pend[c]) + Cardinality(pendLog[c]) <= MaxMsgCoro
  <2> DEFINE requests == Cardinality(pend[c])
             records == Cardinality(pendLog[c])
  <2>1. pend[c] \in SUBSET (Replicas \X Keys) /\ pendLog[c] \in SUBSET (1 .. NumBackups)
    BY Zenon DEF LockInv, TypeOK, BatchTypes
  <2>2. requests \in Nat /\ records \in Nat /\ records <= NumBackups
    BY <2>1, Zenon DEF Sizes
  <2>3. requests <= MaxMsgCoro
    BY Zenon DEF FitInv, Fit
  \* The log batch stands alone: there is none outside the phase "log", and in
  \* that phase no other request.
  <2>4. requests = 0 \/ records = 0
    <3>1. pendLog[c] = {} \/ pend[c] = {}
      BY Zenon DEF LockInv, PhaseInv, Phase
    <3>2. QED BY <3>1, Zenon DEF Sizes
  <2> HIDE DEF requests, records
  <2>5. requests + records <= MaxMsgCoro
    BY <2>2, <2>3, <2>4, <1>m, LogAssumption
  <2>6. QED BY <2>5 DEF requests, records
<1> SUFFICES ASSUME NEW b \in Buckets PROVE numLocks[b] <= MaxMsgCoro
  BY <1>c, Zenon DEF BatchesFit
<1>1. TypeOK /\ Accounts(b)
  BY Zenon DEF LockInv, LockAccounting
<1>2. CASE locker[b] = NoCaller
  <2>1. numLocks[b] = 0
    BY <1>1, <1>2, Zenon DEF Accounts
  <2>2. QED BY <2>1, <1>m
<1>3. CASE locker[b] # NoCaller
  <2>1. PICK c \in Coros : locker[b] = c
    BY <1>1, <1>3, Zenon DEF TypeOK
  <2>2. numLocks[b] = Cardinality(HeldIn(c, b))
    BY <1>1, <1>3, <2>1, Zenon DEF Accounts
  <2>3. HeldIn(c, b) \in SUBSET (rs[c] \cup ws[c]) /\ rs[c] \cup ws[c] \in SUBSET Keys
    BY <1>1, Zenon DEF HeldIn, Held, TypeOK, ItemTypes
  <2>4. /\ Cardinality(HeldIn(c, b)) <= Cardinality(rs[c] \cup ws[c])
        /\ Cardinality(rs[c] \cup ws[c]) \in Nat /\ Cardinality(HeldIn(c, b)) \in Nat
    <3>1. HeldIn(c, b) \in SUBSET Keys
      BY <2>3, Zenon
    <3>2. QED BY <2>3, <3>1, Zenon DEF Sizes
  <2>5. Cardinality(rs[c] \cup ws[c]) <= MaxMsgCoro
    BY Zenon DEF FitInv, Fit
  <2> DEFINE keys == Cardinality(rs[c] \cup ws[c])
             held == Cardinality(HeldIn(c, b))
  <2>6. /\ keys \in Nat /\ held \in Nat /\ numLocks[b] = held
        /\ held <= keys /\ keys <= MaxMsgCoro
    BY <2>2, <2>4, <2>5, Zenon
  <2> HIDE DEF keys, held
  <2>7. QED BY <2>6, <1>m
<1>4. QED BY <1>2, <1>3, Zenon


-----------------------------------------------------------------------------
(* The replicas and the logs.                                              *)

\* The batches to the backups go out in the order of the backups, and the primary's
\* is sent when every backup has the new value.
Updated(c) ==
  /\ pc[c] = "backup" => \A k \in ws[c], r \in 1 .. repl[c] :
       <<r, k>> \in pend[c] \/ store[r][k] = NewVal(c, k)
  /\ pc[c] = "primary" => \A k \in ws[c], r \in 1 .. NumBackups :
       <<0, k>> \in pend[c] => store[r][k] = NewVal(c, k)

\* From Tx::log() to the last update, a log machine stores the record or has it
\* on the wire.
Logged(c) ==
  pc[c] \in {"log", "backup", "primary"} => \A l \in 1 .. NumBackups :
    l \in pendLog[c] \/ logRecord[l][c] = LogRecord(c)

\* Transaction n of c may have left a trace: it is over, or past the point from
\* which it cannot abort.
Past(c, n) ==
  \/ n < txn[c]
  \/ n = txn[c] /\ (pc[c] \in {"log", "backup", "primary"} \/ status[c] = "committed")

Traced(c) ==
  /\ \A r \in Replicas, k \in Keys : \A n \in Nat : store[r][k] = <<c, n>> => Past(c, n)
  /\ \A l \in 1 .. NumBackups : logRecord[l][c].txn # 0 => Past(c, logRecord[l][c].txn)

\* c is updating the replicas of k, and has not given k's lock back.
Writes(c, k) == pc[c] \in {"backup", "primary"} /\ k \in Held(c)

\* Replica r of k has the primary's value, or already the one that is being written.
InStep(k, r) ==
  \/ store[r][k] = store[0][k]
  \/ \E c \in Coros : Writes(c, k) /\ store[r][k] = NewVal(c, k)

ReplInv ==
  /\ LockInv
  /\ \A c \in Coros : Updated(c) /\ Logged(c) /\ Traced(c)
  /\ \A k \in Keys, r \in Replicas : InStep(k, r)

-----------------------------------------------------------------------------
(* What a step does to a transaction that is not its own.                  *)

\* A value that a step changes belongs to another coordinator than c, before and
\* after it, and the log records of c stay.
Foreign(c) ==
  /\ \A r \in Replicas, k \in Keys : store'[r][k] # store[r][k] =>
       k \notin Held(c) /\ \A n \in Nat : store'[r][k] # <<c, n>>
  /\ \A l \in 1 .. NumBackups : logRecord'[l][c] = logRecord[l][c]

\* Another coordinator's step, or that of a handler that serves it, is foreign to c.
LEMMA OthersForeign ==
  ASSUME LockInv, NEW c \in Coros, NEW d \in Coros, d # c, Coordinator(d) \/ Server(d)
  PROVE  Foreign(c)
<1>1. CASE UNCHANGED <<store, logRecord>>
  BY <1>1, Zenon DEF Foreign
<1>2. CASE Coordinator(d)
  BY <1>1, <1>2, CoordinatorLeaves, Zenon
<1>3. CASE \E k \in Keys : GetRdonly(d, k) \/ LockRefused(d, k) \/ Unlock(d, k)
  BY <1>1, <1>3, Zenon DEF GetRdonly, LockRefused, GetAnswer, GetLocked, Respond, Unlock
<1>4. CASE \E k \in Keys : GetForUpd(d, k) \/ LockForIns(d, k)
  BY <1>1, <1>4, Zenon DEF GetForUpd, LockForIns, Respond
<1>5. ASSUME NEW s \in Replicas, NEW j \in Keys, Update(d, s, j) PROVE Foreign(c)
  <2>1. j \notin Held(c)
    <3>1. j \in Held(d)
      BY <1>5, UpdaterHolds, Zenon
    <3>2. QED BY <3>1, HoldersLock, Zenon
  <2>2. \A n \in Nat : NewVal(d, j) # <<c, n>>
    BY ConstAssumption DEF NewVal, Written
  <2>3. logRecord' = logRecord /\ store' = [store EXCEPT ![s][j] = NewVal(d, j)]
    BY <1>5, Zenon DEF Update
  <2>4. DOMAIN store = Replicas /\ \A r \in Replicas : DOMAIN store[r] = Keys
    BY Stored, Zenon DEF Types, LockInv
  <2>5. \A r \in Replicas, k \in Keys : store'[r][k] # store[r][k] =>
          k = j /\ store'[r][k] = NewVal(d, j)
    BY <2>3, <2>4, Zenon
  <2>6. QED BY <2>1, <2>2, <2>3, <2>5, Zenon DEF Foreign
<1>6. ASSUME NEW s \in 1 .. NumBackups, SaveLogRecord(d, s) PROVE Foreign(c)
  <2>1. store' = store /\ logRecord' = [logRecord EXCEPT ![s][d] = LogRecord(d)]
    BY <1>6, Zenon DEF SaveLogRecord
  <2>2. /\ DOMAIN logRecord = 1 .. NumBackups
        /\ \A l \in 1 .. NumBackups : DOMAIN logRecord[l] = Coros
    BY Stored, Zenon DEF Types, LockInv
  <2>3. \A l \in 1 .. NumBackups : logRecord'[l][c] = logRecord[l][c]
    BY <2>1, <2>2, Zenon
  <2>4. QED BY <2>1, <2>3, Zenon DEF Foreign
<1>7. QED BY <1>2, <1>3, <1>4, <1>5, <1>6, Zenon DEF Server

\* What is known of the updates, log records and traces of c outlives a step of others.
LEMMA ForeignKept ==
  ASSUME LockInv, NEW c \in Coros, SameTx(c), Foreign(c),
         Updated(c), Logged(c), Traced(c)
  PROVE  Updated(c)' /\ Logged(c)' /\ Traced(c)'
<1>s. /\ status'[c] = status[c] /\ pc'[c] = pc[c] /\ ws'[c] = ws[c]
      /\ mode'[c] = mode[c] /\ txn'[c] = txn[c] /\ repl'[c] = repl[c]
      /\ pend'[c] = pend[c] /\ pendLog'[c] = pendLog[c]
  BY Zenon DEF SameTx, Same
<1>r. 1 .. repl[c] \subseteq Replicas /\ 1 .. NumBackups \subseteq Replicas /\ ws[c] \subseteq Keys
  <2>1. repl[c] \in Replicas /\ ws[c] \subseteq Keys
    BY Stored, Typed, Zenon DEF Types, LockInv
  <2>2. QED BY <2>1, ConstTypes DEF Replicas
<1>n. \A k : NewVal(c, k)' = NewVal(c, k)
  BY <1>s, Zenon DEF NewVal
<1>h. \A r \in Replicas, k \in Held(c) : store'[r][k] = store[r][k]
  BY HoldersLock, Zenon DEF Foreign
<1>1. Updated(c)'
  <2>1. CASE pc[c] = "backup"
    <3>1. \A k \in ws[c], r \in 1 .. repl[c] : store'[r][k] = store[r][k]
      BY <2>1, <1>h, <1>r, WritersHold, Zenon
    <3>2. QED BY <2>1, <3>1, <1>s, <1>n DEF Updated
  <2>2. CASE pc[c] = "primary"
    <3>1. \A k \in ws[c], r \in 1 .. NumBackups :
            <<0, k>> \in pend[c] => store'[r][k] = store[r][k]
      BY <2>2, <1>h, <1>r, WritersHold, Zenon
    <3>2. QED BY <2>2, <3>1, <1>s, <1>n DEF Updated
  <2>3. QED BY <2>1, <2>2, <1>s, Zenon DEF Updated
<1>2. Logged(c)'
  <2>1. LogRecord(c)' = LogRecord(c)
    BY <1>s, Zenon DEF LogRecord, LoggedObj
  <2>2. QED BY <2>1, <1>s, Zenon DEF Logged, Foreign
<1>3. Traced(c)'
  <2>1. \A n : Past(c, n)' <=> Past(c, n)
    BY <1>s, Zenon DEF Past
  <2>2. QED BY <2>1, Zenon DEF Traced, Foreign
<1>4. QED BY <1>1, <1>2, <1>3, Zenon

-----------------------------------------------------------------------------
(* What a step does to its own transaction.                                *)

\* c goes on writing k, and writes the same value.
WritesKept(c, k) == Writes(c, k) => Writes(c, k)' /\ NewVal(c, k)' = NewVal(c, k)

Replicating(c) ==
  Updated(c)' /\ Logged(c)' /\ Traced(c)' /\ \A k \in Keys : WritesKept(c, k)

\* A transaction that is not past the point from which it cannot abort, before or
\* after the step, or that is over.
LEMMA EarlyStep ==
  ASSUME LockInv, NEW c \in Coros, Traced(c), UNCHANGED <<store, logRecord>>,
         pc'[c] \notin {"log", "backup", "primary"},
         pc[c] # "backup" /\ (pc[c] = "primary" => pend[c] = {}),
         \A n \in Nat : Past(c, n) => Past(c, n)'
  PROVE  Replicating(c)
<1>1. Updated(c)' /\ Logged(c)'
  BY Zenon DEF Updated, Logged
<1>2. Traced(c)'
  <2>1. \A l \in 1 .. NumBackups : logRecord[l][c].txn \in Nat
    BY Stored, Zenon DEF Types, LockInv
  <2>2. QED BY <2>1, Zenon DEF Traced
<1>3. \A k \in Keys : ~Writes(c, k)
  BY Zenon DEF Writes, Held
<1>4. QED BY <1>1, <1>2, <1>3, Zenon DEF Replicating, WritesKept

\* start() takes the next number for its transaction, a later do_read() keeps it.
LEMMA SendReadReplicating ==
  ASSUME LockInv, NEW c \in Coros, Traced(c), Start(c) \/ ReadMore(c)
  PROVE  Replicating(c)
<1>1. PICK rd, wr, p : SendRead(c, rd, wr, p)
  BY Zenon DEF Start, ReadMore
<1>d. DOMAIN pc = Coros /\ DOMAIN txn = Coros /\ txn[c] \in Nat
  BY Domains, Stored, Zenon DEF Types, LockInv
<1>2. UNCHANGED <<store, logRecord>> /\ pc'[c] = "read"
  BY <1>1, <1>d, Zenon DEF SendRead
<1>3. pc[c] = "run"
  BY Zenon DEF Start, ReadMore, Running
<1>4. \A n \in Nat : Past(c, n) => Past(c, n)'
  <2>1. CASE Start(c)
    <3>1. txn'[c] = txn[c] + 1
      BY <2>1, <1>d, Zenon DEF Start
    <3>2. QED BY <3>1, <1>d DEF Past
  <2>2. CASE ReadMore(c)
    BY <2>2, <1>3, Zenon DEF ReadMore, Past
  <2>3. QED BY <2>1, <2>2, Zenon
<1>5. QED BY <1>2, <1>3, <1>4, EarlyStep, Zenon

\* The steps that end a transaction, that go back to the application or that send
\* validate()'s or abort()'s batch, and the handlers of reads, locks and unlocks.
LEMMA EarlySteps ==
  ASSUME LockInv, NEW c \in Coros, Traced(c),
         UNCHANGED <<store, logRecord>>, txn' = txn,
         pc[c] \in {"run", "read", "validate", "abort"},
         pc'[c] \in {"run", "read", "validate", "abort"},
         status[c] = "committed" => status'[c] = "committed"
  PROVE  Replicating(c)
<1>1. \A n \in Nat : Past(c, n) => Past(c, n)'
  BY Zenon DEF Past
<1>2. QED BY <1>1, EarlyStep, Zenon

\* Tx::log() puts a record on the wire to every log machine.
LEMMA SendLogReplicating ==
  ASSUME LockInv, NEW c \in Coros, Traced(c), SendLog(c),
         UNCHANGED <<store, logRecord, itemVars>>, pc[c] \in {"run", "validate"}
  PROVE  Replicating(c)
<1>d. DOMAIN pc = Coros /\ DOMAIN pendLog = Coros
  BY Domains, Zenon DEF Types, LockInv
<1>1. \/ NumBackups = 0 /\ pc'[c] = "primary"
      \/ pc'[c] = "log" /\ pendLog'[c] = 1 .. NumBackups
  BY <1>d, Zenon DEF SendLog, SendPrimary, Send
<1>2. Updated(c)' /\ Logged(c)'
  BY <1>1, ConstTypes DEF Updated, Logged
<1>3. \A n \in Nat : Past(c, n) => Past(c, n)'
  BY <1>1, Zenon DEF Past, itemVars
<1>4. Traced(c)'
  <2>1. \A l \in 1 .. NumBackups : logRecord[l][c].txn \in Nat
    BY Stored, Zenon DEF Types, LockInv
  <2>2. QED BY <2>1, <1>3, Zenon DEF Traced
<1>5. \A k \in Keys : ~Writes(c, k)
  BY Zenon DEF Writes
<1>6. QED BY <1>2, <1>4, <1>5, Zenon DEF Replicating, WritesKept

\* After the log, the backups; after the last backup, the primary.
LEMMA SendUpdatesReplicating ==
  ASSUME LockInv, LockInv', NEW c \in Coros, Updated(c), Logged(c), Traced(c),
         LogDone(c) \/ BackupDone(c)
  PROVE  Replicating(c)
<1>t. /\ DOMAIN pc = Coros /\ DOMAIN pend = Coros /\ DOMAIN repl = Coros
      /\ repl[c] \in Replicas /\ NumBackups \in Nat
  BY Domains, Stored, ConstTypes, Zenon DEF Types, LockInv
<1>p. Phase(c) /\ Phase(c)'
  BY Zenon DEF LockInv, PhaseInv
<1>1. /\ UNCHANGED <<store, logRecord, ws, mode, txn, execWsLocked, pendLog, status>>
      /\ pc[c] \in {"log", "backup"} /\ pend[c] = {} /\ pendLog[c] = {}
  BY Zenon DEF LogDone, BackupDone, BatchDone, SendBackups, SendPrimary, Send, itemVars
<1>2. pc'[c] \in {"backup", "primary"}
  BY <1>t, Zenon DEF LogDone, BackupDone, SendBackups, SendPrimary, Send
<1>n. \A k : NewVal(c, k)' = NewVal(c, k)
  BY <1>1, Zenon DEF NewVal
<1>s. ASSUME NEW s \in Nat, SendBackups(c, s),
             \A k \in ws[c], r \in 1 .. NumBackups : r < s => store[r][k] = NewVal(c, k)
      PROVE  Updated(c)'
  <2>1. CASE BackupsInOneBatch(c)
    <3>1. pc'[c] = "backup" /\ repl'[c] = NumBackups /\ pend'[c] = (1 .. NumBackups) \X ws[c]
      BY <2>1, <1>s, <1>t, Zenon DEF SendBackups, Send
    <3>2. QED BY <3>1, <1>1, Zenon DEF Updated
  <2>2. CASE ~BackupsInOneBatch(c)
    <3>1. pc'[c] = "backup" /\ repl'[c] = s /\ pend'[c] = {s} \X ws[c]
      BY <2>2, <1>s, <1>t, Zenon DEF SendBackups, Send
    <3>2. ASSUME NEW k \in ws[c], NEW r \in 1 .. s
          PROVE  <<r, k>> \in pend'[c] \/ store'[r][k] = NewVal(c, k)'
      <4>1. s \in Replicas
        <5>1. repl' \in [Coros -> Replicas]
          BY Zenon DEF LockInv, TypeOK, BatchTypes
        <5>2. QED BY <5>1, <3>1, Zenon
      <4>2. r \in 1 .. NumBackups /\ (r = s \/ r < s)
        BY <4>1, <1>t DEF Replicas
      <4>3. QED BY <4>2, <3>1, <1>s, <1>1, <1>n, Zenon
    <3>3. QED BY <3>1, <3>2, <1>1, Zenon DEF Updated
  <2>3. QED BY <2>1, <2>2, Zenon
<1>3. Updated(c)'
  <2>1. CASE LogDone(c)
    BY <2>1, <1>s DEF LogDone
  <2>2. CASE BackupDone(c)
    <3>1. \A k \in ws[c], r \in 1 .. repl[c] : store[r][k] = NewVal(c, k)
      BY <2>2, <1>1, Zenon DEF Updated, BackupDone, BatchDone
    <3>2. CASE repl[c] < NumBackups
      <4>1. SendBackups(c, repl[c] + 1) /\ repl[c] + 1 \in Nat
        <5>1. SendBackups(c, repl[c] + 1)
          BY <2>2, <3>2, Zenon DEF BackupDone
        <5>2. QED BY <5>1, <1>t DEF Replicas
      <4>2. \A k \in ws[c], r \in 1 .. NumBackups : r < repl[c] + 1 => store[r][k] = NewVal(c, k)
        BY <3>1, <1>t DEF Replicas
      <4>3. QED BY <4>1, <4>2, <1>s, Zenon
    <3>3. CASE ~(repl[c] < NumBackups)
      <4>1. pc'[c] = "primary"
        BY <2>2, <3>3, <1>t, Zenon DEF BackupDone, SendPrimary, Send
      <4>2. \A k \in ws[c], r \in 1 .. NumBackups : store[r][k] = NewVal(c, k)
        BY <3>1, <3>3, <1>t DEF Replicas
      <4>3. QED BY <4>1, <4>2, <1>1, <1>n, Zenon DEF Updated
    <3>4. QED BY <3>2, <3>3, Zenon
  <2>3. QED BY <2>1, <2>2, Zenon
<1>4. Logged(c)'
  <2>1. LogRecord(c)' = LogRecord(c)
    BY <1>1, Zenon DEF LogRecord, LoggedObj
  <2>2. QED BY <2>1, <1>1, Zenon DEF Logged
<1>5. Traced(c)'
  <2>1. \A n : Past(c, n) => Past(c, n)'
    BY <1>1, <1>2, Zenon DEF Past
  <2>2. QED BY <2>1, <1>1, Zenon DEF Traced
<1>6. \A k \in Keys : Writes(c, k) => Writes(c, k)'
  <2>1. \A k \in ws[c] : k \in Held(c)'
    <3>1. CASE pc'[c] = "backup"
      BY <3>1, <1>p, <1>1, Zenon DEF Phase, Held, Active
    <3>2. CASE pc'[c] = "primary"
      <4>1. pend'[c] = {0} \X ws[c]
        BY <3>2, <1>t, Zenon DEF LogDone, BackupDone, SendBackups, SendPrimary, Send
      <4>2. QED BY <3>2, <4>1, <1>1, Zenon DEF Held
    <3>3. QED BY <3>1, <3>2, <1>2, Zenon
  <2>2. QED BY <2>1, <1>2, Zenon DEF Writes, Held
<1>7. QED BY <1>3, <1>4, <1>5, <1>6, <1>n, Zenon DEF Replicating, WritesKept

\* Every step of a coordinator keeps what is known of its own transaction.
LEMMA CoordinatorReplicating ==
  ASSUME LockInv, LockInv', NEW c \in Coros, Updated(c), Logged(c), Traced(c), Coordinator(c)
  PROVE  Replicating(c)
<1>u. UNCHANGED <<store, logRecord>>
  BY CoordinatorLeaves, Zenon
<1>d. DOMAIN pc = Coros /\ DOMAIN status = Coros
  BY Domains, Zenon DEF Types, LockInv
<1>p. Phase(c)
  BY Zenon DEF LockInv, PhaseInv
<1>1. CASE Start(c) \/ ReadMore(c)
  BY <1>1, SendReadReplicating, Zenon
<1>2. CASE LogDone(c) \/ BackupDone(c)
  BY <1>2, SendUpdatesReplicating, Zenon
<1>3. CASE ReadDone(c) \/ CommitSingleRead(c) \/ AbortRdonly(c) \/ AbortDone(c)
  <2>1. /\ txn' = txn /\ pc[c] \in {"run", "read", "abort"} /\ pc'[c] = "run"
        /\ status[c] = "committed" => status'[c] = "committed"
    BY <1>3, <1>d, <1>p, Zenon DEF ReadDone, CommitSingleRead, AbortRdonly, AbortDone,
                            Running, BatchDone, itemVars, Phase
  <2>2. QED BY <2>1, <1>u, EarlySteps, Zenon
<1>4. ASSUME SendAbort(c), txn' = txn, pc[c] \in {"run", "validate"}, status[c] # "committed"
      PROVE  Replicating(c)
  <2>1. pc'[c] \in {"run", "abort"}
    BY <1>4, <1>d, Zenon DEF SendAbort, Finish
  <2>2. QED BY <2>1, <1>4, <1>u, EarlySteps, Zenon
<1>5. CASE Abort(c)
  BY <1>5, <1>4, Zenon DEF Abort, Running, itemVars
<1>6. CASE Commit(c)
  <2>1. pc[c] = "run" /\ status[c] = "in_progress" /\ UNCHANGED itemVars
    BY <1>6, Zenon DEF Commit, Running
  <2>2. CASE SendLog(c)
    BY <2>1, <2>2, <1>u, SendLogReplicating, Zenon
  <2>3. CASE SendValidate(c)
    <3>1. pc'[c] = "validate" /\ txn' = txn
      BY <2>1, <2>3, <1>d, Zenon DEF SendValidate, Send, itemVars
    <3>2. QED BY <2>1, <3>1, <1>u, EarlySteps, Zenon
  <2>4. QED BY <1>6, <2>2, <2>3, Zenon DEF Commit
<1>7. CASE ValidateDone(c)
  <2>1. pc[c] = "validate" /\ status[c] = "in_progress" /\ UNCHANGED itemVars /\ txn' = txn
    BY <1>7, <1>p, Zenon DEF ValidateDone, BatchDone, Phase, itemVars
  <2>2. CASE SendLog(c)
    BY <2>1, <2>2, <1>u, SendLogReplicating, Zenon
  <2>3. CASE SendAbort(c)
    BY <2>1, <2>3, <1>4, Zenon
  <2>4. CASE Finish(c, "committed")
    <3>1. pc'[c] = "run"
      BY <2>4, <1>d, Zenon DEF Finish
    <3>2. QED BY <2>1, <3>1, <1>u, EarlySteps, Zenon
  <2>5. QED BY <1>7, <2>2, <2>3, <2>4, Zenon DEF ValidateDone
<1>8. CASE PrimaryDone(c)
  <2>1. /\ pc[c] = "primary" /\ pend[c] = {} /\ txn' = txn
        /\ pc'[c] = "run" /\ status'[c] = "committed"
    BY <1>8, <1>d, Zenon DEF PrimaryDone, BatchDone, Finish, itemVars
  <2>2. \A n \in Nat : Past(c, n) => Past(c, n)'
    BY <2>1, Zenon DEF Past
  <2>3. QED BY <2>1, <2>2, <1>u, EarlyStep, Zenon
<1>9. QED BY <1>1, <1>2, <1>3, <1>5, <1>6, <1>7, <1>8, Zenon DEF Coordinator

\* A put or del brings one replica of k to the new value.
LEMMA UpdateReplicating ==
  ASSUME LockInv, NEW c \in Coros, Updated(c), Logged(c), Traced(c),
         NEW r \in Replicas, NEW k \in Keys, Update(c, r, k)
  PROVE  /\ Updated(c)' /\ Logged(c)' /\ Traced(c)'
         /\ \A j \in Keys : r # 0 \/ j # k => WritesKept(c, j)
         /\ store' = [store EXCEPT ![r][k] = NewVal(c, k)]
<1>1. /\ UNCHANGED <<logRecord, status, pc, ws, mode, txn, execWsLocked, pendLog, repl, resp>>
      /\ store' = [store EXCEPT ![r][k] = NewVal(c, k)]
      /\ pc[c] \in {"backup", "primary"}
  BY Zenon DEF Update, itemVars
<1>2. pend'[c] = pend[c] \ {<<r, k>>}
  BY Domains, Zenon DEF Update, Types, LockInv
<1>3. \A s \in Replicas, j \in Keys :
        store'[s][j] = IF s = r /\ j = k THEN NewVal(c, k) ELSE store[s][j]
  BY <1>1, Stored, Zenon DEF Types, LockInv
<1>n. \A j : NewVal(c, j)' = NewVal(c, j)
  BY <1>1, Zenon DEF NewVal
<1>r. /\ 1 .. repl[c] \subseteq Replicas /\ 1 .. NumBackups \subseteq Replicas
      /\ ws[c] \subseteq Keys
  <2>1. repl[c] \in Replicas /\ ws[c] \subseteq Keys
    BY Stored, Typed, Zenon DEF Types, LockInv
  <2>2. QED BY <2>1, ConstTypes DEF Replicas
<1>4. Updated(c)'
  <2>1. CASE pc[c] = "backup"
    <3>1. \A j \in ws[c], s \in 1 .. repl[c] :
            <<s, j>> \in pend'[c] \/ store'[s][j] = NewVal(c, j)
      BY <2>1, <1>2, <1>3, <1>r, Zenon DEF Updated
    <3>2. QED BY <2>1, <3>1, <1>1, <1>n, Zenon DEF Updated
  <2>2. CASE pc[c] = "primary"
    <3>1. \A j \in ws[c], s \in 1 .. NumBackups :
            <<0, j>> \in pend'[c] => store'[s][j] = NewVal(c, j)
      BY <2>2, <1>2, <1>3, <1>r, Zenon DEF Updated
    <3>2. QED BY <2>2, <3>1, <1>1, <1>n, Zenon DEF Updated
  <2>3. QED BY <2>1, <2>2, <1>1, Zenon
<1>5. Logged(c)'
  <2>1. LogRecord(c)' = LogRecord(c)
    BY <1>1, Zenon DEF LogRecord, LoggedObj
  <2>2. QED BY <2>1, <1>1, Zenon DEF Logged
<1>6. Traced(c)'
  <2>1. \A n : Past(c, n)' <=> Past(c, n)
    BY <1>1, Zenon DEF Past
  <2>2. \A n \in Nat : NewVal(c, k) = <<c, n>> => Past(c, n)
    BY <1>1, ConstAssumption DEF NewVal, Written, Past
  <2>3. ASSUME NEW s \in Replicas, NEW j \in Keys, NEW n \in Nat, store'[s][j] = <<c, n>>
        PROVE  Past(c, n)
    <3>1. CASE s = r /\ j = k
      BY <3>1, <2>2, <2>3, <1>3, Zenon
    <3>2. CASE ~(s = r /\ j = k)
      BY <3>2, <2>3, <1>3, Zenon DEF Traced
    <3>3. QED BY <3>1, <3>2, Zenon
  <2>4. \A l \in 1 .. NumBackups : logRecord'[l][c].txn # 0 => Past(c, logRecord'[l][c].txn)
    BY <1>1, Zenon DEF Traced
  <2>5. QED BY <2>1, <2>3, <2>4, Zenon DEF Traced
<1>7. ASSUME NEW j \in Keys, r # 0 \/ j # k, Writes(c, j) PROVE Writes(c, j)'
  <2>1. <<0, j>> \in pend[c] => <<0, j>> \in pend'[c]
    BY <1>2, <1>7, Zenon
  <2>2. QED BY <2>1, <1>1, <1>7, Zenon DEF Writes, Held, Active
<1>8. QED BY <1>1, <1>4, <1>5, <1>6, <1>7, <1>n, Zenon DEF WritesKept

\* A handler that updates no table keeps what is known of its coordinator.
LEMMA ServerReplicating ==
  ASSUME LockInv, NEW c \in Coros, Updated(c), Logged(c), Traced(c), Server(c)
  PROVE  \/ Replicating(c) /\ UNCHANGED store
         \/ \E r \in Replicas, k \in Keys : Update(c, r, k)
<1>p. Phase(c)
  BY Zenon DEF LockInv, PhaseInv
<1>1. CASE \E j \in Keys : \E ty, v, x : Respond(c, j, ty, v, x) /\ pc[c] \in {"read", "validate"}
  <2>1. UNCHANGED <<store, logRecord, txn, pc, status>>
    BY <1>1, Zenon DEF Respond, itemVars
  <2>2. QED BY <1>1, <2>1, EarlySteps, Zenon
<1>2. (\E j \in Keys : \/ GetRdonly(c, j) \/ GetForUpd(c, j)
                       \/ LockForIns(c, j) \/ LockRefused(c, j))
        => \E j \in Keys : \E ty, v, x :
             Respond(c, j, ty, v, x) /\ pc[c] \in {"read", "validate"}
  BY Zenon DEF GetRdonly, GetForUpd, LockForIns, LockRefused, LockRequested, GetAnswer, GetLocked
<1>3. CASE \E j \in Keys : Unlock(c, j)
  <2>1. UNCHANGED <<store, logRecord, txn, pc, status>> /\ pc[c] = "abort"
    BY <1>3, Zenon DEF Unlock, itemVars
  <2>2. QED BY <2>1, EarlySteps, Zenon
<1>4. ASSUME NEW s \in 1 .. NumBackups, SaveLogRecord(c, s) PROVE Replicating(c) /\ UNCHANGED store
  <2>1. /\ UNCHANGED <<store, status, pc, ws, txn>> /\ s \in pendLog[c]
        /\ logRecord' = [logRecord EXCEPT ![s][c] = LogRecord(c)]
    BY <1>4, Zenon DEF SaveLogRecord, itemVars
  <2>2. pc[c] = "log" /\ pendLog'[c] = pendLog[c] \ {s}
    BY <1>4, <2>1, <1>p, Domains, Zenon DEF SaveLogRecord, Phase, Types, LockInv
  <2>3. \A l \in 1 .. NumBackups :
          logRecord'[l][c] = IF l = s THEN LogRecord(c) ELSE logRecord[l][c]
    BY <2>1, Stored, Zenon DEF Types, LockInv
  <2>4. LogRecord(c)' = LogRecord(c) /\ LogRecord(c).txn = txn[c]
    BY <2>1, Zenon DEF LogRecord, LoggedObj
  <2>5. Logged(c)'
    BY <2>1, <2>2, <2>3, <2>4, Zenon DEF Logged
  <2>6. Updated(c)' /\ \A k \in Keys : ~Writes(c, k)
    BY <2>1, <2>2, Zenon DEF Updated, Writes
  <2>7. Traced(c)'
    <3>1. \A n : Past(c, n)' <=> Past(c, n)
      BY <2>1, Zenon DEF Past
    <3>2. Past(c, txn[c])
      BY <2>2, Zenon DEF Past
    <3>3. QED BY <3>1, <3>2, <2>1, <2>3, <2>4, Zenon DEF Traced
  <2>8. QED BY <2>1, <2>5, <2>6, <2>7, Zenon DEF Replicating, WritesKept
<1>5. QED BY <1>1, <1>2, <1>3, <1>4, Zenon DEF Server

-----------------------------------------------------------------------------
(* The invariant, and what follows from it.                                *)

\* A coordinator goes on writing what it writes while others take steps.
LEMMA OthersWrite ==
  ASSUME LockInv, NEW c \in Coros, SameTx(c), NEW k \in Keys
  PROVE  WritesKept(c, k)
<1>1. Held(c)' = Held(c)
  BY SameHeld, Zenon DEF SameTx, LockInv, PhaseInv
<1>2. pc'[c] = pc[c] /\ mode'[c] = mode[c] /\ txn'[c] = txn[c]
  BY Zenon DEF SameTx, Same
<1>3. NewVal(c, k)' = NewVal(c, k)
  BY <1>2, Zenon DEF NewVal
<1>4. QED BY <1>1, <1>2, <1>3, Zenon DEF WritesKept, Writes

\* A replica that a step leaves alone stays in step.
LEMMA InStepKept ==
  ASSUME NEW k \in Keys, NEW r \in Replicas, InStep(k, r),
         store'[r][k] = store[r][k], store'[0][k] = store[0][k],
         \A c \in Coros : WritesKept(c, k)
  PROVE  InStep(k, r)'
BY Zenon DEF InStep, WritesKept

\* A put or del keeps the replicas of its key in step: the backups go ahead one by
\* one, and the primary follows when all of them are there.
LEMMA UpdateInStep ==
  ASSUME LockInv, NEW c \in Coros, Updated(c), NEW s \in Replicas, NEW j \in Keys,
         Update(c, s, j), store' = [store EXCEPT ![s][j] = NewVal(c, j)],
         NEW k \in Keys, NEW r \in Replicas, InStep(k, r),
         \A d \in Coros : (d # c \/ s # 0 \/ j # k) => WritesKept(d, k)
  PROVE  InStep(k, r)'
<1>1. \A q \in Replicas, i \in Keys :
        store'[q][i] = IF q = s /\ i = j THEN NewVal(c, j) ELSE store[q][i]
  BY Stored, Zenon DEF Types, LockInv
<1>2. CASE k # j
  BY <1>1, <1>2, ReplicasType, InStepKept
<1>3. CASE k = j /\ s # 0
  <2>1. \A d \in Coros : WritesKept(d, k)
    BY <1>3, Zenon
  <2>2. CASE r # s
    BY <1>1, <1>3, <2>1, <2>2, ReplicasType, InStepKept
  <2>3. CASE r = s
    <3>1. Writes(c, k)
      BY <1>3, UpdaterHolds, Zenon DEF Writes
    <3>2. Writes(c, k)' /\ NewVal(c, k)' = NewVal(c, k)
      BY <3>1, <2>1, Zenon DEF WritesKept
    <3>3. store'[r][k] = NewVal(c, k)
      BY <1>1, <1>3, <2>3, Zenon
    <3>4. QED BY <3>2, <3>3, Zenon DEF InStep
  <2>4. QED BY <2>2, <2>3, Zenon
<1>4. CASE k = j /\ s = 0
  <2>1. pc[c] = "primary" /\ <<0, k>> \in pend[c] /\ k \in ws[c]
    BY <1>4, UpdaterHolds, Zenon
  <2>2. store'[0][k] = NewVal(c, k)
    BY <1>1, <1>4, Zenon
  <2>3. CASE r = 0
    BY <2>3, Zenon DEF InStep
  <2>4. CASE r # 0
    <3>1. r \in 1 .. NumBackups
      BY <2>4, ConstTypes DEF Replicas
    <3>2. store[r][k] = NewVal(c, k)
      BY <2>1, <3>1, Zenon DEF Updated
    <3>3. store'[r][k] = store[r][k]
      BY <1>1, <1>4, <2>4, Zenon
    <3>4. QED BY <2>2, <3>2, <3>3, Zenon DEF InStep
  <2>5. QED BY <2>3, <2>4, Zenon
<1>5. QED BY <1>2, <1>3, <1>4, Zenon

\* Every step keeps the invariant of the replicas and the logs.
LEMMA StepReplInv ==
  ASSUME ReplInv, LockInv', NEW c \in Coros, Coordinator(c) \/ Server(c)
  PROVE  ReplInv'
<1>t. LockInv /\ Types
  BY Zenon DEF ReplInv, LockInv, Types
<1>i. /\ \A d \in Coros : Updated(d) /\ Logged(d) /\ Traced(d)
      /\ \A k \in Keys, r \in Replicas : InStep(k, r)
  BY Zenon DEF ReplInv
<1>s. \A d \in Coros : d # c => SameTx(d)
  BY <1>t, OthersSame, Zenon
<1>1. ASSUME NEW d \in Coros, d # c PROVE Updated(d)' /\ Logged(d)' /\ Traced(d)'
  <2>1. Foreign(d)
    BY <1>1, <1>t, OthersForeign, Zenon
  <2>2. QED BY <1>1, <2>1, <1>t, <1>i, <1>s, ForeignKept, Zenon
<1>2. \A d \in Coros : d # c => \A k \in Keys : WritesKept(d, k)
  BY <1>t, <1>s, OthersWrite, Zenon
<1>3. CASE Replicating(c) /\ UNCHANGED store
  <2>1. \A d \in Coros : Updated(d)' /\ Logged(d)' /\ Traced(d)'
    BY <1>1, <1>3, Zenon DEF Replicating
  <2>2. \A k \in Keys : \A d \in Coros : WritesKept(d, k)
    BY <1>2, <1>3, Zenon DEF Replicating
  <2>3. \A k \in Keys, r \in Replicas : InStep(k, r)'
    BY <2>2, <1>3, <1>i, InStepKept, Zenon
  <2>4. QED BY <2>1, <2>3, Zenon DEF ReplInv
<1>4. ASSUME NEW s \in Replicas, NEW j \in Keys, Update(c, s, j) PROVE ReplInv'
  <2>1. /\ Updated(c)' /\ Logged(c)' /\ Traced(c)'
        /\ \A k \in Keys : s # 0 \/ k # j => WritesKept(c, k)
        /\ store' = [store EXCEPT ![s][j] = NewVal(c, j)]
    BY <1>4, <1>t, <1>i, UpdateReplicating, Zenon
  <2>2. \A d \in Coros : Updated(d)' /\ Logged(d)' /\ Traced(d)'
    BY <2>1, <1>1, Zenon
  <2>3. \A k \in Keys : \A d \in Coros : (d # c \/ s # 0 \/ j # k) => WritesKept(d, k)
    BY <2>1, <1>2, Zenon
  <2>4. \A k \in Keys, r \in Replicas : InStep(k, r)'
    BY <2>1, <2>3, <1>4, <1>t, <1>i, UpdateInStep, Zenon
  <2>5. QED BY <2>2, <2>4, Zenon DEF ReplInv
<1>5. CASE Coordinator(c)
  <2>1. Replicating(c)
    BY <1>5, <1>t, <1>i, CoordinatorReplicating, Zenon
  <2>2. UNCHANGED store
    BY <1>5, CoordinatorLeaves, Zenon
  <2>3. QED BY <1>3, <2>1, <2>2, Zenon
<1>6. CASE Server(c)
  BY <1>3, <1>4, <1>6, <1>t, <1>i, ServerReplicating, Zenon
<1>7. QED BY <1>5, <1>6, Zenon

\* Every step keeps the invariant of the replicas and the logs.
LEMMA NextReplInv ==
  ASSUME ReplInv, LockInv', [Next]_vars
  PROVE  ReplInv'
<1>1. CASE UNCHANGED vars
  <2>1. ASSUME NEW c \in Coros PROVE Updated(c)' /\ Logged(c)' /\ Traced(c)'
    <3>1. SameTx(c) /\ Foreign(c)
      BY <1>1, Zenon DEF SameTx, Same, Foreign, vars, itemVars
    <3>2. QED BY <3>1, ForeignKept, Zenon DEF ReplInv
  <2>2. \A k \in Keys, r \in Replicas : InStep(k, r)' <=> InStep(k, r)
    <3>1. UNCHANGED <<store, status, pc, ws, mode, txn, execWsLocked, pend, resp>>
      BY <1>1, Zenon DEF vars, itemVars
    <3>2. \A c \in Coros, k \in Keys : /\ Writes(c, k)' <=> Writes(c, k)
                                      /\ NewVal(c, k)' = NewVal(c, k)
      BY <3>1, Zenon DEF Writes, Held, Active, NewVal
    <3>3. QED BY <3>1, <3>2, Zenon DEF InStep
  <2>3. QED BY <2>1, <2>2, Zenon DEF ReplInv
<1>2. QED BY <1>1, StepReplInv, Zenon DEF Next

\* At first all replicas are alike, and nobody has written or logged anything.
LEMMA InitReplInv == Init => ReplInv
<1> SUFFICES ASSUME Init PROVE ReplInv
  OBVIOUS
<1>1. LockInv
  BY InitLockInv, Zenon
<1>2. ASSUME NEW c \in Coros PROVE Updated(c) /\ Logged(c) /\ Traced(c)
  <2>1. pc[c] = "run"
    BY <1>2, Zenon DEF Init
  <2>2. Updated(c) /\ Logged(c)
    BY <2>1, Zenon DEF Updated, Logged
  <2>3. \A r \in Replicas, k \in Keys : \A n \in Nat : store[r][k] # <<c, n>>
    <3>1. \A r \in Replicas, k \in Keys : store[r][k] \in {Absent, Initial}
      BY Zenon DEF Init
    <3>2. \A n \in Nat : <<c, n>> \in Written
      BY <1>2, Zenon DEF Written
    <3>3. QED BY <3>1, <3>2, ConstAssumption, Zenon
  <2>4. \A l \in 1 .. NumBackups : logRecord[l][c].txn = 0
    BY <1>2, Zenon DEF Init, NoRecord
  <2>5. QED BY <2>2, <2>3, <2>4, Zenon DEF Traced
<1>3. \A k \in Keys, r \in Replicas : InStep(k, r)
  BY ReplicasType, Zenon DEF Init, InStep
<1>4. QED BY <1>1, <1>2, <1>3, Zenon DEF ReplInv

\* A replica that is not in step with the primary has its writer under way.
LEMMA InStepAgrees ==
  ASSUME ReplInv PROVE DivergenceUnderLock
<1>1. \A c \in Coros, k \in Keys : Writes(c, k) =>
        /\ pc[c] \in {"backup", "primary"} /\ k \in Held(c)
        /\ <<0, k>> \in pend[c] \/ pc[c] = "backup"
  BY Zenon DEF Writes, Held
<1>2. QED BY <1>1, Zenon DEF ReplInv, InStep, DivergenceUnderLock

\* The writer has the key locked, and its record is in every log.
LEMMA InStepLogged ==
  ASSUME ReplInv PROVE DivergenceLogged
<1> SUFFICES ASSUME NEW k \in Keys, NEW r \in Replicas, store[r][k] # store[0][k]
             PROVE  \E c \in Coros :
                      /\ locker[BucketOf[k]] = c
                      /\ \A l \in 1 .. NumBackups :
                           /\ logRecord[l][c].txn = txn[c]
                           /\ \E e \in logRecord[l][c].entries : e[1] = k
  BY Zenon DEF DivergenceLogged
<1>1. PICK c \in Coros : Writes(c, k)
  BY Zenon DEF ReplInv, InStep
<1>2. LockInv /\ Phase(c) /\ Logged(c)
  BY Zenon DEF ReplInv, LockInv, PhaseInv
<1>3. locker[BucketOf[k]] = c /\ k \in ws[c]
  BY <1>1, <1>2, HoldersLock, Zenon DEF Writes
<1>4. \A l \in 1 .. NumBackups : logRecord[l][c] = LogRecord(c)
  BY <1>1, <1>2, Zenon DEF Writes, Logged, Phase
<1>5. LogRecord(c).txn = txn[c] /\ <<k, LoggedObj(c, k)>> \in LogRecord(c).entries
  BY <1>3, Zenon DEF LogRecord
<1>6. QED BY <1>3, <1>4, <1>5

\* A transaction that has not reached its log has left no trace.
LEMMA TracedAborts ==
  ASSUME ReplInv PROVE AbortLeavesNoTrace
<1> SUFFICES ASSUME NEW c \in Coros, status[c] = "aborted"
             PROVE  /\ \A r \in Replicas, k \in Keys : store[r][k] # <<c, txn[c]>>
                    /\ txn[c] > 0 => \A l \in 1 .. NumBackups : logRecord[l][c].txn # txn[c]
                    /\ pc[c] = "run" => \A b \in Buckets : locker[b] # c
  BY Zenon DEF AbortLeavesNoTrace
<1>1. LockInv /\ Phase(c) /\ Traced(c)
  BY Zenon DEF ReplInv, LockInv, PhaseInv
<1>t. txn[c] \in Nat /\ \A l \in 1 .. NumBackups : logRecord[l][c].txn \in Nat
  BY <1>1, Stored, Zenon DEF Types, LockInv
<1>2. ~Past(c, txn[c])
  <2>1. pc[c] \notin {"log", "backup", "primary"}
    BY <1>1, Zenon DEF Phase
  <2>2. QED BY <2>1, <1>t DEF Past
<1>3. \A r \in Replicas, k \in Keys : store[r][k] # <<c, txn[c]>>
  BY <1>1, <1>2, <1>t, Zenon DEF Traced
<1>4. txn[c] > 0 => \A l \in 1 .. NumBackups : logRecord[l][c].txn # txn[c]
  BY <1>1, <1>2, <1>t DEF Traced
<1>5. ASSUME pc[c] = "run", NEW b \in Buckets PROVE locker[b] # c
  <2>1. HeldIn(c, b) = {}
    BY <1>5, Zenon DEF HeldIn, Held, Active
  <2>2. Accounts(b) /\ c # NoCaller
    BY <1>1, ConstTypes, Zenon DEF LockInv, LockAccounting
  <2>3. QED BY <2>1, <2>2, Zenon DEF Accounts
<1>6. QED BY <1>3, <1>4, <1>5, Zenon
=============================================================================
