---------------------------- MODULE TxIsolation -----------------------------
(***************************************************************************)
(* Isolation: why what a validated transaction has read was true at the    *)
(* call of commit(), and why the transactions, in the order of these       *)
(* calls, explain every value.                                             *)
(*                                                                         *)
(* SnapInv follows a value from the response that carried it to the        *)
(* comparison of versions in validate(): first what the steps of others do *)
(* to it, then a transaction's own.  HistInv relates the values to the     *)
(* history of module TxHistory.                                            *)
(***************************************************************************)
EXTENDS TxInvariants, TxHistory

-----------------------------------------------------------------------------
(* What a step does to the bucket of a key that c relies on.               *)

\* Another coordinator changes the value of k only under its own lock, and moves
\* the version when it gives the lock back.
Respects(c, k) ==
  LET b == BucketOf[k] IN
  /\ version'[b] >= version[b]
  /\ CanLock(c, b) => store'[0][k] = store[0][k]
  /\ locker[b] = c => locker'[b] = c
  /\ ~CanLock(c, b) => locker'[b] = locker[b] \/ version'[b] > version[b]
  /\ pc[c] # "read" /\ locker'[b] = c => locker[b] = c

\* A step that leaves the tables alone.
LEMMA QuietRespects ==
  ASSUME Types, NEW c \in Coros, NEW k \in Keys, UNCHANGED <<bucketVars, store>>
  PROVE  Respects(c, k)
<1> TypeOK
  BY Zenon DEF Types
<1>1. version[BucketOf[k]] \in Nat
  BY Typed, Zenon DEF Types
<1>2. QED BY <1>1 DEF Respects, bucketVars

\* A lock request takes a lock only from no one.
LEMMA LockRespects ==
  ASSUME Types, NEW c \in Coros, NEW k \in Keys, NEW d \in Coros, NEW j \in Keys,
         GetForUpd(d, j) \/ LockForIns(d, j)
  PROVE  Respects(c, k)
<1> TypeOK
  BY Zenon DEF Types
<1> DEFINE b == BucketOf[k]
           e == BucketOf[j]
<1>1. b \in Buckets /\ e \in Buckets /\ c # NoCaller /\ d # NoCaller
  BY ConstTypes, Zenon
<1>2. /\ UNCHANGED store /\ pc[d] = "read" /\ CanLock(d, e)
      /\ LockAndUnlockBucket(e) \/ LockBucket(d, e)
  BY Zenon DEF GetForUpd, LockForIns, LockRequested, Respond
<1>3. version[b] \in Nat
  BY <1>1, Zenon DEF TypeOK
<1> HIDE DEF b, e
<1>4. version'[b] >= version[b]
  BY <1>1, <1>2, VersionsGrow, Zenon DEF Types
<1>5. CASE LockAndUnlockBucket(e)
  <2>1. locker' = locker
    BY <1>5, Zenon DEF LockAndUnlockBucket
  <2>2. QED BY <2>1, <1>2, <1>4, Zenon DEF Respects, b
<1>6. CASE LockBucket(d, e)
  <2>1. locker' = [locker EXCEPT ![e] = d]
    BY <1>6, Zenon DEF LockBucket
  <2>2. CASE b = e
    <3>1. locker'[b] = d /\ locker[b] \in {NoCaller, d}
      BY <2>1, <2>2, <1>1, <1>2, Zenon DEF TypeOK, CanLock
    <3>2. QED BY <3>1, <1>1, <1>2, <1>4, Zenon DEF Respects, b, CanLock
  <2>3. CASE b # e
    <3>1. locker'[b] = locker[b]
      BY <2>1, <2>3, <1>1, Zenon DEF TypeOK
    <3>2. QED BY <3>1, <1>2, <1>4, Zenon DEF Respects, b
  <2>4. QED BY <2>2, <2>3, Zenon
<1>7. QED BY <1>2, <1>5, <1>6, Zenon

\* A request that gives a lock back is sent by the coordinator that has it.
LEMMA ReleaseRespects ==
  ASSUME LockInv, NEW c \in Coros, NEW k \in Keys, NEW d \in Coros, d # c, NEW j \in Keys,
         <<0, j>> \in pend[d], pc[d] \in {"primary", "abort"}, UnlockBucket(BucketOf[j]),
         k # j => store'[0][k] = store[0][k]
  PROVE  Respects(c, k)
<1> DEFINE b == BucketOf[k]
           e == BucketOf[j]
<1>t. TypeOK /\ Phase(d) /\ LockAccounting
  BY Zenon DEF LockInv, PhaseInv
<1>1. b \in Buckets /\ e \in Buckets /\ c # NoCaller /\ d # NoCaller
  BY ConstTypes, Zenon
<1>2. j \in HeldIn(d, e)
  BY <1>t, Zenon DEF Phase, HeldIn, Held
<1>3. locker[e] = d
  BY <1>t, <1>1, <1>2, Zenon DEF LockAccounting, Accounts
<1>4. version[b] \in Nat /\ version[e] \in Nat
  BY <1>t, <1>1, Zenon DEF TypeOK
<1>5. UnlockBucket(e)
  OBVIOUS
<1>6. k # j => store'[0][k] = store[0][k]
  OBVIOUS
<1>7. k = j => b = e
  OBVIOUS
<1> HIDE DEF b, e
<1>8. version'[b] >= version[b]
  BY <1>t, <1>1, <1>5, VersionsGrow, Zenon DEF Types
<1>9. CASE b = e
  <2>1. locker'[b] \in {d, NoCaller} /\ (locker'[b] = d \/ version'[b] > version[b])
    BY <1>t, <1>1, <1>3, <1>4, <1>5, <1>9 DEF UnlockBucket, TypeOK
  <2>2. QED BY <2>1, <1>1, <1>3, <1>8, <1>9, Zenon DEF Respects, b, CanLock
<1>10. CASE b # e
  <2>1. locker'[b] = locker[b]
    BY <1>t, <1>1, <1>5, <1>10, Zenon DEF UnlockBucket, TypeOK
  <2>2. QED BY <2>1, <1>6, <1>7, <1>8, <1>10, Zenon DEF Respects, b
<1>11. QED BY <1>9, <1>10, Zenon

\* Every step of another coordinator, and every step of c's own before it gives
\* its locks back.
LEMMA StepRespects ==
  ASSUME LockInv, NEW c \in Coros, NEW k \in Keys, NEW d \in Coros,
         Coordinator(d) \/ Server(d), d = c => pc[c] \notin {"primary", "abort"}
  PROVE  Respects(c, k)
<1>t. TypeOK /\ Phase(d)
  BY Zenon DEF LockInv, PhaseInv
<1>1. CASE Coordinator(d)
  BY <1>t, <1>1, CoordinatorLeaves, QuietRespects, Zenon DEF Types
<1>2. CASE \E j \in Keys : GetRdonly(d, j) \/ LockRefused(d, j)
  <2>1. UNCHANGED <<bucketVars, store>>
    BY <1>2, Zenon DEF GetRdonly, LockRefused, GetAnswer, GetLocked, Respond
  <2>2. QED BY <1>t, <2>1, QuietRespects, Zenon DEF Types
<1>3. CASE \E j \in Keys : GetForUpd(d, j) \/ LockForIns(d, j)
  BY <1>t, <1>3, LockRespects, Zenon DEF Types
<1>4. ASSUME NEW j \in Keys, Unlock(d, j) PROVE Respects(c, k)
  <2>1. /\ pc[d] = "abort" /\ <<0, j>> \in pend[d] /\ UnlockBucket(BucketOf[j])
        /\ store' = store
    BY <1>4, Zenon DEF Unlock
  <2>2. QED BY <2>1, ReleaseRespects, Zenon
<1>5. ASSUME NEW j \in Keys, NEW r \in Replicas, Update(d, r, j) PROVE Respects(c, k)
  <2>1. CASE r = 0
    <3>1. pc[d] = "primary" /\ <<0, j>> \in pend[d] /\ UnlockBucket(BucketOf[j])
      BY <1>5, <1>t, <2>1 DEF Update, Phase
    <3>2. k # j => store'[0][k] = store[0][k]
      BY <1>5, <1>t, <2>1, ReplicasType, Zenon DEF Update, TypeOK
    <3>3. QED BY <3>1, <3>2, ReleaseRespects, Zenon
  <2>2. CASE r # 0
    <3>1. UNCHANGED bucketVars /\ store'[0][k] = store[0][k]
      BY <1>5, <1>t, <2>2, ReplicasType, Zenon DEF Update, TypeOK
    <3>2. version[BucketOf[k]] \in Nat
      BY <1>t, Typed, Zenon DEF Types
    <3>3. QED BY <3>1, <3>2 DEF Respects, bucketVars
  <2>3. QED BY <2>1, <2>2, Zenon
<1>6. CASE \E r \in 1 .. NumBackups : SaveLogRecord(d, r)
  <2>1. UNCHANGED <<bucketVars, store>>
    BY <1>6, Zenon DEF SaveLogRecord
  <2>2. QED BY <1>t, <2>1, QuietRespects, Zenon DEF Types
<1>7. QED BY <1>1, <1>2, <1>3, <1>4, <1>5, <1>6, Zenon DEF Server

-----------------------------------------------------------------------------
(* A step that leaves the transaction of c alone.                          *)

\* What c owns, it owns after the step.
LEMMA OwnedKept ==
  ASSUME NEW c \in Coros, NEW k \in Keys, NEW x, Respects(c, k), Owned(c, k, x)
  PROVE  Owned(c, k, x)'
BY Zenon DEF Respects, Owned, CanLock

\* What was fresh, is fresh after the step.
LEMMA FreshKept ==
  ASSUME Types, Types', NEW c \in Coros, NEW k \in Keys, NEW v \in Nat, NEW x,
         Respects(c, k), Fresh(c, k, v, x)
  PROVE  Fresh(c, k, v, x)'
<1> TypeOK /\ TypeOK'
  BY Zenon DEF Types
<1>1. version[BucketOf[k]] \in Nat /\ version'[BucketOf[k]] \in Nat
  BY ConstTypes, Zenon DEF TypeOK
<1>2. CASE Owned(c, k, x)
  BY <1>2, OwnedKept, Zenon DEF Fresh
<1>3. CASE version[BucketOf[k]] > v
  BY <1>1, <1>3 DEF Respects, Fresh
<1>4. CASE /\ version[BucketOf[k]] = v
           /\ CanLock(c, BucketOf[k]) => store[0][k] = x
  <2>1. CASE CanLock(c, BucketOf[k])
    BY <1>1, <1>4, <2>1 DEF Respects, Fresh
  <2>2. CASE ~CanLock(c, BucketOf[k])
    BY <1>1, <1>4, <2>2 DEF Respects, Fresh, CanLock
  <2>3. QED BY <2>1, <2>2, Zenon
<1>5. QED BY <1>2, <1>3, <1>4, Zenon DEF Fresh

\* A comparison that is bound to fail stays so: c takes no lock in validate().
LEMMA DoomedKept ==
  ASSUME Types, Types', NEW c \in Coros, NEW k \in Keys, pc[c] = "validate",
         Respects(c, k), Doomed(c, k),
         execVersion'[c] = execVersion[c], obj'[c] = obj[c]
  PROVE  Doomed(c, k)'
<1> TypeOK /\ TypeOK'
  BY Zenon DEF Types
<1> DEFINE b == BucketOf[k]
<1>a. /\ version[b] \in Nat /\ execVersion[c][k] \in Nat
      /\ locker[b] \in Coros \cup {NoCaller} /\ c # NoCaller
  BY Typed, Zenon DEF Types
<1>b. version'[b] \in Nat /\ locker'[b] \in Coros \cup {NoCaller}
  BY ConstTypes, Zenon DEF TypeOK
<1>1. /\ version[b] \in Nat /\ version'[b] \in Nat /\ execVersion[c][k] \in Nat
      /\ locker[b] \in Coros \cup {NoCaller} /\ locker'[b] \in Coros \cup {NoCaller}
      /\ c # NoCaller
  BY <1>a, <1>b, Zenon
<1>2. CASE locker[b] \notin {NoCaller, c} /\ version[b] >= execVersion[c][k]
  <2>1. locker'[b] = locker[b] \/ version'[b] > version[b]
    BY <1>2, Zenon DEF Respects, CanLock
  <2>2. version'[b] >= version[b] /\ locker'[b] # c
    BY <1>2, Zenon DEF Respects
  <2>3. QED BY <1>1, <1>2, <2>1, <2>2 DEF Doomed
<1>3. CASE locker[b] = NoCaller /\ version[b] > execVersion[c][k]
  <2>1. version'[b] >= version[b] /\ locker'[b] # c
    BY <1>1, <1>3, Zenon DEF Respects
  <2>2. QED BY <1>1, <1>3, <2>1 DEF Doomed
<1>4. CASE /\ locker[b] = c /\ version[b] > execVersion[c][k]
           /\ store[0][k] # Absent \/ obj[c][k] # Absent
  <2>1. version'[b] >= version[b] /\ locker'[b] = c /\ store'[0][k] = store[0][k]
    BY <1>4, Zenon DEF Respects, CanLock
  <2>2. QED BY <1>1, <1>4, <2>1 DEF Doomed
<1>5. QED BY <1>2, <1>3, <1>4, Zenon DEF Doomed

\* A response that is waiting to be looked at is as good as it was.
LEMMA ToldKept ==
  ASSUME Types, Types', NEW c \in Coros, NEW k \in Keys, Respects(c, k), Told(c, k),
         rs'[c] = rs[c], ws'[c] = ws[c], resp'[c][k] = resp[c][k]
  PROVE  Told(c, k)'
<1> TypeOK /\ TypeOK'
  BY Zenon DEF Types
<1>1. resp[c][k].ver \in Nat
  BY Typed, Zenon DEF Types
<1>2. Fresh(c, k, resp[c][k].ver, resp[c][k].val)
        => Fresh(c, k, resp[c][k].ver, resp[c][k].val)'
  <2>1. \A v \in Nat : \A x : Fresh(c, k, v, x) => Fresh(c, k, v, x)'
    BY FreshKept, Zenon DEF Types
  <2>2. resp'[c][k].ver = resp[c][k].ver /\ resp'[c][k].val = resp[c][k].val
    OBVIOUS
  <2>3. QED BY <1>1, <2>1, <2>2, Zenon DEF Fresh, Owned, CanLock
<1>3. Owned(c, k, resp[c][k].val) => Owned(c, k, resp[c][k].val)'
  BY OwnedKept, Zenon DEF Owned
<1>4. QED BY <1>2, <1>3, Zenon DEF Told

\* Before commit(): nobody takes what c owns, or makes what it read look current
\* when it is not.
LEMMA ExecutingKept ==
  ASSUME Types, Types', NEW c \in Coros, Executing(c), SameTx(c),
         \A k \in Keys : Respects(c, k)
  PROVE  Executing(c)'
<1> TypeOK /\ TypeOK'
  BY Zenon DEF Types
<1> SUFFICES ASSUME status'[c] = "in_progress", pc'[c] \in {"run", "read"}
             PROVE  Executing(c)'
  BY Zenon DEF Executing
<1>1. /\ status[c] = "in_progress" /\ pc[c] \in {"run", "read"}
      /\ execWsLocked[c] \subseteq Keys /\ execWsLocked'[c] = execWsLocked[c]
      /\ obj'[c] = obj[c]
  BY Typed, Zenon DEF Types, SameTx, Same
<1>2. ASSUME NEW k \in execWsLocked'[c] PROVE Owned(c, k, obj[c][k])'
  <2>1. k \in Keys /\ Owned(c, k, obj[c][k])
    BY <1>1, Zenon DEF Executing
  <2>2. \A x : Owned(c, k, x) => Owned(c, k, x)'
    BY <2>1, OwnedKept, Zenon
  <2>3. QED BY <1>1, <2>1, <2>2, Zenon DEF Owned
<1>3. ASSUME NEW k \in Keys, resp'[c][k].type # "none" PROVE Told(c, k)'
  <2>1. Told(c, k)
    BY <1>1, <1>3, Zenon DEF Executing, SameTx, Same
  <2>2. QED BY <2>1, ToldKept, Zenon DEF Types, SameTx, Same
<1>4. ASSUME NEW k \in Keys, resp'[c][k].type = "none", k \in rs'[c],
             <<0, k>> \notin pend'[c]
      PROVE  Fresh(c, k, execVersion[c][k], obj[c][k])'
  <2>1. Fresh(c, k, execVersion[c][k], obj[c][k])
    BY <1>1, <1>4, Zenon DEF Executing, SameTx, Same
  <2>2. execVersion[c][k] \in Nat
    BY Typed, Zenon DEF Types
  <2>3. \A v \in Nat : \A x : Fresh(c, k, v, x) => Fresh(c, k, v, x)'
    BY FreshKept, Zenon DEF Types
  <2>4. execVersion'[c] = execVersion[c] /\ obj'[c] = obj[c]
    BY Zenon DEF SameTx
  <2>5. QED BY <2>1, <2>2, <2>3, <2>4 DEF Fresh, Owned, CanLock
<1>5. QED BY <1>2, <1>3, <1>4, Zenon DEF Executing

\* A step of others leaves the transaction of c as isolated as it was.
LEMMA IsolatedKept ==
  ASSUME Types, Types', NEW c \in Coros, Isolated(c), SameTx(c),
         \A k \in Keys : Respects(c, k)
  PROVE  Isolated(c)'
<1> TypeOK /\ TypeOK'
  BY Zenon DEF Types
<1>1. Items(c)'
  BY Zenon DEF Isolated, Items, SameTx, Same
<1>2. Executing(c)'
  BY ExecutingKept, Zenon DEF Types, Isolated
<1>3. Validating(c)'
  <2> SUFFICES ASSUME pc'[c] = "validate" PROVE Validating(c)'
    BY Zenon DEF Validating
  <2>1. pc[c] = "validate" /\ Validating(c) /\ rs[c] \subseteq Keys
    BY Typed, Zenon DEF Types, Isolated, SameTx, Same
  <2>2. \A k \in ws'[c] : snap'[c][k] = obj'[c][k]
    BY <2>1, Zenon DEF Validating, SameTx, Same
  <2>3. ASSUME NEW k \in rs'[c]
        PROVE  \/ snap'[c][k] = obj'[c][k]
               \/ <<0, k>> \in pend'[c] /\ Doomed(c, k)'
               \/ <<0, k>> \notin pend'[c] /\ ~Unchanged(c, k)'
    <3>1. k \in rs[c] /\ k \in Keys
      BY <2>1, Zenon DEF SameTx, Same
    <3>2. CASE snap[c][k] = obj[c][k]
      BY <3>2, Zenon DEF SameTx
    <3>3. CASE <<0, k>> \in pend[c] /\ Doomed(c, k)
      BY <2>1, <3>1, <3>3, DoomedKept, Zenon DEF Types, SameTx, Same
    <3>4. CASE <<0, k>> \notin pend[c] /\ ~Unchanged(c, k)
      BY <3>4, Zenon DEF SameTx, Same, Unchanged
    <3>5. QED BY <2>1, <3>1, <3>2, <3>3, <3>4, Zenon DEF Validating
  <2>4. QED BY <2>2, <2>3, Zenon DEF Validating
<1>4. Snapped(c)'
  BY Zenon DEF Isolated, Snapped, Validated, SameTx, Same
<1>5. QED BY <1>1, <1>2, <1>3, <1>4, Zenon DEF Isolated

-----------------------------------------------------------------------------
(* What an answer carries, and what commit() finds.                        *)

\* The response that an answer leaves in the batch of c.
LEMMA RespondAt ==
  ASSUME Types, NEW c \in Coros, NEW k \in Keys, NEW ty, NEW v, NEW x,
         Respond(c, k, ty, v, x)
  PROVE  resp'[c][k].type = ty /\ resp'[c][k].ver = v /\ resp'[c][k].val = x
<1> TypeOK
  BY Zenon DEF Types
<1>1. resp' = [resp EXCEPT ![c][k] = [type |-> ty, ver |-> v, val |-> x]]
  BY Zenon DEF Respond
<1>2. resp'[c][k] = [type |-> ty, ver |-> v, val |-> x]
  BY <1>1, Domains, Zenon DEF Types
<1>3. QED BY <1>2

\* The rest of the batch: the other responses, and the requests still pending.
LEMMA RespondElse ==
  ASSUME Types, NEW c \in Coros, NEW k \in Keys, NEW ty, NEW v, NEW x,
         Respond(c, k, ty, v, x)
  PROVE  /\ \A j \in Keys \ {k} : resp'[c][j] = resp[c][j]
         /\ \A j \in Keys : <<0, j>> \in pend'[c] <=> <<0, j>> \in pend[c] /\ j # k
<1> TypeOK
  BY Zenon DEF Types
<1>1. resp' = [resp EXCEPT ![c][k] = [type |-> ty, ver |-> v, val |-> x]]
  BY Zenon DEF Respond
<1>2. \A j \in Keys \ {k} : resp'[c][j] = resp[c][j]
  BY <1>1, Domains, Zenon DEF Types
<1>3. pend'[c] = pend[c] \ {<<0, k>>}
  BY Domains, Zenon DEF Types, Respond
<1>4. QED BY <1>2, <1>3, Zenon

\* An answer changes nothing of the tables' contents or of the Tx object.
LEMMA RespondKeeps ==
  ASSUME NEW c, NEW k, NEW ty, NEW v, NEW x, Respond(c, k, ty, v, x)
  PROVE  /\ store' = store /\ status' = status /\ pc' = pc /\ rs' = rs /\ ws' = ws
         /\ execExists' = execExists /\ execVersion' = execVersion
         /\ execWsLocked' = execWsLocked /\ obj' = obj /\ snap' = snap
BY Zenon DEF Respond, itemVars

\* get_rdonly in validate() tells of a key that is bound to fail what makes it fail.
LEMMA AnswerFails ==
  ASSUME Types, NEW c \in Coros, NEW k \in Keys, Doomed(c, k),
         GetAnswer(c, k) \/ GetLocked(c, k),
         k \notin execExists[c] => obj[c][k] = Absent
  PROVE  ~Unchanged(c, k)'
<1> TypeOK
  BY Zenon DEF Types
<1> DEFINE b == BucketOf[k]
<1>1. version[b] \in Nat /\ execVersion[c][k] \in Nat /\ c # NoCaller
  BY Typed, Zenon DEF Types
<1>2. ASSUME NEW ty, NEW v, NEW x, Respond(c, k, ty, v, x),
             \/ ty = "locked"
             \/ v # execVersion[c][k]
             \/ ty = "not_found" /\ k \in execExists[c]
      PROVE  ~Unchanged(c, k)'
  <2>1. /\ resp'[c][k].type = ty /\ resp'[c][k].ver = v
        /\ execVersion' = execVersion /\ execExists' = execExists
    BY <1>2, RespondAt, RespondKeeps, Zenon DEF Types
  <2>2. QED BY <1>2, <2>1, Zenon DEF Unchanged
<1>3. CASE GetLocked(c, k)
  BY <1>2, <1>3, Zenon DEF GetLocked
<1>4. CASE GetAnswer(c, k)
  <2>1. locker[b] \in {NoCaller, c}
    BY <1>4, Zenon DEF GetAnswer, CanLock
  <2>2. /\ version[b] > execVersion[c][k]
        /\ locker[b] = c => Exists(k) \/ k \in execExists[c]
    BY <1>1, <2>1, Zenon DEF Doomed, Exists
  <2>3. CASE Exists(k)
    <3>1. Respond(c, k, "success", version[b], store[0][k])
      BY <1>4, <2>3, Zenon DEF GetAnswer
    <3>2. version[b] # execVersion[c][k]
      BY <1>1, <2>2
    <3>3. QED BY <1>2, <3>1, <3>2, Zenon
  <2>4. CASE ~Exists(k)
    <3>1. PICK v : /\ v \in IF locker[b] = c THEN StaleVersions ELSE {version[b]}
                   /\ Respond(c, k, "not_found", v, Absent)
      BY <1>4, <2>4, Zenon DEF GetAnswer
    <3>2. CASE locker[b] = c
      BY <1>2, <2>2, <2>4, <3>1, <3>2, Zenon
    <3>3. CASE locker[b] # c
      <4>1. v = version[b]
        BY <3>1, <3>3, Zenon
      <4>2. v # execVersion[c][k]
        BY <1>1, <2>2, <4>1
      <4>3. QED BY <1>2, <3>1, <4>2, Zenon
    <3>4. QED BY <3>2, <3>3, Zenon
  <2>5. QED BY <2>3, <2>4, Zenon
<1>5. QED BY <1>3, <1>4, Zenon

\* At the call of commit(), a key that was read is as it was, or validation fails.
LEMMA SnapshotFresh ==
  ASSUME Types, NEW c \in Coros, NEW k \in Keys,
         Fresh(c, k, execVersion[c][k], obj[c][k])
  PROVE  Snapshot(c)[k] = obj[c][k] \/ Doomed(c, k)
<1> TypeOK
  BY Zenon DEF Types
<1> DEFINE b == BucketOf[k]
<1>1. /\ version[b] \in Nat /\ execVersion[c][k] \in Nat
      /\ locker[b] \in Coros \cup {NoCaller} /\ c # NoCaller
  BY Typed, Zenon DEF Types
<1>2. Snapshot(c)[k] = IF CanLock(c, b) THEN store[0][k] ELSE locker[b]
  BY Zenon DEF Snapshot
<1>3. CASE Owned(c, k, obj[c][k])
  BY <1>2, <1>3, Zenon DEF Owned, CanLock
<1>4. CASE version[b] > execVersion[c][k]
  <2>1. CASE locker[b] = c
    BY <1>1, <1>2, <1>4, <2>1, Zenon DEF Doomed, CanLock
  <2>2. CASE locker[b] # c
    BY <1>1, <1>4, <2>2 DEF Doomed
  <2>3. QED BY <2>1, <2>2, Zenon
<1>5. CASE version[b] = execVersion[c][k] /\ (CanLock(c, b) => store[0][k] = obj[c][k])
  <2>1. CASE CanLock(c, b)
    BY <1>2, <1>5, <2>1, Zenon
  <2>2. CASE ~CanLock(c, b)
    BY <1>1, <1>5, <2>2 DEF Doomed, CanLock
  <2>3. QED BY <2>1, <2>2, Zenon
<1>6. QED BY <1>3, <1>4, <1>5, Zenon DEF Fresh

-----------------------------------------------------------------------------
(* The steps outside of do_read() and validate().                          *)

\* A transaction that is neither executing nor validating after the step.
LEMMA SettledStep ==
  ASSUME NEW c \in Coros, Isolated(c),
         rs'[c] = rs[c], ws'[c] = ws[c], execExists'[c] = execExists[c],
         execWsLocked'[c] = execWsLocked[c], obj'[c] = obj[c],
         pc'[c] \notin {"read", "validate"},
         pc'[c] = "run" => status'[c] # "in_progress",
         \/ snap'[c] = snap[c] /\ (Validated(c)' => Validated(c))
         \/ \A k \in rs[c] \cup ws[c] : snap'[c][k] = obj[c][k]
  PROVE  Isolated(c)'
<1>1. Items(c)'
  BY Zenon DEF Isolated, Items
<1>2. Executing(c)' /\ Validating(c)'
  BY Zenon DEF Executing, Validating
<1>3. Snapped(c)'
  BY Zenon DEF Isolated, Snapped
<1>4. QED BY <1>1, <1>2, <1>3, Zenon DEF Isolated

\* The steps that end a transaction without commit(), and those that follow
\* validation.
LEMMA SettledSteps ==
  ASSUME SnapInv, NEW c \in Coros,
         \/ CommitSingleRead(c) \/ AbortRdonly(c) \/ Abort(c) \/ AbortDone(c)
         \/ LogDone(c) \/ BackupDone(c) \/ PrimaryDone(c)
  PROVE  Isolated(c)'
<1>t. TypeOK /\ Phase(c) /\ Isolated(c)
  BY Zenon DEF SnapInv, LockInv, PhaseInv
<1>i. UNCHANGED <<itemVars, snap>>
  BY Zenon DEF CommitSingleRead, AbortRdonly, Abort, AbortDone, LogDone, BackupDone, PrimaryDone
<1>s. /\ rs'[c] = rs[c] /\ ws'[c] = ws[c] /\ execExists'[c] = execExists[c]
      /\ execWsLocked'[c] = execWsLocked[c] /\ obj'[c] = obj[c] /\ snap'[c] = snap[c]
  BY <1>i, Zenon DEF itemVars
<1>1. CASE CommitSingleRead(c)
  <2>1. pc'[c] = "run" /\ status'[c] = "committed" /\ Cardinality(rs[c]) = 1 /\ ws[c] = {}
    BY <1>1, <1>t, Domains, Zenon DEF Types, CommitSingleRead, Running
  <2>2. ~Validated(c)'
    <3>1. Cardinality(rs'[c]) = 1 /\ ws'[c] = {}
      BY <2>1, <1>s, Zenon
    <3>2. QED BY <2>1, <3>1 DEF Validated
  <2>3. QED BY <1>t, <1>s, <2>1, <2>2, SettledStep, Zenon
<1>2. CASE AbortRdonly(c) \/ Abort(c) \/ AbortDone(c)
  <2>1. pc'[c] \in {"run", "abort"} /\ status'[c] = "aborted"
    BY <1>2, <1>t, Domains, Zenon
       DEF Types, AbortRdonly, Abort, AbortDone, SendAbort, Finish, Running, BatchDone, Phase
  <2>2. ~Validated(c)'
    BY <2>1, Zenon DEF Validated
  <2>3. QED BY <1>t, <1>s, <2>1, <2>2, SettledStep, Zenon
<1>3. CASE LogDone(c) \/ BackupDone(c)
  <2>1. pc[c] \in {"log", "backup"} /\ pc'[c] \in {"backup", "primary"}
    BY <1>3, <1>t, Domains, Zenon
       DEF Types, LogDone, BackupDone, BatchDone, SendBackups, SendPrimary, Send
  <2>2. Validated(c)
    BY <2>1, Zenon DEF Validated
  <2>3. QED BY <1>t, <1>s, <2>1, <2>2, SettledStep, Zenon
<1>4. CASE PrimaryDone(c)
  <2>1. pc[c] = "primary" /\ pc'[c] = "run" /\ status'[c] = "committed"
    BY <1>4, <1>t, Domains, Zenon DEF Types, PrimaryDone, BatchDone, Finish
  <2>2. Validated(c)
    BY <2>1, Zenon DEF Validated
  <2>3. QED BY <1>t, <1>s, <2>1, <2>2, SettledStep, Zenon
<1>5. QED BY <1>1, <1>2, <1>3, <1>4, Zenon

\* A handler that serves commit()'s updates or abort()'s unlocks.
LEMMA ServedIsolated ==
  ASSUME SnapInv, NEW c \in Coros,
         \E k \in Keys : Unlock(c, k) \/ \E r \in Replicas : Update(c, r, k)
  PROVE  Isolated(c)'
<1>t. TypeOK /\ Phase(c) /\ Isolated(c)
  BY Zenon DEF SnapInv, LockInv, PhaseInv
<1>1. /\ UNCHANGED <<status, pc, itemVars, snap>>
      /\ pc[c] \in {"backup", "primary", "abort"}
  BY Zenon DEF Unlock, Update
<1>2. /\ rs'[c] = rs[c] /\ ws'[c] = ws[c] /\ execExists'[c] = execExists[c]
      /\ execWsLocked'[c] = execWsLocked[c] /\ obj'[c] = obj[c] /\ snap'[c] = snap[c]
      /\ pc'[c] = pc[c]
  BY <1>1, Zenon DEF itemVars
<1>3. Validated(c)' => Validated(c)
  BY <1>1, <1>2, Zenon DEF Validated
<1>4. QED BY <1>t, <1>1, <1>2, <1>3, SettledStep, Zenon

-----------------------------------------------------------------------------
(* commit() and validate().                                                *)

\* commit() without a read set, or with a batch to validate.
LEMMA CommitIsolated ==
  ASSUME SnapInv, NEW c \in Coros, Commit(c)
  PROVE  Isolated(c)'
<1>t. TypeOK /\ Phase(c) /\ Isolated(c)
  BY Zenon DEF SnapInv, LockInv, PhaseInv
<1>1. /\ pc[c] = "run" /\ status[c] = "in_progress" /\ pend[c] = {}
      /\ resp[c] = [k \in Keys |-> NoResp] /\ execWsLocked[c] = ws[c]
  BY <1>t, Zenon DEF Commit, Running, Phase
<1>2. /\ UNCHANGED <<bucketVars, store>> /\ resp' = resp
      /\ rs'[c] = rs[c] /\ ws'[c] = ws[c] /\ execExists'[c] = execExists[c]
      /\ execWsLocked'[c] = execWsLocked[c] /\ obj'[c] = obj[c]
      /\ execVersion'[c] = execVersion[c] /\ snap'[c] = Snapshot(c)
  BY <1>t, Domains, Zenon DEF Types, Commit, itemVars
<1>3. rs[c] \subseteq Keys /\ ws[c] \subseteq Keys
  BY <1>t, Typed, Zenon DEF Types
<1>4. \A k \in ws[c] : snap'[c][k] = obj[c][k]
  <2>1. \A k \in ws[c] : Owned(c, k, obj[c][k])
    BY <1>t, <1>1, Zenon DEF Isolated, Executing
  <2>2. QED BY <1>2, <1>3, <2>1, Zenon DEF Owned, Snapshot, CanLock
<1>5. \A k \in rs[c] : snap'[c][k] = obj[c][k] \/ Doomed(c, k)
  <2>1. \A k \in rs[c] : Fresh(c, k, execVersion[c][k], obj[c][k])
    <3>1. \A k \in Keys : resp[c][k].type = "none"
      BY <1>1 DEF NoResp
    <3>2. QED BY <3>1, <1>t, <1>1, <1>3, Zenon DEF Isolated, Executing
  <2>2. QED BY <1>t, <1>2, <1>3, <2>1, SnapshotFresh, Zenon DEF Types
<1>6. CASE rs[c] = {}
  <2>1. pc'[c] \in {"log", "primary"}
    BY <1>t, <1>6, Domains, Zenon DEF Types, Commit, SendLog, SendPrimary, Send
  <2>2. \A k \in rs[c] \cup ws[c] : snap'[c][k] = obj[c][k]
    BY <1>4, <1>6, Zenon
  <2>3. QED BY <1>t, <1>2, <2>1, <2>2, SettledStep, Zenon
<1>7. CASE rs[c] # {}
  <2>1. pc'[c] = "validate" /\ pend'[c] = {0} \X rs[c] /\ status'[c] = "in_progress"
    BY <1>t, <1>1, <1>7, Domains, Zenon DEF Types, Commit, SendValidate, Send
  <2>2. Items(c)' /\ Executing(c)' /\ Snapped(c)'
    BY <1>t, <1>2, <2>1, Zenon DEF Isolated, Items, Executing, Snapped, Validated
  <2>3. \A k \in rs[c] : Doomed(c, k) => Doomed(c, k)'
    BY <1>2, Zenon DEF Doomed, bucketVars
  <2>4. \A k \in rs[c] : <<0, k>> \in pend'[c]
    BY <2>1, Zenon
  <2>5. Validating(c)'
    <3>1. \A k \in ws'[c] : snap'[c][k] = obj'[c][k]
      BY <1>2, <1>4, Zenon
    <3>2. \A k \in rs'[c] : snap'[c][k] = obj'[c][k] \/ (<<0, k>> \in pend'[c] /\ Doomed(c, k)')
      <4> SUFFICES ASSUME NEW k \in rs'[c]
                   PROVE  snap'[c][k] = obj'[c][k] \/ (<<0, k>> \in pend'[c] /\ Doomed(c, k)')
        OBVIOUS
      <4>1. k \in rs[c] /\ obj'[c][k] = obj[c][k]
        BY <1>2, Zenon
      <4>2. QED BY <4>1, <1>5, <2>3, <2>4, Zenon
    <3>3. QED BY <3>1, <3>2, Zenon DEF Validating
  <2>6. QED BY <2>2, <2>5, Zenon DEF Isolated
<1>8. QED BY <1>6, <1>7, Zenon

\* The end of validate(): if all comparisons succeed, all keys are those of the
\* snapshot.
LEMMA ValidateDoneIsolated ==
  ASSUME SnapInv, NEW c \in Coros, ValidateDone(c)
  PROVE  Isolated(c)'
<1>t. TypeOK /\ Phase(c) /\ Isolated(c)
  BY Zenon DEF SnapInv, LockInv, PhaseInv
<1>1. pc[c] = "validate" /\ pend[c] = {} /\ status[c] = "in_progress"
  BY <1>t, Zenon DEF ValidateDone, BatchDone, Phase
<1>2. /\ rs'[c] = rs[c] /\ ws'[c] = ws[c] /\ execExists'[c] = execExists[c]
      /\ execWsLocked'[c] = execWsLocked[c] /\ obj'[c] = obj[c] /\ snap'[c] = snap[c]
  BY Zenon DEF ValidateDone, itemVars
<1>3. CASE ~Valid(c)
  <2>1. pc'[c] \in {"run", "abort"} /\ status'[c] = "aborted"
    BY <1>t, <1>3, Domains, Zenon DEF Types, ValidateDone, SendAbort, Finish
  <2>2. ~Validated(c)'
    BY <2>1, Zenon DEF Validated
  <2>3. QED BY <1>t, <1>2, <2>1, <2>2, SettledStep, Zenon
<1>4. CASE Valid(c)
  <2>1. \A k \in rs[c] \cup ws[c] : snap'[c][k] = obj[c][k]
    BY <1>t, <1>1, <1>2, <1>4, Zenon DEF Isolated, Validating, Valid
  <2>2. \/ pc'[c] = "run" /\ status'[c] = "committed"
        \/ pc'[c] \in {"log", "primary"}
    <3>1. DOMAIN pc = Coros /\ DOMAIN status = Coros
      BY <1>t, Domains, Zenon DEF Types
    <3>2. SendLog(c) \/ Finish(c, "committed")
      BY <1>4, Zenon DEF ValidateDone
    <3>3. QED BY <3>1, <3>2, Zenon DEF Finish, SendLog, SendPrimary, Send
  <2>3. QED BY <1>t, <1>2, <2>1, <2>2, SettledStep, Zenon
<1>5. QED BY <1>3, <1>4, Zenon

-----------------------------------------------------------------------------
(* do_read().                                                              *)

\* A new transaction has read nothing.
LEMMA StartIsolated ==
  ASSUME SnapInv, NEW c \in Coros, Start(c)
  PROVE  Isolated(c)'
<1>t. TypeOK /\ Phase(c)
  BY Zenon DEF SnapInv, LockInv, PhaseInv
<1>p. PICK p \in Batches : SendRead(c, {}, {}, p)
  BY Zenon DEF Start
<1>1. pc'[c] = "read" /\ resp' = resp /\ \A k \in rs'[c] : <<0, k>> \in pend'[c]
  <2>1. ReadSent(c, {}, {}, p)
    BY <1>t, <1>p, SendReadAt, Zenon DEF Types
  <2>2. QED BY <2>1, Zenon DEF ReadSent
<1>2. /\ execExists'[c] = {} /\ execWsLocked'[c] = {} /\ status'[c] = "in_progress"
      /\ obj'[c] = [k \in Keys |-> Absent]
  BY <1>t, Domains, Zenon DEF Types, Start
<1>3. \A k \in Keys : resp'[c][k].type = "none"
  <2>1. resp[c] = [k \in Keys |-> NoResp]
    BY <1>t, Zenon DEF Start, Running, Phase
  <2>2. QED BY <1>1, <2>1, NoRespType, Zenon
<1>4. Items(c)'
  BY <1>2, <1>3, Zenon DEF Items
<1>5. Executing(c)'
  BY <1>1, <1>2, <1>3, Zenon DEF Executing
<1>6. Validating(c)' /\ Snapped(c)'
  BY <1>1, <1>2, Zenon DEF Validating, Snapped, Validated
<1>7. QED BY <1>4, <1>5, <1>6, Zenon DEF Isolated

\* A second do_read() asks for new keys only.
LEMMA ReadMoreIsolated ==
  ASSUME SnapInv, NEW c \in Coros, ReadMore(c)
  PROVE  Isolated(c)'
<1>t. TypeOK /\ Phase(c) /\ Isolated(c)
  BY Zenon DEF SnapInv, LockInv, PhaseInv
<1>p. PICK p \in Batches : SendRead(c, rs[c], ws[c], p)
  BY Zenon DEF ReadMore
<1>1. /\ pc'[c] = "read" /\ resp' = resp /\ UNCHANGED <<bucketVars, store>>
      /\ rs'[c] = rs[c] \cup p.rd /\ ws'[c] = ws[c] \cup DOMAIN p.wr
      /\ pend'[c] = {0} \X (p.rd \cup DOMAIN p.wr)
      /\ \A k \in p.rd \cup DOMAIN p.wr : k \notin rs[c] \cup ws[c]
  <2>1. ReadSent(c, rs[c], ws[c], p)
    BY <1>t, <1>p, SendReadAt, Zenon DEF Types
  <2>2. QED BY <2>1, Zenon DEF ReadSent
<1>2. /\ execExists'[c] = execExists[c] /\ execWsLocked'[c] = execWsLocked[c]
      /\ obj'[c] = obj[c] /\ execVersion'[c] = execVersion[c]
      /\ pc[c] = "run" /\ status[c] = "in_progress" /\ status'[c] = "in_progress"
      /\ pend[c] = {} /\ resp[c] = [k \in Keys |-> NoResp]
  BY <1>t, Zenon DEF ReadMore, Running, Phase
<1>3. \A k \in Keys : resp[c][k].type = "none" /\ resp'[c][k].type = "none"
  <2>1. resp'[c] = resp[c]
    BY <1>1, Zenon
  <2>2. QED BY <1>2, <2>1, NoRespType, Zenon
<1>4. Items(c)'
  <2>1. /\ execExists[c] \subseteq rs[c]
        /\ \A k \in Keys \ (execExists[c] \cup execWsLocked[c]) : obj[c][k] = Absent
    BY <1>t, Zenon DEF Isolated, Items
  <2>2. execExists'[c] \subseteq rs'[c]
    BY <2>1, <1>1, <1>2, Zenon
  <2>3. \A k \in Keys : k \in execExists'[c] => <<0, k>> \notin pend'[c]
    BY <2>1, <1>1, <1>2, Zenon
  <2>4. QED BY <2>1, <2>2, <2>3, <1>2, <1>3, Zenon DEF Items
<1>5. Executing(c)'
  <2>1. \A k \in execWsLocked[c] : Owned(c, k, obj[c][k])'
    BY <1>t, <1>1, <1>2, Zenon DEF Isolated, Executing, Owned, bucketVars
  <2>2. ASSUME NEW k \in Keys, k \in rs'[c], <<0, k>> \notin pend'[c]
        PROVE  Fresh(c, k, execVersion[c][k], obj[c][k])'
    <3>1. k \in rs[c]
      BY <1>1, <2>2, Zenon
    <3>2. Fresh(c, k, execVersion[c][k], obj[c][k])
      BY <1>t, <1>2, <1>3, <3>1, Zenon DEF Isolated, Executing
    <3>3. QED BY <3>2, <1>1, <1>2, Zenon DEF Fresh, Owned, CanLock, bucketVars
  <2>3. QED BY <1>2, <1>3, <2>1, <2>2, Zenon DEF Executing
<1>6. Validating(c)' /\ Snapped(c)'
  BY <1>1, <1>2, Zenon DEF Validating, Snapped, Validated
<1>7. QED BY <1>4, <1>5, <1>6, Zenon DEF Isolated

\* The responses of a do_read() go to the read and the write set.
LEMMA ReadDoneIsolated ==
  ASSUME SnapInv, NEW c \in Coros, ReadDone(c)
  PROVE  Isolated(c)'
<1>t. TypeOK /\ Phase(c) /\ Isolated(c)
  BY Zenon DEF SnapInv, LockInv, PhaseInv
<1>a. /\ pc[c] = "read" /\ pend[c] = {} /\ status[c] = "in_progress"
      /\ rs[c] \cap ws[c] = {} /\ execWsLocked[c] \subseteq ws[c]
  BY <1>t, Zenon DEF ReadDone, BatchDone, Phase
<1>b. /\ UNCHANGED <<bucketVars, store>> /\ rs'[c] = rs[c] /\ ws'[c] = ws[c]
      /\ pc'[c] = "run" /\ pend'[c] = {}
      /\ resp'[c] = [k \in Keys |-> NoResp]
  BY <1>t, <1>a, Domains, Zenon DEF Types, ReadDone
<1>c. \A k \in Keys :
        /\ k \in execExists'[c] <=>
             k \in execExists[c] \/ (resp[c][k].type = "success" /\ k \in rs[c])
        /\ k \in execWsLocked'[c] <=>
             k \in execWsLocked[c] \/ (resp[c][k].type = "success" /\ k \in ws[c])
        /\ obj'[c][k] = IF resp[c][k].type = "success" THEN resp[c][k].val ELSE obj[c][k]
        /\ execVersion'[c][k] =
             IF resp[c][k].type \in {"success", "not_found"} /\ k \in rs[c]
             THEN resp[c][k].ver ELSE execVersion[c][k]
  BY <1>t, Zenon DEF ReadDone, Answered, TypeOK, ItemTypes
<1>d. /\ execExists'[c] \subseteq rs[c] /\ execWsLocked'[c] \subseteq ws[c]
      /\ rs[c] \subseteq Keys /\ ws[c] \subseteq Keys
  BY <1>t, Domains, Typed, Zenon DEF Types, ReadDone, Isolated, Items, Phase
<1>e. status'[c] = "in_progress" => \A k \in Keys : resp[c][k].type # "locked"
  BY <1>t, Domains, Zenon DEF Types, ReadDone, Answered
<1>f. status'[c] \in {"in_progress", "must_abort"}
  BY <1>t, <1>a, Domains, Zenon DEF Types, ReadDone
<1>1. Items(c)'
  <2>1. ASSUME NEW k \in Keys, k \notin execExists'[c] \cup execWsLocked'[c]
        PROVE  obj'[c][k] = Absent
    BY <1>t, <1>a, <1>c, <2>1, Zenon DEF Isolated, Items
  <2>2. QED BY <1>b, <1>d, <2>1, Zenon DEF Items
<1>2. Executing(c)'
  <2> SUFFICES ASSUME status'[c] = "in_progress" PROVE Executing(c)'
    BY Zenon DEF Executing
  <2>1. ASSUME NEW k \in execWsLocked'[c] PROVE Owned(c, k, obj[c][k])'
    <3>1. k \in Keys /\ k \in ws[c]
      BY <1>d, Zenon
    <3>2. CASE k \in execWsLocked[c]
      <4>1. Owned(c, k, obj[c][k]) /\ resp[c][k].type = "none"
        BY <1>t, <1>a, <3>1, <3>2, Zenon DEF Isolated, Executing, Phase
      <4>2. obj'[c][k] = obj[c][k]
        BY <1>c, <3>1, <4>1, Zenon
      <4>3. QED BY <1>b, <4>1, <4>2, Zenon DEF Owned, bucketVars
    <3>3. CASE k \notin execWsLocked[c]
      <4>1. resp[c][k].type = "success"
        BY <1>c, <3>1, <3>3, Zenon
      <4>2. Owned(c, k, resp[c][k].val)
        BY <1>t, <1>a, <3>1, <4>1, Zenon DEF Isolated, Executing, Told
      <4>3. obj'[c][k] = resp[c][k].val
        BY <1>c, <3>1, <4>1, Zenon
      <4>4. QED BY <1>b, <4>2, <4>3, Zenon DEF Owned, bucketVars
    <3>4. QED BY <3>2, <3>3, Zenon
  <2>2. ASSUME NEW k \in rs[c] PROVE Fresh(c, k, execVersion[c][k], obj[c][k])'
    <3>1. k \in Keys /\ k \notin ws[c]
      BY <1>a, <1>d, Zenon
    <3>2. CASE resp[c][k].type = "none"
      <4>1. Fresh(c, k, execVersion[c][k], obj[c][k])
        BY <1>t, <1>a, <3>1, <3>2, Zenon DEF Isolated, Executing
      <4>2. execVersion'[c][k] = execVersion[c][k] /\ obj'[c][k] = obj[c][k]
        BY <1>c, <3>1, <3>2, Zenon
      <4>3. QED BY <1>b, <4>1, <4>2, Zenon DEF Fresh, Owned, CanLock, bucketVars
    <3>3. CASE resp[c][k].type # "none"
      <4>1. /\ resp[c][k].type \in {"success", "not_found"}
            /\ resp[c][k].type = "not_found" => resp[c][k].val = Absent
            /\ Fresh(c, k, resp[c][k].ver, resp[c][k].val)
        BY <1>t, <1>a, <1>e, <3>1, <3>3, Zenon DEF Isolated, Executing, Told
      <4>2. execVersion'[c][k] = resp[c][k].ver
        BY <1>c, <3>1, <4>1, Zenon
      <4>3. k \notin execExists[c] \cup execWsLocked[c]
        BY <1>t, <1>a, <3>1, <3>3, Zenon DEF Isolated, Items
      <4>4. obj[c][k] = Absent
        BY <1>t, <3>1, <4>3, Zenon DEF Isolated, Items
      <4>5. obj'[c][k] = resp[c][k].val
        BY <1>c, <3>1, <4>1, <4>4, Zenon
      <4>6. QED BY <1>b, <4>1, <4>2, <4>5, Zenon DEF Fresh, Owned, CanLock, bucketVars
    <3>4. QED BY <3>2, <3>3, Zenon
  <2>3. \A k \in Keys : resp'[c][k].type = "none"
    BY <1>b, NoRespType, Zenon
  <2>4. QED BY <1>b, <2>1, <2>2, <2>3, Zenon DEF Executing
<1>3. Validating(c)' /\ Snapped(c)'
  BY <1>b, <1>f, Zenon DEF Validating, Snapped, Validated
<1>4. QED BY <1>1, <1>2, <1>3, Zenon DEF Isolated

-----------------------------------------------------------------------------
(* The handlers' answers to do_read() and validate().                      *)

\* An answer to do_read() that is as Told() says.
LEMMA AnswerIsolated ==
  ASSUME SnapInv, Types', NEW c \in Coros, NEW k \in Keys, NEW ty, NEW v, NEW x,
         pc[c] = "read", <<0, k>> \in pend[c], Respond(c, k, ty, v, x), ty # "none",
         \A j \in Keys : Respects(c, j), Told(c, k)'
  PROVE  Isolated(c)'
<1> TypeOK'
  BY Zenon DEF Types
<1>t. TypeOK /\ Phase(c) /\ Isolated(c)
  BY Zenon DEF SnapInv, LockInv, PhaseInv
<1>1. /\ resp'[c][k].type = ty
      /\ \A j \in Keys \ {k} : resp'[c][j] = resp[c][j]
      /\ \A j \in Keys : <<0, j>> \in pend'[c] <=> <<0, j>> \in pend[c] /\ j # k
  <2>1. Types
    BY <1>t, Zenon DEF Types
  <2>2. resp'[c][k].type = ty
    BY <2>1, RespondAt, Zenon
  <2>3. /\ \A j \in Keys \ {k} : resp'[c][j] = resp[c][j]
        /\ \A j \in Keys : <<0, j>> \in pend'[c] <=> <<0, j>> \in pend[c] /\ j # k
    BY <2>1, RespondElse, Zenon
  <2>4. QED BY <2>2, <2>3, Zenon
<1>2. /\ rs'[c] = rs[c] /\ ws'[c] = ws[c] /\ execExists'[c] = execExists[c]
      /\ execWsLocked'[c] = execWsLocked[c] /\ obj'[c] = obj[c]
      /\ execVersion'[c] = execVersion[c] /\ pc'[c] = "read" /\ status' = status
  BY RespondKeeps, Zenon
<1>3. k \in rs[c] \cup ws[c] /\ status[c] = "in_progress" /\ status'[c] = "in_progress"
  BY <1>t, <1>2, Zenon DEF Phase
<1>4. Items(c)'
  BY <1>t, <1>1, <1>2, <1>3, Zenon DEF Isolated, Items
<1>5. Executing(c)'
  <2>1. ASSUME NEW j \in execWsLocked[c] PROVE Owned(c, j, obj[c][j])'
    <3>1. j \in Keys /\ Owned(c, j, obj[c][j])
      BY <1>t, <1>3, Typed, Zenon DEF Types, Isolated, Executing
    <3>2. \A y : Owned(c, j, y) => Owned(c, j, y)'
      BY <3>1, OwnedKept, Zenon
    <3>3. QED BY <1>2, <3>1, <3>2, Zenon DEF Owned
  <2>2. ASSUME NEW j \in Keys, resp'[c][j].type # "none" PROVE Told(c, j)'
    <3>1. CASE j = k
      BY <3>1, Zenon
    <3>2. CASE j # k
      <4>1. resp'[c][j] = resp[c][j]
        BY <1>1, <3>2, Zenon
      <4>2. Told(c, j)
        BY <1>t, <1>3, <2>2, <4>1, Zenon DEF Isolated, Executing
      <4>3. QED BY <1>t, <1>2, <4>1, <4>2, ToldKept, Zenon DEF Types
    <3>3. QED BY <3>1, <3>2, Zenon
  <2>3. ASSUME NEW j \in Keys, resp'[c][j].type = "none", j \in rs[c],
               <<0, j>> \notin pend'[c]
        PROVE  Fresh(c, j, execVersion[c][j], obj[c][j])'
    <3>1. j # k /\ resp'[c][j] = resp[c][j] /\ <<0, j>> \notin pend[c]
      BY <1>1, <2>3, Zenon
    <3>2. Fresh(c, j, execVersion[c][j], obj[c][j])
      BY <1>t, <1>3, <2>3, <3>1, Zenon DEF Isolated, Executing
    <3>3. execVersion[c][j] \in Nat
      BY <1>t, Typed, Zenon DEF Types
    <3>4. \A w \in Nat : \A y : Fresh(c, j, w, y) => Fresh(c, j, w, y)'
      BY <1>t, FreshKept, Zenon DEF Types
    <3>5. execVersion'[c][j] = execVersion[c][j] /\ obj'[c][j] = obj[c][j]
      BY <1>2, Zenon
    <3>6. QED BY <3>2, <3>3, <3>4, <3>5, Zenon DEF Fresh, Owned, CanLock
  <2>4. QED BY <1>2, <2>1, <2>2, <2>3, Zenon DEF Executing
<1>6. Validating(c)' /\ Snapped(c)'
  BY <1>2, <1>3, Zenon DEF Validating, Snapped, Validated
<1>7. QED BY <1>4, <1>5, <1>6, Zenon DEF Isolated

\* The lock requests tell a value only with the lock.
LEMMA LockAnswersIsolated ==
  ASSUME SnapInv, Types', NEW c \in Coros, NEW k \in Keys,
         GetForUpd(c, k) \/ LockForIns(c, k) \/ LockRefused(c, k),
         \A j \in Keys : Respects(c, j)
  PROVE  Isolated(c)'
<1> TypeOK'
  BY Zenon DEF Types
<1>t. TypeOK /\ Phase(c)
  BY Zenon DEF SnapInv, LockInv, PhaseInv
<1>1. pc[c] = "read" /\ <<0, k>> \in pend[c] /\ k \in ws[c] /\ k \notin rs[c]
  BY <1>t, Zenon DEF GetForUpd, LockForIns, LockRefused, LockRequested, Phase
<1>b. BucketOf[k] \in Buckets
  BY ConstTypes, Zenon
<1>2. ASSUME NEW ty \in {"not_found", "exists", "locked"}, NEW v, NEW x,
             Respond(c, k, ty, v, x)
      PROVE  Isolated(c)'
  <2>1. resp'[c][k].type = ty /\ rs'[c] = rs[c]
    BY <1>t, <1>2, RespondAt, RespondKeeps, Zenon DEF Types
  <2>2. Told(c, k)'
    BY <1>1, <2>1, Zenon DEF Told
  <2>3. QED BY <1>1, <1>2, <2>2, AnswerIsolated, Zenon DEF Types
<1>3. ASSUME NEW x, LockBucket(c, BucketOf[k]), x = store[0][k],
             Respond(c, k, "success", version[BucketOf[k]], x)
      PROVE  Isolated(c)'
  <2>1. resp'[c][k].val = x /\ rs'[c] = rs[c] /\ store' = store
    <3>1. \A ty, v, y : Respond(c, k, ty, v, y) => resp'[c][k].val = y
      BY <1>t, RespondAt DEF Types
    <3>2. QED BY <1>3, <3>1, RespondKeeps, Zenon
  <2>2. locker'[BucketOf[k]] = c
    BY <1>t, <1>b, <1>3, Zenon DEF LockBucket, TypeOK
  <2>3. Told(c, k)'
    BY <1>1, <1>3, <2>1, <2>2, Zenon DEF Told, Owned
  <2>4. QED BY <1>1, <1>3, <2>3, AnswerIsolated, Zenon DEF Types
<1>4. CASE GetForUpd(c, k)
  BY <1>2, <1>3, <1>4, Zenon DEF GetForUpd
<1>5. CASE LockForIns(c, k)
  BY <1>2, <1>3, <1>5, Zenon DEF LockForIns, Exists
<1>6. CASE LockRefused(c, k)
  BY <1>2, <1>6, Zenon DEF LockRefused, GetLocked
<1>7. QED BY <1>4, <1>5, <1>6, Zenon

\* get_rdonly in do_read() tells a value with the version that goes with it, or,
\* with left-over bytes for a version, of a bucket that c has locked.
LEMMA ReadAnswerIsolated ==
  ASSUME SnapInv, Types', NEW c \in Coros, NEW k \in Keys, GetRdonly(c, k), pc[c] = "read",
         \A j \in Keys : Respects(c, j)
  PROVE  Isolated(c)'
<1> TypeOK'
  BY Zenon DEF Types
<1>t. TypeOK /\ Phase(c)
  BY Zenon DEF SnapInv, LockInv, PhaseInv
<1>1. /\ <<0, k>> \in pend[c] /\ k \in rs[c] /\ k \notin ws[c] /\ UNCHANGED bucketVars
      /\ GetAnswer(c, k) \/ GetLocked(c, k)
  BY <1>t, Zenon DEF GetRdonly, Phase
<1>2. CASE GetLocked(c, k)
  <2>1. Respond(c, k, "locked", 0, Absent)
    BY <1>2, Zenon DEF GetLocked
  <2>2. resp'[c][k].type = "locked" /\ ws'[c] = ws[c]
    BY <1>t, <2>1, RespondAt, RespondKeeps, Zenon DEF Types
  <2>3. Told(c, k)'
    BY <1>1, <2>2, Zenon DEF Told
  <2>4. QED BY <1>1, <2>1, <2>3, AnswerIsolated, Zenon DEF Types
<1>3. ASSUME NEW ty \in {"success", "not_found"}, NEW v, NEW x, Respond(c, k, ty, v, x),
             x = store[0][k], ty = "not_found" => x = Absent,
             locker[BucketOf[k]] = c \/ v = version[BucketOf[k]]
      PROVE  Isolated(c)'
  <2>1. /\ resp'[c][k].type = ty /\ resp'[c][k].ver = v /\ resp'[c][k].val = x
        /\ ws'[c] = ws[c] /\ store' = store
    <3>1. \A t, w, y : Respond(c, k, t, w, y) =>
            resp'[c][k].type = t /\ resp'[c][k].ver = w /\ resp'[c][k].val = y
      BY <1>t, RespondAt, Zenon DEF Types
    <3>2. QED BY <1>3, <3>1, RespondKeeps, Zenon
  <2>2. locker' = locker /\ version' = version
    BY <1>1, Zenon DEF bucketVars
  <2>3. Fresh(c, k, resp[c][k].ver, resp[c][k].val)'
    BY <1>3, <2>1, <2>2, Zenon DEF Fresh, Owned, CanLock
  <2>4. Told(c, k)'
    BY <1>1, <1>3, <2>1, <2>3, Zenon DEF Told
  <2>5. QED BY <1>1, <1>3, <2>4, AnswerIsolated, Zenon DEF Types
<1>4. CASE GetAnswer(c, k)
  BY <1>3, <1>4, Zenon DEF GetAnswer, Exists
<1>5. QED BY <1>1, <1>2, <1>4, Zenon

\* An answer to validate() decides the comparison of its key.
LEMMA ValidateAnswerIsolated ==
  ASSUME SnapInv, NEW c \in Coros, NEW k \in Keys, GetRdonly(c, k), pc[c] = "validate"
  PROVE  Isolated(c)'
<1>t. TypeOK /\ Phase(c) /\ Isolated(c)
  BY Zenon DEF SnapInv, LockInv, PhaseInv
<1>1. /\ <<0, k>> \in pend[c] /\ k \in rs[c] /\ k \notin ws[c] /\ UNCHANGED bucketVars
      /\ GetAnswer(c, k) \/ GetLocked(c, k)
      /\ status[c] = "in_progress" /\ execWsLocked[c] \subseteq ws[c]
  BY <1>t, Zenon DEF GetRdonly, Phase
<1>2. PICK ty, v, x : Respond(c, k, ty, v, x)
  BY <1>1, Zenon DEF GetAnswer, GetLocked
<1>3. /\ \A j \in Keys \ {k} : resp'[c][j] = resp[c][j]
      /\ \A j \in Keys : <<0, j>> \in pend'[c] <=> <<0, j>> \in pend[c] /\ j # k
  BY <1>t, <1>2, RespondElse, Zenon DEF Types
<1>4. /\ rs'[c] = rs[c] /\ ws'[c] = ws[c] /\ execExists'[c] = execExists[c]
      /\ execWsLocked'[c] = execWsLocked[c] /\ obj'[c] = obj[c]
      /\ execVersion'[c] = execVersion[c] /\ snap'[c] = snap[c]
      /\ pc'[c] = "validate" /\ status'[c] = "in_progress" /\ store' = store
      /\ rs[c] \subseteq Keys
  BY <1>t, <1>1, <1>2, RespondKeeps, Typed, Zenon DEF Types
<1>5. Items(c)' /\ Executing(c)' /\ Snapped(c)'
  BY <1>t, <1>4, Zenon DEF Isolated, Items, Executing, Snapped, Validated
<1>6. ASSUME NEW j \in rs[c]
      PROVE  \/ snap'[c][j] = obj'[c][j]
             \/ <<0, j>> \in pend'[c] /\ Doomed(c, j)'
             \/ <<0, j>> \notin pend'[c] /\ ~Unchanged(c, j)'
  <2>1. /\ j \in Keys
        /\ \/ snap[c][j] = obj[c][j]
           \/ <<0, j>> \in pend[c] /\ Doomed(c, j)
           \/ <<0, j>> \notin pend[c] /\ ~Unchanged(c, j)
    BY <1>t, <1>4, Zenon DEF Isolated, Validating
  <2>2. CASE j = k
    <3>1. Doomed(c, k) => ~Unchanged(c, k)'
      <4>1. k \notin execExists[c] => obj[c][k] = Absent
        BY <1>t, <1>1, Zenon DEF Isolated, Items
      <4>2. QED BY <1>t, <1>1, <4>1, AnswerFails, Zenon DEF Types
    <3>2. QED BY <1>1, <1>3, <1>4, <2>1, <2>2, <3>1, Zenon
  <2>3. CASE j # k
    <3>1. resp'[c][j] = resp[c][j] /\ (<<0, j>> \in pend'[c] <=> <<0, j>> \in pend[c])
      BY <1>3, <2>1, <2>3, Zenon
    <3>2. Doomed(c, j) => Doomed(c, j)'
      BY <1>1, <1>4, Zenon DEF Doomed, bucketVars
    <3>3. ~Unchanged(c, j) => ~Unchanged(c, j)'
      BY <1>4, <3>1, Zenon DEF Unchanged
    <3>4. QED BY <1>4, <2>1, <3>1, <3>2, <3>3, Zenon
  <2>4. QED BY <2>2, <2>3, Zenon
<1>7. \A j \in ws[c] : snap'[c][j] = obj'[c][j]
  BY <1>t, <1>4, Zenon DEF Isolated, Validating
<1>8. Validating(c)'
  BY <1>4, <1>6, <1>7, Zenon DEF Validating
<1>9. QED BY <1>5, <1>8, Zenon DEF Isolated

-----------------------------------------------------------------------------
(* All steps.                                                              *)

\* The steps of c and of the handlers that serve it keep its transaction isolated.
LEMMA OwnStepIsolated ==
  ASSUME SnapInv, Types', NEW c \in Coros, Coordinator(c) \/ Server(c)
  PROVE  Isolated(c)'
<1> TypeOK'
  BY Zenon DEF Types
<1>t. TypeOK /\ LockInv /\ Isolated(c)
  BY Zenon DEF SnapInv, LockInv
<1>1. CASE Coordinator(c)
  BY <1>1, StartIsolated, ReadMoreIsolated, ReadDoneIsolated, CommitIsolated,
     ValidateDoneIsolated, SettledSteps, Zenon DEF Coordinator
<1>2. pc[c] \in {"read", "validate"} => \A k \in Keys : Respects(c, k)
  BY <1>t, StepRespects, Zenon
<1>3. ASSUME NEW k \in Keys, GetRdonly(c, k) PROVE Isolated(c)'
  <2>1. pc[c] \in {"read", "validate"}
    BY <1>3, Zenon DEF GetRdonly
  <2>2. QED BY <1>2, <1>3, <2>1, ReadAnswerIsolated, ValidateAnswerIsolated, Zenon DEF Types
<1>4. ASSUME NEW k \in Keys, GetForUpd(c, k) \/ LockForIns(c, k) \/ LockRefused(c, k)
      PROVE  Isolated(c)'
  <2>1. pc[c] = "read"
    BY <1>4, Zenon DEF GetForUpd, LockForIns, LockRefused, LockRequested
  <2>2. QED BY <1>2, <1>4, <2>1, LockAnswersIsolated, Zenon DEF Types
<1>5. CASE \E k \in Keys : Unlock(c, k) \/ \E r \in Replicas : Update(c, r, k)
  BY <1>5, ServedIsolated, Zenon
<1>6. CASE \E r \in 1 .. NumBackups : SaveLogRecord(c, r)
  <2>1. /\ UNCHANGED <<bucketVars, store, status, pc, itemVars, pend, resp, snap>>
        /\ \E r \in 1 .. NumBackups : r \in pendLog[c]
    BY <1>6, Zenon DEF SaveLogRecord
  <2>2. pc[c] = "log"
    BY <2>1, <1>t, Zenon DEF LockInv, PhaseInv, Phase
  <2>3. Validated(c)
    BY <2>2, Zenon DEF Validated
  <2>4. /\ rs'[c] = rs[c] /\ ws'[c] = ws[c] /\ execExists'[c] = execExists[c]
        /\ execWsLocked'[c] = execWsLocked[c] /\ obj'[c] = obj[c] /\ snap'[c] = snap[c]
        /\ pc'[c] = "log"
    BY <2>1, <2>2, Zenon DEF itemVars
  <2>5. QED BY <1>t, <2>3, <2>4, SettledStep, Zenon
<1>7. QED BY <1>1, <1>3, <1>4, <1>5, <1>6, Zenon DEF Server

\* Every step keeps every transaction isolated.
LEMMA NextSnapInv ==
  ASSUME SnapInv, LockInv', [Next]_vars
  PROVE  SnapInv'
<1>1. LockInv /\ LockInv' /\ TypeOK /\ TypeOK'
  BY Zenon DEF SnapInv, LockInv
<1>2. ASSUME NEW d \in Coros, Coordinator(d) \/ Server(d), NEW c \in Coros
      PROVE  Isolated(c)'
  <2>1. CASE c = d
    BY <1>1, <1>2, <2>1, OwnStepIsolated, Zenon DEF Types
  <2>2. CASE c # d
    <3>1. SameTx(c)
      BY <1>1, <1>2, <2>2, OthersSame, Zenon DEF Types
    <3>2. \A k \in Keys : Respects(c, k)
      BY <1>1, <1>2, <2>2, StepRespects, Zenon
    <3>3. Isolated(c)
      BY Zenon DEF SnapInv
    <3>4. QED BY <1>1, <3>1, <3>2, <3>3, IsolatedKept, Zenon DEF Types
  <2>3. QED BY <2>1, <2>2, Zenon
<1>3. ASSUME UNCHANGED vars, NEW c \in Coros PROVE Isolated(c)'
  <2>1. SameTx(c)
    BY <1>3, Zenon DEF vars, itemVars, SameTx, Same
  <2>2. \A k \in Keys : Respects(c, k)
    BY <1>1, <1>3, QuietRespects, Zenon DEF Types, vars
  <2>3. Isolated(c)
    BY Zenon DEF SnapInv
  <2>4. QED BY <1>1, <2>1, <2>2, <2>3, IsolatedKept, Zenon DEF Types
<1>4. \A c \in Coros : Isolated(c)'
  BY <1>2, <1>3, Zenon DEF Next
<1>5. QED BY <1>1, <1>4, Zenon DEF SnapInv

\* No transaction has begun.
LEMMA InitSnapInv == Init => SnapInv
<1> SUFFICES ASSUME Init, NEW c \in Coros PROVE Isolated(c)
  BY InitLockInv, Zenon DEF SnapInv
<1>1. /\ status[c] = "aborted" /\ pc[c] = "run" /\ execExists[c] = {}
      /\ obj[c] = [k \in Keys |-> Absent]
  BY Zenon DEF Init
<1>2. QED BY <1>1, Zenon DEF Isolated, Items, Executing, Validating, Snapped, Validated

-----------------------------------------------------------------------------
(* The history.                                                            *)

Maps == UNION {[S -> Vals] : S \in SUBSET Keys}
Entries == [c : Coros, txn : Nat, read : Maps, write : Maps]

\* The transaction of the entry e is in validate().
Open(e) == e.txn = txn[e.c] /\ pc[e.c] = "validate"

\* c has been let through and has still to write k at the primary.
Pending(c, k) == pc[c] \in {"log", "backup", "primary"} /\ k \in Held(c)

\* The transactions before position i leave the value x at k, and none of them
\* that may still be let through writes k.
Explained(i, k, x) ==
  /\ Leaves(i - 1, k, x)
  /\ \A j \in 1 .. i - 1 : Open(hist[j]) => k \notin DOMAIN hist[j].write

\* What a transaction that was let through has read is explained.  Of one that is in
\* validate(), what it had read and found in its snapshot is, and no later call of
\* commit() writes what it has locked.
Confirmed(i) ==
  LET e == hist[i]
      c == e.c
  IN
  /\ Passed(e) => \A k \in DOMAIN e.read : Explained(i, k, e.read[k])
  /\ Open(e) =>
       /\ \A k \in rs[c] \cup ws[c] : snap[c][k] = obj[c][k] => Explained(i, k, obj[c][k])
       /\ \A k \in ws[c] : \A j \in i + 1 .. Len(hist) : k \notin DOMAIN hist[j].write

\* Every transaction calls commit() at most once, and the history has the call of
\* one that is in validate().
Recorded(c) ==
  /\ \A i \in 1 .. Len(hist) : hist[i].c = c => hist[i].txn <= txn[c]
  /\ \A i, j \in 1 .. Len(hist) :
       hist[i].c = c /\ hist[j].c = c /\ hist[i].txn = hist[j].txn => i = j
  /\ Active(c) /\ pc[c] \in {"run", "read"} =>
       \A i \in 1 .. Len(hist) : hist[i].c = c => hist[i].txn # txn[c]
  /\ pc[c] = "validate" =>
       /\ <<c, txn[c]>> \notin passed
       /\ \E i \in 1 .. Len(hist) : hist[i] = Entry(c)

\* The replay of the whole history leaves at k what is about to be written there, or
\* what the primary has.
Current(k) ==
  /\ \A c \in Coros : Pending(c, k) => Leaves(Len(hist), k, NewVal(c, k))
  /\ (\A c \in Coros : ~Pending(c, k)) => Leaves(Len(hist), k, store[0][k])

\* Who was let through has called commit().
Called == \A p \in passed : \E i \in 1 .. Len(hist) : p = <<hist[i].c, hist[i].txn>>

HistInv ==
  /\ hist \in Seq(Entries)
  /\ \A i \in 1 .. Len(hist) : Confirmed(i)
  /\ \A c \in Coros : Recorded(c)
  /\ \A k \in Keys : Current(k)
  /\ Called

\* Two coordinators hold no key together.
LEMMA HeldByOne ==
  ASSUME LockInv, NEW c \in Coros, NEW d \in Coros, NEW k, k \in Held(c), k \in Held(d)
  PROVE  c = d
BY HoldersLock, Zenon

\* A transaction in validate(), or that is about to call commit(), holds what it is
\* going to write.
LEMMA WriteSetHeld ==
  ASSUME LockInv, NEW c \in Coros, status[c] = "in_progress", pc[c] \in {"run", "validate"}
  PROVE  Held(c) = ws[c]
<1>1. Phase(c) /\ Types
  BY Zenon DEF LockInv, PhaseInv, Types
<1>2. Held(c) = execWsLocked[c]
  BY <1>1, HeldAtRest, Zenon DEF Active
<1>3. QED BY <1>1, <1>2, Zenon DEF Phase

\* An entry of a transaction in validate() lists what its coordinator holds.
LEMMA OpenEntry ==
  ASSUME LockInv, HistInv, NEW i \in 1 .. Len(hist), Open(hist[i]), NEW c, c = hist[i].c
  PROVE  /\ c \in Coros /\ pc[c] = "validate" /\ hist[i] = Entry(c)
         /\ DOMAIN hist[i].write = ws[c] /\ Held(c) = ws[c]
<1>1. c \in Coros /\ pc[c] = "validate" /\ hist[i].txn = txn[c]
  <2>1. hist[i] \in Entries
    BY DEF HistInv
  <2>2. QED BY <2>1, Zenon DEF Entries, Open
<1>r. Recorded(c)
  BY <1>1, Zenon DEF HistInv
<1>2. PICK j \in 1 .. Len(hist) : hist[j] = Entry(c)
  BY <1>1, <1>r, Zenon DEF Recorded
<1>3. hist[j].c = c /\ hist[j].txn = txn[c] /\ DOMAIN hist[j].write = ws[c]
  BY <1>2 DEF Entry
<1>4. i = j
  BY <1>1, <1>3, <1>r, Zenon DEF Recorded
<1>5. status[c] = "in_progress"
  BY <1>1, Zenon DEF LockInv, PhaseInv, Phase
<1>6. QED BY <1>1, <1>2, <1>3, <1>4, <1>5, WriteSetHeld, Zenon

\* The history grows at its end, and the transaction at position p, if p is not 0, is
\* let through.
Grows(p) ==
  /\ Len(hist) \in Nat /\ Len(hist)' \in Nat /\ Len(hist) <= Len(hist)' /\ p \in Nat
  /\ \A i \in 1 .. Len(hist) : hist'[i] = hist[i]
  /\ \A i \in 1 .. Len(hist)' :
       Passed(hist[i])' <=> (i \in 1 .. Len(hist) /\ Passed(hist[i])) \/ i = p

\* Who writes k among the first n, if p is not a writer among them.
LEMMA WritersKept ==
  ASSUME NEW p, Grows(p), NEW n \in 0 .. Len(hist)', NEW m \in 0 .. Len(hist), m <= n,
         n # m => m = Len(hist), NEW k, p \in 1 .. n => k \notin DOMAIN hist'[p].write
  PROVE  Writers(n, k)' = Writers(m, k)
<1>1. ASSUME NEW i \in 1 .. n
      PROVE  i \in Writers(n, k)' <=> i \in Writers(m, k)
  <2>1. i \in Writers(n, k)' <=> Passed(hist[i])' /\ k \in DOMAIN hist'[i].write
    BY <1>1, Zenon DEF Writers
  <2>2. i \in 1 .. Len(hist)'
    BY DEF Grows
  <2>3. i \in Writers(m, k) <=> i \in 1 .. m /\ Passed(hist[i]) /\ k \in DOMAIN hist[i].write
    BY Zenon DEF Writers
  <2>4. CASE i = p
    <3>1. i \notin Writers(n, k)'
      BY <2>1, <2>4, Zenon
    <3>2. i \in 1 .. m => i \in 1 .. Len(hist)
      OBVIOUS
    <3>3. QED BY <2>3, <2>4, <3>1, <3>2, Zenon DEF Grows
  <2>5. CASE i # p
    <3>1. i \in 1 .. m <=> i \in 1 .. Len(hist) /\ i \in 1 .. n
      BY DEF Grows
    <3>2. QED BY <2>1, <2>2, <2>3, <2>5, <3>1, Zenon DEF Grows
  <2>6. QED BY <2>4, <2>5, Zenon
<1>2. Writers(n, k)' \subseteq 1 .. n /\ Writers(m, k) \subseteq 1 .. n
  BY DEF Writers, Grows
<1>3. QED BY <1>1, <1>2, Zenon

\* What the replay leaves at k stays, if p is not a writer of k.
LEMMA LeavesKept ==
  ASSUME NEW p, Grows(p), NEW n \in 0 .. Len(hist)', NEW m \in 0 .. Len(hist), m <= n,
         n # m => m = Len(hist), NEW k, p \in 1 .. n => k \notin DOMAIN hist'[p].write,
         NEW x, Leaves(m, k, x)
  PROVE  Leaves(n, k, x)'
<1>1. Writers(n, k)' = Writers(m, k)
  BY WritersKept, Zenon
<1>2. \A i \in Writers(m, k) : hist'[i] = hist[i]
  BY DEF Writers, Grows
<1>3. QED BY <1>1, <1>2, Zenon DEF Leaves

\* The last of the writers that are let through has the last word.
LEMMA LastLeaves ==
  ASSUME NEW p, Grows(p), p \in 1 .. Len(hist)', NEW k, k \in DOMAIN hist'[p].write,
         \A j \in Writers(Len(hist), k) : j <= p
  PROVE  Leaves(Len(hist), k, hist[p].write[k])'
<1>1. p \in Writers(Len(hist), k)'
  BY Zenon DEF Writers, Grows
<1>2. ASSUME NEW j \in Writers(Len(hist), k)' PROVE j <= p
  <2>1. j \in 1 .. Len(hist)' /\ Passed(hist[j])' /\ k \in DOMAIN hist'[j].write
    BY <1>2, Zenon DEF Writers
  <2>2. CASE j = p
    BY <2>1, <2>2
  <2>3. CASE j # p
    <3>1. j \in Writers(Len(hist), k)
      BY <2>1, <2>3, Zenon DEF Writers, Grows
    <3>2. QED BY <3>1, Zenon
  <2>4. QED BY <2>2, <2>3, Zenon
<1>3. QED BY <1>1, <1>2, Zenon DEF Leaves

\* A step of c that calls no commit() and lets nothing through.
Calm(c) ==
  /\ txn[c] \in Nat /\ txn'[c] \in Nat /\ txn[c] <= txn'[c]
  /\ pc'[c] = "validate" =>
       /\ pc[c] = "validate" /\ txn'[c] = txn[c] /\ mode'[c] = mode[c]
       /\ rs'[c] = rs[c] /\ ws'[c] = ws[c] /\ obj'[c] = obj[c] /\ snap'[c] = snap[c]
  /\ (Active(c) /\ pc[c] \in {"run", "read"})' =>
       txn[c] < txn'[c] \/ (txn'[c] = txn[c] /\ Active(c) /\ pc[c] \in {"run", "read"})
  /\ \A k \in Keys : Pending(c, k)' => Pending(c, k) /\ NewVal(c, k)' = NewVal(c, k)

\* A step that leaves the primary's value of k and who is to change it alone, or that
\* writes what was to be written.
Settles(k) ==
  \/ store'[0][k] = store[0][k] /\ \A c \in Coros : Pending(c, k) => Pending(c, k)'
  \/ \E c \in Coros : Pending(c, k) /\ store'[0][k] = NewVal(c, k)

\* A step in which the history stays and that is calm for every coordinator.
LEMMA QuietHist ==
  ASSUME HistInv, UNCHANGED <<hist, passed>>,
         \A c \in Coros : Calm(c), \A k \in Keys : Settles(k)
  PROVE  HistInv'
<1>0. /\ hist \in Seq(Entries) /\ Called
      /\ \A i \in 1 .. Len(hist) : Confirmed(i)
      /\ \A c \in Coros : Recorded(c)
      /\ \A k \in Keys : Current(k)
  BY Zenon DEF HistInv
<1>1. /\ \A e : Passed(e)' <=> Passed(e)
      /\ \A n, k, x : Leaves(n, k, x) => Leaves(n, k, x)'
  BY DEF Passed, Leaves, Writers
<1>2. ASSUME NEW i \in 1 .. Len(hist), Open(hist[i])'
      PROVE  Open(hist[i]) /\ hist[i].c \in Coros /\ pc'[hist[i].c] = "validate"
  <2>1. hist[i] \in Entries
    BY <1>0
  <2>2. hist[i].c \in Coros
    BY <2>1, Zenon DEF Entries
  <2>3. QED BY <1>2, <2>2, Zenon DEF Open, Calm
<1>3. ASSUME NEW i \in 1 .. Len(hist), NEW k, NEW x, Explained(i, k, x)
      PROVE  Explained(i, k, x)'
  <2>1. \A j \in 1 .. i - 1 : j \in 1 .. Len(hist)
    BY <1>0
  <2>2. QED BY <1>1, <1>2, <1>3, <2>1, Zenon DEF Explained
<1>4. ASSUME NEW i \in 1 .. Len(hist) PROVE Confirmed(i)'
  <2>1. Confirmed(i)
    BY <1>0, Zenon
  <2>2. Passed(hist[i])' => \A k \in DOMAIN hist[i].read : Explained(i, k, hist[i].read[k])'
    BY <1>1, <1>3, <2>1, Zenon DEF Confirmed
  <2>3. ASSUME Open(hist[i])', NEW c, c = hist[i].c
        PROVE  /\ \A k \in rs'[c] \cup ws'[c] : snap'[c][k] = obj'[c][k] => Explained(i, k, obj[c][k])'
               /\ \A k \in ws'[c] : \A j \in i + 1 .. Len(hist) : k \notin DOMAIN hist[j].write
    <3>1. Open(hist[i]) /\ c \in Coros /\ pc'[c] = "validate"
      BY <1>2, <2>3, Zenon
    <3>2. rs'[c] = rs[c] /\ ws'[c] = ws[c] /\ obj'[c] = obj[c] /\ snap'[c] = snap[c]
      BY <3>1, Zenon DEF Calm
    <3>3. \A k : Explained(i, k, obj[c][k]) => Explained(i, k, obj[c][k])'
      BY <1>3, <3>2, Zenon DEF Explained
    <3>4. QED BY <2>1, <2>3, <3>1, <3>2, <3>3, Zenon DEF Confirmed
  <2>4. QED BY <2>2, <2>3, Zenon DEF Confirmed
<1>5. ASSUME NEW c \in Coros PROVE Recorded(c)'
  <2>1. Recorded(c) /\ Calm(c)
    BY <1>0, Zenon
  <2>2. \A i \in 1 .. Len(hist) : hist[i].txn \in Nat
    <3>1. \A i \in 1 .. Len(hist) : hist[i] \in Entries
      BY <1>0
    <3>2. QED BY <3>1, Zenon DEF Entries
  <2>3. \A i \in 1 .. Len(hist) : hist[i].c = c => hist[i].txn <= txn'[c]
    BY <2>1, <2>2 DEF Recorded, Calm
  <2>4. (Active(c) /\ pc[c] \in {"run", "read"})' =>
          \A i \in 1 .. Len(hist) : hist[i].c = c => hist[i].txn # txn'[c]
    BY <2>1, <2>2 DEF Recorded, Calm
  <2>5. pc'[c] = "validate" => /\ <<c, txn'[c]>> \notin passed
                               /\ \E i \in 1 .. Len(hist) : hist[i] = Entry(c)'
    <3>1. pc'[c] = "validate" => Entry(c)' = Entry(c)
      BY <2>1, Zenon DEF Calm, Entry, NewVal
    <3>2. QED BY <2>1, <3>1, Zenon DEF Recorded, Calm
  <2>6. QED BY <2>1, <2>3, <2>4, <2>5, Zenon DEF Recorded
<1>6. ASSUME NEW k \in Keys PROVE Current(k)'
  <2>1. Current(k) /\ Settles(k)
    BY <1>0, Zenon
  <2>2. \A c \in Coros : Pending(c, k)' => Leaves(Len(hist), k, NewVal(c, k))'
    <3> SUFFICES ASSUME NEW c \in Coros, Pending(c, k)' PROVE Leaves(Len(hist), k, NewVal(c, k))'
      OBVIOUS
    <3>1. PICK x : x = NewVal(c, k)
      OBVIOUS
    <3>2. NewVal(c, k)' = x /\ Leaves(Len(hist), k, x)
      BY <2>1, <3>1, Zenon DEF Calm, Current
    <3>3. QED BY <1>1, <3>2, Zenon
  <2>3. ASSUME \A c \in Coros : ~Pending(c, k)' PROVE Leaves(Len(hist), k, store[0][k])'
    <3>1. Leaves(Len(hist), k, store'[0][k])
      BY <2>1, <2>3, Zenon DEF Settles, Current
    <3>2. QED BY <1>1, <3>1, Zenon
  <2>4. QED BY <2>2, <2>3, Zenon DEF Current
<1>7. Called'
  BY <1>0, Zenon DEF Called
<1>8. QED BY <1>0, <1>4, <1>5, <1>6, <1>7, Zenon DEF HistInv

-----------------------------------------------------------------------------
(* The steps that do not touch the history.                                *)

\* A transaction that a step leaves alone.
LEMMA SameCalm ==
  ASSUME Types, NEW c \in Coros, SameTx(c)
  PROVE  /\ Calm(c)
         /\ \A k \in Keys : (Pending(c, k)' <=> Pending(c, k)) /\ NewVal(c, k)' = NewVal(c, k)
<1>1. \A k \in Keys : (Pending(c, k)' <=> Pending(c, k)) /\ NewVal(c, k)' = NewVal(c, k)
  BY Zenon DEF SameTx, Same, Pending, Held, Active, NewVal
<1>2. txn[c] \in Nat
  BY Stored, Zenon
<1>3. QED BY <1>1, <1>2 DEF Calm, SameTx, Same, Active

\* A transaction that is neither in validate() nor past it, before and after the step.
LEMMA EarlyCalm ==
  ASSUME NEW c \in Coros, pc[c] \in {"run", "read", "abort"}, pc'[c] \in {"run", "read", "abort"},
         txn[c] \in Nat, \/ txn'[c] = txn[c] + 1
                         \/ txn'[c] = txn[c] /\ (Active(c)' => Active(c)) /\ pc[c] # "abort"
                         \/ txn'[c] = txn[c] /\ ~Active(c)'
  PROVE  Calm(c) /\ \A k \in Keys : ~Pending(c, k)
BY DEF Calm, Pending

\* start(), do_read(), commit_single_read() and abort().
LEMMA EarlyStepCalm ==
  ASSUME LockInv, NEW c \in Coros,
         \/ Start(c) \/ ReadMore(c) \/ ReadDone(c) \/ CommitSingleRead(c) \/ AbortRdonly(c)
         \/ Abort(c) \/ AbortDone(c)
  PROVE  Calm(c) /\ \A k \in Keys : ~Pending(c, k)
<1>1. /\ DOMAIN pc = Coros /\ DOMAIN txn = Coros /\ DOMAIN status = Coros /\ txn[c] \in Nat
      /\ Phase(c)
  BY Domains, Stored, Zenon DEF Types, LockInv, PhaseInv
<1>2. CASE Start(c)
  <2>1. PICK p : SendRead(c, {}, {}, p)
    BY <1>2, Zenon DEF Start
  <2>2. pc[c] = "run" /\ pc'[c] = "read" /\ txn'[c] = txn[c] + 1
    BY <1>1, <1>2, <2>1, Zenon DEF Start, SendRead, Running
  <2>3. QED BY <1>1, <2>2, EarlyCalm, Zenon
<1>3. CASE ReadMore(c)
  <2>1. PICK p : SendRead(c, rs[c], ws[c], p)
    BY <1>3, Zenon DEF ReadMore
  <2>2. pc[c] = "run" /\ pc'[c] = "read" /\ txn'[c] = txn[c] /\ status' = status
    BY <1>1, <1>3, <2>1, Zenon DEF ReadMore, SendRead, Running
  <2>3. QED BY <1>1, <2>2, EarlyCalm, Zenon DEF Active
<1>4. CASE ReadDone(c)
  <2>1. pc[c] = "read" /\ pc'[c] = "run" /\ txn'[c] = txn[c] /\ status[c] = "in_progress"
    BY <1>1, <1>4, Zenon DEF ReadDone, BatchDone, Phase
  <2>2. QED BY <1>1, <2>1, EarlyCalm, Zenon DEF Active
<1>5. CASE CommitSingleRead(c) \/ AbortRdonly(c)
  <2>1. /\ pc[c] = "run" /\ pc' = pc /\ txn' = txn
        /\ status'[c] \in {"committed", "aborted"}
    BY <1>1, <1>5, Zenon DEF CommitSingleRead, AbortRdonly, Running, itemVars
  <2>2. QED BY <1>1, <2>1, EarlyCalm, Zenon DEF Active
<1>6. CASE Abort(c)
  <2>1. /\ pc[c] = "run" /\ txn' = txn
        /\ status'[c] = "aborted" /\ pc'[c] \in {"run", "abort"}
    BY <1>1, <1>6, Zenon DEF Abort, SendAbort, Finish, Running, itemVars
  <2>2. QED BY <1>1, <2>1, EarlyCalm, Zenon DEF Active
<1>7. CASE AbortDone(c)
  <2>1. pc[c] = "abort" /\ pc'[c] = "run" /\ txn' = txn /\ status' = status /\ status[c] = "aborted"
    BY <1>1, <1>7, Zenon DEF AbortDone, BatchDone, itemVars, Phase
  <2>2. QED BY <1>1, <2>1, EarlyCalm, Zenon DEF Active
<1>8. QED BY <1>2, <1>3, <1>4, <1>5, <1>6, <1>7, Zenon

\* What a coordinator is to write at the primary is the same from Tx::log() to the
\* batch of the primary.
LEMMA UpdatesCalm ==
  ASSUME LockInv, LockInv', NEW c \in Coros, LogDone(c) \/ BackupDone(c) \/ PrimaryDone(c)
  PROVE  Calm(c) /\ \A k \in Keys : Pending(c, k) => Pending(c, k)'
<1>1. /\ DOMAIN pc = Coros /\ DOMAIN pend = Coros /\ DOMAIN status = Coros /\ txn[c] \in Nat
      /\ Phase(c) /\ Phase(c)' /\ Types /\ Types'
  BY Domains, Stored, Zenon DEF Types, LockInv, PhaseInv
<1>2. UNCHANGED <<ws, mode, txn, execWsLocked>> /\ pc[c] \in {"log", "backup", "primary"} /\ pend[c] = {}
  BY Zenon DEF LogDone, BackupDone, PrimaryDone, BatchDone, itemVars
<1>3. \A k : NewVal(c, k)' = NewVal(c, k)
  BY <1>2, Zenon DEF NewVal
<1>4. CASE LogDone(c) \/ BackupDone(c)
  <2>1. /\ pc[c] \in {"log", "backup"} /\ status' = status
        /\ pc'[c] = "backup" \/ (pc'[c] = "primary" /\ pend'[c] = {0} \X ws[c])
    BY <1>1, <1>4, Zenon DEF LogDone, BackupDone, BatchDone, SendBackups, SendPrimary, Send
  <2>2. Held(c) = ws[c]
    BY <1>1, <2>1, Zenon DEF Held, Active, Phase
  <2>3. Held(c)' = ws[c]
    <3>1. CASE pc'[c] = "backup"
      BY <1>1, <1>2, <3>1, Zenon DEF Held, Active, Phase
    <3>2. CASE pc'[c] = "primary" /\ pend'[c] = {0} \X ws[c]
      BY <1>2, <3>2, Zenon DEF Held
    <3>3. QED BY <2>1, <3>1, <3>2, Zenon
  <2>4. QED BY <1>1, <1>2, <1>3, <2>1, <2>2, <2>3 DEF Calm, Pending
<1>5. CASE PrimaryDone(c)
  <2>1. pc[c] = "primary" /\ pc'[c] = "run" /\ status'[c] = "committed"
    BY <1>1, <1>5, Zenon DEF PrimaryDone, BatchDone, Finish
  <2>2. \A k : k \notin Held(c)
    BY <1>2, <2>1, Zenon DEF Held
  <2>3. QED BY <1>1, <1>2, <2>1, <2>2 DEF Calm, Pending, Active
<1>6. QED BY <1>4, <1>5, Zenon

\* The handlers, but for those of put and del.
LEMMA ServedCalm ==
  ASSUME LockInv, NEW c \in Coros, Server(c),
         ~ \E r \in Replicas, k \in Keys : Update(c, r, k)
  PROVE  store' = store /\ Calm(c) /\ \A k \in Keys : Pending(c, k) => Pending(c, k)'
<1>1. txn[c] \in Nat
  BY Stored, Zenon DEF Types, LockInv
<1>2. ASSUME NEW k \in Keys, NEW ty, NEW v, NEW x, Respond(c, k, ty, v, x),
             pc[c] \in {"read", "validate"}
      PROVE  store' = store /\ Calm(c) /\ \A j \in Keys : ~Pending(c, j)
  BY <1>1, <1>2 DEF Respond, Calm, Pending, itemVars, Active
<1>3. ASSUME NEW k \in Keys,
             GetRdonly(c, k) \/ GetForUpd(c, k) \/ LockForIns(c, k) \/ LockRefused(c, k)
      PROVE  store' = store /\ Calm(c) /\ \A j \in Keys : ~Pending(c, j)
  <2>1. pc[c] \in {"read", "validate"}
    BY <1>3, Zenon DEF GetRdonly, GetForUpd, LockForIns, LockRefused, LockRequested
  <2>2. \E ty, v, x : Respond(c, k, ty, v, x)
    BY <1>3, Zenon DEF GetRdonly, GetForUpd, LockForIns, LockRefused, GetAnswer, GetLocked
  <2>3. QED BY <1>2, <2>1, <2>2, Zenon
<1>4. ASSUME NEW k \in Keys, Unlock(c, k)
      PROVE  store' = store /\ Calm(c) /\ \A j \in Keys : ~Pending(c, j)
  BY <1>1, <1>4 DEF Unlock, Calm, Pending, itemVars, Active
<1>5. ASSUME NEW r \in 1 .. NumBackups, SaveLogRecord(c, r)
      PROVE  store' = store /\ Calm(c) /\ \A k \in Keys : Pending(c, k) => Pending(c, k)'
  <2>1. UNCHANGED <<store, status, pc, rs, ws, mode, execWsLocked, obj, txn, pend, resp, snap>>
    BY <1>5, Zenon DEF SaveLogRecord, itemVars
  <2>2. \A k : (Pending(c, k)' <=> Pending(c, k)) /\ NewVal(c, k)' = NewVal(c, k)
    BY <2>1, Zenon DEF Pending, Held, Active, NewVal
  <2>3. QED BY <1>1, <2>1, <2>2 DEF Calm, Active
<1>6. QED BY <1>3, <1>4, <1>5, Zenon DEF Server

\* A put or del at the primary writes what was to be written there.
LEMMA UpdateCalm ==
  ASSUME LockInv, NEW c \in Coros, NEW r \in Replicas, NEW k \in Keys, Update(c, r, k)
  PROVE  /\ Calm(c)
         /\ \A j \in Keys : \/ store'[0][j] = store[0][j] /\ (Pending(c, j) => Pending(c, j)')
                            \/ Pending(c, j) /\ store'[0][j] = NewVal(c, j)
<1>1. /\ DOMAIN pend = Coros /\ txn[c] \in Nat /\ DOMAIN store = Replicas
      /\ 0 \in Replicas /\ \A s \in Replicas : DOMAIN store[s] = Keys
  BY Domains, Stored, ReplicasType, Zenon DEF Types, LockInv
<1>2. /\ UNCHANGED <<status, pc, rs, ws, mode, execWsLocked, obj, txn, resp, snap>>
      /\ pc[c] \in {"backup", "primary"}
      /\ pend'[c] = pend[c] \ {<<r, k>>} /\ store' = [store EXCEPT ![r][k] = NewVal(c, k)]
  BY <1>1, Zenon DEF Update, itemVars
<1>3. \A j : NewVal(c, j)' = NewVal(c, j)
  BY <1>2, Zenon DEF NewVal
<1>4. \A j : j \in Held(c)' => j \in Held(c)
  BY <1>2, Zenon DEF Held, Active
<1>5. Calm(c)
  BY <1>1, <1>2, <1>3, <1>4 DEF Calm, Pending
<1>6. /\ k \in Held(c)
      /\ r = 0 => pc[c] = "primary"
      /\ r # 0 => pc[c] = "backup"
  BY UpdaterHolds, Zenon
<1>7. ASSUME NEW j \in Keys, r # 0 \/ j # k
      PROVE  store'[0][j] = store[0][j] /\ (Pending(c, j) => Pending(c, j)')
  <2>1. store'[0][j] = store[0][j]
    BY <1>1, <1>2, <1>7, Zenon
  <2>2. <<0, j>> \in pend[c] => <<0, j>> \in pend'[c]
    BY <1>2, <1>7, Zenon
  <2>3. j \in Held(c) => j \in Held(c)'
    BY <1>2, <2>2, Zenon DEF Held, Active
  <2>4. QED BY <1>2, <2>1, <2>3, Zenon DEF Pending
<1>8. r = 0 => Pending(c, k) /\ store'[0][k] = NewVal(c, k)
  BY <1>1, <1>2, <1>6, Zenon DEF Pending
<1>9. QED BY <1>5, <1>7, <1>8, Zenon

\* Every step that does not touch the history keeps the invariant.
LEMMA OtherHist ==
  ASSUME LockInv, LockInv', HistInv, NEW c \in Coros, HOther(c)
  PROVE  HistInv'
<1>1. UNCHANGED <<hist, passed>> /\ (Coordinator(c) \/ Server(c)) /\ Types
  BY Zenon DEF HOther, Coordinator, LockInv, Types
<1>2. \A d \in Coros : d # c =>
        Calm(d) /\ \A k \in Keys : Pending(d, k) => Pending(d, k)'
  BY <1>1, OthersSame, SameCalm, Zenon
<1>3. /\ Calm(c)
      /\ \A k \in Keys : \/ store'[0][k] = store[0][k] /\ (Pending(c, k) => Pending(c, k)')
                         \/ Pending(c, k) /\ store'[0][k] = NewVal(c, k)
  <2>1. CASE \/ Start(c) \/ ReadMore(c) \/ ReadDone(c) \/ CommitSingleRead(c) \/ AbortRdonly(c)
             \/ Abort(c) \/ AbortDone(c)
    <3>1. store' = store
      BY <2>1, CoordinatorLeaves, Zenon DEF Coordinator
    <3>2. QED BY <2>1, <3>1, EarlyStepCalm, Zenon
  <2>2. CASE LogDone(c) \/ BackupDone(c) \/ PrimaryDone(c)
    <3>1. store' = store
      BY <2>2, CoordinatorLeaves, Zenon DEF Coordinator
    <3>2. QED BY <2>2, <3>1, UpdatesCalm, Zenon
  <2>3. CASE \E r \in Replicas, k \in Keys : Update(c, r, k)
    BY <2>3, UpdateCalm, Zenon
  <2>4. CASE Server(c) /\ ~ \E r \in Replicas, k \in Keys : Update(c, r, k)
    BY <2>4, ServedCalm, Zenon
  <2>5. QED BY <2>1, <2>2, <2>3, <2>4, Zenon DEF HOther
<1>4. \A d \in Coros : Calm(d)
  BY <1>2, <1>3, Zenon
<1>5. \A k \in Keys : Settles(k)
  BY <1>2, <1>3, Zenon DEF Settles
<1>6. QED BY <1>1, <1>4, <1>5, QuietHist, Zenon

-----------------------------------------------------------------------------
(* commit() lets a transaction through after its validation.               *)

\* What the history explains of k stays explained when p is let through: p, whose
\* validation was under way, does not write k before it is explained.
LEMMA ExplainedKept ==
  ASSUME HistInv, NEW p, Grows(p), p \in 1 .. Len(hist) => Open(hist[p]),
         \A j \in 1 .. Len(hist) : Open(hist[j])' => Open(hist[j]),
         NEW i \in 1 .. Len(hist) + 1, NEW k, NEW x, Explained(i, k, x)
  PROVE  Explained(i, k, x)'
<1>1. i - 1 \in 0 .. Len(hist) /\ i - 1 \in 0 .. Len(hist)'
  BY DEF Grows
<1>2. \A j \in 1 .. i - 1 : j \in 1 .. Len(hist) /\ hist'[j] = hist[j]
  BY <1>1 DEF Grows
<1>3. ASSUME p \in 1 .. i - 1 PROVE k \notin DOMAIN hist'[p].write
  <2>1. p \in 1 .. Len(hist) /\ hist'[p] = hist[p]
    BY <1>2, <1>3, Zenon
  <2>2. Open(hist[p])
    BY <2>1, Zenon
  <2>3. QED BY <1>3, <2>1, <2>2, Zenon DEF Explained
<1>4. Leaves(i - 1, k, x)'
  <2>1. PICK n : n = i - 1
    OBVIOUS
  <2>2. Leaves(n, k, x) /\ n \in 0 .. Len(hist) /\ n \in 0 .. Len(hist)' /\ n <= n
    BY <1>1, <2>1 DEF Explained
  <2>3. Leaves(n, k, x)'
    BY <1>3, <2>1, <2>2, LeavesKept, Zenon
  <2>4. QED BY <2>1, <2>3, Zenon
<1>5. \A j \in 1 .. i - 1 : Open(hist[j])' => k \notin DOMAIN hist'[j].write
  BY <1>2, Zenon DEF Explained
<1>6. QED BY <1>4, <1>5, Zenon DEF Explained

\* After a successful validation everything that was read is in the snapshot.
LEMMA ValidSnapshot ==
  ASSUME NEW c \in Coros, Validating(c), BatchDone(c, "validate"), Valid(c)
  PROVE  \A k \in rs[c] \cup ws[c] : snap[c][k] = obj[c][k]
BY Zenon DEF Validating, BatchDone, Valid

\* Where the coordinator of a valid transaction goes.
LEMMA PassedControl ==
  ASSUME LockInv, LockInv', NEW c \in Coros, ValidateDone(c), Valid(c)
  PROVE  /\ status[c] = "in_progress" /\ pc[c] = "validate" /\ UNCHANGED <<store, itemVars, snap>>
         /\ pc'[c] \in {"run", "log", "primary"}
         /\ pc'[c] = "run" => ws[c] = {} /\ status'[c] = "committed"
         /\ pc'[c] # "run" => Held(c)' = ws[c]
<1>1. /\ DOMAIN pc = Coros /\ DOMAIN status = Coros /\ DOMAIN pend = Coros
      /\ Phase(c) /\ Phase(c)'
  BY Domains, Zenon DEF Types, LockInv, PhaseInv
<1>2. status[c] = "in_progress" /\ pc[c] = "validate" /\ UNCHANGED <<store, itemVars, snap>>
  BY <1>1, Zenon DEF ValidateDone, BatchDone, Phase
<1>3. \/ ws[c] = {} /\ pc'[c] = "run" /\ status'[c] = "committed"
      \/ pc'[c] = "log" /\ status'[c] = status[c]
      \/ pc'[c] = "primary" /\ pend'[c] = {0} \X ws[c]
  BY <1>1, Zenon DEF ValidateDone, Finish, SendLog, SendPrimary, Send
<1>4. ws' = ws /\ execWsLocked' = execWsLocked
  BY <1>2, Zenon DEF itemVars
<1>5. pc'[c] = "log" => Held(c)' = ws[c]
  BY <1>1, <1>4, Zenon DEF Held, Active, Phase
<1>6. pc'[c] = "primary" /\ pend'[c] = {0} \X ws[c] => Held(c)' = ws[c]
  BY <1>4, Zenon DEF Held
<1>7. QED BY <1>2, <1>3, <1>5, <1>6, Zenon

\* A validation that succeeds keeps the invariant.
LEMMA PassHist ==
  ASSUME SnapInv, LockInv', HistInv, NEW c \in Coros, HValidateDone(c), Valid(c)
  PROVE  HistInv'
<1>0. /\ hist \in Seq(Entries) /\ Called /\ LockInv /\ Types /\ Validating(c)
      /\ \A i \in 1 .. Len(hist) : Confirmed(i)
      /\ \A d \in Coros : Recorded(d)
      /\ \A k \in Keys : Current(k)
  BY Zenon DEF HistInv, SnapInv, Isolated, LockInv, Types
<1>1. /\ ValidateDone(c) /\ hist' = hist /\ passed' = passed \cup {<<c, txn[c]>>}
      /\ BatchDone(c, "validate")
  BY Zenon DEF HValidateDone, Pass, ValidateDone
<1>2. /\ status[c] = "in_progress" /\ pc[c] = "validate" /\ UNCHANGED <<store, itemVars, snap>>
      /\ pc'[c] \in {"run", "log", "primary"}
      /\ pc'[c] = "run" => ws[c] = {} /\ status'[c] = "committed"
      /\ pc'[c] # "run" => Held(c)' = ws[c]
  BY <1>0, <1>1, PassedControl, Zenon
<1>s. \A d \in Coros : d # c => SameTx(d)
  BY <1>0, <1>1, OthersSame, Zenon DEF Coordinator
<1>3. PICK p \in 1 .. Len(hist) : hist[p] = Entry(c)
  BY <1>0, <1>2, Zenon DEF Recorded
<1>4. hist[p].c = c /\ hist[p].txn = txn[c] /\ Open(hist[p])
  BY <1>2, <1>3 DEF Entry, Open
<1>5. /\ DOMAIN hist[p].write = ws[c] /\ DOMAIN hist[p].read = rs[c] \cup ws[c]
      /\ \A k \in ws[c] : hist[p].write[k] = NewVal(c, k)
      /\ \A k \in rs[c] \cup ws[c] : hist[p].read[k] = obj[c][k]
  BY <1>3 DEF Entry
<1>6. \A i \in 1 .. Len(hist) : Passed(hist[i])' <=> Passed(hist[i]) \/ i = p
  <2>1. \A i \in 1 .. Len(hist) : hist[i].c = c /\ hist[i].txn = txn[c] <=> i = p
    <3>1. Recorded(c)
      BY <1>0, Zenon
    <3>2. QED BY <1>4, <3>1, Zenon DEF Recorded
  <2>2. QED BY <1>1, <2>1, Zenon DEF Passed
<1>7. Grows(p)
  BY <1>0, <1>1, <1>6 DEF Grows
<1>8. ASSUME NEW i \in 1 .. Len(hist), Open(hist[i])'
      PROVE  /\ hist[i].c \in Coros /\ hist[i].c # c /\ Open(hist[i]) /\ i # p
  <2>1. hist[i] \in Entries
    BY <1>0
  <2>2. hist[i].c \in Coros
    BY <2>1, Zenon DEF Entries
  <2>3. hist[i].c # c
    BY <1>1, <1>2, <1>8, Zenon DEF Open
  <2>4. QED BY <1>1, <1>4, <1>8, <1>s, <2>2, <2>3, Zenon DEF Open, SameTx, Same
<1>9. ASSUME NEW i \in 1 .. Len(hist), NEW k, NEW x, Explained(i, k, x)
      PROVE  Explained(i, k, x)'
  BY <1>4, <1>7, <1>8, <1>9, ExplainedKept
<1>10. ASSUME NEW i \in 1 .. Len(hist) PROVE Confirmed(i)'
  <2>1. Confirmed(i)
    BY <1>0, Zenon
  <2>2. ASSUME Passed(hist[i])', NEW k \in DOMAIN hist[i].read
        PROVE  Explained(i, k, hist[i].read[k])'
    <3>1. Explained(i, k, hist[i].read[k])
      <4>1. CASE i # p
        BY <1>6, <2>1, <2>2, <4>1, Zenon DEF Confirmed
      <4>2. CASE i = p
        <5>1. k \in rs[c] \cup ws[c] /\ hist[i].read[k] = obj[c][k]
          BY <1>5, <2>2, <4>2, Zenon
        <5>2. snap[c][k] = obj[c][k]
          BY <1>0, <1>1, <5>1, ValidSnapshot, Zenon
        <5>3. Explained(i, k, obj[c][k])
          BY <1>4, <2>1, <4>2, <5>1, <5>2, Zenon DEF Confirmed
        <5>4. QED BY <5>1, <5>3, Zenon
      <4>3. QED BY <4>1, <4>2, Zenon
    <3>2. PICK x : x = hist[i].read[k] /\ x = hist'[i].read[k]
      BY <1>1, Zenon
    <3>3. Explained(i, k, x)'
      BY <1>9, <3>1, <3>2, Zenon
    <3>4. QED BY <3>2, <3>3, Zenon DEF Explained
  <2>3. ASSUME Open(hist[i])', NEW d, d = hist[i].c
        PROVE  /\ \A k \in rs'[d] \cup ws'[d] : snap'[d][k] = obj'[d][k] => Explained(i, k, obj[d][k])'
               /\ \A k \in ws'[d] : \A j \in i + 1 .. Len(hist)' : k \notin DOMAIN hist'[j].write
    <3>1. d \in Coros /\ d # c /\ Open(hist[i])
      BY <1>8, <2>3, Zenon
    <3>2. rs'[d] = rs[d] /\ ws'[d] = ws[d] /\ obj'[d] = obj[d] /\ snap'[d] = snap[d]
      BY <1>s, <3>1, Zenon DEF SameTx, Same
    <3>3. ASSUME NEW k, Explained(i, k, obj[d][k]) PROVE Explained(i, k, obj[d][k])'
      <4>1. PICK x : x = obj[d][k] /\ x = obj'[d][k]
        BY <3>2, Zenon
      <4>2. Explained(i, k, x)'
        BY <1>9, <3>3, <4>1, Zenon
      <4>3. QED BY <4>1, <4>2, Zenon DEF Explained
    <3>4. QED BY <1>1, <2>1, <2>3, <3>1, <3>2, <3>3, Zenon DEF Confirmed
  <2>4. QED BY <1>1, <2>2, <2>3, Zenon DEF Confirmed
<1>11. ASSUME NEW d \in Coros PROVE Recorded(d)'
  <2>1. Recorded(d)
    BY <1>0, Zenon
  <2>2. CASE d = c
    <3>1. txn'[c] = txn[c] /\ pc'[c] # "validate" /\ ~ (Active(c) /\ pc[c] \in {"run", "read"})'
      BY <1>2, Zenon DEF itemVars, Active
    <3>2. QED BY <1>1, <2>1, <2>2, <3>1, Zenon DEF Recorded
  <2>3. CASE d # c
    <3>1. SameTx(d)
      BY <1>s, <2>3, Zenon
    <3>2. Entry(d)' = Entry(d) /\ (Active(d)' <=> Active(d)) /\ txn'[d] = txn[d] /\ pc'[d] = pc[d]
      BY <3>1, Zenon DEF SameTx, Same, Entry, NewVal, Active
    <3>3. <<d, txn[d]>> \in passed' <=> <<d, txn[d]>> \in passed
      BY <1>1, <2>3, Zenon
    <3>4. QED BY <1>1, <2>1, <3>2, <3>3, Zenon DEF Recorded
  <2>4. QED BY <2>2, <2>3, Zenon
<1>12. ASSUME NEW k \in Keys PROVE Current(k)'
  <2>n. Len(hist) \in 0 .. Len(hist)' /\ Len(hist)' = Len(hist) /\ Len(hist) \in Nat
    BY <1>0, <1>1
  <2>1. \A d \in Coros : d # c => (Pending(d, k)' <=> Pending(d, k)) /\ NewVal(d, k)' = NewVal(d, k)
    BY <1>0, <1>s, SameCalm, Zenon
  <2>h. Held(c) = ws[c] /\ ~Pending(c, k)
    BY <1>0, <1>2, WriteSetHeld, Zenon DEF Pending
  <2>2. CASE k \in ws[c]
    <3>1. Pending(c, k)' /\ NewVal(c, k)' = NewVal(c, k)
      BY <1>2, <2>2, Zenon DEF Pending, NewVal, itemVars
    <3>2. \A d \in Coros : Pending(d, k)' => d = c
      BY <1>0, <2>1, <2>2, <2>h, HeldByOne, Zenon DEF Pending
    <3>3. ASSUME NEW j \in Writers(Len(hist), k) PROVE j <= p
      <4>1. j \in 1 .. Len(hist) /\ k \in DOMAIN hist[j].write
        BY <3>3, Zenon DEF Writers
      <4>2. j \notin p + 1 .. Len(hist)
        BY <1>0, <1>4, <2>2, <4>1, Zenon DEF Confirmed
      <4>3. QED BY <2>n, <4>1, <4>2
    <3>4. Leaves(Len(hist), k, hist[p].write[k])'
      BY <1>1, <1>5, <1>7, <2>2, <3>3, LastLeaves, Zenon
    <3>5. hist'[p].write[k] = NewVal(c, k)'
      BY <1>1, <1>5, <2>2, <3>1, Zenon
    <3>6. Leaves(Len(hist), k, NewVal(c, k))'
      BY <3>4, <3>5, Zenon DEF Leaves
    <3>7. QED BY <3>1, <3>2, <3>6, Zenon DEF Current
  <2>3. CASE k \notin ws[c]
    <3>1. ~Pending(c, k)'
      BY <1>2, <2>3, Zenon DEF Pending
    <3>2. ASSUME NEW x, Leaves(Len(hist), k, x) PROVE Leaves(Len(hist), k, x)'
      <4>1. p \in 1 .. Len(hist) => k \notin DOMAIN hist'[p].write
        BY <1>1, <1>5, <2>3, Zenon
      <4>2. PICK n : n = Len(hist) /\ n = Len(hist)'
        BY <2>n, Zenon
      <4>3. Leaves(n, k, x)'
        BY <1>7, <2>n, <3>2, <4>1, <4>2, LeavesKept
      <4>4. QED BY <4>2, <4>3, Zenon DEF Leaves, Writers
    <3>3. ASSUME NEW d \in Coros, Pending(d, k)' PROVE Leaves(Len(hist), k, NewVal(d, k))'
      <4>1. PICK x : x = NewVal(d, k) /\ x = NewVal(d, k)'
        BY <2>1, <3>1, <3>3, Zenon
      <4>2. Leaves(Len(hist), k, x)
        BY <1>0, <2>1, <3>1, <3>3, <4>1, Zenon DEF Current
      <4>3. Leaves(Len(hist), k, x)'
        BY <3>2, <4>2, Zenon
      <4>4. QED BY <4>1, <4>3, Zenon DEF Leaves
    <3>4. ASSUME \A d \in Coros : ~Pending(d, k)' PROVE Leaves(Len(hist), k, store[0][k])'
      <4>1. PICK x : x = store[0][k] /\ x = store'[0][k]
        BY <1>2, Zenon
      <4>2. Leaves(Len(hist), k, x)
        BY <1>0, <2>1, <2>h, <3>4, <4>1, Zenon DEF Current
      <4>3. Leaves(Len(hist), k, x)'
        BY <3>2, <4>2, Zenon
      <4>4. QED BY <4>1, <4>3, Zenon DEF Leaves
    <3>5. QED BY <3>3, <3>4, Zenon DEF Current
  <2>4. QED BY <2>2, <2>3, Zenon
<1>13. Called'
  BY <1>0, <1>1, <1>4, Zenon DEF Called
<1>14. QED BY <1>0, <1>1, <1>10, <1>11, <1>12, <1>13, Zenon DEF HistInv

-----------------------------------------------------------------------------
(* The call of commit().                                                   *)

\* What c finds at the primary of a key that nobody else has locked is what the
\* history leaves there.
LEMMA UnlockedExplained ==
  ASSUME LockInv, HistInv, NEW c \in Coros, pc[c] = "run",
         NEW k \in Keys, CanLock(c, BucketOf[k])
  PROVE  Explained(Len(hist) + 1, k, store[0][k])
<1>1. ASSUME NEW d \in Coros, k \in Held(d) PROVE pc[d] = "run"
  BY <1>1, HoldersLock, ConstTypes DEF CanLock
<1>2. \A d \in Coros : ~Pending(d, k)
  BY <1>1, Zenon DEF Pending
<1>3. Leaves(Len(hist), k, store[0][k]) /\ Len(hist) \in Nat
  BY <1>2 DEF HistInv, Current
<1>4. ASSUME NEW j \in 1 .. Len(hist), Open(hist[j]) PROVE k \notin DOMAIN hist[j].write
  <2>1. PICK d : d = hist[j].c
    OBVIOUS
  <2>2. d \in Coros /\ pc[d] = "validate" /\ DOMAIN hist[j].write = Held(d)
    BY <1>4, <2>1, OpenEntry
  <2>3. QED BY <1>1, <2>2, Zenon
<1>5. Len(hist) + 1 - 1 = Len(hist)
  BY <1>3
<1>6. QED BY <1>3, <1>4, <1>5 DEF Explained

\* Where the coordinator goes that calls commit().
LEMMA CommitControl ==
  ASSUME LockInv, LockInv', NEW c \in Coros, Commit(c)
  PROVE  /\ status[c] = "in_progress" /\ pc[c] = "run" /\ UNCHANGED <<store, itemVars>>
         /\ snap'[c] = Snapshot(c)
         /\ rs[c] # {} => pc'[c] = "validate"
         /\ rs[c] = {} => pc'[c] \in {"log", "primary"} /\ Held(c)' = ws[c]
<1>1. /\ DOMAIN pc = Coros /\ DOMAIN status = Coros /\ DOMAIN pend = Coros /\ DOMAIN snap = Coros
      /\ Phase(c) /\ Phase(c)'
  BY Domains, Zenon DEF Types, LockInv, PhaseInv
<1>2. /\ status[c] = "in_progress" /\ pc[c] = "run" /\ UNCHANGED <<store, itemVars>>
      /\ snap'[c] = Snapshot(c)
  BY <1>1, Zenon DEF Commit, Running
<1>3. rs[c] # {} => pc'[c] = "validate"
  BY <1>1, Zenon DEF Commit, SendValidate, Send
<1>4. rs[c] = {} => \/ pc'[c] = "log" /\ status'[c] = status[c]
                    \/ pc'[c] = "primary" /\ pend'[c] = {0} \X ws[c]
  BY <1>1, Zenon DEF Commit, SendLog, SendPrimary, Send
<1>5. ws' = ws /\ execWsLocked' = execWsLocked
  BY <1>2, Zenon DEF itemVars
<1>6. pc'[c] = "log" => Held(c)' = ws[c]
  BY <1>1, <1>5, Zenon DEF Held, Active, Phase
<1>7. pc'[c] = "primary" /\ pend'[c] = {0} \X ws[c] => Held(c)' = ws[c]
  BY <1>5, Zenon DEF Held
<1>8. QED BY <1>2, <1>3, <1>4, <1>6, <1>7, Zenon

\* The entry of a call of commit() has its type.
LEMMA EntryType ==
  ASSUME Types, NEW c \in Coros
  PROVE  Entry(c) \in Entries
<1>1. /\ txn[c] \in Nat /\ rs[c] \subseteq Keys /\ ws[c] \subseteq Keys
      /\ \A k \in Keys : obj[c][k] \in Vals
  BY Stored, Typed DEF Types, TypeOK, ItemTypes
<1>2. \A k \in Keys : NewVal(c, k) \in Vals
  BY <1>1, Zenon DEF NewVal, Vals, Written
<1>3. [k \in rs[c] \cup ws[c] |-> obj[c][k]] \in Maps
  <2>1. [k \in rs[c] \cup ws[c] |-> obj[c][k]] \in [rs[c] \cup ws[c] -> Vals]
    BY <1>1, Zenon
  <2>2. rs[c] \cup ws[c] \in SUBSET Keys
    BY <1>1, Zenon
  <2>3. QED BY <2>1, <2>2, Zenon DEF Maps
<1>4. [k \in ws[c] |-> NewVal(c, k)] \in Maps
  <2>1. [k \in ws[c] |-> NewVal(c, k)] \in [ws[c] -> Vals]
    BY <1>1, <1>2, Zenon
  <2>2. ws[c] \in SUBSET Keys
    BY <1>1, Zenon
  <2>3. QED BY <2>1, <2>2, Zenon DEF Maps
<1>5. QED BY <1>1, <1>3, <1>4, Zenon DEF Entry, Entries

\* A call of commit() keeps the invariant.
LEMMA CommitHist ==
  ASSUME SnapInv, LockInv', HistInv, NEW c \in Coros, HCommit(c)
  PROVE  HistInv'
<1>0. /\ hist \in Seq(Entries) /\ Called /\ LockInv /\ Types /\ Executing(c)
      /\ \A i \in 1 .. Len(hist) : Confirmed(i)
      /\ \A d \in Coros : Recorded(d)
      /\ \A k \in Keys : Current(k)
  BY Zenon DEF HistInv, SnapInv, Isolated, LockInv, Types
<1>1. /\ Commit(c) /\ hist' = Append(hist, Entry(c))
      /\ passed' = IF rs[c] = {} THEN passed \cup {<<c, txn[c]>>} ELSE passed
  BY Zenon DEF HCommit, Pass
<1>2. /\ status[c] = "in_progress" /\ pc[c] = "run" /\ UNCHANGED <<store, itemVars>>
      /\ snap'[c] = Snapshot(c)
      /\ rs[c] # {} => pc'[c] = "validate"
      /\ rs[c] = {} => pc'[c] \in {"log", "primary"} /\ Held(c)' = ws[c]
  BY <1>0, <1>1, CommitControl, Zenon
<1>h. Held(c) = ws[c] /\ ws[c] \subseteq Keys /\ rs[c] \subseteq Keys
  BY <1>0, <1>2, WriteSetHeld, Typed, Zenon
<1>u. UNCHANGED <<rs, ws, mode, obj, txn>> /\ Entry(c)' = Entry(c)
  BY <1>2, Zenon DEF itemVars, Entry, NewVal
<1>s. \A d \in Coros : d # c => SameTx(d)
  BY <1>0, <1>1, OthersSame, Zenon DEF Coordinator
<1>3. PICK n \in Nat : n = Len(hist)
  BY <1>0
<1>4. /\ Entry(c) \in Entries /\ hist' \in Seq(Entries) /\ Len(hist') = n + 1
      /\ \A i \in 1 .. n : hist'[i] = hist[i]
      /\ hist'[n + 1] = Entry(c)
  BY <1>0, <1>1, <1>3, EntryType
<1>5. /\ hist'[n + 1].c = c /\ hist'[n + 1].txn = txn[c]
      /\ DOMAIN hist'[n + 1].write = ws[c] /\ DOMAIN hist'[n + 1].read = rs[c] \cup ws[c]
      /\ \A k \in ws[c] : hist'[n + 1].write[k] = NewVal(c, k)
      /\ \A k \in rs[c] \cup ws[c] : hist'[n + 1].read[k] = obj[c][k]
  BY <1>4 DEF Entry
<1>6. /\ \A i \in 1 .. n : hist[i].c = c => hist[i].txn # txn[c]
      /\ <<c, txn[c]>> \notin passed
  <2>1. Recorded(c) /\ Active(c)
    BY <1>0, <1>2, Zenon DEF Active
  <2>2. \A i \in 1 .. n : hist[i].c = c => hist[i].txn # txn[c]
    BY <1>2, <1>3, <2>1, Zenon DEF Recorded
  <2>3. QED BY <1>0, <1>3, <2>2, Zenon DEF Called
<1>7. PICK p \in Nat : p = IF rs[c] = {} THEN n + 1 ELSE 0
  OBVIOUS
<1>8. \A i \in 1 .. n + 1 : Passed(hist[i])' <=> (i \in 1 .. n /\ Passed(hist[i])) \/ i = p
  <2>1. ASSUME NEW i \in 1 .. n PROVE Passed(hist[i])' <=> Passed(hist[i])
    BY <1>1, <1>4, <1>6, <2>1, Zenon DEF Passed
  <2>2. Passed(hist[n + 1])' <=> rs[c] = {}
    BY <1>1, <1>5, <1>6, Zenon DEF Passed
  <2>3. QED BY <1>7, <2>1, <2>2
<1>9. Grows(p)
  BY <1>3, <1>4, <1>7, <1>8 DEF Grows
<1>10. ASSUME NEW i \in 1 .. n, Open(hist[i])'
       PROVE  Open(hist[i]) /\ hist[i].c \in Coros /\ hist[i].c # c
  <2>1. hist[i] \in Entries
    BY <1>0, <1>3
  <2>2. hist[i].c \in Coros
    BY <2>1, Zenon DEF Entries
  <2>3. hist'[i] = hist[i]
    BY <1>4, Zenon
  <2>4. hist[i].c # c
    BY <1>6, <1>10, <1>u, <2>3, Zenon DEF Open
  <2>5. QED BY <1>10, <1>s, <2>2, <2>3, <2>4, Zenon DEF Open, SameTx, Same
<1>11. ASSUME NEW i \in 1 .. n + 1, NEW k, NEW x, Explained(i, k, x)
       PROVE  Explained(i, k, x)'
  <2>1. p \notin 1 .. n
    BY <1>7
  <2>2. QED BY <1>3, <1>9, <1>10, <1>11, <2>1, ExplainedKept, Zenon
<1>12. ASSUME NEW i \in 1 .. n PROVE Confirmed(i)'
  <2>1. Confirmed(i) /\ hist'[i] = hist[i] /\ i \in 1 .. n + 1 /\ p # i
    BY <1>0, <1>3, <1>4, <1>7
  <2>2. ASSUME Passed(hist[i])', NEW k \in DOMAIN hist[i].read
        PROVE  Explained(i, k, hist[i].read[k])'
    <3>1. Explained(i, k, hist[i].read[k])
      BY <1>8, <2>1, <2>2, Zenon DEF Confirmed
    <3>2. PICK x : x = hist[i].read[k] /\ x = hist'[i].read[k]
      BY <2>1, Zenon
    <3>3. Explained(i, k, x)'
      BY <1>11, <2>1, <3>1, <3>2, Zenon
    <3>4. QED BY <3>2, <3>3, Zenon DEF Explained
  <2>3. ASSUME Open(hist[i])', NEW d, d = hist[i].c
        PROVE  /\ \A k \in rs'[d] \cup ws'[d] : snap'[d][k] = obj'[d][k] => Explained(i, k, obj[d][k])'
               /\ \A k \in ws'[d] : \A j \in i + 1 .. Len(hist') : k \notin DOMAIN hist'[j].write
    <3>1. d \in Coros /\ d # c /\ Open(hist[i])
      BY <1>10, <2>3, Zenon
    <3>2. rs'[d] = rs[d] /\ ws'[d] = ws[d] /\ obj'[d] = obj[d] /\ snap'[d] = snap[d]
      BY <1>s, <3>1, Zenon DEF SameTx, Same
    <3>3. ASSUME NEW k, Explained(i, k, obj[d][k]) PROVE Explained(i, k, obj[d][k])'
      <4>1. PICK x : x = obj[d][k] /\ x = obj'[d][k]
        BY <3>2, Zenon
      <4>2. Explained(i, k, x)'
        BY <1>11, <2>1, <3>3, <4>1, Zenon
      <4>3. QED BY <4>1, <4>2, Zenon DEF Explained
    <3>4. ASSUME NEW k \in ws[d], NEW j \in i + 1 .. n + 1 PROVE k \notin DOMAIN hist'[j].write
      <4>1. CASE j \in i + 1 .. n
        <5>1. k \notin DOMAIN hist[j].write
          BY <1>3, <2>1, <2>3, <3>1, <4>1, Zenon DEF Confirmed
        <5>2. hist'[j] = hist[j]
          BY <1>4, <4>1
        <5>3. QED BY <5>1, <5>2, Zenon
      <4>2. CASE j = n + 1
        <5>1. Held(d) = ws[d]
          BY <1>0, <1>3, <2>3, <3>1, OpenEntry, Zenon
        <5>2. k \notin ws[c]
          BY <1>0, <1>h, <3>1, <5>1, HeldByOne
        <5>3. QED BY <1>5, <4>2, <5>2, Zenon
      <4>3. QED BY <4>1, <4>2
    <3>5. \A k \in rs'[d] \cup ws'[d] : snap'[d][k] = obj'[d][k] => Explained(i, k, obj[d][k])'
      BY <2>1, <2>3, <3>1, <3>2, <3>3, Zenon DEF Confirmed
    <3>6. QED BY <1>4, <3>2, <3>4, <3>5, Zenon
  <2>4. QED BY <2>1, <2>2, <2>3, Zenon DEF Confirmed
<1>13. Confirmed(n + 1)'
  <2>1. ASSUME NEW k \in rs[c] \cup ws[c], CanLock(c, BucketOf[k]), store[0][k] = obj[c][k]
        PROVE  Explained(n + 1, k, obj[c][k])'
    <3>1. Explained(n + 1, k, store[0][k])
      BY <1>0, <1>2, <1>3, <1>h, <2>1, UnlockedExplained, Zenon
    <3>2. PICK x : x = store[0][k] /\ x = obj[c][k] /\ x = obj'[c][k]
      BY <1>u, <2>1, Zenon
    <3>3. Explained(n + 1, k, x)'
      BY <1>11, <3>1, <3>2
    <3>4. QED BY <3>2, <3>3, Zenon DEF Explained
  <2>2. ASSUME Passed(hist[n + 1])', NEW k \in DOMAIN hist'[n + 1].read
        PROVE  Explained(n + 1, k, hist[n + 1].read[k])'
    <3>1. rs[c] = {} /\ k \in ws[c] /\ k \in Keys
      BY <1>3, <1>5, <1>7, <1>8, <1>h, <2>2
    <3>2. locker[BucketOf[k]] = c /\ store[0][k] = obj[c][k]
      <4>1. execWsLocked[c] = ws[c]
        BY <1>0, <1>2, Zenon DEF LockInv, PhaseInv, Phase
      <4>2. Owned(c, k, obj[c][k])
        BY <1>0, <1>2, <3>1, <4>1, Zenon DEF Executing
      <4>3. QED BY <4>2, Zenon DEF Owned
    <3>3. Explained(n + 1, k, obj[c][k])'
      BY <2>1, <3>1, <3>2, Zenon DEF CanLock
    <3>4. hist'[n + 1].read[k] = obj'[c][k]
      BY <1>5, <1>u, <3>1, Zenon
    <3>5. QED BY <3>3, <3>4, Zenon DEF Explained
  <2>3. ASSUME NEW k \in rs[c] \cup ws[c], snap'[c][k] = obj'[c][k]
        PROVE  Explained(n + 1, k, obj[c][k])'
    <3>1. k \in Keys /\ obj[c][k] \in Vals
      BY <1>0, <1>h, <2>3 DEF Types, TypeOK, ItemTypes
    <3>2. CASE CanLock(c, BucketOf[k])
      BY <1>2, <1>u, <2>1, <2>3, <3>1, <3>2, Zenon DEF Snapshot
    <3>3. CASE ~CanLock(c, BucketOf[k])
      <4>1. obj[c][k] = locker[BucketOf[k]]
        BY <1>2, <1>u, <2>3, <3>1, <3>3, Zenon DEF Snapshot
      <4>2. locker[BucketOf[k]] \in Coros
        BY <1>0, <3>1, <3>3, Typed, Zenon DEF CanLock
      <4>3. QED BY <3>1, <4>1, <4>2, ConstAssumption, Zenon
    <3>4. QED BY <3>2, <3>3, Zenon
  <2>4. n + 2 .. Len(hist') = {}
    BY <1>4
  <2>5. (n + 1) + 1 = n + 2
    OBVIOUS
  <2>6. QED BY <1>5, <1>u, <2>2, <2>3, <2>4, <2>5, Zenon DEF Confirmed
<1>14. ASSUME NEW d \in Coros PROVE Recorded(d)'
  <2>1. Recorded(d)
    BY <1>0, Zenon
  <2>2. CASE d # c
    <3>1. SameTx(d)
      BY <1>s, <2>2, Zenon
    <3>2. Entry(d)' = Entry(d) /\ (Active(d)' <=> Active(d)) /\ txn'[d] = txn[d] /\ pc'[d] = pc[d]
      BY <3>1, Zenon DEF SameTx, Same, Entry, NewVal, Active
    <3>3. <<d, txn[d]>> \in passed' <=> <<d, txn[d]>> \in passed
      BY <1>1, <2>2, Zenon
    <3>4. \A i \in 1 .. n + 1 : hist'[i].c = d => i \in 1 .. n /\ hist'[i] = hist[i]
      BY <1>4, <1>5, <2>2
    <3>5. \A i \in 1 .. n + 1 : hist'[i].c = d => hist'[i].txn <= txn[d]
      BY <1>3, <2>1, <3>4, Zenon DEF Recorded
    <3>6. \A i, j \in 1 .. n + 1 :
            hist'[i].c = d /\ hist'[j].c = d /\ hist'[i].txn = hist'[j].txn => i = j
      BY <1>3, <2>1, <3>4 DEF Recorded
    <3>7. Active(d)' /\ pc'[d] \in {"run", "read"} =>
            \A i \in 1 .. n + 1 : hist'[i].c = d => hist'[i].txn # txn[d]
      BY <1>3, <2>1, <3>2, <3>4, Zenon DEF Recorded
    <3>8. ASSUME pc'[d] = "validate"
          PROVE  <<d, txn[d]>> \notin passed' /\ \E i \in 1 .. n + 1 : hist'[i] = Entry(d)'
      <4>1. <<d, txn[d]>> \notin passed /\ \E i \in 1 .. n : hist[i] = Entry(d)
        BY <1>3, <2>1, <3>2, <3>8, Zenon DEF Recorded
      <4>2. QED BY <1>4, <3>2, <3>3, <4>1
    <3>9. QED BY <1>4, <3>2, <3>5, <3>6, <3>7, <3>8, Zenon DEF Recorded
  <2>3. CASE d = c
    <3>0. /\ \A i \in 1 .. n : hist[i].c = c => hist[i].txn <= txn[c]
          /\ \A i, j \in 1 .. n :
               hist[i].c = c /\ hist[j].c = c /\ hist[i].txn = hist[j].txn => i = j
      BY <1>3, <2>1, <2>3, Zenon DEF Recorded
    <3>1. pc'[c] \notin {"run", "read"}
      BY <1>2, Zenon
    <3>2. \A i \in 1 .. n + 1 : hist'[i].c = c => hist'[i].txn <= txn[c]
      <4>1. txn[c] \in Nat
        BY <1>0, Stored, Zenon
      <4>2. ASSUME NEW i \in 1 .. n + 1 PROVE hist'[i].c = c => hist'[i].txn <= txn[c]
        <5>1. CASE i \in 1 .. n
          BY <1>4, <3>0, <5>1, Zenon
        <5>2. CASE i = n + 1
          BY <1>5, <4>1, <5>2
        <5>3. QED BY <5>1, <5>2
      <4>3. QED BY <4>2, Zenon
    <3>3. \A i, j \in 1 .. n + 1 :
            hist'[i].c = c /\ hist'[j].c = c /\ hist'[i].txn = hist'[j].txn => i = j
      <4>1. ASSUME NEW i \in 1 .. n + 1, NEW j \in 1 .. n + 1, hist'[i].c = c, hist'[j].c = c,
                   hist'[i].txn = hist'[j].txn
            PROVE  i = j
        <5>1. CASE i \in 1 .. n /\ j \in 1 .. n
          BY <1>4, <3>0, <4>1, <5>1, Zenon
        <5>2. CASE i \in 1 .. n /\ j = n + 1
          BY <1>4, <1>5, <1>6, <4>1, <5>2, Zenon
        <5>3. CASE i = n + 1 /\ j \in 1 .. n
          BY <1>4, <1>5, <1>6, <4>1, <5>3, Zenon
        <5>4. QED BY <5>1, <5>2, <5>3
      <4>2. QED BY <4>1, Zenon
    <3>4. pc'[c] = "validate" => <<c, txn[c]>> \notin passed'
      BY <1>1, <1>2, <1>6, Zenon
    <3>5. \E i \in 1 .. n + 1 : hist'[i] = Entry(c)'
      BY <1>4, <1>u
    <3>6. QED BY <1>4, <1>u, <2>3, <3>1, <3>2, <3>3, <3>4, <3>5, Zenon DEF Recorded
  <2>4. QED BY <2>2, <2>3, Zenon
<1>15. ASSUME NEW k \in Keys PROVE Current(k)'
  <2>1. \A d \in Coros : d # c => (Pending(d, k)' <=> Pending(d, k)) /\ NewVal(d, k)' = NewVal(d, k)
    BY <1>0, <1>s, SameCalm, Zenon
  <2>2. CASE rs[c] = {} /\ k \in ws[c]
    <3>1. Pending(c, k)' /\ NewVal(c, k)' = NewVal(c, k)
      BY <1>2, <1>u, <2>2, Zenon DEF Pending, NewVal
    <3>2. \A d \in Coros : Pending(d, k)' => d = c
      BY <1>0, <1>h, <2>1, <2>2, HeldByOne DEF Pending
    <3>3. p = n + 1 /\ p \in 1 .. Len(hist)' /\ \A j \in Writers(Len(hist), k) : j <= p
      BY <1>3, <1>4, <1>7, <2>2 DEF Writers
    <3>4. Leaves(Len(hist), k, hist[p].write[k])'
      BY <1>5, <1>9, <2>2, <3>3, LastLeaves, Zenon
    <3>5. hist'[p].write[k] = NewVal(c, k)'
      BY <1>5, <2>2, <3>1, <3>3, Zenon
    <3>6. Leaves(Len(hist), k, NewVal(c, k))'
      BY <3>4, <3>5, Zenon DEF Leaves
    <3>7. QED BY <3>1, <3>2, <3>6, Zenon DEF Current
  <2>3. CASE ~ (rs[c] = {} /\ k \in ws[c])
    <3>1. ~Pending(c, k)' /\ ~Pending(c, k)
      BY <1>2, <2>3, Zenon DEF Pending
    <3>2. ASSUME NEW x, Leaves(Len(hist), k, x) PROVE Leaves(Len(hist), k, x)'
      <4>1. p \in 1 .. n + 1 => k \notin DOMAIN hist'[p].write
        BY <1>5, <1>7, <2>3
      <4>2. n \in 0 .. Len(hist) /\ n + 1 \in 0 .. Len(hist)' /\ n <= n + 1 /\ Leaves(n, k, x)
        BY <1>3, <1>4, <3>2
      <4>3. Leaves(n + 1, k, x)'
        BY <1>3, <1>9, <4>1, <4>2, LeavesKept, Zenon
      <4>4. QED BY <1>4, <4>3, Zenon DEF Leaves, Writers
    <3>3. ASSUME NEW d \in Coros, Pending(d, k)' PROVE Leaves(Len(hist), k, NewVal(d, k))'
      <4>1. PICK x : x = NewVal(d, k) /\ x = NewVal(d, k)'
        BY <2>1, <3>1, <3>3, Zenon
      <4>2. Leaves(Len(hist), k, x)
        BY <1>0, <2>1, <3>1, <3>3, <4>1, Zenon DEF Current
      <4>3. Leaves(Len(hist), k, x)'
        BY <3>2, <4>2, Zenon
      <4>4. QED BY <4>1, <4>3, Zenon DEF Leaves
    <3>4. ASSUME \A d \in Coros : ~Pending(d, k)' PROVE Leaves(Len(hist), k, store[0][k])'
      <4>1. PICK x : x = store[0][k] /\ x = store'[0][k]
        BY <1>2, Zenon
      <4>2. Leaves(Len(hist), k, x)
        BY <1>0, <2>1, <3>1, <3>4, <4>1, Zenon DEF Current
      <4>3. Leaves(Len(hist), k, x)'
        BY <3>2, <4>2, Zenon
      <4>4. QED BY <4>1, <4>3, Zenon DEF Leaves
    <3>5. QED BY <3>3, <3>4, Zenon DEF Current
  <2>4. QED BY <2>2, <2>3, Zenon
<1>16. Called'
  <2>1. \A q \in passed : \E i \in 1 .. n + 1 : q = <<hist'[i].c, hist'[i].txn>>
    BY <1>0, <1>3, <1>4 DEF Called
  <2>2. <<c, txn[c]>> = <<hist'[n + 1].c, hist'[n + 1].txn>> /\ n + 1 \in 1 .. n + 1
    BY <1>5
  <2>3. \A q \in passed' : q \in passed \/ q = <<c, txn[c]>>
    BY <1>1
  <2>4. Len(hist') = n + 1
    BY <1>4
  <2>5. QED BY <2>1, <2>2, <2>3, <2>4, Zenon DEF Called
<1>17. \A i \in 1 .. Len(hist') : Confirmed(i)'
  BY <1>4, <1>12, <1>13
<1>18. QED BY <1>4, <1>14, <1>15, <1>16, <1>17, Zenon DEF HistInv

\* A failed validation ends in abort() and lets nothing through.
LEMMA RefuseHist ==
  ASSUME SnapInv, HistInv, NEW c \in Coros, HValidateDone(c), ~Valid(c)
  PROVE  HistInv'
<1>0. LockInv /\ Types /\ Phase(c) /\ txn[c] \in Nat
  BY Stored, Zenon DEF SnapInv, LockInv, PhaseInv, Types
<1>1. ValidateDone(c) /\ UNCHANGED <<hist, passed>>
  BY Zenon DEF HValidateDone, Pass
<1>2. /\ pc[c] = "validate" /\ pc'[c] \in {"run", "abort"} /\ status'[c] = "aborted"
      /\ txn' = txn /\ store' = store
  <2>1. DOMAIN pc = Coros /\ DOMAIN status = Coros
    BY <1>0, Domains, Zenon
  <2>2. QED BY <1>1, <2>1, Zenon DEF ValidateDone, BatchDone, SendAbort, Finish, itemVars
<1>3. Calm(c) /\ \A k \in Keys : ~Pending(c, k)
  BY <1>0, <1>2 DEF Calm, Active, Pending
<1>4. \A d \in Coros : d # c =>
        Calm(d) /\ \A k \in Keys : Pending(d, k) => Pending(d, k)'
  BY <1>0, <1>1, OthersSame, SameCalm, Zenon DEF Coordinator
<1>5. \A k \in Keys : Settles(k)
  BY <1>2, <1>3, <1>4, Zenon DEF Settles
<1>6. QED BY <1>1, <1>3, <1>4, <1>5, QuietHist, Zenon

\* No step of the transaction layer leaves the invariant.
LEMMA NextHistInv ==
  ASSUME SnapInv, LockInv', HistInv, [HNext]_hvars
  PROVE  HistInv'
<1>1. CASE UNCHANGED hvars
  <2>1. UNCHANGED <<hist, passed, store, pc, txn, rs, ws, mode, obj, snap, pend, status, execWsLocked>>
    BY <1>1, Zenon DEF hvars, vars, itemVars
  <2>2. \A c \in Coros : txn[c] \in Nat
    BY Stored, Zenon DEF SnapInv, LockInv, Types
  <2>3. \A c \in Coros : Calm(c)
    BY <2>1, <2>2 DEF Calm, Pending, Held, Active, NewVal
  <2>4. \A k \in Keys : Settles(k)
    BY <2>1, Zenon DEF Settles, Pending, Held, Active
  <2>5. QED BY <2>1, <2>3, <2>4, QuietHist, Zenon
<1>2. ASSUME NEW c \in Coros, HCommit(c) PROVE HistInv'
  BY <1>2, CommitHist, Zenon
<1>3. ASSUME NEW c \in Coros, HValidateDone(c) PROVE HistInv'
  BY <1>3, PassHist, RefuseHist, Zenon
<1>4. ASSUME NEW c \in Coros, HOther(c) PROVE HistInv'
  BY <1>4, OtherHist, Zenon DEF SnapInv
<1>5. QED BY <1>1, <1>2, <1>3, <1>4, Zenon DEF HNext

\* Without calls of commit() the tables hold what they were populated with.
LEMMA InitHistInv == HInit => HistInv
<1> SUFFICES ASSUME HInit PROVE HistInv
  OBVIOUS
<1>1. hist = <<>> /\ passed = {} /\ Len(hist) = 0 /\ hist \in Seq(Entries)
  BY DEF HInit
<1>2. /\ \A c \in Coros : pc[c] = "run"
      /\ \A k \in Keys : store[0][k] = IF k \in Populated THEN Initial ELSE Absent
  BY ReplicasType, Zenon DEF HInit, Init
<1>3. \A c \in Coros : Recorded(c)
  BY <1>1, <1>2 DEF Recorded
<1>4. \A k \in Keys : Current(k)
  <2>1. \A k \in Keys : Writers(0, k) = {}
    BY DEF Writers
  <2>2. \A k \in Keys : Leaves(0, k, store[0][k])
    BY <1>2, <2>1, Zenon DEF Leaves
  <2>3. \A c \in Coros, k \in Keys : ~Pending(c, k)
    BY <1>2 DEF Pending
  <2>4. QED BY <1>1, <2>2, <2>3, Zenon DEF Current
<1>5. QED BY <1>1, <1>3, <1>4 DEF HistInv, Called

\* With its history, the transaction layer takes the same steps.
LEMMA HistorySteps == [HNext]_hvars => [Next]_vars
<1> SUFFICES ASSUME [HNext]_hvars PROVE [Next]_vars
  OBVIOUS
<1>1. CASE UNCHANGED hvars
  BY <1>1, Zenon DEF hvars
<1>2. ASSUME NEW c \in Coros, HCommit(c) \/ HValidateDone(c) \/ HOther(c)
      PROVE  Coordinator(c) \/ Server(c)
  BY <1>2, Zenon DEF HCommit, HValidateDone, HOther, Coordinator
<1>3. QED BY <1>1, <1>2, Zenon DEF HNext, Next

\* What was let through had read what the replay explains.
LEMMA HistSerializable == HistInv => Serializable
BY Zenon DEF HistInv, Confirmed, Explained, Serializable
=============================================================================
