---------------------------- MODULE TxInvariants -----------------------------
(***************************************************************************)
(* The inductive invariants of module Tx that the others build on, and     *)
(* what their proofs share.                                                *)
(*                                                                         *)
(* LockInv is behind the bucket locks.  LockAccounting alone is not        *)
(* inductive: that a put, del or unlock finds its lock in place depends on *)
(* which phase its coordinator is in and on what is left of its batch.     *)
(* PhaseInv says that, and LockInv joins the two.  TxLocks shows that      *)
(* every step keeps it.                                                    *)
(*                                                                         *)
(* SnapInv says why what a validated transaction has read was true at the  *)
(* call of commit().  TxIsolation shows that every step keeps it.          *)
(***************************************************************************)
EXTENDS Tx, TLAPS

\* TypeOK under a name that hides it: a proof that unfolds the types then does
\* not unfold them in the statement of every lemma as well.
Types == TypeOK

\* The inductive invariant.
LockInv == TypeOK /\ PhaseInv /\ LockAccounting

\* c has k's bucket locked, and k has the value x.
Owned(c, k, x) == locker[BucketOf[k]] = c /\ store[0][k] = x

\* k had the value x when c was told version v of its bucket.  It still has it,
\* unless another coordinator has the bucket or has had it since.
Fresh(c, k, v, x) ==
  \/ Owned(c, k, x)
  \/ version[BucketOf[k]] > v
  \/ /\ version[BucketOf[k]] = v
     /\ CanLock(c, BucketOf[k]) => store[0][k] = x

\* Whatever validate() is going to be told of k, it is not what do_read() was told.
Doomed(c, k) ==
  LET b == BucketOf[k] IN
  \/ locker[b] \notin {NoCaller, c} /\ version[b] >= execVersion[c][k]
  \/ locker[b] = NoCaller /\ version[b] > execVersion[c][k]
  \/ /\ locker[b] = c /\ version[b] > execVersion[c][k]
     /\ store[0][k] # Absent \/ obj[c][k] # Absent

\* What the Tx object has about the keys, whatever becomes of the transaction.
Items(c) ==
  /\ execExists[c] \subseteq rs[c]
  /\ \A k \in Keys \ (execExists[c] \cup execWsLocked[c]) : obj[c][k] = Absent
  /\ pc[c] = "read" => \A k \in Keys :
       /\ resp[c][k].type # "none" => k \in rs[c] \cup ws[c]
       /\ k \in execExists[c] => <<0, k>> \notin pend[c] /\ resp[c][k].type = "none"

\* A response to do_read(), which has not been looked at.
Told(c, k) ==
  LET r == resp[c][k] IN
  /\ k \in rs[c] =>
       \/ r.type = "locked"
       \/ /\ r.type \in {"success", "not_found"}
          /\ r.type = "not_found" => r.val = Absent
          /\ Fresh(c, k, r.ver, r.val)
  /\ k \in ws[c] /\ r.type = "success" => Owned(c, k, r.val)

\* Until commit() a transaction has fresh values of what it has read, and owns
\* what it is going to write.
Executing(c) ==
  status[c] = "in_progress" /\ pc[c] \in {"run", "read"} =>
    /\ \A k \in execWsLocked[c] : Owned(c, k, obj[c][k])
    /\ \A k \in Keys :
         IF resp[c][k].type # "none" THEN Told(c, k)
         ELSE k \in rs[c] /\ <<0, k>> \notin pend[c] =>
                Fresh(c, k, execVersion[c][k], obj[c][k])

\* In validate() every key read is the one of the snapshot, or fails the comparison.
Validating(c) ==
  pc[c] = "validate" =>
    /\ \A k \in ws[c] : snap[c][k] = obj[c][k]
    /\ \A k \in rs[c] :
         \/ snap[c][k] = obj[c][k]
         \/ <<0, k>> \in pend[c] /\ Doomed(c, k)
         \/ <<0, k>> \notin pend[c] /\ ~Unchanged(c, k)

Snapped(c) ==
  Validated(c) => \A k \in rs[c] \cup ws[c] : snap[c][k] = obj[c][k]

\* The part of the invariant that is about the transaction of c.
Isolated(c) == Items(c) /\ Executing(c) /\ Validating(c) /\ Snapped(c)

SnapInv == LockInv /\ \A c \in Coros : Isolated(c)

-----------------------------------------------------------------------------
(* The constants, the first state and the types.                           *)

\* The primary and the backups are replicas.
LEMMA ReplicasType == 0 \in Replicas /\ (1 .. NumBackups) \subseteq Replicas
BY ConstAssumption DEF Replicas

\* The scalar part of the assumption on the constants.
LEMMA ConstTypes ==
  NumBackups \in Nat /\ BucketOf \in [Keys -> Buckets] /\ NoCaller \notin Coros
BY ConstAssumption

\* Before the first transaction no bucket is locked and no batch is out.
LEMMA InitLockInv == Init => LockInv
<1> SUFFICES ASSUME Init PROVE LockInv
  OBVIOUS
<1> USE ConstAssumption, ReplicasType
<1>1. TypeOK
  <2>1. ItemTypes
    BY DEF Init, ItemTypes, Vals, Modes
  <2>2. BatchTypes
    BY DEF Init, BatchTypes, NoResp, RespTypes, Vals
  <2>3. logRecord \in [1 .. NumBackups -> [Coros ->
       [txn : Nat, entries : SUBSET (Keys \X (Vals \cup {ItemBytes}))]]]
    BY DEF Init, NoRecord
  <2>4. QED BY <2>1, <2>2, <2>3, Zenon DEF Init, TypeOK, Vals
<1>2. PhaseInv
  BY DEF Init, PhaseInv, Phase
<1>3. LockAccounting
  BY DEF Init, LockAccounting, Accounts, HeldIn, Held, Active
<1>4. QED BY <1>1, <1>2, <1>3 DEF LockInv

\* A coordinator holds keys.
LEMMA HeldType ==
  ASSUME Types, NEW c \in Coros, NEW b \in Buckets
  PROVE  HeldIn(c, b) \in SUBSET Keys
<1> TypeOK
  BY DEF Types
<1> QED BY DEF TypeOK, ItemTypes, HeldIn, Held

\* The sets, versions and locks that the proofs compare have their types.
LEMMA Typed ==
  ASSUME Types, NEW c \in Coros
  PROVE  /\ c # NoCaller
         /\ rs[c] \subseteq Keys /\ ws[c] \subseteq Keys /\ execWsLocked[c] \subseteq Keys
         /\ \A k \in Keys : execVersion[c][k] \in Nat /\ resp[c][k].ver \in Nat
         /\ \A k \in Keys : version[BucketOf[k]] \in Nat
         /\ \A k \in Keys : locker[BucketOf[k]] \in Coros \cup {NoCaller}
<1> TypeOK
  BY DEF Types
<1>1. rs[c] \subseteq Keys /\ ws[c] \subseteq Keys /\ execWsLocked[c] \subseteq Keys
  BY DEF TypeOK, ItemTypes
<1>2. \A k \in Keys : execVersion[c][k] \in Nat
  BY DEF TypeOK, ItemTypes
<1>3. \A k \in Keys : resp[c][k].ver \in Nat
  BY DEF TypeOK, BatchTypes
<1>4. \A k \in Keys : /\ version[BucketOf[k]] \in Nat
                      /\ locker[BucketOf[k]] \in Coros \cup {NoCaller}
  BY ConstTypes DEF TypeOK
<1>5. QED BY <1>1, <1>2, <1>3, <1>4, ConstTypes

\* Every coordinator has an entry in each of the arrays that a step assigns to.
LEMMA Domains ==
  ASSUME Types
  PROVE  /\ DOMAIN status = Coros /\ DOMAIN pc = Coros /\ DOMAIN pend = Coros
         /\ DOMAIN pendLog = Coros /\ DOMAIN resp = Coros /\ DOMAIN rs = Coros
         /\ DOMAIN ws = Coros /\ DOMAIN execExists = Coros /\ DOMAIN execVersion = Coros
         /\ DOMAIN execWsLocked = Coros /\ DOMAIN obj = Coros /\ DOMAIN snap = Coros
         /\ DOMAIN mode = Coros /\ DOMAIN txn = Coros /\ DOMAIN repl = Coros
         /\ \A c \in Coros : DOMAIN resp[c] = Keys
<1> TypeOK
  BY DEF Types
<1> QED BY DEF TypeOK, ItemTypes, BatchTypes

\* A batch without answers.
LEMMA NoRespType == NoResp.type = "none"
BY DEF NoResp

\* Every replica has an entry for every key, every log machine one for every
\* coordinator, and a record carries the number of a transaction.
LEMMA Stored ==
  ASSUME Types
  PROVE  /\ DOMAIN store = Replicas /\ \A r \in Replicas : DOMAIN store[r] = Keys
         /\ DOMAIN logRecord = 1 .. NumBackups
         /\ \A l \in 1 .. NumBackups : DOMAIN logRecord[l] = Coros
         /\ \A l \in 1 .. NumBackups, c \in Coros : logRecord[l][c].txn \in Nat
         /\ \A c \in Coros : txn[c] \in Nat /\ repl[c] \in Replicas
<1> TypeOK
  BY DEF Types
<1>1. DOMAIN store = Replicas /\ \A r \in Replicas : DOMAIN store[r] = Keys
  BY DEF TypeOK
<1>2. /\ DOMAIN logRecord = 1 .. NumBackups
      /\ \A l \in 1 .. NumBackups : DOMAIN logRecord[l] = Coros
      /\ \A l \in 1 .. NumBackups, c \in Coros : logRecord[l][c].txn \in Nat
  BY Zenon DEF TypeOK
<1>3. \A c \in Coros : txn[c] \in Nat /\ repl[c] \in Replicas
  BY DEF TypeOK, ItemTypes, BatchTypes
<1>4. QED BY <1>1, <1>2, <1>3

-----------------------------------------------------------------------------
(* What a step of a coordinator, and one of a handler, leaves alone.       *)

\* No bucket operation makes a version smaller: unlock_bucket_ptr() and a lock
\* that is given back at once move it by one.
LEMMA VersionsGrow ==
  ASSUME Types, NEW b \in Buckets, NEW d \in Buckets,
         \/ UNCHANGED bucketVars
         \/ UnlockBucket(d) \/ LockAndUnlockBucket(d)
         \/ \E c \in Coros : LockBucket(c, d)
  PROVE  version'[b] >= version[b]
<1> TypeOK
  BY DEF Types
<1>1. version[b] \in Nat /\ version[d] \in Nat
  BY DEF TypeOK
<1>2. CASE UNCHANGED bucketVars
  BY <1>1, <1>2 DEF bucketVars
<1>3. CASE UnlockBucket(d)
  BY <1>1, <1>3 DEF UnlockBucket, TypeOK
<1>4. CASE LockAndUnlockBucket(d)
  BY <1>1, <1>4 DEF LockAndUnlockBucket, TypeOK
<1>5. CASE \E c \in Coros : LockBucket(c, d)
  BY <1>1, <1>5 DEF LockBucket
<1>6. QED BY <1>2, <1>3, <1>4, <1>5

Same(d) ==
  /\ status'[d] = status[d] /\ pc'[d] = pc[d]
  /\ rs'[d] = rs[d] /\ ws'[d] = ws[d] /\ execWsLocked'[d] = execWsLocked[d]
  /\ pend'[d] = pend[d] /\ pendLog'[d] = pendLog[d] /\ resp'[d] = resp[d]

\* What another coordinator holds does not depend on the variables of c.
LEMMA SameHeld ==
  ASSUME NEW d \in Coros, Same(d), Phase(d)
  PROVE  Phase(d)' /\ Held(d)' = Held(d)
<1>1. Phase(d)'
  BY Zenon DEF Same, Phase
<1>2. Held(d)' = Held(d)
  BY Zenon DEF Same, Held, Active
<1>3. QED BY <1>1, <1>2

\* The Tx object and the batch of c are as they were.
SameTx(c) ==
  /\ Same(c)
  /\ execExists'[c] = execExists[c] /\ execVersion'[c] = execVersion[c]
  /\ obj'[c] = obj[c] /\ snap'[c] = snap[c]
  /\ mode'[c] = mode[c] /\ txn'[c] = txn[c] /\ repl'[c] = repl[c]

\* A step of another coordinator, or of a handler that serves it, leaves the
\* transaction of c alone.
LEMMA OthersSame ==
  ASSUME Types, NEW c \in Coros, NEW d \in Coros, d # c, Coordinator(d) \/ Server(d)
  PROVE  SameTx(c)
<1> TypeOK
  BY DEF Types
<1> USE Domains DEF SameTx, Same, itemVars
<1>1. CASE Start(d) \/ ReadMore(d)
  <2>1. PICK rd, wr, p : SendRead(d, rd, wr, p)
    BY <1>1, Zenon DEF Start, ReadMore
  <2>2. /\ rs'[c] = rs[c] /\ ws'[c] = ws[c] /\ pend'[c] = pend[c] /\ pc'[c] = pc[c]
        /\ pendLog' = pendLog /\ resp' = resp /\ mode'[c] = mode[c] /\ repl' = repl
    BY <2>1, Zenon DEF SendRead
  <2>3. CASE Start(d)
    BY <2>2, <2>3, Zenon DEF Start
  <2>4. CASE ReadMore(d)
    BY <2>2, <2>4 DEF ReadMore
  <2>5. QED BY <1>1, <2>3, <2>4, Zenon
<1>2. CASE ReadDone(d)
  BY <1>2 DEF ReadDone
<1>3. CASE CommitSingleRead(d) \/ AbortRdonly(d) \/ AbortDone(d) \/ PrimaryDone(d)
  BY <1>3 DEF CommitSingleRead, AbortRdonly, AbortDone, PrimaryDone, Finish
<1>4. CASE Commit(d)
  <2>1. /\ pc'[c] = pc[c] /\ pend'[c] = pend[c] /\ pendLog'[c] = pendLog[c]
        /\ repl' = repl /\ status' = status
    <3>1. CASE SendValidate(d)
      BY <3>1 DEF SendValidate, Send
    <3>2. CASE SendLog(d)
      BY <3>2 DEF SendLog, SendPrimary, Send
    <3>3. QED BY <1>4, <3>1, <3>2, Zenon DEF Commit
  <2>2. QED BY <1>4, <2>1 DEF Commit
<1>5. CASE ValidateDone(d)
  BY <1>5, Zenon DEF ValidateDone, SendAbort, Finish, SendLog, SendPrimary, Send
<1>6. CASE LogDone(d) \/ BackupDone(d)
  BY <1>6, Zenon DEF LogDone, BackupDone, SendBackups, SendPrimary, Send
<1>7. CASE Abort(d)
  BY <1>7, Zenon DEF Abort, SendAbort, Finish
<1>8. CASE \E j \in Keys : \E ty, v, x : Respond(d, j, ty, v, x)
  BY <1>8 DEF Respond
<1>9. (\E j \in Keys : \/ GetRdonly(d, j) \/ GetForUpd(d, j)
                       \/ LockForIns(d, j) \/ LockRefused(d, j))
        => \E j \in Keys : \E ty, v, x : Respond(d, j, ty, v, x)
  BY Zenon DEF GetRdonly, GetForUpd, LockForIns, LockRefused, GetAnswer, GetLocked
<1>10. CASE \E j \in Keys : Unlock(d, j) \/ \E r \in Replicas : Update(d, r, j)
  BY <1>10, Zenon DEF Unlock, Update
<1>11. CASE \E r \in 1 .. NumBackups : SaveLogRecord(d, r)
  BY <1>11 DEF SaveLogRecord
<1>12. QED BY <1>1, <1>2, <1>3, <1>4, <1>5, <1>6, <1>7, <1>8, <1>9, <1>10, <1>11, Zenon
           DEF Coordinator, Server

\* The coordinator itself touches no table: only its requests do.
LEMMA CoordinatorLeaves ==
  ASSUME NEW c \in Coros, Coordinator(c)
  PROVE  UNCHANGED <<bucketVars, store, logRecord>>
<1>1. CASE Start(c) \/ ReadMore(c)
  BY <1>1, Zenon DEF Start, ReadMore, SendRead
<1>2. CASE ReadDone(c) \/ CommitSingleRead(c) \/ AbortRdonly(c)
  BY <1>2 DEF ReadDone, CommitSingleRead, AbortRdonly
<1>3. CASE Commit(c) \/ ValidateDone(c) \/ LogDone(c) \/ BackupDone(c) \/ PrimaryDone(c)
  BY <1>3 DEF Commit, ValidateDone, LogDone, BackupDone, PrimaryDone
<1>4. CASE Abort(c) \/ AbortDone(c)
  BY <1>4 DEF Abort, AbortDone
<1>5. QED BY <1>1, <1>2, <1>3, <1>4 DEF Coordinator

\* What do_read() sends, and for which keys.
ReadSent(c, rd, wr, p) ==
  /\ pc'[c] = "read" /\ resp' = resp /\ UNCHANGED <<bucketVars, store>>
  /\ rs'[c] = rd \cup p.rd /\ ws'[c] = wr \cup DOMAIN p.wr
  /\ pend'[c] = {0} \X (p.rd \cup DOMAIN p.wr)
  /\ \A k \in p.rd \cup DOMAIN p.wr : k \notin rd \cup wr

\* What do_read() sends, and for which keys.
LEMMA SendReadAt ==
  ASSUME Types, NEW c \in Coros, NEW rd, NEW wr, NEW p \in Batches, SendRead(c, rd, wr, p)
  PROVE  ReadSent(c, rd, wr, p)
<1> TypeOK
  BY DEF Types
<1>1. /\ pc'[c] = "read" /\ resp' = resp /\ UNCHANGED <<bucketVars, store>>
      /\ rs'[c] = rd \cup p.rd /\ ws'[c] = wr \cup DOMAIN p.wr
      /\ pend'[c] = {0} \X (p.rd \cup DOMAIN p.wr)
    BY Domains DEF Types, SendRead
<1>2. (p.rd \cup DOMAIN p.wr) \cap (rd \cup wr) = {}
    BY DEF SendRead
<1>3. QED BY <1>1, <1>2 DEF ReadSent

-----------------------------------------------------------------------------
(* What the locks say about who writes.                                    *)

\* What a transaction holds between its batches.
LEMMA HeldAtRest ==
  ASSUME Types, NEW c \in Coros, Phase(c), pc[c] # "read",
         pc[c] \in {"primary", "abort"} => pend[c] = {}
  PROVE  /\ Active(c) /\ pc[c] # "primary" => Held(c) = execWsLocked[c]
         /\ ~Active(c) \/ pc[c] = "primary" => Held(c) = {}
<1> TypeOK
  BY DEF Types
<1> QED BY DEF Held, Active, Phase

\* A coordinator that holds a key has the key's bucket.
LEMMA HoldersLock ==
  ASSUME LockInv, NEW c \in Coros, NEW k \in Held(c)
  PROVE  k \in Keys /\ k \in ws[c] /\ BucketOf[k] \in Buckets /\ locker[BucketOf[k]] = c
<1>1. ws[c] \subseteq Keys
  BY Typed DEF LockInv, Types
<1>2. k \in ws[c] /\ k \in Keys
  BY <1>1 DEF Held
<1>3. BucketOf[k] \in Buckets
  BY <1>2, ConstTypes
<1>4. k \in HeldIn(c, BucketOf[k])
  BY DEF HeldIn
<1>5. Accounts(BucketOf[k])
  BY <1>3 DEF LockInv, LockAccounting
<1>6. QED BY <1>2, <1>3, <1>4, <1>5 DEF Accounts

\* A coordinator holds what it is going to update at a backup or at the primary.
LEMMA WritersHold ==
  ASSUME LockInv, NEW c \in Coros, NEW k \in ws[c],
         pc[c] = "backup" \/ (pc[c] = "primary" /\ <<0, k>> \in pend[c])
  PROVE  k \in Held(c)
<1>1. Phase(c)
  BY DEF LockInv, PhaseInv
<1>2. CASE pc[c] = "backup"
  BY <1>1, <1>2 DEF Phase, Held, Active
<1>3. CASE pc[c] = "primary" /\ <<0, k>> \in pend[c]
  BY <1>3 DEF Held
<1>4. QED BY <1>2, <1>3

\* A put or del is for a key that its coordinator holds.
LEMMA UpdaterHolds ==
  ASSUME LockInv, NEW c \in Coros, NEW r \in Replicas, NEW k \in Keys, Update(c, r, k)
  PROVE  /\ k \in ws[c] /\ k \in Held(c)
         /\ r = 0 => pc[c] = "primary" /\ <<0, k>> \in pend[c]
         /\ r # 0 => pc[c] = "backup" /\ r \in 1 .. NumBackups
<1>1. Phase(c)
  BY DEF LockInv, PhaseInv
<1>2. pc[c] \in {"backup", "primary"} /\ <<r, k>> \in pend[c]
  BY DEF Update
<1>3. /\ k \in ws[c]
      /\ r = 0 => pc[c] = "primary" /\ <<0, k>> \in pend[c]
      /\ r # 0 => pc[c] = "backup" /\ r \in 1 .. NumBackups
  BY <1>1, <1>2 DEF Phase
<1>4. QED BY <1>3, <1>2, WritersHold
=============================================================================
