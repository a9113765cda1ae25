------------------------------ MODULE TxProofs -------------------------------
(***************************************************************************)
(* The theorems about modules Tx and TxHistory, for any coordinators,      *)
(* keys, buckets, number of backups and batches.  TxLocks and TxIsolation  *)
(* show that every step keeps the invariants.                              *)
(***************************************************************************)
EXTENDS TxLocks, TxIsolation, FiniteSetTheorems

-----------------------------------------------------------------------------
(* The locks.                                                              *)

\* Sets of keys can be counted, there being finitely many.
LEMMA KeysCounted == Counting
<1> SUFFICES ASSUME NEW S \in SUBSET Keys
             PROVE  /\ Cardinality(S) \in Nat /\ (Cardinality(S) = 0 <=> S = {})
                    /\ \A k \in S : Cardinality(S \ {k}) = Cardinality(S) - 1
                    /\ \A k \in Keys \ S : Cardinality(S \cup {k}) = Cardinality(S) + 1
  BY DEF Counting
<1>1. IsFiniteSet(S)
  BY ConstAssumption, FS_Subset
<1>2. Cardinality(S) \in Nat /\ (Cardinality(S) = 0 <=> S = {})
  BY <1>1, FS_CardinalityType, FS_EmptySet
<1>3. \A k \in S : Cardinality(S \ {k}) = Cardinality(S) - 1
  BY <1>1, FS_RemoveElement
<1>4. \A k \in Keys \ S : Cardinality(S \cup {k}) = Cardinality(S) + 1
  BY <1>1, FS_AddElement
<1>5. QED BY <1>2, <1>3, <1>4

\* The inductive invariant holds of every reachable state of the transaction
\* layer: every coordinator's phase fits its batch, and every bucket's lock word
\* fits what the coordinators hold.
THEOREM LockInvariant == Spec => []LockInv
<1>1. LockInv /\ [Next]_vars => LockInv'
  BY NextLockInv, KeysCounted
<1>2. QED BY <1>1, InitLockInv, PTL DEF Spec

\* Types: among them, numLocks stays a natural number, so unlock_bucket_ptr()
\* is never called on a bucket that is not locked.
THEOREM TypeCorrect == Spec => []TypeOK
<1>1. LockInv => TypeOK
  BY DEF LockInv
<1>2. QED BY <1>1, LockInvariant, PTL

\* The re-entrant bucket lock of lock_bucket_ptr() and unlock_bucket_ptr() is
\* balanced for any number of coordinators, keys, buckets and replicas.
THEOREM LocksBalance == Spec => []LockAccounting
<1>1. LockInv => LockAccounting
  BY DEF LockInv
<1>2. QED BY <1>1, LockInvariant, PTL

\* The lock that a coordinator holds at the primary protects the unlocked puts
\* and dels of send_updates_to_replicas() at the backups.
THEOREM WritersExclusive == Spec => []BackupWritersExclusive
BY HoldersExclusive, LockInvariant, PTL

\* Validation by version is sound: however many coordinators write, the contents
\* of a bucket never change behind an unchanged version and a free lock.
THEOREM VersionsNameContents == Spec => VersionedWrites
<1>1. LockInv /\ [Next]_vars => [\A k \in Keys : KeyVersioned(k)]_vars
  BY StepVersioned
<1>2. QED BY <1>1, LockInvariant, PTL DEF Spec, VersionedWrites

-----------------------------------------------------------------------------
(* The sizes of batches.                                                   *)

\* Sets of keys and of requests can be counted, there being finitely many.
LEMMA RequestsCounted == Sizes
<1>1. IsFiniteSet(Keys) /\ NumBackups \in Nat
  BY ConstAssumption
<1>2. IsFiniteSet(Replicas) /\ IsFiniteSet(1 .. NumBackups)
      /\ Cardinality(1 .. NumBackups) = NumBackups
  BY <1>1, FS_Interval DEF Replicas
<1>3. IsFiniteSet(Replicas \X Keys)
  BY <1>1, <1>2, FS_Product
<1>4. ASSUME NEW P \in SUBSET (Replicas \X Keys)
      PROVE  Cardinality(P) \in Nat /\ \A Q \in SUBSET P : Cardinality(Q) <= Cardinality(P)
  <2>1. IsFiniteSet(P)
    BY <1>3, FS_Subset
  <2>2. QED BY <2>1, FS_Subset, FS_CardinalityType
<1>5. ASSUME NEW S \in SUBSET Keys
      PROVE  /\ Cardinality(S) \in Nat
             /\ \A T \in SUBSET S : Cardinality(T) <= Cardinality(S)
             /\ \A r \in Replicas : Cardinality({r} \X S) = Cardinality(S)
             /\ Cardinality((1 .. NumBackups) \X S) = NumBackups * Cardinality(S)
  <2>1. IsFiniteSet(S)
    BY <1>1, FS_Subset
  <2>2. Cardinality(S) \in Nat /\ \A T \in SUBSET S : Cardinality(T) <= Cardinality(S)
    BY <2>1, FS_Subset, FS_CardinalityType
  <2>3. ASSUME NEW r \in Replicas PROVE Cardinality({r} \X S) = Cardinality(S)
    <3>1. IsFiniteSet({r}) /\ Cardinality({r}) = 1
      BY FS_Singleton, Zenon
    <3>2. Cardinality({r} \X S) = 1 * Cardinality(S)
      BY <2>1, <3>1, FS_Product
    <3>3. QED BY <2>2, <3>2
  <2>4. Cardinality((1 .. NumBackups) \X S) = NumBackups * Cardinality(S)
    BY <2>1, <1>2, FS_Product, Zenon
  <2>5. QED BY <2>2, <2>3, <2>4
<1>6. Cardinality({}) = 0
  BY FS_EmptySet
<1>7. ASSUME NEW L \in SUBSET (1 .. NumBackups)
      PROVE  Cardinality(L) \in Nat /\ Cardinality(L) <= NumBackups
  BY <1>2, FS_Subset, FS_CardinalityType, Zenon
<1>8. QED BY <1>4, <1>5, <1>6, <1>7 DEF Sizes

\* For any number of keys, backups and coordinators, no batch of requests and no
\* count of locks grows past what RPC_MAX_MSG_CORO allows for.
THEOREM BatchesNeverOverrun == Spec => []BatchesFit
<1>1. Init => FitInv
  BY InitFitInv, RequestsCounted
<1>2. LockInv /\ LockInv' /\ FitInv /\ [Next]_vars => FitInv'
  BY NextFitInv, RequestsCounted
<1>3. LockInv /\ FitInv => BatchesFit
  BY FitLocks, RequestsCounted
<1>4. QED BY <1>1, <1>2, <1>3, LockInvariant, PTL DEF Spec


-----------------------------------------------------------------------------
(* Isolation and replication.                                              *)

\* The inductive invariant of isolation holds of every reachable state.
THEOREM SnapInvariant == Spec => []SnapInv
<1>1. LockInv' /\ SnapInv /\ [Next]_vars => SnapInv'
  BY NextSnapInv
<1>2. QED BY <1>1, InitSnapInv, LockInvariant, PTL DEF Spec

\* Isolation, for any number of coordinators, keys, buckets and replicas, with locks
\* shared by the keys of a bucket and with left-over bytes in responses: whatever
\* commit() lets through had read what the primaries held when commit() was called.
THEOREM ReadsAreSnapshots == Spec => []SnapshotReads
<1>1. SnapInv => SnapshotReads
  BY DEF SnapInv, Isolated, Snapped, SnapshotReads
<1>2. QED BY <1>1, SnapInvariant, PTL

\* The inductive invariant of the replicas and the logs holds of every reachable state.
THEOREM ReplInvariant == Spec => []ReplInv
<1>1. LockInv' /\ ReplInv /\ [Next]_vars => ReplInv'
  BY NextReplInv
<1>2. QED BY <1>1, InitReplInv, LockInvariant, PTL DEF Spec

\* Replication: for any number of backups, keys and coordinators, and however the
\* updates to the backups are split into batches, replicas of a key differ only while
\* the coordinator that writes it has the key's bucket at the primary.
THEOREM ReplicasAgree == Spec => []DivergenceUnderLock
BY InStepAgrees, ReplInvariant, PTL

\* Logging: whatever is on some replicas and not on others is named in a record of
\* the transaction that is writing it, on each of its log machines.
THEOREM DivergencesLogged == Spec => []DivergenceLogged
BY InStepLogged, ReplInvariant, PTL

\* Atomicity of an abort: for any number of coordinators, an aborted transaction has
\* written nothing at any replica or log machine, and has no lock when abort() returns.
THEOREM AbortsLeaveNoTrace == Spec => []AbortLeavesNoTrace
BY TracedAborts, ReplInvariant, PTL

-----------------------------------------------------------------------------
(* The history.                                                            *)

\* The transaction layer with its history is the transaction layer.
THEOREM HistoryOfTx == HSpec => Spec
<1>1. HInit => Init
  BY DEF HInit
<1>2. QED BY <1>1, HistorySteps, PTL DEF HSpec, Spec

\* The inductive invariant of the history holds of every reachable state.
THEOREM HistInvariant == HSpec => []HistInv
<1>1. SnapInv /\ LockInv' /\ HistInv /\ [HNext]_hvars => HistInv'
  BY NextHistInv
<1>2. QED BY <1>1, InitHistInv, HistoryOfTx, SnapInvariant, LockInvariant, PTL DEF HSpec

\* Serializability, for any number of coordinators, keys, buckets and replicas and any
\* number of transactions: the order in which commit() is called explains everything
\* that the transactions which it lets through have read.
THEOREM TransactionsSerializable == HSpec => []Serializable
BY HistSerializable, HistInvariant, PTL

\* At an unlocked bucket nothing is still to be written, and the replicas agree.
LEMMA HistSurvives == LockInv /\ ReplInv /\ HistInv => UpdatesSurvive
<1> SUFFICES ASSUME LockInv, ReplInv, HistInv, NEW k \in Keys, locker[BucketOf[k]] = NoCaller,
                    NEW r \in Replicas
             PROVE  Leaves(Len(hist), k, store[r][k])
  BY DEF UpdatesSurvive
<1>1. ASSUME NEW c \in Coros PROVE k \notin Held(c)
  BY HoldersLock, ConstAssumption
<1>2. Leaves(Len(hist), k, store[0][k])
  BY <1>1 DEF HistInv, Current, Pending
<1>3. store[r][k] = store[0][k]
  <2>1. DivergenceUnderLock
    BY InStepAgrees
  <2>2. QED BY <1>1, <2>1 DEF DivergenceUnderLock
<1>4. QED BY <1>2, <1>3

\* No committed update is lost at any replica, and no replica of an unlocked bucket
\* holds anything that no committed transaction wrote there.
THEOREM UpdatesNeverLost == HSpec => []UpdatesSurvive
BY HistSurvives, HistInvariant, HistoryOfTx, LockInvariant, ReplInvariant, PTL
=============================================================================
