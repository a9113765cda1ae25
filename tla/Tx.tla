--------------------------------- MODULE Tx ---------------------------------
(***************************************************************************)
(* The transaction layer (src/tx) over primary-backup datastores           *)
(* (src/datastore, FixedTable) and per-coroutine logs (src/logger).        *)
(*                                                                         *)
(* A coordinator is a slave coroutine.  It runs alone on its thread        *)
(* between two calls of tx_yield(), so one coordinator action is all the   *)
(* code from one yield to the next.  A datastore or logger RPC handler     *)
(* runs to its end on a server thread, so one server action is one request *)
(* of a batch.  What the table operations do when handlers of several      *)
(* threads overlap inside one bucket is the subject of module FixedTable;  *)
(* here an overlap shows only as a "locked" answer.                        *)
(*                                                                         *)
(* A lost request is one that no server action ever takes, a lost response *)
(* or a crashed coordinator is a coroutine that never runs again: the      *)
(* safety properties cover both, because no action is forced to happen.    *)
(***************************************************************************)
EXTENDS Naturals, FiniteSets

CONSTANTS
  Coros,          \* coordinators, each with its own caller_id
  Keys,           \* (table, key) pairs
  Buckets,        \* buckets of the primary tables
  BucketOf,       \* the bucket of a key at its primary
  MachineOf,      \* the primary machine of a bucket
  NumBackups,     \* mappings->num_backups
  MaxMsgCoro,     \* RPC_MAX_MSG_CORO
  MultiWorker,    \* TRUE iff a machine runs more than one worker thread
  StaleVersions,  \* versions that left-over bytes of a response may spell, at most
  Populated,      \* the keys inserted before the first transaction
  Batches,        \* what an application may add before a do_read(): records
                  \* of the keys to read and the keys to write, with modes
  MaxTxns,        \* bound: MaxTxns[c] transactions are started by c
  NoCaller,       \* kInvalidCallerId
  Absent,         \* a key that is not in the table
  Initial,        \* the value a populated key starts with
  ItemBytes       \* the bytes of a tx_rwset_item_t from its obj pointer on

Replicas == 0 .. NumBackups        \* replica 0 is the primary
Modes == {"update", "insert", "del"}

\* A written value is named after the transaction that wrote it.
Written == Coros \X Nat
Vals == Written \cup {Absent, Initial}

ASSUME ConstAssumption ==
  /\ BucketOf \in [Keys -> Buckets]
  /\ IsFiniteSet(Keys)
  /\ NumBackups \in Nat
  /\ MaxMsgCoro \in Nat
  /\ MultiWorker \in BOOLEAN
  /\ StaleVersions \subseteq Nat
  /\ Populated \subseteq Keys
  /\ \A p \in Batches :
       /\ p.rd \cup DOMAIN p.wr \subseteq Keys
       /\ p.rd \cap DOMAIN p.wr = {}
       /\ p.rd \cup DOMAIN p.wr # {}
       /\ p.wr \in [DOMAIN p.wr -> Modes]
  /\ MaxTxns \in [Coros -> Nat]
  /\ NoCaller \notin Coros
  /\ Coros \cap Vals = {}
  /\ {Absent, Initial} \cap Written = {}
  /\ Absent # Initial

\* What Tx::log() asserts before it sends a request to every log machine.
ASSUME LogAssumption == NumBackups <= MaxMsgCoro

VARIABLES
  \* Bucket headers of the primary tables: timestamp = 2 * version + locked.
  version, locker, numLocks,
  store,          \* store[r][k]: the value of k at its replica r
  logRecord,      \* logRecord[r][c]: the slot of c at its r-th log machine
  \* The Tx object of each coordinator.
  status, pc, rs, ws, mode, execExists, execVersion, execWsLocked, obj,
  txn,            \* transactions started so far; names the written values
  \* The request batch of each coordinator.
  pend,           \* requests on the wire: pairs <<replica, key>>
  pendLog,        \* log requests on the wire: log replicas
  repl,           \* the last backup that the current batch updates
  resp,           \* responses of the current batch
  snap            \* auxiliary: what the primaries held when commit() began

bucketVars == <<version, locker, numLocks>>
itemVars == <<rs, ws, mode, execExists, execVersion, execWsLocked, obj, txn>>
vars == <<bucketVars, store, logRecord, status, pc, itemVars, pend, pendLog,
          repl, resp, snap>>

NoResp == [type |-> "none", ver |-> 0, val |-> Absent]
NoRecord == [txn |-> 0, entries |-> {}]
RespTypes == {"none", "success", "not_found", "exists", "locked"}

-----------------------------------------------------------------------------
(* The bucket lock (fixedtable_impl/lock.h).                               *)

\* Is k in the primary table?
Exists(k) == store[0][k] # Absent

\* Mutant: the compare-and-swap of lock_bucket_ptr() always succeeds.
CanLock_Always(c, b) == c \in Coros /\ b \in Buckets

\* lock_bucket_ptr() succeeds on a free bucket, or on one this caller holds.
CanLock(c, b) == locker[b] \in {NoCaller, c}

LockBucket(c, b) ==
  /\ locker' = [locker EXCEPT ![b] = c]
  /\ numLocks' = [numLocks EXCEPT ![b] = @ + 1]
  /\ UNCHANGED version

\* Mutant: the first unlock frees the bucket; num_locks is not counted down.
UnlockBucket_First(b) ==
  /\ numLocks' = [numLocks EXCEPT ![b] = 0]
  /\ locker' = [locker EXCEPT ![b] = NoCaller]
  /\ version' = [version EXCEPT ![b] = @ + 1]

\* Mutant: the lock bit is cleared by a decrement, so the version stays.
UnlockBucket_SameVersion(b) ==
  /\ numLocks' = [numLocks EXCEPT ![b] = @ - 1]
  /\ locker' = [locker EXCEPT ![b] = IF numLocks[b] = 1 THEN NoCaller ELSE @]
  /\ UNCHANGED version

\* unlock_bucket_ptr(): the last unlock frees the bucket and moves its version.
UnlockBucket(b) ==
  /\ numLocks' = [numLocks EXCEPT ![b] = @ - 1]
  /\ locker' = [locker EXCEPT ![b] = IF numLocks[b] = 1 THEN NoCaller ELSE @]
  /\ version' = [version EXCEPT ![b] = IF numLocks[b] = 1 THEN @ + 1 ELSE @]

\* lock_bucket_ptr() directly followed by unlock_bucket_ptr().
LockAndUnlockBucket(b) ==
  /\ version' = [version EXCEPT ![b] = IF locker[b] = NoCaller THEN @ + 1 ELSE @]
  /\ UNCHANGED <<locker, numLocks>>

-----------------------------------------------------------------------------
(* The datastore and logger RPC handlers.                                  *)

\* The response to a request of the current batch reaches its coordinator.
Respond(c, k, type, ver, val) ==
  /\ pend' = [pend EXCEPT ![c] = @ \ {<<0, k>>}]
  /\ resp' = [resp EXCEPT ![c][k] = [type |-> type, ver |-> ver, val |-> val]]
  /\ UNCHANGED <<store, logRecord, status, pc, itemVars, pendLog, repl, snap>>

\* get() reads an unlocked bucket, or one that the caller itself has locked.
\* In the second case a missing key leaves the response's header unwritten, so
\* the caller is sent the bytes that the response buffer held before.  They are
\* any version of StaleVersions here; module RespBuffer follows them.
GetAnswer(c, k) ==
  LET b == BucketOf[k] IN
  /\ CanLock(c, b)
  /\ \/ /\ Exists(k)
        /\ Respond(c, k, "success", version[b], store[0][k])
     \/ /\ ~Exists(k)
        /\ \E v \in IF locker[b] = c THEN StaleVersions ELSE {version[b]} :
             Respond(c, k, "not_found", v, Absent)

\* Another caller holds the bucket, or another thread's handler changed the
\* timestamp while this one ran.
GetLocked(c, k) ==
  /\ locker[BucketOf[k]] # c
  /\ MultiWorker \/ locker[BucketOf[k]] # NoCaller
  /\ Respond(c, k, "locked", 0, Absent)

\* ds_reqtype_t::get_rdonly
GetRdonly(c, k) ==
  /\ pc[c] \in {"read", "validate"}
  /\ k \in rs[c]
  /\ <<0, k>> \in pend[c]
  /\ GetAnswer(c, k) \/ GetLocked(c, k)
  /\ UNCHANGED bucketVars

\* A batch lists its reads before its lock requests, and the handler of a
\* machine takes the requests of a coalesced message in order.
ReadsDone(c, k) ==
  \A j \in rs[c] : <<0, j>> \in pend[c] =>
    MachineOf[BucketOf[j]] # MachineOf[BucketOf[k]]

LockRequested(c, k) ==
  /\ pc[c] = "read"
  /\ k \in ws[c]
  /\ <<0, k>> \in pend[c]
  /\ ReadsDone(c, k)

\* ds_reqtype_t::get_for_upd, for the keys to update or delete
GetForUpd(c, k) ==
  LET b == BucketOf[k] IN
  /\ LockRequested(c, k)
  /\ mode[c][k] # "insert"
  /\ CanLock(c, b)
  /\ \/ /\ Exists(k)
        /\ LockBucket(c, b)
        /\ Respond(c, k, "success", version[b], store[0][k])
     \/ /\ ~Exists(k)
        /\ LockAndUnlockBucket(b)
        /\ Respond(c, k, "not_found", 0, Absent)

\* ds_reqtype_t::lock_for_ins, for the keys to insert
LockForIns(c, k) ==
  LET b == BucketOf[k] IN
  /\ LockRequested(c, k)
  /\ mode[c][k] = "insert"
  /\ CanLock(c, b)
  /\ \/ /\ ~Exists(k)
        /\ LockBucket(c, b)
        /\ Respond(c, k, "success", version[b], Absent)
     \/ /\ Exists(k)
        /\ LockAndUnlockBucket(b)
        /\ Respond(c, k, "exists", 0, Absent)

\* Mutant: a lock request for a bucket that another caller holds is kept waiting.
LockRefused_Waits(c, k) ==
  /\ LockRequested(c, k)
  /\ CanLock(c, BucketOf[k])
  /\ GetLocked(c, k)
  /\ UNCHANGED bucketVars

\* Either lock request fails when another caller has the bucket, or when its
\* compare-and-swap meets a timestamp that another thread has just moved.
LockRefused(c, k) ==
  /\ LockRequested(c, k)
  /\ GetLocked(c, k)
  /\ UNCHANGED bucketVars

\* The value that transaction c writes to k.
NewVal(c, k) == IF mode[c][k] = "del" THEN Absent ELSE <<c, txn[c]>>

\* ds_reqtype_t::put and ds_reqtype_t::del.  At the primary each one releases
\* one lock of the bucket; at a backup no lock is looked at.
Update(c, r, k) ==
  /\ pc[c] \in {"backup", "primary"}
  /\ <<r, k>> \in pend[c]
  /\ store' = [store EXCEPT ![r][k] = NewVal(c, k)]
  /\ IF r = 0 THEN UnlockBucket(BucketOf[k]) ELSE UNCHANGED bucketVars
  /\ pend' = [pend EXCEPT ![c] = @ \ {<<r, k>>}]
  /\ UNCHANGED <<logRecord, status, pc, itemVars, pendLog, repl, resp, snap>>

\* ds_reqtype_t::unlock
Unlock(c, k) ==
  /\ pc[c] = "abort"
  /\ <<0, k>> \in pend[c]
  /\ UnlockBucket(BucketOf[k])
  /\ pend' = [pend EXCEPT ![c] = @ \ {<<0, k>>}]
  /\ UNCHANGED <<store, logRecord, status, pc, itemVars, pendLog, repl, resp, snap>>

\* What Tx::log() serializes for k: the memcpy starts at the address of the
\* pointer item.obj, so the entry holds the item's own bytes.
LoggedObj(c, k) == ItemBytes

LogRecord(c) ==
  [txn |-> txn[c], entries |-> {<<k, LoggedObj(c, k)>> : k \in ws[c]}]

\* logger_rpc_handler(): the record replaces the one in the coroutine's slot.
SaveLogRecord(c, r) ==
  /\ r \in pendLog[c]
  /\ logRecord' = [logRecord EXCEPT ![r][c] = LogRecord(c)]
  /\ pendLog' = [pendLog EXCEPT ![c] = @ \ {r}]
  /\ UNCHANGED <<bucketVars, store, status, pc, itemVars, pend, repl, resp, snap>>

-----------------------------------------------------------------------------
(* The coordinator (tx.h, tx_execute.h, tx_commit.h, tx_logger.h).         *)

\* Blocked in tx_yield() until every response of the batch is in.
BatchDone(c, phase) ==
  /\ pc[c] = phase
  /\ pend[c] = {}
  /\ pendLog[c] = {}

Running(c) == pc[c] = "run"

\* The batch that Tx::do_read() sends for the keys p, added after the reads rd
\* and the writes wr.  A key enters a transaction once, and the keys of a whole
\* transaction fit one batch.
SendRead(c, rd, wr, p) ==
  LET added == p.rd \cup DOMAIN p.wr IN
  /\ added \cap (rd \cup wr) = {}
  /\ Cardinality(added \cup rd \cup wr) <= MaxMsgCoro
  /\ rs' = [rs EXCEPT ![c] = rd \cup p.rd]
  /\ ws' = [ws EXCEPT ![c] = wr \cup DOMAIN p.wr]
  /\ mode' = [mode EXCEPT ![c] =
       [k \in Keys |-> IF k \in DOMAIN p.wr THEN p.wr[k] ELSE @[k]]]
  /\ pend' = [pend EXCEPT ![c] = {0} \X added]
  /\ pc' = [pc EXCEPT ![c] = "read"]
  /\ UNCHANGED <<bucketVars, store, logRecord, pendLog, repl, resp>>

\* start(), the add_to_*_set() calls of the application, do_read()
Start(c) ==
  /\ Running(c)
  /\ status[c] \in {"committed", "aborted"}
  /\ txn[c] < MaxTxns[c]
  /\ \E p \in Batches : SendRead(c, {}, {}, p)
  /\ status' = [status EXCEPT ![c] = "in_progress"]
  /\ txn' = [txn EXCEPT ![c] = @ + 1]
  /\ execExists' = [execExists EXCEPT ![c] = {}]
  /\ execVersion' = [execVersion EXCEPT ![c] = [k \in Keys |-> 0]]
  /\ execWsLocked' = [execWsLocked EXCEPT ![c] = {}]
  /\ obj' = [obj EXCEPT ![c] = [k \in Keys |-> Absent]]
  /\ snap' = [snap EXCEPT ![c] = [k \in Keys |-> Absent]]

\* A later phase of the same transaction: more keys, and do_read() again.
ReadMore(c) ==
  /\ Running(c)
  /\ status[c] = "in_progress"
  /\ \E p \in Batches : SendRead(c, rs[c], ws[c], p)
  /\ UNCHANGED <<status, txn, execExists, execVersion, execWsLocked, obj, snap>>

\* The responses of a do_read(), by key.
Answered(c, type) == {k \in Keys : resp[c][k].type = type}

\* do_read() after its yield.
ReadDone(c) ==
  LET read == (Answered(c, "success") \cup Answered(c, "not_found")) \cap rs[c]
      got == Answered(c, "success")
      failed == Answered(c, "locked")
                  \cup ((Answered(c, "exists") \cup Answered(c, "not_found")) \cap ws[c])
  IN
  /\ BatchDone(c, "read")
  /\ execExists' = [execExists EXCEPT ![c] = @ \cup (got \cap rs[c])]
  /\ execVersion' = [execVersion EXCEPT ![c] =
       [k \in Keys |-> IF k \in read THEN resp[c][k].ver ELSE @[k]]]
  /\ execWsLocked' = [execWsLocked EXCEPT ![c] = @ \cup (got \cap ws[c])]
  /\ obj' = [obj EXCEPT ![c] =
       [k \in Keys |-> IF k \in got THEN resp[c][k].val ELSE @[k]]]
  /\ status' = [status EXCEPT ![c] = IF failed = {} THEN @ ELSE "must_abort"]
  /\ pc' = [pc EXCEPT ![c] = "run"]
  /\ resp' = [resp EXCEPT ![c] = [k \in Keys |-> NoResp]]
  /\ UNCHANGED <<bucketVars, store, logRecord, rs, ws, mode, txn, pend, pendLog, repl, snap>>

\* commit_single_read(): one key read, nothing to validate.
CommitSingleRead(c) ==
  /\ Running(c)
  /\ status[c] = "in_progress"
  /\ Cardinality(rs[c]) = 1 /\ ws[c] = {}
  /\ status' = [status EXCEPT ![c] = "committed"]
  /\ UNCHANGED <<bucketVars, store, logRecord, pc, itemVars, pend, pendLog, repl, resp, snap>>

\* abort_rdonly(): nothing is locked, so nothing is sent.
AbortRdonly(c) ==
  /\ Running(c)
  /\ status[c] \in {"in_progress", "must_abort"}
  /\ ws[c] = {}
  /\ status' = [status EXCEPT ![c] = "aborted"]
  /\ UNCHANGED <<bucketVars, store, logRecord, pc, itemVars, pend, pendLog, repl, resp, snap>>

-----------------------------------------------------------------------------
(* The batches that commit() and abort() send.  Each operator sets status, *)
(* pc, pend, pendLog and repl.                                             *)

Send(c, phase, requests) ==
  /\ pc' = [pc EXCEPT ![c] = phase]
  /\ pend' = [pend EXCEPT ![c] = requests]
  /\ UNCHANGED <<status, pendLog>>

\* send_updates_to_replicas(), for the primary
SendPrimary(c) ==
  /\ Send(c, "primary", {0} \X ws[c])
  /\ UNCHANGED repl

\* Mutant: the size of the write set is compared, not the number of messages.
BackupsInOneBatch_KeysOnly(c) == Cardinality(ws[c]) <= MaxMsgCoro

\* One batch for all backups if it fits, else a batch per backup in turn.
BackupsInOneBatch(c) == Cardinality(ws[c]) * NumBackups <= MaxMsgCoro

SendBackups(c, r) ==
  IF BackupsInOneBatch(c)
  THEN /\ Send(c, "backup", (1 .. NumBackups) \X ws[c])
       /\ repl' = [repl EXCEPT ![c] = NumBackups]
  ELSE /\ Send(c, "backup", {r} \X ws[c])
       /\ repl' = [repl EXCEPT ![c] = r]

\* Mutant: commit() does not wait for the log.
SendLog_Skipped(c) == IF NumBackups = 0 THEN SendPrimary(c) ELSE SendBackups(c, 1)

\* Tx::log(), skipped without backups.
SendLog(c) ==
  IF NumBackups = 0 THEN SendPrimary(c) ELSE
    /\ pc' = [pc EXCEPT ![c] = "log"]
    /\ pendLog' = [pendLog EXCEPT ![c] = 1 .. NumBackups]
    /\ UNCHANGED <<status, pend, repl>>

Finish(c, outcome) ==
  /\ status' = [status EXCEPT ![c] = outcome]
  /\ pc' = [pc EXCEPT ![c] = "run"]
  /\ UNCHANGED <<pend, pendLog, repl>>

\* Mutant: abort() does not look at exec_ws_locked.
SendAbort_All(c) ==
  IF ws[c] = {} THEN Finish(c, "aborted") ELSE
    /\ status' = [status EXCEPT ![c] = "aborted"]
    /\ pc' = [pc EXCEPT ![c] = "abort"]
    /\ pend' = [pend EXCEPT ![c] = {0} \X ws[c]]
    /\ UNCHANGED <<pendLog, repl>>

\* Mutant: abort() sends no unlock request.
SendAbort_NoUnlock(c) == Finish(c, "aborted")

\* Tx::abort(): unlock what do_read() locked; with nothing locked, no message.
SendAbort(c) ==
  IF execWsLocked[c] = {} THEN Finish(c, "aborted") ELSE
    /\ status' = [status EXCEPT ![c] = "aborted"]
    /\ pc' = [pc EXCEPT ![c] = "abort"]
    /\ pend' = [pend EXCEPT ![c] = {0} \X execWsLocked[c]]
    /\ UNCHANGED <<pendLog, repl>>

Abort(c) ==
  /\ Running(c)
  /\ status[c] \in {"in_progress", "must_abort"}
  /\ SendAbort(c)
  /\ UNCHANGED <<bucketVars, store, logRecord, itemVars, resp, snap>>

AbortDone(c) ==
  /\ BatchDone(c, "abort")
  /\ pc' = [pc EXCEPT ![c] = "run"]
  /\ UNCHANGED <<bucketVars, store, logRecord, status, itemVars, pend, pendLog, repl, resp, snap>>

\* Auxiliary: the primary's value of every key, with the keys of a bucket that
\* another coordinator has locked marked by that coordinator.
Snapshot(c) ==
  [k \in Keys |-> IF CanLock(c, BucketOf[k]) THEN store[0][k] ELSE locker[BucketOf[k]]]

\* Tx::validate(): read the whole read set again.
SendValidate(c) ==
  /\ Send(c, "validate", {0} \X rs[c])
  /\ UNCHANGED repl

\* commit(): validate a non-empty read set, else go straight to the log.
Commit(c) ==
  /\ Running(c)
  /\ status[c] = "in_progress"
  /\ IF rs[c] # {} THEN SendValidate(c) ELSE SendLog(c)
  /\ snap' = [snap EXCEPT ![c] = Snapshot(c)]
  /\ UNCHANGED <<bucketVars, store, logRecord, itemVars, resp>>

\* Mutant: validate() compares existence only.
Unchanged_AnyVersion(c, k) ==
  resp[c][k].type = IF k \in execExists[c] THEN "success" ELSE "not_found"

\* The check of Tx::validate(): the key is where it was, at the same version.
\* The lock bit of the header is not compared.
Unchanged(c, k) ==
  /\ resp[c][k].type = IF k \in execExists[c] THEN "success" ELSE "not_found"
  /\ resp[c][k].ver = execVersion[c][k]

Valid(c) == \A k \in rs[c] : Unchanged(c, k)

\* Mutant: commit() returns after a failed validation without calling abort().
ValidateDone_NoAbort(c) ==
  /\ BatchDone(c, "validate")
  /\ IF ~Valid(c) THEN Finish(c, "aborted")
     ELSE IF ws[c] = {} THEN Finish(c, "committed") ELSE SendLog(c)
  /\ resp' = [resp EXCEPT ![c] = [k \in Keys |-> NoResp]]
  /\ UNCHANGED <<bucketVars, store, logRecord, itemVars, snap>>

ValidateDone(c) ==
  /\ BatchDone(c, "validate")
  /\ IF ~Valid(c) THEN SendAbort(c)
     ELSE IF ws[c] = {} THEN Finish(c, "committed") ELSE SendLog(c)
  /\ resp' = [resp EXCEPT ![c] = [k \in Keys |-> NoResp]]
  /\ UNCHANGED <<bucketVars, store, logRecord, itemVars, snap>>

\* Mutant: the primary is updated before, not after, the backups.
LogDone_PrimaryFirst(c) ==
  /\ BatchDone(c, "log")
  /\ SendPrimary(c)
  /\ UNCHANGED <<bucketVars, store, logRecord, itemVars, resp, snap>>

LogDone(c) ==
  /\ BatchDone(c, "log")
  /\ SendBackups(c, 1)
  /\ UNCHANGED <<bucketVars, store, logRecord, itemVars, resp, snap>>

\* Mutant: the loop over the backups ends one too early.
BackupDone_OffByOne(c) ==
  /\ BatchDone(c, "backup")
  /\ IF repl[c] + 1 < NumBackups THEN SendBackups(c, repl[c] + 1) ELSE SendPrimary(c)
  /\ UNCHANGED <<bucketVars, store, logRecord, itemVars, resp, snap>>

BackupDone(c) ==
  /\ BatchDone(c, "backup")
  /\ IF repl[c] < NumBackups THEN SendBackups(c, repl[c] + 1) ELSE SendPrimary(c)
  /\ UNCHANGED <<bucketVars, store, logRecord, itemVars, resp, snap>>

PrimaryDone(c) ==
  /\ BatchDone(c, "primary")
  /\ Finish(c, "committed")
  /\ UNCHANGED <<bucketVars, store, logRecord, itemVars, resp, snap>>

-----------------------------------------------------------------------------
Init ==
  /\ version = [b \in Buckets |-> 0]
  /\ locker = [b \in Buckets |-> NoCaller]
  /\ numLocks = [b \in Buckets |-> 0]
  /\ store = [r \in Replicas |->
                [k \in Keys |-> IF k \in Populated THEN Initial ELSE Absent]]
  /\ logRecord = [r \in 1 .. NumBackups |-> [c \in Coros |-> NoRecord]]
  /\ status = [c \in Coros |-> "aborted"]
  /\ pc = [c \in Coros |-> "run"]
  /\ rs = [c \in Coros |-> {}]
  /\ ws = [c \in Coros |-> {}]
  /\ mode = [c \in Coros |-> [k \in Keys |-> "update"]]
  /\ execExists = [c \in Coros |-> {}]
  /\ execVersion = [c \in Coros |-> [k \in Keys |-> 0]]
  /\ execWsLocked = [c \in Coros |-> {}]
  /\ obj = [c \in Coros |-> [k \in Keys |-> Absent]]
  /\ txn = [c \in Coros |-> 0]
  /\ pend = [c \in Coros |-> {}]
  /\ pendLog = [c \in Coros |-> {}]
  /\ repl = [c \in Coros |-> 0]
  /\ resp = [c \in Coros |-> [k \in Keys |-> NoResp]]
  /\ snap = [c \in Coros |-> [k \in Keys |-> Absent]]

Coordinator(c) ==
  \/ Start(c) \/ ReadMore(c) \/ ReadDone(c)
  \/ CommitSingleRead(c) \/ AbortRdonly(c)
  \/ Commit(c) \/ ValidateDone(c) \/ LogDone(c) \/ BackupDone(c) \/ PrimaryDone(c)
  \/ Abort(c) \/ AbortDone(c)

Server(c) ==
  \/ \E k \in Keys :
       \/ GetRdonly(c, k) \/ GetForUpd(c, k) \/ LockForIns(c, k) \/ LockRefused(c, k)
       \/ Unlock(c, k)
       \/ \E r \in Replicas : Update(c, r, k)
  \/ \E r \in 1 .. NumBackups : SaveLogRecord(c, r)

Next == \E c \in Coros : Coordinator(c) \/ Server(c)

Spec == Init /\ [][Next]_vars

\* The scheduler runs every coroutine whose batch is complete, every machine
\* polls its completion queue, and an application ends what it started.  No
\* packet is lost: the RPC layer does not retransmit.
Fairness == \A c \in Coros : WF_vars(Coordinator(c)) /\ WF_vars(Server(c))

FairSpec == Spec /\ Fairness

-----------------------------------------------------------------------------
(* Properties.                                                             *)

ItemTypes ==
  /\ rs \in [Coros -> SUBSET Keys]
  /\ ws \in [Coros -> SUBSET Keys]
  /\ mode \in [Coros -> [Keys -> Modes]]
  /\ execExists \in [Coros -> SUBSET Keys]
  /\ execVersion \in [Coros -> [Keys -> Nat]]
  /\ execWsLocked \in [Coros -> SUBSET Keys]
  /\ obj \in [Coros -> [Keys -> Vals]]
  /\ txn \in [Coros -> Nat]
  /\ snap \in [Coros -> [Keys -> Vals \cup Coros]]

BatchTypes ==
  /\ status \in [Coros -> {"in_progress", "must_abort", "committed", "aborted"}]
  /\ pc \in [Coros -> {"run", "read", "validate", "log", "backup", "primary", "abort"}]
  /\ pend \in [Coros -> SUBSET (Replicas \X Keys)]
  /\ pendLog \in [Coros -> SUBSET (1 .. NumBackups)]
  /\ repl \in [Coros -> Replicas]
  /\ resp \in [Coros -> [Keys -> [type : RespTypes, ver : Nat, val : Vals]]]

\* Every variable has its type; in particular numLocks never goes below zero,
\* which unlock_bucket_ptr() only asserts.
TypeOK ==
  /\ version \in [Buckets -> Nat]
  /\ locker \in [Buckets -> Coros \cup {NoCaller}]
  /\ numLocks \in [Buckets -> Nat]
  /\ store \in [Replicas -> [Keys -> Vals]]
  /\ logRecord \in [1 .. NumBackups -> [Coros ->
       [txn : Nat, entries : SUBSET (Keys \X (Vals \cup {ItemBytes}))]]]
  /\ ItemTypes
  /\ BatchTypes

Active(c) == status[c] \in {"in_progress", "must_abort"}

\* The keys for which c has been granted a bucket lock that no put, del or
\* unlock has given back yet.
Held(c) ==
  {k \in ws[c] :
     \/ Active(c) /\ pc[c] # "primary" /\ k \in execWsLocked[c]
     \/ pc[c] = "read" /\ resp[c][k].type = "success"
     \/ pc[c] \in {"primary", "abort"} /\ <<0, k>> \in pend[c]}

HeldIn(c, b) == {k \in Held(c) : BucketOf[k] = b}

\* The lock word of b agrees with what the coordinators hold in b.
Accounts(b) ==
  /\ \A c \in Coros : HeldIn(c, b) # {} => locker[b] = c
  /\ locker[b] = NoCaller => numLocks[b] = 0
  /\ locker[b] # NoCaller =>
       /\ HeldIn(locker[b], b) # {}
       /\ numLocks[b] = Cardinality(HeldIn(locker[b], b))

\* A bucket is locked by exactly the coordinator that holds keys in it, and
\* num_locks counts those keys: the re-entrant counting of lock_bucket_ptr()
\* and the one-lock-per-request release of put, del and unlock balance, whatever
\* way the transaction ends.
LockAccounting == \A b \in Buckets : Accounts(b)

\* What the phase of a coordinator says about its batch and its items.  With
\* LockAccounting it makes the lock invariant inductive.
Phase(c) ==
  /\ rs[c] \cap ws[c] = {}
  /\ execWsLocked[c] \subseteq ws[c]
  /\ pc[c] # "log" => pendLog[c] = {}
  /\ pc[c] \in {"log", "backup"} => NumBackups # 0
  /\ pc[c] \in {"run", "log"} => pend[c] = {}
  /\ pc[c] \notin {"read", "validate"} => resp[c] = [k \in Keys |-> NoResp]
  /\ pc[c] \in {"read", "validate", "log", "backup", "primary"} =>
       status[c] = "in_progress"
  /\ pc[c] = "abort" => status[c] = "aborted"
  /\ pc[c] # "read" /\ status[c] = "in_progress" => execWsLocked[c] = ws[c]
  /\ pc[c] = "read" =>
       /\ pend[c] \subseteq {0} \X (rs[c] \cup ws[c])
       /\ \A k \in Keys :
            /\ <<0, k>> \in pend[c] => resp[c][k].type = "none"
            /\ k \in execWsLocked[c] =>
                 <<0, k>> \notin pend[c] /\ resp[c][k].type = "none"
            /\ k \in ws[c] =>
                 \/ k \in execWsLocked[c]
                 \/ <<0, k>> \in pend[c]
                 \/ resp[c][k].type # "none"
  /\ pc[c] = "validate" => pend[c] \subseteq {0} \X rs[c]
  /\ pc[c] = "backup" => pend[c] \subseteq (1 .. NumBackups) \X ws[c]
  /\ pc[c] = "primary" => pend[c] \subseteq {0} \X ws[c]
  /\ pc[c] = "abort" => pend[c] \subseteq {0} \X execWsLocked[c]

PhaseInv == \A c \in Coros : Phase(c)

\* A coordinator that is past validation, or whose validated transaction has
\* committed.  commit_single_read() does not validate.
Validated(c) ==
  \/ pc[c] \in {"log", "backup", "primary"}
  \/ status[c] = "committed" /\ (ws[c] # {} \/ Cardinality(rs[c]) > 1)

\* Everything a transaction has read by the time validate() succeeds was true at
\* one instant, the call of commit(): each key then had the value that the
\* execution phase fetched, and no other coordinator had its bucket locked.
SnapshotReads ==
  \A c \in Coros : Validated(c) =>
    \A k \in rs[c] \cup ws[c] : snap[c][k] = obj[c][k]

\* Replicas of a key differ only while a coordinator that is writing the key
\* holds its primary bucket: commit() updates the backups before the primary,
\* and the primary's put or del is what releases the bucket.
DivergenceUnderLock ==
  \A k \in Keys : \A r \in Replicas : store[r][k] # store[0][k] =>
    \E c \in Coros :
      /\ pc[c] \in {"backup", "primary"}
      /\ <<0, k>> \in pend[c] \/ pc[c] = "backup"
      /\ k \in Held(c)
      /\ store[r][k] = NewVal(c, k)

\* While replicas of a key differ, every log machine of the coordinator that is
\* writing it stores a record of this very transaction that names the key: no
\* slot is reused before the update it describes is on all replicas.
DivergenceLogged ==
  \A k \in Keys : \A r \in Replicas : store[r][k] # store[0][k] =>
    \E c \in Coros :
      /\ locker[BucketOf[k]] = c
      /\ \A l \in 1 .. NumBackups :
           /\ logRecord[l][c].txn = txn[c]
           /\ \E e \in logRecord[l][c].entries : e[1] = k

\* set() and del() at a backup take no lock.  They need none: two coordinators
\* never have updates under way at replicas of the same bucket.
BackupWritersExclusive ==
  \A c, d \in Coros : \A p \in pend[c], q \in pend[d] :
    /\ c # d
    /\ pc[c] \in {"backup", "primary"}
    /\ pc[d] \in {"backup", "primary"}
    => BucketOf[p[2]] # BucketOf[q[2]]

\* An aborted transaction leaves no trace at any replica or in any log, and
\* holds no bucket once abort() has returned.
AbortLeavesNoTrace ==
  \A c \in Coros : status[c] = "aborted" =>
    /\ \A r \in Replicas, k \in Keys : store[r][k] # <<c, txn[c]>>
    /\ txn[c] > 0 => \A l \in 1 .. NumBackups : logRecord[l][c].txn # txn[c]
    /\ pc[c] = "run" => \A b \in Buckets : locker[b] # c

\* No phase of a transaction overruns an array that is sized for one batch: the
\* requests of a coroutine on the wire, those to several backups or to the log
\* machines included, fit the RPC_MAX_MSG_CORO entries of its RPC batch, and
\* num_locks of a bucket stays within as many, where its five bits have room.
BatchesFit ==
  /\ \A c \in Coros : Cardinality(pend[c]) + Cardinality(pendLog[c]) <= MaxMsgCoro
  /\ \A b \in Buckets : numLocks[b] <= MaxMsgCoro

\* A step keeps the version of k's bucket an account of its contents.
KeyVersioned(k) ==
  LET b == BucketOf[k] IN
  /\ version'[b] >= version[b]
  /\ store'[0][k] # store[0][k] =>
       /\ locker[b] # NoCaller
       /\ store'[0][k] \in {Absent, <<locker[b], txn[locker[b]]>>}
       /\ locker'[b] = locker[b] \/ version'[b] > version[b]

\* A version names the contents of a bucket: a primary value changes only under
\* the lock of the coordinator that writes it, and the step that frees the
\* bucket moves its version on.  This is what validate() relies on when it
\* compares versions instead of values.
VersionedWrites == [][\A k \in Keys : KeyVersioned(k)]_vars

\* No bucket stays locked for ever: every phase that holds locks ends, because
\* no coordinator ever waits for a lock that another one holds.
LocksReleased ==
  \A b \in Buckets : (locker[b] # NoCaller) ~> (locker[b] = NoCaller)

\* What the comment on Tx::log()'s memcpy says: the record holds the objects.
LogHoldsObjects ==
  \A c \in Coros : pc[c] = "backup" =>
    \A l \in 1 .. NumBackups : \A k \in ws[c] :
      <<k, NewVal(c, k)>> \in logRecord[l][c].entries
=============================================================================
