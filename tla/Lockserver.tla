----------------------------- MODULE Lockserver -----------------------------
(***************************************************************************)
(* The lock server (src/lockserver/lockserver.h) and the coordinators that *)
(* use it (src/tx/tx_lockserver.h, the TX_ENABLE_LOCK_SERVER branches of   *)
(* src/tx).  A coordinator asks for all its locks in one request, the      *)
(* write set first.  The server takes them one at a time, each under a     *)
(* spinlock of its own, and gives back what it took when one is refused.   *)
(*                                                                         *)
(* Keys are represented by the locks they hash to, so two keys of a        *)
(* request may have the same lock.  The coordinators are on different      *)
(* workers: their requests are handled by different server threads.        *)
(***************************************************************************)
EXTENDS Integers, Sequences, FiniteSets

CONSTANTS
  Coros,        \* the requesters, hots_glbl_crid_t
  Locks,        \* lock_arr
  MaxKeys,      \* RPC_MAX_MSG_CORO: keys in a request
  Sizes,        \* Sizes[c]: how many keys the transactions of c have
  None          \* an exclusive_owner that was never set

ASSUME LockAssumption ==
  /\ IsFiniteSet(Coros)
  /\ MaxKeys \in Nat
  /\ Sizes \in [Coros -> SUBSET (1 .. MaxKeys)]
  /\ None \notin Coros

VARIABLES
  mode, counter, owner,  \* locksrv_lock_t: lock_mode, counter, exclusive_owner
  phase,        \* where the transaction of a requester is
  keys,         \* key_arr of its request
  at            \* how many of the keys, from the first, it has locked

lockArr == <<mode, counter, owner>>
vars == <<lockArr, phase, keys, at>>

Entries == [lock : Locks, exclusive : BOOLEAN]

\* Mutant: the read set comes first.
WriteSetFirst_Not(k) ==
  \A i, j \in DOMAIN k : i < j /\ k[j].exclusive => ~k[i].exclusive

\* send_lockserver_req() adds the write set, then the read set.
WriteSetFirst(k) ==
  \A i, j \in DOMAIN k : i < j /\ k[j].exclusive => k[i].exclusive

Requests(c) ==
  {k \in UNION {[1 .. n -> Entries] : n \in Sizes[c]} : WriteSetFirst(k)}

Init ==
  /\ mode = [l \in Locks |-> "unlocked"]
  /\ counter = [l \in Locks |-> 0]
  /\ owner = [l \in Locks |-> None]
  /\ phase = [c \in Coros |-> "none"]
  /\ keys = [c \in Coros |-> <<>>]
  /\ at = [c \in Coros |-> 0]

-----------------------------------------------------------------------------
(* lock() and unlock() of one key, under its spinlock.                     *)

\* Mutant: any requester may share a lock that is held exclusively.
Grantable_SharedAlways(c, e) ==
  \/ mode[e.lock] = "unlocked"
  \/ mode[e.lock] = "exclusive" /\ (owner[e.lock] = c \/ ~e.exclusive)
  \/ mode[e.lock] = "shared" /\ ~e.exclusive

\* Mutant: an exclusive lock is re-acquired without a look at its owner.
Grantable_AnyOwner(c, e) ==
  \/ mode[e.lock] \in {"unlocked", "exclusive"}
  \/ mode[e.lock] = "shared" /\ ~e.exclusive

Grantable(c, e) ==
  \/ mode[e.lock] = "unlocked"
  \/ mode[e.lock] = "exclusive" /\ owner[e.lock] = c
  \/ mode[e.lock] = "shared" /\ ~e.exclusive

\* Mutant: a lock that its owner holds already is not counted again.
Acquire_Once(c, e) ==
  IF mode[e.lock] = "exclusive" THEN UNCHANGED lockArr
  ELSE /\ counter' = [counter EXCEPT ![e.lock] = @ + 1]
       /\ mode' = [mode EXCEPT ![e.lock] = IF e.exclusive THEN "exclusive" ELSE "shared"]
       /\ owner' = [owner EXCEPT ![e.lock] = IF e.exclusive THEN c ELSE @]

\* The effect of a lock() that succeeds.
Acquire(c, e) ==
  /\ counter' = [counter EXCEPT ![e.lock] = @ + 1]
  /\ IF mode[e.lock] = "unlocked"
     THEN /\ mode' = [mode EXCEPT ![e.lock] = IF e.exclusive THEN "exclusive" ELSE "shared"]
          /\ owner' = [owner EXCEPT ![e.lock] = IF e.exclusive THEN c ELSE @]
     ELSE UNCHANGED <<mode, owner>>

\* What unlock() asserts in debug builds; a shared unlock of an unlocked lock ends
\* the process in every build.
Asserted(c, e) ==
  /\ counter[e.lock] > 0
  /\ \/ mode[e.lock] = "exclusive" /\ owner[e.lock] = c
     \/ mode[e.lock] = "shared" /\ ~e.exclusive

\* unlock(), decrement_and_unlock_if_zero().
Release(e) ==
  /\ e.exclusive \/ mode[e.lock] # "unlocked"
  /\ counter' = [counter EXCEPT ![e.lock] = @ - 1]
  /\ mode' = [mode EXCEPT ![e.lock] = IF counter[e.lock] = 1 THEN "unlocked" ELSE @]
  /\ UNCHANGED owner

-----------------------------------------------------------------------------
(* The coordinator.                                                        *)

\* start() and the transaction's do_read(), which sends the lock request.
DoRead(c) ==
  /\ phase[c] = "none"
  /\ \E k \in Requests(c) : keys' = [keys EXCEPT ![c] = k]
  /\ phase' = [phase EXCEPT ![c] = "lock"]
  /\ UNCHANGED <<lockArr, at>>

\* With the locks granted (lockserver_locked), commit() or abort() sends the
\* unlock request.
Finish(c) ==
  /\ phase[c] = "held"
  /\ phase' = [phase EXCEPT ![c] = "unlock"]
  /\ UNCHANGED <<lockArr, keys, at>>

\* abort() of a transaction that must abort: the server holds nothing for it.
AbortRefused(c) ==
  /\ phase[c] = "refused"
  /\ phase' = [phase EXCEPT ![c] = "none"]
  /\ keys' = [keys EXCEPT ![c] = <<>>]
  /\ UNCHANGED <<lockArr, at>>

-----------------------------------------------------------------------------
(* lockserver_rpc_handler(), one key per step.                             *)

\* Mutant: undoing starts with the key that was refused.
Refused_WithKey(c) == at' = [at EXCEPT ![c] = @ + 1] /\ phase' = [phase EXCEPT ![c] = "undo"]

\* The request fails at once if no key is to be unlocked.
Refused(c) ==
  /\ UNCHANGED at
  /\ phase' = [phase EXCEPT ![c] = IF at[c] = 0 THEN "refused" ELSE "undo"]

LockNext(c) ==
  LET e == keys[c][at[c] + 1] IN
  /\ phase[c] = "lock"
  /\ IF Grantable(c, e)
     THEN /\ Acquire(c, e)
          /\ at' = [at EXCEPT ![c] = @ + 1]
          /\ phase' = [phase EXCEPT ![c] = IF at[c] + 1 = Len(keys[c]) THEN "held" ELSE @]
     ELSE Refused(c) /\ UNCHANGED lockArr
  /\ UNCHANGED keys

\* Mutant: the server tries again instead of refusing the request.
Undone_Retry(c) == phase' = [phase EXCEPT ![c] = IF at[c] = 1 THEN "lock" ELSE @]

\* The key being unlocked is the last one to undo.
Undone(c) == phase' = [phase EXCEPT ![c] = IF at[c] = 1 THEN "refused" ELSE @]

UndoNext(c) ==
  /\ phase[c] = "undo"
  /\ Release(keys[c][at[c]])
  /\ at' = [at EXCEPT ![c] = @ - 1]
  /\ Undone(c)
  /\ UNCHANGED keys

UnlockNext(c) ==
  /\ phase[c] = "unlock"
  /\ Release(keys[c][at[c]])
  /\ at' = [at EXCEPT ![c] = @ - 1]
  /\ phase' = [phase EXCEPT ![c] = IF at[c] = 1 THEN "none" ELSE @]
  /\ keys' = [keys EXCEPT ![c] = IF at[c] = 1 THEN <<>> ELSE @]

Handler(c) == LockNext(c) \/ UndoNext(c) \/ UnlockNext(c)

Next == \E c \in Coros : DoRead(c) \/ Finish(c) \/ AbortRefused(c) \/ Handler(c)

Spec == Init /\ [][Next]_vars

\* A server thread does not stop in the middle of a request.
FairSpec == Spec /\ \A c \in Coros : WF_vars(Handler(c))

-----------------------------------------------------------------------------
(* Properties.                                                             *)

\* Every variable has its type.
TypeOK ==
  /\ mode \in [Locks -> {"unlocked", "exclusive", "shared"}]
  /\ counter \in [Locks -> Nat]
  /\ owner \in [Locks -> Coros \cup {None}]
  /\ phase \in [Coros -> {"none", "lock", "undo", "refused", "held", "unlock"}]
  /\ keys \in [Coros -> Seq(Entries)]
  /\ \A c \in Coros : keys[c] \in Requests(c) \cup {<<>>}
  /\ at \in [Coros -> 0 .. MaxKeys]

\* The keys of all requests that have lock l.
Holders(l) ==
  {h \in Coros \X (1 .. MaxKeys) : h[2] <= at[h[1]] /\ keys[h[1]][h[2]].lock = l}

\* counter is the number of keys that are locked, a lock is free exactly when it is
\* zero, and nothing is held for a requester whose request was refused or is over.
CountersMatch ==
  /\ \A l \in Locks : /\ counter[l] = Cardinality(Holders(l))
                      /\ mode[l] = "unlocked" <=> counter[l] = 0
  /\ \A c \in Coros : phase[c] \in {"none", "refused"} => at[c] = 0

\* unlock(), on every path that calls it, finds the lock in a mode and with an owner
\* that let the requester unlock this key: what its debug assertions say, though a
\* key that shares a lock with another one is unlocked in a mode it did not ask for.
UnlockMatches ==
  \A c \in Coros : phase[c] \in {"undo", "unlock"} => Asserted(c, keys[c][at[c]])

\* The comment in lock(): a requester that finds the lock of an exclusive key
\* shared is not one of the sharers, because exclusive locks are taken first.
ExclusiveFirst ==
  \A c \in Coros : phase[c] = "lock" =>
    LET e == keys[c][at[c] + 1] IN
    e.exclusive /\ mode[e.lock] = "shared" =>
      \A i \in 1 .. at[c] : keys[c][i].lock # e.lock

\* The handler takes and gives back locks one by one, next to other handlers, and
\* the coordinators see a server that grants a request as a whole or not at all.
granted ==
  [c \in Coros |-> IF phase[c] = "held"
                   THEN {<<keys[c][i].lock, keys[c][i].exclusive>> : i \in DOMAIN keys[c]}
                   ELSE {}]
Atomic == INSTANCE AtomicLocks WITH held <- granted

ImplementsAtomicLocks == Atomic!Spec

\* Every request is answered: a handler never waits for a lock of another request,
\* so requests that meet in opposite orders are refused, not blocked.
RequestsAnswered ==
  \A c \in Coros : phase[c] \in {"lock", "undo", "unlock"} ~> phase[c] \in {"held", "refused", "none"}
=============================================================================
