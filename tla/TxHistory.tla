----------------------------- MODULE TxHistory -----------------------------
(***************************************************************************)
(* The history of the transactions that module Tx runs.  hist lists the    *)
(* calls of commit() in the order in which they are made, passed names the *)
(* transactions that commit() has let through.  These, replayed in that    *)
(* order on an ordinary map, must explain every value that one of them has *)
(* read and every value that the replicas hold.  A call of commit() lies   *)
(* between the start and the end of its transaction, so this order also    *)
(* respects real time.                                                     *)
(***************************************************************************)
EXTENDS Tx, Sequences

VARIABLES
  hist,           \* the calls of commit()
  passed          \* the transactions that need no validation or have passed it

hvars == <<vars, hist, passed>>

\* The call of commit() that c has made or is about to make.
Entry(c) ==
  [c |-> c, txn |-> txn[c],
   read |-> [k \in rs[c] \cup ws[c] |-> obj[c][k]],
   write |-> [k \in ws[c] |-> NewVal(c, k)]]

HInit == Init /\ hist = <<>> /\ passed = {}

\* The transaction of c is let through if its condition holds.
Pass(c, condition) ==
  passed' = IF condition THEN passed \cup {<<c, txn[c]>>} ELSE passed

HCommit(c) ==
  /\ Commit(c)
  /\ hist' = Append(hist, Entry(c))
  /\ Pass(c, rs[c] = {})

HValidateDone(c) ==
  /\ ValidateDone(c)
  /\ Pass(c, Valid(c))
  /\ UNCHANGED hist

\* The steps of Tx that do not touch the history.
HOther(c) ==
  /\ \/ Start(c) \/ ReadMore(c) \/ ReadDone(c)
     \/ CommitSingleRead(c) \/ AbortRdonly(c)
     \/ LogDone(c) \/ BackupDone(c) \/ PrimaryDone(c)
     \/ Abort(c) \/ AbortDone(c) \/ Server(c)
  /\ UNCHANGED <<hist, passed>>

HNext == \E c \in Coros : HCommit(c) \/ HValidateDone(c) \/ HOther(c)

HSpec == HInit /\ [][HNext]_hvars

-----------------------------------------------------------------------------
Passed(e) == <<e.c, e.txn>> \in passed

\* The positions, up to n, of the transactions that were let through and write k.
Writers(n, k) == {i \in 1 .. n : Passed(hist[i]) /\ k \in DOMAIN hist[i].write}

\* The replay of the first n leaves the value x at k: the last of them that writes
\* k has written x, or none writes k and x was there from the start.
Leaves(n, k, x) ==
  \/ Writers(n, k) = {} /\ x = IF k \in Populated THEN Initial ELSE Absent
  \/ \E i \in Writers(n, k) :
       (\A j \in Writers(n, k) : j <= i) /\ x = hist[i].write[k]

\* Serializability: every transaction that commit() lets through has read, of
\* the keys in its read and write sets, exactly what the transactions before it
\* in the order of the commit() calls had written.
Serializable ==
  \A i \in 1 .. Len(hist) : Passed(hist[i]) =>
    \A k \in DOMAIN hist[i].read : Leaves(i - 1, k, hist[i].read[k])

\* No update is lost and none appears from nowhere: at every replica of a key
\* whose bucket is unlocked stands the value that the replay of all transactions
\* that commit() has let through leaves there.
UpdatesSurvive ==
  \A k \in Keys : locker[BucketOf[k]] = NoCaller =>
    \A r \in Replicas : Leaves(Len(hist), k, store[r][k])
=============================================================================
