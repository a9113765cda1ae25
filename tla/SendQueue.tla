----------------------------- MODULE SendQueue -----------------------------
(***************************************************************************)
(* The send side of an RPC endpoint (src/rpc): send_reqs() and             *)
(* send_resps() put work requests together in lists of at most postlist,   *)
(* one list per queue pair in turn, and only the first work request of a   *)
(* window of UnsigBatch is signalled.  The NIC executes the work requests  *)
(* of a queue pair in order, whenever it likes, and the driver forgets     *)
(* them only when the completion of a signalled one is polled.             *)
(*                                                                         *)
(* A large response is sent from one of the non_inline_bufs, which are     *)
(* used in turn; the NIC reads the buffer when it executes the request.    *)
(***************************************************************************)
EXTENDS Integers, Sequences

CONSTANTS
  MaxQps,         \* RPC_MAX_QPS
  MaxPostlist,    \* RPC_MAX_POSTLIST
  UnsigBatch,     \* RPC_UNSIG_BATCH
  SqDepth,        \* HRD_SQ_DEPTH
  RqDepth,        \* HRD_RQ_DEPTH, the number of non_inline_bufs
  MaxMsgs         \* bound: messages that one call sends

\* The compile-time checks of Rpc::check_defines() and, what rpc_defs.h has but
\* nothing checks, a window that is longer than any list.
ASSUME SendAssumption ==
  /\ MaxQps \in Nat \ {0}
  /\ MaxPostlist \in Nat \ {0}
  /\ MaxMsgs \in Nat
  /\ UnsigBatch \in Nat /\ MaxPostlist < UnsigBatch
  /\ SqDepth \in Nat /\ SqDepth >= 2 * UnsigBatch
  /\ RqDepth \in Nat /\ RqDepth >= 2 * UnsigBatch

VARIABLES
  numQps, postlist,  \* info.num_qps and info.postlist, fixed at start-up
  nbPending,      \* nb_pending
  activeQp,       \* active_qp
  niIndex,        \* resp_batch.non_inline_index
  kind, todo,     \* the call in progress and the messages it has still to send
  wr,             \* wr[q]: the work requests of q since the last one reaped
  posted,         \* the first posted[q] of them are in the send queue,
  done,           \* and the NIC has executed the first done[q]
  refused         \* ibv_post_send() has returned an error

config == <<numQps, postlist>>
call == <<kind, todo>>
queue == <<wr, posted, done>>
vars == <<config, nbPending, activeQp, niIndex, call, queue, refused>>

Qps == 0 .. numQps - 1

\* A work request that is sent inline, or from the memory of its own request, or
\* that the NIC has executed: it refers to no buffer.
NoBuf == RqDepth
WorkRequests == [signaled : BOOLEAN, buf : 0 .. RqDepth]

\* Mutant: the index does not wrap.
ModAdd_NoWrap(x, n) == x + 1

\* HRD_MOD_ADD
ModAdd(x, n) == IF x + 1 = n THEN 0 ELSE x + 1

Init ==
  /\ numQps \in 1 .. MaxQps
  /\ postlist \in 1 .. MaxPostlist
  /\ nbPending = [q \in Qps |-> 0]
  /\ activeQp = 0
  /\ niIndex = 0
  /\ kind = "none" /\ todo = 0
  /\ wr = [q \in Qps |-> <<>>]
  /\ posted = [q \in Qps |-> 0]
  /\ done = [q \in Qps |-> 0]
  /\ refused = FALSE

\* send_reqs() by a slave, or send_resps() by the master, of n messages.
Call ==
  /\ todo = 0
  /\ kind' \in {"req", "resp"}
  /\ todo' \in 1 .. MaxMsgs
  /\ UNCHANGED <<config, nbPending, activeQp, niIndex, queue, refused>>

-----------------------------------------------------------------------------
(* One message: set_flags(), the choice of a buffer, ibv_post_send().      *)

WindowFull(q) == nbPending[q] = UnsigBatch - 1

\* The NIC has executed the signalled work request at i: hrd_poll_cq() gets its
\* completion, and the driver moves the queue's tail just past it.
Completion(q, i) ==
  /\ i \in 1 .. done[q]
  /\ wr[q][i].signaled
  /\ \A j \in 1 .. i - 1 : ~wr[q][j].signaled

\* Mutant: the window is one work request longer than the queue allows for.
SetFlags_NoPoll(q, r) ==
  /\ r = 0
  /\ nbPending' = [nbPending EXCEPT ![q] = IF WindowFull(q) THEN 0 ELSE @ + 1]

\* Mutant: the last work request of a window is the signalled one.
Signal_Last(q) == WindowFull(q)

\* The flag of the next work request of q.
Signal(q) == nbPending[q] = 0

\* set_flags(): a full window waits for one completion, which ends the first r
\* work requests of the queue.
SetFlags(q, r) ==
  IF WindowFull(q)
  THEN /\ Completion(q, r)
       /\ nbPending' = [nbPending EXCEPT ![q] = 0]
  ELSE /\ r = 0
       /\ nbPending' = [nbPending EXCEPT ![q] = @ + 1]

\* Mutant: the index of the non-inline buffers is not advanced.
Buffer_Same(large) ==
  IF large /\ kind = "resp" THEN niIndex' = niIndex ELSE UNCHANGED niIndex

\* A response that does not fit inline is copied to the next buffer.
Buffer(large) ==
  IF large /\ kind = "resp" THEN niIndex' = ModAdd(niIndex, RqDepth) ELSE UNCHANGED niIndex

\* ibv_post_send() of what is new in w: the work requests that do not fit the send
\* queue are refused.
Post(q, w) ==
  IF Len(w) <= SqDepth
  THEN /\ wr' = [wr EXCEPT ![q] = w]
       /\ posted' = [posted EXCEPT ![q] = Len(w)]
       /\ UNCHANGED refused
  ELSE /\ wr' = [wr EXCEPT ![q] = SubSeq(w, 1, SqDepth)]
       /\ posted' = [posted EXCEPT ![q] = SqDepth]
       /\ refused' = TRUE

\* One iteration of the loop: the list is posted when it is full or the last
\* message is in it, and then it is the next queue pair's turn.
SendMsg(large) ==
  LET q == activeQp
      new == [signaled |-> Signal(q),
              buf |-> IF large /\ kind = "resp" THEN niIndex ELSE NoBuf]
  IN
  /\ todo > 0
  /\ \E r \in 0 .. done[q] :
       LET w == Append(SubSeq(wr[q], r + 1, Len(wr[q])), new)
           p == posted[q] - r
       IN
       /\ SetFlags(q, r)
       /\ done' = [done EXCEPT ![q] = @ - r]
       /\ IF Len(w) - p = postlist \/ todo = 1
          THEN /\ Post(q, w)
               /\ activeQp' = ModAdd(activeQp, numQps)
          ELSE /\ wr' = [wr EXCEPT ![q] = w]
               /\ posted' = [posted EXCEPT ![q] = p]
               /\ UNCHANGED <<activeQp, refused>>
  /\ Buffer(large)
  /\ todo' = todo - 1
  /\ kind' = IF todo = 1 THEN "none" ELSE kind
  /\ UNCHANGED config

\* The NIC executes the next work request of q: it reads the message, sends it
\* and, if the request is signalled, writes a completion.
Execute(q) ==
  /\ done[q] < posted[q]
  /\ done' = [done EXCEPT ![q] = @ + 1]
  /\ wr' = [wr EXCEPT ![q][done[q] + 1].buf = NoBuf]
  /\ UNCHANGED <<config, nbPending, activeQp, niIndex, call, posted, refused>>

-----------------------------------------------------------------------------
Send == \E large \in BOOLEAN : SendMsg(large)

Next == Call \/ Send \/ \E q \in Qps : Execute(q)

Spec == Init /\ [][Next]_vars

-----------------------------------------------------------------------------
(* Properties.                                                             *)

\* Every variable has its type.
TypeOK ==
  /\ numQps \in 1 .. MaxQps
  /\ postlist \in 1 .. MaxPostlist
  /\ nbPending \in [Qps -> 0 .. UnsigBatch - 1]
  /\ activeQp \in Qps
  /\ niIndex \in 0 .. RqDepth - 1
  /\ kind \in {"none", "req", "resp"}
  /\ todo \in 0 .. MaxMsgs
  /\ wr \in [Qps -> Seq(WorkRequests)]
  /\ posted \in [Qps -> Nat]
  /\ done \in [Qps -> Nat]
  /\ refused \in BOOLEAN
  /\ \A q \in Qps : done[q] <= posted[q] /\ posted[q] <= Len(wr[q])

\* The send queue never overflows, although up to two windows of work requests
\* are unknown to be complete: ibv_post_send() refuses none.
NoneRefused == ~refused

\* The wait of set_flags() is answered: when the window of a queue pair is full
\* the signalled work request that the wait is for is not still in the list that
\* the thread is putting together, but posted.
WaitIsForPosted ==
  \A q \in Qps : WindowFull(q) => \E i \in 1 .. posted[q] : wr[q][i].signaled

\* No two work requests that the NIC has yet to execute use one buffer.
DistinctBuffers ==
  \A p, q \in Qps : \A i \in DOMAIN wr[p], j \in DOMAIN wr[q] :
    wr[p][i].buf = wr[q][j].buf =>
      (p = q /\ i = j) \/ wr[p][i].buf = NoBuf

\* With n queue pairs, lists of up to l and the windows of set_flags(), the most
\* copies that are made while one work request is unknown to be complete.
Copies(n, l) == (2 * UnsigBatch - 2) * (1 + (n - 1) * l)

\* A response is not overwritten before the NIC has read it, as long as the cycle
\* of buffers is as long as all that can be copied while a work request is pending.
\* With one queue pair the compile-time check HRD_RQ_DEPTH >= 2 * RPC_UNSIG_BATCH
\* gives that; with several, whose lists may differ in length, it does not.
BuffersIntact == Copies(numQps, postlist) <= RqDepth => DistinctBuffers
=============================================================================
