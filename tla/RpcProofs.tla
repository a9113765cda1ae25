------------------------------ MODULE RpcProofs ------------------------------
(***************************************************************************)
(* The theorems about module Rpc, for any number of machines, coroutines   *)
(* and requests in a batch, and any losses.                                *)
(*                                                                         *)
(* The inductive invariant follows every datagram: a slave has at most one *)
(* for each machine of its batch, in one place, and the answers to the     *)
(* requests in it are missing from the slave's buffers.  The first half    *)
(* shows that every step keeps that.  Then come the answers that a slave   *)
(* has, the ring of coroutines, the RECVs of a machine, and what follows   *)
(* for the properties of Rpc.                                              *)
(***************************************************************************)
EXTENDS Rpc, FiniteSetTheorems, TLAPS

Coros == Slaves \cup {Master}

\* The machine that answers, and what a datagram is about: requests of one
\* coroutine to one machine.
Peer(p) == IF p.isReq THEN p.to ELSE p.from
Slot(p) == <<Requester(p), p.coro, Peer(p)>>

\* Where a datagram can be until it is handled.
Places == {"net", "lost", "cq", "wc", "resp"}

At(l, p) ==
  \/ l = "net" /\ p \in net
  \/ l = "lost" /\ p \in lost
  \/ l = "cq" /\ p \in cq[p.to]
  \/ l = "wc" /\ p \in wc[p.to]
  \/ l = "resp" /\ p \in respBatch[p.from]

\* The requests of the batch of slave c of machine m that go to machine n, and
\* those that have been answered.
Part(m, c, n) == {i \in 1 .. Len(batch[m][c]) : batch[m][c][i] = n}
Answered(m, c) == {i \in 1 .. Len(batch[m][c]) : respBuf[m][c][i] # NoResp}

Idle(m, c) == Answered(m, c) = 1 .. Len(batch[m][c])

\* The entries e are the requests to n, none of them answered.
Open(m, c, n, e) ==
  /\ Part(m, c, n) # {}
  /\ e = [i \in Part(m, c, n) |-> ReqId(m, c, i)]
  /\ \A i \in Part(m, c, n) : respBuf[m][c][i] = NoResp

Fits(p) == Open(Requester(p), p.coro, Peer(p), p.entries)

-----------------------------------------------------------------------------
(* The inductive invariant.                                                *)

SlaveTypes ==
  /\ batch \in [Machines -> [Slaves -> Batches \cup {<<>>}]]
  /\ numReqsDone \in [Machines -> [Slaves -> Nat]]
  /\ respBuf \in [Machines -> [Slaves -> Seq({NoResp} \cup (Machines \X Requests))]]
  /\ sent \in [Machines -> [Slaves -> Nat]]
  /\ \A m \in Machines, c \in Slaves : sent[m][c] <= MaxBatches[m]

LoopTypes ==
  /\ running \in [Machines -> Coros]
  /\ nextCoro \in [Machines -> [Coros -> Coros]]
  /\ curComp \in [Machines -> Coros]

RecvTypes ==
  /\ posted \in [Machines -> Nat]
  /\ recvsToPost \in [Machines -> 0 .. RecvSlack - 1]
  /\ polled \in [Machines -> Nat]

DataTypes ==
  /\ net \in SUBSET Datagrams /\ lost \in SUBSET Datagrams
  /\ cq \in [Machines -> SUBSET Datagrams]
  /\ wc \in [Machines -> SUBSET Datagrams]
  /\ respBatch \in [Machines -> SUBSET Datagrams]

Types == SlaveTypes /\ LoopTypes /\ RecvTypes /\ DataTypes

\* A buffer has the answer to its request or nothing, and num_reqs_done counts
\* those that have it.
Answers(m, c) ==
  /\ DOMAIN respBuf[m][c] = 1 .. Len(batch[m][c])
  /\ \A i \in 1 .. Len(batch[m][c]) :
       respBuf[m][c][i] \in {NoResp, <<batch[m][c][i], ReqId(m, c, i)>>}
  /\ numReqsDone[m][c] = Cardinality(Answered(m, c))
  /\ sent[m][c] = 0 => batch[m][c] = <<>>

AnswersInv == \A m \in Machines, c \in Slaves : Answers(m, c)

\* A datagram is where its destination or, as a response, its source says.
Sorted ==
  \A m \in Machines :
    /\ \A p \in cq[m] \cup wc[m] : p.to = m
    /\ \A p \in respBatch[m] : p.from = m /\ ~p.isReq
    /\ polled[m] = 0 => wc[m] = {} /\ respBatch[m] = {}

Fitting == \A p \in Datagrams, l \in Places : At(l, p) => Fits(p)

\* A coroutine has one datagram for a machine, in one place.
Apart ==
  \A p, q \in Datagrams, l, k \in Places :
    At(l, p) /\ At(k, q) /\ Slot(p) = Slot(q) => l = k /\ p = q

\* The coroutines that are to run are idle.  During a poll they start at the
\* master and end with cur_comp_coro.
Way(m, ring) ==
  /\ ring # <<>>
  /\ Linked(m, ring)
  /\ \A i \in 1 .. Len(ring) : ring[i] # Master => Idle(m, ring[i])
  /\ IF polled[m] = 0
     THEN ring[1] = running[m] /\ ring[Len(ring)] = Master
     ELSE running[m] = Master /\ ring[1] = Master /\ ring[Len(ring)] = curComp[m]

RingInv == \A m \in Machines : \E ring \in Seq(Coros) : Way(m, ring)

\* The machines and coroutines whose answers are in.
Handled(m) ==
  {d \in Slaves \X Machines :
     Part(m, d[1], d[2]) # {} /\ Part(m, d[1], d[2]) \subseteq Answered(m, d[1])}

\* A RECV is posted, to be posted, or in a completion of this poll or the next;
\* and a completion of this poll is still to be handled, has its response in the
\* batch, or has completed what a coroutine asked of a machine.
Credits(m) ==
  /\ posted[m] + recvsToPost[m] + polled[m] + Cardinality(cq[m]) = RqDepth
  /\ polled[m] <= Cardinality(wc[m]) + Cardinality(respBatch[m]) + Cardinality(Handled(m))

CreditsInv == \A m \in Machines : Credits(m)

RpcInv ==
  /\ Types /\ AnswersInv /\ Sorted /\ Fitting /\ Apart /\ RingInv /\ CreditsInv

-----------------------------------------------------------------------------
(* Constants, batches and datagrams.                                       *)

\* The reserve of RECVs that init_non_zero_members() computes.
LEMMA Slack ==
  /\ RecvSlack \in Nat \ {0} /\ RequiredRecvs \in Nat
  /\ RequiredRecvs = Cardinality(Slaves) * MaxMsgCoro + Cardinality(Machines) * Cardinality(Slaves)
  /\ RequiredRecvs + RecvSlack + 1 <= RqDepth
<1> DEFINE x == RqDepth - RequiredRecvs - 1
<1>1. Cardinality(Slaves) \in Nat /\ Cardinality(Machines) \in Nat
  BY RpcAssumption, FS_CardinalityType, Zenon
<1>2. NumCoro - 1 = Cardinality(Slaves)
  BY <1>1 DEF NumCoro
<1>3. RequiredRecvs = Cardinality(Slaves) * MaxMsgCoro + Cardinality(Machines) * Cardinality(Slaves)
  BY <1>2, Zenon DEF RequiredRecvs
<1>4. RequiredRecvs \in Nat
  <2>1. \A a, b \in Nat : a * b \in Nat
    OBVIOUS
  <2>2. QED BY <1>1, <1>3, <2>1, RpcAssumption
<1>5. x \in Int /\ x >= MinRecvSlack /\ MinRecvSlack \in Nat \ {0}
  BY <1>4, RpcAssumption
<1>6. RecvSlack = MinRecvSlack
  BY <1>5, Zenon DEF RecvSlack
<1>7. QED BY <1>3, <1>4, <1>5, <1>6, RpcAssumption DEF x

\* The fields of a datagram.
LEMMA Fields ==
  ASSUME NEW p \in Datagrams
  PROVE  /\ p.isReq \in BOOLEAN /\ p.from \in Machines /\ p.to \in Machines
         /\ p.coro \in Slaves
         /\ Requester(p) \in Machines /\ Peer(p) \in Machines
BY Zenon DEF Datagrams, Requester, Peer

\* A slave's batch is a sequence of machines that fits in its buffers.
LEMMA Batch ==
  ASSUME Types, NEW m \in Machines, NEW c \in Slaves
  PROVE  /\ batch[m][c] \in Seq(Machines)
         /\ Len(batch[m][c]) \in 0 .. MaxMsgCoro
         /\ \A n : Part(m, c, n) \subseteq 1 .. Len(batch[m][c])
<1>1. batch[m][c] \in Batches \cup {<<>>}
  BY Zenon DEF Types, SlaveTypes
<1>2. <<>> \in Seq(Machines) /\ Len(<<>>) \in 0 .. MaxMsgCoro
  BY RpcAssumption
<1>3. \A b \in Batches : b \in Seq(Machines) /\ Len(b) \in 0 .. MaxMsgCoro
  BY RpcAssumption
<1>4. \A n : Part(m, c, n) \subseteq 1 .. Len(batch[m][c])
  BY Zenon DEF Part
<1>5. QED BY <1>1, <1>2, <1>3, <1>4, Zenon

\* The answers to a datagram's requests are missing, so an idle coroutine has no
\* datagram anywhere.
LEMMA IdleFree ==
  ASSUME Fitting, NEW m, NEW c, Idle(m, c),
         NEW p \in Datagrams, NEW l \in Places, At(l, p)
  PROVE  ~ (Requester(p) = m /\ p.coro = c)
<1> SUFFICES ASSUME Requester(p) = m, p.coro = c PROVE FALSE
  OBVIOUS
<1>1. Open(m, c, Peer(p), p.entries)
  BY Zenon DEF Fitting, Fits
<1>2. PICK i \in Part(m, c, Peer(p)) : respBuf[m][c][i] = NoResp
  BY <1>1, Zenon DEF Open
<1>3. QED BY <1>2, Zenon DEF Idle, Answered, Part

\* What an open datagram depends on.
LEMMA FitsKept ==
  ASSUME NEW p \in Datagrams, NEW m, NEW c, NEW n, m = Requester(p), c = p.coro, n = Peer(p),
         Fits(p), batch'[m][c] = batch[m][c], sent'[m][c] = sent[m][c],
         \A i \in Part(m, c, n) : respBuf'[m][c][i] = respBuf[m][c][i]
  PROVE  Fits(p)'
<1>1. Part(m, c, n)' = Part(m, c, n)
  BY Zenon DEF Part
<1>2. \A i : ReqId(m, c, i)' = ReqId(m, c, i)
  BY Zenon DEF ReqId
<1>3. Open(m, c, n, p.entries)
  BY Zenon DEF Fits
<1>4. Open(m, c, n, p.entries)'
  BY <1>1, <1>2, <1>3 DEF Open
<1>5. QED BY <1>4, Zenon DEF Fits

-----------------------------------------------------------------------------
(* Types.                                                                  *)

\* The identity of a request, with its bounds.
LEMMA RequestType ==
  ASSUME NEW m \in Machines, NEW c \in Slaves, NEW k \in 1 .. MaxBatches[m],
         NEW i \in 1 .. MaxMsgCoro
  PROVE  <<m, c, k, i>> \in Requests
<1>1. <<m, c, k, i>> \in {m} \X Slaves \X (1 .. MaxBatches[m]) \X (1 .. MaxMsgCoro)
  OBVIOUS
<1>2. QED BY <1>1, Zenon DEF Requests

\* What start_new_req() puts together.
LEMMA Coalescing ==
  ASSUME Types, NEW m \in Machines, NEW c \in Slaves, sent[m][c] < MaxBatches[m],
         NEW b \in Batches, NEW n \in Range(b), NEW p, p = Coalesced(m, c, b, n)
  PROVE  /\ p \in Datagrams /\ p.isReq /\ p.coro = c /\ p.from = m /\ p.to = n
         /\ Requester(p) = m /\ Peer(p) = n /\ n \in Machines
         /\ p.entries = [i \in {j \in 1 .. Len(b) : b[j] = n} |-> <<m, c, sent[m][c] + 1, i>>]
<1> DEFINE I == {j \in 1 .. Len(b) : b[j] = n}
           e == [i \in I |-> <<m, c, sent[m][c] + 1, i>>]
<1>1. b \in Seq(Machines) /\ Len(b) \in 1 .. MaxMsgCoro /\ MaxMsgCoro \in Nat
  BY RpcAssumption, Zenon
<1>2. n \in Machines /\ I # {} /\ I \subseteq 1 .. MaxMsgCoro
  BY <1>1 DEF Range
<1>3. sent[m][c] + 1 \in 1 .. MaxBatches[m]
  <2>1. sent[m][c] \in Nat /\ MaxBatches[m] \in Nat
    BY RpcAssumption, Zenon DEF Types, SlaveTypes
  <2>2. QED BY <2>1
<1>4. e \in [I -> Requests]
  BY <1>2, <1>3, RequestType, Zenon
<1>5. e \in UNION {[J -> Requests] : J \in (SUBSET (1 .. MaxMsgCoro)) \ {{}}}
  <2> HIDE DEF I, e
  <2>1. I \in (SUBSET (1 .. MaxMsgCoro)) \ {{}}
    <3>1. I \in SUBSET (1 .. MaxMsgCoro)
      BY <1>2, Zenon
    <3>2. I \notin {{}}
      BY <1>2, Zenon
    <3>3. QED BY <3>1, <3>2, Zenon
  <2>2. QED BY <1>4, <2>1, Zenon
<1>6. p = [isReq |-> TRUE, from |-> m, to |-> n, coro |-> c, entries |-> e]
  BY Zenon DEF Coalesced
<1> HIDE DEF e
<1>7. /\ p \in Datagrams /\ p.isReq /\ p.coro = c /\ p.from = m /\ p.to = n /\ p.entries = e
  BY <1>2, <1>5, <1>6 DEF Datagrams
<1>8. Requester(p) = m /\ Peer(p) = n
  BY <1>7, Zenon DEF Requester, Peer
<1>9. QED BY <1>2, <1>7, <1>8, Zenon DEF e

\* What start_new_resp() makes of a request.
Reply(m, p) == [p EXCEPT !.isReq = FALSE, !.from = m, !.to = p.from]

\* The response to a datagram is about the same requests.
LEMMA Replying ==
  ASSUME NEW m \in Machines, NEW p \in Datagrams, p.isReq, p.to = m,
         NEW r, r = Reply(m, p)
  PROVE  /\ r \in Datagrams /\ ~ r.isReq /\ r.from = m /\ r.to = p.from
         /\ r.coro = p.coro /\ r.entries = p.entries /\ Slot(r) = Slot(p)
         /\ Requester(r) = Requester(p) /\ Peer(r) = Peer(p)
<1>1. /\ r \in Datagrams /\ r.isReq = FALSE /\ r.from = m /\ r.to = p.from
      /\ r.coro = p.coro /\ r.entries = p.entries
  BY Zenon DEF Datagrams, Reply
<1>2. Requester(r) = Requester(p) /\ Peer(r) = Peer(p)
  BY <1>1, Zenon DEF Requester, Peer
<1>3. QED BY <1>1, <1>2, Zenon DEF Slot

\* A turn in which the slave c sends the batch b.
Sends(m, c, b) ==
  /\ sent[m][c] < MaxBatches[m]
  /\ batch' = [batch EXCEPT ![m][c] = b]
  /\ respBuf' = [respBuf EXCEPT ![m][c] = [i \in 1 .. Len(b) |-> NoResp]]
  /\ net' = net \cup {Coalesced(m, c, b, n) : n \in Range(b)}
  /\ numReqsDone' = [numReqsDone EXCEPT ![m][c] = 0]
  /\ sent' = [sent EXCEPT ![m][c] = @ + 1]

\* A slave that gets its turn sends a batch or stops.
LEMMA Turn ==
  ASSUME NEW m, SlaveTurn(m)
  PROVE  UNCHANGED <<slaveVars, net>> \/ \E b \in Batches : Sends(m, running[m], b)
BY Zenon DEF SlaveTurn, Sends

\* A slave's turn keeps the types: start_new_req() fills the buffers of one batch.
LEMMA SlaveTurnTypes ==
  ASSUME RpcInv, NEW m \in Machines, SlaveTurn(m)
  PROVE  Types'
<1>0. Types /\ SlaveTypes /\ LoopTypes /\ RecvTypes /\ DataTypes
  BY Zenon DEF RpcInv, Types
<1>1. PICK c \in Slaves : c = running[m]
  BY <1>0, Zenon DEF SlaveTurn, LoopTypes, Coros
<1>2. LoopTypes'
  <2>1. running' = [running EXCEPT ![m] = nextCoro[m][c]] /\ UNCHANGED <<nextCoro, curComp>>
    BY <1>1, Zenon DEF SlaveTurn, pollVars
  <2>2. QED BY <1>0, <1>1, <2>1, Zenon DEF LoopTypes, Coros
<1>3. RecvTypes'
  BY <1>0, Zenon DEF SlaveTurn, pollVars, recvVars, RecvTypes
<1>4. CASE UNCHANGED <<slaveVars, net>>
  <2>1. SlaveTypes' /\ DataTypes'
    BY <1>0, <1>4, Zenon DEF SlaveTurn, slaveVars, pollVars, SlaveTypes, DataTypes
  <2>2. QED BY <1>2, <1>3, <2>1, Zenon DEF Types
<1>5. CASE ~ UNCHANGED <<slaveVars, net>>
  <2>1. UNCHANGED <<cq, wc, respBatch, lost>>
    BY Zenon DEF SlaveTurn, pollVars
  <2>2. PICK b \in Batches : Sends(m, c, b)
    BY <1>1, <1>5, Turn, Zenon
  <2>3. Len(b) \in Nat
    BY RpcAssumption
  <2>4. [i \in 1 .. Len(b) |-> NoResp] \in Seq({NoResp} \cup (Machines \X Requests))
    BY <2>3
  <2>5. \A n \in Range(b) : Coalesced(m, c, b, n) \in Datagrams
    BY <1>0, <1>1, <2>2, Coalescing, Zenon DEF Sends
  <2>6. DataTypes'
    BY <1>0, <2>1, <2>2, <2>5, Zenon DEF DataTypes, Sends
  <2>7. SlaveTypes'
    <3>1. /\ sent' \in [Machines -> [Slaves -> Nat]]
          /\ \A n \in Machines, d \in Slaves : sent'[n][d] <= MaxBatches[n]
      <4>1. \A n \in Machines : MaxBatches[n] \in Nat
        BY RpcAssumption, Zenon
      <4>2. sent[m][c] + 1 \in Nat /\ sent[m][c] + 1 <= MaxBatches[m]
        BY <1>0, <1>1, <2>2, <4>1 DEF SlaveTypes, Sends
      <4>3. sent' \in [Machines -> [Slaves -> Nat]]
        BY <1>0, <1>1, <2>2, <4>2, Zenon DEF SlaveTypes, Sends
      <4>4. \A n \in Machines, d \in Slaves :
              sent'[n][d] = IF n = m /\ d = c THEN sent[m][c] + 1 ELSE sent[n][d]
        BY <1>0, <1>1, <2>2, Zenon DEF SlaveTypes, Sends
      <4>5. QED BY <1>0, <4>2, <4>3, <4>4, Zenon DEF SlaveTypes
    <3>2. batch' \in [Machines -> [Slaves -> Batches \cup {<<>>}]]
      BY <1>0, <1>1, <2>2, Zenon DEF SlaveTypes, Sends
    <3>3. numReqsDone' \in [Machines -> [Slaves -> Nat]]
      BY <1>0, <1>1, <2>2, Zenon DEF SlaveTypes, Sends
    <3>4. respBuf' \in [Machines -> [Slaves -> Seq({NoResp} \cup (Machines \X Requests))]]
      BY <1>0, <1>1, <2>2, <2>4, Zenon DEF SlaveTypes, Sends
    <3>5. QED BY <3>1, <3>2, <3>3, <3>4, Zenon DEF SlaveTypes
  <2>8. QED BY <1>2, <1>3, <2>6, <2>7, Zenon DEF Types
<1>6. QED BY <1>4, <1>5, Zenon

\* A datagram has some requests, and finitely many.
LEMMA Entries ==
  ASSUME NEW p \in Datagrams
  PROVE  /\ DOMAIN p.entries \subseteq 1 .. MaxMsgCoro /\ DOMAIN p.entries # {}
         /\ \A i \in DOMAIN p.entries : p.entries[i] \in Requests
         /\ IsFiniteSet(DOMAIN p.entries) /\ Cardinality(DOMAIN p.entries) \in Nat
<1>1. p.entries \in UNION {[I -> Requests] : I \in (SUBSET (1 .. MaxMsgCoro)) \ {{}}}
  BY Zenon DEF Datagrams
<1>2. PICK I \in (SUBSET (1 .. MaxMsgCoro)) \ {{}} : p.entries \in [I -> Requests]
  BY <1>1, Zenon
<1>3. /\ DOMAIN p.entries \subseteq 1 .. MaxMsgCoro /\ DOMAIN p.entries # {}
      /\ \A i \in DOMAIN p.entries : p.entries[i] \in Requests
  BY <1>2, Zenon
<1>4. IsFiniteSet(1 .. MaxMsgCoro)
  BY RpcAssumption, FS_Interval
<1>5. IsFiniteSet(DOMAIN p.entries)
  BY <1>3, <1>4, FS_Subset, Zenon
<1>6. QED BY <1>3, <1>5, FS_CardinalityType, Zenon

\* Polling keeps the types; at its end recvs_to_post is below recv_slack again.
LEMMA PollTypes ==
  ASSUME RpcInv, NEW m \in Machines,
         PollNone(m) \/ (Poll(m) /\ Cardinality(cq[m]) \in Nat) \/ PollEnd(m)
  PROVE  Types'
<1>0. SlaveTypes /\ LoopTypes /\ RecvTypes /\ DataTypes
  BY Zenon DEF RpcInv, Types
<1>1. SlaveTypes'
  BY <1>0, Zenon DEF PollNone, Poll, PollEnd, slaveVars, SlaveTypes
<1>2. CASE PollNone(m)
  <2>1. RecvTypes' /\ DataTypes'
    BY <1>0, <1>2, Zenon DEF PollNone, recvVars, pollVars, RecvTypes, DataTypes
  <2>2. LoopTypes'
    BY <1>0, <1>2, Zenon DEF PollNone, pollVars, LoopTypes, Coros
  <2>3. QED BY <1>1, <2>1, <2>2, Zenon DEF Types
<1>3. CASE Poll(m) /\ Cardinality(cq[m]) \in Nat
  <2>1. RecvTypes'
    BY <1>0, <1>3, Zenon DEF Poll, recvVars, RecvTypes
  <2>2. DataTypes'
    BY <1>0, <1>3, Zenon DEF Poll, DataTypes
  <2>3. LoopTypes'
    BY <1>0, <1>3, Zenon DEF Poll, LoopTypes, Coros
  <2>4. QED BY <1>1, <2>1, <2>2, <2>3, Zenon DEF Types
<1>4. CASE PollEnd(m)
  <2>1. RecvTypes'
    <3> DEFINE used == recvsToPost[m] + polled[m]
    <3>1. RecvSlack \in Nat \ {0} /\ used \in Nat
      BY <1>0, Slack DEF RecvTypes
    <3>2. polled' \in [Machines -> Nat]
      BY <1>0, <1>4, Zenon DEF PollEnd, RecvTypes
    <3>3. CASE used >= RecvSlack
      <4>1. /\ posted' = [posted EXCEPT ![m] = @ + used]
            /\ recvsToPost' = [recvsToPost EXCEPT ![m] = 0]
        BY <1>4, <3>3, Zenon DEF PollEnd, PostRecvs
      <4> HIDE DEF used
      <4>2. posted' \in [Machines -> Nat]
        BY <4>1, <3>1, <1>0 DEF RecvTypes
      <4>3. recvsToPost' \in [Machines -> 0 .. RecvSlack - 1]
        BY <4>1, <3>1, <1>0 DEF RecvTypes
      <4>4. QED BY <3>2, <4>2, <4>3, Zenon DEF RecvTypes
    <3>4. CASE ~ (used >= RecvSlack)
      <4>1. posted' = posted /\ recvsToPost' = [recvsToPost EXCEPT ![m] = used]
        BY <1>4, <3>4, Zenon DEF PollEnd, PostRecvs
      <4> HIDE DEF used
      <4>2. recvsToPost' \in [Machines -> 0 .. RecvSlack - 1]
        BY <4>1, <3>1, <3>4, <1>0 DEF RecvTypes
      <4>3. QED BY <3>2, <4>1, <4>2, <1>0, Zenon DEF RecvTypes
    <3>5. QED BY <3>3, <3>4, Zenon
  <2>2. DataTypes'
    BY <1>0, <1>4, Zenon DEF PollEnd, DataTypes
  <2>3. LoopTypes'
    <3>1. nextCoro' \in [Machines -> [Coros -> Coros]] /\ curComp' \in [Machines -> Coros]
      BY <1>0, <1>4, Zenon DEF PollEnd, LoopTypes, Coros
    <3>2. nextCoro'[m][Master] \in Coros
      BY <3>1, Zenon DEF Coros
    <3>3. running' \in [Machines -> Coros]
      BY <1>0, <1>4, <3>2, Zenon DEF PollEnd, LoopTypes
    <3>4. QED BY <3>1, <3>3, Zenon DEF LoopTypes
  <2>4. QED BY <1>1, <2>1, <2>2, <2>3, Zenon DEF Types
<1>5. QED BY <1>2, <1>3, <1>4, Zenon

\* A request keeps the types.
LEMMA HandleReqTypes ==
  ASSUME RpcInv, NEW m \in Machines, NEW p, HandleReq(m, p)
  PROVE  Types'
<1>0. SlaveTypes /\ LoopTypes /\ RecvTypes /\ DataTypes /\ Sorted
  BY Zenon DEF RpcInv, Types
<1>1. SlaveTypes' /\ LoopTypes' /\ RecvTypes'
  BY <1>0, Zenon DEF HandleReq, slaveVars, recvVars, SlaveTypes, LoopTypes, RecvTypes
<1>2. p \in Datagrams /\ p.isReq /\ p.to = m /\ p \in wc[m]
  BY <1>0, Zenon DEF HandleReq, DataTypes, Sorted
<1>3. Reply(m, p) \in Datagrams
  BY <1>2, Replying, Zenon
<1>4. /\ respBatch' = [respBatch EXCEPT ![m] = @ \cup {Reply(m, p)}]
      /\ wc' = [wc EXCEPT ![m] = @ \ {p}] /\ UNCHANGED <<net, lost, cq>>
  BY Zenon DEF HandleReq, Reply
<1>5. DataTypes'
  BY <1>0, <1>3, <1>4, Zenon DEF DataTypes
<1>6. QED BY <1>1, <1>5, Zenon DEF Types

\* A response keeps the types: it goes to buffers of its own batch.
LEMMA HandleRespTypes ==
  ASSUME RpcInv, NEW m \in Machines, NEW p, HandleResp(m, p)
  PROVE  Types'
<1>0. SlaveTypes /\ LoopTypes /\ RecvTypes /\ DataTypes
  BY Zenon DEF RpcInv, Types
<1> DEFINE c == p.coro
           old == respBuf[m][c]
           new == [i \in DOMAIN old |-> IF i \in DOMAIN p.entries THEN <<p.from, p.entries[i]>> ELSE old[i]]
           d == numReqsDone[m][c] + Cardinality(DOMAIN p.entries)
<1>1. p \in Datagrams /\ p.from \in Machines /\ c \in Slaves /\ p \in wc[m]
  BY <1>0, Fields, Zenon DEF HandleResp, DataTypes
<1>2. d \in Nat
  BY <1>0, <1>1, Entries DEF SlaveTypes
<1>3. /\ \A i \in DOMAIN p.entries : p.entries[i] \in Requests
  BY <1>1, Entries, Zenon
<1>4. new \in Seq({NoResp} \cup (Machines \X Requests))
  <2> DEFINE S == {NoResp} \cup (Machines \X Requests)
  <2>1. old \in Seq(S)
    BY <1>0, <1>1, Zenon DEF SlaveTypes
  <2>2. \A i \in DOMAIN p.entries : <<p.from, p.entries[i]>> \in S
    BY <1>1, <1>3, Zenon
  <2> HIDE DEF S, old
  <2>3. DOMAIN old = 1 .. Len(old) /\ Len(old) \in Nat /\ \A i \in DOMAIN old : old[i] \in S
    BY <2>1
  <2>4. \A i \in DOMAIN old :
          (IF i \in DOMAIN p.entries THEN <<p.from, p.entries[i]>> ELSE old[i]) \in S
    BY <2>2, <2>3, Zenon
  <2>5. new \in [1 .. Len(old) -> S]
    BY <2>3, <2>4, Zenon
  <2> HIDE DEF new
  <2>6. new \in Seq(S)
    BY <2>3, <2>5
  <2>7. QED BY <2>6, Zenon DEF S
<1>5. /\ respBuf' = [respBuf EXCEPT ![m][c] = new]
      /\ numReqsDone' = [numReqsDone EXCEPT ![m][c] = d]
      /\ UNCHANGED <<batch, sent>>
  BY Zenon DEF HandleResp
<1> HIDE DEF new, d
<1>6. SlaveTypes'
  <2>1. respBuf' \in [Machines -> [Slaves -> Seq({NoResp} \cup (Machines \X Requests))]]
    BY <1>0, <1>1, <1>4, <1>5, Zenon DEF SlaveTypes
  <2>2. numReqsDone' \in [Machines -> [Slaves -> Nat]]
    BY <1>0, <1>1, <1>2, <1>5, Zenon DEF SlaveTypes
  <2>3. QED BY <1>0, <1>5, <2>1, <2>2, Zenon DEF SlaveTypes
<1>7. LoopTypes'
  <2>1. \/ /\ nextCoro' = [nextCoro EXCEPT ![m][curComp[m]] = c]
           /\ curComp' = [curComp EXCEPT ![m] = c]
        \/ UNCHANGED <<nextCoro, curComp>>
    BY Zenon DEF HandleResp
  <2>2. running' = running /\ c \in Coros
    BY <1>1, Zenon DEF HandleResp, Coros
  <2> HIDE DEF c
  <2>3. QED BY <1>0, <2>1, <2>2 DEF LoopTypes
<1>8. RecvTypes' /\ DataTypes'
  <2>1. RecvTypes'
    BY <1>0, Zenon DEF HandleResp, recvVars, RecvTypes
  <2>2. UNCHANGED <<net, lost, cq, respBatch>> /\ wc' = [wc EXCEPT ![m] = @ \ {p}]
    BY Zenon DEF HandleResp
  <2>3. QED BY <1>0, <2>1, <2>2, Zenon DEF DataTypes
<1>9. QED BY <1>6, <1>7, <1>8, Zenon DEF Types

\* Delivery and loss keep the types.
LEMMA NetworkTypes ==
  ASSUME RpcInv, NEW p, Deliver(p) \/ Lose(p)
  PROVE  Types'
<1>0. SlaveTypes /\ LoopTypes /\ RecvTypes /\ DataTypes
  BY Zenon DEF RpcInv, Types
<1>1. SlaveTypes' /\ LoopTypes'
  BY <1>0, Zenon DEF Deliver, Lose, slaveVars, pollVars, SlaveTypes, LoopTypes
<1>2. p \in Datagrams /\ p.to \in Machines
  BY <1>0, Fields, Zenon DEF Deliver, Lose, DataTypes
<1>3. CASE Deliver(p) /\ posted[p.to] > 0
  <2>1. /\ posted' = [posted EXCEPT ![p.to] = @ - 1] /\ UNCHANGED <<recvsToPost, polled>>
    BY <1>3, Zenon DEF Deliver, pollVars
  <2>2. RecvTypes'
    BY <1>0, <1>2, <1>3, <2>1 DEF RecvTypes
  <2>3. DataTypes'
    BY <1>0, <1>2, <1>3 DEF Deliver, pollVars, DataTypes
  <2>4. QED BY <1>1, <2>2, <2>3, Zenon DEF Types
<1>4. CASE UNCHANGED <<recvVars, cq, pollVars>> /\ net' = net \ {p} /\ lost' = lost \cup {p}
  BY <1>0, <1>1, <1>2, <1>4, Zenon DEF recvVars, pollVars, RecvTypes, DataTypes, Types
<1>5. QED BY <1>3, <1>4, Zenon DEF Deliver, Lose, recvVars

-----------------------------------------------------------------------------
(* Where the datagrams are.                                                *)

Located == Sorted /\ Fitting /\ Apart

\* The coroutine that runs has had all its answers.
LEMMA RunningIdle ==
  ASSUME RpcInv, NEW m \in Machines, running[m] # Master
  PROVE  Idle(m, running[m]) /\ polled[m] = 0 /\ running[m] \in Slaves
<1>1. PICK ring \in Seq(Coros) : Way(m, ring)
  BY Zenon DEF RpcInv, RingInv
<1>2. polled[m] = 0 /\ ring[1] = running[m]
  BY <1>1, Zenon DEF Way
<1>3. 1 \in 1 .. Len(ring)
  BY <1>1 DEF Way
<1>4. Idle(m, running[m])
  BY <1>1, <1>2, <1>3, Zenon DEF Way
<1>5. running[m] \in Slaves
  BY Zenon DEF RpcInv, Types, LoopTypes, Coros
<1>6. QED BY <1>2, <1>4, <1>5, Zenon

\* A step that sends nothing and answers nothing keeps every datagram open.
LEMMA OpenKept ==
  ASSUME UNCHANGED slaveVars, NEW p \in Datagrams, Fits(p)
  PROVE  Fits(p)'
<1>1. batch' = batch /\ sent' = sent /\ respBuf' = respBuf
  BY Zenon DEF slaveVars
<1>2. QED BY <1>1, FitsKept, Zenon

\* A slave that sends had no datagram left, so the new ones stand alone.
LEMMA SlaveTurnLocated ==
  ASSUME RpcInv, NEW m \in Machines, SlaveTurn(m)
  PROVE  Located'
<1>0. Types /\ DataTypes /\ SlaveTypes /\ Sorted /\ Fitting /\ Apart
  BY Zenon DEF RpcInv, Types
<1>1. PICK c \in Slaves : c = running[m] /\ Idle(m, c)
  BY RunningIdle, Zenon DEF SlaveTurn
<1>2. UNCHANGED <<cq, wc, respBatch, lost, polled>>
  BY Zenon DEF SlaveTurn, pollVars
<1>3. Sorted'
  BY <1>0, <1>2, Zenon DEF Sorted
<1>4. CASE UNCHANGED <<slaveVars, net>>
  <2>1. \A l, p : At(l, p)' = At(l, p)
    BY <1>2, <1>4 DEF At
  <2>2. Fitting'
    <3> SUFFICES ASSUME NEW p \in Datagrams, NEW l \in Places, At(l, p) PROVE Fits(p)'
      BY <2>1, Zenon DEF Fitting
    <3>1. QED BY <1>0, <1>4, OpenKept, Zenon DEF Fitting
  <2>3. Apart'
    BY <1>0, <2>1, Zenon DEF Apart
  <2>4. QED BY <1>3, <2>2, <2>3, Zenon DEF Located
<1>5. CASE ~ UNCHANGED <<slaveVars, net>>
  <2>1. PICK b \in Batches : Sends(m, c, b)
    BY <1>1, <1>5, Turn, Zenon
  <2>2. /\ sent[m][c] < MaxBatches[m] /\ sent' = [sent EXCEPT ![m][c] = @ + 1]
        /\ batch' = [batch EXCEPT ![m][c] = b]
        /\ respBuf' = [respBuf EXCEPT ![m][c] = [i \in 1 .. Len(b) |-> NoResp]]
        /\ net' = net \cup {Coalesced(m, c, b, n) : n \in Range(b)}
    BY <2>1, Zenon DEF Sends
  <2> DEFINE New(p) == p \in {Coalesced(m, c, b, n) : n \in Range(b)}
  <2>3. ASSUME NEW l \in Places, NEW p \in Datagrams, At(l, p)'
        PROVE  At(l, p) \/ (l = "net" /\ New(p))
    BY <1>2, <2>2, <2>3, Zenon DEF At
  <2>4. ASSUME NEW l \in Places, NEW p \in Datagrams, At(l, p)
        PROVE  ~ (Requester(p) = m /\ p.coro = c)
    BY <1>0, <1>1, <2>4, IdleFree, Zenon
  <2>5. ASSUME NEW p, New(p)
        PROVE  \E n \in Range(b) :
                 /\ p = Coalesced(m, c, b, n) /\ Requester(p) = m /\ p.coro = c /\ Peer(p) = n
                 /\ p.entries = [i \in {j \in 1 .. Len(b) : b[j] = n} |-> <<m, c, sent[m][c] + 1, i>>]
    <3>1. PICK n \in Range(b) : p = Coalesced(m, c, b, n)
      BY <2>5, Zenon
    <3>2. QED BY <1>0, <1>1, <2>2, <3>1, Coalescing
  <2> HIDE DEF New
  <2>6. Fitting'
    <3> SUFFICES ASSUME NEW p \in Datagrams, NEW l \in Places, At(l, p)' PROVE Fits(p)'
      BY Zenon DEF Fitting
    <3>1. CASE At(l, p)
      <4>1. Fits(p) /\ ~ (Requester(p) = m /\ p.coro = c)
        BY <1>0, <2>4, <3>1, Zenon DEF Fitting
      <4>2. Requester(p) \in Machines /\ p.coro \in Slaves
        BY Fields, Zenon
      <4> DEFINE x == Requester(p)
                 d == p.coro
      <4>3. batch'[x][d] = batch[x][d] /\ sent'[x][d] = sent[x][d] /\ respBuf'[x][d] = respBuf[x][d]
        <5> HIDE DEF x, d
        <5>1. x \in Machines /\ d \in Slaves /\ ~ (x = m /\ d = c)
          BY <4>1, <4>2, Zenon DEF x, d
        <5>2. QED BY <5>1, <1>0, <1>1, <2>2, Zenon DEF SlaveTypes
      <4>4. QED BY <4>1, <4>3, FitsKept, Zenon
    <3>2. CASE New(p)
      <4>1. PICK n \in Range(b) :
              /\ p = Coalesced(m, c, b, n) /\ Requester(p) = m /\ p.coro = c /\ Peer(p) = n
              /\ p.entries = [i \in {j \in 1 .. Len(b) : b[j] = n} |-> <<m, c, sent[m][c] + 1, i>>]
        BY <2>5, <3>2, Zenon
      <4>2. /\ batch'[m][c] = b /\ sent'[m][c] = sent[m][c] + 1
            /\ respBuf'[m][c] = [i \in 1 .. Len(b) |-> NoResp]
        BY <1>0, <1>1, <2>2, Zenon DEF SlaveTypes
      <4>3. Part(m, c, n)' = {j \in 1 .. Len(b) : b[j] = n}
        BY <4>2, Zenon DEF Part
      <4>4. \A i : ReqId(m, c, i)' = <<m, c, sent[m][c] + 1, i>>
        BY <4>2, Zenon DEF ReqId
      <4>5. {j \in 1 .. Len(b) : b[j] = n} # {}
        <5>1. b \in Seq(Machines)
          BY RpcAssumption, Zenon
        <5>2. QED BY <5>1 DEF Range
      <4>6. Open(m, c, n, p.entries)'
        BY <4>1, <4>2, <4>3, <4>4, <4>5 DEF Open
      <4>7. QED BY <4>1, <4>6, Zenon DEF Fits
    <3>3. QED BY <2>3, <3>1, <3>2, Zenon
  <2>7. Apart'
    <3> SUFFICES ASSUME NEW p \in Datagrams, NEW q \in Datagrams, NEW l \in Places, NEW k \in Places,
                        At(l, p)', At(k, q)', Slot(p) = Slot(q)
                 PROVE  l = k /\ p = q
      BY Zenon DEF Apart
    <3>1. Requester(p) = Requester(q) /\ p.coro = q.coro /\ Peer(p) = Peer(q)
      BY Zenon DEF Slot
    <3>2. CASE At(l, p) /\ At(k, q)
      BY <1>0, <3>2, Zenon DEF Apart
    <3>3. CASE At(l, p) /\ New(q)
      BY <2>4, <2>5, <3>1, <3>3, Zenon
    <3>4. CASE New(p) /\ At(k, q)
      BY <2>4, <2>5, <3>1, <3>4, Zenon
    <3>5. CASE New(p) /\ New(q) /\ l = "net" /\ k = "net"
      <4>1. /\ p = Coalesced(m, c, b, Peer(p))
            /\ q = Coalesced(m, c, b, Peer(q))
        BY <2>5, <3>5, Zenon
      <4>2. QED BY <3>1, <3>5, <4>1, Zenon
    <3>6. QED BY <2>3, <3>2, <3>3, <3>4, <3>5, Zenon
  <2>8. QED BY <1>3, <2>6, <2>7, Zenon DEF Located
<1>6. QED BY <1>4, <1>5, Zenon

\* The datagrams of a place differ in what they are about, so they are finitely
\* many.
LEMMA FiniteSlots ==
  ASSUME NEW S, S \subseteq Datagrams, \A p, q \in S : Slot(p) = Slot(q) => p = q
  PROVE  IsFiniteSet(S)
<1> DEFINE T == Machines \X (Slaves \X Machines)
           f == [p \in S |-> <<Requester(p), <<p.coro, Peer(p)>>>>]
<1>1. IsFiniteSet(T)
  BY RpcAssumption, FS_Product, Zenon
<1>2. f \in Injection(S, T)
  <2>1. \A p \in S : f[p] \in T
    BY Fields, Zenon
  <2>2. \A p, q \in S : f[p] = f[q] => p = q
    BY Zenon DEF Slot
  <2>3. QED BY <2>1, <2>2, Zenon DEF Injection, IsInjective
<1>3. QED BY <1>1, <1>2, FS_Injection, Zenon

\* So no queue and no batch of responses is infinite.
LEMMA FiniteData ==
  ASSUME DataTypes, Sorted, Apart, NEW m \in Machines
  PROVE  /\ IsFiniteSet(net) /\ IsFiniteSet(cq[m]) /\ IsFiniteSet(wc[m])
         /\ IsFiniteSet(respBatch[m])
<1>1. /\ net \subseteq Datagrams /\ cq[m] \subseteq Datagrams /\ wc[m] \subseteq Datagrams
      /\ respBatch[m] \subseteq Datagrams
  BY Zenon DEF DataTypes
<1>2. /\ \A p \in net : At("net", p)
      /\ \A p \in cq[m] : At("cq", p)
      /\ \A p \in wc[m] : At("wc", p)
      /\ \A p \in respBatch[m] : At("resp", p)
  BY Zenon DEF At, Sorted
<1>3. \A l \in Places : \A p, q \in Datagrams : At(l, p) /\ At(l, q) /\ Slot(p) = Slot(q) => p = q
  BY Zenon DEF Apart
<1>4. {"net", "cq", "wc", "resp"} \subseteq Places
  BY Zenon DEF Places
<1>5. /\ \A p, q \in net : Slot(p) = Slot(q) => p = q
      /\ \A p, q \in cq[m] : Slot(p) = Slot(q) => p = q
      /\ \A p, q \in wc[m] : Slot(p) = Slot(q) => p = q
      /\ \A p, q \in respBatch[m] : Slot(p) = Slot(q) => p = q
  BY <1>1, <1>2, <1>3, <1>4, Zenon
<1>6. QED BY <1>1, <1>5, FiniteSlots, Zenon

\* Polling moves datagrams from the completion queue to the completions.
LEMMA PollLocated ==
  ASSUME RpcInv, NEW m \in Machines, PollNone(m) \/ Poll(m)
  PROVE  Located'
<1>0. DataTypes /\ RecvTypes /\ Sorted /\ Fitting /\ Apart
  BY Zenon DEF RpcInv, Types
<1>1. UNCHANGED slaveVars
  BY Zenon DEF PollNone, Poll
<1>2. CASE PollNone(m)
  <2>1. UNCHANGED <<net, lost, cq, wc, respBatch, polled>>
    BY <1>2, Zenon DEF PollNone, pollVars
  <2>2. \A l, p : At(l, p)' = At(l, p)
    BY <2>1 DEF At
  <2>3. Fitting'
    <3> SUFFICES ASSUME NEW p \in Datagrams, NEW l \in Places, At(l, p) PROVE Fits(p)'
      BY <2>2, Zenon DEF Fitting
    <3>1. QED BY <1>0, <1>1, OpenKept, Zenon DEF Fitting
  <2>4. Apart' /\ Sorted'
    BY <1>0, <2>1, <2>2, Zenon DEF Apart, Sorted
  <2>5. QED BY <2>3, <2>4, Zenon DEF Located
<1>3. CASE Poll(m)
  <2>1. /\ wc' = [wc EXCEPT ![m] = cq[m]] /\ cq' = [cq EXCEPT ![m] = {}]
        /\ respBatch' = [respBatch EXCEPT ![m] = {}] /\ UNCHANGED <<net, lost>>
        /\ polled' = [polled EXCEPT ![m] = Cardinality(cq[m])]
        /\ polled[m] = 0 /\ cq[m] # {}
    BY <1>3, Zenon DEF Poll, MasterPolls
  <2>2. ASSUME NEW l \in Places, NEW p \in Datagrams, At(l, p)'
        PROVE  /\ ~ (l = "cq" /\ p.to = m)
               /\ At(IF l = "wc" /\ p.to = m THEN "cq" ELSE l, p)
    <3>1. p.to \in Machines /\ p.from \in Machines
      BY Fields, Zenon
    <3>2. QED BY <1>0, <2>1, <2>2, <3>1, Zenon DEF At, DataTypes
  <2>3. Fitting'
    <3> SUFFICES ASSUME NEW p \in Datagrams, NEW l \in Places, At(l, p)' PROVE Fits(p)'
      BY Zenon DEF Fitting
    <3>1. PICK k \in Places : At(k, p)
      BY <2>2, Zenon DEF Places
    <3>2. QED BY <1>0, <1>1, <3>1, OpenKept, Zenon DEF Fitting
  <2>4. Apart'
    <3> SUFFICES ASSUME NEW p \in Datagrams, NEW q \in Datagrams, NEW l \in Places, NEW k \in Places,
                        At(l, p)', At(k, q)', Slot(p) = Slot(q)
                 PROVE  l = k /\ p = q
      BY Zenon DEF Apart
    <3> DEFINE From(j, x) == IF j = "wc" /\ x.to = m THEN "cq" ELSE j
    <3>1. At(From(l, p), p) /\ At(From(k, q), q) /\ From(l, p) \in Places /\ From(k, q) \in Places
      BY <2>2, Zenon DEF Places
    <3>2. p = q /\ From(l, p) = From(k, q)
      BY <1>0, <3>1, Zenon DEF Apart
    <3>3. QED BY <2>2, <3>2, Zenon
  <2>5. Sorted'
    <3>1. ASSUME NEW n \in Machines
          PROVE  /\ \A p \in cq'[n] \cup wc'[n] : p.to = n
                 /\ \A p \in respBatch'[n] : p.from = n /\ ~p.isReq
      BY <1>0, <2>1 DEF Sorted, DataTypes
    <3>2. ASSUME NEW n \in Machines, polled'[n] = 0
          PROVE  wc'[n] = {} /\ respBatch'[n] = {}
      <4>1. CASE n # m
        BY <1>0, <2>1, <3>2, <4>1 DEF Sorted, DataTypes, RecvTypes
      <4>2. CASE n = m
        <5>1. IsFiniteSet(cq[m])
          BY <1>0, FiniteData, Zenon
        <5>2. Cardinality(cq[m]) # 0
          BY <2>1, <5>1, FS_EmptySet, Zenon
        <5>3. QED BY <1>0, <2>1, <3>2, <4>2, <5>2, Zenon DEF RecvTypes
      <4>3. QED BY <4>1, <4>2, Zenon
    <3>3. QED BY <3>1, <3>2, Zenon DEF Sorted
  <2>6. QED BY <2>3, <2>4, <2>5, Zenon DEF Located
<1>4. QED BY <1>2, <1>3, Zenon

\* The end of a poll sends the batch of responses.
LEMMA PollEndLocated ==
  ASSUME RpcInv, NEW m \in Machines, PollEnd(m)
  PROVE  Located'
<1>0. DataTypes /\ RecvTypes /\ Sorted /\ Fitting /\ Apart
  BY Zenon DEF RpcInv, Types
<1>1. /\ wc[m] = {} /\ net' = net \cup respBatch[m]
      /\ respBatch' = [respBatch EXCEPT ![m] = {}] /\ polled' = [polled EXCEPT ![m] = 0]
      /\ UNCHANGED <<slaveVars, cq, wc, lost>>
  BY Zenon DEF PollEnd
<1>2. ASSUME NEW l \in Places, NEW p \in Datagrams, At(l, p)'
      PROVE  /\ ~ (l = "resp" /\ p.from = m)
             /\ At(l, p) \/ (l = "net" /\ p.from = m /\ At("resp", p))
  <2>1. p.to \in Machines /\ p.from \in Machines
    BY Fields, Zenon
  <2>2. \A q \in respBatch[m] : q.from = m
    BY <1>0, Zenon DEF Sorted
  <2>3. QED BY <1>0, <1>1, <1>2, <2>1, <2>2, Zenon DEF At, DataTypes
<1>3. Fitting'
  <2> SUFFICES ASSUME NEW p \in Datagrams, NEW l \in Places, At(l, p)' PROVE Fits(p)'
    BY Zenon DEF Fitting
  <2>1. PICK k \in Places : At(k, p)
    BY <1>2, Zenon DEF Places
  <2>2. QED BY <1>0, <1>1, <2>1, OpenKept, Zenon DEF Fitting
<1>4. Apart'
  <2> SUFFICES ASSUME NEW p \in Datagrams, NEW q \in Datagrams, NEW l \in Places, NEW k \in Places,
                      At(l, p)', At(k, q)', Slot(p) = Slot(q)
               PROVE  l = k /\ p = q
    BY Zenon DEF Apart
  <2> DEFINE From(j, x) == IF j = "net" /\ ~ At("net", x) THEN "resp" ELSE j
  <2>1. At(From(l, p), p) /\ At(From(k, q), q) /\ From(l, p) \in Places /\ From(k, q) \in Places
    BY <1>2, Zenon DEF Places
  <2>2. p = q /\ From(l, p) = From(k, q)
    BY <1>0, <2>1, Zenon DEF Apart
  <2>3. QED BY <1>2, <2>2, Zenon
<1>5. Sorted'
  BY <1>0, <1>1 DEF Sorted, DataTypes, RecvTypes
<1>6. QED BY <1>3, <1>4, <1>5, Zenon DEF Located

\* A request leaves the completions and its response joins the batch.
LEMMA HandleReqLocated ==
  ASSUME RpcInv, NEW m \in Machines, NEW p, HandleReq(m, p)
  PROVE  Located'
<1>0. DataTypes /\ RecvTypes /\ Sorted /\ Fitting /\ Apart
  BY Zenon DEF RpcInv, Types
<1>1. p \in Datagrams /\ p.isReq /\ p.to = m /\ p \in wc[m]
  BY <1>0, Zenon DEF HandleReq, DataTypes, Sorted
<1>2. PICK r : r = Reply(m, p)
  OBVIOUS
<1>3. /\ r \in Datagrams /\ ~ r.isReq /\ r.from = m /\ Slot(r) = Slot(p)
      /\ Requester(r) = Requester(p) /\ r.coro = p.coro /\ Peer(r) = Peer(p)
      /\ r.entries = p.entries
  BY <1>1, <1>2, Replying
<1>4. /\ respBatch' = [respBatch EXCEPT ![m] = @ \cup {r}]
      /\ wc' = [wc EXCEPT ![m] = @ \ {p}] /\ UNCHANGED <<net, lost, cq, slaveVars, polled>>
  <2>1. respBatch' = [respBatch EXCEPT ![m] = @ \cup {Reply(m, p)}]
    BY Zenon DEF HandleReq, Reply
  <2>2. QED BY <1>2, <2>1, Zenon DEF HandleReq
<1>5. At("wc", p) /\ "wc" \in Places
  BY <1>1, Zenon DEF At, Places
<1>6. ASSUME NEW l \in Places, NEW q \in Datagrams, At(l, q)'
      PROVE  (At(l, q) /\ q # p) \/ (l = "resp" /\ q = r)
  <2>1. q.to \in Machines /\ q.from \in Machines
    BY Fields, Zenon
  <2>2. (At(l, q) /\ ~ (l = "wc" /\ q = p)) \/ (l = "resp" /\ q = r)
    BY <1>0, <1>1, <1>4, <1>6, <2>1, Zenon DEF At, DataTypes
  <2>3. At(l, q) /\ q = p => l = "wc"
    BY <1>0, <1>1, <1>5, Zenon DEF Apart
  <2>4. QED BY <2>2, <2>3, Zenon
<1>7. Fitting'
  <2> SUFFICES ASSUME NEW q \in Datagrams, NEW l \in Places, At(l, q)' PROVE Fits(q)'
    BY Zenon DEF Fitting
  <2>1. CASE At(l, q)
    BY <1>0, <1>4, <2>1, OpenKept, Zenon DEF Fitting
  <2>2. CASE q = r
    <3>1. Fits(p)
      BY <1>0, <1>1, <1>5, Zenon DEF Fitting
    <3>2. Fits(r)
      BY <1>3, <3>1, Zenon DEF Fits
    <3>3. QED BY <1>3, <1>4, <2>2, <3>2, OpenKept, Zenon
  <2>3. QED BY <1>6, <2>1, <2>2, Zenon
<1>8. Apart'
  <2> SUFFICES ASSUME NEW x \in Datagrams, NEW y \in Datagrams, NEW l \in Places, NEW k \in Places,
                      At(l, x)', At(k, y)', Slot(x) = Slot(y)
               PROVE  l = k /\ x = y
    BY Zenon DEF Apart
  <2>1. ASSUME NEW z \in Datagrams, NEW j \in Places, At(j, z), z # p PROVE Slot(z) # Slot(p)
    BY <1>0, <1>1, <1>5, <2>1, Zenon DEF Apart
  <2>2. CASE At(l, x) /\ At(k, y)
    BY <1>0, <2>2, Zenon DEF Apart
  <2>3. QED BY <1>3, <1>6, <2>1, <2>2, Zenon
<1>9. Sorted'
  <2>1. polled[m] # 0
    BY <1>0, <1>1, Zenon DEF Sorted
  <2>2. ASSUME NEW n \in Machines
        PROVE  /\ \A q \in cq'[n] \cup wc'[n] : q.to = n
               /\ \A q \in respBatch'[n] : q.from = n /\ ~q.isReq
               /\ polled'[n] = 0 => wc'[n] = {} /\ respBatch'[n] = {}
    <3>1. CASE n = m
      BY <1>0, <1>3, <1>4, <2>1, <3>1 DEF Sorted, DataTypes
    <3>2. CASE n # m
      BY <1>0, <1>4, <3>2 DEF Sorted, DataTypes
    <3>3. QED BY <3>1, <3>2, Zenon
  <2>3. QED BY <2>2, Zenon DEF Sorted
<1>10. QED BY <1>7, <1>8, <1>9, Zenon DEF Located

\* A response leaves the completions; the answers it brings were nowhere else.
LEMMA HandleRespLocated ==
  ASSUME RpcInv, NEW m \in Machines, NEW p, HandleResp(m, p)
  PROVE  Located'
<1>0. DataTypes /\ SlaveTypes /\ RecvTypes /\ Sorted /\ Fitting /\ Apart /\ AnswersInv
  BY Zenon DEF RpcInv, Types
<1>1. p \in Datagrams /\ ~p.isReq /\ p.to = m /\ p \in wc[m] /\ p.coro \in Slaves
  BY <1>0, Fields, Zenon DEF HandleResp, DataTypes, Sorted
<1>2. PICK c \in Slaves : c = p.coro
  BY <1>1, Zenon
<1>3. PICK n : n = Peer(p)
  OBVIOUS
<1>4. Requester(p) = m /\ DOMAIN p.entries = Part(m, c, n) /\ At("wc", p) /\ "wc" \in Places
  <2>1. Requester(p) = m /\ At("wc", p) /\ "wc" \in Places
    BY <1>1, Zenon DEF Requester, At, Places
  <2>2. Open(m, c, n, p.entries)
    BY <1>0, <1>1, <1>2, <1>3, <2>1, Zenon DEF Fitting, Fits
  <2>3. QED BY <2>1, <2>2, Zenon DEF Open
<1>5. /\ wc' = [wc EXCEPT ![m] = @ \ {p}]
      /\ UNCHANGED <<net, lost, cq, respBatch, polled, batch, sent>>
      /\ \A x \in Machines, d \in Slaves : ~ (x = m /\ d = c) => respBuf'[x][d] = respBuf[x][d]
      /\ \A i \in DOMAIN respBuf[m][c] \ Part(m, c, n) : respBuf'[m][c][i] = respBuf[m][c][i]
  <2>1. PICK new : new = [i \in DOMAIN respBuf[m][c] |->
                            IF i \in DOMAIN p.entries THEN <<p.from, p.entries[i]>> ELSE respBuf[m][c][i]]
    BY Zenon
  <2>2. respBuf' = [respBuf EXCEPT ![m][c] = new]
    BY <1>2, <2>1, Zenon DEF HandleResp
  <2>3. \A i \in DOMAIN respBuf[m][c] \ Part(m, c, n) : new[i] = respBuf[m][c][i]
    BY <1>4, <2>1, Zenon
  <2>4. respBuf'[m][c] = new
        /\ \A x \in Machines, d \in Slaves : ~ (x = m /\ d = c) => respBuf'[x][d] = respBuf[x][d]
    BY <1>0, <2>2, Zenon DEF SlaveTypes
  <2>5. /\ wc' = [wc EXCEPT ![m] = @ \ {p}]
        /\ UNCHANGED <<net, lost, cq, respBatch, polled, batch, sent>>
    BY Zenon DEF HandleResp
  <2>6. QED BY <2>3, <2>4, <2>5, Zenon
<1>6. ASSUME NEW l \in Places, NEW q \in Datagrams, At(l, q)'
      PROVE  At(l, q) /\ q # p
  <2>1. q.to \in Machines /\ q.from \in Machines
    BY Fields, Zenon
  <2>2. At(l, q) /\ ~ (l = "wc" /\ q = p)
    BY <1>0, <1>1, <1>5, <1>6, <2>1, Zenon DEF At, DataTypes
  <2>3. At(l, q) /\ q = p => l = "wc"
    BY <1>0, <1>1, <1>4, Zenon DEF Apart
  <2>4. QED BY <2>2, <2>3, Zenon
<1>7. Fitting'
  <2> SUFFICES ASSUME NEW q \in Datagrams, NEW l \in Places, At(l, q)' PROVE Fits(q)'
    BY Zenon DEF Fitting
  <2>1. At(l, q) /\ q # p /\ Fits(q)
    BY <1>0, <1>6, Zenon DEF Fitting
  <2>2. Slot(q) # Slot(p)
    BY <1>0, <1>1, <1>4, <2>1, Zenon DEF Apart
  <2>3. PICK x \in Machines, d \in Slaves, y \in Machines : x = Requester(q) /\ d = q.coro /\ y = Peer(q)
    BY Fields, Zenon
  <2>4. \A i \in Part(x, d, y) : respBuf'[x][d][i] = respBuf[x][d][i]
    <3>1. CASE x = m /\ d = c
      <4>1. y # n
        BY <1>2, <1>3, <1>4, <2>2, <2>3, <3>1, Zenon DEF Slot
      <4>2. Part(x, d, y) \subseteq DOMAIN respBuf[m][c] \ Part(m, c, n)
        BY <1>0, <3>1, <4>1, Zenon DEF Part, AnswersInv, Answers
      <4>3. QED BY <1>5, <3>1, <4>2, Zenon
    <3>2. CASE ~ (x = m /\ d = c)
      BY <1>5, <2>3, <3>2, Zenon
    <3>3. QED BY <3>1, <3>2, Zenon
  <2>5. batch'[x][d] = batch[x][d] /\ sent'[x][d] = sent[x][d]
    BY <1>5, Zenon
  <2>6. QED BY <2>1, <2>3, <2>4, <2>5, FitsKept
<1>8. Apart'
  BY <1>0, <1>6, Zenon DEF Apart
<1>9. Sorted'
  <2>1. polled[m] # 0
    BY <1>0, <1>1, Zenon DEF Sorted
  <2>2. QED BY <1>0, <1>5, <2>1 DEF Sorted, DataTypes
<1>10. QED BY <1>7, <1>8, <1>9, Zenon DEF Located

\* Delivery and loss move one datagram from the wire.
LEMMA NetworkLocated ==
  ASSUME RpcInv, NEW p, Deliver(p) \/ Lose(p)
  PROVE  Located'
<1>0. DataTypes /\ Sorted /\ Fitting /\ Apart
  BY Zenon DEF RpcInv, Types
<1>1. p \in Datagrams /\ p.to \in Machines /\ p \in net
  BY <1>0, Fields, Zenon DEF Deliver, Lose, DataTypes
<1>2. UNCHANGED <<slaveVars, wc, respBatch, polled>> /\ net' = net \ {p}
  BY Zenon DEF Deliver, Lose, pollVars
<1>3. \/ lost' = lost \cup {p} /\ cq' = cq
      \/ lost' = lost /\ cq' = [cq EXCEPT ![p.to] = @ \cup {p}]
  BY Zenon DEF Deliver, Lose
<1>4. At("net", p) /\ "net" \in Places
  BY <1>1, Zenon DEF At, Places
<1>5. ASSUME NEW l \in Places, NEW q \in Datagrams, At(l, q)'
      PROVE  \/ At(l, q) /\ q # p
             \/ q = p /\ l = "lost" /\ lost' # lost
             \/ q = p /\ l = "cq" /\ lost' = lost
  <2>1. q.to \in Machines /\ q.from \in Machines
    BY Fields, Zenon
  <2>2. CASE q # p
    BY <1>0, <1>2, <1>3, <1>5, <2>1, <2>2 DEF At, DataTypes
  <2>3. CASE q = p
    <3>1. \A k \in Places : At(k, p) => k = "net"
      BY <1>0, <1>1, <1>4, Zenon DEF Apart
    <3>2. p \notin lost /\ p \notin cq[p.to] /\ p \notin wc[p.to] /\ p \notin respBatch[p.from]
      BY <3>1, Zenon DEF At, Places
    <3>3. QED BY <1>0, <1>2, <1>3, <1>5, <2>1, <2>3, <3>2, Zenon DEF At, DataTypes
  <2>4. QED BY <2>2, <2>3, Zenon
<1>6. Fitting'
  <2> SUFFICES ASSUME NEW q \in Datagrams, NEW l \in Places, At(l, q)' PROVE Fits(q)'
    BY Zenon DEF Fitting
  <2>1. Fits(q)
    BY <1>0, <1>4, <1>5, Zenon DEF Fitting
  <2>2. QED BY <1>2, <2>1, OpenKept, Zenon
<1>7. Apart'
  <2> SUFFICES ASSUME NEW x \in Datagrams, NEW y \in Datagrams, NEW l \in Places, NEW k \in Places,
                      At(l, x)', At(k, y)', Slot(x) = Slot(y)
               PROVE  l = k /\ x = y
    BY Zenon DEF Apart
  <2>1. ASSUME NEW z \in Datagrams, NEW j \in Places, At(j, z), z # p PROVE Slot(z) # Slot(p)
    BY <1>0, <1>1, <1>4, <2>1, Zenon DEF Apart
  <2>2. CASE At(l, x) /\ At(k, y)
    BY <1>0, <2>2, Zenon DEF Apart
  <2>3. QED BY <1>5, <2>1, <2>2
<1>8. Sorted'
  BY <1>0, <1>1, <1>2, <1>3 DEF Sorted, DataTypes
<1>9. QED BY <1>6, <1>7, <1>8, Zenon DEF Located

-----------------------------------------------------------------------------
(* The answers.                                                            *)

\* What has been answered of the other coroutines does not change.
LEMMA AnswersKept ==
  ASSUME NEW m, NEW c, batch'[m][c] = batch[m][c], numReqsDone'[m][c] = numReqsDone[m][c],
         respBuf'[m][c] = respBuf[m][c], sent'[m][c] = sent[m][c]
  PROVE  /\ Answered(m, c)' = Answered(m, c)
         /\ \A n : Part(m, c, n)' = Part(m, c, n)
         /\ Idle(m, c)' = Idle(m, c)
         /\ Answers(m, c) => Answers(m, c)'
<1>1. Answered(m, c)' = Answered(m, c)
  BY Zenon DEF Answered
<1>2. \A n : Part(m, c, n)' = Part(m, c, n)
  BY Zenon DEF Part
<1>3. Idle(m, c)' = Idle(m, c)
  BY <1>1, Zenon DEF Idle
<1>4. \A i : ReqId(m, c, i)' = ReqId(m, c, i)
  BY Zenon DEF ReqId
<1>5. Answers(m, c) => Answers(m, c)'
  BY <1>1, <1>4, Zenon DEF Answers
<1>6. QED BY <1>1, <1>2, <1>3, <1>5, Zenon

\* A new batch begins without answers.
LEMMA SlaveTurnAnswers ==
  ASSUME RpcInv, NEW m \in Machines, SlaveTurn(m)
  PROVE  AnswersInv'
<1>0. Types /\ SlaveTypes /\ AnswersInv
  BY Zenon DEF RpcInv, Types
<1>1. PICK c \in Slaves : c = running[m]
  BY RunningIdle, Zenon DEF SlaveTurn
<1> SUFFICES ASSUME NEW x \in Machines, NEW d \in Slaves PROVE Answers(x, d)'
  BY Zenon DEF AnswersInv
<1>2. Answers(x, d)
  BY <1>0, Zenon DEF AnswersInv
<1>3. CASE UNCHANGED <<slaveVars, net>>
  BY <1>2, <1>3, AnswersKept, Zenon DEF slaveVars
<1>4. CASE \E b \in Batches : Sends(m, c, b)
  <2>1. PICK b \in Batches : Sends(m, c, b)
    BY <1>4, Zenon
  <2>2. CASE ~ (x = m /\ d = c)
    BY <1>0, <1>2, <2>1, <2>2, AnswersKept, Zenon DEF Sends, SlaveTypes
  <2>3. CASE x = m /\ d = c
    <3>1. /\ batch'[m][c] = b /\ numReqsDone'[m][c] = 0 /\ sent'[m][c] = sent[m][c] + 1
          /\ respBuf'[m][c] = [i \in 1 .. Len(b) |-> NoResp]
          /\ sent[m][c] \in Nat
      BY <1>0, <2>1, Zenon DEF Sends, SlaveTypes
    <3>2. Answered(m, c)' = {}
      BY <3>1, Zenon DEF Answered
    <3>3. Cardinality(Answered(m, c)') = 0
      BY <3>2, FS_EmptySet, Zenon
    <3>4. sent'[m][c] # 0
      BY <3>1
    <3>5. /\ DOMAIN respBuf'[m][c] = 1 .. Len(batch'[m][c])
          /\ \A i \in 1 .. Len(batch'[m][c]) : respBuf'[m][c][i] = NoResp
      BY <3>1, Zenon
    <3>6. Answers(m, c)'
      BY <3>1, <3>3, <3>4, <3>5, Zenon DEF Answers
    <3>7. QED BY <2>3, <3>6, Zenon
  <2>4. QED BY <2>2, <2>3, Zenon
<1>5. QED BY <1>1, <1>3, <1>4, Turn, Zenon

\* A response answers the requests to the machine n that it comes from, which were
\* not answered.
Responded(m, c, n) ==
  /\ Part(m, c, n) # {} /\ Part(m, c, n) \cap Answered(m, c) = {}
  /\ Answered(m, c)' = Answered(m, c) \cup Part(m, c, n)
  /\ numReqsDone'[m][c] = numReqsDone[m][c] + Cardinality(Part(m, c, n))
  /\ DOMAIN respBuf'[m][c] = 1 .. Len(batch[m][c])
  /\ \A i \in 1 .. Len(batch[m][c]) : respBuf'[m][c][i] =
       IF i \in Part(m, c, n) THEN <<batch[m][c][i], ReqId(m, c, i)>> ELSE respBuf[m][c][i]

\* What poll_comps() does with a response: it fills the buffers of this batch that
\* were waiting for the machine.
LEMMA Response ==
  ASSUME RpcInv, NEW m \in Machines, NEW p, HandleResp(m, p),
         NEW c, NEW n, c = p.coro, n = Peer(p)
  PROVE  /\ p \in Datagrams /\ c \in Slaves /\ n \in Machines /\ n = p.from /\ p \in wc[m]
         /\ DOMAIN p.entries = Part(m, c, n) /\ Responded(m, c, n)
<1>0. DataTypes /\ SlaveTypes /\ Sorted /\ Fitting /\ Answers(m, c)
  <2>1. c \in Slaves
    BY Fields, Zenon DEF RpcInv, Types, DataTypes, HandleResp
  <2>2. QED BY <2>1, Zenon DEF RpcInv, Types, AnswersInv
<1>1. p \in Datagrams /\ ~p.isReq /\ p.to = m /\ p \in wc[m]
  BY <1>0, Zenon DEF HandleResp, DataTypes, Sorted
<1>2. c \in Slaves /\ n \in Machines /\ n = p.from /\ Requester(p) = m
  BY <1>1, Fields, Zenon DEF Requester, Peer
<1>3. Open(m, c, n, p.entries)
  <2>1. At("wc", p) /\ "wc" \in Places
    BY <1>1, Zenon DEF At, Places
  <2>2. QED BY <1>0, <1>1, <1>2, <2>1, Zenon DEF Fitting, Fits
<1>4. /\ DOMAIN p.entries = Part(m, c, n) /\ Part(m, c, n) # {}
      /\ \A i \in Part(m, c, n) : p.entries[i] = ReqId(m, c, i) /\ respBuf[m][c][i] = NoResp
  BY <1>3, Zenon DEF Open
<1>5. Part(m, c, n) \cap Answered(m, c) = {}
  BY <1>4, Zenon DEF Answered
<1>6. numReqsDone'[m][c] = numReqsDone[m][c] + Cardinality(Part(m, c, n)) /\ batch' = batch
  BY <1>0, <1>2, <1>4, Zenon DEF HandleResp, SlaveTypes
<1>7. DOMAIN respBuf[m][c] = 1 .. Len(batch[m][c])
  BY <1>0, Zenon DEF Answers
<1>8. respBuf'[m][c] = [i \in DOMAIN respBuf[m][c] |->
                          IF i \in DOMAIN p.entries THEN <<p.from, p.entries[i]>> ELSE respBuf[m][c][i]]
  BY <1>0, <1>2, Zenon DEF HandleResp, SlaveTypes
<1>9. \A i \in Part(m, c, n) : batch[m][c][i] = n /\ i \in 1 .. Len(batch[m][c])
  BY Zenon DEF Part
<1>10. /\ DOMAIN respBuf'[m][c] = 1 .. Len(batch[m][c])
       /\ \A i \in 1 .. Len(batch[m][c]) : respBuf'[m][c][i] =
            IF i \in Part(m, c, n) THEN <<batch[m][c][i], ReqId(m, c, i)>> ELSE respBuf[m][c][i]
  <2>1. \A i \in Part(m, c, n) : <<p.from, p.entries[i]>> = <<batch[m][c][i], ReqId(m, c, i)>>
    BY <1>2, <1>4, <1>9, Zenon
  <2>2. QED BY <1>4, <1>7, <1>8, <2>1, Zenon
<1>11. Answered(m, c)' = Answered(m, c) \cup Part(m, c, n)
  <2>1. \A a, b : <<a, b>> # NoResp
    BY Zenon DEF NoResp
  <2>2. Answered(m, c)' = {i \in 1 .. Len(batch[m][c]) : respBuf'[m][c][i] # NoResp}
    BY <1>6, Zenon DEF Answered
  <2>3. ASSUME NEW i \in 1 .. Len(batch[m][c])
        PROVE  respBuf'[m][c][i] # NoResp <=> i \in Answered(m, c) \cup Part(m, c, n)
    <3>1. CASE i \in Part(m, c, n)
      <4>1. respBuf'[m][c][i] = <<batch[m][c][i], ReqId(m, c, i)>>
        BY <1>10, <3>1, Zenon
      <4>2. QED BY <2>1, <3>1, <4>1, Zenon
    <3>2. CASE i \notin Part(m, c, n)
      <4>1. respBuf'[m][c][i] = respBuf[m][c][i]
        BY <1>10, <3>2, Zenon
      <4>2. QED BY <3>2, <4>1, Zenon DEF Answered
    <3>3. QED BY <3>1, <3>2, Zenon
  <2>4. Answered(m, c) \cup Part(m, c, n) \subseteq 1 .. Len(batch[m][c])
    BY <1>9, Zenon DEF Answered
  <2>5. QED BY <2>2, <2>3, <2>4, Zenon
<1>12. QED BY <1>1, <1>2, <1>4, <1>5, <1>6, <1>10, <1>11, Zenon DEF Responded

\* A response concerns one coroutine.
LEMMA RespondedOthers ==
  ASSUME RpcInv, NEW m \in Machines, NEW p, HandleResp(m, p),
         NEW x \in Machines, NEW d \in Slaves, ~ (x = m /\ d = p.coro)
  PROVE  /\ batch'[x][d] = batch[x][d] /\ numReqsDone'[x][d] = numReqsDone[x][d]
         /\ respBuf'[x][d] = respBuf[x][d] /\ sent'[x][d] = sent[x][d]
<1>0. SlaveTypes
  BY Zenon DEF RpcInv, Types
<1>1. QED BY <1>0, Zenon DEF HandleResp, SlaveTypes

\* num_reqs_done goes up by the answers in the response.
LEMMA HandleRespAnswers ==
  ASSUME RpcInv, NEW m \in Machines, NEW p, HandleResp(m, p)
  PROVE  AnswersInv'
<1>0. Types /\ AnswersInv /\ UNCHANGED <<batch, sent>>
  BY Zenon DEF RpcInv, HandleResp
<1> SUFFICES ASSUME NEW x \in Machines, NEW d \in Slaves PROVE Answers(x, d)'
  BY Zenon DEF AnswersInv
<1>1. Answers(x, d)
  BY <1>0, Zenon DEF AnswersInv
<1>2. CASE ~ (x = m /\ d = p.coro)
  BY <1>1, <1>2, RespondedOthers, AnswersKept
<1>3. CASE x = m /\ d = p.coro
  <2>1. PICK n : n = Peer(p)
    OBVIOUS
  <2> DEFINE A == Answered(m, d)
             P == Part(m, d, n)
  <2>2. /\ P \cap A = {} /\ Answered(m, d)' = A \cup P
        /\ numReqsDone'[m][d] = numReqsDone[m][d] + Cardinality(P)
        /\ DOMAIN respBuf'[m][d] = 1 .. Len(batch[m][d])
        /\ \A i \in 1 .. Len(batch[m][d]) : respBuf'[m][d][i] =
             IF i \in P THEN <<batch[m][d][i], ReqId(m, d, i)>> ELSE respBuf[m][d][i]
    <3>1. Responded(m, d, n)
      BY <1>3, <2>1, Response, Zenon
    <3>2. QED BY <3>1, Zenon DEF Responded
  <2>3. numReqsDone[m][d] = Cardinality(A)
    BY <1>1, <1>3, Zenon DEF Answers
  <2>4. IsFiniteSet(A) /\ IsFiniteSet(P)
    <3>1. Len(batch[m][d]) \in Nat
      BY <1>0, Batch
    <3>2. IsFiniteSet(1 .. Len(batch[m][d]))
      BY <3>1, FS_Interval
    <3>3. A \subseteq 1 .. Len(batch[m][d]) /\ P \subseteq 1 .. Len(batch[m][d])
      BY Zenon DEF Answered, Part
    <3>4. QED BY <3>2, <3>3, FS_Subset, Zenon
  <2>5. numReqsDone'[m][d] = Cardinality(Answered(m, d)')
    <3> HIDE DEF A, P
    <3>1. Cardinality(A \cup P) = Cardinality(A) + Cardinality(P) - Cardinality(A \cap P)
      BY <2>4, FS_Union, Zenon
    <3>2. Cardinality(A \cap P) = 0 /\ Cardinality(A) \in Nat /\ Cardinality(P) \in Nat
      <4>1. A \cap P = {}
        BY <2>2, Zenon
      <4>2. QED BY <4>1, <2>4, FS_EmptySet, FS_CardinalityType, Zenon
    <3>3. QED BY <2>2, <2>3, <3>1, <3>2
  <2>6. \A i : ReqId(m, d, i)' = ReqId(m, d, i)
    BY <1>0, Zenon DEF ReqId
  <2>7. ASSUME NEW i \in 1 .. Len(batch[m][d])
        PROVE  respBuf'[m][d][i] \in {NoResp, <<batch[m][d][i], ReqId(m, d, i)>>}
    <3>1. respBuf[m][d][i] \in {NoResp, <<batch[m][d][i], ReqId(m, d, i)>>}
      BY <1>1, <1>3, Zenon DEF Answers
    <3>2. respBuf'[m][d][i] = <<batch[m][d][i], ReqId(m, d, i)>> \/ respBuf'[m][d][i] = respBuf[m][d][i]
      BY <2>2, Zenon
    <3>3. QED BY <3>1, <3>2, Zenon
  <2>8. sent'[m][d] = 0 => batch'[m][d] = <<>>
    BY <1>0, <1>1, <1>3, Zenon DEF Answers
  <2>9. Answers(m, d)'
    BY <1>0, <2>2, <2>5, <2>6, <2>7, <2>8, Zenon DEF Answers
  <2>10. QED BY <1>3, <2>9, Zenon
<1>4. QED BY <1>2, <1>3, Zenon

-----------------------------------------------------------------------------
(* The ring.                                                               *)

\* The master is not one of the slaves.
LEMMA NotMaster == Master \notin Slaves
<1>1. PICK n : Slaves = 1 .. n
  BY RpcAssumption, Zenon
<1>2. 0 \notin 1 .. n
  OBVIOUS
<1>3. QED BY <1>1, <1>2, Zenon DEF Master

\* What the ring says of its members.
LEMMA WayFacts ==
  ASSUME NEW m, NEW ring \in Seq(Coros), Way(m, ring)
  PROVE  /\ Len(ring) \in Nat \ {0} /\ \A i \in 1 .. Len(ring) : ring[i] \in Coros
         /\ \A i \in 1 .. Len(ring) - 1 : ring[i + 1] = nextCoro[m][ring[i]]
         /\ \A i, j \in 1 .. Len(ring) : ring[i] = ring[j] => i = j
         /\ \A i \in 1 .. Len(ring) : ring[i] # Master => Idle(m, ring[i])
<1>1. Len(ring) \in Nat \ {0} /\ \A i \in 1 .. Len(ring) : ring[i] \in Coros
  BY DEF Way
<1>2. QED BY <1>1, Zenon DEF Way, Linked

\* A sequence is named by its elements.
LEMMA MakeSeq ==
  ASSUME NEW n \in Nat, NEW f \in [1 .. n -> Coros]
  PROVE  f \in Seq(Coros) /\ Len(f) = n
OBVIOUS

\* The ring of a thread is kept by all that other threads and the network do.
LEMMA WayKept ==
  ASSUME NEW m, NEW ring, Way(m, ring),
         nextCoro'[m] = nextCoro[m], running'[m] = running[m],
         polled'[m] = polled[m], curComp'[m] = curComp[m],
         \A i \in 1 .. Len(ring) : Idle(m, ring[i]) => Idle(m, ring[i])'
  PROVE  Way(m, ring)'
<1>1. Linked(m, ring)'
  BY Zenon DEF Way, Linked
<1>2. QED BY <1>1, Zenon DEF Way

\* Who has all answers keeps them until the next batch.
LEMMA IdleKept ==
  ASSUME UNCHANGED slaveVars, NEW m, NEW c, Idle(m, c)
  PROVE  Idle(m, c)'
BY AnswersKept, Zenon DEF slaveVars

\* A slave's turn takes the first coroutine off the ring.
LEMMA SlaveTurnRing ==
  ASSUME RpcInv, NEW m \in Machines, SlaveTurn(m)
  PROVE  RingInv'
<1>0. Types /\ SlaveTypes /\ LoopTypes /\ RingInv
  BY Zenon DEF RpcInv, Types
<1>1. PICK c \in Slaves : c = running[m] /\ polled[m] = 0
  BY RunningIdle, Zenon DEF SlaveTurn
<1>2. /\ running' = [running EXCEPT ![m] = nextCoro[m][c]]
      /\ UNCHANGED <<nextCoro, polled, curComp>>
  BY <1>1, Zenon DEF SlaveTurn, pollVars
<1>3. ASSUME NEW x \in Machines, NEW d \in Slaves, ~ (x = m /\ d = c)
      PROVE  Idle(x, d) => Idle(x, d)'
  <2>1. CASE UNCHANGED <<slaveVars, net>>
    BY <2>1, IdleKept, Zenon
  <2>2. CASE \E b \in Batches : Sends(m, c, b)
    <3>1. PICK b \in Batches : Sends(m, c, b)
      BY <2>2, Zenon
    <3>2. /\ batch'[x][d] = batch[x][d] /\ numReqsDone'[x][d] = numReqsDone[x][d]
          /\ respBuf'[x][d] = respBuf[x][d] /\ sent'[x][d] = sent[x][d]
      BY <1>0, <1>3, <3>1, Zenon DEF Sends, SlaveTypes
    <3>3. QED BY <3>2, AnswersKept, Zenon
  <2>3. QED BY <1>1, <2>1, <2>2, Turn, Zenon
<1>4. ASSUME NEW x \in Machines PROVE \E ring \in Seq(Coros) : Way(x, ring)'
  <2>1. PICK ring \in Seq(Coros) : Way(x, ring)
    BY <1>0, Zenon DEF RingInv
  <2>2. /\ Len(ring) \in Nat \ {0} /\ \A i \in 1 .. Len(ring) : ring[i] \in Coros
        /\ \A i \in 1 .. Len(ring) - 1 : ring[i + 1] = nextCoro[x][ring[i]]
        /\ \A i, j \in 1 .. Len(ring) : ring[i] = ring[j] => i = j
        /\ \A i \in 1 .. Len(ring) : ring[i] # Master => Idle(x, ring[i])
    BY <2>1, WayFacts, Zenon
  <2>3. CASE x # m
    <3>1. running'[x] = running[x]
      BY <1>0, <1>2, <2>3, Zenon DEF LoopTypes
    <3>2. \A i \in 1 .. Len(ring) : ring[i] # Master => Idle(x, ring[i])'
      BY <1>3, <2>2, <2>3, Zenon DEF Coros
    <3>3. Linked(x, ring)'
      BY <1>2, <2>1, Zenon DEF Linked, Way
    <3>4. Way(x, ring)'
      BY <1>2, <2>1, <3>1, <3>2, <3>3, Zenon DEF Way
    <3>5. QED BY <3>4, Zenon
  <2>4. CASE x = m
    <3> DEFINE n == Len(ring) - 1
               rest == [i \in 1 .. n |-> ring[i + 1]]
    <3>1. ring[1] = c /\ ring[Len(ring)] = Master /\ c # Master
      BY <1>1, <2>1, <2>4, NotMaster, Zenon DEF Way
    <3>2. n \in Nat \ {0}
      BY <2>2, <3>1
    <3>3. rest \in [1 .. n -> Coros]
      BY <2>2, <3>2
    <3>4. rest \in Seq(Coros) /\ Len(rest) = n
      BY <3>2, <3>3, MakeSeq, Zenon
    <3>5. \A i \in 1 .. n : rest[i] = ring[i + 1]
      OBVIOUS
    <3> HIDE DEF rest
    <3>6. Linked(m, rest)'
      <4>1. \A i \in 1 .. n - 1 : rest[i + 1] = nextCoro'[m][rest[i]]
        BY <1>2, <2>2, <2>4, <3>2, <3>5
      <4>2. \A i, j \in 1 .. n : rest[i] = rest[j] => i = j
        <5> SUFFICES ASSUME NEW i \in 1 .. n, NEW j \in 1 .. n, rest[i] = rest[j] PROVE i = j
          BY Zenon
        <5>1. i + 1 \in 1 .. Len(ring) /\ j + 1 \in 1 .. Len(ring) /\ ring[i + 1] = ring[j + 1]
          BY <2>2, <3>2, <3>5
        <5>2. i + 1 = j + 1
          BY <2>2, <5>1, Zenon
        <5>3. QED BY <5>2
      <4>3. QED BY <3>4, <4>1, <4>2, Zenon DEF Linked
    <3>7. \A i \in 1 .. n : rest[i] # Master => Idle(m, rest[i])'
      <4> SUFFICES ASSUME NEW i \in 1 .. n, rest[i] # Master PROVE Idle(m, rest[i])'
        OBVIOUS
      <4>1. i + 1 \in 1 .. Len(ring) /\ rest[i] = ring[i + 1] /\ 1 \in 1 .. Len(ring) /\ i + 1 # 1
        BY <2>2, <3>2, <3>5
      <4>2. rest[i] \in Slaves /\ rest[i] # c /\ Idle(m, rest[i])
        BY <2>2, <2>4, <3>1, <4>1, Zenon DEF Coros
      <4>3. QED BY <1>3, <4>2, Zenon
    <3>8. rest[1] = running'[m] /\ rest[n] = Master
      BY <1>0, <1>2, <2>2, <2>4, <3>1, <3>2, <3>5 DEF LoopTypes
    <3>9. polled'[m] = 0
      BY <1>1, <1>2, Zenon
    <3>10. rest # <<>>
      BY <3>2, <3>4, Zenon
    <3>11. Way(m, rest)'
      BY <3>4, <3>6, <3>7, <3>8, <3>9, <3>10, Zenon DEF Way
    <3>12. QED BY <2>4, <3>4, <3>11, Zenon
  <2>5. QED BY <2>3, <2>4, Zenon
<1>5. QED BY <1>4, Zenon DEF RingInv

\* A thread whose own poll has nothing in its ring yet has it empty.
LEMMA PollRing ==
  ASSUME RpcInv, NEW m \in Machines,
         PollNone(m) \/ (Poll(m) /\ Cardinality(cq[m]) \in Nat \ {0})
  PROVE  RingInv'
<1>0. LoopTypes /\ RecvTypes /\ RingInv
  BY Zenon DEF RpcInv, Types
<1>1. UNCHANGED <<running, slaveVars>> /\ running[m] = Master /\ polled[m] = 0
  BY Zenon DEF PollNone, Poll, MasterPolls
<1>2. ASSUME NEW x \in Machines PROVE \E ring \in Seq(Coros) : Way(x, ring)'
  <2>1. PICK ring \in Seq(Coros) : Way(x, ring)
    BY <1>0, Zenon DEF RingInv
  <2>2. CASE x # m
    <3>1. nextCoro'[x] = nextCoro[x] /\ polled'[x] = polled[x] /\ curComp'[x] = curComp[x]
      BY <1>0, <2>2, Zenon DEF PollNone, Poll, pollVars, LoopTypes, RecvTypes
    <3>2. Way(x, ring)'
      BY <1>1, <2>1, <3>1, WayKept, IdleKept, Zenon
    <3>3. QED BY <3>2, Zenon
  <2>3. CASE x = m
    <3>1. \/ polled'[m] = 0
          \/ polled'[m] # 0 /\ curComp'[m] = Master
      BY <1>0, <1>1, Zenon DEF PollNone, Poll, pollVars, LoopTypes, RecvTypes
    <3>2. <<Master>> \in Seq(Coros) /\ Len(<<Master>>) = 1 /\ <<Master>>[1] = Master /\ <<Master>> # <<>>
      BY DEF Coros
    <3>3. Linked(m, <<Master>>)'
      BY <3>2 DEF Linked
    <3>4. Way(m, <<Master>>)'
      BY <1>1, <3>1, <3>2, <3>3 DEF Way
    <3>5. QED BY <2>3, <3>2, <3>4, Zenon
  <2>4. QED BY <2>2, <2>3, Zenon
<1>3. QED BY <1>2, Zenon DEF RingInv

\* At the end of a poll cur_comp_coro is linked to the master.
LEMMA PollEndRing ==
  ASSUME RpcInv, NEW m \in Machines, PollEnd(m)
  PROVE  RingInv'
<1>0. LoopTypes /\ RecvTypes /\ RingInv
  BY Zenon DEF RpcInv, Types
<1>1. /\ UNCHANGED slaveVars /\ polled[m] > 0 /\ polled' = [polled EXCEPT ![m] = 0]
      /\ nextCoro' = [nextCoro EXCEPT ![m][curComp[m]] = Master]
      /\ running' = [running EXCEPT ![m] = nextCoro'[m][Master]]
      /\ curComp' = [curComp EXCEPT ![m] = Master]
  BY Zenon DEF PollEnd
<1>2. ASSUME NEW x \in Machines PROVE \E ring \in Seq(Coros) : Way(x, ring)'
  <2>1. PICK ring \in Seq(Coros) : Way(x, ring)
    BY <1>0, Zenon DEF RingInv
  <2>2. CASE x # m
    <3>1. /\ nextCoro'[x] = nextCoro[x] /\ polled'[x] = polled[x] /\ curComp'[x] = curComp[x]
          /\ running'[x] = running[x]
      BY <1>0, <1>1, <2>2, Zenon DEF LoopTypes, RecvTypes
    <3>2. Way(x, ring)'
      BY <1>1, <2>1, <3>1, WayKept, IdleKept, Zenon
    <3>3. QED BY <3>2, Zenon
  <2>3. CASE x = m
    <3> DEFINE n == Len(ring)
               next == [i \in 1 .. n |-> IF i = n THEN Master ELSE ring[i + 1]]
    <3>1. /\ n \in Nat \ {0} /\ \A i \in 1 .. n : ring[i] \in Coros
          /\ \A i \in 1 .. n - 1 : ring[i + 1] = nextCoro[m][ring[i]]
          /\ \A i, j \in 1 .. n : ring[i] = ring[j] => i = j
          /\ \A i \in 1 .. n : ring[i] # Master => Idle(m, ring[i])
      BY <2>1, <2>3, WayFacts, Zenon
    <3>2. ring[1] = Master /\ ring[n] = curComp[m]
      <4>1. polled[m] # 0
        BY <1>0, <1>1 DEF RecvTypes
      <4>2. QED BY <2>1, <2>3, <4>1, Zenon DEF Way
    <3>3. \A i \in 1 .. n : i # n => i + 1 \in 1 .. n /\ i \in 1 .. n - 1
      BY <3>1
    <3>4. next \in [1 .. n -> Coros]
      BY <3>1, <3>3, Zenon DEF Coros
    <3>5. next \in Seq(Coros) /\ Len(next) = n
      BY <3>1, <3>4, MakeSeq, Zenon
    <3>6. \A i \in 1 .. n : next[i] = IF i = n THEN Master ELSE ring[i + 1]
      OBVIOUS
    <3> HIDE DEF next, n
    <3>7. ASSUME NEW i \in 1 .. n
          PROVE  nextCoro'[m][ring[i]] = next[i]
      <4>1. ring[i] \in Coros
        BY <3>1, Zenon
      <4>2. CASE i = n
        BY <1>0, <1>1, <3>2, <3>6, <4>1, <4>2, Zenon DEF LoopTypes
      <4>3. CASE i # n
        <5>1. ring[i] # curComp[m]
          BY <3>1, <3>2, <4>3
        <5>2. nextCoro'[m][ring[i]] = nextCoro[m][ring[i]]
          BY <1>0, <1>1, <4>1, <5>1, Zenon DEF LoopTypes
        <5>3. QED BY <3>1, <3>3, <3>6, <4>3, <5>2, Zenon
      <4>4. QED BY <4>2, <4>3, Zenon
    <3>8. Linked(m, next)'
      <4>1. \A i \in 1 .. n - 1 : next[i + 1] = nextCoro'[m][next[i]]
        <5> SUFFICES ASSUME NEW i \in 1 .. n - 1 PROVE next[i + 1] = nextCoro'[m][next[i]]
          OBVIOUS
        <5>1. i \in 1 .. n /\ i # n /\ i + 1 \in 1 .. n
          BY <3>1
        <5>2. next[i] = ring[i + 1]
          BY <3>6, <5>1, Zenon
        <5>3. QED BY <3>7, <5>1, <5>2, Zenon
      <4>2. ASSUME NEW i \in 1 .. n, NEW j \in 1 .. n, next[i] = next[j] PROVE i = j
        <5>1. 1 \in 1 .. n
          BY <3>1
        <5>2. CASE i # n /\ j # n
          <6>1. i + 1 \in 1 .. n /\ j + 1 \in 1 .. n /\ ring[i + 1] = ring[j + 1]
            BY <3>3, <3>6, <4>2, <5>2, Zenon
          <6>2. i + 1 = j + 1
            BY <3>1, <6>1, Zenon
          <6>3. QED BY <6>2
        <5>3. ASSUME NEW k \in 1 .. n, k # n PROVE next[k] # Master
          <6>1. k + 1 \in 1 .. n /\ next[k] = ring[k + 1] /\ k + 1 # 1
            BY <3>3, <3>6, <5>3
          <6>2. QED BY <3>1, <3>2, <5>1, <6>1, Zenon
        <5>4. next[n] = Master
          BY <3>1, <3>6
        <5>5. QED BY <4>2, <5>2, <5>3, <5>4, Zenon
      <4>3. QED BY <3>5, <4>1, <4>2, Zenon DEF Linked
    <3>9. ASSUME NEW i \in 1 .. n, next[i] # Master PROVE Idle(m, next[i])'
      <4>1. i # n /\ i + 1 \in 1 .. n /\ next[i] = ring[i + 1]
        BY <3>3, <3>6, <3>9, Zenon
      <4>2. Idle(m, next[i])
        BY <3>1, <3>9, <4>1, Zenon
      <4>3. QED BY <1>1, <4>2, IdleKept, Zenon
    <3>10. /\ polled'[m] = 0 /\ next # <<>> /\ next[n] = Master
           /\ next[1] = running'[m]
      <4>1. 1 \in 1 .. n /\ n \in 1 .. n
        BY <3>1
      <4>2. running'[m] = next[1]
        BY <1>0, <1>1, <3>2, <3>7, <4>1, Zenon DEF LoopTypes
      <4>3. polled'[m] = 0 /\ next # <<>>
        BY <1>0, <1>1, <3>1, <3>5, Zenon DEF RecvTypes
      <4>4. QED BY <3>6, <4>1, <4>2, <4>3, Zenon
    <3>11. Way(m, next)'
      BY <3>5, <3>8, <3>9, <3>10, Zenon DEF Way
    <3>12. QED BY <2>3, <3>5, <3>11, Zenon
  <2>4. QED BY <2>2, <2>3, Zenon
<1>3. QED BY <1>2, Zenon DEF RingInv

\* A coroutine is idle once num_reqs_done has reached the size of its batch.
Counted ==
  \A m \in Machines, c \in Slaves : numReqsDone[m][c] = Len(batch[m][c]) => Idle(m, c)

\* The comparison of num_reqs_done with the size of the batch tells who is idle.
LEMMA CountedIdle == Types /\ AnswersInv => Counted
<1> SUFFICES ASSUME Types, AnswersInv, NEW m \in Machines, NEW c \in Slaves,
                    numReqsDone[m][c] = Len(batch[m][c])
             PROVE  Idle(m, c)
  BY Zenon DEF Counted
<1> DEFINE n == Len(batch[m][c])
<1>1. n \in Nat
  BY Batch
<1>2. IsFiniteSet(1 .. n) /\ Cardinality(1 .. n) = n
  BY <1>1, FS_Interval
<1>3. Answered(m, c) \in SUBSET (1 .. n) /\ Cardinality(Answered(m, c)) = n
  BY Zenon DEF Answered, AnswersInv, Answers
<1>4. Answered(m, c) = 1 .. n
  BY <1>2, <1>3, FS_Subset, Zenon
<1>5. QED BY <1>4, Zenon DEF Idle

\* A response that completes a batch appends its coroutine, which was not in the ring.
LEMMA HandleRespRing ==
  ASSUME RpcInv, Types', AnswersInv', NEW m \in Machines, NEW p, HandleResp(m, p)
  PROVE  RingInv'
<1>0. LoopTypes /\ RecvTypes /\ DataTypes /\ SlaveTypes /\ RingInv /\ Sorted /\ Fitting
  BY Zenon DEF RpcInv, Types
<1>1. p \in Datagrams /\ p \in wc[m] /\ ~p.isReq /\ p.to = m /\ polled[m] # 0
  BY <1>0, Zenon DEF HandleResp, DataTypes, Sorted
<1>2. PICK c \in Slaves : c = p.coro
  BY <1>1, Fields, Zenon
<1>3. UNCHANGED <<running, polled, batch>>
  BY Zenon DEF HandleResp
<1>4. ASSUME NEW x \in Machines, NEW d \in Coros, d # Master, Idle(x, d)
      PROVE  ~ (x = m /\ d = c) /\ Idle(x, d)'
  <2>1. At("wc", p) /\ "wc" \in Places /\ Requester(p) = m
    BY <1>1, Zenon DEF At, Places, Requester
  <2>2. ~ (x = m /\ d = c)
    BY <1>0, <1>1, <1>2, <1>4, <2>1, IdleFree, Zenon
  <2>3. d \in Slaves
    BY <1>4, Zenon DEF Coros
  <2>4. /\ batch'[x][d] = batch[x][d] /\ numReqsDone'[x][d] = numReqsDone[x][d]
        /\ respBuf'[x][d] = respBuf[x][d] /\ sent'[x][d] = sent[x][d]
    BY <1>2, <2>2, <2>3, RespondedOthers
  <2>5. QED BY <1>4, <2>2, <2>4, AnswersKept, Zenon
<1>5. ASSUME NEW x \in Machines PROVE \E ring \in Seq(Coros) : Way(x, ring)'
  <2>1. PICK ring \in Seq(Coros) : Way(x, ring)
    BY <1>0, Zenon DEF RingInv
  <2> DEFINE n == Len(ring)
  <2>2. /\ n \in Nat \ {0} /\ \A i \in 1 .. n : ring[i] \in Coros
        /\ \A i \in 1 .. n - 1 : ring[i + 1] = nextCoro[x][ring[i]]
        /\ \A i, j \in 1 .. n : ring[i] = ring[j] => i = j
        /\ \A i \in 1 .. n : ring[i] # Master => Idle(x, ring[i])
    BY <2>1, WayFacts, Zenon
  <2>3. \A i \in 1 .. n : ring[i] # Master => Idle(x, ring[i])'
    BY <1>4, <2>2, Zenon
  <2>4. CASE nextCoro'[x] = nextCoro[x] /\ curComp'[x] = curComp[x]
    <3>1. Linked(x, ring)'
      BY <2>1, <2>4, Zenon DEF Linked, Way
    <3>2. Way(x, ring)'
      BY <1>3, <2>1, <2>3, <2>4, <3>1, Zenon DEF Way
    <3>3. QED BY <3>2, Zenon
  <2>5. CASE ~ (nextCoro'[x] = nextCoro[x] /\ curComp'[x] = curComp[x])
    <3>1. /\ numReqsDone[m][c] + Cardinality(DOMAIN p.entries) = Len(batch[m][c])
          /\ nextCoro' = [nextCoro EXCEPT ![m][curComp[m]] = c]
          /\ curComp' = [curComp EXCEPT ![m] = c]
      BY <1>2, <2>5, Zenon DEF HandleResp
    <3>2. x = m
      BY <1>0, <2>5, <3>1, Zenon DEF LoopTypes
    <3>3. Idle(m, c)'
      <4>1. numReqsDone'[m][c] = Len(batch'[m][c])
        BY <1>0, <1>2, <1>3, <3>1, Zenon DEF HandleResp, SlaveTypes
      <4>2. Counted'
        BY CountedIdle, PTL
      <4>3. QED BY <4>1, <4>2, Zenon DEF Counted
    <3> DEFINE more == [i \in 1 .. n + 1 |-> IF i = n + 1 THEN c ELSE ring[i]]
    <3>4. n + 1 \in Nat /\ \A i \in 1 .. n + 1 : i # n + 1 => i \in 1 .. n
      BY <2>2
    <3>5. more \in [1 .. n + 1 -> Coros]
      BY <2>2, <3>4, Zenon DEF Coros
    <3>6. more \in Seq(Coros) /\ Len(more) = n + 1
      BY <3>4, <3>5, MakeSeq, Zenon
    <3>7. \A i \in 1 .. n + 1 : more[i] = IF i = n + 1 THEN c ELSE ring[i]
      OBVIOUS
    <3>8. ring[1] = Master /\ ring[n] = curComp[m] /\ running[m] = Master
      BY <1>1, <2>1, <3>2, Zenon DEF Way
    <3> HIDE DEF more, n
    <3>9. \A i \in 1 .. n : ring[i] # c
      <4> SUFFICES ASSUME NEW i \in 1 .. n, ring[i] = c PROVE FALSE
        OBVIOUS
      <4>1. c # Master
        BY NotMaster, Zenon
      <4>2. QED BY <1>4, <2>2, <3>2, <4>1, Zenon
    <3>10. Linked(m, more)'
      <4>1. ASSUME NEW i \in 1 .. n PROVE more[i + 1] = nextCoro'[m][more[i]]
        <5>1. i \in 1 .. n + 1 /\ i # n + 1 /\ i + 1 \in 1 .. n + 1 /\ more[i] = ring[i]
          BY <2>2, <3>7
        <5>2. ring[i] \in Coros
          BY <2>2, Zenon
        <5>3. CASE i = n
          <6>1. more[i + 1] = c
            BY <3>7, <5>1, <5>3, Zenon
          <6>2. nextCoro'[m][ring[i]] = c
            BY <1>0, <3>1, <3>8, <5>2, <5>3, Zenon DEF LoopTypes
          <6>3. QED BY <5>1, <6>1, <6>2, Zenon
        <5>4. CASE i # n
          <6>1. i \in 1 .. n - 1 /\ i + 1 # n + 1 /\ n \in 1 .. n
            BY <2>2, <5>4
          <6>2. more[i + 1] = ring[i + 1] /\ ring[i + 1] = nextCoro[m][ring[i]]
            BY <2>2, <3>2, <3>7, <5>1, <6>1, Zenon
          <6>3. ring[i] # curComp[m]
            BY <2>2, <3>8, <5>4, <6>1, Zenon
          <6>4. nextCoro'[m][ring[i]] = nextCoro[m][ring[i]]
            BY <1>0, <3>1, <5>2, <6>3, Zenon DEF LoopTypes
          <6>5. QED BY <5>1, <6>2, <6>4, Zenon
        <5>5. QED BY <5>3, <5>4, Zenon
      <4>2. ASSUME NEW i \in 1 .. n + 1, NEW j \in 1 .. n + 1, more[i] = more[j] PROVE i = j
        BY <2>2, <3>4, <3>7, <3>9, <4>2, Zenon
      <4>3. Len(more) - 1 = n
        BY <2>2, <3>6
      <4>4. QED BY <3>6, <4>1, <4>2, <4>3, Zenon DEF Linked
    <3>11. ASSUME NEW i \in 1 .. n + 1, more[i] # Master PROVE Idle(m, more[i])'
      BY <2>3, <3>2, <3>3, <3>4, <3>7, <3>11, Zenon
    <3>12. /\ more # <<>> /\ more[1] = Master /\ more[n + 1] = curComp'[m]
           /\ running'[m] = Master /\ polled'[m] # 0
      <4>1. 1 \in 1 .. n + 1 /\ 1 # n + 1 /\ n + 1 \in 1 .. n + 1
        BY <2>2
      <4>2. more[1] = Master /\ more[n + 1] = c /\ more # <<>>
        BY <3>6, <3>7, <3>8, <4>1
      <4>3. QED BY <1>0, <1>1, <1>3, <3>1, <3>8, <4>2, Zenon DEF LoopTypes
    <3>13. Way(m, more)'
      BY <3>6, <3>10, <3>11, <3>12, Zenon DEF Way
    <3>14. QED BY <3>2, <3>6, <3>13, Zenon
  <2>6. QED BY <2>4, <2>5, Zenon
<1>6. QED BY <1>5, Zenon DEF RingInv

\* The other steps leave the ring alone.
LEMMA RingKept ==
  ASSUME RpcInv, UNCHANGED <<running, nextCoro, slaveVars, polled, curComp>>
  PROVE  RingInv'
<1> SUFFICES ASSUME NEW m \in Machines PROVE \E ring \in Seq(Coros) : Way(m, ring)'
  BY Zenon DEF RingInv
<1>1. PICK ring \in Seq(Coros) : Way(m, ring)
  BY Zenon DEF RpcInv, RingInv
<1>2. Way(m, ring)'
  BY <1>1, WayKept, IdleKept, Zenon
<1>3. QED BY <1>2, Zenon

-----------------------------------------------------------------------------
(* The RECVs.                                                              *)

\* There are finitely many pairs of a slave and a machine.
LEMMA HandledFinite ==
  ASSUME NEW m
  PROVE  /\ IsFiniteSet(Handled(m)) /\ Cardinality(Handled(m)) \in Nat
         /\ IsFiniteSet(Handled(m)') /\ Cardinality(Handled(m)') \in Nat
<1>1. IsFiniteSet(Slaves \X Machines)
  BY RpcAssumption, FS_Product, Zenon
<1>2. Handled(m) \subseteq Slaves \X Machines /\ Handled(m)' \subseteq Slaves \X Machines
  BY Zenon DEF Handled
<1>3. IsFiniteSet(Handled(m)) /\ IsFiniteSet(Handled(m)')
  BY <1>1, <1>2, FS_Subset, Zenon
<1>4. QED BY <1>3, FS_CardinalityType, Zenon

\* The queues can be counted.
LEMMA Counts ==
  ASSUME DataTypes, Sorted, Apart, NEW m \in Machines
  PROVE  /\ Cardinality(cq[m]) \in Nat /\ Cardinality(wc[m]) \in Nat
         /\ Cardinality(respBatch[m]) \in Nat
BY FiniteData, FS_CardinalityType, Zenon

\* What has been handled depends on the slaves' variables only.
LEMMA HandledKept ==
  ASSUME NEW m,
         \A c \in Slaves : /\ batch'[m][c] = batch[m][c] /\ numReqsDone'[m][c] = numReqsDone[m][c]
                           /\ respBuf'[m][c] = respBuf[m][c] /\ sent'[m][c] = sent[m][c]
  PROVE  Handled(m)' = Handled(m)
<1>1. \A c \in Slaves : /\ Answered(m, c)' = Answered(m, c)
                        /\ \A n : Part(m, c, n)' = Part(m, c, n)
  BY AnswersKept, Zenon
<1>2. \A d \in Slaves \X Machines : d[1] \in Slaves
  OBVIOUS
<1>3. QED BY <1>1, <1>2 DEF Handled

\* What the account of a machine's RECVs depends on.
LEMMA CreditsKept ==
  ASSUME RpcInv, NEW m \in Machines, posted'[m] = posted[m], recvsToPost'[m] = recvsToPost[m],
         polled'[m] = polled[m], cq'[m] = cq[m], wc'[m] = wc[m], respBatch'[m] = respBatch[m],
         Handled(m)' = Handled(m)
  PROVE  Credits(m)'
<1>1. Credits(m)
  BY Zenon DEF RpcInv, CreditsInv
<1>2. QED BY <1>1, Zenon DEF Credits

\* A slave's turn is between two polls, with no completion to account for.
LEMMA SlaveTurnCredits ==
  ASSUME RpcInv, NEW m \in Machines, SlaveTurn(m)
  PROVE  CreditsInv'
<1>0. SlaveTypes /\ DataTypes /\ RecvTypes /\ Sorted /\ Apart /\ CreditsInv
  BY Zenon DEF RpcInv, Types
<1>1. PICK c \in Slaves : c = running[m] /\ polled[m] = 0
  BY RunningIdle, Zenon DEF SlaveTurn
<1>2. UNCHANGED <<posted, recvsToPost, polled, cq, wc, respBatch>>
  BY Zenon DEF SlaveTurn, recvVars, pollVars
<1> SUFFICES ASSUME NEW x \in Machines PROVE Credits(x)'
  BY Zenon DEF CreditsInv
<1>3. CASE x # m
  <2>1. ASSUME NEW d \in Slaves
        PROVE  /\ batch'[x][d] = batch[x][d] /\ numReqsDone'[x][d] = numReqsDone[x][d]
               /\ respBuf'[x][d] = respBuf[x][d] /\ sent'[x][d] = sent[x][d]
    <3>1. CASE UNCHANGED <<slaveVars, net>>
      BY <3>1, Zenon DEF slaveVars
    <3>2. CASE \E b \in Batches : Sends(m, c, b)
      BY <1>0, <1>3, <3>2, Zenon DEF Sends, SlaveTypes
    <3>3. QED BY <1>1, <3>1, <3>2, Turn, Zenon
  <2>2. Handled(x)' = Handled(x)
    BY <2>1, HandledKept, Zenon
  <2>3. QED BY <1>2, <2>2, CreditsKept, Zenon
<1>4. CASE x = m
  <2>1. Cardinality(Handled(m)') \in Nat
    BY HandledFinite, Zenon
  <2>2. Cardinality(cq[m]) \in Nat /\ Cardinality(wc[m]) \in Nat /\ Cardinality(respBatch[m]) \in Nat
    BY <1>0, Counts, Zenon
  <2>3. posted[m] + recvsToPost[m] + polled[m] + Cardinality(cq[m]) = RqDepth
    BY <1>0, Zenon DEF CreditsInv, Credits
  <2>4. 0 <= Cardinality(wc[m]) + Cardinality(respBatch[m]) + Cardinality(Handled(m)')
    BY <2>1, <2>2
  <2>5. Credits(m)'
    BY <1>1, <1>2, <2>3, <2>4, Zenon DEF Credits
  <2>6. QED BY <1>4, <2>5, Zenon
<1>5. QED BY <1>3, <1>4, Zenon

\* Polling turns completions of the queue into those of the poll.
LEMMA PollCredits ==
  ASSUME RpcInv, NEW m \in Machines, PollNone(m) \/ Poll(m)
  PROVE  CreditsInv'
<1>0. DataTypes /\ RecvTypes /\ Sorted /\ Apart /\ CreditsInv
  BY Zenon DEF RpcInv, Types
<1>1. UNCHANGED <<slaveVars, posted, recvsToPost>>
  BY Zenon DEF PollNone, Poll, recvVars
<1>2. \A x : Handled(x)' = Handled(x)
  BY <1>1, HandledKept, Zenon DEF slaveVars
<1> SUFFICES ASSUME NEW x \in Machines PROVE Credits(x)'
  BY Zenon DEF CreditsInv
<1>3. CASE polled'[x] = polled[x] /\ cq'[x] = cq[x] /\ wc'[x] = wc[x] /\ respBatch'[x] = respBatch[x]
  BY <1>1, <1>2, <1>3, CreditsKept, Zenon
<1>4. CASE Poll(m) /\ x = m
  <2>1. /\ polled'[m] = Cardinality(cq[m]) /\ wc'[m] = cq[m] /\ cq'[m] = {} /\ respBatch'[m] = {}
        /\ polled[m] = 0
    BY <1>0, <1>4, Zenon DEF Poll, MasterPolls, DataTypes, RecvTypes
  <2>2. Cardinality(cq[m]) \in Nat /\ Cardinality(Handled(m)) \in Nat /\ Cardinality({}) = 0
    BY <1>0, Counts, HandledFinite, FS_EmptySet, Zenon
  <2>3. /\ posted[m] + recvsToPost[m] + Cardinality(cq[m]) = RqDepth
        /\ posted[m] \in Nat /\ recvsToPost[m] \in Nat
    BY <1>0, <2>1, <2>2 DEF CreditsInv, Credits, RecvTypes
  <2>4. /\ posted'[m] + recvsToPost'[m] + polled'[m] + Cardinality(cq'[m]) = RqDepth
        /\ polled'[m] <= Cardinality(wc'[m]) + Cardinality(respBatch'[m]) + Cardinality(Handled(m)')
    BY <1>1, <1>2, <2>1, <2>2, <2>3
  <2>5. QED BY <1>4, <2>4, Zenon DEF Credits
<1>5. QED
  BY <1>0, <1>3, <1>4, Zenon DEF PollNone, Poll, pollVars, DataTypes, RecvTypes

\* The end of a poll posts the RECVs, or keeps them for the next.
LEMMA PollEndCredits ==
  ASSUME RpcInv, NEW m \in Machines, PollEnd(m)
  PROVE  CreditsInv'
<1>0. DataTypes /\ RecvTypes /\ Sorted /\ Apart /\ CreditsInv
  BY Zenon DEF RpcInv, Types
<1>1. /\ UNCHANGED <<slaveVars, cq, wc>> /\ PostRecvs(m)
      /\ respBatch' = [respBatch EXCEPT ![m] = {}] /\ polled' = [polled EXCEPT ![m] = 0]
  BY Zenon DEF PollEnd
<1>2. \A x : Handled(x)' = Handled(x)
  BY <1>1, HandledKept, Zenon DEF slaveVars
<1>3. /\ posted' = [posted EXCEPT ![m] = posted'[m]]
      /\ recvsToPost' = [recvsToPost EXCEPT ![m] = recvsToPost'[m]]
      /\ posted'[m] + recvsToPost'[m] = posted[m] + recvsToPost[m] + polled[m]
  BY <1>0, <1>1 DEF PostRecvs, RecvTypes
<1> SUFFICES ASSUME NEW x \in Machines PROVE Credits(x)'
  BY Zenon DEF CreditsInv
<1>4. CASE x # m
  <2>1. /\ posted'[x] = posted[x] /\ recvsToPost'[x] = recvsToPost[x] /\ polled'[x] = polled[x]
        /\ respBatch'[x] = respBatch[x] /\ cq'[x] = cq[x] /\ wc'[x] = wc[x]
    BY <1>0, <1>1, <1>3, <1>4, Zenon DEF DataTypes, RecvTypes
  <2>2. QED BY <1>2, <2>1, CreditsKept, Zenon
<1>5. CASE x = m
  <2>1. /\ Cardinality(cq[m]) \in Nat /\ Cardinality(wc[m]) \in Nat
        /\ Cardinality(Handled(m)) \in Nat /\ Cardinality({}) = 0
    BY <1>0, Counts, HandledFinite, FS_EmptySet, Zenon
  <2>2. posted[m] + recvsToPost[m] + polled[m] + Cardinality(cq[m]) = RqDepth
    BY <1>0, Zenon DEF CreditsInv, Credits
  <2>3. polled'[m] = 0 /\ respBatch'[m] = {}
    BY <1>0, <1>1, Zenon DEF DataTypes, RecvTypes
  <2>4. posted'[m] + recvsToPost'[m] + polled'[m] + Cardinality(cq'[m]) = RqDepth
    BY <1>0, <1>1, <1>3, <2>1, <2>2, <2>3 DEF RecvTypes
  <2>5. polled'[m] <= Cardinality(wc'[m]) + Cardinality(respBatch'[m]) + Cardinality(Handled(m)')
    BY <1>1, <1>2, <2>1, <2>3
  <2>6. QED BY <1>5, <2>4, <2>5, Zenon DEF Credits
<1>6. QED BY <1>4, <1>5, Zenon

\* One element less.
LEMMA Removed ==
  ASSUME NEW S, IsFiniteSet(S), NEW x \in S, NEW T, T = S \ {x}
  PROVE  Cardinality(T) = Cardinality(S) - 1
BY FS_RemoveElement, Zenon

\* One element more.
LEMMA Added ==
  ASSUME NEW S, IsFiniteSet(S), NEW x, x \notin S, NEW T, T = S \cup {x}
  PROVE  Cardinality(T) = Cardinality(S) + 1
BY FS_AddElement, Zenon

\* A response leaves the completions and is among what has been handled.
LEMMA HandleRespCredits ==
  ASSUME RpcInv, NEW m \in Machines, NEW p, HandleResp(m, p)
  PROVE  CreditsInv'
<1>0. DataTypes /\ RecvTypes /\ Sorted /\ Apart /\ CreditsInv
  BY Zenon DEF RpcInv, Types
<1>1. /\ UNCHANGED <<posted, recvsToPost, polled, cq, respBatch>>
      /\ wc' = [wc EXCEPT ![m] = @ \ {p}] /\ UNCHANGED batch
  BY Zenon DEF HandleResp, recvVars
<1>2. PICK c, n : c = p.coro /\ n = Peer(p)
  OBVIOUS
<1>3. c \in Slaves /\ n \in Machines /\ p \in wc[m] /\ Responded(m, c, n)
  BY <1>2, Response, Zenon
<1> SUFFICES ASSUME NEW x \in Machines PROVE Credits(x)'
  BY Zenon DEF CreditsInv
<1>4. CASE x # m
  <2>1. Handled(x)' = Handled(x)
    <3>1. \A d \in Slaves :
            /\ batch'[x][d] = batch[x][d] /\ numReqsDone'[x][d] = numReqsDone[x][d]
            /\ respBuf'[x][d] = respBuf[x][d] /\ sent'[x][d] = sent[x][d]
      BY <1>4, RespondedOthers, Zenon
    <3>2. QED BY <3>1, HandledKept, Zenon
  <2>2. wc'[x] = wc[x]
    BY <1>0, <1>1, <1>4, Zenon DEF DataTypes
  <2>3. QED BY <1>1, <2>1, <2>2, CreditsKept, Zenon
<1>5. CASE x = m
  <2> DEFINE H == Handled(m)
  <2>1. <<c, n>> \notin H
    BY <1>3, Zenon DEF Responded, Handled
  <2>2. H \cup {<<c, n>>} \subseteq Handled(m)'
    <3>1. ASSUME NEW d \in Slaves
          PROVE  /\ \A y : Part(m, d, y)' = Part(m, d, y)
                 /\ Answered(m, d) \subseteq Answered(m, d)'
      <4>1. \A y : Part(m, d, y)' = Part(m, d, y)
        BY <1>1, Zenon DEF Part
      <4>2. CASE d = c
        BY <1>3, <4>1, <4>2, Zenon DEF Responded
      <4>3. CASE d # c
        <5>1. /\ batch'[m][d] = batch[m][d] /\ numReqsDone'[m][d] = numReqsDone[m][d]
              /\ respBuf'[m][d] = respBuf[m][d] /\ sent'[m][d] = sent[m][d]
          BY <1>2, <4>3, RespondedOthers
        <5>2. Answered(m, d)' = Answered(m, d)
          BY <5>1, AnswersKept, Zenon
        <5>3. QED BY <4>1, <5>2, Zenon
      <4>4. QED BY <4>2, <4>3, Zenon
    <3>2. ASSUME NEW d \in H PROVE d \in Handled(m)'
      <4>1. /\ d \in Slaves \X Machines /\ d[1] \in Slaves
            /\ Part(m, d[1], d[2]) # {} /\ Part(m, d[1], d[2]) \subseteq Answered(m, d[1])
        BY Zenon DEF Handled
      <4>2. QED BY <3>1, <4>1, Zenon DEF Handled
    <3>3. <<c, n>> \in Handled(m)'
      <4>1. Part(m, c, n)' # {} /\ Part(m, c, n)' \subseteq Answered(m, c)'
        BY <1>3, <3>1, Zenon DEF Responded
      <4>2. QED BY <1>3, <4>1, Zenon DEF Handled
    <3>4. QED BY <3>2, <3>3, Zenon
  <2> HIDE DEF H
  <2>3. /\ IsFiniteSet(H) /\ IsFiniteSet(Handled(m)') /\ IsFiniteSet(wc[m])
        /\ Cardinality(Handled(m)') \in Nat /\ Cardinality(H) \in Nat
        /\ Cardinality(wc[m]) \in Nat /\ Cardinality(respBatch[m]) \in Nat
    BY <1>0, HandledFinite, FiniteData, Counts, Zenon DEF H
  <2>4. /\ IsFiniteSet(H \cup {<<c, n>>})
        /\ Cardinality(H \cup {<<c, n>>}) = Cardinality(H) + 1
    BY <2>1, <2>3, FS_AddElement, Zenon
  <2>5. Cardinality(H \cup {<<c, n>>}) <= Cardinality(Handled(m)')
    BY <2>2, <2>3, FS_Subset, Zenon
  <2>6. Cardinality(wc'[m]) = Cardinality(wc[m]) - 1
    <3>1. wc'[m] = wc[m] \ {p}
      BY <1>0, <1>1, Zenon DEF DataTypes
    <3>2. QED BY <1>3, <2>3, <3>1, Removed, Zenon
  <2>7. Credits(m)
    BY <1>0, Zenon DEF CreditsInv
  <2>8. polled'[m] <= Cardinality(wc'[m]) + Cardinality(respBatch'[m]) + Cardinality(Handled(m)')
    <3>1. polled[m] <= Cardinality(wc[m]) + Cardinality(respBatch[m]) + Cardinality(H) /\ polled[m] \in Nat
      BY <1>0, <2>7, Zenon DEF Credits, RecvTypes, H
    <3>2. QED BY <1>1, <2>3, <2>4, <2>5, <2>6, <3>1
  <2>9. Credits(m)'
    BY <1>1, <2>7, <2>8, Zenon DEF Credits
  <2>10. QED BY <1>5, <2>9, Zenon
<1>6. QED BY <1>4, <1>5, Zenon

\* A request leaves the completions and has its response in the batch.
LEMMA HandleReqCredits ==
  ASSUME RpcInv, NEW m \in Machines, NEW p, HandleReq(m, p)
  PROVE  CreditsInv'
<1>0. DataTypes /\ RecvTypes /\ Sorted /\ Apart /\ CreditsInv
  BY Zenon DEF RpcInv, Types
<1>1. /\ UNCHANGED <<slaveVars, posted, recvsToPost, polled, cq>>
      /\ wc' = [wc EXCEPT ![m] = @ \ {p}]
  BY Zenon DEF HandleReq, recvVars
<1>2. PICK r : r = Reply(m, p)
  OBVIOUS
<1>3. respBatch' = [respBatch EXCEPT ![m] = @ \cup {r}]
  <2>1. respBatch' = [respBatch EXCEPT ![m] = @ \cup {Reply(m, p)}]
    BY Zenon DEF HandleReq, Reply
  <2>2. QED BY <1>2, <2>1, Zenon
<1>4. p \in Datagrams /\ p.isReq /\ p.to = m /\ p \in wc[m]
  BY <1>0, Zenon DEF HandleReq, DataTypes, Sorted
<1>5. r \notin respBatch[m]
  <2>1. r \in Datagrams /\ r.from = m /\ Slot(r) = Slot(p)
    BY <1>2, <1>4, Replying
  <2>2. At("wc", p) /\ (r \in respBatch[m] => At("resp", r)) /\ {"wc", "resp"} \subseteq Places
    BY <1>4, <2>1, Zenon DEF At, Places
  <2>3. r \in respBatch[m] => "wc" = "resp"
    BY <1>0, <1>4, <2>1, <2>2, Zenon DEF Apart
  <2>4. QED BY <2>3, Zenon
<1>6. \A x : Handled(x)' = Handled(x)
  BY <1>1, HandledKept, Zenon DEF slaveVars
<1> SUFFICES ASSUME NEW x \in Machines PROVE Credits(x)'
  BY Zenon DEF CreditsInv
<1>7. CASE x # m
  <2>1. wc'[x] = wc[x] /\ respBatch'[x] = respBatch[x]
    BY <1>0, <1>1, <1>3, <1>7, Zenon DEF DataTypes
  <2>2. QED BY <1>1, <1>6, <2>1, CreditsKept, Zenon
<1>8. CASE x = m
  <2>1. wc'[m] = wc[m] \ {p} /\ respBatch'[m] = respBatch[m] \cup {r}
    BY <1>0, <1>1, <1>3, Zenon DEF DataTypes
  <2>2. /\ IsFiniteSet(wc[m]) /\ IsFiniteSet(respBatch[m])
        /\ Cardinality(wc[m]) \in Nat /\ Cardinality(respBatch[m]) \in Nat
    BY <1>0, FiniteData, Counts, Zenon
  <2>3. Cardinality(wc'[m]) = Cardinality(wc[m]) - 1
    BY <1>4, <2>1, <2>2, Removed, Zenon
  <2>4. Cardinality(respBatch'[m]) = Cardinality(respBatch[m]) + 1
    BY <1>5, <2>1, <2>2, Added, Zenon
  <2>5. Credits(m) /\ Cardinality(Handled(m)) \in Nat /\ polled[m] \in Nat
    BY <1>0, HandledFinite, Zenon DEF CreditsInv, RecvTypes
  <2>6. polled'[m] <= Cardinality(wc'[m]) + Cardinality(respBatch'[m]) + Cardinality(Handled(m)')
    BY <1>1, <1>6, <2>2, <2>3, <2>4, <2>5 DEF Credits
  <2>7. Credits(m)'
    BY <1>1, <2>5, <2>6, Zenon DEF Credits
  <2>8. QED BY <1>8, <2>7, Zenon
<1>9. QED BY <1>7, <1>8, Zenon

\* Delivery uses a RECV for a completion, or drops the datagram without one.
LEMMA NetworkCredits ==
  ASSUME RpcInv, NEW p, Deliver(p) \/ Lose(p)
  PROVE  CreditsInv'
<1>0. DataTypes /\ RecvTypes /\ Sorted /\ Apart /\ CreditsInv
  BY Zenon DEF RpcInv, Types
<1>1. UNCHANGED <<slaveVars, recvsToPost, polled, wc, respBatch>>
  BY Zenon DEF Deliver, Lose, recvVars, pollVars
<1>2. p \in Datagrams /\ p.to \in Machines /\ p \in net
  BY <1>0, Fields, Zenon DEF Deliver, Lose, DataTypes
<1>3. \A x : Handled(x)' = Handled(x)
  BY <1>1, HandledKept, Zenon DEF slaveVars
<1> SUFFICES ASSUME NEW x \in Machines PROVE Credits(x)'
  BY Zenon DEF CreditsInv
<1>4. CASE posted'[x] = posted[x] /\ cq'[x] = cq[x]
  BY <1>1, <1>3, <1>4, CreditsKept, Zenon
<1>5. CASE x = p.to /\ posted'[x] = posted[x] - 1 /\ cq'[x] = cq[x] \cup {p}
  <2>1. p \notin cq[x]
    <3>1. At("net", p) /\ (p \in cq[x] => At("cq", p)) /\ {"net", "cq"} \subseteq Places
      BY <1>2, <1>5, Zenon DEF At, Places
    <3>2. p \in cq[x] => "net" = "cq"
      BY <1>0, <1>2, <3>1, Zenon DEF Apart
    <3>3. QED BY <3>2, Zenon
  <2>2. IsFiniteSet(cq[x]) /\ Cardinality(cq[x]) \in Nat
    BY <1>0, FiniteData, Counts, Zenon
  <2>3. Cardinality(cq'[x]) = Cardinality(cq[x]) + 1
    BY <1>5, <2>1, <2>2, Added, Zenon
  <2>4. Credits(x) /\ posted[x] \in Nat /\ recvsToPost[x] \in Nat /\ polled[x] \in Nat
    BY <1>0 DEF CreditsInv, RecvTypes
  <2>5. posted'[x] + recvsToPost'[x] + polled'[x] + Cardinality(cq'[x]) = RqDepth
    BY <1>1, <1>5, <2>2, <2>3, <2>4 DEF Credits
  <2>6. polled'[x] <= Cardinality(wc'[x]) + Cardinality(respBatch'[x]) + Cardinality(Handled(x)')
    BY <1>1, <1>3, <2>4, Zenon DEF Credits
  <2>7. QED BY <2>5, <2>6, Zenon DEF Credits
<1>6. QED
  <2>1. \/ posted' = posted /\ cq' = cq
        \/ /\ posted' = [posted EXCEPT ![p.to] = @ - 1]
           /\ cq' = [cq EXCEPT ![p.to] = @ \cup {p}]
    BY Zenon DEF Deliver, Lose, recvVars
  <2>2. QED BY <1>0, <1>2, <1>4, <1>5, <2>1, Zenon DEF DataTypes, RecvTypes

-----------------------------------------------------------------------------
(* The invariant holds initially, and every step keeps it.                 *)

\* The first state has the types.
LEMMA InitTypes ==
  ASSUME Init
  PROVE  Types
<1>1. 1 \in Slaves /\ Cardinality(Slaves) \in Nat \ {0}
  BY RpcAssumption, FS_CardinalityType
<1>2. SlaveTypes
  <2>1. <<>> \in Seq({NoResp} \cup (Machines \X Requests))
    OBVIOUS
  <2>2. /\ batch \in [Machines -> [Slaves -> Batches \cup {<<>>}]]
        /\ respBuf \in [Machines -> [Slaves -> Seq({NoResp} \cup (Machines \X Requests))]]
    BY <2>1, Zenon DEF Init
  <2>3. /\ numReqsDone \in [Machines -> [Slaves -> Nat]]
        /\ sent \in [Machines -> [Slaves -> Nat]]
    BY Zenon DEF Init
  <2>4. \A m \in Machines, c \in Slaves : sent[m][c] <= MaxBatches[m]
    BY RpcAssumption DEF Init
  <2>5. QED BY <2>2, <2>3, <2>4, Zenon DEF SlaveTypes
<1>3. LoopTypes
  <2>1. \A c \in Coros : (IF c = NumCoro - 1 THEN Master ELSE c + 1) \in Coros
    <3>1. \A c \in Coros : c \in 0 .. Cardinality(Slaves)
      BY <1>1, RpcAssumption DEF Coros, Master
    <3>2. \A c \in 1 .. Cardinality(Slaves) : c \in Coros
      BY RpcAssumption, Zenon DEF Coros
    <3>3. NumCoro - 1 = Cardinality(Slaves) /\ Master \in Coros
      BY <1>1 DEF NumCoro, Coros
    <3>4. ASSUME NEW c \in Coros, c # NumCoro - 1 PROVE c + 1 \in Coros
      <4>1. c + 1 \in 1 .. Cardinality(Slaves)
        BY <1>1, <3>1, <3>3, <3>4
      <4>2. QED BY <3>2, <4>1, Zenon
    <3>5. QED BY <3>3, <3>4, Zenon
  <2>2. nextCoro \in [Machines -> [Coros -> Coros]]
    BY <2>1, Zenon DEF Init, Coros
  <2>3. running \in [Machines -> Coros] /\ curComp \in [Machines -> Coros]
    BY <1>1, Zenon DEF Init, Coros
  <2>4. QED BY <2>2, <2>3, Zenon DEF LoopTypes
<1>4. RecvTypes
  BY RpcAssumption, Slack DEF RecvTypes, Init
<1>5. DataTypes
  BY Zenon DEF DataTypes, Init
<1>6. QED BY <1>2, <1>3, <1>4, <1>5, Zenon DEF Types

\* In the first state no slave waits for anything.
LEMMA InitAnswers ==
  ASSUME Init
  PROVE  /\ AnswersInv
         /\ \A m \in Machines, c \in Slaves : Idle(m, c)
<1> SUFFICES ASSUME NEW m \in Machines, NEW c \in Slaves
             PROVE  Answers(m, c) /\ Idle(m, c)
  BY Zenon DEF AnswersInv
<1>1. batch[m][c] = <<>> /\ respBuf[m][c] = <<>> /\ numReqsDone[m][c] = 0
  BY Zenon DEF Init
<1>2. 1 .. Len(batch[m][c]) = {} /\ DOMAIN respBuf[m][c] = {}
  BY <1>1
<1>3. Answered(m, c) = {}
  BY <1>2, Zenon DEF Answered
<1>4. Cardinality({}) = 0
  BY FS_EmptySet, Zenon
<1>5. Answers(m, c)
  BY <1>1, <1>2, <1>3, <1>4, Zenon DEF Answers
<1>6. QED BY <1>2, <1>3, <1>5, Zenon DEF Idle

\* The first ring goes from the first slave through all others to the master.
LEMMA InitRing ==
  ASSUME Init
  PROVE  RingInv
<1> DEFINE N == Cardinality(Slaves)
           ring == [i \in 1 .. N + 1 |-> IF i = N + 1 THEN Master ELSE i]
<1>1. N \in Nat \ {0} /\ Slaves = 1 .. N /\ NumCoro - 1 = N
  BY RpcAssumption, FS_CardinalityType DEF NumCoro
<1> HIDE DEF N
<1> SUFFICES ASSUME NEW m \in Machines PROVE \E r \in Seq(Coros) : Way(m, r)
  BY Zenon DEF RingInv
<1>2. ring \in [1 .. N + 1 -> Coros]
  BY <1>1 DEF Coros
<1>3. ring \in Seq(Coros) /\ Len(ring) = N + 1
  BY <1>1, <1>2, MakeSeq
<1>4. \A i \in 1 .. N + 1 : ring[i] = IF i = N + 1 THEN 0 ELSE i
  BY Zenon DEF Master
<1> HIDE DEF ring
<1>5. \A i \in 1 .. N : nextCoro[m][i] = IF i = N THEN 0 ELSE i + 1
  BY <1>1, Zenon DEF Init, Master
<1>6. Linked(m, ring)
  <2>1. \A i \in 1 .. N : ring[i + 1] = nextCoro[m][ring[i]]
    BY <1>1, <1>4, <1>5
  <2>2. \A i, j \in 1 .. N + 1 : ring[i] = ring[j] => i = j
    BY <1>1, <1>4
  <2>3. Len(ring) - 1 = N
    BY <1>1, <1>3
  <2>4. QED BY <1>3, <2>1, <2>2, <2>3, Zenon DEF Linked
<1>7. \A i \in 1 .. Len(ring) : ring[i] # Master => Idle(m, ring[i])
  BY <1>2, <1>3, InitAnswers, Zenon DEF Coros
<1>8. polled[m] = 0 /\ ring[1] = running[m] /\ ring[Len(ring)] = Master
  BY <1>1, <1>3, <1>4 DEF Init, Master
<1>9. ring # <<>>
  BY <1>1, <1>3
<1>10. QED BY <1>3, <1>6, <1>7, <1>8, <1>9, Zenon DEF Way

\* The invariant holds of the first state.
LEMMA InitRpcInv == Init => RpcInv
<1> SUFFICES ASSUME Init PROVE RpcInv
  OBVIOUS
<1>1. Types /\ AnswersInv /\ RingInv
  BY InitTypes, InitAnswers, InitRing, Zenon
<1>2. Sorted
  BY Zenon DEF Sorted, Init
<1>3. \A p \in Datagrams, l \in Places : ~ At(l, p)
  <2>1. \A p \in Datagrams : p.from \in Machines /\ p.to \in Machines
    BY Fields, Zenon
  <2>2. QED BY <2>1, Zenon DEF At, Init
<1>4. Fitting /\ Apart
  BY <1>3, Zenon DEF Fitting, Apart
<1>5. CreditsInv
  <2> SUFFICES ASSUME NEW m \in Machines PROVE Credits(m)
    BY Zenon DEF CreditsInv
  <2>1. /\ posted[m] = RqDepth /\ recvsToPost[m] = 0 /\ polled[m] = 0
        /\ cq[m] = {} /\ wc[m] = {} /\ respBatch[m] = {}
    BY Zenon DEF Init
  <2>2. Cardinality({}) = 0 /\ Cardinality(Handled(m)) \in Nat /\ RqDepth \in Nat
    BY FS_EmptySet, HandledFinite, RpcAssumption, Zenon
  <2>3. QED BY <2>1, <2>2 DEF Credits
<1>6. QED BY <1>1, <1>2, <1>4, <1>5, Zenon DEF RpcInv

\* The steps that change no slave keep the answers.
LEMMA AnswersInvKept ==
  ASSUME RpcInv, UNCHANGED slaveVars
  PROVE  AnswersInv'
<1>1. AnswersInv /\ batch' = batch /\ numReqsDone' = numReqsDone /\ respBuf' = respBuf /\ sent' = sent
  BY Zenon DEF RpcInv, slaveVars
<1> SUFFICES ASSUME NEW m \in Machines, NEW c \in Slaves PROVE Answers(m, c)'
  BY Zenon DEF AnswersInv
<1>2. Answers(m, c)
  BY <1>1, Zenon DEF AnswersInv
<1>3. Answered(m, c)' = Answered(m, c)
  BY <1>1, AnswersKept, Zenon
<1>4. QED BY <1>1, <1>2, <1>3, Zenon DEF Answers, ReqId

\* A poll that finds something finds some number of completions.
LEMMA Arrived ==
  ASSUME RpcInv, NEW m \in Machines, Poll(m)
  PROVE  Cardinality(cq[m]) \in Nat \ {0}
<1>1. IsFiniteSet(cq[m]) /\ cq[m] # {}
  BY FiniteData, Zenon DEF RpcInv, Types, Poll
<1>2. QED BY <1>1, FS_CardinalityType, FS_EmptySet, Zenon

\* The invariant is one of states.
LEMMA StutterRpcInv ==
  ASSUME RpcInv, UNCHANGED vars
  PROVE  RpcInv'
<1>0. /\ Types /\ Sorted /\ Fitting /\ Apart
      /\ UNCHANGED <<running, nextCoro, slaveVars, posted, recvsToPost, cq, polled, wc, curComp,
                     respBatch, net, lost>>
  BY Zenon DEF RpcInv, vars, recvVars, pollVars
<1>1. Types'
  BY <1>0, Zenon DEF Types, SlaveTypes, LoopTypes, RecvTypes, DataTypes, slaveVars
<1>2. AnswersInv' /\ RingInv'
  BY <1>0, AnswersInvKept, RingKept, Zenon
<1>3. Sorted'
  BY <1>0, Zenon DEF Sorted
<1>4. \A l, p : At(l, p)' = At(l, p)
  BY <1>0 DEF At
<1>5. Fitting'
  BY <1>0, <1>4, OpenKept, Zenon DEF Fitting
<1>6. Apart'
  BY <1>0, <1>4, Zenon DEF Apart
<1>7. CreditsInv'
  <2>1. \A m : Handled(m)' = Handled(m)
    BY <1>0, HandledKept, Zenon DEF slaveVars
  <2>2. QED BY <1>0, <2>1, CreditsKept, Zenon DEF CreditsInv
<1>8. QED BY <1>1, <1>2, <1>3, <1>5, <1>6, <1>7, Zenon DEF RpcInv

\* Every step keeps the invariant.
LEMMA NextRpcInv == RpcInv /\ [Next]_vars => RpcInv'
<1> SUFFICES ASSUME RpcInv, [Next]_vars PROVE RpcInv'
  OBVIOUS
<1> SUFFICES Types' /\ AnswersInv' /\ Located' /\ RingInv' /\ CreditsInv'
  BY Zenon DEF RpcInv, Located
<1>1. CASE UNCHANGED vars
  BY <1>1, StutterRpcInv, Zenon DEF RpcInv, Located
<1>2. ASSUME NEW m \in Machines, SlaveTurn(m)
      PROVE  Types' /\ AnswersInv' /\ Located' /\ RingInv' /\ CreditsInv'
  BY <1>2, SlaveTurnTypes, SlaveTurnAnswers, SlaveTurnLocated, SlaveTurnRing, SlaveTurnCredits, Zenon
<1>3. ASSUME NEW m \in Machines, PollNone(m) \/ Poll(m)
      PROVE  Types' /\ AnswersInv' /\ Located' /\ RingInv' /\ CreditsInv'
  <2>1. UNCHANGED slaveVars
    BY <1>3, Zenon DEF PollNone, Poll
  <2>2. PollNone(m) \/ (Poll(m) /\ Cardinality(cq[m]) \in Nat \ {0})
    BY <1>3, Arrived, Zenon
  <2>3. Types' /\ RingInv'
    BY <2>2, PollTypes, PollRing, Zenon
  <2>4. QED BY <1>3, <2>1, <2>3, AnswersInvKept, PollLocated, PollCredits, Zenon
<1>4. ASSUME NEW m \in Machines, PollEnd(m)
      PROVE  Types' /\ AnswersInv' /\ Located' /\ RingInv' /\ CreditsInv'
  <2>1. UNCHANGED slaveVars
    BY <1>4, Zenon DEF PollEnd
  <2>2. QED BY <1>4, <2>1, AnswersInvKept, PollTypes, PollEndLocated, PollEndRing, PollEndCredits, Zenon
<1>5. ASSUME NEW m \in Machines, NEW p, HandleResp(m, p)
      PROVE  Types' /\ AnswersInv' /\ Located' /\ RingInv' /\ CreditsInv'
  <2>1. Types' /\ AnswersInv'
    BY <1>5, HandleRespTypes, HandleRespAnswers, Zenon
  <2>2. QED BY <1>5, <2>1, HandleRespLocated, HandleRespRing, HandleRespCredits, Zenon
<1>6. ASSUME NEW m \in Machines, NEW p, HandleReq(m, p)
      PROVE  Types' /\ AnswersInv' /\ Located' /\ RingInv' /\ CreditsInv'
  <2>1. UNCHANGED <<running, nextCoro, slaveVars, polled, curComp>>
    BY <1>6, Zenon DEF HandleReq
  <2>2. AnswersInv' /\ RingInv'
    BY <2>1, AnswersInvKept, RingKept, Zenon
  <2>3. QED BY <1>6, <2>2, HandleReqTypes, HandleReqLocated, HandleReqCredits, Zenon
<1>7. ASSUME NEW p, Deliver(p) \/ Lose(p)
      PROVE  Types' /\ AnswersInv' /\ Located' /\ RingInv' /\ CreditsInv'
  <2>1. UNCHANGED <<running, nextCoro, slaveVars, polled, curComp>>
    BY <1>7, Zenon DEF Deliver, Lose, pollVars
  <2>2. AnswersInv' /\ RingInv'
    BY <2>1, AnswersInvKept, RingKept, Zenon
  <2>3. QED BY <1>7, <2>2, NetworkTypes, NetworkLocated, NetworkCredits, Zenon
<1>8. QED BY <1>1, <1>2, <1>3, <1>4, <1>5, <1>6, <1>7, Zenon DEF Next, Worker, Network

\* Until a datagram is handled it is the one datagram that its coroutine has for
\* that machine, it is in one place and carries the requests that lack an answer;
\* the coroutines in the ring lack none; and every RECV is accounted for.
THEOREM RpcInvariant == Spec => []RpcInv
<1>1. QED BY InitRpcInv, NextRpcInv, PTL DEF Spec

-----------------------------------------------------------------------------
(* Every datagram finds a RECV: the datagrams on their way to a thread, and *)
(* those whose RECVs it has not made up for, are limited by the requests   *)
(* that can be outstanding.                                                *)

\* The datagrams on their way to a thread.
Toward(m) == {p \in net : p.to = m} \cup cq[m] \cup wc[m]

\* Sets without a common element add up.
LEMMA Disjoint ==
  ASSUME NEW S, NEW T, IsFiniteSet(S), IsFiniteSet(T), S \cap T = {}
  PROVE  /\ IsFiniteSet(S \cup T) /\ Cardinality(S) \in Nat /\ Cardinality(T) \in Nat
         /\ Cardinality(S \cup T) = Cardinality(S) + Cardinality(T)
<1>1. /\ IsFiniteSet(S \cup T)
      /\ Cardinality(S \cup T) = Cardinality(S) + Cardinality(T) - Cardinality(S \cap T)
  BY FS_Union, Zenon
<1>2. Cardinality(S) \in Nat /\ Cardinality(T) \in Nat
  BY FS_CardinalityType, Zenon
<1>3. Cardinality(S \cap T) = 0
  BY FS_EmptySet, Zenon
<1>4. QED BY <1>1, <1>2, <1>3

\* What is on its way to a machine is on the wire, in its queue or being handled.
LEMMA TowardCount ==
  ASSUME RpcInv, NEW m \in Machines
  PROVE  /\ IsFiniteSet(Toward(m))
         /\ Cardinality({p \in net : p.to = m}) \in Nat
         /\ Cardinality(Toward(m)) =
              Cardinality({p \in net : p.to = m}) + Cardinality(cq[m]) + Cardinality(wc[m])
<1> DEFINE N == {p \in net : p.to = m}
<1>0. DataTypes /\ Sorted /\ Apart
  BY Zenon DEF RpcInv, Types
<1>1. /\ N \subseteq net /\ N \subseteq Datagrams /\ cq[m] \subseteq Datagrams
      /\ wc[m] \subseteq Datagrams
  BY <1>0, Zenon DEF DataTypes
<1>2. IsFiniteSet(N) /\ IsFiniteSet(cq[m]) /\ IsFiniteSet(wc[m])
  <2>1. IsFiniteSet(net) /\ IsFiniteSet(cq[m]) /\ IsFiniteSet(wc[m])
    BY <1>0, FiniteData, Zenon
  <2>2. QED BY <1>1, <2>1, FS_Subset, Zenon
<1>3. /\ \A p \in N : At("net", p)
      /\ \A p \in cq[m] : At("cq", p)
      /\ \A p \in wc[m] : At("wc", p)
  BY <1>0, Zenon DEF At, Sorted
<1>4. \A p \in Datagrams, l, k \in Places : At(l, p) /\ At(k, p) => l = k
  BY <1>0, Zenon DEF Apart
<1>5. N \cap cq[m] = {} /\ (N \cup cq[m]) \cap wc[m] = {}
  <2>1. {"net", "cq", "wc"} \subseteq Places
    BY Zenon DEF Places
  <2>2. QED BY <1>1, <1>3, <1>4, <2>1, Zenon
<1> HIDE DEF N
<1>6. /\ IsFiniteSet(N \cup cq[m]) /\ Cardinality(N) \in Nat
      /\ Cardinality(N \cup cq[m]) = Cardinality(N) + Cardinality(cq[m])
  BY <1>2, <1>5, Disjoint, Zenon
<1>7. /\ IsFiniteSet((N \cup cq[m]) \cup wc[m])
      /\ Cardinality((N \cup cq[m]) \cup wc[m]) = Cardinality(N \cup cq[m]) + Cardinality(wc[m])
  BY <1>2, <1>5, <1>6, Disjoint, Zenon
<1>8. Toward(m) = (N \cup cq[m]) \cup wc[m]
  BY Zenon DEF Toward, N
<1>9. QED BY <1>6, <1>7, <1>8, Zenon DEF N

\* What is on its way to a thread has a place and fits.
LEMMA TowardFits ==
  ASSUME RpcInv, NEW m \in Machines, NEW p \in Toward(m)
  PROVE  /\ p \in Datagrams /\ p.to = m /\ Fits(p)
         /\ \E l \in Places : l # "resp" /\ At(l, p)
<1>0. DataTypes /\ Sorted /\ Fitting
  BY Zenon DEF RpcInv, Types
<1>1. p \in Datagrams /\ p.to = m
  BY <1>0, Zenon DEF DataTypes, Sorted, Toward
<1>2. \E l \in {"net", "cq", "wc"} : At(l, p)
  BY <1>0, <1>1, Zenon DEF At, Toward
<1>3. \E l \in Places : l # "resp" /\ At(l, p)
  BY <1>2, Zenon DEF Places
<1>4. QED BY <1>0, <1>1, <1>3, Zenon DEF Fitting

\* A coroutine has one request datagram for the thread, or one response to it.
LEMMA RequestsPacked ==
  ASSUME RpcInv, NEW m \in Machines, NEW Q, Q = {p \in Toward(m) : p.isReq}
  PROVE  /\ Q \cap respBatch[m] = {}
         /\ IsFiniteSet(Q \cup respBatch[m])
         /\ Cardinality(Q \cup respBatch[m]) <= Cardinality(Machines) * Cardinality(Slaves)
<1> DEFINE S == Q \cup respBatch[m]
           T == Machines \X Slaves
           f == [p \in S |-> <<Requester(p), p.coro>>]
<1>0. DataTypes /\ Sorted /\ Apart
  BY Zenon DEF RpcInv, Types
<1>1. \A p \in Q : p \in Datagrams /\ Peer(p) = m /\ \E l \in Places : l # "resp" /\ At(l, p)
  BY TowardFits, Zenon DEF Peer
<1>2. \A p \in respBatch[m] : p \in Datagrams /\ ~p.isReq /\ Peer(p) = m /\ At("resp", p)
  BY <1>0, Zenon DEF Sorted, DataTypes, Peer, At
<1>3. Q \cap respBatch[m] = {}
  BY <1>2, Zenon
<1>4. \A p \in S : p \in Datagrams /\ Peer(p) = m /\ \E l \in Places : At(l, p)
  BY <1>1, <1>2, Zenon DEF Places
<1>5. \A p, q \in S : Requester(p) = Requester(q) /\ p.coro = q.coro => p = q
  <2> SUFFICES ASSUME NEW p \in S, NEW q \in S, Requester(p) = Requester(q), p.coro = q.coro
               PROVE  p = q
    OBVIOUS
  <2>1. Slot(p) = Slot(q) /\ p \in Datagrams /\ q \in Datagrams
    BY <1>4, Zenon DEF Slot
  <2>2. PICK l \in Places, k \in Places : At(l, p) /\ At(k, q)
    BY <1>4, Zenon
  <2>3. QED BY <1>0, <2>1, <2>2, Zenon DEF Apart
<1>6. \A p \in S : Requester(p) \in Machines /\ p.coro \in Slaves
  BY <1>4, Fields, Zenon
<1> HIDE DEF S
<1>7. f \in Injection(S, T)
  <2>1. \A p \in S : f[p] \in T
    BY <1>6, Zenon
  <2>2. \A p, q \in S : f[p] = f[q] => p = q
    BY <1>5, Zenon
  <2>3. QED BY <2>1, <2>2, Zenon DEF Injection, IsInjective
<1>8. IsFiniteSet(T) /\ Cardinality(T) = Cardinality(Machines) * Cardinality(Slaves)
  BY RpcAssumption, FS_Product, Zenon
<1>9. IsFiniteSet(S) /\ Cardinality(S) <= Cardinality(T)
  BY <1>7, <1>8, FS_Injection, Zenon
<1>10. QED BY <1>3, <1>8, <1>9, Zenon DEF S

\* A coroutine has at most one response for each request, on its way or handled.
LEMMA ResponsesPacked ==
  ASSUME RpcInv, NEW m \in Machines, NEW R, R = {p \in Toward(m) : ~p.isReq}
  PROVE  Cardinality(R) + Cardinality(Handled(m)) <= Cardinality(Slaves) * MaxMsgCoro
<1> DEFINE W == {d \in Slaves \X Machines : Part(m, d[1], d[2]) # {}}
           g == [p \in R |-> <<p.coro, p.from>>]
           f == [d \in W |-> <<d[1], CHOOSE i : i \in Part(m, d[1], d[2])>>]
           T == Slaves \X (1 .. MaxMsgCoro)
<1>0. DataTypes /\ Sorted /\ Apart /\ Types
  BY Zenon DEF RpcInv, Types
<1>1. ASSUME NEW p \in R
      PROVE  /\ p \in Datagrams /\ p.coro \in Slaves /\ p.from \in Machines
             /\ Slot(p) = <<m, p.coro, p.from>> /\ Open(m, p.coro, p.from, p.entries)
             /\ \E l \in Places : At(l, p)
  <2>1. p \in Datagrams /\ p.to = m /\ ~ p.isReq /\ Fits(p) /\ \E l \in Places : At(l, p)
    BY TowardFits, Zenon
  <2>2. Requester(p) = m /\ Peer(p) = p.from
    BY <2>1, Zenon DEF Requester, Peer
  <2>3. QED BY <2>1, <2>2, Fields, Zenon DEF Slot, Fits
<1>2. \A p, q \in R : p.coro = q.coro /\ p.from = q.from => p = q
  <2> SUFFICES ASSUME NEW p \in R, NEW q \in R, p.coro = q.coro, p.from = q.from
               PROVE  p = q
    OBVIOUS
  <2>1. Slot(p) = Slot(q) /\ p \in Datagrams /\ q \in Datagrams
    BY <1>1, Zenon
  <2>2. PICK l \in Places, k \in Places : At(l, p) /\ At(k, q)
    BY <1>1, Zenon
  <2>3. QED BY <1>0, <2>1, <2>2, Zenon DEF Apart
<1>3. \A p \in R : <<p.coro, p.from>> \in W \ Handled(m)
  <2> SUFFICES ASSUME NEW p \in R, NEW c, NEW n, c = p.coro, n = p.from
               PROVE  <<c, n>> \in W /\ <<c, n>> \notin Handled(m)
    OBVIOUS
  <2>1. c \in Slaves /\ n \in Machines /\ Open(m, c, n, p.entries)
    BY <1>1, Zenon
  <2>2. PICK i \in Part(m, c, n) : i \notin Answered(m, c)
    BY <2>1, Zenon DEF Open, Answered
  <2>3. QED BY <2>1, <2>2, Zenon DEF Handled
<1>4. Handled(m) \subseteq W
  BY Zenon DEF Handled
<1>5. ASSUME NEW d \in W
      PROVE  /\ d[1] \in Slaves /\ d[2] \in Machines /\ d = <<d[1], d[2]>>
             /\ f[d][1] = d[1] /\ f[d][2] \in Part(m, d[1], d[2])
             /\ f[d] \in T /\ batch[m][d[1]][f[d][2]] = d[2]
  <2>1. d[1] \in Slaves /\ d[2] \in Machines /\ d = <<d[1], d[2]>> /\ Part(m, d[1], d[2]) # {}
    OBVIOUS
  <2>2. PICK i \in Part(m, d[1], d[2]) : f[d] = <<d[1], i>>
    BY <2>1, Zenon
  <2>3. i \in 1 .. MaxMsgCoro
    <3>1. i \in 1 .. Len(batch[m][d[1]]) /\ Len(batch[m][d[1]]) \in 0 .. MaxMsgCoro
      BY <1>0, <2>1, Batch, Zenon
    <3>2. QED BY <3>1, RpcAssumption
  <2>4. batch[m][d[1]][i] = d[2]
    BY <2>2, Zenon DEF Part
  <2> HIDE DEF f
  <2>5. f[d] \in T
    BY <2>1, <2>2, <2>3
  <2>6. f[d][1] = d[1] /\ f[d][2] = i
    BY <2>2
  <2>7. QED BY <2>1, <2>2, <2>4, <2>5, <2>6, Zenon
<1>6. f \in Injection(W, T)
  <2>1. \A d, e \in W : f[d] = f[e] => d = e
    <3> SUFFICES ASSUME NEW d \in W, NEW e \in W, f[d] = f[e] PROVE d = e
      OBVIOUS
    <3> HIDE DEF f, W
    <3>1. f[d][1] = d[1] /\ batch[m][d[1]][f[d][2]] = d[2] /\ d = <<d[1], d[2]>>
      BY <1>5, Zenon
    <3>2. f[e][1] = e[1] /\ batch[m][e[1]][f[e][2]] = e[2] /\ e = <<e[1], e[2]>>
      BY <1>5, Zenon
    <3>3. d[1] = e[1]
      BY <3>1, <3>2, Zenon
    <3>4. d[2] = e[2]
      BY <3>1, <3>2, <3>3, Zenon
    <3>5. QED BY <3>1, <3>2, <3>3, <3>4, Zenon
  <2>2. f \in [W -> T]
    BY <1>5, Zenon
  <2>3. QED BY <2>1, <2>2, Zenon DEF Injection, IsInjective
<1>7. g \in Injection(R, W \ Handled(m))
  <2>1. g \in [R -> W \ Handled(m)]
    BY <1>3, Zenon
  <2>2. \A p, q \in R : g[p] = g[q] => p = q
    BY <1>2, Zenon
  <2>3. QED BY <2>1, <2>2, Zenon DEF Injection, IsInjective
<1>8. IsFiniteSet(T) /\ Cardinality(T) = Cardinality(Slaves) * MaxMsgCoro
  <2> DEFINE I == 1 .. MaxMsgCoro
  <2>1. IsFiniteSet(I) /\ Cardinality(I) = MaxMsgCoro
    <3>1. MaxMsgCoro \in Nat
      BY RpcAssumption, Zenon
    <3>2. QED BY <3>1, FS_Interval
  <2> HIDE DEF I
  <2>2. /\ IsFiniteSet(Slaves \X I)
        /\ Cardinality(Slaves \X I) = Cardinality(Slaves) * Cardinality(I)
    BY <2>1, RpcAssumption, FS_Product, Zenon
  <2>3. QED BY <2>1, <2>2, Zenon DEF I
<1> HIDE DEF W, g, f, T
<1>9. IsFiniteSet(W) /\ Cardinality(W) <= Cardinality(T)
  BY <1>6, <1>8, FS_Injection, Zenon
<1>10. /\ IsFiniteSet(W \ Handled(m))
       /\ Cardinality(W \ Handled(m)) = Cardinality(W) - Cardinality(Handled(m))
  <2>1. W \cap Handled(m) = Handled(m)
    BY <1>4, Zenon
  <2>2. QED BY <1>9, <2>1, FS_Difference, Zenon
<1>11. IsFiniteSet(R) /\ Cardinality(R) <= Cardinality(W \ Handled(m))
  BY <1>7, <1>10, FS_Injection, Zenon
<1>12. /\ Cardinality(R) \in Nat /\ Cardinality(W) \in Nat /\ Cardinality(Handled(m)) \in Nat
       /\ Cardinality(T) \in Nat
  BY <1>8, <1>9, <1>11, HandledFinite, FS_CardinalityType, Zenon
<1> DEFINE k == Cardinality(Slaves) * MaxMsgCoro
<1> HIDE DEF k
<1>13. Cardinality(T) = k
  BY <1>8, Zenon DEF k
<1>14. Cardinality(R) + Cardinality(Handled(m)) <= k
  BY <1>9, <1>10, <1>11, <1>12, <1>13
<1>15. QED BY <1>14, Zenon DEF k

\* The RECVs that are not posted, and the datagrams on the wire that will need one, are at
\* most what required_recvs() counts, so one is posted for each.
LEMMA Suffice == RpcInv => RecvsSuffice
<1> SUFFICES ASSUME RpcInv, NEW m \in Machines
             PROVE  Cardinality({p \in net : p.to = m}) <= posted[m]
  BY Zenon DEF RecvsSuffice
<1> DEFINE D == Toward(m)
           Q == {p \in D : p.isReq}
           R == {p \in D : ~p.isReq}
           x == Cardinality(Machines) * Cardinality(Slaves)
           y == Cardinality(Slaves) * MaxMsgCoro
           n == Cardinality({p \in net : p.to = m})
<1>0. RecvTypes /\ DataTypes /\ Sorted /\ Apart /\ CreditsInv
  BY Zenon DEF RpcInv, Types
<1>1. IsFiniteSet(D) /\ n \in Nat /\ Cardinality(D) = n + Cardinality(cq[m]) + Cardinality(wc[m])
  BY TowardCount, Zenon
<1>2. /\ IsFiniteSet(respBatch[m]) /\ Cardinality(cq[m]) \in Nat /\ Cardinality(wc[m]) \in Nat
      /\ Cardinality(respBatch[m]) \in Nat /\ Cardinality(Handled(m)) \in Nat
  BY <1>0, FiniteData, Counts, HandledFinite, Zenon
<1>3. IsFiniteSet(Q) /\ IsFiniteSet(R) /\ Q \cap R = {} /\ Q \cup R = D
  <2>1. Q \subseteq D /\ R \subseteq D /\ Q \cap R = {} /\ Q \cup R = D
    OBVIOUS
  <2>2. QED BY <1>1, <2>1, FS_Subset, Zenon
<1>4. /\ Q \cap respBatch[m] = {}
      /\ Cardinality(Q \cup respBatch[m]) <= x
  BY RequestsPacked, Zenon
<1>5. Cardinality(R) + Cardinality(Handled(m)) <= y
  BY ResponsesPacked, Zenon
<1>6. x \in Nat /\ y \in Nat /\ RequiredRecvs = y + x
  <2>1. Cardinality(Machines) \in Nat /\ Cardinality(Slaves) \in Nat /\ MaxMsgCoro \in Nat
    BY RpcAssumption, FS_CardinalityType, Zenon
  <2>2. QED BY <2>1, Slack
<1> HIDE DEF D, Q, R, x, y, n
<1>7. /\ Cardinality(Q) \in Nat /\ Cardinality(R) \in Nat
      /\ Cardinality(D) = Cardinality(Q) + Cardinality(R)
      /\ Cardinality(Q \cup respBatch[m]) = Cardinality(Q) + Cardinality(respBatch[m])
  BY <1>2, <1>3, <1>4, Disjoint, Zenon
<1>8. n + Cardinality(cq[m]) + polled[m] <= y + x
  <2>1. polled[m] <= Cardinality(wc[m]) + Cardinality(respBatch[m]) + Cardinality(Handled(m))
    BY <1>0, Zenon DEF CreditsInv, Credits
  <2>2. polled[m] \in Nat
    BY <1>0, Zenon DEF RecvTypes
  <2>3. QED BY <1>1, <1>2, <1>4, <1>5, <1>6, <1>7, <2>1, <2>2
<1>9. /\ posted[m] + recvsToPost[m] + polled[m] + Cardinality(cq[m]) = RqDepth
      /\ posted[m] \in Nat /\ recvsToPost[m] \in 0 .. RecvSlack - 1 /\ polled[m] \in Nat
  BY <1>0, Zenon DEF CreditsInv, Credits, RecvTypes
<1>10. RecvSlack \in Nat \ {0} /\ y + x + RecvSlack + 1 <= RqDepth /\ RqDepth \in Nat
  BY <1>6, Slack, RpcAssumption, Zenon
<1>11. n <= posted[m]
  BY <1>1, <1>2, <1>6, <1>8, <1>9, <1>10
<1>12. QED BY <1>11, Zenon DEF n

-----------------------------------------------------------------------------
(* Types, and the ring.                                                    *)

\* No more answers than buffers.
LEMMA AnsweredBound ==
  ASSUME RpcInv, NEW m \in Machines, NEW c \in Slaves
  PROVE  numReqsDone[m][c] \in 0 .. MaxMsgCoro
<1>1. Types /\ Answers(m, c)
  BY Zenon DEF RpcInv, AnswersInv
<1> DEFINE k == Len(batch[m][c])
<1>2. k \in 0 .. MaxMsgCoro /\ MaxMsgCoro \in Nat
  BY <1>1, Batch, RpcAssumption, Zenon
<1>3. Answered(m, c) \subseteq 1 .. k /\ numReqsDone[m][c] = Cardinality(Answered(m, c))
  BY <1>1, Zenon DEF Answered, Answers
<1> HIDE DEF k
<1>4. IsFiniteSet(1 .. k) /\ Cardinality(1 .. k) = k
  BY <1>2, FS_Interval
<1>5. IsFiniteSet(Answered(m, c)) /\ Cardinality(Answered(m, c)) <= k
  BY <1>3, <1>4, FS_Subset, Zenon
<1>6. Cardinality(Answered(m, c)) \in Nat
  BY <1>5, FS_CardinalityType, Zenon
<1>7. QED BY <1>2, <1>3, <1>5, <1>6

\* The types of Rpc are weaker than those of the invariant.
LEMMA Typed == RpcInv => TypeOK
<1> SUFFICES ASSUME RpcInv PROVE TypeOK
  OBVIOUS
<1>0. SlaveTypes /\ LoopTypes /\ RecvTypes /\ DataTypes /\ Sorted /\ Apart /\ CreditsInv
  BY Zenon DEF RpcInv, Types
<1>1. /\ running \in [Machines -> Slaves \cup {Master}]
      /\ nextCoro \in [Machines -> [Slaves \cup {Master} -> Slaves \cup {Master}]]
      /\ curComp \in [Machines -> Slaves \cup {Master}]
  BY <1>0, Zenon DEF LoopTypes, Coros
<1>2. batch \in [Machines -> [Slaves -> Batches \cup {<<>>}]]
  BY <1>0, Zenon DEF SlaveTypes
<1>3. numReqsDone \in [Machines -> [Slaves -> 0 .. MaxMsgCoro]]
  <2>1. numReqsDone \in [Machines -> [Slaves -> Nat]]
    BY <1>0, Zenon DEF SlaveTypes
  <2>2. \A m \in Machines : numReqsDone[m] \in [Slaves -> 0 .. MaxMsgCoro]
    BY <2>1, AnsweredBound, Zenon
  <2>3. QED BY <2>1, <2>2, Zenon
<1>4. \A m \in Machines : sent[m] \in [Slaves -> 0 .. MaxBatches[m]]
  <2> SUFFICES ASSUME NEW m \in Machines PROVE sent[m] \in [Slaves -> 0 .. MaxBatches[m]]
    OBVIOUS
  <2>1. /\ sent[m] \in [Slaves -> Nat] /\ MaxBatches[m] \in Nat
        /\ \A c \in Slaves : sent[m][c] \in Nat /\ sent[m][c] <= MaxBatches[m]
    BY <1>0, RpcAssumption, Zenon DEF SlaveTypes
  <2>2. QED BY <2>1
<1>5. posted \in [Machines -> 0 .. RqDepth] /\ polled \in [Machines -> 0 .. RqDepth]
  <2>1. ASSUME NEW m \in Machines PROVE posted[m] \in 0 .. RqDepth /\ polled[m] \in 0 .. RqDepth
    <3>1. /\ posted[m] \in Nat /\ recvsToPost[m] \in Nat /\ polled[m] \in Nat
          /\ Cardinality(cq[m]) \in Nat /\ RqDepth \in Nat
      BY <1>0, Counts, RpcAssumption DEF RecvTypes
    <3>2. posted[m] + recvsToPost[m] + polled[m] + Cardinality(cq[m]) = RqDepth
      BY <1>0, Zenon DEF CreditsInv, Credits
    <3>3. QED BY <3>1, <3>2
  <2>2. QED BY <1>0, <2>1, Zenon DEF RecvTypes
<1>6. recvsToPost \in [Machines -> 0 .. RecvSlack - 1]
  BY <1>0, Zenon DEF RecvTypes
<1>7. /\ net \cup lost \subseteq Datagrams
      /\ \A m \in Machines : cq[m] \cup wc[m] \cup respBatch[m] \subseteq Datagrams
  BY <1>0, Zenon DEF DataTypes
<1>8. QED BY <1>1, <1>2, <1>3, <1>4, <1>5, <1>6, <1>7, Zenon DEF TypeOK

\* A coroutine that is in the ring has its answers, and no datagram.
LEMMA IdleComplete ==
  ASSUME RpcInv, NEW m \in Machines, NEW c \in Slaves, Idle(m, c)
  PROVE  Complete(m, c)
<1>0. DataTypes /\ Sorted /\ Fitting /\ Answers(m, c)
  BY Zenon DEF RpcInv, Types, AnswersInv
<1>1. Outstanding(m, c) = {}
  <2> SUFFICES ASSUME NEW p \in Outstanding(m, c) PROVE FALSE
    OBVIOUS
  <2>1. p.coro = c /\ Requester(p) = m
    BY Zenon DEF Outstanding
  <2>2. \/ p \in net \cup lost
        \/ \E n \in Machines : p \in cq[n] \cup wc[n] \cup respBatch[n]
    BY Zenon DEF Outstanding
  <2>3. p \in Datagrams /\ \E l \in Places : At(l, p)
    <3>1. CASE p \in net \cup lost
      BY <1>0, <3>1, Zenon DEF DataTypes, At, Places
    <3>2. ASSUME NEW n \in Machines, p \in cq[n] \cup wc[n] \cup respBatch[n]
          PROVE  p \in Datagrams /\ \E l \in Places : At(l, p)
      <4>1. p \in Datagrams
        BY <1>0, <3>2, Zenon DEF DataTypes
      <4>2. \E l \in {"cq", "wc", "resp"} : At(l, p)
        BY <1>0, <3>2, Zenon DEF Sorted, At
      <4>3. QED BY <4>1, <4>2, Zenon DEF Places
    <3>3. QED BY <2>2, <3>1, <3>2, Zenon
  <2>4. QED BY <1>0, <2>1, <2>3, IdleFree, Zenon
<1>2. \A i \in 1 .. Len(batch[m][c]) : respBuf[m][c][i] = <<batch[m][c][i], ReqId(m, c, i)>>
  <2>1. \A i \in 1 .. Len(batch[m][c]) : respBuf[m][c][i] # NoResp
    BY Zenon DEF Idle, Answered
  <2>2. QED BY <1>0, <2>1, Zenon DEF Answers
<1>3. QED BY <1>1, <1>2, Zenon DEF Complete

\* The ring of the invariant is the one that the property asks for.
LEMMA Ringed == RpcInv => RingOfCompleteBatches
<1> SUFFICES ASSUME RpcInv, NEW m \in Machines, polled[m] = 0
             PROVE  \E n \in 1 .. NumCoro : \E ring \in [1 .. n -> Slaves \cup {Master}] :
                      /\ ring[1] = running[m] /\ ring[n] = Master
                      /\ Linked(m, ring)
                      /\ \A i \in 1 .. n - 1 : Complete(m, ring[i])
  BY Zenon DEF RingOfCompleteBatches
<1>1. PICK ring \in Seq(Coros) : Way(m, ring)
  BY Zenon DEF RpcInv, RingInv
<1>2. PICK n : n = Len(ring)
  OBVIOUS
<1>3. /\ n \in Nat \ {0} /\ ring \in [1 .. n -> Coros]
      /\ \A i, j \in 1 .. n : ring[i] = ring[j] => i = j
      /\ \A i \in 1 .. n : ring[i] # Master => Idle(m, ring[i])
      /\ ring[1] = running[m] /\ ring[n] = Master /\ Linked(m, ring)
  <2>1. /\ n \in Nat \ {0}
        /\ \A i, j \in 1 .. n : ring[i] = ring[j] => i = j
        /\ \A i \in 1 .. n : ring[i] # Master => Idle(m, ring[i])
    BY <1>1, <1>2, WayFacts
  <2>2. ring \in [1 .. n -> Coros]
    BY <1>2
  <2>3. ring[1] = running[m] /\ ring[n] = Master /\ Linked(m, ring)
    BY <1>1, <1>2, Zenon DEF Way
  <2>4. QED BY <2>1, <2>2, <2>3, Zenon
<1>4. n \in 1 .. NumCoro
  <2>1. IsFiniteSet(Coros) /\ Cardinality(Coros) = NumCoro
    BY NotMaster, RpcAssumption, FS_AddElement, Zenon DEF Coros, NumCoro
  <2>2. ring \in Injection(1 .. n, Coros)
    BY <1>3, Zenon DEF Injection, IsInjective
  <2>3. Cardinality(1 .. n) <= NumCoro
    BY <2>1, <2>2, FS_Injection, Zenon
  <2>4. Cardinality(1 .. n) = n /\ NumCoro \in Nat
    BY <1>3, <2>1, FS_Interval, FS_CardinalityType
  <2>5. QED BY <1>3, <2>3, <2>4
<1>5. ASSUME NEW i \in 1 .. n - 1 PROVE Complete(m, ring[i])
  <2>1. i \in 1 .. n /\ n \in 1 .. n /\ i # n
    BY <1>3
  <2>2. ring[i] # Master /\ ring[i] \in Coros
    BY <1>3, <2>1, Zenon
  <2>3. ring[i] \in Slaves
    BY <2>2, Zenon DEF Coros
  <2>4. Idle(m, ring[i])
    BY <1>3, <2>1, <2>2, Zenon
  <2>5. QED BY <2>3, <2>4, IdleComplete, Zenon
<1>6. QED BY <1>3, <1>4, <1>5, Zenon DEF Coros

-----------------------------------------------------------------------------
(* The theorems.                                                           *)

\* Whatever is sent, lost and reordered, the variables keep their types: no more
\* than RqDepth RECVs are posted, and fewer than recv_slack are held back
\* between two polls.
THEOREM TypeCorrect == Spec => []TypeOK
<1>1. QED BY RpcInvariant, Typed, PTL

\* Every datagram finds a RECV, however the arrivals interleave with the polls:
\* the RECVs that init_non_zero_members() reserves are enough for any number of
\* machines and coroutines.
THEOREM DatagramsFindRecvs == Spec => []RecvsSuffice
<1>1. QED BY RpcInvariant, Suffice, PTL

\* The coroutines that poll_comps() links come back to the master, each once, and
\* each of them has had the answer to every request of its batch.
THEOREM RingsComplete == Spec => []RingOfCompleteBatches
<1>1. QED BY RpcInvariant, Ringed, PTL
=============================================================================
