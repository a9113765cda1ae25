-------------------------------- MODULE Rpc --------------------------------
(***************************************************************************)
(* The RPC layer (src/rpc): worker threads, one per machine, that exchange *)
(* coalesced request and response datagrams.  On each thread a master      *)
(* coroutine polls for completions and slave coroutines send batches of    *)
(* requests; control passes along the ring next_coro.                      *)
(*                                                                         *)
(* The steps of a thread are the poll itself, each completion, the posting *)
(* of RECVs with the responses, and each slave's turn.  Datagrams arrive   *)
(* in any order, so a queue of completions is the set of those it holds.   *)
(***************************************************************************)
EXTENDS Naturals, FiniteSets, Sequences, Functions

CONSTANTS
  Machines,       \* machines, each with one worker of this local id
  Slaves,         \* 1 .. num_coro - 1; the master is coroutine 0
  MaxMsgCoro,     \* RPC_MAX_MSG_CORO
  RqDepth,        \* HRD_RQ_DEPTH
  MinRecvSlack,   \* RPC_MIN_RECV_SLACK
  Batches,        \* the batches a slave may send: sequences of machines
  MaxBatches,     \* bound: batches that a slave of each machine sends
  MaxLost         \* bound: datagrams that the network loses

Master == 0
NumCoro == Cardinality(Slaves) + 1

\* required_recvs(): responses to this thread's requests, and requests to it.
RequiredRecvs ==
  (NumCoro - 1) * MaxMsgCoro + Cardinality(Machines) * (NumCoro - 1)

\* Mutant: recv_slack does not reserve the RECVs of outstanding datagrams.
RecvSlack_NoReserve == RqDepth - 1

\* recv_slack, as init_non_zero_members() computes it.
RecvSlack ==
  LET slack == RqDepth - RequiredRecvs - 1 IN
  IF slack >= MinRecvSlack THEN MinRecvSlack ELSE slack

\* The asserts of check_info() and init_non_zero_members().
ASSUME RpcAssumption ==
  /\ IsFiniteSet(Machines)
  /\ IsFiniteSet(Slaves) /\ Slaves # {}
  /\ Slaves = 1 .. Cardinality(Slaves)
  /\ MaxMsgCoro \in Nat /\ RqDepth \in Nat /\ MaxLost \in Nat
  /\ RequiredRecvs <= RqDepth
  /\ RqDepth - RequiredRecvs - 1 >= MinRecvSlack
  /\ MinRecvSlack \in Nat \ {0}
  /\ MaxBatches \in [Machines -> Nat]
  /\ \A b \in Batches :
       b \in Seq(Machines) /\ Len(b) \in 1 .. MaxMsgCoro

VARIABLES
  running,        \* running[m]: the coroutine that has the thread
  nextCoro,       \* next_coro
  batch,          \* batch[m][c]: the machines of the requests of the batch
  numReqsDone,    \* num_reqs_done of each batch
  respBuf,        \* respBuf[m][c][i]: the response to the i-th request
  sent,           \* sent[m][c]: batches sent so far; names the requests
  posted,         \* RECVs posted and not yet used
  recvsToPost,    \* recvs_to_post
  cq,             \* the RECV completion queue
  polled,         \* number of completions that the current poll found
  wc,             \* those that poll_comps() has still to handle
  curComp,        \* cur_comp_coro
  respBatch,      \* responses gathered by the current poll
  net,            \* datagrams on the wire
  lost            \* lost datagrams

slaveVars == <<batch, numReqsDone, respBuf, sent>>
recvVars == <<posted, recvsToPost>>
pollVars == <<polled, wc, curComp, respBatch>>
vars == <<running, nextCoro, slaveVars, recvVars, cq, pollVars, net, lost>>

NoResp == <<>>

\* The i-th request of the current batch of coroutine c of machine m.
ReqId(m, c, i) == <<m, c, sent[m][c], i>>

Init ==
  /\ running = [m \in Machines |-> 1]
  /\ nextCoro = [m \in Machines |-> [c \in Slaves \cup {Master} |->
                   IF c = NumCoro - 1 THEN Master ELSE c + 1]]
  /\ batch = [m \in Machines |-> [c \in Slaves |-> <<>>]]
  /\ numReqsDone = [m \in Machines |-> [c \in Slaves |-> 0]]
  /\ respBuf = [m \in Machines |-> [c \in Slaves |-> <<>>]]
  /\ sent = [m \in Machines |-> [c \in Slaves |-> 0]]
  /\ posted = [m \in Machines |-> RqDepth]
  /\ recvsToPost = [m \in Machines |-> 0]
  /\ cq = [m \in Machines |-> {}]
  /\ polled = [m \in Machines |-> 0]
  /\ wc = [m \in Machines |-> {}]
  /\ curComp = [m \in Machines |-> Master]
  /\ respBatch = [m \in Machines |-> {}]
  /\ net = {}
  /\ lost = {}

-----------------------------------------------------------------------------
(* A slave's turn.                                                         *)

\* start_new_req() coalesces the requests of a batch by machine.  A datagram
\* carries, in order, the sequence numbers and the requests.
Coalesced(m, c, b, n) ==
  [isReq |-> TRUE, from |-> m, to |-> n, coro |-> c,
   entries |-> [i \in {j \in 1 .. Len(b) : b[j] = n} |-> <<m, c, sent[m][c] + 1, i>>]]

\* clear_req_batch(), start_new_req() for each request, send_reqs(), yield.
\* A slave that has sent all its batches keeps silent.
SlaveTurn(m) ==
  LET c == running[m] IN
  /\ c # Master
  /\ \/ /\ sent[m][c] < MaxBatches[m]
        /\ \E b \in Batches :
             /\ batch' = [batch EXCEPT ![m][c] = b]
             /\ respBuf' = [respBuf EXCEPT ![m][c] = [i \in 1 .. Len(b) |-> NoResp]]
             /\ net' = net \cup {Coalesced(m, c, b, n) : n \in Range(b)}
        /\ numReqsDone' = [numReqsDone EXCEPT ![m][c] = 0]
        /\ sent' = [sent EXCEPT ![m][c] = @ + 1]
     \/ /\ sent[m][c] = MaxBatches[m]
        /\ UNCHANGED <<slaveVars, net>>
  /\ running' = [running EXCEPT ![m] = nextCoro[m][c]]
  /\ UNCHANGED <<nextCoro, recvVars, cq, pollVars, lost>>

-----------------------------------------------------------------------------
(* poll_comps()                                                            *)

MasterPolls(m) == running[m] = Master /\ polled[m] = 0

\* Nothing has arrived: the loop has only the master.
PollNone(m) ==
  /\ MasterPolls(m)
  /\ cq[m] = {}
  /\ nextCoro' = [nextCoro EXCEPT ![m][Master] = Master]
  /\ UNCHANGED <<running, slaveVars, recvVars, cq, pollVars, net, lost>>

Poll(m) ==
  /\ MasterPolls(m)
  /\ cq[m] # {}
  /\ polled' = [polled EXCEPT ![m] = Cardinality(cq[m])]
  /\ wc' = [wc EXCEPT ![m] = cq[m]]
  /\ cq' = [cq EXCEPT ![m] = {}]
  /\ curComp' = [curComp EXCEPT ![m] = Master]
  /\ respBatch' = [respBatch EXCEPT ![m] = {}]
  /\ UNCHANGED <<running, nextCoro, slaveVars, recvVars, net, lost>>

\* Mutant: a coroutine is linked at each of its responses.
HandleResp_LinkEach(m, p) ==
  /\ p \in wc[m]
  /\ ~p.isReq
  /\ numReqsDone' = [numReqsDone EXCEPT ![m][p.coro] = @ + Cardinality(DOMAIN p.entries)]
  /\ nextCoro' = [nextCoro EXCEPT ![m][curComp[m]] = p.coro]
  /\ curComp' = [curComp EXCEPT ![m] = p.coro]
  /\ respBuf' = [respBuf EXCEPT ![m][p.coro] =
       [i \in DOMAIN @ |-> IF i \in DOMAIN p.entries THEN <<p.from, p.entries[i]>> ELSE @[i]]]
  /\ wc' = [wc EXCEPT ![m] = @ \ {p}]
  /\ UNCHANGED <<running, batch, sent, recvVars, cq, polled, respBatch, net, lost>>

\* A response: count it, link its coroutine if the batch is complete, copy the
\* answers to the buffers that the sequence numbers name.
HandleResp(m, p) ==
  LET done == numReqsDone[m][p.coro] + Cardinality(DOMAIN p.entries) IN
  /\ p \in wc[m]
  /\ ~p.isReq
  /\ numReqsDone' = [numReqsDone EXCEPT ![m][p.coro] = done]
  /\ IF done = Len(batch[m][p.coro])
     THEN /\ nextCoro' = [nextCoro EXCEPT ![m][curComp[m]] = p.coro]
          /\ curComp' = [curComp EXCEPT ![m] = p.coro]
     ELSE UNCHANGED <<nextCoro, curComp>>
  /\ respBuf' = [respBuf EXCEPT ![m][p.coro] =
       [i \in DOMAIN @ |-> IF i \in DOMAIN p.entries THEN <<p.from, p.entries[i]>> ELSE @[i]]]
  /\ wc' = [wc EXCEPT ![m] = @ \ {p}]
  /\ UNCHANGED <<running, batch, sent, recvVars, cq, polled, respBatch, net, lost>>

\* A request: start_new_resp() turns its immediate into that of the response,
\* and the handlers answer its entries in order.
HandleReq(m, p) ==
  /\ p \in wc[m]
  /\ p.isReq
  /\ respBatch' = [respBatch EXCEPT ![m] = @ \cup
       {[p EXCEPT !.isReq = FALSE, !.from = m, !.to = p.from]}]
  /\ wc' = [wc EXCEPT ![m] = @ \ {p}]
  /\ UNCHANGED <<running, nextCoro, slaveVars, recvVars, cq, polled, curComp, net, lost>>

\* Mutant: recvs_to_post is not reset.
PostRecvs_NoReset(m) ==
  LET used == recvsToPost[m] + polled[m] IN
  /\ posted' = [posted EXCEPT ![m] = IF used >= RecvSlack THEN @ + used ELSE @]
  /\ recvsToPost' = [recvsToPost EXCEPT ![m] = used]

\* Post RECVs once enough are used up.
PostRecvs(m) ==
  LET used == recvsToPost[m] + polled[m] IN
  IF used >= RecvSlack
  THEN /\ posted' = [posted EXCEPT ![m] = @ + used]
       /\ recvsToPost' = [recvsToPost EXCEPT ![m] = 0]
  ELSE /\ recvsToPost' = [recvsToPost EXCEPT ![m] = used]
       /\ UNCHANGED posted

\* Mutant: the loop is closed at the master, not at the last coroutine in it.
PollEnd_EmptyLoop(m) ==
  /\ polled[m] > 0
  /\ wc[m] = {}
  /\ PostRecvs(m)
  /\ net' = net \cup respBatch[m]
  /\ respBatch' = [respBatch EXCEPT ![m] = {}]
  /\ nextCoro' = [nextCoro EXCEPT ![m][Master] = Master]
  /\ running' = [running EXCEPT ![m] = nextCoro'[m][Master]]
  /\ polled' = [polled EXCEPT ![m] = 0]
  /\ curComp' = [curComp EXCEPT ![m] = Master]
  /\ UNCHANGED <<slaveVars, cq, wc, lost>>

\* Every completion is handled: post RECVs, send_resps(), close the loop, yield.
PollEnd(m) ==
  /\ polled[m] > 0
  /\ wc[m] = {}
  /\ PostRecvs(m)
  /\ net' = net \cup respBatch[m]
  /\ respBatch' = [respBatch EXCEPT ![m] = {}]
  /\ nextCoro' = [nextCoro EXCEPT ![m][curComp[m]] = Master]
  /\ running' = [running EXCEPT ![m] = nextCoro'[m][Master]]
  /\ polled' = [polled EXCEPT ![m] = 0]
  /\ curComp' = [curComp EXCEPT ![m] = Master]
  /\ UNCHANGED <<slaveVars, cq, wc, lost>>

-----------------------------------------------------------------------------
(* The network: unreliable datagrams, in any order.                        *)

\* A datagram uses up a RECV; without one the receiver's NIC discards it.
Deliver(p) ==
  /\ p \in net
  /\ net' = net \ {p}
  /\ IF posted[p.to] > 0
     THEN /\ posted' = [posted EXCEPT ![p.to] = @ - 1]
          /\ cq' = [cq EXCEPT ![p.to] = @ \cup {p}]
          /\ UNCHANGED lost
     ELSE /\ lost' = lost \cup {p}
          /\ UNCHANGED <<posted, cq>>
  /\ UNCHANGED <<running, nextCoro, slaveVars, recvsToPost, pollVars>>

Lose(p) ==
  /\ p \in net
  /\ Cardinality(lost) < MaxLost
  /\ net' = net \ {p}
  /\ lost' = lost \cup {p}
  /\ UNCHANGED <<running, nextCoro, slaveVars, recvVars, cq, pollVars>>

-----------------------------------------------------------------------------
Worker(m) ==
  \/ SlaveTurn(m)
  \/ PollNone(m) \/ Poll(m) \/ PollEnd(m)
  \/ \E p \in wc[m] : HandleResp(m, p) \/ HandleReq(m, p)

Network == \E p \in net : Deliver(p)

Next ==
  \/ \E m \in Machines : Worker(m)
  \/ Network
  \/ \E p \in net : Lose(p)

Spec == Init /\ [][Next]_vars

\* Worker threads run for ever, and a datagram that is not lost arrives.
FairSpec ==
  /\ Spec
  /\ \A m \in Machines :
       /\ WF_vars(SlaveTurn(m)) /\ WF_vars(Poll(m)) /\ WF_vars(PollEnd(m))
       /\ WF_vars(\E p \in wc[m] : HandleResp(m, p) \/ HandleReq(m, p))
  /\ WF_vars(Network)

-----------------------------------------------------------------------------
(* Properties.                                                             *)

\* The requests of the batches that the slaves send.
Requests ==
  UNION {{m} \X Slaves \X (1 .. MaxBatches[m]) \X (1 .. MaxMsgCoro) : m \in Machines}

Datagrams ==
  [isReq : BOOLEAN, from : Machines, to : Machines, coro : Slaves,
   entries : UNION {[I -> Requests] : I \in (SUBSET (1 .. MaxMsgCoro)) \ {{}}}]

\* Every variable has its type: in particular no more than RqDepth RECVs are
\* ever posted, and fewer than recv_slack are held back between two polls.
TypeOK ==
  /\ running \in [Machines -> Slaves \cup {Master}]
  /\ nextCoro \in [Machines -> [Slaves \cup {Master} -> Slaves \cup {Master}]]
  /\ batch \in [Machines -> [Slaves -> Batches \cup {<<>>}]]
  /\ numReqsDone \in [Machines -> [Slaves -> 0 .. MaxMsgCoro]]
  /\ \A m \in Machines : sent[m] \in [Slaves -> 0 .. MaxBatches[m]]
  /\ posted \in [Machines -> 0 .. RqDepth]
  /\ recvsToPost \in [Machines -> 0 .. RecvSlack - 1]
  /\ polled \in [Machines -> 0 .. RqDepth]
  /\ curComp \in [Machines -> Slaves \cup {Master}]
  /\ net \cup lost \subseteq Datagrams
  /\ \A m \in Machines :
       cq[m] \cup wc[m] \cup respBatch[m] \subseteq Datagrams

\* Every datagram finds a RECV: however the arrivals interleave with the polls,
\* and although RECVs are posted again only recv_slack at a time, a thread has
\* at least as many RECVs posted as datagrams are on their way to it.
RecvsSuffice ==
  \A m \in Machines : Cardinality({p \in net : p.to = m}) <= posted[m]

\* The machine whose slave a datagram belongs to.
Requester(p) == IF p.isReq THEN p.from ELSE p.to

\* The datagrams of slave c of machine m that have not been handled.
Outstanding(m, c) ==
  {p \in net \cup lost \cup UNION {cq[n] \cup wc[n] \cup respBatch[n] : n \in Machines} :
     p.coro = c /\ Requester(p) = m}

\* ring is a way along next_coro that meets no coroutine twice.
Linked(m, ring) ==
  /\ \A i \in 1 .. Len(ring) - 1 : ring[i + 1] = nextCoro[m][ring[i]]
  /\ \A i, j \in 1 .. Len(ring) : ring[i] = ring[j] => i = j

\* Slave c waits for nothing: it has had, for every request of its batch, the
\* answer to this very request from the machine it was sent to.
Complete(m, c) ==
  /\ Outstanding(m, c) = {}
  /\ \A i \in 1 .. Len(batch[m][c]) :
       respBuf[m][c][i] = <<batch[m][c][i], ReqId(m, c, i)>>

\* The ring that poll_comps() leaves comes back from the running coroutine to
\* the master and names each coroutine once, and none of those coroutines waits
\* for anything.
RingOfCompleteBatches ==
  \A m \in Machines : polled[m] = 0 =>
    \E n \in 1 .. NumCoro : \E ring \in [1 .. n -> Slaves \cup {Master}] :
      /\ ring[1] = running[m] /\ ring[n] = Master
      /\ Linked(m, ring)
      /\ \A i \in 1 .. n - 1 : Complete(m, ring[i])

\* A lost datagram stops the coroutine that it belongs to and no other: every
\* batch of a coroutine without losses is completed, and the coroutine runs.
BatchesComplete ==
  \A m \in Machines, c \in Slaves :
    (numReqsDone[m][c] < Len(batch[m][c])) ~>
      \/ running[m] = c
      \/ \E p \in lost : p.coro = c /\ Requester(p) = m
=============================================================================
