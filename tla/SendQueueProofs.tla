-------------------------- MODULE SendQueueProofs --------------------------
(***************************************************************************)
(* The windows of set_flags(): for any number of queue pairs, any length   *)
(* of list and any sizes of messages, the send queue does not overflow,    *)
(* every wait is for a work request that is posted, and a non-inline       *)
(* buffer is not used again while the NIC may read it.                     *)
(***************************************************************************)
EXTENDS SendQueue, SequenceTheorems, TLAPS

\* The work requests of q that are older than its current window.
Base(q) == Len(wr[q]) - nbPending[q]

\* Either all work requests since the last one reaped belong to the current
\* window, or those of the window before, but for its first, precede them.  The
\* first of the current window is the only one that is signalled.
Window(q) ==
  /\ Base(q) \in {0, UnsigBatch - 1}
  /\ \A i \in 1 .. Len(wr[q]) : wr[q][i].signaled <=> (i = Base(q) + 1)

\* The list being put together is shorter than postlist, and it is the active
\* queue pair's.
List(q) ==
  IF q = activeQp THEN Len(wr[q]) - posted[q] < postlist
  ELSE posted[q] = Len(wr[q])

IInv == TypeOK /\ NoneRefused /\ \A q \in Qps : Window(q) /\ List(q)

-----------------------------------------------------------------------------
\* w is s without its first r elements and with e at its end.
Shifted(s, r, e, w) ==
  /\ Len(w) = Len(s) - r + 1
  /\ \A i \in 1 .. Len(s) - r : w[i] = s[i + r]
  /\ w[Len(s) - r + 1] = e

LEMMA DropAppend ==
  ASSUME NEW S, NEW s \in Seq(S), NEW r \in 0 .. Len(s), NEW e \in S
  PROVE  /\ Append(SubSeq(s, r + 1, Len(s)), e) \in Seq(S)
         /\ Shifted(s, r, e, Append(SubSeq(s, r + 1, Len(s)), e))
<1> DEFINE t == SubSeq(s, r + 1, Len(s))
<1>1. Len(s) \in Nat
  OBVIOUS
<1>2. /\ t \in Seq(S)
      /\ Len(t) = Len(s) - r
      /\ \A i \in 1 .. Len(s) - r : t[i] = s[i + r]
  BY <1>1
<1> HIDE DEF t
<1>3. /\ Append(t, e) \in Seq(S)
      /\ Len(Append(t, e)) = Len(t) + 1
      /\ \A i \in 1 .. Len(t) : Append(t, e)[i] = t[i]
      /\ Append(t, e)[Len(t) + 1] = e
  BY <1>2, AppendProperties
<1> QED
  BY <1>1, <1>2, <1>3 DEF t, Shifted

\* What the constants amount to.
LEMMA Sizes ==
  /\ MaxQps \in Nat \ {0} /\ MaxPostlist \in Nat \ {0} /\ MaxMsgs \in Nat
  /\ UnsigBatch \in Nat /\ UnsigBatch >= 2 /\ MaxPostlist < UnsigBatch
  /\ SqDepth \in Nat /\ 2 * UnsigBatch - 2 < SqDepth
  /\ RqDepth \in Nat /\ 2 * UnsigBatch - 2 < RqDepth
  BY SendAssumption

\* The work request for the next message.
NewWr(large) ==
  [signaled |-> Signal(activeQp),
   buf |-> IF large /\ kind = "resp" THEN niIndex ELSE NoBuf]

\* The step of the active queue pair from its work requests to w, when the first
\* r of them are reaped.
Sends(large, r, w) ==
  LET q == activeQp IN
  /\ w \in Seq(WorkRequests)
  /\ Shifted(wr[q], r, NewWr(large), w)
  /\ Len(w) <= 2 * UnsigBatch - 2
  /\ wr' = [wr EXCEPT ![q] = w]
  /\ done' = [done EXCEPT ![q] = @ - r]
  /\ refused' = refused
  /\ \/ /\ posted' = [posted EXCEPT ![q] = Len(w)]
        /\ activeQp' = ModAdd(activeQp, numQps)
     \/ /\ posted' = [posted EXCEPT ![q] = @ - r]
        /\ activeQp' = activeQp
        /\ Len(w) - (posted[q] - r) < postlist
  /\ \/ /\ WindowFull(q)
        /\ r = Base(q) + 1
        /\ nbPending' = [nbPending EXCEPT ![q] = 0]
     \/ /\ ~WindowFull(q)
        /\ r = 0
        /\ nbPending' = [nbPending EXCEPT ![q] = @ + 1]

LEMMA SendMsgSends ==
  ASSUME IInv, NEW large \in BOOLEAN, SendMsg(large)
  PROVE  \E r \in 0 .. done[activeQp], w \in Seq(WorkRequests) : Sends(large, r, w)
<1> DEFINE q == activeQp
           new == NewWr(large)
           W(r) == Append(SubSeq(wr[q], r + 1, Len(wr[q])), new)
<1>1. /\ q \in Qps /\ wr[q] \in Seq(WorkRequests) /\ Len(wr[q]) \in Nat
      /\ posted[q] \in Nat /\ done[q] \in Nat
      /\ done[q] <= posted[q] /\ posted[q] <= Len(wr[q])
      /\ nbPending[q] \in 0 .. UnsigBatch - 1
      /\ niIndex \in 0 .. RqDepth - 1
      /\ postlist \in Nat
      /\ Window(q) /\ Len(wr[q]) - posted[q] < postlist
      /\ new \in WorkRequests
  <2>1. q \in Qps /\ postlist \in Nat /\ niIndex \in 0 .. RqDepth - 1
    BY Sizes DEF IInv, TypeOK
  <2>2. wr[q] \in Seq(WorkRequests) /\ Len(wr[q]) \in Nat
    BY <2>1 DEF IInv, TypeOK
  <2>3. new \in WorkRequests
    BY <2>1, Sizes DEF NewWr, Signal, WorkRequests, NoBuf
  <2> QED
    BY <2>1, <2>2, <2>3 DEF IInv, TypeOK, List
<1>2. PICK r \in 0 .. done[q] :
        /\ SetFlags(q, r)
        /\ done' = [done EXCEPT ![q] = @ - r]
        /\ IF Len(W(r)) - (posted[q] - r) = postlist \/ todo = 1
           THEN /\ Post(q, W(r))
                /\ activeQp' = ModAdd(activeQp, numQps)
           ELSE /\ wr' = [wr EXCEPT ![q] = W(r)]
                /\ posted' = [posted EXCEPT ![q] = posted[q] - r]
                /\ UNCHANGED <<activeQp, refused>>
  BY DEF SendMsg, NewWr
<1> DEFINE w == W(r)
<1>3. w \in Seq(WorkRequests) /\ Shifted(wr[q], r, new, w) /\ Len(w) \in Nat
  <2>1. r \in 0 .. Len(wr[q])
    BY <1>1
  <2>2. new \in WorkRequests /\ wr[q] \in Seq(WorkRequests)
    BY <1>1
  <2> HIDE DEF new, q
  <2>3. w \in Seq(WorkRequests) /\ Shifted(wr[q], r, new, w)
    BY <2>1, <2>2, DropAppend, Zenon
  <2> QED
    BY <2>3
<1> HIDE DEF w, new
<1>4. \/ /\ WindowFull(q)
         /\ r = Base(q) + 1
         /\ nbPending' = [nbPending EXCEPT ![q] = 0]
      \/ /\ ~WindowFull(q)
         /\ r = 0
         /\ nbPending' = [nbPending EXCEPT ![q] = @ + 1]
  <2>1. CASE WindowFull(q)
    <3>1. r \in 1 .. done[q] /\ wr[q][r].signaled
      BY <1>2, <2>1 DEF SetFlags, Completion
    <3>2. r \in 1 .. Len(wr[q])
      BY <1>1, <3>1
    <3>3. r = Base(q) + 1
      BY <1>1, <3>1, <3>2 DEF Window
    <3> QED
      BY <1>2, <2>1, <3>3 DEF SetFlags
  <2>2. CASE ~WindowFull(q)
    BY <1>2, <2>2 DEF SetFlags
  <2> QED
    BY <2>1, <2>2
<1>5. Len(w) = Len(wr[q]) - r + 1
  BY <1>3 DEF Shifted
<1>6. Len(w) <= 2 * UnsigBatch - 2 /\ Len(w) <= SqDepth
  <2>1. Len(w) <= 2 * UnsigBatch - 2
    BY <1>1, <1>4, <1>5, Sizes, SMTT(30) DEF Window, Base, WindowFull
  <2> QED
    BY <1>3, <2>1, Sizes
<1>7. /\ wr' = [wr EXCEPT ![q] = w]
      /\ refused' = refused
      /\ \/ /\ posted' = [posted EXCEPT ![q] = Len(w)]
            /\ activeQp' = ModAdd(activeQp, numQps)
         \/ /\ posted' = [posted EXCEPT ![q] = @ - r]
            /\ activeQp' = activeQp
            /\ Len(w) - (posted[q] - r) # postlist
  BY <1>2, <1>6 DEF Post, w
<1>8. Len(w) - (posted[q] - r) # postlist => Len(w) - (posted[q] - r) < postlist
  <2>1. /\ Len(wr[q]) \in Nat /\ posted[q] \in Nat /\ postlist \in Nat /\ r \in Nat
        /\ Len(wr[q]) - posted[q] < postlist
    BY <1>1
  <2> HIDE DEF q
  <2> QED
    BY <1>5, <2>1, SMTT(30)
<1>9. Sends(large, r, w)
  BY <1>2, <1>3, <1>4, <1>6, <1>7, <1>8 DEF Sends, new
<1> QED
  BY <1>3, <1>9

LEMMA SendKeeps ==
  ASSUME IInv, NEW large \in BOOLEAN, SendMsg(large)
  PROVE  IInv'
<1> DEFINE q == activeQp
<1>1. PICK r \in 0 .. done[q], w \in Seq(WorkRequests) : Sends(large, r, w)
  BY SendMsgSends
<1>2. /\ q \in Qps /\ Len(wr[q]) \in Nat /\ Len(w) \in Nat
      /\ posted[q] \in Nat /\ done[q] \in Nat /\ r \in Nat /\ r <= done[q]
      /\ done[q] <= posted[q] /\ posted[q] <= Len(wr[q])
      /\ nbPending[q] \in 0 .. UnsigBatch - 1
      /\ Window(q)
  BY <1>1 DEF IInv, TypeOK
<1>3. Len(w) = Len(wr[q]) - r + 1
  BY <1>1 DEF Sends, Shifted
<1>4. Qps' = Qps /\ numQps' = numQps /\ postlist' = postlist
  BY DEF SendMsg, Qps, config
<1>5. activeQp' \in Qps
  <2>1. numQps \in Nat /\ numQps >= 1 /\ activeQp \in 0 .. numQps - 1
    BY Sizes DEF IInv, TypeOK, Qps
  <2>2. activeQp' = activeQp \/ activeQp' = ModAdd(activeQp, numQps)
    BY <1>1 DEF Sends
  <2> QED
    BY <2>1, <2>2 DEF ModAdd, Qps
<1>6. nbPending' \in [Qps -> 0 .. UnsigBatch - 1]
  <2>1. nbPending \in [Qps -> 0 .. UnsigBatch - 1]
    BY DEF IInv, TypeOK
  <2>2. \/ nbPending' = [nbPending EXCEPT ![q] = 0]
        \/ /\ nbPending[q] # UnsigBatch - 1
           /\ nbPending' = [nbPending EXCEPT ![q] = @ + 1]
    BY <1>1 DEF Sends, WindowFull
  <2> QED
    BY <1>2, <2>1, <2>2, Sizes
<1>7. wr' \in [Qps -> Seq(WorkRequests)] /\ wr' = [wr EXCEPT ![q] = w]
  BY <1>1 DEF Sends, IInv, TypeOK
<1>8. /\ posted' \in [Qps -> Nat] /\ done' \in [Qps -> Nat]
      /\ done'[q] <= posted'[q] /\ posted'[q] <= Len(wr'[q])
      /\ \A p \in Qps \ {q} : done'[p] = done[p] /\ posted'[p] = posted[p]
  <2>1. wr'[q] = w
    BY <1>2, <1>7 DEF IInv, TypeOK
  <2>2. posted \in [Qps -> Nat] /\ done \in [Qps -> Nat]
    BY DEF IInv, TypeOK
  <2>3. done' = [done EXCEPT ![q] = done[q] - r]
    BY <1>1 DEF Sends
  <2>4. \/ posted' = [posted EXCEPT ![q] = Len(w)]
        \/ posted' = [posted EXCEPT ![q] = posted[q] - r]
    BY <1>1 DEF Sends
  <2>5. posted'[q] \in {Len(w), posted[q] - r} /\ done'[q] = done[q] - r
    BY <1>2, <2>2, <2>3, <2>4
  <2>6. Len(w) \in Nat /\ posted[q] - r \in Nat /\ done[q] - r \in Nat
        /\ done[q] - r <= posted[q] - r /\ posted[q] - r <= Len(w)
    <3> HIDE DEF q
    <3> QED
      BY <1>2, <1>3
  <2>7. posted' \in [Qps -> Nat] /\ done' \in [Qps -> Nat]
    BY <2>2, <2>3, <2>4, <2>6
  <2>8. \A p \in Qps \ {q} : done'[p] = done[p] /\ posted'[p] = posted[p]
    BY <2>2, <2>3, <2>4
  <2> HIDE DEF q
  <2> QED
    BY <1>2, <2>1, <2>5, <2>6, <2>7, <2>8
<1>9. niIndex' \in 0 .. RqDepth - 1
  <2>1. niIndex \in 0 .. RqDepth - 1
    BY DEF IInv, TypeOK
  <2>2. niIndex' = niIndex \/ niIndex' = ModAdd(niIndex, RqDepth)
    BY DEF SendMsg, Buffer
  <2> QED
    BY <2>1, <2>2, Sizes DEF ModAdd
<1>10. kind' \in {"none", "req", "resp"} /\ todo' \in 0 .. MaxMsgs
  <2>1. kind \in {"none", "req", "resp"} /\ todo \in 0 .. MaxMsgs
    BY DEF IInv, TypeOK
  <2> QED
    BY <2>1, Sizes DEF SendMsg
<1>11. NoneRefused' /\ refused' \in BOOLEAN
  <2>1. refused' = refused /\ ~refused /\ refused \in BOOLEAN
    BY <1>1 DEF Sends, IInv, NoneRefused, TypeOK
  <2> QED
    BY <2>1, Zenon DEF NoneRefused
<1>12. TypeOK'
  <2>1. \A p \in Qps : done'[p] <= posted'[p] /\ posted'[p] <= Len(wr'[p])
    <3>1. \A p \in Qps \ {q} : wr'[p] = wr[p]
      BY <1>7 DEF IInv, TypeOK
    <3> QED
      BY <1>8, <3>1 DEF IInv, TypeOK
  <2>2. numQps' \in 1 .. MaxQps /\ postlist' \in 1 .. MaxPostlist
    BY <1>4 DEF IInv, TypeOK
  <2> QED
    BY <1>4, <1>5, <1>6, <1>7, <1>8, <1>9, <1>10, <1>11, <2>1, <2>2 DEF TypeOK
<1>13. ASSUME NEW p \in Qps PROVE Window(p)'
  <2>1. CASE p # q
    <3>1. nbPending'[p] = nbPending[p] /\ wr'[p] = wr[p]
      BY <1>1, <2>1 DEF Sends, IInv, TypeOK
    <3> QED
      BY <3>1 DEF IInv, Window, Base
  <2>2. CASE p = q
    <3>1. wr'[p] = w
      BY <1>2, <1>7, <2>2 DEF IInv, TypeOK
    <3>2. /\ Base(q) \in {0, UnsigBatch - 1}
          /\ Base(q) = Len(wr[q]) - nbPending[q]
          /\ \A i \in 1 .. Len(wr[q]) : wr[q][i].signaled <=> (i = Base(q) + 1)
      BY <1>2 DEF Window, Base
    <3>3. \A i \in 1 .. Len(wr[q]) - r :
            i + r \in 1 .. Len(wr[q]) /\ w[i] = wr[q][i + r]
      BY <1>1, <1>2 DEF Sends, Shifted
    <3>4. w[Len(w)].signaled <=> (nbPending[q] = 0)
      <4>1. w[Len(w)] = NewWr(large)
        BY <1>1, <1>3 DEF Sends, Shifted
      <4>2. NewWr(large).signaled = Signal(q)
        BY DEF NewWr
      <4> QED
        BY <4>1, <4>2, Zenon DEF Signal
    <3>5. \A i \in 1 .. Len(w) : i = Len(w) \/ i \in 1 .. Len(wr[q]) - r
      BY <1>2, <1>3
    <3>6. CASE WindowFull(q)
      <4>1. r = Base(q) + 1 /\ nbPending'[q] = 0 /\ nbPending[q] = UnsigBatch - 1
        BY <1>1, <1>2, <3>6 DEF Sends, IInv, TypeOK, WindowFull
      <4>2. Base(p)' = UnsigBatch - 1 /\ Len(w) = UnsigBatch - 1
        <5>1. Base(p)' = Len(w) - 0
          BY <2>2, <3>1, <4>1 DEF Base
        <5>2. UnsigBatch \in Nat /\ Len(wr[q]) \in Nat /\ r \in Nat
          BY <1>2, Sizes
        <5> HIDE DEF q
        <5> QED
          BY <1>3, <3>2, <4>1, <5>1, <5>2
      <4>3. \A i \in 1 .. Len(w) : ~w[i].signaled
        <5>1. ~w[Len(w)].signaled
          BY <3>4, <4>1, Sizes
        <5>2. \A i \in 1 .. Len(wr[q]) - r : ~w[i].signaled
          <6>1. \A i \in 1 .. Len(wr[q]) - r : i + r # Base(q) + 1
            BY <1>2, <4>1
          <6> QED
            BY <3>2, <3>3, <6>1
        <5> QED
          BY <3>5, <5>1, <5>2
      <4> QED
        BY <2>2, <3>1, <4>2, <4>3, Sizes DEF Window
    <3>7. CASE ~WindowFull(q)
      <4>1. r = 0 /\ nbPending'[q] = nbPending[q] + 1
        BY <1>1, <1>2, <3>7 DEF Sends, IInv, TypeOK
      <4>2. Base(p)' = Base(q) /\ Len(w) = Len(wr[q]) + 1
        <5>1. Base(p)' = Len(w) - (nbPending[q] + 1)
          BY <2>2, <3>1, <4>1 DEF Base
        <5>2. nbPending[q] \in Nat /\ Len(wr[q]) \in Nat
          BY <1>2, Sizes
        <5> HIDE DEF q
        <5> QED
          BY <1>3, <3>2, <4>1, <5>1, <5>2
      <4>3. \A i \in 1 .. Len(w) : w[i].signaled <=> (i = Base(q) + 1)
        <5>1. w[Len(w)].signaled <=> (Len(w) = Base(q) + 1)
          <6>1. nbPending[q] \in Nat /\ Len(wr[q]) \in Nat
            BY <1>2, Sizes
          <6>2. (Len(w) = Base(q) + 1) <=> (nbPending[q] = 0)
            <7> HIDE DEF q
            <7> QED
              BY <3>2, <4>2, <6>1
          <6> QED
            BY <3>4, <6>2, Zenon
        <5>2. \A i \in 1 .. Len(wr[q]) - r : w[i].signaled <=> (i = Base(q) + 1)
          BY <1>2, <3>2, <3>3, <4>1
        <5> QED
          BY <3>5, <5>1, <5>2
      <4> QED
        BY <2>2, <3>1, <3>2, <4>2, <4>3 DEF Window
    <3> QED
      BY <3>6, <3>7
  <2> QED
    BY <2>1, <2>2
<1>14. ASSUME NEW p \in Qps PROVE List(p)'
  <2>1. postlist \in Nat /\ postlist >= 1
    BY Sizes DEF IInv, TypeOK
  <2>2. \A n \in Qps \ {q} : posted'[n] = posted[n] /\ wr'[n] = wr[n] /\ posted[n] = Len(wr[n])
    BY <1>7, <1>8 DEF IInv, TypeOK, List
  <2>3. wr'[q] = w /\ \A n \in Qps : Len(wr'[n]) \in Nat
    BY <1>2, <1>7 DEF IInv, TypeOK
  <2>4. \/ posted'[q] = Len(w)
        \/ /\ activeQp' = q
           /\ Len(w) - posted'[q] < postlist
    BY <1>1, <1>2 DEF Sends, IInv, TypeOK
  <2>5. CASE posted'[q] = Len(w)
    <3>1. \A n \in Qps : posted'[n] = Len(wr'[n])
      BY <2>2, <2>3, <2>5
    <3> QED
      BY <1>4, <2>1, <2>3, <3>1 DEF List
  <2>6. CASE activeQp' = q /\ Len(w) - posted'[q] < postlist
    BY <1>4, <2>2, <2>3, <2>6 DEF List
  <2> QED
    BY <2>4, <2>5, <2>6
<1> QED
  BY <1>4, <1>11, <1>12, <1>13, <1>14 DEF IInv

LEMMA InitHolds ==
  Init => IInv
<1> SUFFICES ASSUME Init PROVE IInv
  OBVIOUS
<1>1. NoBuf \in 0 .. RqDepth /\ 0 \in Qps /\ 0 \in 0 .. UnsigBatch - 1
      /\ 0 \in 0 .. RqDepth - 1 /\ 0 \in 0 .. MaxMsgs
  BY Sizes DEF Init, Qps, NoBuf
<1>2. TypeOK
  BY <1>1 DEF Init, TypeOK
<1>3. ~refused
  BY Zenon DEF Init
<1>4. postlist \in Nat /\ postlist >= 1
  BY Sizes DEF Init
<1>5. ASSUME NEW q \in Qps PROVE Window(q) /\ List(q)
  <2>1. Len(wr[q]) = 0 /\ nbPending[q] = 0 /\ posted[q] = 0
    BY DEF Init
  <2> QED
    BY <1>4, <2>1, Sizes DEF Window, List, Base
<1> QED
  BY <1>2, <1>3, <1>5 DEF IInv, NoneRefused

LEMMA CallKeeps ==
  ASSUME IInv, Call
  PROVE  IInv'
<1>1. todo' \in 0 .. MaxMsgs /\ kind' \in {"none", "req", "resp"}
  BY Sizes DEF Call
<1>2. UNCHANGED <<config, nbPending, activeQp, niIndex, wr, posted, done, refused>>
  BY DEF Call, queue
<1>3. Qps' = Qps /\ TypeOK'
  BY <1>1, <1>2 DEF IInv, TypeOK, Qps, config
<1>4. NoneRefused'
  BY <1>2 DEF IInv, NoneRefused
<1> QED
  BY <1>2, <1>3, <1>4 DEF IInv, Window, List, Base, config

LEMMA ExecuteKeeps ==
  ASSUME IInv, NEW q \in Qps, Execute(q)
  PROVE  IInv'
<1> DEFINE d == done[q] + 1
<1>1. /\ done[q] \in Nat /\ posted[q] \in Nat /\ Len(wr[q]) \in Nat
      /\ done[q] < posted[q] /\ posted[q] <= Len(wr[q])
      /\ wr[q] \in Seq(WorkRequests)
  BY DEF IInv, TypeOK, Execute
<1>2. d \in 1 .. Len(wr[q])
  BY <1>1
<1>3. wr[q][d] \in WorkRequests
  BY <1>1, <1>2
<1>4. wr' = [wr EXCEPT ![q] = [wr[q] EXCEPT ![d] = [wr[q][d] EXCEPT !.buf = NoBuf]]]
  BY DEF Execute, IInv, TypeOK
<1>5. [wr[q][d] EXCEPT !.buf = NoBuf] \in WorkRequests
  BY <1>3, Sizes DEF WorkRequests, NoBuf
<1>6. [wr[q] EXCEPT ![d] = [wr[q][d] EXCEPT !.buf = NoBuf]] \in Seq(WorkRequests)
  BY <1>1, <1>2, <1>5
<1>7. wr' \in [Qps -> Seq(WorkRequests)] /\ \A p \in Qps : Len(wr'[p]) = Len(wr[p])
  BY <1>4, <1>6 DEF IInv, TypeOK
<1>8. \A p \in Qps : \A i \in 1 .. Len(wr[p]) : wr'[p][i].signaled = wr[p][i].signaled
  <2> DEFINE e == [wr[q][d] EXCEPT !.buf = NoBuf]
  <2>1. e.signaled = wr[q][d].signaled
    BY <1>3 DEF WorkRequests
  <2> HIDE DEF e, d
  <2>2. wr' = [wr EXCEPT ![q] = [wr[q] EXCEPT ![d] = e]]
    BY <1>4 DEF e
  <2>3. wr'[q] = [wr[q] EXCEPT ![d] = e] /\ \A p \in Qps \ {q} : wr'[p] = wr[p]
    BY <2>2 DEF IInv, TypeOK
  <2>4. \A i \in 1 .. Len(wr[q]) : wr'[q][i] = IF i = d THEN e ELSE wr[q][i]
    BY <1>1, <2>3
  <2>5. \A i \in 1 .. Len(wr[q]) : wr'[q][i].signaled = wr[q][i].signaled
    BY <2>1, <2>4
  <2> QED
    BY <2>3, <2>5
<1>9. /\ done' \in [Qps -> Nat]
      /\ \A p \in Qps : done'[p] <= posted[p]
  BY <1>1 DEF Execute, IInv, TypeOK
<1>10. UNCHANGED <<numQps, postlist, nbPending, activeQp, niIndex, kind, todo, posted, refused>>
  BY DEF Execute, config, call
<1>11. Qps' = Qps
  BY <1>10 DEF Qps
<1>12. TypeOK'
  BY <1>7, <1>9, <1>10, <1>11 DEF IInv, TypeOK
<1>13. NoneRefused'
  BY <1>10 DEF IInv, NoneRefused
<1>14. ASSUME NEW p \in Qps PROVE Window(p)' /\ List(p)'
  <2>1. Window(p) /\ List(p)
    BY DEF IInv
  <2>2. Len(wr'[p]) = Len(wr[p]) /\ Base(p)' = Base(p)
    BY <1>7, <1>10 DEF Base
  <2>3. Window(p)'
    BY <1>8, <2>1, <2>2, Zenon DEF Window
  <2>4. List(p)'
    BY <1>10, <2>1, <2>2 DEF List
  <2> QED
    BY <2>3, <2>4
<1> QED
  BY <1>11, <1>12, <1>13, <1>14 DEF IInv

-----------------------------------------------------------------------------
(* The theorems.                                                           *)

\* The inductive invariant: types, no refusal, and for every queue pair where its
\* only signalled work request can be and how much of its list is not posted.
THEOREM SendInvariant ==
  Spec => []IInv
<1>1. IInv /\ [Next]_vars => IInv'
  <2> SUFFICES ASSUME IInv, [Next]_vars PROVE IInv'
    OBVIOUS
  <2>1. CASE Call
    BY <2>1, CallKeeps
  <2>2. CASE Send
    BY <2>2, SendKeeps DEF Send
  <2>3. CASE \E q \in Qps : Execute(q)
    BY <2>3, ExecuteKeeps
  <2>4. CASE UNCHANGED vars
    <3>1. Qps' = Qps
      BY <2>4 DEF vars, config, Qps
    <3> QED
      BY <2>4, <3>1
      DEF vars, config, call, queue, IInv, TypeOK, NoneRefused, Window, List, Base
  <2> QED
    BY <2>1, <2>2, <2>3, <2>4 DEF Next
<1> QED
  BY <1>1, InitHolds, PTL DEF Spec

\* The send-side variables of an endpoint keep their types.
THEOREM SendTypes ==
  Spec => []TypeOK
<1>1. IInv => TypeOK
  BY DEF IInv
<1> QED
  BY <1>1, SendInvariant, PTL

\* A send queue of two windows never overflows, however slow the NIC is: this is
\* what the compile-time check HRD_SQ_DEPTH >= 2 * RPC_UNSIG_BATCH is for.
THEOREM SendQueueSuffices ==
  Spec => []NoneRefused
<1>1. IInv => NoneRefused
  BY DEF IInv
<1> QED
  BY <1>1, SendInvariant, PTL

\* set_flags() waits only for a work request that the NIC has been given.
THEOREM WaitsAnswered ==
  Spec => []WaitIsForPosted
<1>1. IInv => WaitIsForPosted
  <2> SUFFICES ASSUME IInv, NEW q \in Qps, WindowFull(q)
               PROVE  \E i \in 1 .. posted[q] : wr[q][i].signaled
    BY DEF WaitIsForPosted
  <2>1. /\ Len(wr[q]) \in Nat /\ posted[q] \in Nat /\ posted[q] <= Len(wr[q])
        /\ postlist \in 1 .. MaxPostlist /\ nbPending[q] = UnsigBatch - 1
    BY DEF IInv, TypeOK, WindowFull
  <2>2. /\ Base(q) \in {0, UnsigBatch - 1} /\ Base(q) = Len(wr[q]) - nbPending[q]
        /\ \A i \in 1 .. Len(wr[q]) : wr[q][i].signaled <=> (i = Base(q) + 1)
    BY DEF IInv, Window, Base
  <2>3. Len(wr[q]) - posted[q] < postlist
    BY <2>1, Sizes DEF IInv, List
  <2>4. Base(q) + 1 \in 1 .. posted[q] /\ Base(q) + 1 \in 1 .. Len(wr[q])
    BY <2>1, <2>2, <2>3, Sizes
  <2>5. wr[q][Base(q) + 1].signaled
    BY <2>2, <2>4
  <2> QED
    BY <2>4, <2>5
<1> QED
  BY <1>1, SendInvariant, PTL

-----------------------------------------------------------------------------
(* The buffers of large responses.                                         *)

\* How many buffers have been taken since b was, when x is the next.
Age(x, b) == IF b < x THEN x - 1 - b ELSE RqDepth + x - 1 - b

\* The messages that all other queue pairs get between two lists of one.
Round == (numQps - 1) * postlist

\* How many lists have been begun since q had its turn, when it is the turn of a.
Turns(a, q, n) == IF a >= q THEN a - q ELSE a + n - q

\* At most so many messages went to other queue pairs since work request i of q was
\* made: every list of q after the one that i is in has at least one message.
Others(q, i) ==
  IF q # activeQp
  THEN (posted[q] - i) * Round + (Turns(activeQp, q, numQps) - 1) * postlist
       + (Len(wr[activeQp]) - posted[activeQp])
  ELSE IF i <= posted[q] THEN (posted[q] - i + 1) * Round ELSE 0

\* At most so many messages were made since.
Since(q, i) == Len(wr[q]) - i + Others(q, i)

\* A buffer that the NIC has yet to read is no older than that.
Aged ==
  \A q \in Qps : \A i \in 1 .. Len(wr[q]) :
    wr[q][i].buf # NoBuf => Age(niIndex, wr[q][i].buf) <= Since(q, i)

BInv == Copies(numQps, postlist) <= RqDepth => DistinctBuffers /\ Aged

\* A buffer that is not the oldest ages by one when the next is taken.
LEMMA AgeStep ==
  ASSUME NEW x \in 0 .. RqDepth - 1, NEW b \in 0 .. RqDepth - 1
  PROVE  /\ Age(x, b) \in Nat
         /\ Age(x, b) < RqDepth - 1 => b # x /\ Age(ModAdd(x, RqDepth), b) = Age(x, b) + 1
         /\ Age(ModAdd(x, RqDepth), x) = 0
  BY Sizes DEF Age, ModAdd

LEMMA RealBuffer ==
  ASSUME NEW e \in WorkRequests, e.buf # NoBuf
  PROVE  e.buf \in 0 .. RqDepth - 1
<1>1. e.buf \in 0 .. RqDepth
  BY DEF WorkRequests
<1> QED
  BY <1>1, Sizes DEF NoBuf

LEMMA Times ==
  ASSUME NEW x \in Nat, NEW y \in Nat, NEW m \in Nat
  PROVE  x * m \in Nat /\ (x + 1) * m = x * m + m /\ (x <= y => x * m <= y * m)
<1>1. x <= y => y * m = x * m + (y - x) * m
  OBVIOUS
<1>2. \A z \in Nat : z * m \in Nat
  OBVIOUS
<1>3. x <= y => y - x \in Nat
  OBVIOUS
<1>4. x <= y => x * m <= y * m
  <2> SUFFICES ASSUME x <= y PROVE x * m <= y * m
    OBVIOUS
  <2> DEFINE d == (y - x) * m
             xm == x * m
             ym == y * m
  <2>1. d \in Nat /\ xm \in Nat /\ ym \in Nat /\ ym = xm + d
    BY <1>1, <1>2, <1>3
  <2> HIDE DEF d, xm, ym
  <2>2. xm <= ym
    BY <2>1
  <2> QED
    BY <2>2 DEF xm, ym
<1> QED
  BY <1>2, <1>4

\* The queue pairs have their turns in a cycle.
LEMMA TurnsStep ==
  ASSUME NEW n \in Nat, NEW a \in 0 .. n - 1, NEW q \in 0 .. n - 1
  PROVE  LET b == ModAdd(a, n) IN
         /\ b \in 0 .. n - 1
         /\ q # a => Turns(a, q, n) \in 1 .. n - 1
         /\ q # a /\ q # b => Turns(b, q, n) = Turns(a, q, n) + 1
         /\ q # a /\ q = b => Turns(a, q, n) = n - 1
         /\ q = a /\ n # 1 => q # b /\ Turns(b, q, n) = 1
         /\ n = 1 => a = 0 /\ b = 0
  BY DEF Turns, ModAdd

\* What IInv says of the numbers.
LEMMA Lengths ==
  ASSUME IInv, NEW q \in Qps
  PROVE  /\ numQps \in Nat /\ postlist \in Nat /\ Round \in Nat
         /\ activeQp \in Qps
         /\ Len(wr[q]) \in Nat /\ Len(wr[q]) <= 2 * UnsigBatch - 2
         /\ posted[q] \in Nat /\ posted[q] <= Len(wr[q])
         /\ q # activeQp => posted[q] = Len(wr[q])
         /\ q = activeQp => Len(wr[q]) - posted[q] < postlist
<1>1. /\ numQps \in 1 .. MaxQps /\ postlist \in 1 .. MaxPostlist /\ activeQp \in Qps
      /\ wr[q] \in Seq(WorkRequests) /\ posted[q] \in Nat /\ posted[q] <= Len(wr[q])
      /\ nbPending[q] \in 0 .. UnsigBatch - 1 /\ Window(q) /\ List(q)
  BY DEF IInv, TypeOK
<1>2. numQps \in Nat /\ numQps - 1 \in Nat /\ postlist \in Nat /\ Len(wr[q]) \in Nat
  BY <1>1, Sizes
<1>3. Round \in Nat
  BY <1>2, Times DEF Round
<1>4. Len(wr[q]) <= 2 * UnsigBatch - 2
  BY <1>1, <1>2, Sizes DEF Window, Base
<1> QED
  BY <1>1, <1>2, <1>3, <1>4 DEF List

\* What is sent while a work request is unknown to be complete.
LEMMA SinceBounded ==
  ASSUME IInv, NEW q \in Qps, NEW i \in 1 .. Len(wr[q])
  PROVE  /\ Since(q, i) \in Nat /\ Since(q, i) < Copies(numQps, postlist)
         /\ Others(q, i) \in Nat /\ Copies(numQps, postlist) \in Nat
<1> DEFINE n == numQps
           l == postlist
           a == activeQp
           k == Len(wr[a]) - posted[a]
           L == Len(wr[q])
           p == posted[q]
           t == Turns(a, q, n)
           M == 2 * UnsigBatch - 2
<1>1. /\ n \in Nat /\ l \in Nat /\ Round \in Nat /\ a \in Qps
      /\ L \in Nat /\ L <= M /\ p \in Nat /\ p <= L /\ M \in Nat
      /\ q # a => p = L
  BY Lengths, Sizes
<1>2. k \in Nat /\ k < l
  BY Lengths, <1>1
<1>3. Others(q, i) \in Nat /\ Others(q, i) <= M * Round
  <2>1. CASE q # a
    <3>1. t \in 1 .. n - 1
      BY <1>1, <2>1, TurnsStep DEF Qps
    <3>2. (t - 1) * l \in Nat /\ (t - 1) * l + k \in Nat /\ (t - 1) * l + k <= Round
      <4>1. t - 1 \in Nat /\ n - 1 \in Nat /\ t <= n - 1 /\ t \in Nat
        BY <1>1, <3>1
      <4>2. (t - 1) * l \in Nat /\ t * l = (t - 1) * l + l /\ t * l <= (n - 1) * l
        <5>1. (t - 1) * l \in Nat /\ ((t - 1) + 1) * l = (t - 1) * l + l
          BY <4>1, <1>1, Times, Zenon
        <5>2. t * l <= (n - 1) * l
          BY <4>1, <1>1, Times, Zenon
        <5>3. (t - 1) + 1 = t
          BY <4>1
        <5> QED
          BY <5>1, <5>2, <5>3, Zenon
      <4> DEFINE x == (t - 1) * l
                 y == t * l
      <4>3. x \in Nat /\ y = x + l /\ y <= Round /\ Round \in Nat
        BY <4>2, <1>1 DEF Round
      <4> HIDE DEF x, y, k, l
      <4>4. x + k \in Nat /\ x + k <= Round
        BY <4>3, <1>1, <1>2
      <4> QED
        BY <4>2, <4>4 DEF x, l
    <3>3. p - i \in Nat /\ p - i + 1 <= M /\ p - i + 1 \in Nat
      <4>1. i \in 1 .. L
        OBVIOUS
      <4>2. p = L /\ L \in Nat /\ L <= M /\ M \in Nat
        BY <1>1, <2>1, Zenon
      <4> HIDE DEF L, p, M
      <4> QED
        BY <4>1, <4>2
    <3>4. /\ (p - i) * Round \in Nat /\ (p - i + 1) * Round = (p - i) * Round + Round
          /\ (p - i + 1) * Round <= M * Round
      BY <3>3, <1>1, Times
    <3>5. Others(q, i) = (p - i) * Round + ((t - 1) * l + k)
      <4>1. Others(q, i) = (p - i) * Round + (t - 1) * l + k
        BY <2>1 DEF Others
      <4> DEFINE x == (t - 1) * l
                 y == (p - i) * Round
      <4>2. x \in Nat /\ y \in Nat /\ k \in Nat
        BY <1>2, <3>2, <3>4, Zenon
      <4> HIDE DEF x, y, k
      <4>3. y + x + k = y + (x + k)
        BY <4>2
      <4> QED
        BY <4>1, <4>3 DEF x, y
    <3> DEFINE x == (t - 1) * l + k
               y == (p - i) * Round
               z == (p - i + 1) * Round
               u == M * Round
    <3>6. x \in Nat /\ x <= Round /\ y \in Nat /\ z = y + Round /\ z <= u /\ Round \in Nat /\ u \in Nat
          /\ Others(q, i) = y + x
      BY <3>2, <3>4, <3>5, <1>1, Times
    <3> HIDE DEF x, y, z, u
    <3>7. Others(q, i) \in Nat /\ Others(q, i) <= u
      BY <3>6
    <3> QED
      BY <3>7 DEF u
  <2>2. CASE q = a /\ i <= p
    <3>1. p - i + 1 \in Nat /\ p - i + 1 <= M
      BY <1>1, <2>2
    <3>2. (p - i + 1) * Round \in Nat /\ (p - i + 1) * Round <= M * Round
      BY <3>1, <1>1, Times
    <3> QED
      BY <2>2, <3>2 DEF Others
  <2>3. CASE q = a /\ ~(i <= p)
    <3>1. M * Round \in Nat
      BY <1>1, Times
    <3> QED
      BY <2>3, <3>1 DEF Others
  <2> QED
    BY <2>1, <2>2, <2>3
<1>4. Copies(n, l) = M + M * Round
  <2>1. Copies(n, l) = M * (1 + Round)
    BY DEF Copies, Round
  <2> HIDE DEF M, n, l
  <2> QED
    BY <2>1, <1>1
<1>5. M * Round \in Nat /\ L - i \in Nat /\ L - i < M
  BY <1>1, Times
<1> DEFINE u == M * Round
<1> HIDE DEF u, M, L, n, l
<1>6. L - i + Others(q, i) \in Nat /\ L - i + Others(q, i) < M + u /\ M + u \in Nat
  BY <1>1, <1>3, <1>5 DEF u
<1> QED
  BY <1>3, <1>4, <1>6 DEF Since, u, L, n, l

\* A message that is sent is counted for every work request that is left, which
\* are all but the first r of its queue pair.
LEMMA SinceGrows ==
  ASSUME IInv, UNCHANGED config, NEW large, NEW r \in Nat, NEW w,
         Sends(large, r, w), NEW q \in Qps, NEW i \in 1 .. Len(wr[q]),
         NEW j \in Nat, j = IF q = activeQp THEN i - r ELSE i
  PROVE  Since(q, i) + 1 <= Since(q, j)'
<1> DEFINE n == numQps
           l == postlist
           a == activeQp
           b == ModAdd(a, n)
           k == Len(wr[a]) - posted[a]
           L == Len(wr[q])
           p == posted[q]
<1>1. /\ n \in Nat /\ l \in Nat /\ Round \in Nat /\ a \in Qps /\ Qps = 0 .. n - 1
      /\ L \in Nat /\ p \in Nat /\ p <= L /\ (q # a => p = L)
  BY Lengths DEF Qps
<1>2. Len(wr[a]) \in Nat /\ posted[a] \in Nat /\ k \in Nat /\ k < l
  BY Lengths
<1>3. n' = n /\ l' = l /\ Round' = Round /\ Qps' = Qps
  BY DEF config, Round, Qps
<1>4. /\ wr'[a] = w /\ Len(w) = Len(wr[a]) - r + 1
      /\ \A c \in Qps \ {a} : wr'[c] = wr[c] /\ posted'[c] = posted[c]
      /\ \/ posted'[a] = Len(w) /\ activeQp' = b
         \/ posted'[a] = posted[a] - r /\ activeQp' = a
  BY <1>1 DEF Sends, Shifted, IInv, TypeOK
<1>5. Since(q, i) = L - i + Others(q, i) /\ Since(q, j)' = Len(wr'[q]) - j + Others(q, j)'
  BY DEF Since
<1>6. Others(q, i) \in Nat
  BY SinceBounded
<1>7. b # a => Len(wr'[b]) - posted'[b] = 0
  <2>1. b \in Qps
    BY <1>1, TurnsStep
  <2>2. b # a => Len(wr[b]) = posted[b] /\ posted[b] \in Nat
    BY <2>1, Lengths
  <2> QED
    BY <2>1, <2>2, <1>4
<1>8. Others(q, j)' =
        IF q # activeQp'
        THEN (posted'[q] - j) * Round + (Turns(activeQp', q, n) - 1) * l
             + (Len(wr'[activeQp']) - posted'[activeQp'])
        ELSE IF j <= posted'[q] THEN (posted'[q] - j + 1) * Round ELSE 0
  BY <1>3 DEF Others
<1>9. CASE q = a
  <2>1. Len(wr'[q]) - j = L - i + 1 /\ Len(wr'[q]) - j \in Nat
    BY <1>1, <1>4, <1>9
  <2>2. Others(q, j)' \in Nat /\ Others(q, i) <= Others(q, j)'
    <3>1. CASE posted'[a] = posted[a] - r /\ activeQp' = a
      <4>1. posted'[q] - j = p - i /\ (j <= posted'[q] <=> i <= p)
        BY <1>1, <1>9, <3>1
      <4> QED
        BY <4>1, <1>6, <1>8, <1>9, <3>1 DEF Others
    <3>2. CASE posted'[a] = Len(w) /\ activeQp' = b
      <4>1. posted'[q] - j = L - i + 1
        BY <1>4, <1>9, <2>1, <3>2
      <4>2. CASE n = 1
        <5>1. Round = 0
          BY <4>2, <1>1 DEF Round
        <5>2. \A x \in Int : x * Round = 0
          BY <5>1
        <5>3. b = a
          BY <4>2, <1>1, TurnsStep
        <5>4. Others(q, j)' = 0 /\ Others(q, i) = 0
          BY <5>2, <5>3, <4>1, <1>1, <1>8, <1>9, <3>2 DEF Others
        <5> QED
          BY <5>4
      <4>3. CASE n # 1
        <5>1. q # b /\ Turns(b, q, n) = 1
          BY <4>3, <1>1, <1>9, TurnsStep
        <5>2. Others(q, j)' = (L - i + 1) * Round
          <6>1. Others(q, j)' = (L - i + 1) * Round + (1 - 1) * l + (Len(wr'[b]) - posted'[b])
            BY <5>1, <4>1, <1>8, <3>2, Zenon
          <6>2. Len(wr'[b]) - posted'[b] = 0
            BY <5>1, <1>7, <1>9, Zenon
          <6>3. (L - i + 1) * Round \in Nat
            BY <1>1, Times
          <6> DEFINE x == (L - i + 1) * Round
                     y == Len(wr'[b]) - posted'[b]
          <6>4. x \in Nat /\ y = 0 /\ Others(q, j)' = x + (1 - 1) * l + y
            BY <6>1, <6>2, <6>3, Zenon
          <6> HIDE DEF x, y
          <6>5. Others(q, j)' = x
            BY <6>4, <1>1
          <6> QED
            BY <6>5 DEF x
        <5>3. (L - i + 1) * Round \in Nat /\ (i <= p => (p - i + 1) * Round <= (L - i + 1) * Round)
          BY <1>1, Times
        <5> QED
          BY <5>2, <5>3, <1>9 DEF Others
      <4> QED
        BY <4>2, <4>3
    <3> QED
      BY <1>4, <3>1, <3>2
  <2> DEFINE x == Others(q, i)
             y == Others(q, j)'
             z == L - i
  <2>3. z \in Int
    BY <1>1
  <2>4. /\ x \in Nat /\ y \in Nat /\ x <= y
        /\ Since(q, i) = z + x /\ Since(q, j)' = z + 1 + y
    BY <1>5, <1>6, <2>1, <2>2, Zenon
  <2> HIDE DEF x, y, z
  <2> QED
    BY <2>3, <2>4
<1>10. CASE q # a
  <2>1. Len(wr'[q]) - j = L - i /\ posted'[q] - j = L - i /\ L - i \in Nat /\ n # 1
    BY <1>1, <1>4, <1>10
  <2> DEFINE t == Turns(a, q, n)
             m == (L - i) * Round
             x == (t - 1) * l
             y == Others(q, j)'
             s == Len(wr'[activeQp']) - posted'[activeQp']
  <2>2. t \in 1 .. n - 1 /\ t - 1 \in Nat /\ t \in Nat
    <3>1. t \in 1 .. n - 1
      BY <1>1, <1>10, TurnsStep, Zenon
    <3> QED
      BY <3>1, <1>1
  <2>3. Others(q, i) = m + x + k
    BY <1>1, <1>10 DEF Others
  <2>4. m \in Nat /\ x \in Nat
    BY <1>1, <2>1, <2>2, Times
  <2>5. t * l = x + l
    <3>1. ((t - 1) + 1) * l = (t - 1) * l + l
      BY <1>1, <2>2, Times, Zenon
    <3>2. (t - 1) + 1 = t
      BY <2>2
    <3> QED
      BY <3>1, <3>2, Zenon
  <2>6. y \in Nat /\ m + x + k + 1 <= y
    <3>1. CASE posted'[a] = posted[a] - r /\ activeQp' = a
      <4>1. s = k + 1
        <5> DEFINE u == Len(wr[a])
                   v == posted[a]
                   e == Len(wr'[a])
                   f == posted'[a]
        <5>1. s = e - f /\ k = u - v
          BY <3>1
        <5>2. e = u - r + 1 /\ f = v - r /\ u \in Nat /\ v \in Nat
          BY <1>2, <1>4, <3>1, Zenon
        <5> HIDE DEF u, v, e, f, s, k
        <5> QED
          BY <5>1, <5>2
      <4>2. y = m + x + s
        BY <1>8, <1>10, <2>1, <3>1, Zenon
      <4> HIDE DEF m, x, y, s, k
      <4> QED
        BY <4>1, <4>2, <2>4, <1>2
    <3>2. CASE activeQp' = b /\ q # b
      <4>1. Turns(b, q, n) = t + 1 /\ b # a
        BY <1>1, <1>10, <2>1, <3>2, TurnsStep
      <4>2. Turns(b, q, n) - 1 = t
        BY <4>1, <2>2
      <4>3. y = m + t * l + s
        BY <1>8, <2>1, <3>2, <4>2, Zenon
      <4>4. s = 0
        BY <1>7, <4>1, <3>2, Zenon
      <4> DEFINE u == t * l
      <4>5. u = x + l /\ y = m + u + s
        BY <2>5, <4>3, Zenon
      <4> HIDE DEF m, x, y, s, k, u
      <4> QED
        BY <4>4, <4>5, <2>4, <1>1, <1>2
    <3>3. CASE activeQp' = b /\ q = b
      <4>1. t = n - 1
        BY <1>1, <1>10, <3>3, TurnsStep
      <4>2. t * l = Round
        BY <4>1 DEF Round
      <4>3. j <= posted'[q]
        BY <1>1, <1>4, <1>10
      <4>4. y = (L - i + 1) * Round
        BY <1>8, <2>1, <3>3, <4>3, Zenon
      <4>5. (L - i + 1) * Round = m + Round
        BY <1>1, <2>1, Times
      <4>6. y = m + Round /\ Round = x + l
        BY <4>2, <4>4, <4>5, <2>5, Zenon
      <4> HIDE DEF m, x, y, k
      <4> QED
        BY <4>6, <2>4, <1>1, <1>2
    <3> QED
      BY <1>4, <3>1, <3>2, <3>3
  <2> DEFINE z == L - i
             v == Others(q, i)
  <2>7. z \in Nat /\ Since(q, i) = z + v /\ Since(q, j)' = z + y /\ v = m + x + k
    BY <1>5, <2>1, <2>3, Zenon
  <2> HIDE DEF m, x, y, k, z, v
  <2> QED
    BY <2>4, <2>6, <2>7, <1>2
<1> QED
  BY <1>9, <1>10

Bounded ==
  \A q \in Qps : \A i \in 1 .. Len(wr[q]) :
    /\ Since(q, i) \in Nat /\ Since(q, i) < Copies(numQps, postlist)
    /\ Copies(numQps, postlist) \in Nat

LEMMA AllBounded == IInv => Bounded
  BY SinceBounded, Zenon DEF Bounded

\* No message takes a buffer that the NIC has yet to read, if the cycle of buffers is
\* long enough.
LEMMA SendBuffers ==
  ASSUME IInv, IInv', Copies(numQps, postlist) <= RqDepth, DistinctBuffers, Aged,
         NEW large \in BOOLEAN, SendMsg(large)
  PROVE  DistinctBuffers' /\ Aged'
<1> DEFINE a == activeQp
           new == NewWr(large)
<1>1. PICK r \in 0 .. done[a], w \in Seq(WorkRequests) : Sends(large, r, w)
  BY SendMsgSends
<1>2. /\ a \in Qps /\ wr[a] \in Seq(WorkRequests) /\ Len(wr[a]) \in Nat
      /\ r \in Nat /\ r <= Len(wr[a])
  <2>1. /\ a \in Qps /\ wr \in [Qps -> Seq(WorkRequests)]
        /\ done[a] \in Nat /\ posted[a] \in Nat /\ done[a] <= posted[a] /\ posted[a] <= Len(wr[a])
    BY DEF IInv, TypeOK
  <2>2. wr[a] \in Seq(WorkRequests) /\ Len(wr[a]) \in Nat
    BY <2>1
  <2> HIDE DEF a
  <2> QED
    BY <2>1, <2>2
<1>3. UNCHANGED config /\ Qps' = Qps
      /\ Copies(numQps, postlist)' = Copies(numQps, postlist)
  BY DEF SendMsg, config, Qps, Copies
<1>4. niIndex \in 0 .. RqDepth - 1 /\ niIndex' \in 0 .. RqDepth - 1
  BY DEF IInv, TypeOK
<1>5. \/ new.buf = NoBuf /\ niIndex' = niIndex
      \/ new.buf = niIndex /\ niIndex' = ModAdd(niIndex, RqDepth)
  BY DEF NewWr, SendMsg, Buffer
<1> DEFINE Left(q, j, i) ==
      /\ i \in 1 .. Len(wr[q]) /\ wr'[q][j] = wr[q][i]
      /\ j = IF q = a THEN i - r ELSE i
<1>6. ASSUME NEW q \in Qps, NEW j \in 1 .. Len(wr'[q])
      PROVE  \/ q = a /\ j = Len(w) /\ wr'[q][j] = new
             \/ \E i \in Nat : Left(q, j, i)
  <2>1. CASE q # a
    <3>1. wr'[q] = wr[q]
      BY <1>1, <2>1 DEF Sends, IInv, TypeOK
    <3> QED
      BY <3>1, <2>1, <1>6
  <2>2. CASE q = a
    <3>1. wr'[q] = w /\ Shifted(wr[q], r, new, w)
      BY <1>1, <1>2, <2>2 DEF Sends, IInv, TypeOK
    <3>2. /\ Len(w) = Len(wr[q]) - r + 1 /\ w[Len(w)] = new
          /\ \A m \in 1 .. Len(wr[q]) - r : w[m] = wr[q][m + r]
      BY <3>1, <1>2 DEF Shifted
    <3>3. CASE j = Len(w)
      BY <3>1, <3>2, <3>3, <2>2
    <3>4. CASE j # Len(w)
      <4>1. j \in 1 .. Len(wr[q]) - r /\ j + r \in 1 .. Len(wr[q]) /\ j + r \in Nat
            /\ j = j + r - r
        BY <3>1, <3>2, <3>4, <1>2, <1>6, <2>2
      <4>2. Left(q, j, j + r)
        BY <4>1, <3>1, <3>2, <2>2
      <4> QED
        BY <4>1, <4>2
    <3> QED
      BY <3>3, <3>4
  <2> QED
    BY <2>1, <2>2
<1>7. Bounded /\ Bounded'
  <2>1. Bounded
    BY AllBounded
  <2>2. Bounded'
    BY AllBounded, PTL
  <2> QED
    BY <2>1, <2>2
<1>8. ASSUME NEW q \in Qps, NEW j \in 1 .. Len(wr'[q]), NEW i \in Nat, Left(q, j, i),
             wr[q][i].buf # NoBuf
      PROVE  wr[q][i].buf # niIndex /\ Age(niIndex', wr[q][i].buf) <= Since(q, j)'
  <2> DEFINE b == wr[q][i].buf
             x == Since(q, i)
             y == Since(q, j)'
             c == Copies(numQps, postlist)
  <2>1. b \in 0 .. RqDepth - 1
    <3>1. wr[q] \in Seq(WorkRequests) /\ i \in 1 .. Len(wr[q])
      BY <1>8 DEF IInv, TypeOK
    <3>2. wr[q][i] \in WorkRequests
      BY <3>1
    <3> QED
      BY <3>2, <1>8, RealBuffer
  <2>2. Age(niIndex, b) \in Nat /\ Age(niIndex, b) <= x
    BY <1>4, <1>8, <2>1, AgeStep DEF Aged
  <2>3. x + 1 <= y
    <3>1. j \in Nat /\ i \in 1 .. Len(wr[q]) /\ j = IF q = a THEN i - r ELSE i
      BY <1>8
    <3> QED
      BY <3>1, <1>1, <1>2, <1>3, SinceGrows, Zenon
  <2>4. x \in Nat
    BY <1>7, <1>8 DEF Bounded
  <2>5. y \in Nat /\ y < c
    <3>1. q \in Qps'
      BY <1>3
    <3> QED
      BY <3>1, <1>3, <1>7, <1>8, Zenon DEF Bounded
  <2>6. c \in Nat /\ c <= RqDepth /\ RqDepth \in Nat
    BY <1>7, <1>8, Sizes DEF Bounded
  <2> HIDE DEF b, x, y, c
  <2>7. Age(niIndex, b) + 1 <= y /\ Age(niIndex, b) <= y /\ Age(niIndex, b) < RqDepth - 1
    BY <2>2, <2>3, <2>4, <2>5, <2>6
  <2>8. b # niIndex /\ Age(niIndex', b) <= y
    BY <1>4, <1>5, <2>1, <2>7, AgeStep
  <2> QED
    BY <2>8 DEF b, y
<1>9. Aged'
  <2> SUFFICES ASSUME NEW q \in Qps, NEW j \in 1 .. Len(wr'[q]), wr'[q][j].buf # NoBuf
               PROVE  Age(niIndex', wr'[q][j].buf) <= Since(q, j)'
    BY <1>3, Zenon DEF Aged, NoBuf
  <2>1. CASE q = a /\ j = Len(w) /\ wr'[q][j] = new
    <3>1. Age(niIndex', new.buf) = 0
      BY <1>4, <1>5, <2>1, AgeStep
    <3>2. Since(q, j)' \in Nat
      BY <1>3, <1>7, Zenon DEF Bounded
    <3> QED
      BY <2>1, <3>1, <3>2
  <2>2. ASSUME NEW i \in Nat, Left(q, j, i) PROVE Age(niIndex', wr'[q][j].buf) <= Since(q, j)'
    BY <1>8, <2>2
  <2> QED
    BY <1>6, <2>1, <2>2
<1>10. DistinctBuffers'
  <2>d. \A q \in Qps : DOMAIN wr'[q] = 1 .. Len(wr'[q])
    BY <1>3 DEF IInv, TypeOK
  <2>s. SUFFICES \A p, q \in Qps : \A i \in 1 .. Len(wr'[p]), j \in 1 .. Len(wr'[q]) :
                  wr'[p][i].buf = wr'[q][j].buf => (p = q /\ i = j) \/ wr'[p][i].buf = NoBuf
    BY <2>d, <1>3 DEF DistinctBuffers, NoBuf
  <2> SUFFICES ASSUME NEW p \in Qps, NEW q \in Qps, NEW i \in 1 .. Len(wr'[p]),
                      NEW j \in 1 .. Len(wr'[q]),
                      wr'[p][i].buf = wr'[q][j].buf, wr'[p][i].buf # NoBuf
               PROVE  p = q /\ i = j
    OBVIOUS
  <2> DEFINE New(s, m) == s = a /\ m = Len(w) /\ wr'[s][m] = new
  <2>1. ASSUME NEW m \in Nat, Left(p, i, m), NEW k \in Nat, Left(q, j, k)
        PROVE  p = q /\ i = j
    <3>1. p = q /\ m = k
      <4>1. wr[p] \in Seq(WorkRequests) /\ wr[q] \in Seq(WorkRequests)
        BY DEF IInv, TypeOK
      <4>2. m \in DOMAIN wr[p] /\ k \in DOMAIN wr[q]
        BY <4>1, <2>1
      <4> QED
        BY <4>2, <2>1, Zenon DEF DistinctBuffers
    <3> QED
      BY <3>1, <2>1
  <2>2. ASSUME New(p, i), NEW k \in Nat, Left(q, j, k) PROVE FALSE
    <3>1. new.buf = niIndex
      BY <1>5, <2>2
    <3> QED
      BY <3>1, <1>8, <2>2
  <2>3. ASSUME New(q, j), NEW m \in Nat, Left(p, i, m) PROVE FALSE
    <3>1. new.buf = niIndex
      BY <1>5, <2>3
    <3> QED
      BY <3>1, <1>8, <2>3
  <2>4. New(p, i) \/ \E m \in Nat : Left(p, i, m)
    BY <1>6
  <2>5. New(q, j) \/ \E k \in Nat : Left(q, j, k)
    BY <1>6
  <2> QED
    BY <2>1, <2>2, <2>3, <2>4, <2>5, Zenon
<1> QED
  BY <1>9, <1>10

\* The NIC only lets go of a buffer.
LEMMA ExecuteBuffers ==
  ASSUME IInv, DistinctBuffers, Aged, NEW q \in Qps, Execute(q)
  PROVE  DistinctBuffers' /\ Aged'
<1>1. /\ wr \in [Qps -> Seq(WorkRequests)] /\ Qps' = Qps
      /\ wr' = [wr EXCEPT ![q][done[q] + 1].buf = NoBuf]
      /\ UNCHANGED <<numQps, postlist, niIndex, activeQp, posted>>
  BY DEF IInv, TypeOK, Execute, config, Qps
<1>2. ASSUME NEW p \in Qps
      PROVE  /\ Len(wr'[p]) = Len(wr[p]) /\ DOMAIN wr'[p] = 1 .. Len(wr[p])
             /\ DOMAIN wr[p] = 1 .. Len(wr[p])
             /\ \A i \in 1 .. Len(wr[p]) : wr'[p][i].buf \in {NoBuf, wr[p][i].buf}
  BY <1>1 DEF WorkRequests
<1>3. \A p \in Qps : \A i : Since(p, i)' = Since(p, i)
  <2>1. activeQp \in Qps
    BY DEF IInv, TypeOK
  <2> QED
    BY <2>1, <1>1, <1>2, Zenon DEF Since, Others, Round
<1>4. Aged'
  BY <1>1, <1>2, <1>3 DEF Aged, NoBuf
<1>5. DistinctBuffers'
  BY <1>1, <1>2 DEF DistinctBuffers, NoBuf
<1> QED
  BY <1>4, <1>5

\* For any number of queue pairs, any length of list and any sizes of messages, no
\* response is overwritten before the NIC has read it when there are at least
\* Copies(num_qps, postlist) of the non_inline_bufs.
THEOREM ResponsesIntact == Spec => []BuffersIntact
<1>1. Init => BInv
  BY Sizes DEF Init, BInv, Aged, DistinctBuffers, Qps
<1>2. IInv /\ IInv' /\ BInv /\ [Next]_vars => BInv'
  <2> SUFFICES ASSUME IInv, IInv', BInv, [Next]_vars, Copies(numQps, postlist)' <= RqDepth
               PROVE  DistinctBuffers' /\ Aged'
    BY DEF BInv
  <2>1. UNCHANGED config
    BY DEF Next, Call, Send, SendMsg, Execute, vars, config
  <2>2. Copies(numQps, postlist) <= RqDepth /\ DistinctBuffers /\ Aged
    BY <2>1 DEF config, BInv, Copies
  <2>3. CASE Call \/ UNCHANGED vars
    <3>1. UNCHANGED <<numQps, postlist, activeQp, niIndex, wr, posted>>
      BY <2>3 DEF Call, queue, vars, config
    <3>2. \A q, i : Since(q, i)' = Since(q, i)
      BY <3>1 DEF Since, Others, Round
    <3>3. Aged'
      BY <3>1, <3>2, <2>2 DEF Aged, Qps, NoBuf
    <3>4. DistinctBuffers'
      BY <3>1, <2>2 DEF DistinctBuffers, Qps, NoBuf
    <3> QED
      BY <3>3, <3>4
  <2>4. CASE Send
    BY <2>2, <2>4, SendBuffers DEF Send
  <2>5. CASE \E q \in Qps : Execute(q)
    BY <2>2, <2>5, ExecuteBuffers
  <2> QED
    BY <2>3, <2>4, <2>5 DEF Next
<1>3. BInv => BuffersIntact
  BY DEF BInv, BuffersIntact
<1> QED
  BY <1>1, <1>2, <1>3, SendInvariant, PTL DEF Spec

\* With one queue pair, the compile-time check HRD_RQ_DEPTH >= 2 * RPC_UNSIG_BATCH
\* is enough for a large response not to be overwritten before the NIC has read it.
THEOREM OneQueuePairBuffers ==
  Spec => [](numQps = 1 => DistinctBuffers)
<1>1. IInv /\ BuffersIntact => (numQps = 1 => DistinctBuffers)
  <2> SUFFICES ASSUME IInv, numQps = 1 PROVE Copies(numQps, postlist) <= RqDepth
    BY DEF BuffersIntact
  <2>1. postlist \in Nat
    BY Sizes DEF IInv, TypeOK
  <2>2. Copies(numQps, postlist) = 2 * UnsigBatch - 2
    BY <2>1, Sizes DEF Copies
  <2> QED
    BY <2>2, Sizes
<1> QED
  BY <1>1, SendInvariant, ResponsesIntact, PTL
=============================================================================
