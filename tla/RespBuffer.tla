----------------------------- MODULE RespBuffer -----------------------------
(***************************************************************************)
(* A coordinator that is alone in the system, with the response buffers of *)
(* the servers it talks to.  Tx lets a response header that get() did not  *)
(* write hold any version of StaleVersions; here the bytes are followed.   *)
(* There are no backups, hence no log messages to these servers.           *)
(*                                                                         *)
(* A server answers a coalesced message in a slot of its response batch.   *)
(* With one coordinator there is one message at a time, so the slot is     *)
(* always slot 0.  Its memory is never wiped: clear() resets the pointers. *)
(* The answers lie in the slot one after the other, an 8-byte entry header *)
(* before each.  The version word of the first answer is followed, later   *)
(* ones are not: a run that would send one of them unwritten is left out.  *)
(***************************************************************************)
EXTENDS Tx, Sequences

VARIABLES
  order,  \* order[c]: the read set of c as the vector that it is
  word    \* word[m]: what the first version word of slot 0 at m spells, as a set
          \* of at most one version; {} for bytes that are no version

Machine(k) == MachineOf[BucketOf[k]]

LoneInit ==
  /\ Init
  /\ \E c \in Coros : Coros = {c}
  /\ NumBackups = 0
  /\ order = [c \in Coros |-> <<>>]
  /\ word = [m \in {MachineOf[b] : b \in Buckets} |-> {}]

-----------------------------------------------------------------------------
\* The steps of the coordinator; start() clears the read set.
Coordinate(c) ==
  /\ Coordinator(c)
  /\ order' = IF txn'[c] # txn[c] THEN [order EXCEPT ![c] = <<>>] ELSE order
  /\ UNCHANGED word

\* In do_read() and validate(): the answer to k is the first of its message.  (The
\* answers to put, del and unlock are empty, and resp does not keep them.)
First(c, k) ==
  \A j \in Keys : Machine(j) = Machine(k) => resp[c][j].type = "none"

\* Another request of this message is still to be answered.
More(c, k) ==
  \E j \in Keys \ {k} : Machine(j) = Machine(k) /\ <<0, j>> \in pend[c]

\* do_read() and validate() both list the read set in its order, and the
\* requests of a message are answered in the order in which they are listed.
InOrder(c, k) ==
  /\ order' = IF pc[c] = "read" /\ k \in rs[c]
              THEN [order EXCEPT ![c] = Append(@, k)] ELSE order
  /\ pc[c] = "validate" =>
       \A i, j \in DOMAIN order[c] :
         /\ i < j /\ order[c][j] = k /\ Machine(order[c][i]) = Machine(k)
         => <<0, order[c][i]>> \notin pend[c]

\* get() leaves the header of a missing key in a bucket of the caller unwritten.
HeaderUnwritten(c, k) ==
  k \in rs[c] /\ ~Exists(k) /\ locker[BucketOf[k]] = c

\* The answer to k, which step Server(c) has put in resp', goes through the
\* slot: a header is written to it, or its old bytes are sent as one.  After an
\* empty answer the entry header of the next one lies on the word.
ThroughSlot(c, k) ==
  LET m == Machine(k)
      sent == resp'[c][k]
      header == \/ sent.type = "success"
                \/ sent.type = "not_found" /\ k \in rs[c]
  IN
  /\ HeaderUnwritten(c, k) => First(c, k) /\ sent.ver \in word[m]
  /\ word' = [word EXCEPT ![m] =
       CASE First(c, k) /\ header -> {sent.ver}
         [] First(c, k) /\ ~header /\ More(c, k) -> {}
         [] OTHER -> @]

\* The request of c for k is handled at the primary.
Handle(c, k) ==
  /\ \/ GetRdonly(c, k) \/ GetForUpd(c, k) \/ LockForIns(c, k) \/ LockRefused(c, k)
     \/ Unlock(c, k) \/ Update(c, 0, k)
  /\ InOrder(c, k)
  /\ ThroughSlot(c, k)

LoneNext == \E c \in Coros : Coordinate(c) \/ \E k \in Keys : Handle(c, k)

LoneSpec == LoneInit /\ [][LoneNext]_<<vars, order, word>>

-----------------------------------------------------------------------------
=============================================================================
