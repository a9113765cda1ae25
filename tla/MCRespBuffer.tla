---------------------------- MODULE MCRespBuffer ----------------------------
(***************************************************************************)
(* An instance of RespBuffer for TLC: two buckets on one machine, without  *)
(* backups (so no log either), and every order of a read set.              *)
(***************************************************************************)
EXTENDS RespBuffer, TLC

CONSTANTS c1, k1, k2, k3, b1, b2

\* A do_read() for one key to read, one to write, or one of each.
SmallBatches ==
  {p \in UNION {[rd : SUBSET Keys, wr : [W -> {"update"}]] : W \in SUBSET Keys} :
     /\ p.rd \cap DOMAIN p.wr = {}
     /\ p.rd \cup DOMAIN p.wr # {}
     /\ Cardinality(p.rd) <= 1 /\ Cardinality(DOMAIN p.wr) <= 1}

TwoAndOne == (k1 :> b1) @@ (k2 :> b1) @@ (k3 :> b2)
OneMachine == [b \in Buckets |-> 1]
TwoEach == [c \in Coros |-> 2]
=============================================================================
