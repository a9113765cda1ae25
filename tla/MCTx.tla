------------------------------- MODULE MCTx -------------------------------
(***************************************************************************)
(* Instances of Tx for TLC.                                                *)
(***************************************************************************)
EXTENDS Tx, TLC

CONSTANTS c1, c2, k1, k2, b1, b2

\* Every batch of at most two of the keys.
AllBatches ==
  {p \in UNION {[rd : SUBSET Keys, wr : [W -> Modes]] : W \in SUBSET Keys} :
     /\ p.rd \cap DOMAIN p.wr = {}
     /\ Cardinality(p.rd \cup DOMAIN p.wr) \in {1, 2}}

TwoBuckets == (k1 :> b1) @@ (k2 :> b2)
TwoMachines == (b1 :> 1) @@ (b2 :> 2)

OneEach == [c \in Coros |-> 1]
=============================================================================
