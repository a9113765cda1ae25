---------------------------- MODULE MCFixedTable ----------------------------
(***************************************************************************)
(* Instances of FixedTable for TLC.                                        *)
(***************************************************************************)
EXTENDS FixedTable

CONSTANTS c1, c2, k1, k2, k3, k4, k5

\* Three keys share a bucket of one slot, two share another: the populated
\* table has a chain of two extra buckets, and the fifth key needs one of them.
ThreeAndTwo == [k \in Keys |-> IF k \in {k4, k5} THEN 2 ELSE 1]

OneBucket == [k \in Keys |-> 1]

FourKeys == <<k1, k2, k3, k4>>

\* c1 can free a bucket of the first chain and take it for the other one, while c2
\* reads the first chain to its end or deletes from it.
DeleteAndReuse == (c1 :> {k1, k5}) @@ (c2 :> {k1, k3})
EveryAndTwo == (c1 :> Keys) @@ (c2 :> {k1, k3})

TwoAndOne == (c1 :> 2) @@ (c2 :> 1)
TwoEach == [c \in Callers |-> 2]
=============================================================================
