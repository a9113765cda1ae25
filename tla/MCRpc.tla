------------------------------- MODULE MCRpc -------------------------------
(***************************************************************************)
(* Instances of Rpc for TLC.                                               *)
(***************************************************************************)
EXTENDS Rpc

CONSTANTS m1, m2

\* One request, two that share a datagram, and one to each machine.
SomeBatches == {<<m2>>, <<m1, m1>>, <<m1, m2>>, <<m2, m1>>}
TwoBatches == {<<m2, m2>>, <<m1, m2>>}

BothSend == [m \in Machines |-> 2]
OneSends == [m \in Machines |-> IF m = m1 THEN 2 ELSE 0]
=============================================================================
