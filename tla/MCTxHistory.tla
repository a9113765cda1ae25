---------------------------- MODULE MCTxHistory ----------------------------
(***************************************************************************)
(* Instances of TxHistory for TLC.                                         *)
(***************************************************************************)
EXTENDS TxHistory, TLC

CONSTANTS c1, c2, k1, k2, k3, b1, b2

\* What an application adds before a do_read(): k1 and k2 share a bucket and k2
\* is absent at first, so that keys are inserted, deleted and read next to others.
Rd(k) == [rd |-> {k}, wr |-> <<>>]
RdUpd(j, k) == [rd |-> {j}, wr |-> (k :> "update")]
Upd(k) == [rd |-> {}, wr |-> (k :> "update")]
SmallBatches ==
  { RdUpd(k1, k3), RdUpd(k3, k1), RdUpd(k2, k1), Rd(k1), Rd(k3), Upd(k3),
    [rd |-> {}, wr |-> (k1 :> "update") @@ (k2 :> "insert")],
    [rd |-> {}, wr |-> (k1 :> "del") @@ (k2 :> "insert")],
    [rd |-> {}, wr |-> (k2 :> "del")] }

TwoBuckets == (k1 :> b1) @@ (k2 :> b1) @@ (k3 :> b2)
TwoMachines == (b1 :> 1) @@ (b2 :> 2)
OneAndTwo == (c1 :> 1) @@ (c2 :> 2)
=============================================================================
