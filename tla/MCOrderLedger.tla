--------------------------- MODULE MCOrderLedger ---------------------------
(***************************************************************************)
(* One order o1, its partial fill into o2 and a close of either output,    *)
(* and an order o3 of its own: after a roll-back the other story may be    *)
(* told, or the same one in another sequence.                              *)
(***************************************************************************)
EXTENDS OrderLedger

CONSTANTS create, other, fill, close1, close2, o1, o2, o3

MCTakes ==
  [t \in Txs |-> IF t \in Creates THEN None ELSE IF t = close2 THEN o2 ELSE o1]
MCMakes ==
  [t \in Txs |-> IF t = create THEN o1 ELSE IF t = fill THEN o2
                 ELSE IF t = other THEN o3 ELSE None]
=============================================================================
