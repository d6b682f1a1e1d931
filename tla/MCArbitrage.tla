---------------------------- MODULE MCArbitrage ----------------------------
(***************************************************************************)
(* A profitable route p, an allocation a that costs its fee and a route q, *)
(* each with outputs of its own; limit 4 leaves room for one failure after *)
(* a profit, or for an allocation and then a failure, never for two.       *)
(***************************************************************************)
EXTENDS Arbitrage

CONSTANTS p, a, q

MCSpends == [t \in Txs |-> {<<t, "in">>}]
MCPledges == [t \in Txs |-> IF t = a THEN {} ELSE {<<t, "collateral">>}]
MCRefs == Txs \X {"in", "collateral"}
MCExpires == [t \in Txs |-> IF t = p THEN 4 ELSE 7]
MCGain == [t \in Txs |-> IF t = p THEN 2 ELSE IF t = a THEN -1 ELSE 1]
MCRisk == [t \in Txs |-> IF t = a THEN 1 ELSE 3]
=============================================================================
