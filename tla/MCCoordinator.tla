--------------------------- MODULE MCCoordinator ---------------------------
(***************************************************************************)
(* A small wallet: two candidates that want the same output x (the second  *)
(* replaces the first once it is given up), a market output m that a       *)
(* stranger may take first, and one collateral output c.  The liveness run *)
(* has the first candidate and the stranger only.                          *)
(***************************************************************************)
EXTENDS Coordinator

CONSTANTS A, B, F, x, m, c

MCSpends == [t \in Txs |-> IF t = A THEN {x, m} ELSE IF t = B THEN {x} ELSE {m}]
MCPledges == [t \in Txs |-> IF t = F THEN {} ELSE {c}]
MCExpires == [t \in Txs |-> IF t = A THEN 3 ELSE IF t = B THEN 6 ELSE 4]
=============================================================================
