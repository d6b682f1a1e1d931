----------------------------- MODULE MCEvidence -----------------------------
(***************************************************************************)
(* The own candidate and a stranger's transaction want the same output;    *)
(* the stranger's may fail and take its collateral instead.  A third       *)
(* transaction of the address has nothing to do with it.                   *)
(***************************************************************************)
EXTENDS Evidence, TLC

CONSTANTS A, B, C, x, y, c

MCForeign == {A, B, C}
MCRefs == {x, y, c}
MCSpends == A :> {x} @@ B :> {x} @@ C :> {y}
MCPledges == A :> {} @@ B :> {c} @@ C :> {}
MCExpires == [t \in MCForeign |-> 99]
MCRank == A :> 3 @@ B :> 2 @@ C :> 1
=============================================================================
