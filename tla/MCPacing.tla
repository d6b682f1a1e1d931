------------------------------ MODULE MCPacing ------------------------------
(***************************************************************************)
(* Local waits of 2, 4 and 5 units (the ceiling cuts the third), a host    *)
(* that may ask for a longer one, and a deadline shorter than that.        *)
(***************************************************************************)
EXTENDS Pacing

MCBackoff == [n \in 1..3 |-> Lesser(5, 2 * 2^(n - 1))]
MCRetryAfter == {0, 3, 7}
MCServerDelays == {0, 3}
=============================================================================
