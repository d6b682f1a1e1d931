------------------------------ MODULE MCRound ------------------------------
(* Three rows under two credentials and three routes over them; slots of   *)
(* one second, then of two.                                                *)
EXTENDS Round, TLC

CONSTANTS x, y, z, a, b, c

MCCredential == (x :> 1) @@ (y :> 2) @@ (z :> 2)
MCUses == (a :> {x, y}) @@ (b :> {x, z}) @@ (c :> {y})
MCUntil == (a :> 9) @@ (b :> 9) @@ (c :> 5)
MCGain == (a :> 5) @@ (b :> 4) @@ (c :> 3)
MCEras == {[start |-> 0, slot |-> 0, end |-> 4, length |-> 1],
           [start |-> 4, slot |-> 4, end |-> -1, length |-> 2]}
=============================================================================
