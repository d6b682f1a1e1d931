------------------------------ MODULE MCSearch ------------------------------
(***************************************************************************)
(* Orders of every venue, each alone for longer sequences of fills, and    *)
(* two small markets of five orders over ADA and two tokens, in            *)
(* which cycles of two and three hops exist.                               *)
(***************************************************************************)
EXTENDS Search, TLC

CONSTANTS ada, t, u

MCUnits == {ada, t, u}
MCPosition == ada :> 1 @@ t :> 2 @@ u :> 3

Bag(x, y, z) == ada :> x @@ t :> y @@ u :> z
Rat(n, d) == [num |-> n, den |-> d]

Swap(a, b, bag, price) ==
  [venue |-> "swaps-v1", a |-> a, b |-> b, assets |-> bag, price |-> a :> price]
TwoWay(a, b, bag, first, second) ==
  [venue |-> "swaps-v1-two-way", a |-> a, b |-> b, assets |-> bag, price |-> a :> first @@ b :> second]
Pool(script, a, b, bag, treasury, bound) ==
  [venue |-> "splash", script |-> script, a |-> a, b |-> b, assets |-> bag, treasury |-> treasury,
   bound |-> bound, poolFee |-> 9, treasuryFee |-> 2]
Genius(a, b, bag, offered, gathered, price) ==
  [venue |-> "genius-yield", a |-> a, b |-> b, assets |-> bag, offered |-> offered,
   payment |-> 0, gathered |-> gathered, takerFee |-> 1, price |-> a :> price]
Saturn(a, b, bag, sell, buy, least) ==
  [venue |-> "saturnswap", a |-> a, b |-> b, assets |-> bag, sell |-> sell, buy |-> buy,
   minFill |-> least]

Alone ==
  { Swap(t, ada, Bag(3, 7, 0), Rat(2, 3)),
    TwoWay(ada, t, Bag(12, 5, 0), Rat(3, 2), Rat(1, 1)),
    Pool(1, ada, t, Bag(14, 11, 0), Bag(1, 0, 0), 20),
    Pool(2, t, u, Bag(3, 14, 11), Bag(0, 1, 0), 2),
    Genius(ada, u, Bag(12, 0, 1), 7, Bag(1, 0, 1), Rat(2, 3)),
    Genius(t, u, Bag(4, 9, 1), 7, Bag(1, 2, 1), Rat(4, 3)),
    Saturn(ada, u, Bag(11, 0, 0), 11, 7, 2),
    Saturn(t, u, Bag(3, 9, 0), 9, 7, 2),
    Saturn(t, ada, Bag(3, 9, 0), 9, 6, 0) }

Markets ==
  { << Swap(t, ada, Bag(3, 7, 0), Rat(2, 3)), TwoWay(ada, t, Bag(14, 5, 0), Rat(1, 2), Rat(1, 1)),
       Pool(2, t, u, Bag(3, 14, 16), Bag(0, 1, 0), 18), Genius(ada, u, Bag(16, 0, 1), 12, Bag(1, 0, 1), Rat(1, 2)),
       Saturn(ada, u, Bag(20, 0, 0), 20, 7, 2) >>,
    << Saturn(t, ada, Bag(3, 20, 0), 20, 8, 1), Pool(1, ada, t, Bag(20, 17, 0), Bag(1, 0, 0), 24),
       Genius(u, t, Bag(4, 1, 14), 12, Bag(1, 0, 1), Rat(2, 3)), Pool(2, t, u, Bag(3, 14, 22), Bag(0, 1, 0), 20),
       Swap(ada, u, Bag(16, 0, 0), Rat(2, 3)) >> }

MCBooks ==
  {[r \in Refs |-> IF r = 1 THEN o ELSE Gone] : o \in Alone} \cup
  {[r \in Refs |-> m[r]] : m \in Markets}

Pass(e, c, n, k) == [expansions |-> e, cycles |-> c, attempts |-> n, rotation |-> k]
MCBudgets == {Pass(40, 20, 6, 0), Pass(6, 20, 3, 1), Pass(40, 2, 2, 0)}

Flat(n) == [v \in {"swaps-v1", "swaps-v1-two-way", "splash", "genius-yield", "saturnswap"} |-> n]
MCShared == [Flat(2) EXCEPT !["splash"] = 1, !["saturnswap"] = 3]
MCMarginal == [Flat(1) EXCEPT !["genius-yield"] = 2]
=============================================================================
