------------------------------- MODULE Venues -------------------------------
(***************************************************************************)
(* Liquidity that strangers keep on the ledger, one UTxO each, and what    *)
(* taking from it does (venues.py; fill_order of transactions.py for the   *)
(* published swaps).  The same integer arithmetic quotes a route, builds   *)
(* its outputs and leaves behind the order that the next taker finds.      *)
(*                                                                         *)
(* Tokens are bags over Units.  Datums are their numbers: tags, indices,   *)
(* beacons and script hashes are left out.  The protocols' fixed scales    *)
(* are constants, and the minimum ADA of an output does not depend on its  *)
(* size.                                                                   *)
(***************************************************************************)
EXTENDS Integers, Sequences, SequencesExt

CONSTANTS
  Units, Ada,   \* assets, and the one outputs have to hold some of
  Refs,         \* UTxOs of the venues
  Books,        \* what may lie there at first: functions from Refs to orders
  MinAda,       \* min_lovelace of an output
  FeeScale,     \* Splash: denominator of the pool and treasury fee (100000)
  RatioScale,   \* Saturn: intermediate scale of a ratio (10^12)
  FeeShare,     \* Saturn: what part of the released amount the taker pays (100)
  Buffer,       \* Saturn: ADA given back with a partial fill (2000000)
  MaxBudget,    \* bound: what a taker brings
  MaxTakes      \* bound: fills by strangers, times the orders there are

ASSUME VenuesAssumption ==
  /\ Ada \in Units
  /\ {MinAda, FeeScale, RatioScale, FeeShare, Buffer, MaxBudget} \subseteq Nat \ {0}
  /\ MaxTakes \in Nat

VARIABLES
  book,         \* the order that lies at each ref, or Gone
  origin, paid, \* history: what lay there first, what its maker has been paid since
  sold,         \* history: what has been taken of each asset
  takes         \* fills so far

venueVars == <<book, origin, paid, sold, takes>>

Gone == [venue |-> "none"]
NoQuote == [in |-> 0, out |-> 0, fee |-> 0]
NoFill == [in |-> 0, out |-> 0, outputs |-> <<>>, next |-> Gone]
Nothing == [u \in Units |-> 0]

Least(x, y) == IF x <= y THEN x ELSE y
Most(x, y) == IF x >= y THEN x ELSE y
CeilDiv(n, d) == (n + d - 1) \div d

Give(bag, unit, n) == [bag EXCEPT ![unit] = @ + n]
Join(b1, b2) == [u \in Units |-> b1[u] + b2[u]]
Less(b1, b2) == [u \in Units |-> b1[u] - b2[u]]
InAll(bags) == FoldLeft(Join, Nothing, bags)

\* _output: a continuation must hold its minimum, a payment is topped up to it.
Holds(bag) == bag[Ada] >= MinAda /\ \A u \in Units : bag[u] >= 0
TopUp(bag) == [bag EXCEPT ![Ada] = Most(@, MinAda)]

Other(o, unit) == IF unit = o.a THEN o.b ELSE o.a
TwoSided(o) == o.venue \in {"swaps-v1-two-way", "splash"}
Sides(o) == IF TwoSided(o) THEN {o.a, o.b} ELSE {o.b}

----------------------------------------------------------------------------
(* What an offer is worth.                                                 *)

\* Active reserves of a pool: what lies there without the treasury's part.
Active(o, u) == o.assets[u] - o.treasury[u]

\* A pool takes the whole budget along its product curve.
PoolAmounts(o, unit, n) ==
  LET out == Other(o, unit)
      paying == n * (o.poolFee - o.treasuryFee)
  IN  [in |-> n, out |-> (Active(o, out) * paying) \div (Active(o, unit) * FeeScale + paying)]

\* A swap that sells ADA keeps its carrier.
Capacity(o, out) ==
  IF o.venue = "genius-yield" THEN o.offered
  ELSE o.assets[out] - (IF out = Ada THEN MinAda ELSE 0)

\* Slip: a two-way order is charged at the price of the other direction.
PriceOfOther(o, out) ==
  IF o.venue = "swaps-v1-two-way" THEN o.price[Other(o, out)] ELSE o.price[out]

\* Asked for one of what is taken out.
Price(o, out) == o.price[out]

\* Slip: what the taker pays is rounded in his favour.
OrderAmountsRoundedDown(o, unit, n) ==
  LET out == Other(o, unit)
      price == Price(o, out)
      take == Least(Capacity(o, out), (n * price.den) \div price.num)
  IN  [in |-> (take * price.num) \div price.den, out |-> take]

\* An order is taken up to its capacity at its price, the payment rounded up.
OrderAmounts(o, unit, n) ==
  LET out == Other(o, unit)
      price == Price(o, out)
      take == Least(Capacity(o, out), (n * price.den) \div price.num)
  IN  [in |-> CeilDiv(take * price.num, price.den), out |-> take]

Amounts(o, unit, n) ==
  IF o.venue = "splash" THEN PoolAmounts(o, unit, n) ELSE OrderAmounts(o, unit, n)

\* Saturn: two ceilings over a fixed scale.
Ratio(old, new, n) == CeilDiv(n * CeilDiv(new * RatioScale, old), RatioScale)

----------------------------------------------------------------------------
(* Filling.                                                                *)

Filled(m, outputs, next) == [in |-> m.in, out |-> m.out, outputs |-> outputs, next |-> next]

\* fill_order and the two-way swap: the order lies on with what was paid.
OrderFill(o, unit, n) ==
  LET m == Amounts(o, unit, n)
      kept == Give(Give(o.assets, unit, m.in), Other(o, unit), - m.out)
  IN  IF m.in > 0 /\ m.out > 0 /\ Holds(kept)
      THEN Filled(m, <<kept>>, [o EXCEPT !.assets = kept]) ELSE NoFill

SplashFill(o, unit, n) ==
  LET m == Amounts(o, unit, n)
      kept == Give(Give(o.assets, unit, m.in), Other(o, unit), - m.out)
      treasury == Give(o.treasury, unit, (m.in * o.treasuryFee) \div FeeScale)
  IN  IF m.out > 0 /\ Holds(kept)
      THEN Filled(m, <<kept>>, [o EXCEPT !.assets = kept, !.treasury = treasury]) ELSE NoFill

\* Slip: the datum still offers what was taken.
GeniusFilledUnbooked(o, m, left) ==
  IF m.in > 0 /\ m.out > 0 /\ m.out < o.offered /\ Holds(left)
  THEN Filled(m, <<left, TopUp(Give(Nothing, Ada, o.takerFee))>>,
              [o EXCEPT !.assets = left, !.payment = @ + m.in])
  ELSE NoFill

\* A partial fill keeps the payment with the order; the last one pays the
\* maker out, without the fees the order has gathered.  A fee output joins both.
GeniusFilled(o, m, left) ==
  LET payment == TopUp(Less(left, o.gathered))
      fee(bag) == TopUp(Give(bag, Ada, o.takerFee))
  IN  CASE m.in <= 0 \/ m.out <= 0 -> NoFill
        [] m.in > 0 /\ m.out > 0 /\ m.out < o.offered /\ Holds(left) ->
             Filled(m, <<left, fee(Nothing)>>,
                    [o EXCEPT !.assets = left, !.offered = @ - m.out, !.payment = @ + m.in])
        [] m.in > 0 /\ m.out > 0 /\ m.out = o.offered /\ Holds(payment) ->
             Filled(m, <<payment, fee(o.gathered)>>, Gone)
        [] OTHER -> NoFill

GeniusFill(o, unit, n) ==
  LET m == Amounts(o, unit, n)
  IN  GeniusFilled(o, m, Give(Give(o.assets, unit, m.in), o.a, - m.out))

\* An order between two tokens is never taken whole.
SaturnTaken(o, n) ==
  IF n < o.buy THEN n ELSE IF Ada \in {o.a, o.b} THEN o.buy ELSE o.buy - 1

\* Selling ADA, a buffer of it goes back to the maker as long as more than that
\* remains.
SaturnLeft(o, in, remain) ==
  IF o.a = Ada /\ remain > Buffer
  THEN [sell |-> remain - Buffer, buy |-> Ratio(o.sell, remain - Buffer, o.buy), back |-> Buffer]
  ELSE [sell |-> remain, buy |-> o.buy - in, back |-> 0]

SaturnFee(o, in) == Ratio(o.buy, in, o.sell) \div FeeShare

\* To the maker, to the protocol, and what lies on.
SaturnOutputs(o, unit, in, left) ==
  LET carried == IF o.a = Ada THEN 0 ELSE o.assets[Ada]
  IN  <<TopUp(Give(Give(Nothing, unit, in), Ada, IF in = o.buy THEN carried ELSE left.back)),
        TopUp(Give(Nothing, o.a, SaturnFee(o, in)))>>
      \o (IF in = o.buy THEN <<>> ELSE <<TopUp(Give(Give(Nothing, o.a, left.sell), Ada, carried))>>)

\* What leaves the order is what its outputs do not keep.
SaturnFilled(o, in, left, outputs) ==
  LET out == o.assets[o.a] - InAll(outputs)[o.a]
  IN  IF \/ in < o.buy /\ (in < o.minFill \/ left.sell <= 0 \/ left.buy <= 0)
         \/ SaturnFee(o, in) <= 0 \/ in <= 0 \/ out <= 0
      THEN NoFill
      ELSE Filled([in |-> in, out |-> out], outputs,
                  IF in = o.buy THEN Gone
                  ELSE [o EXCEPT !.assets = Last(outputs), !.sell = left.sell, !.buy = left.buy])

SaturnFill(o, unit, n) ==
  LET in == SaturnTaken(o, n)
      left == SaturnLeft(o, in, Ratio(o.buy, o.buy - in, o.sell))
  IN  SaturnFilled(o, in, left, SaturnOutputs(o, unit, in, left))

\* ADA the taker pays on top of the amounts: what topping up and fees cost.
FixedFee(o, unit, f) ==
  (IF unit = Ada THEN - f.in ELSE IF Other(o, unit) = Ada THEN f.out ELSE 0)
  - (o.assets[Ada] - InAll(f.outputs)[Ada])

\* The check at the end of fill: the outputs leave neither native assets nor
\* ADA behind that the quote does not name.
Accounted(o, unit, f) ==
  /\ \A u \in Units \ {Ada} :
       o.assets[u] - InAll(f.outputs)[u] =
         (IF u = Other(o, unit) THEN f.out ELSE 0) - (IF u = unit THEN f.in ELSE 0)
  /\ FixedFee(o, unit, f) >= 0

Checked(o, unit, f) == IF f # NoFill /\ Accounted(o, unit, f) THEN f ELSE NoFill

Fill(o, unit, n) ==
  Checked(o, unit, CASE o.venue = "splash" -> SplashFill(o, unit, n)
                     [] o.venue = "genius-yield" -> GeniusFill(o, unit, n)
                     [] o.venue = "saturnswap" -> SaturnFill(o, unit, n)
                     [] OTHER -> OrderFill(o, unit, n))

\* Pools and partial fills are quoted from the amounts alone; whatever else,
\* by the fill itself.
Simple(o, m) ==
  \/ o.venue \in {"swaps-v1", "swaps-v1-two-way", "splash"}
  \/ o.venue = "genius-yield" /\ m.out < o.offered

QuotedAmounts(o, m) ==
  IF m.in <= 0 \/ m.out <= 0 THEN NoQuote
  ELSE [in |-> m.in, out |-> m.out,
        fee |-> IF o.venue = "genius-yield" THEN Most(o.takerFee, MinAda) ELSE 0]

QuotedFill(o, unit, f) ==
  IF f = NoFill THEN NoQuote
  ELSE [in |-> f.in, out |-> f.out, fee |-> FixedFee(o, unit, f)]

\* Edge.quote and DirectState.quote.
Quote(o, unit, n) ==
  IF o = Gone \/ n <= 0 \/ unit \notin Sides(o) THEN NoQuote
  ELSE IF Simple(o, Amounts(o, unit, n)) THEN QuotedAmounts(o, Amounts(o, unit, n))
  ELSE QuotedFill(o, unit, Fill(o, unit, n))

----------------------------------------------------------------------------
(* What decode_direct and decode_swaps take for liquidity.                 *)

\* Assets an order may hold besides beacons and its token.
Allowed(o) == {Ada, o.a} \cup (IF o.venue = "saturnswap" THEN {} ELSE {o.b})

WellFormed(o) ==
  /\ o.a # o.b
  /\ \A u \in Units : o.assets[u] >= 0 /\ (o.assets[u] > 0 => u \in Allowed(o))
  /\ CASE o.venue \in {"swaps-v1", "swaps-v1-two-way"} ->
            \A u \in DOMAIN o.price : o.price[u].num > 0 /\ o.price[u].den > 0
       [] o.venue = "splash" ->
            /\ 0 <= o.treasuryFee /\ o.treasuryFee < o.poolFee /\ o.poolFee <= FeeScale
            /\ Active(o, o.a) > 0 /\ Active(o, o.b) > 0
            /\ \A u \in {o.a, o.b} : o.treasury[u] >= 0
       [] o.venue = "genius-yield" ->
            /\ o.offered > 0 /\ o.payment >= 0
            /\ o.assets[o.a] >= o.gathered[o.a] + o.offered
            /\ o.assets[o.b] >= o.gathered[o.b] + o.payment
            /\ o.assets[Ada] >= o.gathered[Ada]
       [] OTHER ->
            /\ o.sell > 0 /\ o.buy > 0 /\ o.minFill >= 0
            /\ o.assets[o.a] >= o.sell

\* The liquidity bound of a pool, on the reserves of its first asset.
AboveBound(o) == o.venue = "splash" => o.bound <= 2 * Active(o, o.a)

Recognised(o) == WellFormed(o) /\ AboveBound(o)

----------------------------------------------------------------------------
(* Strangers take what they like, by the same arithmetic; like fill, they   *)
(* do not look at the bound of a pool.                                     *)

VenuesInit ==
  /\ book \in Books /\ origin = book
  /\ paid = [r \in Refs |-> Nothing] /\ sold = [r \in Refs |-> Nothing]
  /\ takes = 0

\* Outputs that go to the maker himself.
MakerGets(o, f) ==
  CASE o.venue = "saturnswap" -> f.outputs[1]
    [] o.venue = "genius-yield" /\ f.next = Gone -> f.outputs[1]
    [] OTHER -> Nothing

Take(r) ==
  /\ book[r] # Gone
  /\ takes * Cardinality({s \in Refs : origin[s] # Gone}) < MaxTakes
  /\ \E unit \in Sides(book[r]), n \in 1..MaxBudget :
       LET f == Fill(book[r], unit, n) IN
       /\ f # NoFill
       /\ book' = [book EXCEPT ![r] = f.next]
       /\ paid' = [paid EXCEPT ![r] = Join(@, MakerGets(book[r], f))]
       /\ sold' = [sold EXCEPT ![r] = Give(@, Other(book[r], unit), f.out)]
  /\ takes' = takes + 1 /\ UNCHANGED origin

Market == \E r \in Refs : Take(r)

----------------------------------------------------------------------------
(* Properties.                                                             *)

\* What has come into an order of an asset, in exchange for the other one.
Received(r, u) == book[r].assets[u] - origin[r].assets[u] + sold[r][u]

\* However an order is taken in parts, from one side or both, and by however
\* many fills: what is left is an order that the kernel can decode, unless it
\* is a pool that takers of its first asset have brought below its
\* liquidity bound; its maker has got no less than his price for what is gone,
\* in each direction by itself; and a pool's product has not shrunk.
MakersServed ==
  /\ \A r \in {s \in Refs : book[s] # Gone} :
       /\ WellFormed(book[r])
       /\ Recognised(book[r]) \/ sold[r][book[r].a] > 0
  /\ \A r \in {s \in Refs : origin[s] # Gone} :
       LET o == origin[r]
           now == book[r]
           got == IF o.venue = "genius-yield" /\ now # Gone THEN now.payment ELSE paid[r][o.b]
           left(field) == IF now = Gone THEN 0 ELSE now[field]
       IN  CASE o.venue = "splash" ->
                  Active(now, o.a) * Active(now, o.b) >= Active(o, o.a) * Active(o, o.b)
             [] o.venue \in {"swaps-v1", "swaps-v1-two-way"} ->
                  \A u \in DOMAIN o.price :
                    Received(r, Other(o, u)) * o.price[u].den >= sold[r][u] * o.price[u].num
             [] o.venue = "genius-yield" ->
                  got * o.price[o.a].den >= (o.offered - left("offered")) * o.price[o.a].num
             [] o.venue = "saturnswap" ->
                  got * o.sell >= (o.sell - left("sell") - (IF o.a = Ada THEN paid[r][Ada] ELSE 0)) * o.buy
=============================================================================
