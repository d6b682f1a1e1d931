------------------------------- MODULE Search -------------------------------
(***************************************************************************)
(* The bounded search for ADA cycles (arbitrage.py) over the orders that a *)
(* snapshot of the venues holds: enumeration of the cycles under budgets   *)
(* of expansions and cycles, sizing by exact quotes, and the ranking that  *)
(* decides which few are built and evaluated.  A stop or the time limit    *)
(* cuts it short between any two steps.                                    *)
(*                                                                         *)
(* Pools whose mathematics come from a library (dano) are left out.        *)
(***************************************************************************)
EXTENDS Venues, FiniteSetsExt

CONSTANTS
  Assets,         \* config.assets
  MaxHops,        \* config.max_hops
  MaxTrade,       \* config.max_trade_lovelace
  Grid,           \* steps of the grid of seeds (16)
  MinProfit,      \* config.min_profit_lovelace
  MaxEvaluations, \* config.max_evaluations
  Budgets,        \* max_expansions, max_cycles, size_attempts and the rotation of a pass
  Position,       \* order of the asset names
  MaxBefore,      \* bound: fills before the snapshot is taken
  FeeBase, Shared, Marginal   \* ranking priors: of a body, a script, a spend

\* ArbitrageConfig.__post_init__.
ASSUME SearchAssumption ==
  /\ Ada \in Assets /\ Assets \subseteq Units /\ Cardinality(Assets) >= 2
  /\ MaxHops \in 2..8 /\ MaxEvaluations \in 1..3
  /\ {MaxTrade, Grid, MinProfit} \subseteq Nat \ {0}
  /\ Budgets \subseteq [expansions : Nat \ {0}, cycles : Nat \ {0}, attempts : Nat \ {0}, rotation : Nat]
  /\ Position \in [Units -> Nat] /\ MaxBefore \in Nat

VARIABLES
  phase,        \* market, cycles, size, rank, done
  conf,         \* the budgets of this pass
  index,        \* how many lengths have been begun
  ceiling,      \* expansions and cycles at which the present one ends
  path, choice, \* edges taken, and the next position in each adjacency list
  spent,        \* expansions per length
  found,        \* cycles in the order they were found
  truncated,    \* stats.search_truncated
  nth, seed,    \* cycle and seed to be sized next
  remaining,    \* attempts left for this cycle
  plans,        \* plans by identity
  ranked        \* the result

walkVars == <<index, ceiling, path, choice, spent, found>>
sizeVars == <<nth, seed, remaining, plans>>
searchVars == <<phase, conf, walkVars, truncated, sizeVars, ranked>>
vars == <<venueVars, searchVars>>

NoConf == [rotation |-> 0]

Rotated(s, n) ==
  IF s = <<>> THEN s
  ELSE LET k == n % Len(s) IN SubSeq(s, k + 1, Len(s)) \o SubSeq(s, 1, k)

\* sorted: the elements of S, each before those it does not come after.
InOrder(S, Before(_, _)) ==
  LET first[n \in 0..Cardinality(S)] ==
        LET taken == first[n - 1]
            rest == S \ ToSet(taken)
        IN  IF n = 0 THEN <<>>
            ELSE Append(taken, CHOOSE x \in rest : \A y \in rest : ~ Before(y, x))
  IN  first[Cardinality(S)]

----------------------------------------------------------------------------
(* The graph.                                                              *)

\* What observe offers to the search: what does not decode (a pool below its
\* bound) and a depleted swap are left out.
Offered(o, unit) ==
  /\ o # Gone /\ Recognised(o)
  /\ unit \in Sides(o) /\ {unit, Other(o, unit)} \subseteq Assets
  /\ o.venue = "swaps-v1" => Capacity(o, o.a) > 0

Edges ==
  {[ref |-> p[1], in |-> p[2], out |-> Other(book[p[1]], p[2])] :
     p \in {q \in Refs \X Assets : Offered(book[q[1]], q[2])}}

Earlier(e, f) ==
  \/ Position[e.out] < Position[f.out]
  \/ e.out = f.out /\ e.ref < f.ref

\* Edges that leave a unit, in order and rotated by the pass.
From(unit) == Rotated(InOrder({e \in Edges : e.in = unit}, Earlier), conf.rotation)

Depths ==
  Rotated([k \in 1..(Least(MaxHops, Cardinality(Assets)) - 1) |-> k + 1], conf.rotation)
Depth == Depths[index]
Expansions == FoldLeft(LAMBDA n, d : n + spent[d], 0, Depths)

\* Units and outputs a path has used; it starts with ADA.
UnitsOn(p) == {Ada} \cup {p[k].out : k \in 1..Len(p)}
RefsOn(p) == {p[k].ref : k \in 1..Len(p)}

----------------------------------------------------------------------------
(* cycles: depth first, one iteration of a loop at a time.                 *)

SearchInit ==
  /\ phase = "market"
  /\ conf = NoConf
  /\ index = 0 /\ ceiling = [expansions |-> 0, cycles |-> 0]
  /\ path = <<>> /\ choice = <<>>
  /\ spent = [d \in 2..MaxHops |-> 0]
  /\ found = <<>> /\ truncated = FALSE
  /\ nth = 1 /\ seed = 1 /\ remaining = 0 /\ plans = {} /\ ranked = <<>>

\* The snapshot is taken: from here on the orders are what they were.
Begin ==
  /\ phase = "market" /\ phase' = "cycles"
  /\ takes <= MaxBefore
  /\ conf' \in Budgets /\ remaining' = conf'.attempts
  /\ UNCHANGED <<venueVars, walkVars, truncated, nth, seed, plans, ranked>>

\* A part of something for each of n, at least one.
Share(n, parts) == Most(1, n \div parts)

\* Slip: the first lengths may use everything.
NextDepthGreedy ==
  /\ phase = "cycles" /\ choice = <<>>
  /\ IF \/ index = Len(Depths) \/ Expansions >= conf.expansions \/ Len(found) >= conf.cycles
     THEN /\ phase' = "size"
          /\ truncated' = (truncated \/ index < Len(Depths))
          /\ UNCHANGED <<index, ceiling, choice>>
     ELSE /\ index' = index + 1 /\ choice' = <<1>>
          /\ ceiling' = [expansions |-> conf.expansions, cycles |-> conf.cycles]
          /\ UNCHANGED <<phase, truncated>>
  /\ UNCHANGED <<venueVars, conf, path, spent, found, sizeVars, ranked>>

\* Each length gets its share of what is left; what it leaves is shared again.
NextDepth ==
  /\ phase = "cycles" /\ choice = <<>>
  /\ IF index = Len(Depths) \/ Expansions >= conf.expansions \/ Len(found) >= conf.cycles
     THEN /\ phase' = "size"
          /\ truncated' = (truncated \/ index < Len(Depths))
          /\ UNCHANGED <<index, ceiling, choice>>
     ELSE /\ index' = index + 1 /\ choice' = <<1>>
          /\ ceiling' =
               [expansions |-> Expansions + Share(conf.expansions - Expansions, Len(Depths) - index),
                cycles |-> Len(found) + Share(conf.cycles - Len(found), Len(Depths) - index)]
          /\ UNCHANGED <<phase, truncated>>
  /\ UNCHANGED <<venueVars, conf, path, spent, found, sizeVars, ranked>>

Unit == IF path = <<>> THEN Ada ELSE Last(path).out
Onward == [choice EXCEPT ![Len(choice)] = @ + 1]
Walking == phase = "cycles" /\ choice # <<>>

\* Slip: an output may serve twice on a way.
ExpandAgain(e) ==
  /\ spent' = [spent EXCEPT ![Depth] = @ + 1]
  /\ CASE e.out = Ada /\ Len(path) + 1 = Depth ->
            found' = Append(found, Append(path, e)) /\ choice' = Onward /\ UNCHANGED path
       [] e.out \notin UnitsOn(path) /\ Len(path) + 1 < Depth ->
            path' = Append(path, e) /\ choice' = Append(Onward, 1) /\ UNCHANGED found
       [] OTHER -> choice' = Onward /\ UNCHANGED <<path, found>>

\* A closed way of the right length is a cycle; a shorter open one goes on.
Expand(e) ==
  /\ spent' = [spent EXCEPT ![Depth] = @ + 1]
  /\ CASE e.ref \notin RefsOn(path) /\ e.out = Ada /\ Len(path) + 1 = Depth ->
            found' = Append(found, Append(path, e)) /\ choice' = Onward /\ UNCHANGED path
       [] e.ref \notin RefsOn(path) /\ e.out \notin UnitsOn(path) /\ Len(path) + 1 < Depth ->
            path' = Append(path, e) /\ choice' = Append(Onward, 1) /\ UNCHANGED found
       [] OTHER -> choice' = Onward /\ UNCHANGED <<path, found>>

\* One iteration: the list is exhausted, a ceiling unwinds the whole walk, or
\* the edge is followed.
Visit ==
  /\ Walking
  /\ LET edges == From(Unit)
         k == Last(choice)
     IN  CASE k > Len(edges) ->
                /\ choice' = Front(choice) /\ path' = IF path = <<>> THEN <<>> ELSE Front(path)
                /\ UNCHANGED <<spent, found, truncated>>
           [] k <= Len(edges) /\ (\/ Expansions >= ceiling.expansions
                                  \/ Len(found) >= ceiling.cycles) ->
                /\ choice' = <<>> /\ path' = <<>> /\ truncated' = TRUE
                /\ UNCHANGED <<spent, found>>
           [] OTHER -> Expand(edges[k]) /\ UNCHANGED truncated
  /\ UNCHANGED <<venueVars, phase, conf, index, ceiling, sizeVars, ranked>>

\* Stop requested or out of time: what has been sized so far is ranked.
Cut ==
  /\ phase \in {"cycles", "size"} /\ phase' = "rank" /\ truncated' = TRUE
  /\ UNCHANGED <<venueVars, conf, walkVars, sizeVars, ranked>>

----------------------------------------------------------------------------
(* fit_route.                                                              *)

QuoteAt(e, n) == Quote(book[e.ref], e.in, n)
NoPlan == <<>>

\* What a prefix of the way would give for s, dust and all.
PrefixOutput(cycle, n, s) ==
  FoldLeft(LAMBDA v, e : IF v = 0 THEN 0 ELSE QuoteAt(e, v).out, s, SubSeq(cycle, 1, n))

\* One hop on, unless it is refused or does not take exactly what the one
\* before it gives.
Hop(way, given, q) ==
  CASE way.end # "open" -> way
    [] way.end = "open" /\ q = NoQuote -> [way EXCEPT !.end = "refused"]
    [] way.end = "open" /\ q # NoQuote /\ way.hops # <<>> /\ q.in # given ->
         [way EXCEPT !.end = "dust", !.pay = q.in]
    [] OTHER -> [way EXCEPT !.hops = Append(@, q)]

\* The way forward with s.
Forward(cycle, s) ==
  FoldLeft(LAMBDA way, e :
             LET given == IF way.hops = <<>> THEN s ELSE Last(way.hops).out
             IN  Hop(way, given, QuoteAt(e, given)),
           [hops |-> <<>>, end |-> "open", pay |-> 0], cycle)

\* Slip: the search ends one too low.
ReducedTooFar(cycle, n, s, pay) ==
  Max({0} \cup {m \in 0..(s - 1) : PrefixOutput(cycle, n, m) < pay})

\* The largest smaller seed whose prefix gives no more than the payment, by
\* bisection.
Reduced(cycle, n, s, pay) ==
  LET between[low \in 0..s, high \in 0..s] ==
        IF low >= high THEN low
        ELSE LET mid == (low + high + 1) \div 2
             IN  IF PrefixOutput(cycle, n, mid) <= pay
                 THEN between[mid, high] ELSE between[low, mid - 1]
  IN  between[0, s - 1]

Retry(cycle, s, way) == Reduced(cycle, Len(way.hops), s, way.pay)

Fit(cycle, first, attempts) ==
  LET try[s \in 0..first, used \in 0..attempts] ==
        IF s = 0 \/ used = attempts THEN [hops |-> NoPlan, used |-> used]
        ELSE LET way == Forward(cycle, s) IN
             CASE way.end = "open" -> [hops |-> way.hops, used |-> used + 1]
               [] way.end = "refused" -> [hops |-> NoPlan, used |-> used + 1]
               [] OTHER -> try[Retry(cycle, s, way), used + 1]
  IN  try[first, 0]

----------------------------------------------------------------------------
(* search_routes: sizes.                                                   *)

\* What the first order of a cycle can take at all.
MostTaken(e) ==
  LET o == book[e.ref]
  IN  IF o.venue = "swaps-v1"
      THEN Least(MaxTrade, CeilDiv(Capacity(o, e.out) * o.price[e.out].num, o.price[e.out].den))
      ELSE MaxTrade

\* A grid of seeds, one, and what the first order can take; the largest first.
Seeds(cycle) ==
  InOrder({Most(1, (MaxTrade * n) \div Grid) : n \in 1..Grid} \cup {1, MostTaken(cycle[1])},
               LAMBDA m, n : m > n)

Venue(e) == book[e.ref].venue

\* What the last hop gives above what the first takes, without fixed fees.
Gain(hops) == Last(hops).out - hops[1].in - FoldLeft(LAMBDA n, q : n + q.fee, 0, hops)

\* Hops of one script; Splash alone has several.
Script(e) == <<Venue(e), IF Venue(e) = "splash" THEN book[e.ref].script ELSE 0>>

\* A script that serves several hops is paid for once.
EstimatedFee(cycle) ==
  FeeBase
  + MapThenSumSet(LAMBDA s : Shared[s[1]], {Script(cycle[k]) : k \in 1..Len(cycle)})
  + FoldLeft(LAMBDA n, e : n + Marginal[Venue(e)], 0, cycle)

\* A plan that gains enough, with the net that ranks it; its cycle and the
\* amounts of its hops are its identity.
Planned(cycle, hops) ==
  IF hops = NoPlan THEN {}
  ELSE IF Gain(hops) < MinProfit THEN {}
  ELSE {[cycle |-> cycle, hops |-> hops, net |-> Gain(hops) - EstimatedFee(cycle)]}

Size ==
  /\ phase = "size" /\ nth <= Len(found)
  /\ LET cycle == found[nth]
         seeds == Seeds(cycle)
     IN  IF seed > Len(seeds) \/ remaining = 0
         THEN nth' = nth + 1 /\ seed' = 1 /\ remaining' = conf.attempts /\ UNCHANGED plans
         ELSE LET f == Fit(cycle, seeds[seed], remaining)
              IN  /\ seed' = seed + 1 /\ remaining' = remaining - f.used
                  /\ plans' = plans \cup Planned(cycle, f.hops)
                  /\ UNCHANGED nth
  /\ UNCHANGED <<venueVars, phase, conf, walkVars, truncated, ranked>>

Sized ==
  /\ phase = "size" /\ nth > Len(found) /\ phase' = "rank"
  /\ UNCHANGED <<venueVars, conf, walkVars, truncated, sizeVars, ranked>>

----------------------------------------------------------------------------
(* search_routes: ranking.                                                 *)

\* What is left of a tie (by the hash of the route) is an arbitrary fixed order.
Better(p, q) == p.net > q.net \/ (p.net = q.net /\ Len(p.hops) < Len(q.hops))

\* The best plan of every cycle comes before the variants of any.
Rank ==
  /\ phase = "rank" /\ phase' = "done"
  /\ LET ordered == InOrder(plans, Better)
         best == {k \in 1..Len(ordered) : \A j \in 1..(k - 1) : ordered[j].cycle # ordered[k].cycle}
         pick(S) == LET at == InOrder(S, LAMBDA i, j : i < j)
                    IN  [n \in 1..Len(at) |-> ordered[at[n]]]
     IN  ranked' = pick(best) \o pick((1..Len(ordered)) \ best)
  /\ UNCHANGED <<venueVars, conf, walkVars, truncated, sizeVars>>

----------------------------------------------------------------------------
Init == VenuesInit /\ SearchInit

Next ==
  \/ phase = "market" /\ Market /\ UNCHANGED searchVars
  \/ Begin \/ NextDepth \/ Visit \/ Cut \/ Size \/ Sized \/ Rank

Spec == Init /\ [][Next]_vars

----------------------------------------------------------------------------
(* Properties.                                                             *)

\* contribute_direct fills for the amount a route was quoted at, not for the
\* budget that the quote was asked with: it finds the same amounts and the
\* same fee, unless the order would be left without its minimum ADA.  So a
\* route that closes when it is searched closes when it is built.
QuoteSurvivesConstruction ==
  phase = "market" =>
    \A r \in {s \in Refs : book[s] # Gone /\ Recognised(book[s])} : \A unit \in Sides(book[r]), n \in 1..MaxBudget :
      LET o == book[r]
          q == Quote(o, unit, n)
          f == Fill(o, unit, q.in)
      IN  q # NoQuote =>
            \/ f # NoFill /\ [in |-> f.in, out |-> f.out, fee |-> FixedFee(o, unit, f)] = q
            \/ f = NoFill /\ o.assets[Ada] - q.out < MinAda /\ Other(o, unit) = Ada

\* Reference: closed ways from ADA to ADA over distinct outputs and units.
AllCycles(d) ==
  {c \in [1..d -> Edges] :
     /\ c[1].in = Ada /\ c[d].out = Ada
     /\ \A k \in 1..(d - 1) : c[k].out = c[k + 1].in /\ c[k].out # Ada
     /\ \A j, k \in 1..d : j # k => c[j].ref # c[k].ref /\ c[j].out # c[k].out}

\* Everything found is a cycle and found once; unless the search says that it
\* was truncated, it has found them all.
SearchIsExhaustive ==
  phase = "done" =>
    LET all == UNION {AllCycles(d) : d \in 2..Least(MaxHops, Cardinality(Assets))}
        got == {found[k] : k \in 1..Len(found)}
    IN  /\ got \subseteq all /\ Cardinality(got) = Len(found)
        /\ ~ truncated => got = all

\* Reference: what n gives when every hop takes exactly what the one before
\* it gives, or 0.
Exactly(cycle, n) ==
  FoldLeft(LAMBDA v, e : IF v > 0 /\ QuoteAt(e, v).in = v THEN QuoteAt(e, v).out ELSE 0, n, cycle)

Largest(f, closing, attempts) ==
  IF f.hops = NoPlan THEN closing = {} \/ f.used = attempts
  ELSE f.hops[1].in = Max(closing)

\* Reducing a seed never skips a size: the plan fitted below a seed is the
\* largest that closes without a remainder, and if there is none the budget of
\* attempts was used up.
FitIsMaximal ==
  phase = "size" /\ nth <= Len(found) /\ seed <= Len(Seeds(found[nth])) /\ remaining > 0 =>
    LET cycle == found[nth]
        s == Seeds(cycle)[seed]
    IN  Largest(Fit(cycle, s, remaining), {n \in 1..s : Exactly(cycle, n) > 0}, remaining)

\* Neither long ways nor variants of one way crowd out the others.  A length
\* that is not complete had its part of the expansions or of the cycles; and of
\* the plans that will be built, no other is estimated to net more, unless one
\* of the same cycle that nets as much is among them.
BudgetsAreShared ==
  /\ phase = "size" =>
       \A k \in 1..Len(Depths) :
         LET d == Depths[k]
             got == {n \in 1..Len(found) : Len(found[n]) = d}
         IN  \/ spent[d] >= conf.expansions \div Len(Depths)
             \/ Cardinality(got) >= conf.cycles \div Len(Depths)
             \/ AllCycles(d) = {found[n] : n \in got}
  /\ phase = "done" =>
       LET listed == SubSeq(ranked, 1, Least(MaxEvaluations, Len(ranked)))
           of(c) == {k \in 1..Len(listed) : listed[k].cycle = c}
       IN  /\ Len(ranked) = Cardinality(plans)
           /\ \A p \in plans : \A k \in 1..Len(listed) :
                \/ listed[k].net >= p.net
                \/ \E j \in of(p.cycle) : listed[j].net >= p.net
           /\ \A p \in plans : of(p.cycle) = {} =>
                \A k \in 1..Len(listed) : Cardinality(of(listed[k].cycle)) = 1
=============================================================================
