------------------------- MODULE ConstructionProofs -------------------------
(***************************************************************************)
(* Theorems about Construction: the sizes that the engine chooses pass the *)
(* inspection, what is signed is bounded, books and wallet stay within the *)
(* drawdown limit, and outputs keep their roles, for every wallet,         *)
(* percentage, limit, fee and route.                                       *)
(***************************************************************************)
EXTENDS Construction, FiniteSetTheorems, WellFoundedInduction, TLAPS

\* Values of the variables.
Drafts ==
  [stage : {"built", "signed"}, action : {"trade", "allocate"}, rows : SUBSET Slots,
   funding : Int, collateral : Int, net : Int, kept : Int, reserve : Int,
   maxFee : Int, maxLoss : Int, low : Int, high : Int, fee : Int, change : Int,
   total : Int, ret : Int, extra : SUBSET Slots, more : Int]

TypeOK ==
  /\ wallet \in [Slots -> Rows]
  /\ draft \in Drafts \cup {None}
  /\ earned \in Int /\ peak \in Int

\* What a draft was given before it was balanced.
TradeAsked ==
  draft.action = "trade" =>
    /\ draft.collateral = CollateralAda /\ draft.reserve = 0
    /\ draft.maxLoss = Least(Exposure, Headroom)
    /\ draft.low = MinProfit /\ draft.high = draft.net
    /\ draft.maxFee <= draft.net - MinProfit
    /\ draft.kept = 0 \/ draft.kept >= MinAda

AllocationAsked ==
  draft.action = "allocate" =>
    /\ draft.collateral = 0 /\ draft.net = 0 /\ draft.maxLoss = 0
    /\ draft.kept = Target /\ draft.reserve \in {0, CollateralAda}
    /\ draft.maxFee = MaxMaintenance /\ draft.low = - MaxMaintenance /\ draft.high = 0
    /\ draft.total = Absent /\ draft.ret = Absent

\* What balancing does, whatever it decides.
Balances ==
  /\ draft.fee \in 0 .. draft.maxFee
  /\ draft.change >= MinAda
  /\ draft.change =
       draft.funding + draft.more + draft.net - draft.kept - draft.reserve - draft.fee
  /\ draft.extra = {} => draft.more = 0
  /\ draft.total <= draft.maxLoss
  /\ draft.ret # Absent => draft.ret = draft.collateral - draft.total

SignedIsInspected ==
  draft.stage = "signed" => Inspected(draft) /\ CandidateLoss(draft) <= Headroom

IInv ==
  /\ TypeOK
  /\ BooksWithinDrawdown
  /\ draft # None => TradeAsked /\ AllocationAsked /\ Balances /\ SignedIsInspected

----------------------------------------------------------------------------
(* Arithmetic.                                                             *)

\* Division rounds down.
LEMMA Floor ==
  ASSUME NEW n \in Int, NEW d \in Int, d > 0
  PROVE  /\ n \div d \in Int
         /\ (n \div d) * d <= n
  BY SMT

\* Division that rounds up reaches the value, and not more than it must.
LEMMA Ceiling ==
  ASSUME NEW n \in Int, NEW e \in Int
  PROVE  /\ CeilDiv(n, 100) \in Int
         /\ CeilDiv(n, 100) * 100 >= n
         /\ n <= e * 100 => CeilDiv(n, 100) <= e
  BY SMT DEF CeilDiv

\* A product keeps the order of its factors.
LEMMA Monotone ==
  ASSUME NEW a \in Int, NEW b \in Int, NEW p \in Int, p > 0, a <= b
  PROVE  a * p \in Int /\ a * p <= b * p
  BY SMT

\* The collateral of a fee that exposure e allows is within e.
LEMMA CeilingFits ==
  ASSUME NEW e \in Int, NEW l \in Int, l <= (e * 100) \div Percent
  PROVE  Sized(l) \in Int /\ Sized(l) <= e
<1>1. Percent \in Int /\ Percent > 0
  BY ConstructionAssumption
<1>2. (e * 100) \div Percent \in Int /\ ((e * 100) \div Percent) * Percent <= e * 100
  BY <1>1, Floor
<1>3. l * Percent \in Int /\ l * Percent <= ((e * 100) \div Percent) * Percent
  BY <1>1, <1>2, Monotone
<1>4. ((e * 100) \div Percent) * Percent \in Int
  BY <1>1, <1>2
<1>5. l * Percent <= e * 100
  BY <1>2, <1>3, <1>4
<1> QED
  BY <1>3, <1>5, Ceiling DEF Sized

\* The collateral of a ceiling pays for every fee below it.
LEMMA CeilingPays ==
  ASSUME NEW l \in Int, NEW fee \in Int, fee <= l
  PROVE  Sized(l) \in Int /\ Sized(l) * 100 >= fee * Percent
<1>1. Percent \in Int /\ Percent > 0
  BY ConstructionAssumption
<1>2. fee * Percent \in Int /\ fee * Percent <= l * Percent
  BY <1>1, Monotone
<1>3. l * Percent \in Int
  BY <1>1
<1>4. Sized(l) \in Int /\ Sized(l) * 100 >= l * Percent
  BY <1>3, Ceiling DEF Sized
<1> QED
  BY <1>2, <1>3, <1>4

----------------------------------------------------------------------------
(* Sizes.                                                                  *)

\* The limits and minima are numbers, as configured.
LEMMA ConstantTypes ==
  /\ Percent \in Int /\ MinAda \in Int /\ MaxFunding \in Int /\ CollateralAda \in Int
  /\ Target \in Int /\ MinProfit \in Int /\ MaxMaintenance \in Int /\ MaxDrawdown \in Int
  /\ Percent > 0 /\ MinAda > 0 /\ CollateralAda > 0 /\ MinProfit > 0 /\ MaxMaintenance > 0
  /\ MaxDrawdown > 0 /\ MinAda <= Target /\ MinAda <= CollateralAda
  BY ConstructionAssumption, RolesAssumption

\* FeeLimit is the least allowance.
LEMMA LimitIsLeast ==
  ASSUME NEW net \in Int, Headroom \in Int
  PROVE  /\ FeeLimit(net) \in Int
         /\ FeeLimit(net) <= net - MinProfit
         /\ FeeLimit(net) <= (Exposure * 100) \div Percent
         /\ FeeLimit(net) <= (Headroom * 100) \div Percent
<1> DEFINE a == net - MinProfit
           b == (Exposure * 100) \div Percent
           c == (Headroom * 100) \div Percent
<1>1. Exposure \in Int
  BY ConstantTypes DEF Exposure
<1>2. a \in Int /\ b \in Int /\ c \in Int
  BY <1>1, ConstantTypes, Floor
<1>3. Allowances(net) = {a, b, c} \cup FeeCaps
  BY DEF Allowances
<1>4. FeeCaps \subseteq Int /\ \A x, y \in FeeCaps : x = y
  BY ConstructionAssumption
<1> HIDE DEF a, b, c
<1>5. \E m \in {a, b, c} : m <= a /\ m <= b /\ m <= c
  BY <1>2
<1>6. \E l \in Allowances(net) : \A n \in Allowances(net) : l <= n
  <2>1. PICK m \in {a, b, c} : m <= a /\ m <= b /\ m <= c
    BY <1>5
  <2>2. CASE FeeCaps = {}
    BY <1>3, <2>1, <2>2
  <2>3. CASE FeeCaps # {}
    <3>1. PICK f \in FeeCaps : TRUE
      BY <2>3
    <3>2. FeeCaps = {f} /\ f \in Int
      BY <1>4, <3>1
    <3>3. CASE f <= m
      BY <1>2, <1>3, <2>1, <3>2, <3>3
    <3>4. CASE ~ (f <= m)
      BY <1>2, <1>3, <2>1, <3>2, <3>4
    <3> QED
      BY <3>3, <3>4
  <2> QED
    BY <2>2, <2>3
<1>7. FeeLimit(net) \in Allowances(net) /\ \A n \in Allowances(net) : FeeLimit(net) <= n
  BY <1>6 DEF FeeLimit
<1>8. FeeLimit(net) \in Int /\ FeeLimit(net) <= a /\ FeeLimit(net) <= b /\ FeeLimit(net) <= c
  BY <1>2, <1>3, <1>4, <1>7
<1> QED
  BY <1>8 DEF a, b, c

\* The collateral of the fee limit fits what may be lost.
LEMMA LimitFits ==
  ASSUME NEW net \in Int, Headroom \in Int
  PROVE  Sized(FeeLimit(net)) \in Int /\ Sized(FeeLimit(net)) <= Least(Exposure, Headroom)
<1>1. Exposure \in Int
  BY ConstantTypes DEF Exposure
<1>2. Sized(FeeLimit(net)) \in Int /\ Sized(FeeLimit(net)) <= Exposure
  BY <1>1, LimitIsLeast, CeilingFits
<1>3. Sized(FeeLimit(net)) <= Headroom
  BY LimitIsLeast, CeilingFits
<1> QED
  BY <1>1, <1>2, <1>3 DEF Least

\* What a trade keeps is nothing or can exist.
LEMMA KeptExists ==
  ASSUME NEW funding \in Int, NEW net \in Int, NEW limit \in Int, NEW k \in Kept(funding, net, limit)
  PROVE  k \in Int /\ (k = 0 \/ k >= MinAda)
  BY ConstantTypes DEF Kept, Most

\* A balanced body is the draft it was made from but for what the balancer
\* decides.
LEMMA BalancedDraft ==
  ASSUME wallet \in [Slots -> Rows], NEW a \in Drafts, NEW b \in Balanced(a)
  PROVE  /\ b \in Drafts /\ b.fee \in Fees
         /\ b.stage = a.stage /\ b.action = a.action /\ b.rows = a.rows /\ b.funding = a.funding
         /\ b.collateral = a.collateral /\ b.net = a.net /\ b.kept = a.kept
         /\ b.reserve = a.reserve /\ b.maxFee = a.maxFee /\ b.maxLoss = a.maxLoss
         /\ b.low = a.low /\ b.high = a.high
         /\ b.change = a.funding + b.more + a.net - a.kept - a.reserve - b.fee
         /\ b.extra = {} => b.more = 0
         /\ ~ (a.collateral > 0) => b.total = Absent /\ b.ret = Absent
         /\ b.ret # Absent => b.ret = a.collateral - b.total
<1> DEFINE Rest == IF a.collateral > 0 THEN Fields(a.maxFee, a.collateral) ELSE {Unset}
<1>1. PICK fee \in Fees, f \in Rest, x \in Strays(a) : b = Body(a, fee, f, x)
  <2> HIDE DEF Rest
  <2>1. b \in {Body(a, fee, f, x) : fee \in Fees, f \in Rest, x \in Strays(a)}
    BY DEF Balanced, Rest
  <2> QED
    BY <2>1
<1>2. fee \in Int
  BY ConstructionAssumption
<1>3. x.rows \subseteq Slots /\ x.ada \in Int /\ (x.rows = {} => x.ada = 0)
  BY DEF Strays, Nothing, Live, Rows
<1>4. f.total \in Int /\ f.ret \in Int /\ (~ (a.collateral > 0) => f.total = Absent /\ f.ret = Absent)
      /\ (f.ret # Absent => f.ret = a.collateral - f.total)
  <2>1. CASE a.collateral > 0
    <3>1. Sized(a.maxFee) \in Int
      BY CeilingPays DEF Drafts
    <3>2. Totals \subseteq Int /\ Absent \in Int /\ a.collateral \in Int
      BY ConstructionAssumption DEF Absent, Drafts
    <3> QED
      BY <2>1, <3>1, <3>2 DEF Fields
  <2>2. CASE ~ (a.collateral > 0)
    BY <2>2 DEF Unset, Absent
  <2> QED
    BY <2>1, <2>2
<1>5. a.funding + x.ada + a.net - a.kept - a.reserve - fee \in Int
  BY <1>2, <1>3 DEF Drafts
<1>6. b \in Drafts
  BY <1>1, <1>2, <1>3, <1>4, <1>5 DEF Body, Drafts
<1>7. /\ b.fee = fee /\ b.total = f.total /\ b.ret = f.ret
      /\ b.extra = x.rows /\ b.more = x.ada
      /\ b.change = a.funding + x.ada + a.net - a.kept - a.reserve - fee
      /\ b.stage = a.stage /\ b.action = a.action /\ b.rows = a.rows /\ b.funding = a.funding
      /\ b.collateral = a.collateral /\ b.net = a.net /\ b.kept = a.kept
      /\ b.reserve = a.reserve /\ b.maxFee = a.maxFee /\ b.maxLoss = a.maxLoss
      /\ b.low = a.low /\ b.high = a.high
  BY <1>1 DEF Body, Drafts
<1> QED
  BY <1>3, <1>4, <1>6, <1>7

----------------------------------------------------------------------------
(* The invariant.                                                          *)

\* What the books allow is a number.
LEMMA BooksTypes ==
  ASSUME TypeOK
  PROVE  Headroom \in Int /\ Exposure \in Int /\ Least(Exposure, Headroom) \in Int
  BY ConstantTypes DEF TypeOK, Headroom, Loss, Exposure, Least

\* Books and wallet stay, the draft does not become signed: what a built draft
\* has to show.
LEMMA BuiltInvariant ==
  ASSUME IInv, wallet' = wallet, earned' = earned, peak' = peak,
         NEW a \in Drafts, draft' \in Built(a), a.stage = "built",
         \/ /\ a.action = "trade" /\ a.collateral = CollateralAda /\ a.reserve = 0
            /\ a.maxLoss = Least(Exposure, Headroom)
            /\ a.low = MinProfit /\ a.high = a.net
            /\ a.maxFee <= a.net - MinProfit
            /\ a.kept = 0 \/ a.kept >= MinAda
         \/ /\ a.action = "allocate" /\ a.collateral = 0 /\ a.net = 0 /\ a.maxLoss = 0
            /\ a.kept = Target /\ a.reserve \in {0, CollateralAda}
            /\ a.maxFee = MaxMaintenance /\ a.low = - MaxMaintenance /\ a.high = 0
  PROVE  IInv'
<1>1. Headroom' = Headroom
  BY DEF Headroom, Loss
<1>2. draft' \in Balanced(a) /\ draft'.fee <= draft'.maxFee
      /\ draft'.total <= draft'.maxLoss /\ draft'.change >= MinAda
  BY DEF Built
<1>3. /\ draft' \in Drafts /\ draft'.fee \in Fees
      /\ draft'.stage = "built" /\ draft'.action = a.action /\ draft'.funding = a.funding
      /\ draft'.collateral = a.collateral /\ draft'.net = a.net /\ draft'.kept = a.kept
      /\ draft'.reserve = a.reserve /\ draft'.maxFee = a.maxFee /\ draft'.maxLoss = a.maxLoss
      /\ draft'.low = a.low /\ draft'.high = a.high
      /\ draft'.change = a.funding + draft'.more + a.net - a.kept - a.reserve - draft'.fee
      /\ draft'.extra = {} => draft'.more = 0
      /\ ~ (a.collateral > 0) => draft'.total = Absent /\ draft'.ret = Absent
      /\ draft'.ret # Absent => draft'.ret = a.collateral - draft'.total
  BY <1>2, BalancedDraft DEF IInv, TypeOK
<1>4. draft'.fee \in Nat
  BY <1>3, ConstructionAssumption
<1>5. Balances'
  BY <1>2, <1>3, <1>4 DEF Balances, Drafts
<1>6. SignedIsInspected'
  BY <1>3 DEF SignedIsInspected
<1>7. TradeAsked'
  BY <1>1, <1>3 DEF TradeAsked, Exposure
<1>8. AllocationAsked'
  BY <1>3 DEF AllocationAsked
<1>9. TypeOK' /\ BooksWithinDrawdown'
  BY <1>3 DEF IInv, TypeOK, BooksWithinDrawdown
<1> QED
  BY <1>5, <1>6, <1>7, <1>8, <1>9 DEF IInv

\* The empty draft is a draft.
LEMMA BlankTyped == Blank \in Drafts
  BY DEF Blank, Drafts, Absent

\* An allocation is built.
LEMMA AllocationInvariant ==
  ASSUME IInv, BuildAllocation
  PROVE  IInv'
<1>1. PICK i \in Source :
        draft' \in Built([Blank EXCEPT !.action = "allocate", !.rows = {i}, !.funding = wallet[i].ada,
                            !.kept = Target, !.reserve = Reserve, !.maxFee = MaxMaintenance,
                            !.low = - MaxMaintenance])
  BY DEF BuildAllocation
<1> DEFINE a == [Blank EXCEPT !.action = "allocate", !.rows = {i}, !.funding = wallet[i].ada,
                   !.kept = Target, !.reserve = Reserve, !.maxFee = MaxMaintenance,
                   !.low = - MaxMaintenance]
<1>2. i \in Slots /\ wallet[i].ada \in Int
  BY DEF Source, Sufficient, Sources, Operating, Protected, Live, IInv, TypeOK, Rows
<1>3. Reserve \in {0, CollateralAda}
  BY DEF Reserve
<1>4. a \in Drafts
  <2>1. Reserve \in Int /\ - MaxMaintenance \in Int /\ {i} \subseteq Slots
    BY <1>2, <1>3, ConstantTypes
  <2> QED
    BY <1>2, <2>1, BlankTyped, ConstantTypes DEF Drafts
<1>5. /\ a.stage = "built" /\ a.action = "allocate" /\ a.collateral = 0 /\ a.net = 0
      /\ a.maxLoss = 0 /\ a.kept = Target /\ a.reserve = Reserve
      /\ a.maxFee = MaxMaintenance /\ a.low = - MaxMaintenance /\ a.high = 0
  BY DEF Blank
<1>6. draft' \in Built(a) /\ wallet' = wallet /\ earned' = earned /\ peak' = peak
  BY <1>1 DEF BuildAllocation
<1> HIDE DEF a
<1> QED
  BY <1>3, <1>4, <1>5, <1>6, BuiltInvariant

\* A route is built.
LEMMA RouteInvariant ==
  ASSUME IInv, NEW net \in Nets, BuildRoute(net)
  PROVE  IInv'
<1> DEFINE limit == FeeLimit(net)
           required == Most(1, limit + MinAda - net)
           a(c, funding, kept) ==
             [Blank EXCEPT !.rows = Selected(required), !.funding = funding,
                !.collateral = wallet[c].ada, !.net = net, !.kept = kept,
                !.maxFee = limit, !.maxLoss = Least(Exposure, Headroom),
                !.low = MinProfit, !.high = net]
<1>1. PICK c \in Collateral, funding \in 0 .. MaxFunding : \E kept \in Kept(funding, net, limit) :
        draft' \in Built(a(c, funding, kept))
  BY DEF BuildRoute
<1>2. PICK kept \in Kept(funding, net, limit) : draft' \in Built(a(c, funding, kept))
  BY <1>1
<1>3. net \in Int /\ Headroom \in Int /\ Least(Exposure, Headroom) \in Int
  BY BooksTypes, ConstructionAssumption DEF IInv
<1>4. limit \in Int /\ limit <= net - MinProfit
  BY <1>3, LimitIsLeast
<1>5. funding \in Int
  BY ConstantTypes
<1>6. kept \in Int /\ (kept = 0 \/ kept >= MinAda)
  <2> HIDE DEF limit
  <2> QED
    BY <1>3, <1>4, <1>5, KeptExists
<1>7. c \in Slots /\ wallet[c].ada = CollateralAda
  BY DEF Collateral, Dedicated, Live
<1>8. Selected(required) \subseteq Slots
  BY DEF Selected, Operating, Live
<1>9. a(c, funding, kept) \in Drafts
  <2> HIDE DEF limit, required
  <2> QED
    BY <1>3, <1>4, <1>5, <1>6, <1>7, <1>8, BlankTyped, ConstantTypes DEF Drafts
<1>10. LET d == a(c, funding, kept)
       IN  /\ d.stage = "built" /\ d.action = "trade" /\ d.collateral = CollateralAda /\ d.reserve = 0
           /\ d.maxLoss = Least(Exposure, Headroom) /\ d.low = MinProfit /\ d.high = d.net
           /\ d.maxFee = limit /\ d.net = net /\ d.kept = kept
  <2> HIDE DEF limit, required
  <2> QED
    BY <1>7 DEF Blank
<1>11. wallet' = wallet /\ earned' = earned /\ peak' = peak
  BY DEF BuildRoute
<1>12. a(c, funding, kept).maxFee <= a(c, funding, kept).net - MinProfit
  BY <1>4, <1>10
<1> HIDE DEF a
<1> QED
  BY <1>2, <1>6, <1>9, <1>10, <1>11, <1>12, BuiltInvariant

\* A draft that passed the inspection is signed.
LEMMA SignInvariant ==
  ASSUME IInv, Sign
  PROVE  IInv'
<1>1. /\ draft.stage = "built" /\ draft # None /\ draft \in Drafts
      /\ draft' = [draft EXCEPT !.stage = "signed"]
      /\ wallet' = wallet /\ earned' = earned /\ peak' = peak
  BY DEF Sign, None, IInv, TypeOK
<1>2. /\ draft' \in Drafts /\ draft'.stage = "signed" /\ draft'.action = draft.action
      /\ draft'.funding = draft.funding /\ draft'.collateral = draft.collateral
      /\ draft'.net = draft.net /\ draft'.kept = draft.kept /\ draft'.reserve = draft.reserve
      /\ draft'.maxFee = draft.maxFee /\ draft'.maxLoss = draft.maxLoss
      /\ draft'.low = draft.low /\ draft'.high = draft.high /\ draft'.fee = draft.fee
      /\ draft'.change = draft.change /\ draft'.total = draft.total /\ draft'.ret = draft.ret
      /\ draft'.extra = draft.extra /\ draft'.more = draft.more
  BY <1>1 DEF Drafts
<1>3. Headroom' = Headroom
  BY <1>1 DEF Headroom, Loss
<1>4. TypeOK' /\ BooksWithinDrawdown'
  BY <1>1, <1>2 DEF IInv, TypeOK, BooksWithinDrawdown
<1>5. TradeAsked' /\ AllocationAsked' /\ Balances'
  BY <1>1, <1>2, <1>3 DEF IInv, TradeAsked, AllocationAsked, Balances, Exposure
<1>6. Inspected(draft') /\ CandidateLoss(draft') <= Headroom'
  BY <1>1, <1>2, <1>3 DEF Sign, Inspected, CollateralInOrder, Delta, CandidateLoss, CollateralLoss
<1> QED
  BY <1>4, <1>5, <1>6 DEF IInv, SignedIsInspected

\* A wallet with one more output is a wallet.
LEMMA PutTyped ==
  ASSUME NEW w \in [Slots -> Rows], NEW ada \in Nat, NEW kind \in Kinds
  PROVE  Put(w, ada, kind) \in [Slots -> Rows]
<1>1. [ada |-> ada, kind |-> kind] \in Rows
  BY DEF Rows
<1>2. [w EXCEPT ![FirstFree(w)] = [ada |-> ada, kind |-> kind]] \in [Slots -> Rows]
  <2> DEFINE k == FirstFree(w)
  <2> HIDE DEF k
  <2>1. [w EXCEPT ![k] = [ada |-> ada, kind |-> kind]] \in [Slots -> Rows]
    BY <1>1
  <2> QED
    BY <2>1 DEF k
<1> QED
  BY <1>2 DEF Put

\* A wallet without some outputs is a wallet.
LEMMA WithoutTyped ==
  ASSUME NEW w \in [Slots -> Rows], NEW ids
  PROVE  Without(w, ids) \in [Slots -> Rows]
  BY DEF Without, Empty, Rows, Kinds

\* The books stand a result that is no worse than the headroom.
LEMMA Booked ==
  ASSUME TypeOK, BooksWithinDrawdown, NEW result \in Int, - result <= Headroom, Book(result)
  PROVE  BooksWithinDrawdown' /\ earned' \in Int /\ peak' \in Int
  BY ConstantTypes DEF TypeOK, BooksWithinDrawdown, Book, Headroom, Loss, Most

\* A signed draft is confirmed: wallet and books take its result.
LEMMA ConfirmInvariant ==
  ASSUME IInv, Confirm
  PROVE  IInv'
<1>1. draft.stage = "signed" /\ draft # None /\ draft \in Drafts
  BY DEF Confirm, None, IInv, TypeOK
<1>2. Inspected(draft) /\ CandidateLoss(draft) <= Headroom
  BY <1>1 DEF IInv, SignedIsInspected
<1>3. draft.kept \in Nat /\ draft.reserve \in Nat /\ draft.change \in Nat
  BY <1>1, <1>2, ConstantTypes DEF Inspected, Drafts
<1>4. wallet' \in [Slots -> Rows]
  BY <1>3, WithoutTyped, PutTyped DEF Confirm, IInv, TypeOK, Kinds
<1>5. Delta(draft) \in Int
  BY <1>1 DEF Delta, Drafts
<1>6. Headroom \in Int /\ Headroom >= 0
  BY BooksTypes, ConstantTypes DEF IInv, TypeOK, BooksWithinDrawdown, Headroom, Loss
<1>7. - Delta(draft) <= Headroom
  <2>1. CASE draft.action = "trade"
    <3>1. Delta(draft) >= MinProfit
      BY <1>1, <1>2, <1>5, <2>1, ConstantTypes DEF IInv, TradeAsked, Inspected, Drafts
    <3> QED
      BY <1>5, <1>6, <3>1, ConstantTypes
  <2>2. CASE draft.action = "allocate"
    <3>1. draft.collateral = 0 /\ draft.net = 0 /\ draft.more = 0
      BY <1>1, <1>2, <2>2 DEF IInv, AllocationAsked, Balances, Inspected
    <3>2. Delta(draft) = - draft.fee
      BY <1>1, <1>2, <3>1 DEF Delta, Inspected, Drafts
    <3>3. CandidateLoss(draft) = draft.fee
      BY <3>1 DEF CandidateLoss
    <3> QED
      BY <1>1, <1>2, <3>2, <3>3 DEF Drafts
  <2> QED
    BY <1>1, <2>1, <2>2 DEF Drafts
<1>8. BooksWithinDrawdown' /\ earned' \in Int /\ peak' \in Int
  BY <1>5, <1>7, Booked DEF Confirm, IInv
<1>9. draft' = None
  BY DEF Confirm
<1> QED
  BY <1>4, <1>8, <1>9 DEF IInv, TypeOK

\* A signed draft fails: wallet and books lose its collateral.
LEMMA FailInvariant ==
  ASSUME IInv, Fail
  PROVE  IInv'
<1>1. draft.stage = "signed" /\ draft # None /\ draft \in Drafts /\ draft.collateral > 0
  BY DEF Fail, None, IInv, TypeOK
<1>2. CollateralInOrder(draft) /\ CandidateLoss(draft) <= Headroom
  BY <1>1 DEF IInv, SignedIsInspected, Inspected
<1>3. draft.collateral - Taken(draft) \in Nat
  BY <1>1, <1>2, ConstantTypes DEF CollateralInOrder, Taken, Drafts
<1>4. wallet' \in [Slots -> Rows]
  BY <1>3, WithoutTyped, PutTyped DEF Fail, IInv, TypeOK, Kinds
<1>5. CollateralLoss(draft) \in Int /\ CollateralLoss(draft) <= Headroom
  BY <1>1, <1>2 DEF CandidateLoss, CollateralLoss, Drafts
<1>6. Headroom \in Int
  BY BooksTypes DEF IInv
<1>7. - CollateralLoss(draft) \in Int /\ - (- CollateralLoss(draft)) <= Headroom
  BY <1>5, <1>6
<1>8. BooksWithinDrawdown' /\ earned' \in Int /\ peak' \in Int
  BY <1>7, Booked DEF Fail, IInv
<1>9. draft' = None
  BY DEF Fail
<1> QED
  BY <1>4, <1>8, <1>9 DEF IInv, TypeOK

\* The sizes a draft was asked with, what the balancer decided and the books
\* stay consistent, in every reachable state.
THEOREM Invariant == Spec => []IInv
<1>1. Init => IInv
  <2> SUFFICES ASSUME Init PROVE IInv
    OBVIOUS
  <2>1. TypeOK
    BY ConstructionAssumption DEF Init, TypeOK
  <2>2. BooksWithinDrawdown
    BY ConstantTypes DEF Init, BooksWithinDrawdown, Loss
  <2> QED
    BY <2>1, <2>2 DEF Init, IInv
<1>2. IInv /\ [Next]_vars => IInv'
  <2> SUFFICES ASSUME IInv, [Next]_vars PROVE IInv'
    OBVIOUS
  <2>1. CASE BuildAllocation
    BY <2>1, AllocationInvariant
  <2>2. CASE \E net \in Nets : BuildRoute(net)
    BY <2>2, RouteInvariant
  <2>3. CASE Sign
    BY <2>3, SignInvariant
  <2>4. CASE Drop
    BY <2>4 DEF Drop, IInv, TypeOK, BooksWithinDrawdown
  <2>5. CASE Confirm
    BY <2>5, ConfirmInvariant
  <2>6. CASE Fail
    BY <2>6, FailInvariant
  <2>7. CASE UNCHANGED vars
    BY <2>7 DEF vars, IInv, TypeOK, BooksWithinDrawdown, TradeAsked, AllocationAsked, Balances,
                SignedIsInspected, Inspected, CollateralInOrder, Delta, CandidateLoss,
                CollateralLoss, Headroom, Loss, Exposure
  <2> QED
    BY <2>1, <2>2, <2>3, <2>4, <2>5, <2>6, <2>7 DEF Next
<1> QED
  BY <1>1, <1>2, PTL DEF Spec

----------------------------------------------------------------------------
(* What follows from it.                                                   *)

\* The books never lose more than max_drawdown from their best result.
THEOREM DrawdownKept == Spec => []BooksWithinDrawdown
<1>1. IInv => BooksWithinDrawdown
  BY DEF IInv
<1> QED
  BY <1>1, Invariant, PTL

\* What the engine sizes passes the inspection, for every percentage,
\* exposure, headroom, fee and route.
THEOREM SizesAccepted == Spec => []BuiltIsAccepted
<1>1. IInv => BuiltIsAccepted
  <2> SUFFICES ASSUME IInv PROVE BuiltIsAccepted
    OBVIOUS
  <2>1. \A net \in Nets : FeeLimit(net) > 0 => Sized(FeeLimit(net)) <= Least(Exposure, Headroom)
    BY LimitFits, BooksTypes, ConstructionAssumption DEF IInv
  <2>2. ASSUME draft.stage = "built", draft.extra = {},
               draft.total = (IF draft.collateral > 0 THEN Sized(draft.maxFee) ELSE Absent),
               draft.ret = Absent <=> draft.collateral = 0
        PROVE  Inspected(draft)
    <3>0. Headroom \in Int /\ Exposure \in Int /\ Least(Exposure, Headroom) \in Int
      BY BooksTypes DEF IInv
    <3>1. draft \in Drafts /\ draft # None
      BY <2>2 DEF IInv, TypeOK, None
    <3>2. TradeAsked /\ AllocationAsked /\ Balances /\ draft.more = 0
      BY <2>2, <3>1 DEF IInv, Balances
    <3>3. /\ draft.fee \in 0 .. draft.maxFee /\ draft.change >= MinAda
          /\ draft.funding + draft.net = draft.kept + draft.reserve + draft.change + draft.fee
          /\ Delta(draft) = draft.net - draft.fee
      BY <3>1, <3>2, ConstantTypes DEF Balances, Delta, Drafts
    <3>4. CASE draft.action = "trade"
      <4>1. Sized(draft.maxFee) \in Int /\ Sized(draft.maxFee) * 100 >= draft.fee * Percent
        BY <3>1, <3>3, CeilingPays DEF Drafts
      <4>2. /\ draft.collateral = CollateralAda /\ draft.collateral > 0 /\ draft.reserve = 0
            /\ draft.maxLoss = Least(Exposure, Headroom)
            /\ draft.low = MinProfit /\ draft.high = draft.net
            /\ draft.maxFee <= draft.net - MinProfit
            /\ draft.kept = 0 \/ draft.kept >= MinAda
        BY <3>2, <3>4, ConstantTypes DEF TradeAsked
      <4>3. draft.total = Sized(draft.maxFee) /\ draft.ret # Absent
        BY <2>2, <4>2, ConstantTypes
      <4>4. draft.ret = draft.collateral - draft.total /\ draft.total <= draft.maxLoss
        BY <3>2, <4>3 DEF Balances
      <4>5. draft.total >= 0
        <5>1. draft.fee * Percent >= 0
          BY <3>3, ConstantTypes
        <5> HIDE DEF Sized
        <5>2. draft.fee * Percent \in Int
          BY <3>1, ConstantTypes DEF Drafts
        <5> QED
          BY <4>1, <4>3, <5>1, <5>2
      <4>6. draft.ret >= MinAda
        BY <3>0, <3>1, <4>2, <4>4, ConstantTypes DEF Exposure, Least, Drafts
      <4>7. CollateralInOrder(draft)
        <5>1. draft.total \in 0 .. draft.maxLoss
          BY <3>0, <3>1, <4>2, <4>4, <4>5 DEF Drafts
        <5>2. draft.total * 100 >= draft.fee * Percent
          BY <4>1, <4>3
        <5>3. draft.collateral - draft.ret = draft.total
          BY <3>1, <4>4 DEF Drafts
        <5> QED
          BY <4>3, <4>6, <5>1, <5>2, <5>3 DEF CollateralInOrder
      <4>8. Delta(draft) \in draft.low .. draft.high
        BY <3>1, <3>3, <4>2, ConstantTypes DEF Drafts
      <4> QED
        BY <2>2, <3>1, <3>3, <4>2, <4>7, <4>8, ConstantTypes DEF Inspected
    <3>5. CASE draft.action = "allocate"
      <4>1. /\ draft.collateral = 0 /\ draft.net = 0 /\ draft.kept = Target
            /\ draft.reserve \in {0, CollateralAda} /\ draft.maxFee = MaxMaintenance
            /\ draft.low = - MaxMaintenance /\ draft.high = 0
            /\ draft.total = Absent /\ draft.ret = Absent
        BY <3>2, <3>5 DEF AllocationAsked
      <4>2. Delta(draft) \in draft.low .. draft.high
        BY <3>1, <3>3, <4>1, ConstantTypes DEF Drafts
      <4> QED
        BY <2>2, <3>1, <3>3, <4>1, <4>2, ConstantTypes DEF Inspected
    <3> QED
      BY <3>1, <3>4, <3>5 DEF Drafts
  <2> QED
    BY <2>1, <2>2 DEF BuiltIsAccepted
<1> QED
  BY <1>1, Invariant, PTL

\* A signed trade earns the floor, a signed allocation costs the maintenance fee
\* at most, and what the ledger may take is reserved and booked in full.
THEOREM SignedBounded == Spec => []SignedIsBounded
<1>1. IInv => SignedIsBounded
  <2> SUFFICES ASSUME IInv, draft.stage = "signed"
               PROVE  /\ Delta(draft) >= IF draft.action = "trade" THEN MinProfit ELSE - MaxMaintenance
                      /\ draft.collateral > 0 => /\ Taken(draft) <= Least(Exposure, Headroom)
                                                 /\ Taken(draft) <= CandidateLoss(draft)
    BY DEF SignedIsBounded
  <2>0. Headroom \in Int /\ Exposure \in Int /\ Least(Exposure, Headroom) \in Int
    BY BooksTypes DEF IInv
  <2>1. draft \in Drafts /\ draft # None
    BY DEF IInv, TypeOK, None
  <2>2. TradeAsked /\ AllocationAsked /\ Inspected(draft)
    BY <2>1 DEF IInv, SignedIsInspected
  <2>3. Delta(draft) \in Int /\ Delta(draft) >= draft.low
    BY <2>1, <2>2 DEF Inspected, Delta, Drafts
  <2>4. CASE draft.action = "trade"
    <3>1. draft.low = MinProfit /\ draft.maxLoss = Least(Exposure, Headroom) /\ draft.collateral > 0
      BY <2>2, <2>4, ConstantTypes DEF TradeAsked
    <3>2. Taken(draft) \in 0 .. draft.maxLoss /\ (draft.total # Absent => Taken(draft) = draft.total)
      BY <2>1, <2>2, <3>1 DEF Inspected, CollateralInOrder, Taken, Drafts
    <3>3. draft.total = Absent => Taken(draft) <= draft.collateral
      BY <2>1, <2>2, <3>1, ConstantTypes DEF Inspected, CollateralInOrder, Taken, Drafts
    <3>4. CandidateLoss(draft) = IF draft.total = Absent THEN draft.collateral ELSE draft.total
      BY <3>1 DEF CandidateLoss, CollateralLoss
    <3> QED
      BY <2>0, <2>1, <2>3, <2>4, <3>1, <3>2, <3>3, <3>4 DEF Drafts
  <2>5. CASE draft.action = "allocate"
    BY <2>2, <2>3, <2>5 DEF AllocationAsked
  <2> QED
    BY <2>1, <2>4, <2>5 DEF Drafts
<1> QED
  BY <1>1, Invariant, PTL

----------------------------------------------------------------------------
(* Sums over the places.                                                   *)

\* The places are finitely many numbers.
LEMMA PlacesAre == Places \in Nat /\ IsFiniteSet(Slots) /\ Slots \subseteq Nat
<1>1. 1 \in Int /\ Places \in Nat
  BY ConstructionAssumption
<1> QED
  BY <1>1, FS_Interval DEF Slots

\* A set of natural numbers has a least one.
LEMMA LeastExists ==
  ASSUME NEW S, S \subseteq Nat, S # {}
  PROVE  \E x \in S : \A y \in S : x <= y
<1>1. PICK x \in S : \A y \in S : ~ (<<y, x>> \in OpToRel(<, Nat))
  BY NatLessThanWellFounded, WFMin
<1>2. \A y \in S : ~ (y < x)
  BY <1>1 DEF OpToRel
<1> QED BY <1>2

\* r holds the running sums of g.
Sums(g, r) ==
  /\ r \in [0..Places -> Int] /\ r[0] = 0
  /\ \A n \in Slots : r[n] = r[n - 1] + g[n]

\* Amounts have running sums, of which Sum is the last: sums up to one place
\* extend to the next.
LEMMA SumIs ==
  ASSUME NEW g \in [Slots -> Int]
  PROVE  \E r : Sums(g, r) /\ Sum(g) = r[Places]
<1> USE PlacesAre DEF Slots
<1> DEFINE Fits(n, f) == /\ f \in [0..n -> Int]
                         /\ \A h \in 0..n : f[h] = IF h = 0 THEN 0 ELSE f[h - 1] + g[h]
           Bad == {n \in 0..Places : ~ \E f : Fits(n, f)}
<1>1. Bad = {}
  <2> SUFFICES ASSUME Bad # {} PROVE FALSE
    OBVIOUS
  <2>1. PICK n \in Bad : \A m \in Bad : n <= m
    <3>1. Bad \subseteq Nat
      OBVIOUS
    <3> HIDE DEF Bad
    <3> QED BY <3>1, LeastExists
  <2>2. Fits(0, [h \in 0..0 |-> 0])
    OBVIOUS
  <2>3. n \in 0..Places /\ ~ \E f : Fits(n, f)
    BY <2>1
  <2>4. n # 0
    BY <2>2, <2>3
  <2>5. n \in 1..Places /\ n - 1 \in 0..Places
    BY <2>3, <2>4
  <2>6. n - 1 \notin Bad
    <3> HIDE DEF Bad
    <3> QED BY <2>1, <2>5
  <2>7. PICK f : Fits(n - 1, f)
    <3> HIDE DEF Fits
    <3> QED BY <2>5, <2>6
  <2> DEFINE e == [h \in 0..n |-> IF h = n THEN f[n - 1] + g[n] ELSE f[h]]
  <2>8. Fits(n, e)
    <3>1. \A h \in 0..n : e[h] = IF h = n THEN f[n - 1] + g[n] ELSE f[h]
      OBVIOUS
    <3>2. \A h \in 0..n : h # n => h \in 0..(n - 1) /\ (h # 0 => h - 1 \in 0..(n - 1) /\ h - 1 \in 0..n /\ h - 1 # n)
      BY <2>5
    <3>3. n - 1 \in 0..n /\ n - 1 # n /\ n # 0 /\ n - 1 \in 0..(n - 1) /\ g[n] \in Int
      BY <2>5
    <3>4. e \in [0..n -> Int]
      BY <2>7, <3>2, <3>3
    <3> HIDE DEF e
    <3>5. \A h \in 0..n : e[h] = IF h = 0 THEN 0 ELSE e[h - 1] + g[h]
      BY <2>7, <3>1, <3>2, <3>3
    <3> QED BY <3>4, <3>5
  <2> HIDE DEF Fits
  <2> QED BY <2>3, <2>8
<1>2. PICK f : Fits(Places, f)
  <2>1. Places \in 0..Places
    OBVIOUS
  <2> HIDE DEF Fits
  <2> QED BY <1>1, <2>1
<1> DEFINE R == CHOOSE s : s = [n \in 0..Places |-> IF n = 0 THEN 0 ELSE s[n - 1] + g[n]]
<1>3. f = [h \in 0..Places |-> IF h = 0 THEN 0 ELSE f[h - 1] + g[h]]
  BY <1>2
<1>4. R = [n \in 0..Places |-> IF n = 0 THEN 0 ELSE R[n - 1] + g[n]]
  BY <1>3, Zenon
<1>5. Sum(g) = R[Places]
  BY DEF Sum
<1> HIDE DEF R
<1>6. \A h \in 0..Places : R[h] = IF h = 0 THEN 0 ELSE R[h - 1] + g[h]
  BY <1>4
<1>7. \A h \in 0..Places : R[h] = f[h]
  <2> DEFINE Odd == {h \in 0..Places : R[h] # f[h]}
  <2> SUFFICES ASSUME Odd # {} PROVE FALSE
    OBVIOUS
  <2>1. PICK n \in Odd : \A m \in Odd : n <= m
    <3>1. Odd \subseteq Nat
      OBVIOUS
    <3> HIDE DEF Odd
    <3> QED BY <3>1, LeastExists
  <2>2. n # 0 /\ n - 1 \in 0..Places /\ n - 1 \notin Odd
    BY <1>6, <1>2, <2>1
  <2> QED BY <1>2, <1>6, <2>1, <2>2
<1>8. Sums(g, f) /\ Places \in 0..Places
  BY <1>2 DEF Sums
<1> QED BY <1>5, <1>7, <1>8

\* The sum of amounts that are sums is the sum of the sums.
LEMMA SumAdds ==
  ASSUME NEW f \in [Slots -> Int], NEW g \in [Slots -> Int], NEW h \in [Slots -> Int],
         \A i \in Slots : h[i] = f[i] + g[i]
  PROVE  /\ Sum(h) = Sum(f) + Sum(g)
         /\ Sum(f) \in Int /\ Sum(g) \in Int /\ Sum(h) \in Int
<1> USE PlacesAre DEF Slots
<1>1. PICK r : Sums(f, r) /\ Sum(f) = r[Places]
  BY SumIs
<1>2. PICK s : Sums(g, s) /\ Sum(g) = s[Places]
  BY SumIs
<1>3. PICK t : Sums(h, t) /\ Sum(h) = t[Places]
  BY SumIs
<1> DEFINE Odd == {n \in 0..Places : t[n] # r[n] + s[n]}
<1>4. Odd = {}
  <2> SUFFICES ASSUME Odd # {} PROVE FALSE
    OBVIOUS
  <2>1. PICK n \in Odd : \A m \in Odd : n <= m
    <3>1. Odd \subseteq Nat
      OBVIOUS
    <3> HIDE DEF Odd
    <3> QED BY <3>1, LeastExists
  <2>2. n # 0
    BY <1>1, <1>2, <1>3, <2>1 DEF Sums
  <2>3. n \in Slots /\ n - 1 \in 0..Places /\ n - 1 \notin Odd
    BY <2>1, <2>2
  <2>4. t[n] = t[n - 1] + h[n] /\ r[n] = r[n - 1] + f[n] /\ s[n] = s[n - 1] + g[n]
    BY <1>1, <1>2, <1>3, <2>3 DEF Sums
  <2>5. r[n - 1] \in Int /\ s[n - 1] \in Int /\ f[n] \in Int /\ g[n] \in Int
    BY <1>1, <1>2, <2>3 DEF Sums
  <2> QED BY <2>1, <2>3, <2>4, <2>5
<1>5. t[Places] = r[Places] + s[Places]
  BY <1>4
<1>6. r[Places] \in Int /\ s[Places] \in Int
  BY <1>1, <1>2 DEF Sums
<1> HIDE DEF Odd
<1> QED BY <1>1, <1>2, <1>3, <1>5, <1>6

\* The sum of amounts of which one at most is not zero is that one.
LEMMA SumOfOne ==
  ASSUME NEW g \in [Slots -> Int], NEW k \in Slots, \A i \in Slots : i # k => g[i] = 0
  PROVE  Sum(g) = g[k]
<1> USE PlacesAre DEF Slots
<1>1. PICK r : Sums(g, r) /\ Sum(g) = r[Places]
  BY SumIs
<1> DEFINE Odd == {n \in 0..Places : r[n] # IF n >= k THEN g[k] ELSE 0}
<1>2. Odd = {}
  <2> SUFFICES ASSUME Odd # {} PROVE FALSE
    OBVIOUS
  <2>1. PICK n \in Odd : \A m \in Odd : n <= m
    <3>1. Odd \subseteq Nat
      OBVIOUS
    <3> HIDE DEF Odd
    <3> QED BY <3>1, LeastExists
  <2>2. n # 0
    BY <1>1, <2>1 DEF Sums
  <2>3. n \in Slots /\ n - 1 \in 0..Places /\ n - 1 \notin Odd
    BY <2>1, <2>2
  <2>4. r[n] = r[n - 1] + g[n] /\ g[k] \in Int
    BY <1>1, <2>3 DEF Sums
  <2>5. CASE n = k
    BY <2>1, <2>3, <2>4, <2>5
  <2>6. CASE n # k
    <3>1. g[n] = 0 /\ (n >= k <=> n - 1 >= k)
      BY <2>3, <2>6
    <3> QED BY <2>1, <2>3, <2>4, <3>1
  <2> QED BY <2>5, <2>6
<1>3. Places \in 0..Places /\ Places >= k
  OBVIOUS
<1> QED BY <1>1, <1>2, <1>3

\* Places that are free.
Free(w) == {i \in Slots : w[i].ada = 0}

\* What rows weigh, all of them or those that the inventory can use.
Weights == {u \in [Rows -> Int] : \A r \in Rows : r.ada = 0 => u[r] = 0}
Whole == [r \in Rows |-> r.ada]
Usable == [r \in Rows |-> IF r.ada <= MaxFunding /\ r.kind # "laden" THEN r.ada ELSE 0]
Weigh(u, w) == Sum([i \in Slots |-> u[w[i]]])
Part(u, w, ids) == Sum([i \in Slots |-> IF i \in ids THEN u[w[i]] ELSE 0])

\* Both are weights.
LEMMA WeightsAre == Whole \in Weights /\ Usable \in Weights
  BY DEF Weights, Whole, Usable, Rows

\* A new output adds its weight.
LEMMA PutAdds ==
  ASSUME NEW u \in Weights, NEW w \in [Slots -> Rows], NEW ada \in Nat, NEW kind \in Kinds, Free(w) # {}
  PROVE  /\ Weigh(u, Put(w, ada, kind)) = Weigh(u, w) + u[[ada |-> ada, kind |-> kind]]
         /\ Weigh(u, w) \in Int
<1> DEFINE row == [ada |-> ada, kind |-> kind]
           k == FirstFree(w)
           f == [i \in Slots |-> u[w[i]]]
           g == [i \in Slots |-> IF i = k THEN u[row] ELSE 0]
           p == Put(w, ada, kind)
           h == [i \in Slots |-> u[p[i]]]
<1>1. row \in Rows /\ u[row] \in Int /\ (ada = 0 => u[row] = 0)
  BY DEF Rows, Weights
<1>2. k \in Slots /\ w[k].ada = 0
  <2>1. Free(w) \subseteq Nat
    BY PlacesAre DEF Free
  <2>2. PICK i \in Free(w) : \A j \in Free(w) : i <= j
    <3> HIDE DEF Free
    <3> QED BY <2>1, LeastExists
  <2>3. \E j \in Slots : w[j].ada = 0 /\ \A m \in Slots : w[m].ada = 0 => j <= m
    BY <2>2 DEF Free
  <2> QED
    BY <2>3, Zenon DEF FirstFree
<1>3. w[k] \in Rows /\ u[w[k]] = 0
  BY <1>2 DEF Weights
<1>4. p \in [Slots -> Rows]
  BY PutTyped
<1>5. \A i \in Slots : p[i] = IF i = k /\ ada # 0 THEN row ELSE w[i]
  <2> HIDE DEF k, row
  <2>1. p = IF ada = 0 THEN w ELSE [w EXCEPT ![k] = row]
    BY DEF Put, k, row
  <2> QED
    BY <2>1
<1> HIDE DEF k, row, p
<1>6. f \in [Slots -> Int] /\ g \in [Slots -> Int] /\ h \in [Slots -> Int]
  BY <1>1, <1>4 DEF Weights
<1>7. \A i \in Slots : h[i] = f[i] + g[i]
  <2> TAKE i \in Slots
  <2>1. h[i] = u[p[i]] /\ f[i] = u[w[i]] /\ g[i] = IF i = k THEN u[row] ELSE 0
    OBVIOUS
  <2>2. f[i] \in Int
    BY <1>6
  <2> HIDE DEF f, g, h
  <2> QED
    BY <1>1, <1>3, <1>5, <2>1, <2>2
<1>8. g[k] = u[row] /\ \A i \in Slots : i # k => g[i] = 0
  BY <1>2
<1> HIDE DEF f, g, h
<1>9. Sum(g) = u[row]
  BY <1>2, <1>6, <1>8, SumOfOne
<1>10. Sum(h) = Sum(f) + Sum(g) /\ Sum(f) \in Int
  BY <1>6, <1>7, SumAdds
<1> QED
  BY <1>9, <1>10 DEF f, h, p, row, Weigh

\* A set of outputs and the rest weigh what the wallet weighs.
LEMMA WithoutTakes ==
  ASSUME NEW u \in Weights, NEW w \in [Slots -> Rows], NEW ids
  PROVE  /\ Weigh(u, w) = Weigh(u, Without(w, ids)) + Part(u, w, ids)
         /\ Weigh(u, Without(w, ids)) \in Int /\ Part(u, w, ids) \in Int
<1> DEFINE v == Without(w, ids)
           f == [i \in Slots |-> u[v[i]]]
           g == [i \in Slots |-> IF i \in ids THEN u[w[i]] ELSE 0]
           h == [i \in Slots |-> u[w[i]]]
<1>1. v \in [Slots -> Rows] /\ \A i \in Slots : v[i] = IF i \in ids THEN Empty ELSE w[i]
  BY WithoutTyped DEF Without
<1>2. u[Empty] = 0
  BY DEF Empty, Weights, Rows, Kinds
<1> HIDE DEF v
<1>3. f \in [Slots -> Int] /\ g \in [Slots -> Int] /\ h \in [Slots -> Int]
  BY <1>1 DEF Weights
<1>4. \A i \in Slots : h[i] = f[i] + g[i]
  <2> TAKE i \in Slots
  <2>1. h[i] = u[w[i]] /\ f[i] = u[v[i]] /\ g[i] = IF i \in ids THEN u[w[i]] ELSE 0
    OBVIOUS
  <2>2. h[i] \in Int
    BY <1>3
  <2> HIDE DEF f, g, h
  <2> QED
    BY <1>1, <1>2, <2>1, <2>2
<1> HIDE DEF f, g, h
<1>5. Sum(h) = Sum(f) + Sum(g) /\ Sum(f) \in Int /\ Sum(g) \in Int
  BY <1>3, <1>4, SumAdds
<1> QED
  BY <1>5 DEF f, g, h, v, Weigh, Part

\* One output has its own weight.
LEMMA PartOfOne ==
  ASSUME NEW u \in Weights, NEW w \in [Slots -> Rows], NEW k \in Slots
  PROVE  Part(u, w, {k}) = u[w[k]]
<1> DEFINE g == [i \in Slots |-> IF i \in {k} THEN u[w[i]] ELSE 0]
<1>1. g \in [Slots -> Int] /\ g[k] = u[w[k]] /\ \A i \in Slots : i # k => g[i] = 0
  BY DEF Weights
<1> HIDE DEF g
<1>2. Sum(g) = u[w[k]]
  BY <1>1, SumOfOne
<1> QED
  BY <1>2 DEF g, Part

----------------------------------------------------------------------------
(* What is never spent.                                                    *)

\* What a trade gives back to the operating funds before it is balanced: an
\* operating output of what it takes, or all of it as change that fits.
GivenBack(funding, net, kept) ==
  \/ kept \in funding .. MaxFunding
  \/ kept = 0 /\ funding + net <= MaxFunding

\* A candidate in hand spends nothing but sources, knows what they hold, and its
\* outputs find room.  A trade is funded by operating rows and has collateral.
RolesHeld ==
  draft # None =>
    /\ draft.rows \subseteq Sources /\ Cardinality(Free(wallet)) >= 3
    /\ draft.funding = Worth(draft.rows)
    /\ draft.action = "trade" =>
         /\ draft.rows \subseteq Operating /\ Collateral # {}
         /\ GivenBack(draft.funding, draft.net, draft.kept)

\* What a set of outputs holds is its part of the whole.
LEMMA WorthIsPart ==
  ASSUME wallet \in [Slots -> Rows], NEW ids
  PROVE  Worth(ids) = Part(Whole, wallet, ids)
<1>1. \A i \in Slots : wallet[i].ada = Whole[wallet[i]]
  BY DEF Whole
<1>2. [i \in Slots |-> IF i \in ids THEN wallet[i].ada ELSE 0]
        = [i \in Slots |-> IF i \in ids THEN Whole[wallet[i]] ELSE 0]
  BY <1>1
<1> QED
  BY <1>2 DEF Worth, Part

\* Whatever is committed before balancing gives the funding back, or leaves the
\* change to do it.
LEMMA KeptGivesBack ==
  ASSUME NEW funding \in 0 .. MaxFunding, NEW net \in Int, NEW limit \in Int,
         NEW k \in Kept(funding, net, limit)
  PROVE  GivenBack(funding, net, k)
<1>1. Target \in Int /\ MaxFunding \in Int /\ MinAda \in Int /\ Target <= MaxFunding
  BY ConstantTypes, ConstructionAssumption
<1> QED
  BY <1>1 DEF Kept, Most, GivenBack

\* A new output takes one free place and leaves every other one as it was.
LEMMA PutTakesOne ==
  ASSUME NEW w \in [Slots -> Rows], NEW ada \in Nat, NEW kind \in Kinds,
         NEW n \in Nat, n >= 1, Cardinality(Free(w)) >= n
  PROVE  /\ Put(w, ada, kind) \in [Slots -> Rows]
         /\ \A i \in Slots \ Free(w) : Put(w, ada, kind)[i] = w[i]
         /\ Cardinality(Free(Put(w, ada, kind))) >= n - 1
<1> DEFINE k == FirstFree(w)
           p == Put(w, ada, kind)
<1>1. IsFiniteSet(Slots) /\ Slots \subseteq Nat
  BY PlacesAre
<1>2. Free(w) \in SUBSET Slots /\ Free(w) # {} /\ IsFiniteSet(Free(w))
  <2>1. Free(w) \in SUBSET Slots
    BY DEF Free
  <2> QED
    BY <1>1, <2>1, FS_Subset, FS_EmptySet
<1>3. k \in Free(w)
  <2>1. \E i \in Slots : w[i].ada = 0 /\ \A j \in Slots : w[j].ada = 0 => i <= j
    BY <1>1, <1>2, LeastExists DEF Free
  <2> QED
    BY <2>1 DEF FirstFree, Free
<1>4. p \in [Slots -> Rows]
  BY PutTyped
<1>5. \A i \in Slots \ {k} : p[i] = w[i]
  <2> HIDE DEF k
  <2>1. p = w \/ p = [w EXCEPT ![k] = [ada |-> ada, kind |-> kind]]
    BY DEF Put, k
  <2> HIDE DEF p
  <2> QED
    BY <2>1
<1> HIDE DEF k, p
<1>6. Free(w) \ {k} \in SUBSET Free(p) /\ IsFiniteSet(Free(p))
  <2>1. Free(w) \ {k} \in SUBSET Free(p)
    BY <1>5 DEF Free
  <2>2. Free(p) \in SUBSET Slots
    BY DEF Free
  <2> QED
    BY <2>1, <2>2, <1>1, FS_Subset
<1>7. Cardinality(Free(w) \ {k}) = Cardinality(Free(w)) - 1
  BY <1>2, <1>3, FS_RemoveElement
<1>8. Cardinality(Free(w) \ {k}) <= Cardinality(Free(p))
  BY <1>6, FS_Subset
<1>9. Cardinality(Free(w)) \in Nat /\ Cardinality(Free(p)) \in Nat
  BY <1>2, <1>6, FS_CardinalityType
<1>10. \A i \in Slots \ Free(w) : p[i] = w[i]
  BY <1>3, <1>5
<1> QED
  BY <1>4, <1>7, <1>8, <1>9, <1>10 DEF p

\* Taking outputs away leaves the others and makes room.
LEMMA WithoutLeaves ==
  ASSUME NEW w \in [Slots -> Rows], NEW ids, Cardinality(Free(w)) >= 3
  PROVE  /\ Without(w, ids) \in [Slots -> Rows]
         /\ \A i \in Slots \ ids : Without(w, ids)[i] = w[i]
         /\ Cardinality(Free(Without(w, ids))) >= 3
<1>1. Free(w) \in SUBSET Free(Without(w, ids)) /\ Free(Without(w, ids)) \in SUBSET Slots
  BY DEF Free, Without, Empty
<1>2. IsFiniteSet(Free(Without(w, ids)))
  BY <1>1, FS_Subset, PlacesAre
<1>3. Cardinality(Free(w)) <= Cardinality(Free(Without(w, ids)))
  BY <1>1, <1>2, FS_Subset
<1>4. Cardinality(Free(w)) \in Nat /\ Cardinality(Free(Without(w, ids))) \in Nat
  BY <1>1, <1>2, FS_Subset, FS_CardinalityType
<1>5. Without(w, ids) \in [Slots -> Rows]
  BY WithoutTyped
<1> QED
  BY <1>3, <1>4, <1>5 DEF Without

\* Three new outputs after some were spent: what was not spent stays.
LEMMA OthersStay ==
  ASSUME NEW w \in [Slots -> Rows], NEW ids, Cardinality(Free(w)) >= 3,
         NEW a \in Nat, NEW b \in Nat, NEW c \in Nat, NEW kind \in Kinds
  PROVE  \A i \in Slots \ (Free(w) \cup ids) :
           /\ Put(Put(Put(Without(w, ids), a, kind), b, kind), c, kind)[i] = w[i]
           /\ Put(Without(w, ids), a, kind)[i] = w[i]
<1> DEFINE w0 == Without(w, ids)
           w1 == Put(w0, a, kind)
           w2 == Put(w1, b, kind)
           w3 == Put(w2, c, kind)
<1>1. w0 \in [Slots -> Rows] /\ Cardinality(Free(w0)) >= 3 /\ \A i \in Slots \ ids : w0[i] = w[i]
  BY WithoutLeaves
<1> HIDE DEF w0
<1>2. w1 \in [Slots -> Rows] /\ Cardinality(Free(w1)) >= 2 /\ \A i \in Slots \ Free(w0) : w1[i] = w0[i]
  BY <1>1, PutTakesOne
<1> HIDE DEF w1
<1>3. w2 \in [Slots -> Rows] /\ Cardinality(Free(w2)) >= 1 /\ \A i \in Slots \ Free(w1) : w2[i] = w1[i]
  BY <1>2, PutTakesOne
<1> HIDE DEF w2
<1>4. \A i \in Slots \ Free(w2) : w3[i] = w2[i]
  BY <1>3, PutTakesOne
<1> HIDE DEF w3
<1>5. \A i \in Slots \ (Free(w) \cup ids) : w3[i] = w[i] /\ w1[i] = w[i]
  BY <1>1, <1>2, <1>3, <1>4 DEF Free
<1> QED
  BY <1>5 DEF w0, w1, w2, w3

\* The places that are free are those without a live output.
LEMMA FreeIsNotLive ==
  ASSUME wallet \in [Slots -> Rows] PROVE Free(wallet) = Slots \ Live
  BY DEF Free, Live, Rows

\* Every step keeps it: a candidate is built from sources where there is room,
\* and no step moves the wallet and keeps the candidate.
LEMMA RolesStep ==
  ASSUME IInv, RolesHeld, [Next]_vars
  PROVE  RolesHeld'
<1>0. wallet \in [Slots -> Rows]
  BY DEF IInv, TypeOK
<1>1. ASSUME MayBuild, UNCHANGED wallet, draft'.rows \subseteq Sources,
             draft'.funding = Worth(draft'.rows),
             draft'.action = "trade" => /\ draft'.rows \subseteq Operating /\ Collateral # {}
                                        /\ GivenBack(draft'.funding, draft'.net, draft'.kept)
      PROVE  RolesHeld'
  <2>1. Cardinality(Free(wallet)) >= 3
    BY <1>0, <1>1, FreeIsNotLive DEF MayBuild
  <2>2. Cardinality(Free(wallet)') >= 3
    BY <1>1, <2>1 DEF Free
  <2>3. Worth(draft.rows)' = Worth(draft'.rows)
    BY <1>1 DEF Worth
  <2>4. Sources' = Sources /\ Operating' = Operating /\ Collateral' = Collateral
    BY <1>1 DEF Sources, Operating, Protected, Collateral, Dedicated, Live
  <2> QED
    BY <1>1, <2>2, <2>3, <2>4 DEF RolesHeld, GivenBack
<1>2. CASE BuildAllocation
  <2>1. PICK i \in Source :
          draft' \in Built([Blank EXCEPT !.action = "allocate", !.rows = {i}, !.funding = wallet[i].ada,
                              !.kept = Target, !.reserve = Reserve, !.maxFee = MaxMaintenance,
                              !.low = - MaxMaintenance])
    BY <1>2 DEF BuildAllocation
  <2> DEFINE a == [Blank EXCEPT !.action = "allocate", !.rows = {i}, !.funding = wallet[i].ada,
                     !.kept = Target, !.reserve = Reserve, !.maxFee = MaxMaintenance,
                     !.low = - MaxMaintenance]
  <2>2. i \in Sources /\ i \in Slots /\ wallet[i].ada \in Int
    BY <1>0 DEF Source, Sufficient, Sources, Operating, Protected, Live, Rows
  <2>3. Reserve \in Int /\ - MaxMaintenance \in Int /\ {i} \subseteq Slots
    BY <2>2, ConstantTypes DEF Reserve
  <2>4. a \in Drafts /\ a.rows = {i} /\ a.funding = wallet[i].ada /\ a.action = "allocate"
    BY <2>2, <2>3, BlankTyped, ConstantTypes DEF Drafts
  <2>5. draft' \in Balanced(a)
    BY <2>1 DEF Built
  <2> HIDE DEF a
  <2>6. draft'.rows = {i} /\ draft'.funding = wallet[i].ada /\ draft'.action = "allocate"
    BY <1>0, <2>4, <2>5, BalancedDraft
  <2>7. Worth({i}) = wallet[i].ada
    <3>1. Worth({i}) = Whole[wallet[i]]
      BY <1>0, <2>2, WorthIsPart, PartOfOne, WeightsAre
    <3> QED
      BY <1>0, <2>2, <3>1 DEF Whole
  <2> QED
    BY <1>1, <1>2, <2>2, <2>6, <2>7 DEF BuildAllocation
<1>3. CASE \E net \in Nets : BuildRoute(net)
  <2>1. PICK net \in Nets : BuildRoute(net)
    BY <1>3
  <2>2. /\ draft'.rows \subseteq Operating /\ draft'.rows \subseteq Sources /\ Collateral # {}
        /\ draft'.funding = Worth(draft'.rows)
        /\ GivenBack(draft'.funding, draft'.net, draft'.kept)
    <3> DEFINE limit == FeeLimit(net)
               required == Most(1, limit + MinAda - net)
               a(c, funding, kept) ==
                 [Blank EXCEPT !.rows = Selected(required), !.funding = funding,
                    !.collateral = wallet[c].ada, !.net = net, !.kept = kept,
                    !.maxFee = limit, !.maxLoss = Least(Exposure, Headroom),
                    !.low = MinProfit, !.high = net]
    <3>0. PICK c \in Collateral, funding \in 0 .. MaxFunding :
            /\ funding = Worth(Selected(required))
            /\ \E kept \in Kept(funding, net, limit) : draft' \in Built(a(c, funding, kept))
      BY <2>1 DEF BuildRoute
    <3>1. PICK kept \in Kept(funding, net, limit) : draft' \in Built(a(c, funding, kept))
      BY <3>0
    <3>2. net \in Int /\ Headroom \in Int /\ Least(Exposure, Headroom) \in Int
      BY BooksTypes, ConstructionAssumption DEF IInv
    <3>3. limit \in Int
      BY <3>2, LimitIsLeast
    <3>4. kept \in Int /\ funding \in Int
      <4> HIDE DEF limit
      <4> QED
        BY <3>2, <3>3, KeptExists, ConstantTypes
    <3>5. c \in Slots /\ wallet[c].ada \in Int
      BY <1>0 DEF Collateral, Dedicated, Live, Rows
    <3>6. Selected(required) \subseteq Operating /\ Operating \subseteq Sources /\ Operating \subseteq Slots
      BY DEF Selected, Sources, Operating, Live
    <3> HIDE DEF limit, required
    <3>7. LET d == a(c, funding, kept)
          IN  /\ d \in Drafts /\ d.rows = Selected(required) /\ d.funding = funding
              /\ d.net = net /\ d.kept = kept
      BY <3>2, <3>3, <3>4, <3>5, <3>6, BlankTyped, ConstantTypes DEF Drafts
    <3>8. draft' \in Balanced(a(c, funding, kept))
      BY <3>1 DEF Built
    <3>9. GivenBack(funding, net, kept)
      BY <3>2, <3>3, KeptGivesBack
    <3> HIDE DEF a
    <3>10. /\ draft'.rows = Selected(required) /\ draft'.funding = funding
           /\ draft'.net = net /\ draft'.kept = kept
      BY <1>0, <3>7, <3>8, BalancedDraft
    <3> QED
      BY <3>0, <3>6, <3>9, <3>10
  <2> QED
    BY <1>1, <2>1, <2>2 DEF BuildRoute
<1>4. CASE Sign
  <2>1. /\ draft # None /\ wallet' = wallet
        /\ draft'.rows = draft.rows /\ draft'.funding = draft.funding /\ draft'.action = draft.action
        /\ draft'.net = draft.net /\ draft'.kept = draft.kept
    BY <1>4 DEF Sign, None, IInv, TypeOK, Drafts
  <2>2. Worth(draft.rows)' = Worth(draft.rows)
    BY <2>1 DEF Worth
  <2>3. /\ Sources' = Sources /\ Operating' = Operating /\ Collateral' = Collateral
        /\ Free(wallet)' = Free(wallet)
    BY <2>1 DEF Free, Sources, Operating, Protected, Collateral, Dedicated, Live
  <2> QED
    BY <2>1, <2>2, <2>3 DEF RolesHeld, GivenBack
<1>5. CASE Drop \/ Confirm \/ Fail
  BY <1>5 DEF Drop, Confirm, Fail, RolesHeld
<1>6. CASE UNCHANGED vars
  <2>1. wallet' = wallet /\ draft' = draft
    BY <1>6 DEF vars
  <2>2. /\ Sources' = Sources /\ Operating' = Operating /\ Collateral' = Collateral
        /\ Free(wallet)' = Free(wallet)
    BY <2>1 DEF Free, Sources, Operating, Protected, Collateral, Dedicated, Live
  <2>3. Worth(draft.rows)' = Worth(draft.rows)
    BY <2>1 DEF Worth
  <2> QED
    BY <2>1, <2>2, <2>3 DEF RolesHeld, GivenBack
<1> QED
  BY <1>2, <1>3, <1>4, <1>5, <1>6 DEF Next

\* A body that is confirmed or fails takes none of it.
LEMMA ReservesStay ==
  ASSUME IInv, RolesHeld, Confirm \/ Fail, NEW i \in Live,
         wallet[i].kind = "laden" \/ (wallet[i].kind = "given" /\ i \in Protected)
  PROVE  wallet'[i] = wallet[i]
<1>0. wallet \in [Slots -> Rows] /\ i \in Slots /\ i \notin Free(wallet)
  BY FreeIsNotLive DEF IInv, TypeOK, Live
<1>1. draft.stage = "signed" /\ draft # None /\ draft \in Drafts
  BY DEF Confirm, Fail, None, IInv, TypeOK
<1>2. draft.rows \subseteq Sources /\ Cardinality(Free(wallet)) >= 3
  BY <1>1 DEF RolesHeld
<1>3. Inspected(draft)
  BY <1>1 DEF IInv, SignedIsInspected
<1>4. CASE Confirm
  <2>1. draft.kept \in Nat /\ draft.reserve \in Nat /\ draft.change \in Nat
    BY <1>1, <1>3, ConstantTypes DEF Inspected, Drafts
  <2>2. i \notin draft.rows \cup draft.extra
    BY <1>2, <1>3 DEF Inspected, Sources, Operating
  <2> DEFINE spent == draft.rows \cup draft.extra
  <2>3. wallet' = Put(Put(Put(Without(wallet, spent), draft.kept, "bot"), draft.reserve, "bot"),
                     draft.change, "bot")
    BY <1>4 DEF Confirm
  <2> HIDE DEF spent
  <2>4. "bot" \in Kinds
    BY DEF Kinds
  <2>5. \A j \in Slots \ (Free(wallet) \cup spent) : wallet'[j] = wallet[j]
    BY <1>0, <1>2, <2>1, <2>3, <2>4, OthersStay
  <2> QED
    BY <1>0, <2>2, <2>5 DEF spent
<1>5. CASE Fail
  <2>1. draft.collateral - Taken(draft) \in Nat
    BY <1>1, <1>3, <1>5, ConstantTypes DEF Fail, Inspected, CollateralInOrder, Taken, Drafts
  <2>2. i \notin Collateral
    BY DEF Collateral, Dedicated
  <2> QED
    BY <1>0, <1>2, <1>5, <2>1, <2>2, OthersStay DEF Fail, Kinds
<1> QED
  BY <1>4, <1>5

\* The faucet's reserve and outputs with tokens or datums are never spent, for
\* every wallet, route, size and whatever the balancer returns.
THEOREM ReservesUntouched == Spec => ReservesKept
<1>1. Init => RolesHeld
  BY DEF Init, RolesHeld
<1>2. IInv /\ RolesHeld /\ [Next]_vars => RolesHeld'
  BY RolesStep
<1>3. IInv /\ RolesHeld /\ [Next]_vars =>
        [\A i \in Live :
           wallet[i].kind = "laden" \/ (wallet[i].kind = "given" /\ i \in Protected)
             => wallet'[i] = wallet[i]]_vars
  <2> SUFFICES ASSUME IInv, RolesHeld, Next, NEW i \in Live,
                      wallet[i].kind = "laden" \/ (wallet[i].kind = "given" /\ i \in Protected)
               PROVE  wallet'[i] = wallet[i]
    OBVIOUS
  <2> QED
    BY ReservesStay DEF Next, BuildAllocation, BuildRoute, Sign, Drop
<1> QED
  BY <1>1, <1>2, <1>3, Invariant, PTL DEF Spec, ReservesKept

----------------------------------------------------------------------------
(* What the wallet holds.                                                  *)

\* A confirmed body takes its rows and adds its outputs, however the outputs
\* are weighed.
LEMMA ConfirmWeighs ==
  ASSUME IInv, RolesHeld, Confirm, NEW u \in Weights
  PROVE  /\ Weigh(u, wallet') + Part(u, wallet, draft.rows)
              = Weigh(u, wallet) + u[[ada |-> draft.kept, kind |-> "bot"]]
                  + u[[ada |-> draft.reserve, kind |-> "bot"]] + u[[ada |-> draft.change, kind |-> "bot"]]
         /\ draft.kept \in Nat /\ draft.reserve \in Nat /\ draft.change \in Nat
         /\ draft.extra = {} /\ draft.more = 0
         /\ Part(u, wallet, draft.rows) \in Int /\ Weigh(u, wallet) \in Int /\ Weigh(u, wallet') \in Int
<1>0. wallet \in [Slots -> Rows] /\ "bot" \in Kinds
  BY DEF IInv, TypeOK, Kinds
<1>1. draft.stage = "signed" /\ draft # None /\ draft \in Drafts
  BY DEF Confirm, None, IInv, TypeOK
<1>2. Inspected(draft) /\ draft.extra = {} /\ draft.more = 0
  BY <1>1 DEF IInv, SignedIsInspected, Inspected, Balances
<1>3. draft.kept \in Nat /\ draft.reserve \in Nat /\ draft.change \in Nat
  BY <1>1, <1>2, ConstantTypes DEF Inspected, Drafts
<1> DEFINE w0 == Without(wallet, draft.rows)
           w1 == Put(w0, draft.kept, "bot")
           w2 == Put(w1, draft.reserve, "bot")
           w3 == Put(w2, draft.change, "bot")
<1>4. wallet' = w3
  <2>1. draft.rows \cup draft.extra = draft.rows
    BY <1>2
  <2> QED
    BY <2>1 DEF Confirm
<1>5. w0 \in [Slots -> Rows] /\ Cardinality(Free(w0)) >= 3
  BY <1>0, <1>1, WithoutLeaves DEF RolesHeld
<1>6. /\ Weigh(u, wallet) = Weigh(u, w0) + Part(u, wallet, draft.rows)
      /\ Weigh(u, w0) \in Int /\ Part(u, wallet, draft.rows) \in Int
  BY <1>0, WithoutTakes
<1> HIDE DEF w0
<1>7. ASSUME NEW w \in [Slots -> Rows], NEW n \in Nat, n >= 1, Cardinality(Free(w)) >= n
      PROVE  Free(w) # {}
  BY <1>7, FS_EmptySet
<1>8. w1 \in [Slots -> Rows] /\ Cardinality(Free(w1)) >= 2
      /\ Weigh(u, w1) = Weigh(u, w0) + u[[ada |-> draft.kept, kind |-> "bot"]]
  BY <1>0, <1>3, <1>5, <1>7, PutTakesOne, PutAdds
<1> HIDE DEF w1
<1>9. w2 \in [Slots -> Rows] /\ Cardinality(Free(w2)) >= 1
      /\ Weigh(u, w2) = Weigh(u, w1) + u[[ada |-> draft.reserve, kind |-> "bot"]]
  BY <1>0, <1>3, <1>7, <1>8, PutTakesOne, PutAdds
<1> HIDE DEF w2
<1>10. Weigh(u, w3) = Weigh(u, w2) + u[[ada |-> draft.change, kind |-> "bot"]]
  BY <1>0, <1>3, <1>7, <1>9, PutAdds
<1> HIDE DEF w3
<1>11. \A n \in Nat : u[[ada |-> n, kind |-> "bot"]] \in Int
  BY <1>0 DEF Weights, Rows
<1> HIDE DEF Weights
<1> QED
  BY <1>2, <1>3, <1>4, <1>6, <1>8, <1>9, <1>10, <1>11

\* There is one collateral row, which holds the configured amount.
LEMMA CollateralIsOne ==
  ASSUME wallet \in [Slots -> Rows], Collateral # {}
  PROVE  \E c \in Slots : Collateral = {c} /\ c \in Dedicated /\ wallet[c].ada = CollateralAda
<1>1. PICK c \in Collateral : TRUE
  OBVIOUS
<1>2. c \in Slots /\ c \in Dedicated /\ wallet[c].ada = CollateralAda
  BY DEF Collateral, Dedicated, Live
<1>3. Slots \subseteq Nat /\ Dedicated \subseteq Slots
  BY PlacesAre DEF Dedicated, Live
<1>4. \A d \in Collateral : d \in Dedicated /\ d <= c /\ c <= d
  <2> HIDE DEF Dedicated
  <2>1. \A x \in Collateral : x \in Dedicated /\ \A y \in Dedicated : x <= y
    BY DEF Collateral
  <2> QED
    BY <1>1, <2>1
<1>5. \A d \in Collateral : d = c
  <2> TAKE d \in Collateral
  <2>1. d \in Dedicated /\ d <= c /\ c <= d
    BY <1>4
  <2>2. d \in Nat /\ c \in Nat
    BY <1>2, <1>3, <2>1
  <2> QED
    BY <2>1, <2>2
<1>6. Collateral = {c}
  BY <1>5
<1> QED
  BY <1>2, <1>6

\* What failed takes the collateral and gives the return.
LEMMA FailWeighs ==
  ASSUME IInv, RolesHeld, Fail
  PROVE  /\ Weigh(Whole, wallet') = Weigh(Whole, wallet) - CollateralLoss(draft)
         /\ CollateralLoss(draft) \in Int /\ Weigh(Whole, wallet) \in Int
<1>0. wallet \in [Slots -> Rows] /\ "given" \in Kinds
  BY DEF IInv, TypeOK, Kinds
<1>1. draft.stage = "signed" /\ draft.collateral > 0 /\ draft # None /\ draft \in Drafts
  BY DEF Fail, None, IInv, TypeOK
<1>2. CollateralInOrder(draft) /\ draft.action = "trade" /\ draft.collateral = CollateralAda
  BY <1>1 DEF IInv, SignedIsInspected, Inspected, TradeAsked, AllocationAsked, Drafts
<1>3. Taken(draft) = CollateralLoss(draft) /\ CollateralLoss(draft) \in Int
      /\ draft.collateral - Taken(draft) \in Nat
  <2>1. draft.collateral \in Int /\ draft.total \in Int /\ draft.ret \in Int /\ draft.maxLoss \in Int
    BY <1>1 DEF Drafts
  <2>2. CASE draft.total = Absent
    <3>1. draft.ret = Absent
      BY <1>2, <2>1, <2>2 DEF CollateralInOrder, Absent
    <3> QED
      BY <1>2, <2>1, <2>2, <3>1, ConstantTypes DEF Taken, CollateralLoss
  <2>3. CASE draft.total # Absent
    <3>1. draft.collateral - (IF draft.ret = Absent THEN 0 ELSE draft.ret) = draft.total
          /\ (draft.ret # Absent => draft.ret >= MinAda)
      BY <1>2, <2>3 DEF CollateralInOrder
    <3> QED
      BY <2>1, <2>3, <3>1, ConstantTypes DEF Taken, CollateralLoss
  <2> QED
    BY <2>2, <2>3
<1>4. PICK c \in Slots : Collateral = {c} /\ wallet[c].ada = CollateralAda
  BY <1>0, <1>1, <1>2, CollateralIsOne DEF RolesHeld
<1> DEFINE w0 == Without(wallet, Collateral)
           back == draft.collateral - Taken(draft)
<1>5. w0 \in [Slots -> Rows] /\ Cardinality(Free(w0)) >= 3
  BY <1>0, <1>1, WithoutLeaves DEF RolesHeld
<1>6. /\ Weigh(Whole, wallet) = Weigh(Whole, w0) + Part(Whole, wallet, Collateral)
      /\ Weigh(Whole, w0) \in Int
  BY <1>0, WithoutTakes, WeightsAre
<1>7. Part(Whole, wallet, Collateral) = CollateralAda
  <2>1. Part(Whole, wallet, {c}) = Whole[wallet[c]]
    BY <1>0, PartOfOne, WeightsAre
  <2> QED
    BY <1>0, <1>4, <2>1 DEF Whole
<1> HIDE DEF w0
<1>8. Free(w0) # {}
  BY <1>5, FS_EmptySet
<1>9. wallet' = Put(w0, back, "given")
  BY DEF Fail, w0
<1>10. back \in Nat
  BY <1>3
<1> HIDE DEF back
<1>11. Weigh(Whole, wallet') = Weigh(Whole, w0) + Whole[[ada |-> back, kind |-> "given"]]
  BY <1>0, <1>5, <1>8, <1>9, <1>10, PutAdds, WeightsAre
<1>12. Whole[[ada |-> back, kind |-> "given"]] = back
  BY <1>0, <1>10 DEF Whole, Rows
<1>13. back = CollateralAda - CollateralLoss(draft)
  BY <1>2, <1>3 DEF back
<1> QED
  BY <1>3, <1>6, <1>7, <1>11, <1>12, <1>13, ConstantTypes

\* The live outputs hold what the whole wallet weighs.
LiveCounted == wallet \in [Slots -> Rows] => Worth(Live) = Weigh(Whole, wallet)

\* It is so in every wallet.
LEMMA LiveIsCounted == LiveCounted
<1> SUFFICES ASSUME wallet \in [Slots -> Rows] PROVE Worth(Live) = Weigh(Whole, wallet)
  BY DEF LiveCounted
<1>1. \A i \in Slots : (IF i \in Live THEN wallet[i].ada ELSE 0) = Whole[wallet[i]]
  BY DEF Whole, Live, Rows
<1>2. [i \in Slots |-> IF i \in Live THEN wallet[i].ada ELSE 0] = [i \in Slots |-> Whole[wallet[i]]]
  BY <1>1
<1> QED
  BY <1>2 DEF Worth, Weigh

\* The wallet is as far below its best as the books say.
WalletFollows ==
  best \in Int /\ best - Weigh(Whole, wallet) = Loss(peak, earned)

\* What a step books is what it did to the wallet.
LEMMA FollowsBooking ==
  ASSUME IInv, WalletFollows, NEW result \in Int, Book(result),
         Worth(Live)' = Weigh(Whole, wallet)',
         Weigh(Whole, wallet) \in Int, Weigh(Whole, wallet)' = Weigh(Whole, wallet) + result
  PROVE  WalletFollows'
<1> DEFINE now == Weigh(Whole, wallet)
           then == Weigh(Whole, wallet)'
<1>1. /\ best \in Int /\ best - now = peak - earned /\ now \in Int /\ then = now + result
      /\ peak \in Int /\ earned \in Int
  BY DEF WalletFollows, Loss, IInv, TypeOK
<1>2. earned' = earned + result /\ peak' = Most(peak, earned') /\ best' = Most(best, then)
  BY DEF Book
<1> HIDE DEF now, then
<1>3. best' \in Int /\ best' - then = peak' - earned'
  BY <1>1, <1>2 DEF Most
<1> QED
  BY <1>3 DEF WalletFollows, Loss, then

\* Every step keeps it.
LEMMA WalletStep ==
  ASSUME IInv, RolesHeld, WalletFollows, [Next]_vars, Worth(Live)' = Weigh(Whole, wallet)'
  PROVE  WalletFollows'
<1>1. CASE UNCHANGED <<wallet, earned, peak, best>>
  BY <1>1 DEF WalletFollows, Loss
<1>2. CASE Confirm
  <2>1. draft # None /\ draft \in Drafts /\ wallet \in [Slots -> Rows]
    BY <1>2 DEF Confirm, None, IInv, TypeOK
  <2>2. Part(Whole, wallet, draft.rows) = draft.funding
    BY <2>1, WorthIsPart DEF RolesHeld
  <2>3. \A n \in Nat : Whole[[ada |-> n, kind |-> "bot"]] = n
    BY DEF Whole, Rows, Kinds
  <2>4. /\ Weigh(Whole, wallet') + Part(Whole, wallet, draft.rows)
              = Weigh(Whole, wallet) + Whole[[ada |-> draft.kept, kind |-> "bot"]]
                  + Whole[[ada |-> draft.reserve, kind |-> "bot"]] + Whole[[ada |-> draft.change, kind |-> "bot"]]
        /\ draft.kept \in Nat /\ draft.reserve \in Nat /\ draft.change \in Nat /\ draft.more = 0
        /\ Weigh(Whole, wallet) \in Int /\ Weigh(Whole, wallet') \in Int
    BY <1>2, ConfirmWeighs, WeightsAre
  <2>5. draft.funding \in Int
    BY <2>1 DEF Drafts
  <2>6. Weigh(Whole, wallet') = Weigh(Whole, wallet) + Delta(draft) /\ Delta(draft) \in Int
    BY <2>2, <2>3, <2>4, <2>5 DEF Delta
  <2> QED
    BY <1>2, <2>4, <2>6, FollowsBooking DEF Confirm
<1>3. CASE Fail
  <2>1. /\ Weigh(Whole, wallet') = Weigh(Whole, wallet) - CollateralLoss(draft)
        /\ CollateralLoss(draft) \in Int /\ Weigh(Whole, wallet) \in Int
    BY <1>3, FailWeighs
  <2>2. - CollateralLoss(draft) \in Int /\ Weigh(Whole, wallet') = Weigh(Whole, wallet) + (- CollateralLoss(draft))
    BY <2>1
  <2> QED
    BY <1>3, <2>1, <2>2, FollowsBooking DEF Fail
<1> QED
  BY <1>1, <1>2, <1>3 DEF Next, vars, BuildAllocation, BuildRoute, Sign, Drop

\* However many candidates are built, succeed or fail, the wallet never holds
\* less than its best by more than max_drawdown.
THEOREM WalletBounded == Spec => []WalletWithinDrawdown
<1>1. Init => RolesHeld /\ WalletFollows
  <2> SUFFICES ASSUME Init PROVE RolesHeld /\ WalletFollows
    OBVIOUS
  <2>1. wallet \in [Slots -> Rows]
    BY ConstructionAssumption DEF Init
  <2>2. Worth(Live) = Weigh(Whole, wallet)
    BY <2>1, LiveIsCounted DEF LiveCounted
  <2>3. Weigh(Whole, wallet) \in Int
    BY <2>1, WithoutTakes, WeightsAre
  <2> QED
    BY <2>2, <2>3 DEF Init, RolesHeld, WalletFollows, Loss
<1>2. IInv /\ RolesHeld /\ [Next]_vars => RolesHeld'
  BY RolesStep
<1>3. IInv' /\ LiveCounted' => Worth(Live)' = Weigh(Whole, wallet)'
  BY DEF IInv, TypeOK, LiveCounted
<1>4. IInv /\ IInv' /\ RolesHeld /\ WalletFollows /\ LiveCounted' /\ [Next]_vars => WalletFollows'
  <2> SUFFICES ASSUME IInv, IInv', RolesHeld, WalletFollows, LiveCounted', [Next]_vars
               PROVE  WalletFollows'
    OBVIOUS
  <2>1. Worth(Live)' = Weigh(Whole, wallet)'
    BY <1>3
  <2> QED
    BY <2>1, WalletStep
<1>5. IInv /\ WalletFollows => WalletWithinDrawdown
  BY LiveIsCounted DEF LiveCounted, IInv, TypeOK, WalletFollows, WalletWithinDrawdown, BooksWithinDrawdown
<1> QED
  BY <1>1, <1>2, <1>4, <1>5, LiveIsCounted, Invariant, PTL DEF Spec

----------------------------------------------------------------------------
(* What trades do to the operating funds.                                  *)

\* Operating rows and the collateral are what the inventory can use.
OperatingCounted ==
  wallet \in [Slots -> Rows] /\ Collateral # {} =>
    /\ Worth(Operating) = Weigh(Usable, wallet) - CollateralAda
    /\ Weigh(Usable, wallet) \in Int

\* It holds in every wallet.
LEMMA OperatingIsCounted == OperatingCounted
<1> SUFFICES ASSUME wallet \in [Slots -> Rows], Collateral # {}
             PROVE  /\ Worth(Operating) = Weigh(Usable, wallet) - CollateralAda
                    /\ Weigh(Usable, wallet) \in Int
  BY DEF OperatingCounted
<1>1. PICK c \in Slots : Collateral = {c} /\ c \in Dedicated /\ wallet[c].ada = CollateralAda
  BY CollateralIsOne
<1> DEFINE f == [i \in Slots |-> IF i \in Operating THEN wallet[i].ada ELSE 0]
           g == [i \in Slots |-> IF i \in {c} THEN Usable[wallet[i]] ELSE 0]
           h == [i \in Slots |-> Usable[wallet[i]]]
<1>2. Usable[wallet[c]] = CollateralAda
  <2>1. wallet[c] \in Rows /\ ~ (wallet[c].ada > MaxFunding) /\ wallet[c].kind # "laden"
    BY <1>1 DEF Dedicated, Protected
  <2>2. wallet[c].ada <= MaxFunding
    BY <1>1, <2>1, ConstantTypes
  <2> QED
    BY <1>1, <2>1, <2>2 DEF Usable
<1>3. f \in [Slots -> Int] /\ g \in [Slots -> Int] /\ h \in [Slots -> Int]
  <2>1. \A i \in Slots : wallet[i] \in Rows /\ wallet[i].ada \in Int /\ Usable[wallet[i]] \in Int
    <3>1. Usable \in [Rows -> Int]
      BY WeightsAre DEF Weights
    <3>2. \A i \in Slots : wallet[i] \in Rows
      OBVIOUS
    <3>3. \A r \in Rows : r.ada \in Int
      BY DEF Rows
    <3> HIDE DEF Usable
    <3> QED
      BY <3>1, <3>2, <3>3
  <2> QED
    BY <2>1
<1>4. \A i \in Slots : h[i] = f[i] + g[i]
  <2> TAKE i \in Slots
  <2>1. wallet[i] \in Rows /\ wallet[i].ada \in Nat
    BY DEF Rows
  <2>2. h[i] = IF wallet[i].ada <= MaxFunding /\ wallet[i].kind # "laden" THEN wallet[i].ada ELSE 0
    BY <2>1 DEF Usable
  <2>3. CASE i = c
    <3>1. i \notin Operating
      BY <1>1, <2>3 DEF Operating
    <3>2. f[i] = 0 /\ g[i] = Usable[wallet[c]] /\ h[i] = Usable[wallet[c]]
      BY <2>3, <3>1
    <3> HIDE DEF f, g, h
    <3> QED
      BY <1>2, <3>2, ConstantTypes
  <2>4. CASE i # c
    <3>1. g[i] = 0
      BY <2>4
    <3>2. i \in Operating <=> wallet[i].ada > 0 /\ ~ (wallet[i].ada > MaxFunding) /\ wallet[i].kind # "laden"
      BY <1>1, <2>4 DEF Operating, Protected, Live
    <3>3. f[i] = IF i \in Operating THEN wallet[i].ada ELSE 0
      OBVIOUS
    <3> HIDE DEF f, g, h
    <3> QED
      BY <2>1, <2>2, <3>1, <3>2, <3>3, ConstantTypes
  <2> QED
    BY <2>3, <2>4
<1>5. g[c] = CollateralAda /\ \A i \in Slots : i # c => g[i] = 0
  BY <1>2
<1> HIDE DEF f, g, h
<1>6. Sum(g) = CollateralAda
  BY <1>3, <1>5, SumOfOne
<1>7. Sum(h) = Sum(f) + Sum(g) /\ Sum(f) \in Int /\ Sum(h) \in Int
  BY <1>3, <1>4, SumAdds
<1> QED
  BY <1>6, <1>7, ConstantTypes DEF f, h, Worth, Weigh

\* The collateral of a trade that is confirmed is still there.
LEMMA CollateralStays ==
  ASSUME IInv, RolesHeld, Confirm, draft.action = "trade"
  PROVE  Collateral # {} /\ Collateral' # {}
<1>0. draft # None /\ wallet \in [Slots -> Rows]
  BY DEF Confirm, None, IInv, TypeOK
<1>1. PICK c \in Slots : Collateral = {c} /\ c \in Dedicated /\ wallet[c].ada = CollateralAda
  BY <1>0, CollateralIsOne DEF RolesHeld
<1>2. c \notin draft.rows \cup draft.extra /\ c \notin Free(wallet)
  <2>1. c \notin draft.rows
    BY <1>0, <1>1 DEF RolesHeld, Operating
  <2>2. draft.extra = {}
    BY ConfirmWeighs, WeightsAre
  <2> QED
    BY <1>1, <2>1, <2>2, ConstantTypes DEF Free
<1>3. draft.kept \in Nat /\ draft.reserve \in Nat /\ draft.change \in Nat /\ "bot" \in Kinds
  BY ConfirmWeighs, WeightsAre DEF Kinds
<1> DEFINE spent == draft.rows \cup draft.extra
<1>4. wallet' = Put(Put(Put(Without(wallet, spent), draft.kept, "bot"), draft.reserve, "bot"),
                   draft.change, "bot")
  BY DEF Confirm
<1> HIDE DEF spent
<1>5. Cardinality(Free(wallet)) >= 3
  BY <1>0 DEF RolesHeld
<1>6. \A j \in Slots \ (Free(wallet) \cup spent) : wallet'[j] = wallet[j]
  BY <1>0, <1>3, <1>4, <1>5, OthersStay
<1>7. wallet'[c] = wallet[c]
  BY <1>2, <1>6 DEF spent
<1>8. c \in Dedicated'
  BY <1>1, <1>7 DEF Dedicated, Protected, Live
<1>9. \E x \in Dedicated' : \A y \in Dedicated' : x <= y
  <2>1. Dedicated' \subseteq Nat /\ Dedicated' # {}
    BY <1>8, PlacesAre DEF Dedicated, Live
  <2> QED
    BY <2>1, LeastExists
<1> QED
  BY <1>1, <1>9 DEF Collateral

\* A confirmed trade gives the operating funds at least what it takes: what the
\* inventory can use afterwards weighs no less.
LEMMA TradeGivesBack ==
  ASSUME IInv, RolesHeld, Confirm, draft.action = "trade"
  PROVE  Weigh(Usable, wallet') >= Weigh(Usable, wallet)
         /\ Weigh(Usable, wallet) \in Int /\ Weigh(Usable, wallet') \in Int
<1>0. draft # None /\ draft \in Drafts /\ wallet \in [Slots -> Rows] /\ draft.stage = "signed"
  BY DEF Confirm, None, IInv, TypeOK
<1>1. /\ Weigh(Usable, wallet') + Part(Usable, wallet, draft.rows)
              = Weigh(Usable, wallet) + Usable[[ada |-> draft.kept, kind |-> "bot"]]
                  + Usable[[ada |-> draft.reserve, kind |-> "bot"]] + Usable[[ada |-> draft.change, kind |-> "bot"]]
      /\ draft.kept \in Nat /\ draft.reserve \in Nat /\ draft.change \in Nat /\ draft.more = 0
      /\ Weigh(Usable, wallet) \in Int /\ Weigh(Usable, wallet') \in Int
  BY ConfirmWeighs, WeightsAre
<1>2. Part(Usable, wallet, draft.rows) = draft.funding
  <2>1. \A i \in Slots : (IF i \in draft.rows THEN Usable[wallet[i]] ELSE 0)
                           = (IF i \in draft.rows THEN wallet[i].ada ELSE 0)
    <3> SUFFICES ASSUME NEW i \in Slots, i \in draft.rows PROVE Usable[wallet[i]] = wallet[i].ada
      OBVIOUS
    <3>1. i \in Operating /\ wallet[i] \in Rows
      BY <1>0 DEF RolesHeld
    <3>2. wallet[i].ada <= MaxFunding /\ wallet[i].kind # "laden"
      BY <3>1, ConstantTypes DEF Operating, Protected, Rows
    <3> QED
      BY <3>1, <3>2 DEF Usable
  <2>2. [i \in Slots |-> IF i \in draft.rows THEN Usable[wallet[i]] ELSE 0]
          = [i \in Slots |-> IF i \in draft.rows THEN wallet[i].ada ELSE 0]
    BY <2>1
  <2>3. Part(Usable, wallet, draft.rows) = Worth(draft.rows)
    BY <2>2 DEF Part, Worth
  <2> QED
    BY <1>0, <2>3 DEF RolesHeld
<1>3. \A n \in Nat : Usable[[ada |-> n, kind |-> "bot"]] = IF n <= MaxFunding THEN n ELSE 0
  BY DEF Usable, Rows, Kinds
<1>4. draft.reserve = 0 /\ draft.low = MinProfit /\ Inspected(draft)
  BY <1>0 DEF IInv, TradeAsked, SignedIsInspected
<1>5. Delta(draft) >= MinProfit /\ draft.fee >= 0
      /\ draft.funding + draft.net = draft.kept + draft.reserve + draft.change + draft.fee
  BY <1>0, <1>4, ConstantTypes DEF Inspected, Delta, Drafts
<1>6. GivenBack(draft.funding, draft.net, draft.kept)
  BY <1>0 DEF RolesHeld
<1>7. draft.funding \in Int /\ draft.net \in Int /\ draft.fee \in Int
  BY <1>0 DEF Drafts
<1> DEFINE k == Usable[[ada |-> draft.kept, kind |-> "bot"]]
           r == Usable[[ada |-> draft.reserve, kind |-> "bot"]]
           c == Usable[[ada |-> draft.change, kind |-> "bot"]]
<1>8. /\ k = IF draft.kept <= MaxFunding THEN draft.kept ELSE 0
      /\ c = IF draft.change <= MaxFunding THEN draft.change ELSE 0
      /\ r = IF draft.reserve <= MaxFunding THEN draft.reserve ELSE 0
  BY <1>1, <1>3
<1> HIDE DEF k, r, c
<1>9. k + c >= draft.funding /\ r = 0 /\ k \in Int /\ c \in Int
  BY <1>1, <1>4, <1>5, <1>6, <1>7, <1>8, ConstantTypes DEF GivenBack, Delta
<1> QED
  BY <1>1, <1>2, <1>7, <1>9 DEF k, r, c

\* A confirmed trade never takes from the operating funds, whatever role the
\* inventory gives the outputs afterwards.
THEOREM RolesSurvive == Spec => RolesKept
<1>1. Init => RolesHeld
  BY DEF Init, RolesHeld
<1>2. IInv /\ RolesHeld /\ [Next]_vars => RolesHeld'
  BY RolesStep
<1>3. IInv /\ IInv' /\ RolesHeld /\ OperatingCounted /\ OperatingCounted' /\ [Next]_vars =>
        [Confirm /\ draft.action = "trade" => Worth(Operating)' >= Worth(Operating)]_vars
  <2> SUFFICES ASSUME IInv, IInv', RolesHeld, OperatingCounted, OperatingCounted',
                      Confirm, draft.action = "trade"
               PROVE  Worth(Operating)' >= Worth(Operating)
    OBVIOUS
  <2>1. wallet \in [Slots -> Rows] /\ wallet' \in [Slots -> Rows]
    BY DEF IInv, TypeOK
  <2>2. Collateral # {} /\ Collateral' # {}
    BY CollateralStays
  <2>3. /\ Weigh(Usable, wallet') >= Weigh(Usable, wallet)
        /\ Weigh(Usable, wallet) \in Int /\ Weigh(Usable, wallet') \in Int
    BY TradeGivesBack
  <2>4. /\ Worth(Operating) = Weigh(Usable, wallet) - CollateralAda
        /\ Worth(Operating)' = Weigh(Usable, wallet') - CollateralAda
    BY <2>1, <2>2 DEF OperatingCounted
  <2> QED
    BY <2>3, <2>4, ConstantTypes
<1> QED
  BY <1>1, <1>2, <1>3, OperatingIsCounted, Invariant, PTL DEF Spec, RolesKept
=============================================================================
