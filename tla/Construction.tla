---------------------------- MODULE Construction ----------------------------
(***************************************************************************)
(* From a route to a signed transaction and back into the wallet: the      *)
(* inventory (trading.py), the sizing of fee, funding, change and          *)
(* collateral and the transfer that restores the wallet's roles            *)
(* (arbitrage_runtime.py), the balancing hook (transactions.py,            *)
(* execution.py), the independent inspection (signing.py) and the books    *)
(* that the result enters (arbitrage_risk.py).                             *)
(*                                                                         *)
(* Values are ADA: a route whose native assets do not net to zero is       *)
(* refused before anything is sized.  An output's minimum does not depend  *)
(* on its size.  The library that balances a body is external: the body    *)
(* may come back with any fee, an input nobody chose, or collateral        *)
(* fields other than the hook's.  Rows of the venues, redeemers, validity  *)
(* and required signers are left out.                                      *)
(***************************************************************************)
EXTENDS Integers, FiniteSets

CONSTANTS
  Places,         \* bound: places for the wallet's outputs
  Wallets,        \* what may lie there at first
  Percent,        \* collateral_percent of the protocol
  MinAda,         \* min_lovelace of a plain output
  MaxFunding, CollateralAda, Target, MinProfit, MaxMaintenance, MaxDrawdown,
  FeeCaps,        \* {max_fee_lovelace}, or empty for None
  Nets,           \* what the contributions of a route may net
  Fees,           \* what a balanced body may cost
  Totals,         \* total_collateral of a body that lost the hook
  MaxBuilds       \* bound: candidates built

Slots == 1..Places
Kinds == {"given", "bot", "laden"}
Rows == [ada : Nat, kind : Kinds]
Empty == [ada |-> 0, kind |-> "given"]
None == [stage |-> "none"]
Absent == -1   \* an optional field left out

\* A candidate before it is balanced.
Blank ==
  [stage |-> "built", action |-> "trade", rows |-> {}, funding |-> 0, collateral |-> 0,
   net |-> 0, kept |-> 0, reserve |-> 0, maxFee |-> 0, maxLoss |-> 0, low |-> 0, high |-> 0,
   fee |-> 0, change |-> 0, total |-> Absent, ret |-> Absent, extra |-> {}, more |-> 0]

ASSUME ConstructionAssumption ==
  /\ Places \in Nat
  /\ Wallets \subseteq [Slots -> Rows]
  /\ {Percent, MinAda, MaxFunding, CollateralAda, Target, MinProfit,
      MaxMaintenance, MaxDrawdown} \subseteq Nat \ {0}
  /\ Target <= MaxFunding
  /\ FeeCaps \subseteq Nat \ {0} /\ (\A x, y \in FeeCaps : x = y)
  /\ Nets \subseteq Int /\ Fees \subseteq Nat
  /\ Totals \subseteq 0 .. CollateralAda /\ MaxBuilds \in Nat

\* Left to the operator: the outputs of the roles can exist.
ASSUME RolesAssumption == MinAda <= Target /\ MinAda <= CollateralAda

VARIABLES
  wallet,         \* the owner's outputs, Empty where there is none
  draft,          \* the candidate in hand, or None
  earned, peak,   \* verified cumulative result of the strategy and its highest
  builds,         \* candidates built so far
  best            \* history: the most the wallet ever held

vars == <<wallet, draft, earned, peak, builds, best>>

Least(x, y) == IF x <= y THEN x ELSE y
Most(x, y) == IF x >= y THEN x ELSE y
CeilDiv(n, d) == (n + d - 1) \div d

Live == {i \in Slots : wallet[i].ada > 0}

\* The sum of an amount at each place, and what some of the outputs hold.
Sum(amounts) ==
  LET sum[n \in 0..Places] == IF n = 0 THEN 0 ELSE sum[n - 1] + amounts[n]
  IN  sum[Places]
Worth(ids) == Sum([i \in Slots |-> IF i \in ids THEN wallet[i].ada ELSE 0])

----------------------------------------------------------------------------
(* wallet_inventory.                                                       *)

Protected == {i \in Live : wallet[i].ada > MaxFunding}
Dedicated ==
  {i \in Live \ Protected : wallet[i].kind # "laden" /\ wallet[i].ada = CollateralAda}
Collateral == {i \in Dedicated : \A j \in Dedicated : i <= j}
Operating == {i \in Live \ (Protected \cup Collateral) : wallet[i].kind # "laden"}

----------------------------------------------------------------------------
(* What a body costs.                                                      *)

Loss(peakNow, earnedNow) == peakNow - earnedNow
Headroom == MaxDrawdown - Loss(peak, earned)

\* What the owner's outputs hold more than his inputs.
Delta(b) == b.kept + b.reserve + b.change - b.funding - b.more

\* Slip: the return is taken off a total that is net of it already.
CollateralLossNetted(b) ==
  IF b.total = Absent THEN b.collateral ELSE b.total - (IF b.ret = Absent THEN 0 ELSE b.ret)

\* collateral_loss: what a phase-2 failure is booked at.
CollateralLoss(b) == IF b.total = Absent THEN b.collateral ELSE b.total

\* candidate_loss: success and failure are alternatives.
CandidateLoss(b) == IF b.collateral > 0 THEN CollateralLoss(b) ELSE b.fee

\* The ledger takes the collateral and gives back the return.
Taken(b) == b.collateral - (IF b.ret = Absent THEN 0 ELSE b.ret)

----------------------------------------------------------------------------
(* Sizing a trade.                                                         *)

Exposure == CollateralAda - MinAda

\* Slip: the reserve is turned into a fee allowance rounded up.
AllowancesRoundedUp(net) ==
  {net - MinProfit, CeilDiv(Least(Exposure, Headroom) * 100, Percent)} \cup FeeCaps

\* The fee must leave the floor, and its collateral the reserve and the headroom.
Allowances(net) ==
  {net - MinProfit, (Exposure * 100) \div Percent, (Headroom * 100) \div Percent} \cup FeeCaps
FeeLimit(net) == CHOOSE a \in Allowances(net) : \A b \in Allowances(net) : a <= b

\* Operating rows in ascending order until they hold what is required.
Before(i, j) ==
  wallet[i].ada < wallet[j].ada \/ (wallet[i].ada = wallet[j].ada /\ i < j)
Selected(required) ==
  {i \in Operating : Worth({j \in Operating : Before(j, i)}) < required}

\* Slip: large proceeds all go to one change output.
KeptInChange(funding, net, limit) ==
  LET back == Most(funding, Target)
  IN  IF funding + net - limit >= back + MinAda THEN {back} ELSE {0}

\* The operating output committed before balancing; none fits when empty.
Kept(funding, net, limit) ==
  LET back == Most(funding, Target)
      large == funding + net > MaxFunding
  IN  CASE funding + net - limit >= back + MinAda -> {back}
        [] funding + net - limit < back + MinAda /\ large ->
             {k \in {funding} : funding >= MinAda /\ net - limit >= MinAda}
        [] OTHER -> {0}

\* _set_collateral_return: sized by the authorized ceiling, not by the fee.
Sized(limit) == CeilDiv(limit * Percent, 100)

Unset == [total |-> Absent, ret |-> Absent]
Nothing == [rows |-> {}, ada |-> 0]

\* The hook's fields, and what a body that lost them may carry.
Fields(limit, collateral) ==
  {[total |-> Sized(limit), ret |-> collateral - Sized(limit)]}
    \cup {[total |-> t, ret |-> collateral - t] : t \in Totals}
    \cup {[total |-> t, ret |-> Absent] : t \in Totals \cup {Absent}}

\* Rows that the balancer may take of its own accord.
Strays(a) ==
  {Nothing} \cup {[rows |-> {i}, ada |-> wallet[i].ada] : i \in Live \ (a.rows \cup Collateral)}

\* build: the rest is change.
Body(a, fee, f, x) ==
  [a EXCEPT !.fee = fee, !.total = f.total, !.ret = f.ret, !.extra = x.rows, !.more = x.ada,
            !.change = a.funding + x.ada + a.net - a.kept - a.reserve - fee]

Balanced(a) ==
  {Body(a, fee, f, x) :
     fee \in Fees,
     f \in IF a.collateral > 0 THEN Fields(a.maxFee, a.collateral) ELSE {Unset},
     x \in Strays(a)}

\* build_transaction raises on what exceeds the ceilings, the library on dust.
Built(a) ==
  {b \in Balanced(a) : b.fee <= b.maxFee /\ b.total <= b.maxLoss /\ b.change >= MinAda}

----------------------------------------------------------------------------
(* inspect_transaction.                                                    *)

\* Slip: whether the collateral adds up is only asked where some is returned.
CollateralInOrderIfReturned(b) ==
  LET loss == IF b.total = Absent /\ b.ret = Absent THEN b.collateral ELSE b.total
  IN  /\ loss \in 0 .. b.maxLoss
      /\ loss * 100 >= b.fee * Percent
      /\ b.ret # Absent => b.ret >= MinAda /\ b.collateral - b.ret = loss

\* An omitted amount is the whole collateral; what is returned is the rest.
CollateralInOrder(b) ==
  LET loss == IF b.total = Absent /\ b.ret = Absent THEN b.collateral ELSE b.total
  IN  /\ loss \in 0 .. b.maxLoss
      /\ loss * 100 >= b.fee * Percent
      /\ b.ret # Absent => b.ret >= MinAda
      /\ b.collateral - (IF b.ret = Absent THEN 0 ELSE b.ret) = loss

Inspected(b) ==
  /\ b.fee \in 0 .. b.maxFee
  /\ b.extra = {}
  /\ \A out \in {b.kept, b.reserve} : out = 0 \/ out >= MinAda
  /\ b.change >= MinAda
  /\ b.funding + b.net = b.kept + b.reserve + b.change + b.fee
  /\ Delta(b) \in b.low .. b.high
  /\ IF b.collateral > 0 THEN CollateralInOrder(b) ELSE b.total = Absent /\ b.ret = Absent

----------------------------------------------------------------------------
(* The actions.                                                            *)

Init ==
  /\ wallet \in Wallets
  /\ draft = None
  /\ earned = 0 /\ peak = 0
  /\ builds = 0 /\ best = Worth(Live)

\* Slip: any output that is too large for an operating row.
SourcesAny == Operating \cup Protected

\* What an allocation may spend: operating rows and the proceeds of the bot.
Sources == Operating \cup {i \in Protected : wallet[i].kind = "bot"}

Missing == Worth(Operating) < Target \/ Collateral = {}
Reserve == IF Collateral = {} THEN CollateralAda ELSE 0
Sufficient == {i \in Sources : wallet[i].ada >= Target + Reserve + MaxMaintenance}
Source == {i \in Sufficient : \A j \in Sufficient : wallet[i].ada <= wallet[j].ada}

\* A tick that finds no pending candidate and room for a loss.
MayBuild ==
  /\ draft = None /\ builds < MaxBuilds
  /\ Cardinality(Slots \ Live) >= 3
  /\ Headroom > 0

\* build_allocation: one source restores the target and missing collateral.
BuildAllocation ==
  /\ MayBuild /\ Missing
  /\ \E i \in Source :
       LET a == [Blank EXCEPT !.action = "allocate", !.rows = {i}, !.funding = wallet[i].ada,
                   !.kept = Target, !.reserve = Reserve, !.maxFee = MaxMaintenance,
                   !.low = - MaxMaintenance]
       IN  draft' \in Built(a)
  /\ builds' = builds + 1
  /\ UNCHANGED <<wallet, earned, peak, best>>

\* build_route, for a route whose contributions net that much.
BuildRoute(net) ==
  /\ MayBuild /\ ~ (Missing /\ Source # {})
  /\ FeeLimit(net) > 0
  /\ \E c \in Collateral, funding \in 0 .. MaxFunding :
       LET limit == FeeLimit(net)
           required == Most(1, limit + MinAda - net)
       IN  /\ funding = Worth(Selected(required)) /\ funding >= required
           /\ \E kept \in Kept(funding, net, limit) :
                LET a == [Blank EXCEPT !.rows = Selected(required), !.funding = funding,
                            !.collateral = wallet[c].ada, !.net = net, !.kept = kept,
                            !.maxFee = limit, !.maxLoss = Least(Exposure, Headroom),
                            !.low = MinProfit, !.high = net]
                IN  draft' \in Built(a)
  /\ builds' = builds + 1
  /\ UNCHANGED <<wallet, earned, peak, best>>

\* finish_candidate: check_candidate, and LocalSigner after its inspection.
Sign ==
  /\ draft.stage = "built" /\ Inspected(draft)
  /\ CandidateLoss(draft) <= Headroom
  /\ draft' = [draft EXCEPT !.stage = "signed"]
  /\ UNCHANGED <<wallet, earned, peak, builds, best>>

\* Refused, abandoned, expired or conflicted: nothing was spent.
Drop ==
  /\ draft # None
  /\ draft' = None
  /\ UNCHANGED <<wallet, earned, peak, builds, best>>

Without(w, ids) == [i \in Slots |-> IF i \in ids THEN Empty ELSE w[i]]
FirstFree(w) == CHOOSE i \in Slots : w[i].ada = 0 /\ \A j \in Slots : w[j].ada = 0 => i <= j
Put(w, ada, kind) ==
  IF ada = 0 THEN w ELSE [w EXCEPT ![FirstFree(w)] = [ada |-> ada, kind |-> kind]]

Book(result) ==
  /\ earned' = earned + result
  /\ peak' = Most(peak, earned')
  /\ best' = Most(best, Worth(Live)')

\* The body is confirmed: settlement books the wallet's delta.
Confirm ==
  /\ draft.stage = "signed"
  /\ wallet' = Put(Put(Put(Without(wallet, draft.rows \cup draft.extra),
                          draft.kept, "bot"), draft.reserve, "bot"), draft.change, "bot")
  /\ Book(Delta(draft))
  /\ draft' = None
  /\ UNCHANGED builds

\* A script of it fails: the collateral is taken and its loss booked.
Fail ==
  /\ draft.stage = "signed" /\ draft.collateral > 0
  /\ wallet' = Put(Without(wallet, Collateral), draft.collateral - Taken(draft), "given")
  /\ Book(- CollateralLoss(draft))
  /\ draft' = None
  /\ UNCHANGED builds

Next ==
  \/ BuildAllocation
  \/ \E net \in Nets : BuildRoute(net)
  \/ Sign \/ Drop \/ Confirm \/ Fail

Spec == Init /\ [][Next]_vars

----------------------------------------------------------------------------
(* Properties.                                                             *)

\* What build_route and build_allocation size themselves is never refused: the
\* collateral of a fee ceiling fits what may be lost, and to the signer fee,
\* collateral, change and delta limits fit together.
BuiltIsAccepted ==
  /\ \A net \in Nets : FeeLimit(net) > 0 => Sized(FeeLimit(net)) <= Least(Exposure, Headroom)
  /\ draft.stage = "built" /\ draft.extra = {}
       /\ draft.total = (IF draft.collateral > 0 THEN Sized(draft.maxFee) ELSE Absent)
       /\ (draft.ret = Absent <=> draft.collateral = 0)
     => Inspected(draft)

\* Whatever the balancer returned, a body that was signed earns the floor or
\* costs the maintenance fee at most, and if a script fails the ledger takes no
\* more than was reserved, which leaves a spendable return.
SignedIsBounded ==
  draft.stage = "signed" =>
    /\ Delta(draft) >= IF draft.action = "trade" THEN MinProfit ELSE - MaxMaintenance
    /\ draft.collateral > 0 =>
         /\ Taken(draft) <= Least(Exposure, Headroom)
         /\ Taken(draft) <= CandidateLoss(draft)

\* However many candidates are built, succeed or fail, the wallet never holds
\* less than its best by more than max_drawdown: the headroom each of them is
\* measured against follows what the ledger really took.
WalletWithinDrawdown == best - Worth(Live) <= MaxDrawdown

\* The same by the books.
BooksWithinDrawdown == Loss(peak, earned) <= MaxDrawdown

\* Outputs keep their roles: a confirmed trade never takes from the operating
\* funds, however large its proceeds, which do not end in an output that the
\* inventory protects.
RolesKept ==
  [][Confirm /\ draft.action = "trade" => Worth(Operating)' >= Worth(Operating)]_vars

\* What is not the strategy's, the faucet's reserve and outputs with tokens or
\* datums, is never spent: not as a source, a funding row or collateral, and not
\* by the balancer.
ReservesKept ==
  [][\A i \in Live :
       wallet[i].kind = "laden" \/ (wallet[i].kind = "given" /\ i \in Protected)
         => wallet'[i] = wallet[i]]_vars
=============================================================================
