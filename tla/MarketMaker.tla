---------------------------- MODULE MarketMaker ----------------------------
(***************************************************************************)
(* The market maker of one wallet (engine.py, with the planning limits of  *)
(* trading.py): TradingEngine.tick over the wallet's order history on the  *)
(* ledger.  It publishes a bid and an ask, follows their fills, cancels    *)
(* both before it publishes again or swaps inventory at the pool, and      *)
(* works off a cancellation request.                                       *)
(*                                                                         *)
(* The ledger is the state `world` of everything at confirmation depth and *)
(* the sequence `recent` of order events above it, each with the wallet it *)
(* leads to, which a roll-back may still cut.  What the Coordinator module *)
(* shows is used here: the journal holds one open candidate, and gives it  *)
(* up only when it can never land.                                         *)
(* Prices, ADA amounts and ages only choose between steps; tokens, fees    *)
(* and the order of reads and writes are kept.                             *)
(***************************************************************************)
EXTENDS Integers, Sequences

CONSTANTS
  OrderSize,    \* settings.order_size: tokens a bid asks for and an ask offers
  BidMost,      \* bid_token_exposure: tokens a bid can be made to buy
  Target,       \* settings.target_base
  MaxBase,      \* settings.max_base
  Threshold,    \* execution.rebalance_threshold_base (0: never)
  MaxRebalance, \* execution.max_rebalance_base
  MaxFee,       \* execution.max_fee_lovelace, what a transaction costs here
  Venue,        \* fixed venue fee of a swap at the pool
  Collateral,   \* execution.collateral_lovelace, what a failed script costs
  MaxTotalFees, \* execution.max_total_fees_lovelace
  MaxRecent,    \* bound: order events above confirmation depth
  MaxForks,     \* bound: roll-backs
  MaxPaid       \* bound: costs up to which a script may fail

ASSUME MarketMakerAssumption ==
  /\ OrderSize \in Nat \ {0} /\ BidMost \in Nat /\ BidMost >= OrderSize
  /\ MaxBase \in Nat /\ Target \in 0..MaxBase
  /\ Threshold \in Nat /\ MaxRebalance \in Nat \ {0}
  /\ MaxFee \in Nat \ {0} /\ Venue \in Nat /\ Collateral \in Nat \ {0}
  /\ MaxTotalFees \in Nat \ {0}
  /\ MaxRecent \in Nat \ {0} /\ MaxForks \in Nat /\ MaxPaid \in Nat

VARIABLES
  world,        \* the wallet on the ledger, up to confirmation depth
  recent,       \* order events above it
  forks,        \* roll-backs so far
  cand,         \* the open candidate of the journal
  incident,     \* an unacknowledged script failure
  stopping,     \* run_control.stop_requested
  cancel,       \* engine_control.cancel_requested
  pc,           \* where the tick is
  view,         \* the projection this tick works on
  plan,         \* the action it has decided on
  calm          \* history: no tick is cut short any more (liveness only)

ledgerVars == <<world, recent, forks>>
flags == <<incident, stopping, cancel>>
tickVars == <<pc, view, plan>>
vars == <<ledgerVars, cand, flags, tickVars, calm>>

Own == {"publish", "cancel", "sell", "buy", "route"}
NoOrder == [live |-> FALSE, left |-> 0, fills |-> 0]
NoPlan == [action |-> "none", q |-> 0, refs |-> <<0, 0>>]
NoCand == [plan |-> NoPlan, status |-> "none", fate |-> "open"]
NoView == [bid |-> NoOrder, ask |-> NoOrder, paid |-> 0, pending |-> FALSE]

Orders == [live : BOOLEAN, left : 0..BidMost, fills : Nat]
Plans == [action : Own \cup {"none"}, q : Nat, refs : Nat \X Nat]
Wallets == [base : Nat, bid : Orders, ask : Orders, paid : Nat, twice : BOOLEAN, beyond : BOOLEAN]
Events == [kind : Own \cup {"fail", "bid", "ask"}, q : Nat, wallet : Wallets]

TypeOK ==
  /\ world \in Wallets
  /\ recent \in Seq(Events) /\ Len(recent) <= MaxRecent /\ forks \in 0..MaxForks
  /\ cand \in [plan : Plans, status : {"none", "prepared", "signed", "flying", "included"},
               fate : {"open", "landed", "failed", "dead"}]
  /\ cand.status = "none" <=> cand.plan.action = "none"
  /\ incident \in BOOLEAN /\ stopping \in BOOLEAN /\ cancel \in BOOLEAN
  /\ pc \in {"idle", "reconcile", "resync", "decide", "prepare", "sign", "prepared", "submit"}
  /\ view \in [bid : Orders, ask : Orders, paid : Nat, pending : BOOLEAN]
  /\ plan \in Plans /\ calm \in BOOLEAN

Init ==
  /\ world \in [base : 0..MaxBase, bid : {NoOrder}, ask : {NoOrder}, paid : {0},
                twice : {FALSE}, beyond : {FALSE}]
  /\ recent = <<>> /\ forks = 0
  /\ cand = NoCand
  /\ incident = FALSE /\ stopping = FALSE /\ cancel = FALSE
  /\ pc = "idle" /\ view = NoView /\ plan = NoPlan /\ calm = FALSE

----------------------------------------------------------------------------
(* The ledger.  A bid holds the tokens it has bought and an ask those it   *)
(* still offers; both stay live until their owner closes them.             *)

Cost(kind) ==
  CASE kind \in {"publish", "cancel"} -> MaxFee
    [] kind \in {"sell", "buy", "route"} -> MaxFee + Venue
    [] kind = "fail" -> Collateral
    [] OTHER -> 0

\* Tokens in live orders, and those a bid may still bring in.
Committed(bid, ask) ==
  (IF ask.live THEN ask.left ELSE 0) + (IF bid.live THEN BidMost - bid.left ELSE 0)
Exposure(w) ==
  w.base + Committed(w.bid, w.ask) + (IF w.bid.live THEN w.bid.left ELSE 0)

Placed(n) == [live |-> TRUE, left |-> n, fills |-> 0]
Taken(o, n) == [o EXCEPT !.left = @ - n, !.fills = @ + 1]

\* twice and beyond are history: a pair published over a live one, work that
\* was admitted beyond the fee budget.
Charged(w, kind) ==
  [w EXCEPT !.paid = @ + Cost(kind),
            !.beyond = @ \/ (kind \in Own \ {"cancel"} /\ w.paid + Cost(kind) > MaxTotalFees)]

Apply(w, kind, q) ==
  LET p == Charged(w, kind)
  IN CASE kind = "publish" ->
            [p EXCEPT !.base = @ - OrderSize, !.bid = Placed(BidMost), !.ask = Placed(OrderSize),
                      !.twice = @ \/ w.bid.live \/ w.ask.live]
       [] kind = "cancel" ->
            [p EXCEPT !.base = @ + Committed(w.bid, w.ask), !.bid = NoOrder, !.ask = NoOrder]
       [] kind = "sell" -> [p EXCEPT !.base = @ - q]
       [] kind = "buy"  -> [p EXCEPT !.base = @ + q]
       [] kind = "bid"  -> [p EXCEPT !.bid = Taken(@, q)]
       [] kind = "ask"  -> [p EXCEPT !.ask = Taken(@, q)]
       [] OTHER -> p

\* The wallet at the tip of the chain.
Now == IF recent = <<>> THEN world ELSE recent[Len(recent)].wallet

OwnAbove == \E k \in 1..Len(recent) : recent[k].kind \in Own \cup {"fail"}
Happen(kind, q) ==
  /\ Len(recent) < MaxRecent
  /\ recent' = Append(recent, [kind |-> kind, q |-> q, wallet |-> Apply(Now, kind, q)])
  /\ UNCHANGED <<world, forks, cand, flags, tickVars, calm>>

\* A stranger fills part of an order, at any moment.
Fill ==
  \E side \in {"bid", "ask"}, n \in 1..BidMost :
    /\ Now[side].live /\ n <= Now[side].left
    /\ Happen(side, n)

\* A cancel spends the very outputs it names; a fill replaces them.
Includable ==
  /\ cand.status \in {"flying", "included"} /\ cand.fate = "open"
  /\ ~ OwnAbove
  /\ cand.plan.action = "cancel" =>
       Now.bid.live /\ Now.ask.live /\ cand.plan.refs = <<Now.bid.fills, Now.ask.fills>>

Land == Includable /\ Happen(cand.plan.action, cand.plan.q)

LandFailed ==
  /\ Includable /\ Now.paid + Collateral <= MaxPaid
  /\ Happen("fail", 0)

\* The oldest event reaches confirmation depth.
Settle ==
  /\ recent # <<>>
  /\ world' = Head(recent).wallet
  /\ recent' = Tail(recent)
  /\ cand' = IF Head(recent).kind \in Own THEN [cand EXCEPT !.fate = "landed"]
             ELSE IF Head(recent).kind = "fail" THEN [cand EXCEPT !.fate = "failed"]
             ELSE cand
  /\ UNCHANGED <<forks, flags, tickVars, calm>>

Rollback ==
  /\ forks < MaxForks
  /\ \E n \in 0..(Len(recent) - 1) : recent' = SubSeq(recent, 1, n)
  /\ forks' = forks + 1
  /\ UNCHANGED <<world, cand, flags, tickVars, calm>>

\* The validity interval of a candidate that is not on the chain is over, at
\* confirmation depth.
Expire ==
  /\ cand.status # "none" /\ cand.fate = "open" /\ ~ OwnAbove
  /\ cand' = [cand EXCEPT !.fate = "dead"]
  /\ UNCHANGED <<ledgerVars, flags, tickVars, calm>>

----------------------------------------------------------------------------
(* The tick: reconcile.                                                    *)

Finish == pc' = "idle" /\ view' = NoView /\ plan' = NoPlan

\* A provider error, a stale tip or a gate pauses the cycle; a crash ends it.
Interrupt ==
  /\ pc # "idle" /\ ~ calm /\ Finish
  /\ UNCHANGED <<ledgerVars, cand, flags, calm>>

\* OrderObserver.sync: confirmed orders, and whether younger activity exists at
\* the order address.  Its closing re-read of every block makes it one read.
Projection ==
  [bid |-> world.bid, ask |-> world.ask, paid |-> 0,
   pending |-> \E k \in 1..Len(recent) : recent[k].kind \in {"publish", "cancel", "bid", "ask"}]

Sync ==
  /\ pc = "idle" /\ ~ stopping
  /\ view' = Projection
  /\ pc' = "reconcile"
  /\ UNCHANGED <<ledgerVars, cand, flags, plan, calm>>

\* Coordinator.reconcile of the open candidate.
Resolved ==
  \/ /\ cand.fate \in {"landed", "failed", "dead"}
     /\ cand' = NoCand
     /\ incident' = (incident \/ cand.fate = "failed")
  \/ /\ cand.fate = "open" /\ cand.status \in {"flying", "included"}
     /\ cand' = [cand EXCEPT !.status =
                   IF \E k \in 1..Len(recent) : recent[k].kind \in Own
                   THEN "included" ELSE "flying"]
     /\ UNCHANGED incident
  \/ /\ cand.fate = "open" /\ cand.status \in {"none", "prepared", "signed"}
     /\ UNCHANGED <<cand, incident>>

\* Slips: the projection read before the candidate moved is kept; an expired
\* candidate stays open.
ReconcileUnsynced ==
  /\ pc = "reconcile" /\ Resolved
  /\ pc' = "decide"
  /\ view' = [view EXCEPT !.paid = world.paid]
  /\ UNCHANGED <<ledgerVars, stopping, cancel, plan, calm>>
ReconcileUnretired ==
  /\ pc = "reconcile"
  /\ IF cand.fate = "dead" THEN UNCHANGED <<cand, incident>> ELSE Resolved
  /\ pc' = IF cand'.status # cand.status THEN "resync" ELSE "decide"
  /\ view' = [view EXCEPT !.paid = world.paid]
  /\ UNCHANGED <<ledgerVars, stopping, cancel, plan, calm>>

\* Any change of its status asks for the projection again.
Reconcile ==
  /\ pc = "reconcile" /\ Resolved
  /\ pc' = IF cand'.status # cand.status THEN "resync" ELSE "decide"
  /\ view' = [view EXCEPT !.paid = world.paid]
  /\ UNCHANGED <<ledgerVars, stopping, cancel, plan, calm>>

Resync ==
  /\ pc = "resync"
  /\ view' = [Projection EXCEPT !.paid = view.paid]
  /\ pc' = "decide"
  /\ UNCHANGED <<ledgerVars, cand, flags, plan, calm>>

----------------------------------------------------------------------------
(* The tick: an open candidate first.                                      *)

Going == pc = "decide" /\ ~ stopping

\* A candidate that was never signed is given up.
Recover ==
  /\ Going /\ cand.status = "prepared"
  /\ cand' = NoCand
  /\ Finish /\ UNCHANGED <<ledgerVars, flags, calm>>

\* The original bytes, unless a cancellation is under way and they are not one.
Resume ==
  /\ Going /\ cand.status = "signed"
  /\ ~ cancel \/ cand.plan.action = "cancel"
  /\ pc' = "submit"
  /\ UNCHANGED <<ledgerVars, cand, flags, view, plan, calm>>

\* Nothing to do until the candidate or young activity has settled.
Wait ==
  /\ pc = "decide"
  /\ \/ stopping
     \/ cand.status \in {"signed", "flying", "included"}
     \/ cand.status = "none" /\ view.pending
  /\ Finish /\ UNCHANGED <<ledgerVars, cand, flags, calm>>

Clear == Going /\ cand.status = "none" /\ ~ view.pending
Live == view.bid.live \/ view.ask.live

\* Slip: the orders seen closed are enough, whatever is still under way.
CancelledEarly ==
  /\ Going /\ cancel /\ ~ Live
  /\ cancel' = FALSE
  /\ Finish /\ UNCHANGED <<ledgerVars, cand, incident, stopping, calm>>

\* Every order is confirmed closed and nothing is under way.
Cancelled ==
  /\ Clear /\ cancel /\ ~ Live
  /\ cancel' = FALSE
  /\ Finish /\ UNCHANGED <<ledgerVars, cand, incident, stopping, calm>>

----------------------------------------------------------------------------
(* The tick: what to do next.  wallet_inventory refuses a wallet output    *)
(* that is not at confirmation depth.                                      *)

Deciding == Clear /\ (Live \/ ~ cancel) /\ ~ OwnAbove
Free == Now.base
Total == Free + Committed(view.bid, view.ask)
Imbalance == Total - Target
OverBudget == view.paid + MaxFee > MaxTotalFees
OverLimit == cancel \/ OverBudget \/ Total > MaxBase
Rebalance == Threshold > 0 /\ (Imbalance >= Threshold \/ - Imbalance >= Threshold)

\* Slip: the pool's fee is not counted.
AdmittedWithoutVenue(action) == view.paid + MaxFee <= MaxTotalFees
\* The lifetime fee budget; a cleanup cancel is exempt.
Admitted(action) ==
  view.paid + MaxFee + (IF action = "publish" THEN 0 ELSE Venue) <= MaxTotalFees

\* Slip: a bid brings in no more than its size.
FitsNominally(action, q) ==
  CASE action = "publish" -> Free >= OrderSize /\ Total + OrderSize <= MaxBase
    [] action = "buy" -> Total + q <= MaxBase
    [] action = "sell" -> q <= Free
    [] OTHER -> TRUE

\* Inventory limits of MarketMaker.decide, the tick and prepare_action.
Fits(action, q) ==
  CASE action = "publish" ->
         /\ Free >= OrderSize /\ Total + OrderSize <= MaxBase
         /\ Free + BidMost <= MaxBase
    [] action = "buy" -> Total + q <= MaxBase
    [] action = "sell" -> q <= Free
    [] OTHER -> TRUE

Pick(action, q) ==
  /\ plan' = [action |-> action, q |-> q, refs |-> <<view.bid.fills, view.ask.fills>>]
  /\ pc' = "prepare"
  /\ UNCHANGED <<ledgerVars, cand, flags, view, calm>>

\* Limits, fills, age, inventory and price all lead to the same first stage:
\* close every order.
PickCancel == Deciding /\ Live /\ Pick("cancel", 0)

PickSwap ==
  /\ Deciding /\ ~ Live /\ ~ OverLimit /\ Rebalance
  /\ LET size == IF Imbalance > 0 THEN Imbalance ELSE - Imbalance
         q == IF size > MaxRebalance THEN MaxRebalance ELSE size
         action == IF Imbalance > 0 THEN "sell" ELSE "buy"
     IN  Fits(action, q) /\ Admitted(action) /\ Pick(action, q)

PickPublish ==
  /\ Deciding /\ ~ Live /\ ~ OverLimit /\ ~ Rebalance
  /\ Fits("publish", 0) /\ Admitted("publish") /\ Pick("publish", 0)

\* A run in route mode trades through the wallet and leaves its orders alone.
PickRoute == Deciding /\ ~ OverLimit /\ Admitted("route") /\ Pick("route", 0)

\* Paused at a limit, or nothing worth doing.
Hold ==
  /\ Clear /\ ~ (Live /\ OverLimit) /\ ~ (cancel /\ ~ Live)
  /\ Finish /\ UNCHANGED <<ledgerVars, cand, flags, calm>>

----------------------------------------------------------------------------
(* The tick: prepare and submit.                                           *)

\* Dependencies are read again: the orders a cancel closes are still these.
Unspent(p) ==
  p.action = "cancel" =>
    Now.bid.live /\ Now.ask.live /\ p.refs = <<Now.bid.fills, Now.ask.fills>>

Prepare ==
  /\ pc = "prepare" /\ ~ stopping
  /\ ~ incident /\ Unspent(plan)
  /\ cand' = [plan |-> plan, status |-> "prepared", fate |-> "open"]
  /\ pc' = "sign"
  /\ UNCHANGED <<ledgerVars, flags, view, plan, calm>>

Sign ==
  /\ pc = "sign" /\ cand.status = "prepared"
  /\ cand' = [cand EXCEPT !.status = "signed"]
  /\ pc' = "prepared"
  /\ UNCHANGED <<ledgerVars, flags, view, plan, calm>>

Proceed ==
  /\ pc = "prepared" /\ ~ stopping
  /\ pc' = "submit"
  /\ UNCHANGED <<ledgerVars, cand, flags, view, plan, calm>>

\* Stopped at one of the checks, or a gate of prepare or submit raised.
Refuse ==
  /\ \/ pc \in {"prepare", "prepared"} /\ stopping
     \/ pc = "prepare" /\ (incident \/ ~ Unspent(plan))
     \/ pc = "submit" /\ (stopping \/ incident \/ cand.fate = "dead" \/ ~ Unspent(cand.plan))
  /\ Finish /\ UNCHANGED <<ledgerVars, cand, flags, calm>>

\* Gates, claim and the one wire call; delivery is the ledger's affair.
Submit ==
  /\ pc = "submit" /\ cand.status = "signed"
  /\ ~ stopping /\ ~ incident /\ cand.fate # "dead" /\ Unspent(cand.plan)
  /\ cand' = [cand EXCEPT !.status = "flying"]
  /\ Finish /\ UNCHANGED <<ledgerVars, flags, calm>>

----------------------------------------------------------------------------
(* The operator.  The cancel command takes the wallet lock and starts a    *)
(* run; stop takes no lock.                                                *)

StartRun ==
  /\ pc = "idle" /\ stopping /\ stopping' = FALSE
  /\ UNCHANGED <<ledgerVars, cand, incident, cancel, tickVars, calm>>

RequestCancel ==
  /\ pc = "idle" /\ ~ cancel /\ cancel' = TRUE /\ stopping' = FALSE
  /\ UNCHANGED <<ledgerVars, cand, incident, tickVars, calm>>

RequestStop ==
  /\ ~ stopping /\ stopping' = TRUE
  /\ UNCHANGED <<ledgerVars, cand, incident, cancel, tickVars, calm>>

Acknowledge ==
  /\ pc = "idle" /\ incident /\ incident' = FALSE
  /\ UNCHANGED <<ledgerVars, cand, stopping, cancel, tickVars, calm>>

----------------------------------------------------------------------------
Ledger == Fill \/ Land \/ LandFailed \/ Settle \/ Rollback \/ Expire

Tick ==
  \/ Sync \/ Reconcile \/ Resync \/ Recover \/ Resume \/ Wait \/ Cancelled
  \/ PickCancel \/ PickSwap \/ PickPublish \/ PickRoute \/ Hold
  \/ Prepare \/ Sign \/ Proceed \/ Refuse \/ Submit

Operator == StartRun \/ RequestCancel \/ RequestStop \/ Acknowledge

Next == Ledger \/ Tick \/ Operator \/ Interrupt

Spec == Init /\ [][Next]_vars

----------------------------------------------------------------------------
(* Properties.                                                             *)

\* Repricing is staged: a new pair never lands over a live one, whatever was
\* rolled back, filled or resumed in between (tick, engine.py:375).
NeverTwoPairs == ~ Now.twice

\* The tokens of wallet and orders stay within max_base even if every bid is
\* taken to the last token its carrier can pay for (prepare_action, decide).
BaseWithinLimit == Exposure(Now) <= MaxBase

\* The lifetime budget admits no work beyond it; only cleanup and failed
\* scripts may exceed it (operator.md:49).
AdmissionBudget == ~ Now.beyond

\* While a cancellation is requested nothing but cancels leaves the process,
\* whatever an earlier run had signed; and the request is only taken back when
\* no order is live and none can appear.
CancelHolds ==
  [][/\ cancel /\ cand'.status = "flying" /\ cand.status # "flying"
          => cand'.plan.action = "cancel" \/ cand.status = "included"
     /\ cancel /\ ~ cancel' => ~ Now.bid.live /\ ~ Now.ask.live /\ cand.status = "none"]_vars

----------------------------------------------------------------------------
(* Liveness: a tick goes on and the scheduler begins another; what is above *)
(* the depth settles; the validity interval leaves time to submit and to   *)
(* include; a candidate that cannot land expires; in the end no tick is    *)
(* cut short.                                                              *)

Calm == ~ calm /\ calm' = TRUE /\ UNCHANGED <<ledgerVars, cand, flags, tickVars>>

InTime(A) == A /\ cand.fate = "open"

Fairness ==
  /\ WF_vars(Tick) /\ SF_vars(InTime(Sign)) /\ SF_vars(InTime(Proceed)) /\ SF_vars(Submit)
  /\ WF_vars(Settle) /\ SF_vars(Land) /\ WF_vars(Expire /\ ~ Includable)
  /\ WF_vars(Calm)

FairSpec == Init /\ [][Next \/ Calm]_vars /\ Fairness

\* A cancellation request is worked off through racing fills, lost cancels,
\* crashes and roll-backs, unless the operator stops the run or a script
\* failure pauses it.
CancelCompletes == cancel ~> ~ cancel \/ stopping \/ incident
=============================================================================
