------------------------- MODULE MarketMakerProofs -------------------------
(***************************************************************************)
(* Why the market maker's limits hold on the ledger and not only in its    *)
(* plans: a candidate lands long after it was planned, over fills and      *)
(* roll-backs, but nothing it was planned on can have changed meanwhile.   *)
(***************************************************************************)
EXTENDS MarketMaker, TLAPS

OwnKinds == Own \cup {"fail"}

\* The wallet after the k-th event above the depth.
Wallet(k) == IF k = 0 THEN world ELSE recent[k].wallet

\* No transaction of the wallet lies between the two.
Same(v, w) ==
  /\ v.base = w.base /\ v.paid = w.paid
  /\ v.bid.live = w.bid.live /\ v.ask.live = w.ask.live

Bare(w) == ~ w.bid.live /\ ~ w.ask.live

\* What a plan was made on.
Fitting(p, w) ==
  /\ p.action # "cancel" => w.paid + Cost(p.action) <= MaxTotalFees
  /\ p.action = "publish" => Bare(w) /\ OrderSize <= w.base /\ w.base + BidMost <= MaxBase
  /\ p.action = "buy" => Bare(w) /\ w.base + p.q <= MaxBase
  /\ p.action = "sell" => p.q <= w.base

\* The wallet keeps its limits.
Sound(w) == ~ w.twice /\ ~ w.beyond /\ Exposure(w) <= MaxBase

\* Above the depth there is at most one transaction of the wallet, and that is
\* the open candidate's; strangers leave what Same compares alone.
OwnIsCandidate ==
  /\ \A j, k \in 1..Len(recent) : recent[j].kind \in OwnKinds /\ recent[k].kind \in OwnKinds => j = k
  /\ \A k \in 1..Len(recent) : recent[k].kind \in OwnKinds =>
       cand.status \in {"flying", "included"} /\ cand.fate = "open"
StrangersKeep ==
  \A i, k \in 0..Len(recent) :
    i <= k /\ (\A j \in 1..Len(recent) : i < j /\ j <= k => recent[j].kind \notin OwnKinds)
      => Same(Wallet(i), Wallet(k))
AllSound == \A k \in 0..Len(recent) : Sound(Wallet(k))

\* A candidate that may still land fits the wallet at the depth, and so does the
\* plan it is made of.
CandidateFits == cand.status # "none" /\ cand.fate = "open" => Fitting(cand.plan, world)
PlanFits ==
  pc = "prepare" => /\ cand.status = "none" /\ plan.action \in Own
                    /\ Fitting(plan, world)
                    /\ cancel => plan.action = "cancel"

\* Under a cancellation request only a cancel comes to the wire.
OnlyCancels ==
  /\ pc = "sign" => cand.status = "prepared"
  /\ pc \in {"prepared", "submit"} => cand.status = "signed"
  /\ pc \in {"sign", "prepared", "submit"} /\ cancel => cand.plan.action = "cancel"

\* With no candidate open the projection is up to date.
ViewStands ==
  cand.status = "none" =>
    /\ pc \in {"reconcile", "decide"} =>
         view.bid.live = world.bid.live /\ view.ask.live = world.ask.live
    /\ pc \in {"resync", "decide"} => view.paid = world.paid

\* The inductive invariant.
IInv ==
  /\ TypeOK /\ OwnIsCandidate /\ StrangersKeep /\ AllSound
  /\ CandidateFits /\ PlanFits /\ OnlyCancels /\ ViewStands

USE MarketMakerAssumption DEF OwnKinds, Own

----------------------------------------------------------------------------
(* What an event does to a wallet.                                         *)

\* A wallet with another value in one of its fields.
LEMMA Updates ==
  ASSUME NEW w \in Wallets
  PROVE  /\ \A n \in Nat : [w EXCEPT !.base = n] \in Wallets
         /\ \A n \in Nat : [w EXCEPT !.paid = n] \in Wallets
         /\ \A o \in Orders : [w EXCEPT !.bid = o] \in Wallets
         /\ \A o \in Orders : [w EXCEPT !.ask = o] \in Wallets
         /\ \A b \in BOOLEAN : [w EXCEPT !.twice = b] \in Wallets
         /\ \A b \in BOOLEAN : [w EXCEPT !.beyond = b] \in Wallets
BY DEF Wallets

\* The fields of a wallet and of its orders are typed.
LEMMA Fields ==
  ASSUME NEW w \in Wallets
  PROVE  /\ w.base \in Nat /\ w.paid \in Nat /\ w.twice \in BOOLEAN /\ w.beyond \in BOOLEAN
         /\ w.bid \in Orders /\ w.bid.live \in BOOLEAN /\ w.bid.left \in 0..BidMost /\ w.bid.fills \in Nat
         /\ w.ask \in Orders /\ w.ask.live \in BOOLEAN /\ w.ask.left \in 0..BidMost /\ w.ask.fills \in Nat
BY DEF Wallets, Orders

\* Charging a transaction moves what is paid and the history of the budget, nothing else.
LEMMA Charging ==
  ASSUME NEW w \in Wallets, NEW kind \in OwnKinds \cup {"bid", "ask"}, NEW p, p = Charged(w, kind)
  PROVE  /\ p \in Wallets /\ p.base = w.base /\ p.bid = w.bid /\ p.ask = w.ask
         /\ Cost(kind) \in Nat /\ p.paid = w.paid + Cost(kind) /\ p.twice = w.twice
         /\ p.beyond = (w.beyond \/ (kind \in Own \ {"cancel"} /\ w.paid + Cost(kind) > MaxTotalFees))
<1> DEFINE q == [w EXCEPT !.paid = w.paid + Cost(kind)]
           b == w.beyond \/ (kind \in Own \ {"cancel"} /\ w.paid + Cost(kind) > MaxTotalFees)
<1>0. Cost(kind) \in Nat
  BY DEF Cost
<1>1. q \in Wallets /\ q.base = w.base /\ q.bid = w.bid /\ q.ask = w.ask
      /\ q.paid = w.paid + Cost(kind) /\ q.twice = w.twice
  BY <1>0, Updates, Fields DEF Wallets
<1>2. p = [q EXCEPT !.beyond = b]
  BY DEF Charged, Wallets
<1>3. b \in BOOLEAN
  OBVIOUS
<1> HIDE DEF q, b
<1>4. p \in Wallets
  BY <1>1, <1>2, <1>3, Updates
<1>5. /\ p.base = q.base /\ p.bid = q.bid /\ p.ask = q.ask
      /\ p.paid = q.paid /\ p.twice = q.twice /\ p.beyond = b
  BY <1>1, <1>2, <1>3 DEF Wallets
<1> QED BY <1>0, <1>1, <1>4, <1>5 DEF b

\* A fill takes its tokens from what is left of the order.
LEMMA TakenTyped ==
  ASSUME NEW o \in Orders, NEW n \in 1..BidMost, n <= o.left
  PROVE  Taken(o, n) \in Orders /\ Taken(o, n).left = o.left - n /\ Taken(o, n).live = o.live
<1>1. o.left - n \in 0..BidMost /\ o.fills + 1 \in Nat
  BY DEF Orders
<1>2. Taken(o, n) = [[o EXCEPT !.left = o.left - n] EXCEPT !.fills = o.fills + 1]
  BY DEF Taken, Orders
<1> QED BY <1>1, <1>2 DEF Orders

\* A stranger's fill moves tokens that were counted already.
LEMMA FillApplies ==
  ASSUME NEW w \in Wallets, NEW side \in {"bid", "ask"}, NEW n \in 1..BidMost,
         n <= w[side].left, w[side].live, Sound(w), NEW v, v = Apply(w, side, n)
  PROVE  v \in Wallets /\ Same(w, v) /\ Sound(v)
<1>0. PICK p \in Wallets : /\ p = Charged(w, side)
                           /\ p.base = w.base /\ p.bid = w.bid /\ p.ask = w.ask /\ p.paid = w.paid
                           /\ p.twice = w.twice /\ p.beyond = w.beyond
  BY Charging, Fields DEF Cost
<1>1. CASE side = "bid"
  <2>1. v = [p EXCEPT !.bid = Taken(w.bid, n)]
    BY <1>0, <1>1 DEF Apply
  <2>2. Taken(w.bid, n) \in Orders /\ Taken(w.bid, n).left = w.bid.left - n /\ Taken(w.bid, n).live = w.bid.live
    BY <1>1, Fields, TakenTyped
  <2>3. v \in Wallets
    BY <2>1, <2>2, Updates
  <2>4. /\ v.base = w.base /\ v.ask = w.ask /\ v.paid = w.paid
        /\ v.twice = w.twice /\ v.beyond = w.beyond /\ v.bid = Taken(w.bid, n)
    BY <1>0, <2>1 DEF Wallets
  <2>5. Exposure(v) = Exposure(w)
    BY <2>2, <2>4, <1>1, Fields DEF Exposure, Committed
  <2> QED BY <2>2, <2>3, <2>4, <2>5 DEF Same, Sound
<1>2. CASE side = "ask"
  <2>1. v = [p EXCEPT !.ask = Taken(w.ask, n)]
    BY <1>0, <1>2 DEF Apply
  <2>2. Taken(w.ask, n) \in Orders /\ Taken(w.ask, n).left = w.ask.left - n /\ Taken(w.ask, n).live = w.ask.live
    BY <1>2, Fields, TakenTyped
  <2>3. v \in Wallets
    BY <2>1, <2>2, Updates
  <2>4. /\ v.base = w.base /\ v.bid = w.bid /\ v.paid = w.paid
        /\ v.twice = w.twice /\ v.beyond = w.beyond /\ v.ask = Taken(w.ask, n)
    BY <1>0, <2>1 DEF Wallets
  <2>5. Exposure(v) = Exposure(w) - n /\ Exposure(w) \in Int
    BY <2>2, <2>4, <1>2, Fields DEF Exposure, Committed
  <2> QED BY <2>2, <2>3, <2>4, <2>5 DEF Same, Sound
<1> QED BY <1>1, <1>2

\* A plan that fits does what it was made for.
LEMMA PlanApplies ==
  ASSUME NEW w \in Wallets, NEW plan0 \in Plans, plan0.action \in Own, Fitting(plan0, w), Sound(w),
         NEW v, v = Apply(w, plan0.action, plan0.q)
  PROVE  v \in Wallets /\ Sound(v)
<1> DEFINE act == plan0.action
           q == plan0.q
<1>0. q \in Nat /\ act \in Own
  BY DEF Plans
<1>1. PICK p \in Wallets : /\ p = Charged(w, act)
                           /\ p.base = w.base /\ p.bid = w.bid /\ p.ask = w.ask
                           /\ p.twice = w.twice /\ ~ p.beyond
  <2>1. ~ (act \in Own \ {"cancel"} /\ w.paid + Cost(act) > MaxTotalFees)
    <3>1. Cost(act) \in Nat
      BY Charging
    <3> QED BY <3>1, Fields DEF Fitting
  <2> QED BY <2>1, Charging DEF Sound
<1>2. CASE act = "publish"
  <2>1. v = [[[[p EXCEPT !.base = p.base - OrderSize] EXCEPT !.bid = Placed(BidMost)]
               EXCEPT !.ask = Placed(OrderSize)] EXCEPT !.twice = p.twice \/ w.bid.live \/ w.ask.live]
    BY <1>1, <1>2 DEF Apply, Wallets
  <2>2. Placed(BidMost) \in Orders /\ Placed(OrderSize) \in Orders
    BY DEF Placed, Orders
  <2>3. w.base - OrderSize \in Nat /\ w.base + BidMost <= MaxBase /\ Bare(w)
    BY <1>2, Fields DEF Fitting
  <2>4. (p.twice \/ w.bid.live \/ w.ask.live) \in BOOLEAN /\ ~ (p.twice \/ w.bid.live \/ w.ask.live)
    BY <1>1, <2>3 DEF Sound, Bare
  <2>5. v \in Wallets
    <3> DEFINE x == [p EXCEPT !.base = p.base - OrderSize]
               y == [x EXCEPT !.bid = Placed(BidMost)]
               z == [y EXCEPT !.ask = Placed(OrderSize)]
               t == p.twice \/ w.bid.live \/ w.ask.live
    <3>1. x \in Wallets
      BY <1>1, <2>3, Updates
    <3> HIDE DEF x
    <3>2. y \in Wallets
      BY <2>2, <3>1, Updates
    <3> HIDE DEF y
    <3>3. z \in Wallets
      BY <2>2, <3>2, Updates
    <3>4. v = [z EXCEPT !.twice = t]
      BY <2>1 DEF x, y
    <3>5. t \in BOOLEAN
      OBVIOUS
    <3> HIDE DEF z, t
    <3> QED BY <3>3, <3>4, <3>5, Updates
  <2>6. /\ v.base = w.base - OrderSize /\ v.bid = Placed(BidMost) /\ v.ask = Placed(OrderSize)
        /\ v.beyond = p.beyond /\ v.twice = (p.twice \/ w.bid.live \/ w.ask.live)
    BY <1>1, <2>1 DEF Wallets
  <2>7. Exposure(v) = w.base + BidMost
    BY <2>6, Fields DEF Exposure, Committed, Placed
  <2> QED BY <1>1, <2>3, <2>4, <2>5, <2>6, <2>7 DEF Sound
<1>3. CASE act = "cancel"
  <2>1. v = [[[p EXCEPT !.base = p.base + Committed(w.bid, w.ask)] EXCEPT !.bid = NoOrder]
              EXCEPT !.ask = NoOrder]
    BY <1>1, <1>3 DEF Apply, Wallets
  <2>2. NoOrder \in Orders /\ Committed(w.bid, w.ask) \in Nat
    BY Fields DEF NoOrder, Orders, Committed
  <2>3. v \in Wallets
    <3> DEFINE x == [p EXCEPT !.base = p.base + Committed(w.bid, w.ask)]
               y == [x EXCEPT !.bid = NoOrder]
    <3>1. x \in Wallets
      BY <1>1, <2>2, Updates, Fields
    <3> HIDE DEF x
    <3>2. y \in Wallets
      BY <2>2, <3>1, Updates
    <3>3. v = [y EXCEPT !.ask = NoOrder]
      BY <2>1 DEF x
    <3> HIDE DEF y
    <3> QED BY <2>2, <3>2, <3>3, Updates
  <2>4. /\ v.base = w.base + Committed(w.bid, w.ask) /\ v.bid = NoOrder /\ v.ask = NoOrder
        /\ v.beyond = p.beyond /\ v.twice = p.twice
    BY <1>1, <2>1 DEF Wallets
  <2>5. Exposure(v) <= Exposure(w) /\ Exposure(v) \in Int /\ Exposure(w) \in Int
    BY <2>2, <2>4, Fields DEF Exposure, Committed, NoOrder
  <2> QED BY <1>1, <2>3, <2>4, <2>5 DEF Sound
<1>4. CASE act \in {"sell", "buy", "route"}
  <2> DEFINE n == IF act = "sell" THEN w.base - q ELSE IF act = "buy" THEN w.base + q ELSE w.base
  <2>1. n \in Nat
    BY <1>0, Fields DEF Fitting
  <2>2. v = IF act = "route" THEN p ELSE [p EXCEPT !.base = n]
    BY <1>1, <1>4 DEF Apply
  <2> HIDE DEF n
  <2>3. v \in Wallets
    BY <1>1, <2>1, <2>2, Updates
  <2>4. v.bid = w.bid /\ v.ask = w.ask /\ v.beyond = p.beyond /\ v.twice = p.twice /\ v.base = n
    BY <1>1, <2>1, <2>2 DEF Wallets, n
  <2>5. Exposure(v) <= MaxBase
    <3>1. /\ Exposure(w) \in Int /\ Exposure(w) <= MaxBase
          /\ Exposure(v) = n + (Exposure(w) - w.base)
      BY <2>1, <2>4, Fields DEF Exposure, Committed, Sound
    <3>2. Bare(w) => Exposure(w) = w.base
      BY Fields DEF Bare, Exposure, Committed
    <3>3. act = "buy" => Bare(w) /\ w.base + q <= MaxBase
      BY DEF Fitting
    <3> QED BY <1>0, <1>4, <3>1, <3>2, <3>3, Fields DEF n
  <2> QED BY <1>1, <2>3, <2>4, <2>5 DEF Sound
<1> QED BY <1>0, <1>2, <1>3, <1>4

\* A failed script costs its collateral.
LEMMA FailApplies ==
  ASSUME NEW w \in Wallets, Sound(w), NEW v, v = Apply(w, "fail", 0)
  PROVE  v \in Wallets /\ Sound(v)
<1>1. v = Charged(w, "fail")
  BY DEF Apply
<1>2. v \in Wallets /\ v.base = w.base /\ v.bid = w.bid /\ v.ask = w.ask /\ v.twice = w.twice
      /\ v.beyond = w.beyond
  BY <1>1, Charging, Fields
<1>3. Exposure(v) = Exposure(w)
  BY <1>2 DEF Exposure, Committed
<1> QED BY <1>2, <1>3 DEF Sound

\* A plan fits every wallet that no transaction of its own separates from the first.
LEMMA SameFits ==
  ASSUME NEW v, NEW w, NEW p, Same(v, w), Fitting(p, v)
  PROVE  Fitting(p, w)
BY DEF Same, Fitting, Bare

----------------------------------------------------------------------------
(* The ledger moves.                                                       *)

\* The wallets along the events above the depth, from the depth to the tip.
LEMMA WalletTyped ==
  ASSUME TypeOK
  PROVE  /\ Len(recent) \in Nat /\ \A k \in 0..Len(recent) : Wallet(k) \in Wallets
         /\ Now = Wallet(Len(recent)) /\ Wallet(0) = world
         /\ \A k \in 1..Len(recent) : recent[k] \in Events
<1>1. Len(recent) \in Nat /\ \A k \in 1..Len(recent) : recent[k] \in Events
  BY DEF TypeOK
<1>2. \A k \in 1..Len(recent) : Wallet(k) = recent[k].wallet /\ recent[k].wallet \in Wallets
  BY <1>1 DEF Wallet, Events
<1>3. recent = <<>> <=> Len(recent) = 0
  BY DEF TypeOK
<1> QED BY <1>1, <1>2, <1>3 DEF Wallet, Now, TypeOK

\* With nothing of its own above the depth the wallet at the tip is the one at
\* the depth, but for fills.
LEMMA TipIsSame ==
  ASSUME TypeOK, StrangersKeep, ~ OwnAbove
  PROVE  Same(world, Now)
<1>1. Len(recent) \in Nat /\ Now = Wallet(Len(recent)) /\ Wallet(0) = world
  BY WalletTyped
<1>2. \A j \in 1..Len(recent) : recent[j].kind \notin OwnKinds
  BY DEF OwnAbove
<1> QED BY <1>1, <1>2 DEF StrangersKeep

\* Without a candidate that may land nothing of the wallet's own is above the depth.
LEMMA NothingAbove ==
  ASSUME OwnIsCandidate, cand.status \notin {"flying", "included"} \/ cand.fate # "open"
  PROVE  ~ OwnAbove
BY DEF OwnIsCandidate, OwnAbove

\* An event is added at the tip.
LEMMA GrowKeeps ==
  ASSUME IInv, NEW kind \in OwnKinds \cup {"bid", "ask"}, NEW q \in Nat, Happen(kind, q),
         Apply(Now, kind, q) \in Wallets, Sound(Apply(Now, kind, q)),
         kind \notin OwnKinds => Same(Now, Apply(Now, kind, q)),
         kind \in OwnKinds => ~ OwnAbove /\ cand.status \in {"flying", "included"} /\ cand.fate = "open"
  PROVE  IInv'
<1> DEFINE v == Apply(Now, kind, q)
           e == [kind |-> kind, q |-> q, wallet |-> v]
<1> USE DEF IInv
<1>0. PICK n \in Nat : n = Len(recent)
  BY DEF TypeOK
<1>1. /\ UNCHANGED <<world, forks, cand, flags, tickVars, calm>>
      /\ recent' = Append(recent, e) /\ n < MaxRecent /\ recent \in Seq(Events) /\ n = Len(recent)
  BY <1>0 DEF Happen, TypeOK
<1>2. e \in Events
  <2> HIDE DEF v
  <2> QED BY DEF Events, v
<1>3. /\ recent' \in Seq(Events) /\ Len(recent)' = n + 1
      /\ \A k \in 1..n : recent'[k] = recent[k]
      /\ recent'[n + 1] = e
  <2> HIDE DEF e
  <2> QED BY <1>1, <1>2
<1>4. /\ \A k \in 0..n : Wallet(k)' = Wallet(k)
      /\ \A k \in {n + 1} : Wallet(k)' = v
  <2>1. e.wallet = v
    OBVIOUS
  <2> HIDE DEF e, v
  <2>2. \A k \in 0..n : k = 0 \/ k \in 1..n
    BY <1>1
  <2>3. \A k \in 0..n : Wallet(k)' = Wallet(k)
    <3> TAKE k \in 0..n
    <3>1. CASE k = 0
      BY <1>1, <3>1 DEF Wallet
    <3>2. CASE k \in 1..n
      BY <1>3, <3>2 DEF Wallet
    <3> QED BY <2>2, <3>1, <3>2
  <2>4. \A k \in {n + 1} : Wallet(k)' = v
    BY <1>3, <2>1 DEF Wallet
  <2> QED BY <2>3, <2>4
<1>5. TypeOK'
  <2> HIDE DEF e
  <2> QED BY <1>1, <1>3 DEF TypeOK, flags, tickVars
<1>10. Sound(v)
  OBVIOUS
<1>11. kind \notin OwnKinds => Same(Wallet(n), v)
  BY <1>0, WalletTyped
<1> HIDE DEF v
<1>6. OwnIsCandidate'
  <2>1. e.kind = kind
    OBVIOUS
  <2>2. \A j \in 1..n+1 : j \in 1..n \/ j = n + 1
    BY <1>1
  <2>3. kind \in OwnKinds => \A j \in 1..n : recent[j].kind \notin OwnKinds
    BY <1>0 DEF OwnAbove
  <2> HIDE DEF e
  <2> QED BY <1>1, <1>3, <2>1, <2>2, <2>3 DEF OwnIsCandidate
<1>7. StrangersKeep'
  <2> SUFFICES ASSUME NEW i \in 0..n+1, NEW k \in 0..n+1, i <= k,
                      \A j \in 1..n+1 : i < j /\ j <= k => recent'[j].kind \notin OwnKinds
               PROVE  Same(Wallet(i)', Wallet(k)')
    BY <1>3 DEF StrangersKeep, Same
  <2>1. CASE k \in 0..n
    <3>1. i \in 0..n /\ \A j \in 1..n : i < j /\ j <= k => recent[j].kind \notin OwnKinds
      BY <1>1, <1>3, <2>1
    <3> QED BY <1>0, <1>4, <2>1, <3>1 DEF StrangersKeep
  <2>2. CASE i = n + 1 /\ k = n + 1
    BY <2>2 DEF Same
  <2>3. CASE i \in 0..n /\ k = n + 1
    <3>1. /\ recent'[n + 1].kind \notin OwnKinds
          /\ \A j \in 1..n : i < j /\ j <= n => recent[j].kind \notin OwnKinds
      BY <1>1, <1>3, <2>3
    <3>2. kind \notin OwnKinds
      BY <1>3, <3>1
    <3>3. Same(Wallet(i), Wallet(n))
      BY <1>0, <1>1, <2>3, <3>1 DEF StrangersKeep
    <3>4. Same(Wallet(n), v)
      BY <1>11, <3>2
    <3>5. Same(Wallet(i), v)
      BY <3>3, <3>4 DEF Same
    <3>6. Wallet(i)' = Wallet(i) /\ Wallet(k)' = v
      BY <1>4, <2>3
    <3> QED BY <3>5, <3>6
  <2> QED BY <1>1, <2>1, <2>2, <2>3
<1>8. AllSound'
  <2>1. \A k \in 0..n+1 : Sound(Wallet(k)')
    <3>1. \A k \in 0..n+1 : k \in 0..n \/ k = n + 1
      BY <1>1
    <3>2. \A k \in 0..n : Sound(Wallet(k)')
      <4> TAKE k \in 0..n
      <4>1. Sound(Wallet(k)) /\ Wallet(k)' = Wallet(k)
        BY <1>0, <1>4 DEF AllSound
      <4> QED BY <4>1
    <3>3. \A k \in {n + 1} : Sound(Wallet(k)')
      BY <1>4, <1>10
    <3> QED BY <3>1, <3>2, <3>3
  <2> QED BY <1>3, <2>1 DEF AllSound, Sound, Exposure, Committed
<1>9. CandidateFits' /\ PlanFits' /\ OnlyCancels' /\ ViewStands'
  BY <1>1 DEF CandidateFits, PlanFits, OnlyCancels, ViewStands, flags, tickVars, Fitting, Bare
<1> QED BY <1>5, <1>6, <1>7, <1>8, <1>9

\* The oldest event reaches the depth.
LEMMA SettleKeeps == ASSUME IInv, Settle PROVE IInv'
<1> DEFINE n == Len(recent)
<1> USE DEF IInv
<1>1. /\ recent # <<>> /\ world' = recent[1].wallet /\ recent' = Tail(recent)
      /\ UNCHANGED <<forks, flags, tickVars, calm>>
      /\ recent \in Seq(Events) /\ n \in Nat \ {0} /\ recent[1] \in Events
  BY DEF Settle, TypeOK
<1>2. /\ recent' \in Seq(Events) /\ Len(recent)' = n - 1
      /\ \A k \in 1..n-1 : recent'[k] = recent[k + 1]
  BY <1>1
<1>3. \A k \in 0..n-1 : Wallet(k)' = Wallet(k + 1) /\ k + 1 \in 0..n
  BY <1>1, <1>2 DEF Wallet
<1>4. /\ cand'.status = cand.status /\ cand'.plan = cand.plan
      /\ recent[1].kind \in OwnKinds => cand'.fate \in {"landed", "failed"}
      /\ recent[1].kind \notin OwnKinds => cand' = cand
      /\ cand' \in [plan : Plans, status : {"none", "prepared", "signed", "flying", "included"},
                    fate : {"open", "landed", "failed", "dead"}]
  <2>1. cand \in [plan : Plans, status : {"none", "prepared", "signed", "flying", "included"},
                  fate : {"open", "landed", "failed", "dead"}]
    BY DEF TypeOK
  <2>2. Head(recent) = recent[1]
    BY <1>1
  <2>3. cand' = IF recent[1].kind \in Own THEN [cand EXCEPT !.fate = "landed"]
                ELSE IF recent[1].kind = "fail" THEN [cand EXCEPT !.fate = "failed"]
                ELSE cand
    BY <2>2 DEF Settle
  <2> QED BY <2>1, <2>3
<1>5. TypeOK'
  <2>1. world' \in Wallets
    BY <1>1 DEF Events
  <2> QED BY <1>1, <1>2, <1>4, <2>1 DEF TypeOK, flags, tickVars
<1>6. OwnIsCandidate'
  <2>1. \A k \in 1..n-1 : k + 1 \in 1..n /\ k + 1 # 1
    BY <1>1
  <2>2. \A j, k \in 1..n-1 : j + 1 = k + 1 => j = k
    BY <1>1
  <2>3. \A k \in 1..n-1 : recent'[k].kind \in OwnKinds => recent[1].kind \notin OwnKinds
    BY <1>1, <1>2, <2>1 DEF OwnIsCandidate
  <2> QED BY <1>1, <1>2, <1>4, <2>1, <2>2, <2>3 DEF OwnIsCandidate
<1>7. StrangersKeep'
  <2> SUFFICES ASSUME NEW i \in 0..n-1, NEW k \in 0..n-1, i <= k,
                      \A j \in 1..n-1 : i < j /\ j <= k => recent'[j].kind \notin OwnKinds
               PROVE  Same(Wallet(i)', Wallet(k)')
    BY <1>2 DEF StrangersKeep, Same
  <2>1. \A j \in 1..n : i + 1 < j /\ j <= k + 1 => recent[j].kind \notin OwnKinds
    <3> TAKE j \in 1..n
    <3>1. i + 1 < j /\ j <= k + 1 => j - 1 \in 1..n-1 /\ i < j - 1 /\ j - 1 <= k /\ recent'[j - 1] = recent[j]
      BY <1>1, <1>2
    <3> QED BY <3>1
  <2>2. Same(Wallet(i + 1), Wallet(k + 1))
    BY <1>1, <1>3, <2>1 DEF StrangersKeep
  <2> QED BY <1>3, <2>2
<1>8. AllSound'
  <2>1. \A k \in 0..n-1 : Sound(Wallet(k)')
    BY <1>3 DEF AllSound
  <2> QED BY <1>2, <2>1 DEF AllSound, Sound, Exposure, Committed
<1>9. recent[1].kind \notin OwnKinds => Same(world, world')
  <2>1. Wallet(1) = world' /\ Wallet(0) = world
    BY <1>1 DEF Wallet
  <2>2. recent[1].kind \notin OwnKinds => Same(Wallet(0), Wallet(1))
    BY <1>1 DEF StrangersKeep
  <2> QED BY <2>1, <2>2
<1>10. \A p : Fitting(p, world) /\ recent[1].kind \notin OwnKinds => Fitting(p, world')
  BY <1>9, SameFits
<1>11. cand.status = "none" => recent[1].kind \notin OwnKinds
  BY <1>1 DEF OwnIsCandidate
<1>12. CandidateFits' /\ PlanFits'
  <2>1. CandidateFits'
    BY <1>4, <1>10 DEF CandidateFits, Fitting, Bare
  <2>2. PlanFits'
    BY <1>1, <1>4, <1>10, <1>11 DEF PlanFits, flags, tickVars, Fitting, Bare
  <2> QED BY <2>1, <2>2
<1>13. OnlyCancels'
  BY <1>1, <1>4 DEF OnlyCancels, flags, tickVars
<1>14. ViewStands'
  BY <1>1, <1>4, <1>9, <1>11 DEF ViewStands, tickVars, Same
<1> QED BY <1>5, <1>6, <1>7, <1>8, <1>12, <1>13, <1>14

\* A roll-back leaves the events below it.
LEMMA RollbackKeeps == ASSUME IInv, Rollback PROVE IInv'
<1> DEFINE n == Len(recent)
<1> USE DEF IInv
<1>1. PICK m \in 0..(n - 1) : recent' = SubSeq(recent, 1, m)
  BY DEF Rollback
<1>2. /\ UNCHANGED <<world, cand, flags, tickVars, calm>> /\ forks' = forks + 1 /\ forks < MaxForks
      /\ recent \in Seq(Events) /\ n \in Nat /\ n <= MaxRecent /\ m \in Nat /\ m < n
  BY <1>1 DEF Rollback, TypeOK
<1>3. /\ recent' \in Seq(Events) /\ Len(recent)' = m
      /\ \A k \in 1..m : recent'[k] = recent[k] /\ k \in 1..n
  BY <1>1, <1>2
<1>4. \A k \in 0..m : Wallet(k)' = Wallet(k) /\ k \in 0..n
  BY <1>2, <1>3 DEF Wallet
<1>5. TypeOK'
  BY <1>2, <1>3 DEF TypeOK, flags, tickVars
<1>6. OwnIsCandidate'
  BY <1>2, <1>3 DEF OwnIsCandidate
<1>7. StrangersKeep'
  <2> SUFFICES ASSUME NEW i \in 0..m, NEW k \in 0..m, i <= k,
                      \A j \in 1..m : i < j /\ j <= k => recent'[j].kind \notin OwnKinds
               PROVE  Same(Wallet(i)', Wallet(k)')
    BY <1>3 DEF StrangersKeep, Same
  <2>1. \A j \in 1..n : i < j /\ j <= k => recent[j].kind \notin OwnKinds
    <3> TAKE j \in 1..n
    <3>1. i < j /\ j <= k => j \in 1..m
      BY <1>2
    <3> QED BY <1>3, <3>1
  <2> QED BY <1>4, <2>1 DEF StrangersKeep
<1>8. AllSound'
  <2>1. \A k \in 0..m : Sound(Wallet(k)')
    BY <1>4 DEF AllSound
  <2> QED BY <1>3, <2>1 DEF AllSound, Sound, Exposure, Committed
<1>9. CandidateFits' /\ PlanFits' /\ OnlyCancels' /\ ViewStands'
  BY <1>2 DEF CandidateFits, PlanFits, OnlyCancels, ViewStands, flags, tickVars, Fitting, Bare
<1> QED BY <1>5, <1>6, <1>7, <1>8, <1>9

\* Every move of the ledger keeps the invariant: a candidate lands on a wallet it fits.
LEMMA LedgerKeeps == ASSUME IInv, Ledger PROVE IInv'
<1> USE DEF IInv
<1>1. Now \in Wallets /\ Sound(Now)
  BY WalletTyped DEF AllSound
<1>2. CASE Fill
  <2>1. PICK side \in {"bid", "ask"}, k \in 1..BidMost :
          Now[side].live /\ k <= Now[side].left /\ Happen(side, k)
    BY <1>2 DEF Fill
  <2>2. Apply(Now, side, k) \in Wallets /\ Same(Now, Apply(Now, side, k)) /\ Sound(Apply(Now, side, k))
    BY <1>1, <2>1, FillApplies
  <2> QED BY <2>1, <2>2, GrowKeeps
<1>3. CASE Land \/ LandFailed
  <2>1. ~ OwnAbove /\ cand.status \in {"flying", "included"} /\ cand.fate = "open"
    BY <1>3 DEF Land, LandFailed, Includable
  <2>2. Fitting(cand.plan, Now)
    BY <2>1, TipIsSame, SameFits DEF CandidateFits
  <2>3. cand.plan \in Plans /\ cand.plan.action \in Own /\ cand.plan.q \in Nat
    BY <2>1 DEF TypeOK, Plans
  <2>4. CASE Land
    <3>1. Apply(Now, cand.plan.action, cand.plan.q) \in Wallets /\ Sound(Apply(Now, cand.plan.action, cand.plan.q))
      BY <1>1, <2>2, <2>3, PlanApplies
    <3> QED BY <2>1, <2>3, <2>4, <3>1, GrowKeeps DEF Land
  <2>5. CASE LandFailed
    BY <1>1, <2>1, <2>5, FailApplies, GrowKeeps DEF LandFailed
  <2> QED BY <1>3, <2>4, <2>5
<1>4. CASE Expire
  <2>1. /\ UNCHANGED <<ledgerVars, flags, tickVars, calm>> /\ cand' = [cand EXCEPT !.fate = "dead"]
        /\ ~ OwnAbove
    BY <1>4 DEF Expire
  <2>2. cand'.status = cand.status /\ cand'.plan = cand.plan /\ cand'.fate = "dead"
    BY <2>1 DEF TypeOK
  <2>3. TypeOK'
    BY <2>1, <2>2 DEF TypeOK, ledgerVars, flags, tickVars
  <2>4. OwnIsCandidate' /\ StrangersKeep' /\ AllSound'
    BY <2>1 DEF OwnIsCandidate, StrangersKeep, AllSound, OwnAbove, ledgerVars, Wallet, Same, Sound, Exposure, Committed
  <2>5. CandidateFits' /\ PlanFits' /\ OnlyCancels' /\ ViewStands'
    BY <2>1, <2>2 DEF CandidateFits, PlanFits, OnlyCancels, ViewStands, ledgerVars, flags, tickVars, Fitting, Bare
  <2> QED BY <2>3, <2>4, <2>5
<1> QED BY <1>2, <1>3, <1>4, SettleKeeps, RollbackKeeps DEF Ledger

----------------------------------------------------------------------------
(* The tick and its operator.                                              *)

\* The ledger stands still and a candidate that may land stays one that may.
LEMMA LedgerStays ==
  ASSUME IInv, UNCHANGED ledgerVars,
         cand.status \in {"flying", "included"} /\ cand.fate = "open"
           => cand'.status \in {"flying", "included"} /\ cand'.fate = "open"
  PROVE  OwnIsCandidate' /\ StrangersKeep' /\ AllSound'
<1>1. UNCHANGED <<world, recent>>
  BY DEF ledgerVars
<1>2. OwnIsCandidate'
  BY <1>1 DEF IInv, OwnIsCandidate
<1> QED BY <1>1, <1>2 DEF IInv, StrangersKeep, AllSound, Wallet, Same, Sound, Exposure, Committed

\* The fields of the candidate are typed.
LEMMA CandTyped ==
  ASSUME TypeOK
  PROVE  /\ cand = [plan |-> cand.plan, status |-> cand.status, fate |-> cand.fate]
         /\ cand.plan \in Plans /\ cand.fate \in {"open", "landed", "failed", "dead"}
         /\ cand.status \in {"none", "prepared", "signed", "flying", "included"}
         /\ cand.status = "none" <=> cand.plan.action = "none"
         /\ NoCand.status = "none" /\ NoCand.plan.action = "none"
         /\ NoCand \in [plan : Plans, status : {"none", "prepared", "signed", "flying", "included"},
                        fate : {"open", "landed", "failed", "dead"}]
BY DEF TypeOK, NoCand, NoPlan, Plans

\* The tick ends: nothing but the candidate outlives it.
LEMMA FinishKeeps ==
  ASSUME IInv, Finish, UNCHANGED <<ledgerVars, calm>>,
         incident' \in BOOLEAN, stopping' \in BOOLEAN, cancel' \in BOOLEAN,
         \/ cand' = cand
         \/ cand.status = "prepared" /\ cand' = NoCand
         \/ cand.status = "signed" /\ cand' = [cand EXCEPT !.status = "flying"]
  PROVE  IInv'
<1> USE DEF IInv
<1>1. OwnIsCandidate' /\ StrangersKeep' /\ AllSound'
  BY LedgerStays, CandTyped
<1>2. TypeOK'
  <2>1. NoView \in [bid : Orders, ask : Orders, paid : Nat, pending : BOOLEAN] /\ NoPlan \in Plans
    BY DEF NoView, NoOrder, Orders, NoPlan, Plans
  <2>2. /\ cand' \in [plan : Plans, status : {"none", "prepared", "signed", "flying", "included"},
                      fate : {"open", "landed", "failed", "dead"}]
        /\ cand'.status = "none" <=> cand'.plan.action = "none"
    BY CandTyped
  <2> QED BY <2>1, <2>2 DEF TypeOK, Finish, ledgerVars
<1>3. CandidateFits'
  BY CandTyped DEF CandidateFits, ledgerVars, Fitting, Bare
<1>4. PlanFits' /\ OnlyCancels' /\ ViewStands'
  BY DEF Finish, PlanFits, OnlyCancels, ViewStands
<1> QED BY <1>1, <1>2, <1>3, <1>4

\* The reading steps leave a view that stands when no candidate is open.
LEMMA ReadingKeeps == ASSUME IInv, Sync \/ Reconcile \/ Resync PROVE IInv'
<1> USE DEF IInv
<1>0. /\ view \in [bid : Orders, ask : Orders, paid : Nat, pending : BOOLEAN]
      /\ world.bid \in Orders /\ world.ask \in Orders /\ world.paid \in Nat
  BY Fields DEF TypeOK
<1>1. /\ Projection \in [bid : Orders, ask : Orders, paid : Nat, pending : BOOLEAN]
      /\ Projection.bid = world.bid /\ Projection.ask = world.ask
  BY <1>0 DEF Projection
<1>2. CASE Sync
  <2>1. UNCHANGED <<ledgerVars, cand, flags, plan, calm>> /\ pc' = "reconcile" /\ view' = Projection
    BY <1>2 DEF Sync
  <2>2. TypeOK'
    BY <1>1, <2>1 DEF TypeOK, ledgerVars, flags
  <2>3. CandidateFits' /\ PlanFits' /\ OnlyCancels' /\ ViewStands'
    BY <1>1, <2>1 DEF CandidateFits, PlanFits, OnlyCancels, ViewStands, ledgerVars, Fitting, Bare
  <2> QED BY <2>1, <2>2, <2>3, LedgerStays
<1>3. CASE Reconcile
  <2>1. /\ UNCHANGED <<ledgerVars, stopping, cancel, plan, calm>> /\ pc = "reconcile" /\ Resolved
        /\ pc' = IF cand'.status # cand.status THEN "resync" ELSE "decide"
        /\ view' = [view EXCEPT !.paid = world.paid]
    BY <1>3 DEF Reconcile
  <2>2. /\ view' \in [bid : Orders, ask : Orders, paid : Nat, pending : BOOLEAN]
        /\ view'.bid = view.bid /\ view'.ask = view.ask /\ view'.paid = world.paid
    BY <1>0, <2>1
  <2>3. /\ incident' \in BOOLEAN
        /\ \/ cand.fate # "open" /\ cand' = NoCand
           \/ /\ cand.status \in {"flying", "included"} /\ cand'.status \in {"flying", "included"}
              /\ cand'.plan = cand.plan /\ cand'.fate = cand.fate
              /\ cand' = [plan |-> cand.plan, status |-> cand'.status, fate |-> cand.fate]
           \/ cand' = cand
    <3>1. CASE cand.fate \in {"landed", "failed", "dead"} /\ cand' = NoCand /\ incident' = (incident \/ cand.fate = "failed")
      BY <3>1 DEF TypeOK
    <3>2. CASE /\ cand.fate = "open" /\ cand.status \in {"flying", "included"}
               /\ cand' = [cand EXCEPT !.status =
                   IF \E k \in 1..Len(recent) : recent[k].kind \in Own
                   THEN "included" ELSE "flying"]
               /\ UNCHANGED incident
      <4> DEFINE st == IF \E k \in 1..Len(recent) : recent[k].kind \in Own THEN "included" ELSE "flying"
      <4>1. st \in {"flying", "included"}
        OBVIOUS
      <4>2. cand' = [cand EXCEPT !.status = st]
        BY <3>2
      <4> HIDE DEF st
      <4>3. cand' = [plan |-> cand.plan, status |-> st, fate |-> cand.fate]
        BY <4>2, CandTyped
      <4> QED BY <3>2, <4>1, <4>3 DEF TypeOK
    <3>3. CASE UNCHANGED <<cand, incident>>
      BY <3>3 DEF TypeOK
    <3> QED BY <2>1, <3>1, <3>2, <3>3 DEF Resolved
  <2>4. TypeOK'
    <3>1. /\ cand' \in [plan : Plans, status : {"none", "prepared", "signed", "flying", "included"},
                        fate : {"open", "landed", "failed", "dead"}]
          /\ cand'.status = "none" <=> cand'.plan.action = "none"
      BY <2>3, CandTyped
    <3> QED BY <2>1, <2>2, <2>3, <3>1 DEF TypeOK, ledgerVars
  <2>5. CandidateFits'
    BY <2>1, <2>3, CandTyped DEF CandidateFits, ledgerVars, Fitting, Bare
  <2>6. PlanFits' /\ OnlyCancels'
    BY <2>1 DEF PlanFits, OnlyCancels
  <2>7. ViewStands'
    BY <2>1, <2>2 DEF ViewStands, ledgerVars
  <2>8. OwnIsCandidate' /\ StrangersKeep' /\ AllSound'
    BY <2>1, <2>3, LedgerStays
  <2> QED BY <2>4, <2>5, <2>6, <2>7, <2>8
<1>4. CASE Resync
  <2>1. /\ UNCHANGED <<ledgerVars, cand, flags, plan, calm>> /\ pc = "resync" /\ pc' = "decide"
        /\ view' = [Projection EXCEPT !.paid = view.paid]
    BY <1>4 DEF Resync
  <2>2. /\ view' \in [bid : Orders, ask : Orders, paid : Nat, pending : BOOLEAN]
        /\ view'.bid = world.bid /\ view'.ask = world.ask /\ view'.paid = view.paid
    BY <1>0, <1>1, <2>1
  <2>3. TypeOK'
    BY <2>1, <2>2 DEF TypeOK, ledgerVars, flags
  <2>4. CandidateFits' /\ PlanFits' /\ OnlyCancels' /\ ViewStands'
    BY <2>1, <2>2 DEF CandidateFits, PlanFits, OnlyCancels, ViewStands, ledgerVars, Fitting, Bare
  <2> QED BY <2>1, <2>3, <2>4, LedgerStays
<1> QED BY <1>2, <1>3, <1>4

\* A view without a live order, and nothing of the wallet's own above the depth:
\* the plan is made on the wallet it will be applied to.
LEMMA DecidingStands ==
  ASSUME IInv, Deciding
  PROVE  /\ Now.base = world.base /\ view.paid = world.paid
         /\ Now.base \in Nat /\ view.paid \in Nat
         /\ Committed(view.bid, view.ask) \in Nat
         /\ ~ Live => Bare(world) /\ Committed(view.bid, view.ask) = 0
<1> USE DEF IInv
<1>1. /\ pc = "decide" /\ cand.status = "none" /\ ~ OwnAbove
  BY DEF Deciding, Clear, Going
<1>2. Same(world, Now)
  BY <1>1, TipIsSame
<1>3. view.bid \in Orders /\ view.ask \in Orders /\ view.paid \in Nat /\ world.base \in Nat
  BY Fields DEF TypeOK
<1>4. /\ view.bid.live = world.bid.live /\ view.ask.live = world.ask.live /\ view.paid = world.paid
  BY <1>1 DEF ViewStands
<1>5. Committed(view.bid, view.ask) \in Nat
  BY <1>3 DEF Orders, Committed
<1> QED BY <1>2, <1>3, <1>4, <1>5 DEF Same, Live, Bare, Committed

\* A plan that fits may be picked.
LEMMA PickKeeps ==
  ASSUME IInv, Deciding, NEW action \in Own, NEW q \in Nat, Pick(action, q),
         cancel => action = "cancel",
         \A p \in Plans : p.action = action /\ p.q = q => Fitting(p, world)
  PROVE  IInv'
<1> USE DEF IInv
<1>1. /\ UNCHANGED <<ledgerVars, cand, flags, view, calm>> /\ pc' = "prepare"
      /\ plan' = [action |-> action, q |-> q, refs |-> <<view.bid.fills, view.ask.fills>>]
      /\ cand.status = "none"
  BY DEF Pick, Deciding, Clear
<1>2. view.bid.fills \in Nat /\ view.ask.fills \in Nat
  BY DEF TypeOK, Orders
<1>3. plan' \in Plans /\ plan'.action = action /\ plan'.q = q
  BY <1>1, <1>2 DEF Plans
<1>4. TypeOK'
  BY <1>1, <1>3 DEF TypeOK, ledgerVars, flags
<1>5. Fitting(plan', world)
  BY <1>3
<1>6. PlanFits'
  BY <1>1, <1>3, <1>5 DEF PlanFits, ledgerVars, flags, Fitting, Bare
<1>7. CandidateFits' /\ OnlyCancels' /\ ViewStands'
  BY <1>1 DEF CandidateFits, OnlyCancels, ViewStands, ledgerVars, Fitting, Bare
<1> QED BY <1>1, <1>4, <1>6, <1>7, LedgerStays

\* Every plan the tick picks fits the wallet.
LEMMA PlanningKeeps ==
  ASSUME IInv, PickCancel \/ PickSwap \/ PickPublish \/ PickRoute
  PROVE  IInv'
<1>1. CASE PickCancel
  <2>1. \A p : p.action = "cancel" => Fitting(p, world)
    BY DEF Fitting
  <2> QED BY <1>1, <2>1, PickKeeps DEF PickCancel
<1>2. CASE PickSwap
  <2> DEFINE size == IF Imbalance > 0 THEN Imbalance ELSE - Imbalance
             q == IF size > MaxRebalance THEN MaxRebalance ELSE size
             action == IF Imbalance > 0 THEN "sell" ELSE "buy"
  <2>1. Deciding /\ ~ Live /\ ~ OverLimit /\ Fits(action, q) /\ Admitted(action) /\ Pick(action, q)
    BY <1>2 DEF PickSwap
  <2>2. /\ Now.base = world.base /\ view.paid = world.paid /\ Now.base \in Nat /\ view.paid \in Nat
        /\ Bare(world) /\ Total = Now.base
    BY <2>1, DecidingStands DEF Total, Free
  <2>3. Imbalance \in Int
    BY <2>2 DEF Imbalance
  <2>4. q \in Nat /\ action \in {"sell", "buy"}
    BY <2>3
  <2> HIDE DEF q, action
  <2>5. view.paid + MaxFee + Venue <= MaxTotalFees
    BY <2>1, <2>4 DEF Admitted
  <2>6. \A p \in Plans : p.action = action /\ p.q = q => Fitting(p, world)
    <3> SUFFICES ASSUME NEW p \in Plans, p.action = action, p.q = q PROVE Fitting(p, world)
      OBVIOUS
    <3>1. world.paid + Cost(p.action) <= MaxTotalFees
      BY <2>2, <2>4, <2>5 DEF Cost
    <3>2. action = "sell" => q <= world.base
      BY <2>1, <2>2 DEF Fits, Free
    <3>3. action = "buy" => world.base + q <= MaxBase
      BY <2>1, <2>2 DEF Fits
    <3> QED BY <2>2, <2>4, <3>1, <3>2, <3>3 DEF Fitting
  <2>7. ~ cancel
    BY <2>1 DEF OverLimit
  <2> QED BY <2>1, <2>4, <2>6, <2>7, PickKeeps
<1>3. CASE PickPublish
  <2>1. Deciding /\ ~ Live /\ ~ OverLimit /\ Fits("publish", 0) /\ Admitted("publish") /\ Pick("publish", 0)
    BY <1>3 DEF PickPublish
  <2>2. /\ Now.base = world.base /\ view.paid = world.paid /\ Now.base \in Nat /\ view.paid \in Nat
        /\ Bare(world)
    BY <2>1, DecidingStands
  <2>3. \A p \in Plans : p.action = "publish" /\ p.q = 0 => Fitting(p, world)
    BY <2>1, <2>2 DEF Fits, Free, Admitted, Fitting, Cost
  <2>4. ~ cancel
    BY <2>1 DEF OverLimit
  <2> QED BY <2>1, <2>3, <2>4, PickKeeps
<1>4. CASE PickRoute
  <2>1. Deciding /\ ~ OverLimit /\ Admitted("route") /\ Pick("route", 0)
    BY <1>4 DEF PickRoute
  <2>2. view.paid = world.paid /\ view.paid \in Nat
    BY <2>1, DecidingStands
  <2>3. \A p \in Plans : p.action = "route" /\ p.q = 0 => Fitting(p, world)
    BY <2>1, <2>2 DEF Admitted, Fitting, Cost
  <2>4. ~ cancel
    BY <2>1 DEF OverLimit
  <2> QED BY <2>1, <2>3, <2>4, PickKeeps
<1> QED BY <1>1, <1>2, <1>3, <1>4

\* From the plan to the wire.
LEMMA SendingKeeps ==
  ASSUME IInv, Resume \/ Prepare \/ Sign \/ Proceed
  PROVE  IInv'
<1> USE DEF IInv
<1>1. CASE Resume \/ Proceed
  <2>1. /\ UNCHANGED <<ledgerVars, cand, flags, view, plan, calm>> /\ pc' = "submit"
        /\ cand.status = "signed" /\ (cancel => cand.plan.action = "cancel")
    BY <1>1 DEF Resume, Proceed, OnlyCancels, Going
  <2>2. TypeOK'
    BY <2>1 DEF TypeOK, ledgerVars, flags
  <2>3. CandidateFits' /\ PlanFits' /\ OnlyCancels' /\ ViewStands'
    BY <2>1 DEF CandidateFits, PlanFits, OnlyCancels, ViewStands, ledgerVars, flags, Fitting, Bare
  <2> QED BY <2>1, <2>2, <2>3, LedgerStays
<1>2. CASE Prepare
  <2>1. /\ UNCHANGED <<ledgerVars, flags, view, plan, calm>> /\ pc = "prepare" /\ pc' = "sign"
        /\ cand' = [plan |-> plan, status |-> "prepared", fate |-> "open"]
    BY <1>2 DEF Prepare
  <2>2. cand.status = "none" /\ plan.action \in Own /\ Fitting(plan, world)
        /\ (cancel => plan.action = "cancel")
    BY <2>1 DEF PlanFits
  <2>3. TypeOK'
    BY <2>1, <2>2 DEF TypeOK, ledgerVars, flags
  <2>4. CandidateFits' /\ PlanFits' /\ OnlyCancels' /\ ViewStands'
    BY <2>1, <2>2 DEF CandidateFits, PlanFits, OnlyCancels, ViewStands, ledgerVars, flags, Fitting, Bare
  <2> QED BY <2>1, <2>2, <2>3, <2>4, LedgerStays
<1>3. CASE Sign
  <2>1. /\ UNCHANGED <<ledgerVars, flags, view, plan, calm>> /\ pc = "sign" /\ pc' = "prepared"
        /\ cand.status = "prepared" /\ cand' = [cand EXCEPT !.status = "signed"]
    BY <1>3 DEF Sign
  <2>2. cand' = [plan |-> cand.plan, status |-> "signed", fate |-> cand.fate]
    BY <2>1, CandTyped
  <2>3. TypeOK'
    BY <2>1, <2>2, CandTyped DEF TypeOK, ledgerVars, flags
  <2>4. CandidateFits' /\ PlanFits' /\ OnlyCancels' /\ ViewStands'
    BY <2>1, <2>2 DEF CandidateFits, PlanFits, OnlyCancels, ViewStands, ledgerVars, flags, Fitting, Bare
  <2> QED BY <2>1, <2>3, <2>4, LedgerStays
<1> QED BY <1>1, <1>2, <1>3

\* Every step of the tick keeps the invariant.
LEMMA TickKeeps == ASSUME IInv, Tick \/ Interrupt PROVE IInv'
<1>1. incident \in BOOLEAN /\ stopping \in BOOLEAN /\ cancel \in BOOLEAN
  BY DEF IInv, TypeOK
<1>2. CASE Recover \/ Wait \/ Cancelled \/ Hold \/ Refuse \/ Submit \/ Interrupt
  <2>1. Finish /\ UNCHANGED <<ledgerVars, calm>>
    BY <1>2 DEF Recover, Wait, Cancelled, Hold, Refuse, Submit, Interrupt
  <2>2. incident' \in BOOLEAN /\ stopping' \in BOOLEAN /\ cancel' \in BOOLEAN
    BY <1>1, <1>2 DEF Recover, Wait, Cancelled, Hold, Refuse, Submit, Interrupt, flags
  <2>3. \/ cand' = cand
        \/ cand.status = "prepared" /\ cand' = NoCand
        \/ cand.status = "signed" /\ cand' = [cand EXCEPT !.status = "flying"]
    BY <1>2 DEF Recover, Wait, Cancelled, Hold, Refuse, Submit, Interrupt
  <2> QED BY <2>1, <2>2, <2>3, FinishKeeps
<1> QED BY <1>2, ReadingKeeps, PlanningKeeps, SendingKeeps DEF Tick

\* The operator's steps move flags, and the cancellation request only between ticks.
LEMMA OthersKeep ==
  ASSUME IInv, Operator \/ Calm \/ UNCHANGED vars
  PROVE  IInv'
<1> USE DEF IInv
<1>1. /\ UNCHANGED <<ledgerVars, cand, tickVars>>
      /\ incident' \in BOOLEAN /\ stopping' \in BOOLEAN /\ cancel' \in BOOLEAN /\ calm' \in BOOLEAN
      /\ cancel' = cancel \/ pc = "idle"
  BY DEF Operator, StartRun, RequestCancel, RequestStop, Acknowledge, Calm, vars, flags, TypeOK
<1>2. TypeOK'
  BY <1>1 DEF TypeOK, ledgerVars, tickVars
<1>3. CandidateFits' /\ PlanFits' /\ OnlyCancels' /\ ViewStands'
  BY <1>1 DEF CandidateFits, PlanFits, OnlyCancels, ViewStands, ledgerVars, tickVars, Fitting, Bare
<1> QED BY <1>1, <1>2, <1>3, LedgerStays

\* The first wallet is within its limits.
LEMMA Initially == Init => IInv
<1> SUFFICES ASSUME Init PROVE IInv
  OBVIOUS
<1>1. NoOrder \in Orders /\ NoPlan \in Plans
  BY DEF NoOrder, Orders, NoPlan, Plans
<1>2. /\ world \in Wallets /\ world.base <= MaxBase /\ world.bid = NoOrder /\ world.ask = NoOrder
      /\ world.twice = FALSE /\ world.beyond = FALSE
  <2> DEFINE W == [base : 0..MaxBase, bid : {NoOrder}, ask : {NoOrder}, paid : {0},
                    twice : {FALSE}, beyond : {FALSE}]
  <2>1. world \in W
    BY DEF Init
  <2>2. /\ world.base \in 0..MaxBase /\ world.bid = NoOrder /\ world.ask = NoOrder
        /\ world.twice = FALSE /\ world.beyond = FALSE
    BY <2>1
  <2>3. world = [base |-> world.base, bid |-> NoOrder, ask |-> NoOrder, paid |-> 0,
                 twice |-> FALSE, beyond |-> FALSE]
    BY <2>1
  <2>4. world.base \in Nat /\ world.base <= MaxBase
    BY <2>2
  <2>5. world \in Wallets
    <3>1. ASSUME NEW b \in Nat, NEW o \in Orders, NEW t \in BOOLEAN, NEW p \in Nat
          PROVE  [base |-> b, bid |-> o, ask |-> o, paid |-> p, twice |-> t, beyond |-> t] \in Wallets
      BY DEF Wallets
    <3>2. 0 \in Nat /\ FALSE \in BOOLEAN
      OBVIOUS
    <3> QED BY <1>1, <2>3, <2>4, <3>1, <3>2, Zenon
  <2> QED BY <2>2, <2>4, <2>5
<1>3. TypeOK
  <2>1. NoView \in [bid : Orders, ask : Orders, paid : Nat, pending : BOOLEAN]
    BY <1>1 DEF NoView
  <2>2. /\ NoCand \in [plan : Plans, status : {"none", "prepared", "signed", "flying", "included"},
                       fate : {"open", "landed", "failed", "dead"}]
        /\ NoCand.status = "none" <=> NoCand.plan.action = "none"
    BY <1>1 DEF NoCand, NoPlan
  <2>3. <<>> \in Seq(Events) /\ Len(<<>>) = 0
    OBVIOUS
  <2>4. recent \in Seq(Events) /\ Len(recent) <= MaxRecent /\ forks \in 0..MaxForks
    BY <2>3 DEF Init
  <2>5. /\ cand \in [plan : Plans, status : {"none", "prepared", "signed", "flying", "included"},
                      fate : {"open", "landed", "failed", "dead"}]
        /\ cand.status = "none" <=> cand.plan.action = "none"
    BY <2>2 DEF Init
  <2>6. /\ view \in [bid : Orders, ask : Orders, paid : Nat, pending : BOOLEAN] /\ plan \in Plans
        /\ incident = FALSE /\ stopping = FALSE /\ cancel = FALSE /\ pc = "idle" /\ calm = FALSE
    BY <1>1, <2>1 DEF Init
  <2> QED BY <1>2, <2>4, <2>5, <2>6 DEF TypeOK
<1>4. recent = <<>> /\ Len(recent) = 0
  BY DEF Init
<1>5. Sound(world)
  BY <1>2 DEF Sound, Exposure, Committed, NoOrder, Wallets
<1>6. OwnIsCandidate /\ StrangersKeep /\ AllSound
  BY <1>4, <1>5 DEF OwnIsCandidate, StrangersKeep, AllSound, Wallet, Same
<1>7. CandidateFits /\ PlanFits /\ OnlyCancels /\ ViewStands
  BY DEF Init, NoCand, CandidateFits, PlanFits, OnlyCancels, ViewStands
<1> QED BY <1>3, <1>6, <1>7 DEF IInv

\* The invariant is inductive.
LEMMA StepKeeps == IInv /\ [Next \/ Calm]_vars => IInv'
BY LedgerKeeps, TickKeeps, OthersKeep DEF Next

----------------------------------------------------------------------------
(* Theorems.                                                               *)

\* Whatever is filled, rolled back, cut short, stopped or resumed, a candidate
\* that may still land fits the wallet it lands on, and at the tip as after
\* every event above the depth the wallet keeps its limits.
THEOREM Invariant == (Spec => []IInv) /\ (FairSpec => []IInv)
<1>1. IInv /\ [Next]_vars => IInv'
  BY StepKeeps
<1>2. IInv /\ [Next \/ Calm]_vars => IInv'
  BY StepKeeps
<1>3. Spec => []IInv
  BY <1>1, Initially, PTL DEF Spec
<1>4. FairSpec => []IInv
  BY <1>2, Initially, PTL DEF FairSpec
<1> QED BY <1>3, <1>4

\* The wallet at the tip keeps its limits.
LEMMA TipIsSound == ASSUME IInv PROVE Sound(Now)
BY WalletTyped DEF IInv, AllSound

\* A new pair never lands over a live one: the staged repricing of tick.
THEOREM OnePair == Spec => []NeverTwoPairs
<1>1. IInv => NeverTwoPairs
  BY TipIsSound DEF Sound, NeverTwoPairs
<1> QED BY <1>1, Invariant, PTL

\* The inventory limits that decide and prepare_action check in a plan hold in
\* the wallet on the chain, bids taken to the last token included.
THEOREM BaseBounded == Spec => []BaseWithinLimit
<1>1. IInv => BaseWithinLimit
  BY TipIsSound DEF Sound, BaseWithinLimit
<1> QED BY <1>1, Invariant, PTL

\* Work that a plan was admitted for is still within the fee budget when it lands.
THEOREM BudgetKept == Spec => []AdmissionBudget
<1>1. IInv => AdmissionBudget
  BY TipIsSound DEF Sound, AdmissionBudget
<1> QED BY <1>1, Invariant, PTL

\* A cancellation request lets nothing but cancels out of the process, and is
\* taken back only with every order closed and none under way.
THEOREM CancelKept == Spec => CancelHolds
<1> DEFINE A == /\ cancel /\ cand'.status = "flying" /\ cand.status # "flying"
                     => cand'.plan.action = "cancel" \/ cand.status = "included"
                /\ cancel /\ ~ cancel' => ~ Now.bid.live /\ ~ Now.ask.live /\ cand.status = "none"
<1>1. IInv /\ [Next]_vars => [A]_vars
  <2> SUFFICES ASSUME IInv, Next PROVE A
    OBVIOUS
  <2> USE DEF IInv
  <2>1. CASE Submit
    <3>1. cancel' = cancel /\ pc = "submit" /\ cand'.plan = cand.plan
      BY <2>1, CandTyped DEF Submit, flags
    <3> QED BY <3>1 DEF OnlyCancels
  <2>2. CASE Cancelled
    <3>1. cand' = cand /\ cand.status = "none" /\ pc = "decide" /\ ~ view.bid.live /\ ~ view.ask.live
      BY <2>2 DEF Cancelled, Clear, Going, Live
    <3>2. ~ world.bid.live /\ ~ world.ask.live
      BY <3>1 DEF ViewStands
    <3>3. Same(world, Now)
      BY <3>1, NothingAbove, TipIsSame
    <3> QED BY <3>1, <3>2, <3>3 DEF Same
  <2>3. CASE Reconcile
    <3>1. cancel' = cancel /\ Resolved
      BY <2>3 DEF Reconcile
    <3>2. cand'.status = "flying" => cand.status \in {"flying", "included"}
      BY <3>1, CandTyped DEF Resolved
    <3> QED BY <3>1, <3>2
  <2>4. CASE Ledger \/ Operator \/ Interrupt \/ (Tick /\ ~ Submit /\ ~ Cancelled /\ ~ Reconcile)
    <3>1. cancel => cancel'
      BY <2>4 DEF Ledger, Fill, Land, LandFailed, Happen, Settle, Rollback, Expire, Operator, StartRun,
           RequestCancel, RequestStop, Acknowledge, Interrupt, Tick, Sync, Resync, Recover, Resume, Wait,
           PickCancel, PickSwap, PickPublish, PickRoute, Pick, Hold, Prepare, Sign, Proceed, Refuse, flags
    <3>2. CASE Prepare \/ Sign \/ Recover
      <4>1. cand'.status \in {"none", "prepared", "signed"}
        BY <3>2, CandTyped DEF Prepare, Sign, Recover
      <4> QED BY <3>1, <4>1
    <3>3. CASE Settle \/ Expire
      <4>1. cand'.status = cand.status
        BY <3>3, CandTyped DEF Settle, Expire
      <4> QED BY <3>1, <4>1
    <3>4. CASE ~ (Prepare \/ Sign \/ Recover \/ Settle \/ Expire)
      <4>1. cand' = cand
        BY <2>4, <3>4 DEF Ledger, Fill, Land, LandFailed, Happen, Rollback, Operator, StartRun,
           RequestCancel, RequestStop, Acknowledge, Interrupt, Tick, Sync, Resync, Resume, Wait,
           PickCancel, PickSwap, PickPublish, PickRoute, Pick, Hold, Proceed, Refuse
      <4> QED BY <3>1, <4>1
    <3> QED BY <3>2, <3>3, <3>4
  <2> QED BY <2>1, <2>2, <2>3, <2>4 DEF Next
<1> QED BY <1>1, Invariant, PTL DEF Spec, CancelHolds
=============================================================================
