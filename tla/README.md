# Formal models of the defi-kernel trading engine

TLA+ models, TLC runs and TLAPS proofs for the Python package `src/defi_kernel`:
an engine that trades for one Cardano wallet, either as a market maker with two
on-chain orders or as an arbitrageur with atomic routes. Line references are to
files of `src/defi_kernel` unless another path is given.

## 1. The system

| Part | State it keeps | Operations | Talks to |
|---|---|---|---|
| `journal.py` | SQLite rows: transactions, outbox, reservations, incidents, orders, fills, outcomes, run control | one SQLite transaction per method | used by everything below |
| `coordinator.py` | none (locals of a call) | `prepare`, `submit`, `reconcile_all`, `reconcile`, `_retire_expired` | journal, provider, signer |
| `arbitrage_risk.py` | none | `drawdown`, `candidate_loss`, `check_candidate` | journal rows |
| `arbitrage_runtime.py` | report of the cycle, cache of verified results | `tick`, `settlement`, `finish_candidate` | coordinator, risk, search, venues |
| `engine.py`, `trading.py` | cancel request (journal) | `tick`, `reconcile`, `request_cancel`, `prepare_action` | coordinator, settlement, strategy |
| `settlement.py` | stored chain events and projection (journal) | `OrderObserver.sync`, `project_history` | provider, journal |
| `strategy.py` | none | `decide`, `should_reprice` | quotes |
| `runtime.py` | wallet run lock (a file) | `run_lock`, `poll` | engines, journal |
| `providers.py`, `dolos.py`, `backends.py` | pacing and cooldown of a host | requests, chain evidence, `submit` | REST and RPC services |
| `arbitrage.py`, `venues.py`, `protocols.py`, `dendrite_bridge.py` | none | quoting, cycle search, datum codecs | pure |
| `transactions.py`, `execution.py`, `signing.py`, `simulation.py`, `chain_context.py`, `slots.py` | none | building, evaluating, inspecting and signing one transaction | provider |
| `reporting.py` | event log | `guard`, `event`, `cycle` | engine, provider |
| `cli.py`, `config.py`, `wallet.py`, `domain.py`, `test_execution.py` | files | commands and value types | all |

No thread is started by this code. What makes it hard is that one process works
through many separate provider calls while the world moves:

* the chain grows and leaves its fork between any two reads, and an index may
  trail the chain;
* a wire call may be lost, or arrive although it raised;
* a host limits the rate of requests, fails, or answers late;
* the process may die at any point and starts again from the journal;
* `stop` writes the journal without the wallet lock, at any point of a tick;
* strangers fill orders and spend the market's outputs.

What makes each part correct:

* **coordinator and journal**: one wire attempt per intent; inputs are given back
  only when the transaction can never land; terminal statuses are true and stay
  true; every candidate is closed in the end; `stop` holds.
* **arbitrage**: the wallet on the chain stays within the drawdown limit; books
  follow the chain; a script failure pauses until it is acknowledged.
* **market maker**: never two pairs of orders; inventory and fees within limits;
  a cancellation sends only cancels, ends, and means closed.
* **order settlement**: stored events are those of one chain; no fill is lost or
  counted twice.
* **requests**: a submission is never repeated, the host is left alone for as long
  as it asked, deadlines and the stop flag hold after pacing, a stop ends the run.
* **evidence**: a history read in pages is the chain's; a spender is called confirmed
  only when no roll-back can take it away.
* **venues and search**: what is quoted can be built; partial fills leave well-formed
  orders and makers who got their price in each direction; the search finds what its
  budgets allow, sizes it exactly and says when it was cut short.
* **construction and signing**: sizes that the engine chooses pass its own inspection;
  what is signed is bounded whatever the balancing library returned; the wallet's
  outputs keep their roles.
* **a round of the arbitrage engine**: what is sent rests on rows that existed together,
  is in time, and is the best of what could be sent.

## 2. Modules

```
Candidates --> Chain (external) --> Coordinator --> MCCoordinator
     \                               ^   |  \
      `-----> Journal --------------'    |   `-- refines Outbox
                 |                       `-- CoordinatorProofs
                 `--> Arbitrage --> MCArbitrage
                         `-- ArbitrageProofs
Chain (external) --> Evidence --> MCEvidence
                         `-- EvidenceProofs
MarketMaker        OrderLedger --> MCOrderLedger        Pacing --> MCPacing
     `-- MarketMakerProofs `-- OrderLedgerProofs         `-- PacingProofs
Venues --> Search --> MCSearch                           Round --> MCRound
Construction --> MCConstruction                           `-- RoundProofs
     `-- ConstructionProofs
```

| Module | Models |
|---|---|
| `Candidates` | a transaction as what it spends, what it pledges as collateral and when it expires |
| `Chain` | the ledger and network as the code uses them: blocks, inclusion, phase-2 failure, roll-back. External |
| `Journal` | every `journal.py` method that writes candidates, one action each |
| `Coordinator` | `coordinator.py` read by read, with stop, crash, provider error and chain between the reads |
| `Outbox` | the abstract promise about sending: one slot, taken once by a candidate, launched once at most, one wire call at most per launch |
| `Arbitrage` | the arbitrage tick, outcomes, drawdown and the submission gate |
| `MarketMaker` | the market maker tick, its planning limits and the cancel request over the wallet's order history |
| `OrderLedger` | `OrderObserver.sync` read by read, and `replace_order_projection` |
| `Evidence` | paged histories and `confirmed_spender` of the Koios and Dolos adapters, read by read |
| `Pacing` | `poll`, `BoundedHTTP.request` and `Reporter.guard` against one host, with time |
| `Venues` | quotes and fills of five venues, and the orders that a sequence of fills leaves behind |
| `Search` | `search_routes`: cycles under budgets, exact sizing, ranking, over the orders of `Venues` |
| `Construction` | from a route to a signed body and back into the wallet: inventory, sizes, balancing, inspection, books |
| `Round` | one tick of the arbitrage engine from observation to the wire, with clock, slots, blocks and deadlines |
| `CoordinatorProofs`, `ArbitrageProofs`, `MarketMakerProofs`, `OrderLedgerProofs`, `PacingProofs`, `ConstructionProofs`, `RoundProofs`, `EvidenceProofs` | the theorems of section 5 |

An operator whose comment begins with *Slip* is not part of any specification. It
is the definition after it with a plausible mistake; replacing the one by the other
must break the property that PROJECT.json names.

### How the models correspond to the code

*Journal.* A method is one action; its guard is what it raises on. A row of
`transactions`/`outbox` is `status`, `signed`, `attempts`, `block` (inclusion) and
`anchor` (the block kept as evidence in `last_error`); `reservations` is the
function `holder`. An intent stands for its bytes, so "same unsigned bytes" is
"same intent". `metadata`, confirmations and reasons are diagnostics and are left
out.

*Coordinator.* `pc` says which provider answer the process is waiting for; the
other call variables are its locals. A provider read and the journal write it
leads to are one action: no other process writes those rows and the chain does
not read them, so the write commutes with what the chain does after the read.
`tip` is read once per pass and goes stale, `canon` is the one answer of
`blocks_at_heights`. The order in which SQL returns rows is left open, as is the
set of rows for a single `reconcile`. `Interrupt` is both a provider error (it
raises out of the call) and a crash: either way only the journal remains. The
market maker's loop over single rows is `ReconcileOne`, repeated.

*Chain.* A block carries at most one transaction of interest; its hash is the
number of the fork that minted it, since a block hash commits to its ancestry.
`fixed` is the height no roll-back reaches: the highest tip minus `MaxReorg`.
`transaction_info` may miss what lies in the last `Lag` blocks.

*Arbitrage.* Uses the journal's actions, but reconciliation row by row at the grain of its
results (`RowIncluded`, `RowFailed`, ...). What search and evaluation choose is any
candidate. Each candidate has outputs of its own, so "conflicted" does not arise here.
`settlement` goes row by row as well (`SettleRow`): it reads a confirmed transaction back,
wherever it lies by then, and may stop in the middle (`Interrupt`); rows whose result is
known for their block are passed over, since reading them again changes nothing. `Choose` is
an allocation or a route, `Submit` and `Launch` are the two gates of `Coordinator.submit`.
Two settled rows of one height rest on one block or on two forks; `Anchor` then takes the
older fork's, where the code takes the row prepared last. What the rows have earned up to a
height, and what the chain has done to the wallet up to it, are running sums over the
heights (`Running` of `Booked` and of `Landed`). Three variables are history: `top` and
`calm` (was a roll-back as deep as a confirmation), and `torn` (did the chain change forks
while this tick's reconciliation already had evidence on a settled row).

*MarketMaker.* `world` is the wallet at confirmation depth, `recent` the order
events above it that a roll-back may cut, each with the wallet it leads to, so that
the wallet at the tip is that of the last one. The results of the other models are
used: a candidate is given up only when it can never land (`cand.fate`, see
`TerminalIsFinal`), and `sync` is one read (see `OneHistory`). Tokens, fees and
the order of steps are kept; prices, ADA amounts and ages only choose between
steps. Shadow mode, a configuration changed between runs and orders of a foreign
pair are left out; all of them only refuse work.

*OrderLedger.* A pass asks for the history, each block, each new inclusion, the
unspent orders, the tip and each block again, as steps of their own. A
transaction creates, fills or closes an order; amounts, terms and datums are
abstracted, since what contradicts them raises, and `Raise` may happen at any
step. The history may trail the chain by `Lag` blocks and omit up to `Gaps`
transactions, which `sync` expects ("History temporarily omits a canonical
transaction", `settlement.py:249`). Two variables are history: `eras`, the order events
of every chain the node has had, and `since`, the number of forks when a history without
gaps was read.

*Evidence.* `Coordinator` takes `confirmed_spender`, and `OrderLedger` a history, as one
answer; this module shows that the adapters' conversations deserve it. Koios lists by
transaction hash and moves its offset by what came (a server may cap a page), Dolos lists by
position in numbered pages. The offset of an entry in a listing is the number of entries
that do not come after it (`Position`). `base` is what the chain had at the first tip. Any
refusal is `Return`, which may also happen at any read. `fixed` (of `Chain`) is the height
no roll-back reaches. Pages show the chain of their moment; an index that trails is in
`OrderLedger` and `Coordinator`. Output scans work by the same code but promise less: an
output may be skipped when one before it is spent meanwhile, which `domain.py:77` says
("Completion of REST traversal does not imply a ledger snapshot").

*Pacing.* One thread and one host (`_RequestState` is shared by the endpoints of a
host). `cool`, `level` and `since` are `cooldown_until`, `rate_limits` and
`last_request`, as timers relative to now, so that time is bounded without a bound on
how long a run lasts; wall and monotonic clock move together. A `sleep` sets `left`;
every other step may be late by any time. `observed` says whether the provider has a
reporter: only the arbitrage run gives it one, so only there the guard and the stop
flag exist. `claim` is the submission's row as `Coordinator.submit` leaves it:
whatever raises after the claim leaves it unknown. A body above the request limit is
refused before anything changes; a run with a number of iterations may end after
any cycle. The request state lives in memory, so a restart forgets a cooldown:
`Init` is every start.

*The arbitrage engine in four parts.* `Arbitrage` has the tick around the journal, with
a candidate given. `Round` has what happens inside `Choose`: which rows it looks at, in
which order, when, and which candidate wins. `Search` says which routes there are, and
`Construction` what becomes of one. Each takes from the others no more than a number:
`Round` a gain per route, `Construction` a net per route, `Arbitrage` a loss and a result
per candidate.

*Venues.* An order is one record per row: the tokens it holds and the numbers of its
datum. `Fill` is `DirectState.fill` by venue (published swaps are filled by `fill_order`
of `transactions.py`), `Quote` is `Edge.quote` on top of it. Addresses, beacons, tags and
script hashes are data. The protocols' fixed scales (Splash's 100000, Saturn's 10^12 and
2 ADA) are constants, so that small numbers meet every rounding; minimum ADA does not
depend on an output's size. `Take` is a stranger's fill through the same arithmetic; like
`fill`, it does not look at the liquidity bound of a pool (see section 4), so a pool may be
`WellFormed` and not `Recognised`. `origin`, `paid` and `sold` are history: what lay there
first, what its maker has been paid, and what has been taken of each asset, so that the two
directions of an order are priced apart.
Fee outputs of several Genius orders in one body are not merged, and the start of an
order's validity is left out (its end is `Until` of `Round`).

*Search.* One step is one iteration of a loop: an edge visited, a length begun, a seed
sized, since a stop or the time limit may end it between any two. `choice` is the
recursion's stack. A row that is not `Recognised` offers no edges. Estimated fees are shared
among hops of one venue and one script (`Script`; the pools of Splash lie at several).
`fit_route` is one operator, a recursive function over seeds and
attempts; the bisection is part of it. Ties that the code breaks by a hash are broken by
an arbitrary fixed order.

*Construction.* The wallet has numbered places, each empty or with one output, and what some
outputs hold is a sum over the places (`Sum`). Values are ADA, because a route whose native
assets do not net to zero is refused first. `Balanced` is PyCardano's `build` as the code
must expect it: any fee, the hook's collateral fields or others, perhaps an input of its
own. `Inspected` is `inspect_transaction` on such a body. `Confirm` and `Fail` put the
result into the wallet and into the books. The kind of an output says what the code can see
of it: an output of a confirmed body of its own ("bot"), one with tokens or a datum
("laden"), any other ("given"). `BuildAllocation` takes the smallest source that suffices,
as the code does; it checks no minimum for the change, so an allocation whose change would
be dust fails in the library (`Built` is empty) and is tried again in the next tick.

*Round.* Time and slots are small numbers over two eras of different slot length. A tick
reads two tips: `tip` is its own, with which it reconciles and whose age it checks, `context`
the later one of `ProviderChainContext`, from which depth and slots are counted.
Everything that may fail for reasons of its own is `Reject` or `End`. The dependencies are
read again in `Validate`, `Prepare` and `Submit`. The chain only grows here: a roll-back
changes what is unspent, which the re-reads see in the same way.

## 3. Runs

Every run checks deadlock off: a bounded chain and an idle engine may stop.

| Run | Shows | Bounds |
|---|---|---|
| `coordinator` | `TerminalIsFinal`, `LandableStaysReserved`, `ConfirmedTombstones`, `StopHolds`, `ImplementsOutbox` | 2 candidates that want the same output and share collateral, a stranger that wants another; 5 blocks, 2 forks, roll-back 2, 3 confirmations, lag 1 |
| `coordinator_tombstone` | violation, see findings | 5 blocks, roll-back 5 |
| `coordinator_live` | `EventuallyClosed`, `EventuallyTrue` | 1 candidate and the stranger, 3 blocks, roll-back 3, 1 confirmation |
| `arbitrage` | `DrawdownWithinLimit`, `AnchorVouches`, `BooksFollowBlocks`, `IncidentPauses` | a profitable route, an allocation and a route; limit 4: room for one failure after a profit, never for two; 5 blocks, 1 fork, roll-back 3, 2 confirmations |
| `market` | `NeverTwoPairs`, `BaseWithinLimit`, `AdmissionBudget`, `CancelHolds`, `CancelCompletes` | order size 1, a bid that can buy twice its size, base limit 4, fee 1 of 2 in total, 2 events above depth, 1 roll-back |
| `orders_history` | `OneHistory`, `LiveOrdersStood`, `NothingForgotten`, `FillsExplainOrders` | two orders, a fill of one, a close of either of its outputs; 4 blocks, 1 fork of any depth, lag 2, 1 gap, 2 confirmations |
| `orders_pause` | violation, see findings | the same |
| `evidence` | `HistoryIsWhole`, `SpenderIsSettled` | three transactions of one address, two of which want the same output; pages of 2; 5 blocks, 1 fork, roll-back 1, 2 confirmations |
| `requests` | `QuietWhenAsked`, `BackoffRemembered`, `SubmittedOnce`, `VetoesHold`, `KeepsAsking`, `StopEnds` | pacing of 2 units, local waits 2, 4, 5, memory of a 429 for 3 beyond its cooldown, `Retry-After` 0, 3 or 7, deadline within 4 |
| `search` | `QuoteSurvivesConstruction`, `MakersServed`, `SearchIsExhaustive`, `FitIsMaximal`, `BudgetsAreShared` | each kind of order alone with up to 4 fills, and two markets of five orders after at most one fill, one with two pools at different scripts; pools whose liquidity bound some fills pass and some do not; 3 hops over 3 assets, budgets of 10, sizes up to 12 on a grid of 5; three passes: ample, short of expansions, short of cycles |
| `construction` | `BuiltIsAccepted`, `SignedIsBounded`, `WalletWithinDrawdown`, `RolesKept`, `ReservesKept` | three wallets of 3 or 4 outputs, one with proceeds, one with a token; nets from a loss after fees to a windfall; 4 candidates; 150 % |
| `round` | `ObservationHolds`, `BestIsSent` | three rows under two credentials, three routes, one clipped to an epoch and one to an order's end; one block; 8 seconds, slots of one second and then of two |

Why the bounds are enough: two candidates and a stranger give every conflict the
journal distinguishes (shared regular input, shared collateral, input taken by
others); five blocks at three confirmations let a candidate be included, confirmed, rolled
back, expire, mature and be replaced, and two roll-backs let a lookup miss what
is left of a confirmation (with lag 2 the run fails, see the assumption on `Lag`). One fork reopens
any row of the order ledger, and a second order of its own is what a gap or a roll-back
during a pass can hide without a contradiction. `MaxRecent = 2`
lets a fill and an own transaction be young at once. In `requests` the waits double,
meet the ceiling and are exceeded by what the host asks, and a deadline is shorter than
pacing plus a repeated identity read, so it can pass on the way. `evidence` was also
checked with two forks, and with 6 blocks, roll-back 2 and 3 confirmations (2.7 million
states), and `round` with two blocks (13.5 million
states).

In `search` the numbers are small and the protocols' scales with them, so that remainders
of every size occur; full and partial fills, ADA on either side and none, pools and orders
all appear, and each pass of the search is short of something else. In `construction` the
minimum, the percentage and the limits make every branch of the sizing occur: a fee
allowance bound by profit, exposure or headroom, large proceeds with one or two outputs,
an allocation with and without collateral, failures that use the headroom up. The run has no
fee cap (`FeeCaps` is empty); it was also checked with one of 2, and the theorems are about
any. In `round`
one block can fall between any two reads.

### Assumptions

* `Shallow`, that is `MaxReorg < Confirmations` and `Lag + MaxReorg <= Confirmations`, for
  `TerminalIsFinal`, `LandableStaysReserved` and `ConfirmedTombstones`: this is what
  `profile.confirmations` is for. The second half bounds what a lookup may miss by what a
  roll-back leaves of a confirmation: with `Lag <= Confirmations` alone, `TerminalIsFinal`
  fails (see section 4). `DrawdownWithinLimit` is about chains on which no such roll-back has happened
  (`calm`). Everything else lets the chain roll back as far as it likes: the other
  properties of `coordinator` are proved without a bound on roll-backs, and the other runs
  have deeper ones.
* `MaxReorg < Confirmations` for `SpenderIsSettled`; `HistoryIsWhole` needs no bound on
  roll-backs, but with Koios none during the scan.
* One process per wallet (`run_lock`); `stop` is the one command without it.
* A phase-2 failure needs collateral, and the ledger takes exactly it.
* `RolesAssumption`: the operating target and the collateral output can exist (neither is
  below minimum ADA). `config.py` does not check this.

### Fairness

* `coordinator_live`: a call in progress goes on (`WF(Progress)`), the scheduler
  starts a pass again and again (`SF(ReconcileAll)`: a tick starts with it, but
  other calls may come first), what stays on the chain is found in the end
  (`SF(TransactionFound)`), the chain grows. `poll` calls `tick` until it is
  stopped, and reconciliation goes on while stopped work waits.
* `market`: the tick goes on; young activity settles; the validity
  interval leaves time to sign, submit and include (`SF` of those steps while the
  candidate can still land); a candidate that cannot land expires.
* `requests`: time passes, the program takes its next step (`WF`), which includes the
  answer to a request (the client has a timeout), and a tick ends if it can end again and
  again (`SF(TickReturns)`: a tick makes finitely many requests).
* `search`, `construction`, `round` and the safety properties assume no fairness.
* `coordinator_live` and `market`: errors and crashes end. An interrupted call looks exactly like one that
  ends without a write, so this cannot be said about the step. The history
  variable `calm` is set at some time (`WF(Calm)`), and `Interrupt` is not enabled
  afterwards. Every finite number of interruptions remains possible.

## 4. Findings

* **A tombstone can be lost after a deep roll-back** (`coordinator_tombstone`).
  `journal.py:626-627` says "Spending reservations remain permanent tombstones: an
  old provider view cannot reintroduce a confirmed-spent input as new free funds".
  A is retired as expired and gives its input back; B reserves it; the chain rolls
  back below the retirement anchor and A lands on the new fork. `record_inclusion`
  restores A's reservations with `INSERT OR IGNORE`, which leaves B's row; when B
  is abandoned or retired its row is deleted, and A's confirmed spent input is reserved by
  nobody. It needs a roll-back as deep as a confirmation; below that the statement
  holds.
* **A disagreement ends the process** (`orders_pause`). In `sync` a height read for
  a stored event may have no block (the chain has become shorter) while the
  transaction is listed at another height. Nothing raises then; if the block is
  there at the closing re-read, `again["hash"] != block["hash"]`
  (`settlement.py:323`) subscripts `None`. `poll` does not catch a `TypeError`, and
  the run ends, where `settlement.py:5` says "incomplete history pauses execution".

Limits that the runs have met and that are not contradicted by a document:

* With two candidates that share collateral and roll-backs as deep as a
  confirmation, `EventuallyClosed` fails: a retired candidate reappears, fails and
  takes the collateral; the other row then has only its collateral spent, and
  `_retire_expired` has no regular input whose spender could prove a conflict. The
  wallet stays paused, which `docs/operator.md:73` accepts ("Missing or inconsistent
  evidence keeps the runtime paused").
* With an index whose lag and a roll-back exceed a confirmation together, a candidate that
  failed in phase 2 can be retired as conflicted when a stranger spends its regular input;
  its loss is then not booked. The proof of `TerminalIsFinal` asked for the sum; TLC finds
  the behaviour in run `coordinator` with a lag of 2 instead of 1.
* The stored events need not be all of one chain's. When the history omits a transaction,
  or the chain changes forks between the history and the block reads and the same blocks
  are found at each read from then on, an order event may be missing below one that is
  stored. Nothing contradicts it if the two are independent orders. What is stored is still
  of one chain (`OneHistory`), the live orders are right or pending (`LiveOrdersStood`,
  by the comparison with the unspent orders), and a later pass finds the event.
* The accounting anchor vouches for the other settled rows (`coordinator.py:77-78`: "A
  canonical descendant commits its ancestry") only if all were found on one fork, and
  `reconcile_all` reads the chain row by row. When the open row `a` is confirmed in a block
  of the old fork, the chain changes forks, and the terminal row `p`, which the later
  snapshot shows replaced, is found again on the new fork, higher up, then `p` is the anchor
  and a candidate passes the gate although the result of `a` rests on a block that is gone.
  TLC finds this with three candidates without collateral, 4 blocks, 1 fork and 1
  confirmation when `torn` is taken out of `AnchorVouches`. The settlement reads `a` back, so
  it is included again by then, in another block; a second fork above `p` can take it away
  before the candidate leaves. The next pass finds all of it.
* Koios' closing check sees a roll-back only while the chain has not outgrown the first
  tip. After one, an entry sorted behind a transaction that left is skipped, and the
  history is accepted without it. `sync` keeps what it has stored in such a case and
  finds the entry in the next pass.
* `Dolos.confirmed_spender` reads the tip after the block (`dolos.py:621`), the reverse of
  the order in `reconcile`. If between the two the chain leaves that block and grows
  past the old tip, a spender that is gone counts as confirmed. The candidate then
  becomes conflicted instead of expired: it cannot land either way, but the output keeps
  its reservation.
* A `stop` that commits after a run has taken the wallet lock and before `start_run`
  (`runtime.py:137-140`) is forgotten, because `start_run` resets the flag. `StopHolds` is
  about a stop that comes after `start_run`.
* `fill` does not look at the liquidity bound of a Splash pool (`venues.py:260-270`), while
  `decode_direct` refuses a pool below it (`venues.py:504`). Taking the first asset of a pool
  may leave one that the engine no longer recognises; it offers nothing until its reserves of
  that asset are back. `MakersServed` says that this is the only way out of what is
  recognised, and `Search` leaves such a pool out.
* `build_allocation` takes the smallest source that covers target, reserve and maintenance
  fee (`arbitrage_runtime.py:621`). If what is left for change is below minimum ADA, the
  body cannot be built, and the same source is chosen again in the next tick. A maintenance
  limit of a fee plus minimum ADA avoids it.

## 5. Proofs

`CoordinatorProofs` proves, for every set of candidates and outputs, every chain
length, number and depth of roll-backs, every lag and every confirmation depth:

| Theorem | States |
|---|---|
| `Invariant` | `Spec => []IInv` |
| `TypeCorrect` | `Spec => []TypeOK` |
| `SentOnce` | `Spec => []OneWireAttempt` |
| `AbandonSafe` | `Spec => []AbortedNeverSent` |
| `UndecidedHolds` | `Spec => [](FreshHoldsItsInputs /\ OneUndecided)` |
| `StopKept` | `Spec => StopHolds` |
| `OutboxImplemented` | `Spec => ImplementsOutbox`, with `launches` and `calls` of `Outbox` the counts of claims and of wire calls |

and, under `Shallow`, for any number of roll-backs:

| Theorem | States |
|---|---|
| `DepthInvariant` | `Spec => []DInv` |
| `TerminalFinal` | `Spec => []TerminalIsFinal` |
| `LandableReserved` | `Spec => []LandableStaysReserved` |
| `TombstonesKept` | `Spec => []ConfirmedTombstones` |

`ArbitrageProofs` proves, for every set of candidates, every chain, roll-backs of any number
and depth, and every limit:

| Theorem | States |
|---|---|
| `Invariant` | `Spec => []IInv` |
| `AnchorSound` | `Spec => []AnchorVouches` |
| `BooksSound` | `Spec => []BooksFollowBlocks` |
| `DrawdownBounded` | `Spec => []DrawdownWithinLimit` |
| `IncidentKept` | `Spec => IncidentPauses` |

`MarketMakerProofs` proves, for every order size, inventory limit, fee and budget, and any
number of events above the depth and roll-backs:

| Theorem | States |
|---|---|
| `Invariant` | `Spec => []IInv`, `FairSpec => []IInv` |
| `OnePair` | `Spec => []NeverTwoPairs` |
| `BaseBounded` | `Spec => []BaseWithinLimit` |
| `BudgetKept` | `Spec => []AdmissionBudget` |
| `CancelKept` | `Spec => CancelHolds` |

`OrderLedgerProofs` proves, for any set of orders, fills and closes, every chain, roll-backs
of any number and depth, every lag, number of gaps and confirmation depth:

| Theorem | States |
|---|---|
| `LineageInvariant`, `OrderTypeCorrect` | `Spec => []IInv`, `Spec => []TypeOK` |
| `StoredFromOneChain` | `Spec => []OneHistory` |
| `LiveFromOneChain` | `Spec => []LiveOrdersStood` |
| `FillsAgree` | `Spec => []FillsExplainOrders` |
| `HistoryRemembered` | `Spec => NothingForgotten` |

`PacingProofs` proves, for every interval, table of waits, ceiling, deadline and answer
of the host:

| Theorem | States |
|---|---|
| `Invariant`, `TypeCorrect` | `Spec => []IInv`, `Spec => []TypeOK` |
| `SubmissionOnce` | `Spec => []SubmittedOnce` |
| `BackoffKept` | `Spec => []BackoffRemembered` |
| `SignalPrompt` | `Spec => []QuitIsPrompt` |
| `HostLeftAlone`, `VetoesAlwaysHold` | `Spec => QuietWhenAsked`, `Spec => VetoesHold` |
| `CooldownWaitedOut` | `Spec => CycleWaitsOut` |

`ConstructionProofs` proves, for every wallet, percentage, limit, fee cap, route and fee:

| Theorem | States |
|---|---|
| `Invariant` | `Spec => []IInv` |
| `SizesAccepted` | `Spec => []BuiltIsAccepted` |
| `SignedBounded` | `Spec => []SignedIsBounded` |
| `ReservesUntouched` | `Spec => ReservesKept` |
| `RolesSurvive` | `Spec => RolesKept` |
| `DrawdownKept` | `Spec => []BooksWithinDrawdown` |
| `WalletBounded` | `Spec => []WalletWithinDrawdown` |

`RoundProofs` proves, for every ledger history, every set of rows, routes and gains, every
table of eras and every timing:

| Theorem | States |
|---|---|
| `Invariant` | `Spec => []IInv` |
| `ObservationSound` | `Spec => ObservationHolds` |
| `BestSent` | `Spec => BestIsSent` |

`EvidenceProofs` proves, for every set of transactions, every chain, page size, cap of the
server and order of the hashes, and roll-backs of any number and depth:

| Theorem | States |
|---|---|
| `HistoryWhole` | `Spec => []HistoryIsWhole` |
| `SpenderSettled` | `Spec => []SpenderIsSettled`, under `MaxReorg < Confirmations` |

The coordinator's use `CandidateAssumption`, `ChainAssumption`, `JournalAssumption` and
`CoordinatorAssumption` only, which TLC evaluates in every coordinator run; those of
`Arbitrage` the first three and `ArbitrageAssumption`; those of `MarketMaker` use
`MarketMakerAssumption`: the ranges of the limits, and that a bid can buy at least its size;
those of `OrderLedger` use `OrderLedgerAssumption`: a transaction takes and makes what its kind
says, and no two make one output;
those of `Pacing` use `PacingAssumption`, which says that each wait is twice the one before, up to
the ceiling; those of `Construction` use `ConstructionAssumption` and `RolesAssumption`;
those of `Round` use `RoundAssumption` and `EraAssumption`, which says what the constructor
of `SlotClock` verifies: eras of whole slots, one after the other; those of `Evidence` use
`ChainAssumption` and `EvidenceAssumption`: no two hashes are of one rank.

`OneWireAttempt` is not inductive: that a claim happens once says nothing unless a
candidate in `prepared` has no attempt, and that a send happens once nothing unless
the send counter follows the attempts. The inductive invariant is
`IInv == TypeOK /\ JournalInv /\ WireMatches`:

* `JournalInv` speaks of the journal alone: types, `AttemptsMatch` (a row that is
  absent, prepared or aborted has no attempt), `FreshHoldsItsInputs` and
  `OneUndecided`. There is one lemma per journal method saying that it
  preserves `JournalInv`.
* `WireMatches` ties call, wire and journal: no more sends than attempts, what is on the
  wire was sent, a call at `send` has its one attempt and no send, and a call from `send`
  to its answer finds its row `submitting`.

The proof that a step preserves `IInv` has one step per action of `Coordinator`; an
action that writes the journal cites the lemma of that method. `StopKept` and
`OutboxImplemented` follow from `IInv` and the same case split: the abstract slot is
the one candidate in `Fresh`, which `OneUndecided` makes unique, its launches are `attempts`
and its calls `sends`. A second claim or a second wire call is no step of `Outbox`, so
`Claimable` and `WireMatches` (`SendCalls`) are what the proof turns on.

The properties about depth need more: that what a call learned from one read is still true
when it writes, several reads later. Their invariant is
`DInv == IInv /\ ChainSound /\ CallStands /\ RowsRest`. A point `Rests` when it is a block of
`1..fixed`, the part that no roll-back reaches.

* `ChainSound`: `fixed` trails the tip by `MaxReorg` at most, no block carries what had expired
  in its slot, and the slots rise with the heights.
* `CallStands` says for each point of `reconcile` what its answers still mean. The tip of the
  pass is at most `MaxReorg` above `fixed` (`TipLow`). A block that was read at a height is
  there or never will be again (`InfoStands`: hashes bear the number of their fork), so the
  comparison with `block_at_height` after the second tip is one with the present, and an
  inclusion `Confirmations` below the tip rests (`RecordStands`). The anchor of
  `_retire_expired` rests and lies past the expiry (`AnchorStands`), so a candidate that is
  absent then stays absent (`ExpiredStaysOff`). That the last lookup did not simply miss it
  (`AbsenceStands`) is where `Lag + MaxReorg <= Confirmations` is used: what it could miss
  lies above the anchor, and nothing above it can carry an expired transaction.
* `RowsRest` carries that over to the journal: blocks of confirmed and failed rows and anchors
  of retired ones rest, undone rows hold all they name, confirmed rows what they spent.

The three properties follow from `RowsRest`. A pass never finds a terminal row replaced
(`NeverReplaced`): the block it names rests, so `blocks_at_heights` shows it.

In `Arbitrage` the question is what a tick still knows of the chain. `HashesMove` says that
a step of the chain adds a block of the present fork or cuts the chain and begins a new one.
Hence every block bears the number of a fork that was begun (`ForksNumbered`), and a settled
row that rests on a block of the present fork stands (`SettledOnBlocks`). While no fork
falls into a pass, the snapshot and the rows visited stand (`SnapshotStands`,
`VisitedStands`); at its end all settled rows stand together, and from then on a fork takes
away the upper ones first (`SettledNest`), so that the highest vouches for the others
(`AnchorStands`): that is the comment's "commits its ancestry". `Books` adds that a
transaction is on the chain once, that the block of a settled row carries it with the end
the row says (`RowsTell`), and that every outcome is what the block it names did
(`OutcomesTell`). No bound on roll-backs is needed for either.

`DrawdownWithinLimit` is about amounts on top of that. The gate looks at the books, the
property at the chain, and between the two a candidate is sent, lands, is rolled back, lands
again, fails and is settled late. `Ledger` says that only what was sent gets on the chain
(`Sent`), and `Quiet`, as long as no roll-back was as deep as a confirmation, that the block
under an ended row stays and an expired candidate can never land (`EndsStand`), that one
candidate is open at most (`OneOpen`), and that its block lies above those of all settled
rows (`OpenIsLast`). So the chain is what the settled rows did (`Fixed`) and perhaps one
block more, and `Bounded` says that `Fixed` is within the limit, with room for the loss of
the candidate that was sent. When `CheckCandidate` passes with verified rows, its headroom
is that room (`BooksAreFixed`, `GateBounds`: the books are those of `Fixed`); when the
candidate is settled, its loss moves from the room into `Fixed`, and its gain can only widen
it (`RowEnds`). The running sums are a recursive function over the heights. The prover
cannot use the library's induction, so what is needed of them (`RunningAgrees`: equal
amounts have equal sums; `RunningRests`: nothing but zeros adds nothing) is proved by the
least height at which it would fail (`LeastExists`, from the well-founded order of the
naturals).

In `MarketMaker` the question is why a limit that is checked in a plan holds on the ledger,
where the candidate lands many steps later and a roll-back may take it out and put it in
again. Above the depth there is at most one event of the wallet's own, and it is the open
candidate's (`OwnIsCandidate`); all the others are strangers' fills, which move neither the
base inventory nor the costs and close no order (`StrangersKeep`). So every plan is made on
a wallet that is the `Same` as the one at the depth (`DecidingStands`), and what fits the
one fits the other: `CandidateFits` survives fills, settlements and roll-backs until the
candidate's own event settles, and each of the wallets in `recent` keeps its limits
(`AllSound`). That a decision sees the depth as it is, although it read the orders earlier
and the costs between, is `ViewStands`: only a candidate moves them, and a candidate whose
status moved asks for the projection again.

In `OrderLedger` a pass reads one chain in pieces while the chain moves. `LedgerOK` says that
the chain holds a transaction once and that all it ever was up to any height is in `eras`.
`Stands(h, x)` is the fact about a hash read at a height: once the chain has left that block,
no later block there bears the hash; an event is `Sound` when it is on the chain or its block
is gone for good. Steps of the chain keep both (`LedgerStep`). So everything read new and
everything stored is `Sound` (`ReadsOK`, `JournalOK`), and the closing re-read proves what it
should: if every block is the same again, all of `found` is on the present chain; until then
a block still to be read may differ, which is the second half of `PassOK`. `ListOK` adds that
without gaps and forks the pass sees a prefix of the chain (`FoundIsAPrefix`), the stronger
half of `OneHistory`. `MemoryOK` is the reason that nothing is forgotten: a stored event that
was not taken over has lost its block or is pending. The comparison with the unspent orders
puts `Unspent(found) = Unspent(E)` for an era `E` into `PassOK`, and `Commit` hands it to
`live`. `FillsAgree` then is about `Replayable` sets of events alone.

In `Pacing` the checks are made at one step and relied on at a later one. The inductive
invariant carries each of them along: `CooldownSeen` (the cooldown covers what the host
asked for, is over from the moment a request has its turn until it leaves, and ends
within the pause of `poll`), `ClaimFollowsCall` (the row is open exactly while its call
runs, and sent only once the call waits for its answer), `GuardSeen` (the record written
under the guard stands until transmission) and `SignalSeen` (after the one request that
may leave after a signal, no other gets past its guard).

In `Construction` a draft is signed from what was decided when it was built. The invariant
says what a draft of each kind was asked with (`TradeAsked`, `AllocationAsked`, against the
present headroom, which nothing moves while a draft is in hand), what balancing always
does (`Balances`) and that a signed one was inspected (`SignedIsInspected`). The
arithmetic is in lemmas of its own: `CeilingFits` (a fee that exposure allows has a
collateral within exposure, although one is rounded down and the other up) and
`CeilingPays` (the collateral of a ceiling pays for every fee below it); they need the
multiplication of unknowns, which the solver gets in single steps (`Floor`, `Ceiling`,
`Monotone`). `LimitIsLeast` shows that the smallest allowance exists. `ReservesUntouched` rests
on a second invariant, `RolesHeld`: a draft in hand spends sources only, an inspected one has
no input of the balancer's, and three places are free, so that its outputs cannot fall on
one that is in use (`PutTakesOne`, `OthersStay`; cardinalities of finite sets). `DrawdownKept` is the
wallet's limit by the books, and `WalletFollows` carries it to the real wallet: what it is
below its best is what the books are below their peak. That needs the whole weight of the
wallet before and after a step. `Weigh` gives every output a weight and adds over the
places: an output that is put adds its own (`PutAdds`), inputs that leave take theirs
(`WithoutTakes`), so that a confirmed body moves the wallet by the result that is booked
(`ConfirmWeighs`) and a failed one by what the ledger takes of the collateral
(`CollateralIsOne`, `FailWeighs`). `RolesKept` is the same argument with another weight,
under which only outputs that the inventory can use count, less the collateral, which a
trade leaves alone (`CollateralStays`): what a trade funds itself with it gives back in
outputs of that kind (`KeptGivesBack`, `TradeGivesBack`). `SumIs` to `SumOfOne` are proved
like the running sums of `Arbitrage`.

In `Round` a deadline is made from slots and kept in seconds. `SlotsBeginInTime` is the fact
it rests on: a slot not after that of a time begins not after it, although the two may lie
in eras with slots of different length and the CHOOSE of `SlotAt` and of `TimeAt` look for
them separately. `DeadlineInTime` follows for all the bounds of `Ttl`. The invariant then
says that every candidate and draft is `InTime`, that everything seen lay there at the
tip of the tick's chain context and has at most been spent since (`SeenAtTip`), and that every route passed
over had a rival in time among the candidates (`PassedOver`); the first lets the margin at
`Submit` follow from a comparison with the deadline alone, the second names the one
height, the third is what `Select` compares with.

In `Evidence` a call reads pieces of the chain while the chain moves. A point that was read
(`Seen`) is on the chain or gone for good (`PointMoves`). As long as the block of the first
tip stands, the entries below it are the same, and in the order of either adapter none of
them moves ahead, since what is added only comes in between or behind (`ScanMove`; for Koios,
which orders by hash, as long as nothing at all was rolled back). `PositionsAre` says that
the positions of a listing are the numbers from one to its length, so what the offset has
passed is in `rows` (`ScanPage`) and an empty page is behind everything (`ScanLast`);
`Scanning` holds both, and the closing checks say that the block stood. For a spender, what
was read of a block is kept as a fact about that block: `KoiosLookup` is about the height
that the history named, which is too deep to change once `Deep` was seen (`DeepIsFixed`),
`DolosLookup` is conditional on the block of the inclusion, which the block read and the
tip then find in place.

Proved but in no run: `OneWireAttempt` (which `ImplementsOutbox` says as well),
`AbortedNeverSent`, `OneUndecided`,
`FreshHoldsItsInputs` (a run checks it as part of `LandableStaysReserved`), `QuitIsPrompt`,
`CycleWaitsOut` and `BooksWithinDrawdown`.

Only model-checked: everything about `Search` and `Venues`, and all liveness (fairness and
ENABLED are outside the prover). `MakersServed` and `QuoteSurvivesConstruction` compare
products of quotients over any sequence of fills by five kinds of order, nonlinear
arithmetic which the solver decides only in steps as small as those of `CeilingFits`;
`SearchIsExhaustive`, `FitIsMaximal` and `BudgetsAreShared` compare a walk and a bisection
with sets of ways and seeds through folds of the library over sequences.

## 6. Not modelled, and the plan

Done: coordinator, journal, arbitrage risk and tick, market maker tick, order sync, paged
evidence, requests and polling, venues and search, construction and signing, the round of
the arbitrage engine with its deadlines, and the proofs about coordinator, arbitrage,
market maker, order ledger, evidence, requests, construction and round. What could follow, in this order:

1. Proofs: the refinement of the coordinator's `confirmed_spender` by `Evidence`;
   `BudgetsAreShared` and the arithmetic of one fill (`OrderAmounts`, `PoolAmounts`).
2. `strategy.decide` against a reference, and the construction side of
   `trading.prepare_action` beyond its limits.
3. `ProviderBundle`: the anchors that two bound providers compare; output scans.

Parts of modelled components that are left out:

* *Search and protocols*: datum codecs, beacons and addresses (pure conversion, covered by
  golden data in the repository); the mathematics of dano pools (a library's); merging the
  fee outputs of several Genius orders; the start of an order's validity.
* *Construction and signing*: placing and repricing orders, redeemers, witnesses, required
  signers, mint and withdrawals, script evaluation, transaction size. An inspection refuses
  on each of them; none of them changes state.
* *Arbitrage engine*: reports and phases, reward accounts, the pairing of configuration rows.
* *Market maker*: shadow mode, a configuration changed between runs, foreign pairs.
* *Reporting*: publication, deduplication and rotation of event records, summaries.
  Nothing but `guard` and the stop flag is read by a decision.
* *Providers*: validation of response bodies, credentials, output scans.

Not modelled at all: the journal's identity, wallet binding and run reports (written once
and compared, or diagnostics), `cli.py`, `config.py`, `wallet.py` and `domain.py` (argument
parsing, file permissions, value types; the commands that change the journal are actions of
the modules above), and `test_execution.py`, a driver of fixed scenarios.
