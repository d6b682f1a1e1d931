----------------------------- MODULE Arbitrage -----------------------------
(***************************************************************************)
(* One wallet run by the arbitrage engine (arbitrage_runtime.py) under a   *)
(* drawdown limit (arbitrage_risk.py).  A tick reconciles every row,       *)
(* records the outcome of settled ones, and only then may recover, resume, *)
(* or prepare and submit one new candidate whose worst case fits into the  *)
(* loss headroom.                                                          *)
(*                                                                         *)
(* Reconciliation is taken at the grain of its results, one row at a time  *)
(* (the Coordinator module has its steps); search, build and evaluation    *)
(* only choose which candidate comes next.                                 *)
(***************************************************************************)
EXTENDS Chain, Journal, FiniteSetsExt

CONSTANTS
  Gain,           \* Gain[i]: wallet delta of i when its scripts succeed
  Risk,           \* Risk[i]: candidate_loss, what i costs at worst
  Limit,          \* config.max_drawdown_lovelace
  Confirmations   \* profile.confirmations

\* The final inspector accepts no delta below the cost of a failure.
ASSUME ArbitrageAssumption ==
  /\ Gain \in [Intents -> Int] /\ Risk \in [Intents -> Nat]
  /\ \A i \in Intents : Gain[i] >= - Risk[i]
  /\ Limit \in Nat \ {0} /\ Confirmations \in Nat \ {0}

VARIABLES
  outcome,      \* arbitrage_outcomes: block hash and net of each intent
  pc, cur,      \* where the tick is, and the candidate it is about
  todo,         \* rows reconcile_all, then settlement, still has to visit
  canon,        \* its one read of the blocks under the terminal rows
  vouched,      \* forks seen when the accounting anchor was read (-1: not read)
  top, calm,    \* history: highest tip so far; no roll-back was as deep as a confirmation
  torn          \* history: this tick's evidence on settled rows is from two forks

tickVars == <<pc, cur, todo, canon, vouched>>
vars == <<chainVars, journalVars, outcome, tickVars, top, calm, torn>>

NoOutcome == [hash |-> -1, net |-> 0]
Unread == <<>>
Settled == {i \in Intents : status[i] \in {"confirmed", "failed"}}
Dead == {i \in Intents : status[i] \in {"absent", "aborted", "expired", "conflicted"}}

TypeOK ==
  /\ ChainTypeOK /\ JournalTypeOK
  /\ outcome \in [Intents -> [hash : Int, net : Int]]
  /\ pc \in {"idle", "reconcile", "settle", "decide", "prepare", "sign", "prepared", "submit", "claim"}
  /\ cur \in Intents \cup {Nobody}
  /\ todo \in SUBSET Intents /\ (todo # {} => pc \in {"reconcile", "settle"})
  /\ canon = Unread \/ canon \in [Heights -> Int]
  /\ vouched \in -1..MaxForks
  /\ top \in Heights /\ calm \in BOOLEAN /\ torn \in BOOLEAN

Init ==
  /\ ChainInit /\ JournalInit
  /\ outcome = [i \in Intents |-> NoOutcome]
  /\ pc = "idle" /\ cur = Nobody /\ todo = {} /\ canon = Unread /\ vouched = -1
  /\ top = Height /\ calm = TRUE /\ torn = FALSE

----------------------------------------------------------------------------
(* drawdown and check_candidate.                                           *)

Total(f, S) == MapThenSumSet(LAMBDA i : f[i], S)

\* The running sums of a row of amounts, one amount to a height.
Running(amounts) ==
  LET sum[h \in 0..MaxHeight] == IF h = 0 THEN 0 ELSE sum[h - 1] + amounts[h]
  IN sum

\* Slip: the outcome of another block is taken for this one's.
VerifiedAnyBlock(i) == outcome[i] # NoOutcome
\* Every settled row has an outcome, verified for the block it rests on.
Verified(i) == outcome[i].hash = block[i].hash
Accountable == \A i \in Settled : Verified(i)

\* Running net over the settled rows, in the order of their blocks.
Booked == [h \in Heights |-> Total([i \in Intents |-> outcome[i].net],
                                   {i \in Settled : block[i].height = h})]
NetAt(h) == Running(Booked)[h]
Net == NetAt(MaxHeight)
Peak == Max({NetAt(h) : h \in 0..MaxHeight})
Reserved(except) == Total(Risk, (Intents \ (Settled \cup Dead)) \ {except})

Headroom(except) == Limit - (Peak - Net) - Reserved(except)

\* The last settled row.  Two rows of one height rest on one block or on two
\* forks; of those the code takes the one prepared last, here the older fork's.
Anchor ==
  CHOOSE i \in Settled : \A j \in Settled :
    \/ block[j].height < block[i].height
    \/ block[j].height = block[i].height /\ block[j].hash >= block[i].hash

CheckCandidate(i, except) ==
  /\ NoIncident
  /\ Accountable
  /\ Risk[i] <= Headroom(except)

----------------------------------------------------------------------------
(* Control of the tick.                                                    *)

Goto(step, i) == pc' = step /\ cur' = i /\ canon' = Unread /\ UNCHANGED <<todo, vouched>>
Finish == pc' = "idle" /\ cur' = Nobody /\ todo' = {} /\ canon' = Unread /\ vouched' = -1

\* A provider or gate error pauses the cycle; a crash ends the process.
Interrupt == pc # "idle" /\ Finish /\ UNCHANGED <<chainVars, journalVars, outcome>>

Tick ==
  /\ pc = "idle"
  /\ pc' = "reconcile"
  /\ todo' = {i \in Intents : status[i] \notin {"absent", "aborted"}}
  /\ UNCHANGED <<chainVars, journalVars, outcome, cur, canon, vouched>>

----------------------------------------------------------------------------
(* reconcile_all, row by row, at the grain of its results.                 *)

Canonical(i) == HashAt(block[i].height) = block[i].hash
Depth(h) == Height - h + 1
PointAt(h) == [height |-> h, hash |-> chain[h].hash]

\* The open rows come first; then one read serves all the terminal ones.
ReadBlocks ==
  /\ pc = "reconcile" /\ canon = Unread
  /\ todo # {} /\ \A i \in todo : status[i] \in Terminal
  /\ canon' = [h \in Heights |-> HashAt(h)]
  /\ UNCHANGED <<chainVars, journalVars, outcome, pc, cur, todo, vouched>>

BlockSeen(i) == IF status[i] \in Terminal THEN canon[BlockUnder(i).height]
                                         ELSE HashAt(BlockUnder(i).height)

\* Another block has taken the place of the one the row rests on.
Replaced(i) == status[i] # "rolled_back" /\ BlockSeen(i) \notin {-1, BlockUnder(i).hash}

Turn(i) == status[i] \in Terminal => canon # Unread /\ \A j \in todo : status[j] \in Terminal

RowRolledBack(i) ==
  /\ Replaced(i)
  /\ RecordRollback(i)
  /\ UNCHANGED todo

RowIncluded(i) ==
  \E h \in InclusionHeights(i) :
    /\ chain[h].valid
    /\ RecordInclusion(i, PointAt(h), Depth(h) >= Confirmations)
    /\ todo' = todo \ {i}

RowFailed(i) ==
  \E h \in InclusionHeights(i) :
    /\ ~ chain[h].valid /\ Depth(h) >= Confirmations
    /\ RetireFailed(i, PointAt(h))
    /\ todo' = todo \ {i}

\* A failure that is not deep enough yet is not recorded.
RowWaits(i) ==
  /\ \E h \in InclusionHeights(i) : ~ chain[h].valid /\ Depth(h) < Confirmations
  /\ todo' = todo \ {i}
  /\ UNCHANGED journalVars

RowMissing(i) ==
  /\ ~ OnChain(i)
  /\ IF status[i] = "submitted" THEN MarkTransaction(i, "unknown") ELSE UNCHANGED journalVars
  /\ todo' = todo \ {i}

\* Absent from a chain that is past its validity at confirmation depth.
RowExpired(i) ==
  /\ ~ OnChain(i)
  /\ \E h \in 1..Height : /\ Depth(h) = Confirmations /\ chain[h].slot >= Expires[i]
                          /\ RetireExpired(i, "expired", Roles(i), PointAt(h))
  /\ todo' = todo \ {i}

\* Its block stands, and an inclusion has its depth; else the pass raises.
RowStands(i) ==
  /\ status[i] \in Terminal
  /\ BlockSeen(i) = BlockUnder(i).hash
  /\ i \in Settled => Depth(block[i].height) >= Confirmations
  /\ todo' = todo \ {i}
  /\ UNCHANGED journalVars

ReconcileRow(i) ==
  /\ pc = "reconcile" /\ i \in todo /\ Turn(i)
  /\ \/ RowRolledBack(i)
     \/ /\ ~ Replaced(i) /\ status[i] \notin Terminal
        /\ \/ RowIncluded(i) \/ RowFailed(i) \/ RowWaits(i)
           \/ RowMissing(i) \/ RowExpired(i)
     \/ RowStands(i)
  /\ UNCHANGED <<chainVars, outcome, pc, cur, canon, vouched>>

----------------------------------------------------------------------------
(* settlement: a result per settled row, computed from the ledger's bytes. *)

\* What a row's end did to the wallet.
Result(i) == IF status[i] = "confirmed" THEN Gain[i] ELSE - Risk[i]

\* Rows whose result is known for their block are passed over.
EndPass ==
  /\ pc = "reconcile" /\ todo = {}
  /\ pc' = "settle" /\ todo' = {i \in Settled : ~ Verified(i)} /\ canon' = Unread
  /\ UNCHANGED <<chainVars, journalVars, outcome, cur, vouched>>

\* Slip: a script failure is no outcome.
SettleSuccess(i) ==
  /\ pc = "settle" /\ i \in todo
  /\ status[i] = "confirmed" => \E h \in InclusionHeights(i) : chain[h].valid
  /\ outcome' = [outcome EXCEPT ![i] = [hash |-> block[i].hash,
                                        net  |-> IF status[i] = "confirmed" THEN Gain[i] ELSE 0]]
  /\ todo' = todo \ {i}
  /\ UNCHANGED <<chainVars, journalVars, pc, cur, canon, vouched>>

\* A confirmed transaction is read back, wherever it lies now, and must have
\* succeeded; the loss of a failed one is computed from the candidate.
SettleRow(i) ==
  /\ pc = "settle" /\ i \in todo
  /\ status[i] = "confirmed" => \E h \in InclusionHeights(i) : chain[h].valid
  /\ outcome' = [outcome EXCEPT ![i] = [hash |-> block[i].hash, net |-> Result(i)]]
  /\ todo' = todo \ {i}
  /\ UNCHANGED <<chainVars, journalVars, pc, cur, canon, vouched>>

EndSettlement ==
  /\ pc = "settle" /\ todo = {}
  /\ Goto("decide", Nobody)
  /\ UNCHANGED <<chainVars, journalVars, outcome>>

----------------------------------------------------------------------------
(* What the tick does next.                                                *)

Ready == pc = "decide" /\ Accountable /\ NoIncident /\ ~ StopRequested

Recover(i) ==
  /\ Ready
  /\ {j \in Intents : status[j] \notin Closed \cup {"absent"}} = {i}
  /\ AbandonUnsigned(i)
  /\ Finish /\ UNCHANGED <<chainVars, outcome>>

\* The original bytes of a signed candidate, under the same configuration.
Resume(i) ==
  /\ Ready
  /\ {j \in Intents : status[j] \notin Closed \cup {"absent"}} = {i}
  /\ status[i] = "prepared" /\ signed[i]
  /\ Goto("submit", i) /\ UNCHANGED <<chainVars, journalVars, outcome>>

\* Search and evaluation have chosen i; finish_candidate checks it.
Choose(i) ==
  /\ Ready /\ NothingOpen
  /\ Headroom(Nobody) > 0
  /\ status[i] = "absent" /\ CheckCandidate(i, Nobody)
  /\ Goto("prepare", i) /\ UNCHANGED <<chainVars, journalVars, outcome>>

\* Stopped, paused, pending, or nothing worth doing.
Rest ==
  /\ pc \in {"decide", "prepared"} \/ (pc = "prepare" /\ StopRequested)
  /\ Finish /\ UNCHANGED <<chainVars, journalVars, outcome>>

Prepare ==
  /\ pc = "prepare"
  /\ NothingRolledBack /\ Roles(cur) \cap Spent = {} /\ Slot < Expires[cur]
  /\ CheckCandidate(cur, Nobody)
  /\ PrepareCandidate(cur)
  /\ Goto("sign", cur) /\ UNCHANGED <<chainVars, outcome>>

Sign ==
  /\ pc = "sign"
  /\ AttachSignature(cur)
  /\ Goto("prepared", cur) /\ UNCHANGED <<chainVars, outcome>>

Proceed ==
  /\ pc = "prepared" /\ ~ StopRequested
  /\ Goto("submit", cur) /\ UNCHANGED <<chainVars, journalVars, outcome>>

\* Slip: the accounting anchor is not read back.
SubmitUnvouched ==
  /\ pc = "submit"
  /\ CheckCandidate(cur, cur)
  /\ Slot < Expires[cur] /\ Roles(cur) \cap Spent = {}
  /\ vouched' = forks
  /\ pc' = "claim" /\ UNCHANGED <<cur, todo, canon>>
  /\ UNCHANGED <<chainVars, journalVars, outcome>>

\* submit: the gate, then one look at the block of the last settled row, which
\* stands for all of them.
Submit ==
  /\ pc = "submit"
  /\ CheckCandidate(cur, cur)
  /\ Settled # {} => Canonical(Anchor) /\ Depth(block[Anchor].height) >= Confirmations
  /\ Slot < Expires[cur] /\ Roles(cur) \cap Spent = {}
  /\ vouched' = forks
  /\ pc' = "claim" /\ UNCHANGED <<cur, todo, canon>>
  /\ UNCHANGED <<chainVars, journalVars, outcome>>

\* The gate again, the claim, and the wire call with its two results.
Launch(delivered) ==
  /\ pc = "claim"
  /\ CheckCandidate(cur, cur)
  /\ Claimable(cur)
  /\ status' = [status EXCEPT ![cur] = IF delivered THEN "submitted" ELSE "unknown"]
  /\ attempts' = [attempts EXCEPT ![cur] = 1]
  /\ \/ wire' = wire \cup {cur}
     \/ ~ delivered /\ UNCHANGED wire
  /\ Finish
  /\ UNCHANGED <<chain, forks, fixed, outcome>>
  /\ UNCHANGED <<signed, holder, block, anchor, incident, control>>

----------------------------------------------------------------------------
\* Reconciliation has evidence on a settled row already.
Begun == canon # Unread \/ Settled \ todo # {}

Environment ==
  /\ ChainNext /\ UNCHANGED <<journalVars, outcome, tickVars>>
  /\ top' = Max({top, Len(chain')})
  /\ calm' = (calm /\ top - Len(chain') < Confirmations)
  /\ torn' = (torn \/ (pc = "reconcile" /\ forks' # forks /\ Begun))

Operator ==
  \/ /\ pc = "idle"
     /\ StartRun \/ \E i \in Intents : AcknowledgeIncident(i)
     /\ UNCHANGED <<chainVars, outcome, tickVars>>
  \/ RequestStop /\ UNCHANGED <<chainVars, outcome, tickVars>>

Engine ==
  \/ Operator \/ Interrupt \/ Tick \/ ReadBlocks \/ EndPass \/ EndSettlement \/ Rest
  \/ \E i \in Intents : ReconcileRow(i) \/ SettleRow(i) \/ Recover(i) \/ Resume(i) \/ Choose(i)
  \/ Prepare \/ Sign \/ Proceed \/ Submit
  \/ \E delivered \in BOOLEAN : Launch(delivered)

Next == Environment \/ (Engine /\ torn' = (torn /\ pc' # "idle") /\ UNCHANGED <<top, calm>>)

Spec == Init /\ [][Next]_vars

----------------------------------------------------------------------------
(* Properties.                                                             *)

\* What the transaction at height h did to the wallet; and what the canonical
\* chain has done to it up to there.
Effect(h) == IF chain[h].valid THEN Gain[chain[h].tx] ELSE - Risk[chain[h].tx]
Landed == [h \in Heights |-> IF h <= Height /\ chain[h].tx \in Intents THEN Effect(h) ELSE 0]
ChainNetAt(h) == Running(Landed)[h]

\* The wallet is never further below its best verified result than the limit,
\* on the chain itself and not only in the books, also with a candidate in
\* flight that then fails.  As long as no roll-back is as deep as a
\* confirmation: an overturned profit cannot be foreseen.
DrawdownWithinLimit ==
  calm => \A h \in 0..Height : ChainNetAt(h) - ChainNetAt(Height) <= Limit

\* Whatever rolls back: when a candidate is about to be claimed, every settled
\* row the headroom was computed from rests on a canonical block, although
\* submit checks only the last one ("a canonical descendant commits its
\* ancestry"), unless the chain has left its fork since the anchor was read, or
\* while the rows were reconciled one after the other.
AnchorVouches ==
  pc = "claim" /\ vouched = forks /\ ~ torn => \A i \in Settled : Canonical(i)

\* A result that a roll-back invalidated leaves the books: what is counted for
\* a settled row is what its own block did to the wallet.
BooksFollowBlocks ==
  Accountable =>
    \A i \in Settled : Canonical(i) =>
      outcome[i].net = IF chain[block[i].height].valid THEN Gain[i] ELSE - Risk[i]

\* A script failure pauses the wallet until the operator acknowledges it, over
\* restarts and over the roll-back of the failure itself.
IncidentPauses ==
  [][\A i \in Intents : incident[i] = "open" =>
       /\ attempts' = attempts
       /\ \A j \in Intents : status[j] = "absent" => status'[j] = "absent"
       /\ incident'[i] # "open" => pc = "idle" /\ UNCHANGED <<status, outcome>>]_vars
=============================================================================
