---------------------------- MODULE Coordinator ----------------------------
(***************************************************************************)
(* coordinator.py: prepare, submit and reconcile one wallet's candidates.  *)
(* One process holds the wallet lock at a time (the scheduler or a command *)
(* of the CLI); everything it does between two reads of the provider is    *)
(* one action, so the chain, the stop command, a crash and a provider      *)
(* error interleave wherever the code waits for an answer.                 *)
(*                                                                         *)
(* A read and the journal write it leads to are one action: no other       *)
(* process writes the rows involved and the chain does not read them, so   *)
(* the write commutes with whatever the chain does after the read.         *)
(***************************************************************************)
EXTENDS Chain, Journal

CONSTANTS
  Confirmations,  \* profile.confirmations
  Lag             \* a lookup may miss a transaction of the last Lag blocks

ASSUME CoordinatorAssumption ==
  /\ Confirmations \in Nat \ {0}
  /\ Lag \in Nat

VARIABLES
  pc,           \* where the process is ("idle": no call in progress)
  cur,          \* the intent the call is about
  tip,          \* the tip read at the start of the call
  info,         \* last answer of transaction_info
  seen,         \* anchor block read by _retire_expired
  spent,        \* answer of input_states
  open,         \* entries reconcile_all still visits, first the open ones,
  closed,       \* then the terminal ones
  canon,        \* blocks_at_heights: hash found for each terminal entry
  sends,        \* history: wire calls made for each intent
  calm          \* history: no call is cut short any more (liveness only)

callVars == <<pc, cur, tip, info, seen, spent, open, closed, canon>>
history == <<sends, calm>>
vars == <<chainVars, journalVars, callVars, history>>

NoInfo == [height |-> 0, hash |-> -1, valid |-> FALSE]
NoTip == [height |-> 0, slot |-> 0]
NotAsked == [i \in Intents |-> -2]
Steps == {"idle", "sign", "recheck", "claim", "send", "ack", "nack", "open",
          "closed", "info", "lost", "retip", "canonical", "record",
          "anchor", "states", "proof", "absent", "again"}

CallTypeOK ==
  /\ pc \in Steps /\ cur \in Intents \cup {Nobody}
  /\ tip \in [height : Nat, slot : Nat]
  /\ info \in [height : Nat, hash : Int, valid : BOOLEAN]
  /\ seen \in Points
  /\ spent \in SUBSET Refs
  /\ open \in SUBSET Intents /\ closed \in SUBSET Intents
  /\ canon \in [Intents -> Int]

TypeOK ==
  /\ ChainTypeOK /\ JournalTypeOK /\ CallTypeOK
  /\ sends \in [Intents -> Nat] /\ calm \in BOOLEAN

Init ==
  /\ ChainInit /\ JournalInit
  /\ pc = "idle" /\ cur = Nobody
  /\ tip = NoTip /\ info = NoInfo /\ seen = NoBlock /\ spent = {}
  /\ open = {} /\ closed = {} /\ canon = NotAsked
  /\ sends = [i \in Intents |-> 0] /\ calm = FALSE

CurrentTip == [height |-> Height, slot |-> Slot]

----------------------------------------------------------------------------
(* Control of the call in progress.                                        *)

\* The call returned or raised; locals are gone.
Finish ==
  /\ pc' = "idle" /\ cur' = Nobody
  /\ tip' = NoTip /\ info' = NoInfo /\ seen' = NoBlock /\ spent' = {}
  /\ open' = {} /\ closed' = {} /\ canon' = NotAsked

Goto(step) ==
  /\ pc' = step
  /\ UNCHANGED <<cur, tip, info, seen, spent, open, closed, canon>>

\* reconcile(cur) returned: go on with the entries that are left.
Return ==
  /\ pc' = IF canon = NotAsked THEN "open" ELSE "closed"
  /\ cur' = Nobody
  /\ info' = NoInfo /\ seen' = NoBlock /\ spent' = {}
  /\ UNCHANGED <<tip, open, closed, canon>>

Begin(step, i) ==
  /\ pc' = step /\ cur' = i
  /\ UNCHANGED <<info, seen, spent, open, closed, canon>>

\* A provider error raises out of the call; a crash ends the process.  Either
\* way the next call starts from the journal alone.
Interrupt ==
  /\ pc # "idle" /\ ~ calm
  /\ Finish
  /\ UNCHANGED <<chainVars, journalVars, history>>

----------------------------------------------------------------------------
(* Coordinator.prepare: the journal row comes before the signature.        *)

\* No open incident, nothing rolled back, every dependency unspent and the
\* validity interval not over.
Prepare(i) ==
  /\ pc = "idle"
  /\ NoIncident /\ NothingRolledBack
  /\ Roles(i) \cap Spent = {} /\ Slot < Expires[i]
  /\ PrepareCandidate(i)
  /\ Begin("sign", i) /\ UNCHANGED tip
  /\ UNCHANGED <<chainVars, history>>

Sign ==
  /\ pc = "sign"
  /\ AttachSignature(cur)
  /\ Finish
  /\ UNCHANGED <<chainVars, history>>

----------------------------------------------------------------------------
(* Coordinator.submit.                                                     *)

\* Risk gate, tip and expiry, on whatever entry the caller names.
Submit(i) ==
  /\ pc = "idle"
  /\ status[i] # "absent"
  /\ NoIncident
  /\ Slot < Expires[i]
  /\ Begin("recheck", i) /\ UNCHANGED tip
  /\ UNCHANGED <<chainVars, journalVars, history>>

RecheckDependencies ==
  /\ pc = "recheck"
  /\ Roles(cur) \cap Spent = {}
  /\ Goto("claim")
  /\ UNCHANGED <<chainVars, journalVars, history>>

Claim ==
  /\ pc = "claim"
  /\ NoIncident
  /\ ClaimSubmission(cur)
  /\ Goto("send")
  /\ UNCHANGED <<chainVars, history>>

\* Either gate raises: nothing is written.
Refuse ==
  /\ \/ pc = "recheck" /\ Roles(cur) \cap Spent # {}
     \/ pc = "claim" /\ ~ (NoIncident /\ Claimable(cur))
  /\ Finish
  /\ UNCHANGED <<chainVars, journalVars, history>>

\* Slip: a call that brought no answer is made again.
SendRetried(delivered, acknowledged) ==
  /\ pc = "send"
  /\ acknowledged => delivered
  /\ wire' = IF delivered THEN wire \cup {cur} ELSE wire
  /\ sends' = [sends EXCEPT ![cur] = @ + 1]
  /\ Goto(IF acknowledged THEN "ack" ELSE "send")
  /\ UNCHANGED <<chain, forks, fixed, journalVars, calm>>

\* The one wire call.  The provider's guard or deadline may stop it before a
\* byte leaves, and an error says nothing about delivery.
Send(delivered, acknowledged) ==
  /\ pc = "send"
  /\ acknowledged => delivered
  /\ wire' = IF delivered THEN wire \cup {cur} ELSE wire
  /\ sends' = [sends EXCEPT ![cur] = @ + 1]
  /\ Goto(IF acknowledged THEN "ack" ELSE "nack")
  /\ UNCHANGED <<chain, forks, fixed, journalVars, calm>>

RecordSend ==
  /\ pc \in {"ack", "nack"}
  /\ MarkTransaction(cur, IF pc = "ack" THEN "submitted" ELSE "unknown")
  /\ Finish
  /\ UNCHANGED <<chainVars, history>>

----------------------------------------------------------------------------
(* Coordinator.reconcile_all and reconcile.                                *)

\* One tip for the whole pass; the entries are the rows at this moment.
ReconcileAll ==
  /\ pc = "idle"
  /\ pc' = "open" /\ cur' = Nobody
  /\ tip' = CurrentTip
  /\ open' = {i \in Intents : status[i] \notin Closed \cup {"absent"}}
  /\ closed' = {i \in Intents : status[i] \in Terminal}
  /\ UNCHANGED <<chainVars, journalVars, info, seen, spent, canon, history>>

\* One entry on its own (the reconcile command, the market maker's loop).
ReconcileOne(i) ==
  /\ pc = "idle" /\ status[i] \notin {"absent", "aborted"}
  /\ pc' = "open" /\ cur' = Nobody
  /\ tip' = CurrentTip
  /\ open' = {i} \ {j \in Intents : status[j] \in Terminal}
  /\ closed' = {i} \ open'
  /\ UNCHANGED <<chainVars, journalVars, info, seen, spent, canon, history>>

Visit(i) ==
  /\ pc = "open" /\ i \in open
  /\ pc' = "info" /\ cur' = i
  /\ open' = open \ {i}
  /\ UNCHANGED <<chainVars, journalVars, tip, info, seen, spent, closed, canon, history>>

\* blocks_at_heights: one answer for every terminal entry's block.
ReadBlocks ==
  /\ pc = "open" /\ open = {}
  /\ IF closed = {} THEN Finish
     ELSE /\ pc' = "closed"
          /\ canon' = [i \in Intents |->
                         IF i \in closed THEN HashAt(BlockUnder(i).height) ELSE -2]
          /\ UNCHANGED <<cur, tip, info, seen, spent, open, closed>>
  /\ UNCHANGED <<chainVars, journalVars, history>>

\* Slip: any block at that height will do.
StillDeep(i) == canon[i] # -1 /\ tip.height - block[i].height + 1 >= Confirmations

\* The block under a terminal entry is still canonical, and an inclusion
\* still has its depth.
StillSettled(i) ==
  /\ canon[i] = BlockUnder(i).hash
  /\ status[i] \in {"confirmed", "failed"} =>
       tip.height - block[i].height + 1 >= Confirmations

VisitSettled(i) ==
  /\ pc = "closed" /\ i \in closed
  /\ StillSettled(i)
  /\ closed' = closed \ {i}
  /\ UNCHANGED <<chainVars, journalVars, pc, cur, tip, info, seen, spent, open, canon, history>>

\* Another block took its place: the entry is open again and is looked up.
VisitReplaced(i) ==
  /\ pc = "closed" /\ i \in closed
  /\ canon[i] \notin {-1, BlockUnder(i).hash}
  /\ RecordRollback(i)
  /\ pc' = "info" /\ cur' = i
  /\ closed' = closed \ {i}
  /\ UNCHANGED <<chainVars, tip, info, seen, spent, open, canon, history>>

\* The block is unavailable or too shallow: the pass raises.
VisitUnproved(i) ==
  /\ pc = "closed" /\ i \in closed
  /\ canon[i] \in {-1, BlockUnder(i).hash} /\ ~ (canon[i] # -1 /\ StillSettled(i))
  /\ Finish
  /\ UNCHANGED <<chainVars, journalVars, history>>

PassDone ==
  /\ pc = "closed" /\ closed = {}
  /\ Finish
  /\ UNCHANGED <<chainVars, journalVars, history>>

----------------------------------------------------------------------------
(* reconcile: the transaction is found on the chain.                       *)

InclusionOf(t) ==
  LET h == CHOOSE h \in 1..Height : chain[h].tx = t
  IN  [height |-> h, hash |-> chain[h].hash, valid |-> chain[h].valid]

TransactionFound ==
  /\ pc = "info" /\ OnChain(cur)
  /\ info' = InclusionOf(cur)
  /\ pc' = IF info'.height > tip.height THEN "retip" ELSE "canonical"
  /\ UNCHANGED <<chainVars, journalVars, cur, tip, seen, spent, open, closed, canon, history>>

RefreshTip ==
  /\ pc = "retip"
  /\ tip' = CurrentTip
  /\ pc' = "canonical"
  /\ UNCHANGED <<chainVars, journalVars, cur, info, seen, spent, open, closed, canon, history>>

InclusionPoint == [height |-> info.height, hash |-> info.hash]

\* The inclusion block must be canonical when it is read back and not above
\* the tip; a block other than the recorded one is rollback evidence.
CheckInclusion ==
  /\ pc = "canonical"
  /\ IF HashAt(info.height) # info.hash \/ info.height > tip.height
     THEN Finish /\ UNCHANGED journalVars
     ELSE /\ Goto("record")
          /\ IF block[cur] \in {NoBlock, InclusionPoint}
             THEN UNCHANGED journalVars
             ELSE RecordRollback(cur)
  /\ UNCHANGED <<chainVars, history>>

\* Slip: confirmations are counted from the block above the inclusion.
RecordInfoEarly ==
  /\ pc = "record"
  /\ LET confirmed == tip.height - info.height + 2 >= Confirmations
     IN  IF info.valid THEN RecordInclusion(cur, InclusionPoint, confirmed)
         ELSE IF confirmed THEN RetireFailed(cur, InclusionPoint)
         ELSE UNCHANGED journalVars
  /\ Return
  /\ UNCHANGED <<chainVars, history>>

RecordInfo ==
  /\ pc = "record"
  /\ LET confirmed == tip.height - info.height + 1 >= Confirmations
     IN  IF info.valid THEN RecordInclusion(cur, InclusionPoint, confirmed)
         ELSE IF confirmed THEN RetireFailed(cur, InclusionPoint)
         ELSE UNCHANGED journalVars
  /\ Return
  /\ UNCHANGED <<chainVars, history>>

----------------------------------------------------------------------------
(* reconcile: the transaction is not found.  Absence is no evidence.       *)

\* The index behind a lookup may trail the chain.
LookedUpInVain(i) == \A h \in InclusionHeights(i) : Height - h < Lag

\* Expiry is looked at only for an entry that may still be undelivered.
CheckExpiry(s) ==
  IF s \in {"prepared", "unknown", "submitted", "rolled_back"} /\ tip.slot >= Expires[cur]
  THEN Goto("anchor") ELSE Return

\* Slip: an attempt that was never answered stays "submitting".
MissingUnmarked ==
  /\ pc = "info" /\ LookedUpInVain(cur)
  /\ IF block[cur] # NoBlock THEN Goto("lost") ELSE CheckExpiry(status[cur])
  /\ UNCHANGED <<chainVars, journalVars, history>>

TransactionMissing ==
  /\ pc = "info" /\ LookedUpInVain(cur)
  /\ IF block[cur] # NoBlock THEN Goto("lost") /\ UNCHANGED journalVars
     ELSE IF status[cur] \in {"submitting", "submitted"}
     THEN MarkTransaction(cur, "unknown") /\ CheckExpiry("unknown")
     ELSE CheckExpiry(status[cur]) /\ UNCHANGED journalVars
  /\ UNCHANGED <<chainVars, history>>

CheckLostBlock ==
  /\ pc = "lost"
  /\ IF HashAt(block[cur].height) \in {-1, block[cur].hash}
     THEN UNCHANGED journalVars /\ CheckExpiry(status[cur])
     ELSE RecordRollback(cur) /\ CheckExpiry("rolled_back")
  /\ UNCHANGED <<chainVars, history>>

----------------------------------------------------------------------------
(* _retire_expired: mature chain, explicit input states, second look.      *)

\* Slip: the tip's slot stands in for the mature block's.
ReadAnchorYoung ==
  /\ pc = "anchor"
  /\ LET h == tip.height - Confirmations + 1
     IN  IF HashAt(h) # -1
         THEN /\ seen' = [height |-> h, hash |-> chain[h].hash]
              /\ pc' = "states"
              /\ UNCHANGED <<cur, tip, info, spent, open, closed, canon>>
         ELSE Return
  /\ UNCHANGED <<chainVars, journalVars, history>>

ReadAnchor ==
  /\ pc = "anchor"
  /\ LET h == tip.height - Confirmations + 1
     IN  IF HashAt(h) # -1 /\ chain[h].slot >= Expires[cur]
         THEN /\ seen' = [height |-> h, hash |-> chain[h].hash]
              /\ pc' = "states"
              /\ UNCHANGED <<cur, tip, info, spent, open, closed, canon>>
         ELSE Return
  /\ UNCHANGED <<chainVars, journalVars, history>>

\* Only a spent regular input can have a conflicting spender looked up.
ReadInputStates ==
  /\ pc = "states"
  /\ LET s == Roles(cur) \cap Spent
     IN  IF s # {} /\ s \cap Spends[cur] = {} THEN Return
         ELSE /\ spent' = s
              /\ pc' = IF s = {} THEN "absent" ELSE "proof"
              /\ UNCHANGED <<cur, tip, info, seen, open, closed, canon>>
  /\ UNCHANGED <<chainVars, journalVars, history>>

\* confirmed_spender: another transaction, as deep as a confirmation.
ConfirmedSpender(r) ==
  \E h \in 1..Height : /\ r \in Consumed(chain[h]) /\ chain[h].tx # cur
                       /\ Height - h + 1 >= Confirmations

FindSpender ==
  /\ pc = "proof"
  /\ IF \E r \in spent \cap Spends[cur] : ConfirmedSpender(r)
     THEN Goto("absent") ELSE Return
  /\ UNCHANGED <<chainVars, journalVars, history>>

LookAgain(found) ==
  /\ pc = "absent"
  /\ IF found THEN OnChain(cur) ELSE LookedUpInVain(cur)
  /\ IF found THEN Return ELSE Goto("again")
  /\ UNCHANGED <<chainVars, journalVars, history>>

Retire ==
  /\ pc = "again"
  /\ IF HashAt(seen.height) # seen.hash THEN Finish /\ UNCHANGED journalVars
     ELSE /\ RetireExpired(cur, IF spent = {} THEN "expired" ELSE "conflicted",
                           Roles(cur) \ spent, seen)
          /\ Return
  /\ UNCHANGED <<chainVars, history>>

----------------------------------------------------------------------------
(* The operator: commands under the wallet lock, and stop, which takes none.*)

Abandon(i) ==
  /\ pc = "idle" /\ AbandonUnsigned(i)
  /\ UNCHANGED <<chainVars, callVars, history>>

Acknowledge(i) ==
  /\ pc = "idle" /\ AcknowledgeIncident(i)
  /\ UNCHANGED <<chainVars, callVars, history>>

Start ==
  /\ pc = "idle" /\ StartRun
  /\ UNCHANGED <<chainVars, callVars, history>>

Stop == RequestStop /\ UNCHANGED <<chainVars, callVars, history>>

Environment == ChainNext /\ UNCHANGED <<journalVars, callVars, history>>

----------------------------------------------------------------------------
Reconciliation ==
  \/ ReconcileAll \/ \E i \in Intents : ReconcileOne(i)
  \/ \E i \in Intents : Visit(i) \/ VisitSettled(i) \/ VisitReplaced(i) \/ VisitUnproved(i)
  \/ ReadBlocks \/ PassDone
  \/ TransactionFound \/ RefreshTip \/ CheckInclusion \/ RecordInfo
  \/ TransactionMissing \/ CheckLostBlock
  \/ ReadAnchor \/ ReadInputStates \/ FindSpender \/ Retire
  \/ \E found \in BOOLEAN : LookAgain(found)

Submission ==
  \/ \E i \in Intents : Submit(i)
  \/ RecheckDependencies \/ Claim \/ Refuse \/ RecordSend
  \/ \E d, a \in BOOLEAN : Send(d, a)

Preparation == (\E i \in Intents : Prepare(i)) \/ Sign

Operator == (\E i \in Intents : Abandon(i) \/ Acknowledge(i)) \/ Start \/ Stop

Next ==
  \/ Environment \/ Preparation \/ Submission
  \/ Reconciliation \/ Operator \/ Interrupt

Spec == Init /\ [][Next]_vars

----------------------------------------------------------------------------
(* Safety whatever the chain does, crashes and roll-backs of any depth     *)
(* included.                                                               *)

\* No intent is put on the wire twice, however often the process restarts,
\* retries the submission or loses the answer (claim_submission, submit).
OneWireAttempt == \A i \in Intents : sends[i] <= 1

\* Abandoning gives the inputs away, so it must never hit a candidate whose
\* bytes may have left the process (abandon_unsigned).
AbortedNeverSent ==
  \A i \in Intents : status[i] = "aborted" => i \notin wire /\ sends[i] = 0

\* Once stop is committed no further attempt is claimed until a run starts:
\* what still leaves the process was claimed before (claim_submission reads
\* the flag inside the transaction that claims).
StopStep ==
  control = "stopping" /\ control' = "stopping" =>
    \A i \in Intents : /\ attempts'[i] = attempts[i]
                       /\ i \in wire' \ wire => status[i] = "submitting"
StopHolds == [][StopStep]_vars

\* The coordinator implements the one-slot outbox: the candidate in the slot
\* is the one whose fate is open; its launches are the attempts in its row, its
\* calls those that went to the provider.  So neither a retry after a lost
\* answer nor a restart claims or sends an intent again, and nothing is sent
\* that was not claimed (submit, claim_submission, mark_transaction).
SlotHolder == IF \E i \in Intents : status[i] \in Fresh
              THEN CHOOSE i \in Intents : status[i] \in Fresh ELSE Nobody
Known == {i \in Intents : status[i] # "absent"}
OneSlot == INSTANCE Outbox WITH slot <- SlotHolder, taken <- Known,
                                launches <- attempts, calls <- sends
ImplementsOutbox == OneSlot!Spec

----------------------------------------------------------------------------
(* Safety as long as no roll-back is as deep as a confirmation             *)
(* (MaxReorg < Confirmations), and what a lookup misses is younger than    *)
(* what such a roll-back leaves of one (Lag + MaxReorg <= Confirmations).  *)

\* Every terminal status is the truth for good: a confirmed candidate stays
\* on the chain, a failed one stays failed, and a retired or abandoned one is
\* not on the chain and can never land.
TerminalIsFinal ==
  \A i \in Intents :
    /\ status[i] = "confirmed" => \E h \in 1..fixed : chain[h].tx = i /\ chain[h].valid
    /\ status[i] = "failed" => \E h \in 1..fixed : chain[h].tx = i /\ ~ chain[h].valid
    /\ status[i] \in {"expired", "conflicted", "aborted"} => ~ OnChain(i) /\ ~ CanLand(i)

\* As long as a candidate can land, or its fate is open, nothing else may be
\* built on its inputs and collateral: releasing on a timeout, a missed lookup
\* or a young block, or what another row holds, would show here.
LandableStaysReserved ==
  \A i \in Intents : CanLand(i) \/ status[i] \in Fresh => \A r \in Roles(i) : holder[r] = i

\* "Spending reservations remain permanent tombstones: an old provider view
\* cannot reintroduce a confirmed-spent input as new free funds"
\* (record_inclusion, journal.py:626).
ConfirmedTombstones ==
  \A i \in Intents : status[i] = "confirmed" => \A r \in Spends[i] : holder[r] # Nobody

----------------------------------------------------------------------------
(* Liveness: the scheduler reconciles at the start of every tick, a call in *)
(* progress goes on, the chain grows, the provider finds what stays on the  *)
(* chain, and in the end no call is cut short any more.                     *)

Progress ==
  \/ Sign \/ RecheckDependencies \/ Claim \/ Refuse \/ RecordSend
  \/ \E d, a \in BOOLEAN : Send(d, a)
  \/ pc # "idle" /\ Reconciliation

Grow == \E slot \in NextSlots : MintEmpty(slot)

\* An interruption looks like a call that ends without a write, so that they
\* end is stated by a flag of its own.
Calm == ~ calm /\ calm' = TRUE /\ UNCHANGED <<chainVars, journalVars, callVars, sends>>

Fairness ==
  /\ WF_vars(Progress)
  /\ SF_vars(ReconcileAll)
  /\ SF_vars(TransactionFound)
  /\ WF_vars(Grow /\ UNCHANGED <<journalVars, callVars, history>>)
  /\ WF_vars(Calm)

FairSpec == Init /\ [][Next \/ Calm]_vars /\ Fairness

\* Every candidate that was ever prepared is closed in the end: no lost
\* answer, crash, expiry or shallow roll-back leaves the wallet blocked.
EventuallyClosed ==
  \A i \in Intents : status[i] # "absent" ~> status[i] \in Closed

\* i is on the chain at confirmation depth, with this script result.
Settled(i, valid) ==
  \E h \in InclusionHeights(i) :
    chain[h].valid = valid /\ Height - h + 1 >= Confirmations

\* After the last roll-back, however deep, the journal comes to agree with
\* the chain for good, even where terminal statuses were overturned.
EventuallyTrue ==
  \A i \in Intents :
    <>[](/\ status[i] = "confirmed" <=> Settled(i, TRUE)
         /\ status[i] = "failed" <=> Settled(i, FALSE))
=============================================================================
