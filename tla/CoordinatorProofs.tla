------------------------- MODULE CoordinatorProofs -------------------------
(***************************************************************************)
(* The coordinator's safety for any candidates, any chain and roll-backs   *)
(* of any depth, by one inductive invariant; and, by a second one, what    *)
(* holds as long as roll-backs and the lag of lookups stay within the      *)
(* confirmation depth (Shallow).                                           *)
(***************************************************************************)
EXTENDS Coordinator, TLAPS

----------------------------------------------------------------------------
(* The journal.                                                            *)

\* An intent that is not signed for sending yet, or was given up, has no
\* attempt (claim_submission writes both in one SQLite transaction).
AttemptsMatch ==
  \A i \in Intents : status[i] \in {"absent", "prepared", "aborted"} => attempts[i] = 0

JournalInv == JournalTypeOK /\ AttemptsMatch /\ FreshHoldsItsInputs /\ OneUndecided

USE DEF Fresh, Terminal, Closed, Statuses

\* The journal starts empty.
LEMMA JournalStarts == JournalInit => JournalInv
<1> SUFFICES ASSUME JournalInit PROVE JournalInv
  OBVIOUS
<1>1. JournalTypeOK
  BY DEF JournalInit, JournalTypeOK, Points, NoBlock
<1>2. AttemptsMatch /\ FreshHoldsItsInputs /\ OneUndecided
  BY DEF JournalInit, AttemptsMatch, FreshHoldsItsInputs, OneUndecided
<1> QED BY <1>1, <1>2 DEF JournalInv

\* prepare_candidate: a new candidate finds nothing open and its references
\* unreserved, so it becomes the only undecided one and holds them all.
LEMMA PrepareKeeps ==
  ASSUME NEW i \in Intents, JournalInv, PrepareCandidate(i)
  PROVE  JournalInv'
<1>1. CASE UNCHANGED journalVars
  BY <1>1 DEF JournalInv, JournalTypeOK, AttemptsMatch, FreshHoldsItsInputs, OneUndecided, journalVars
<1>2. CASE /\ status[i] = "absent" /\ NothingOpen
           /\ \A r \in Roles(i) : holder[r] = Nobody
           /\ status' = [status EXCEPT ![i] = "prepared"]
           /\ holder' = [r \in Refs |-> IF r \in Roles(i) THEN i ELSE holder[r]]
           /\ UNCHANGED <<signed, attempts, block, anchor, incident, control>>
  <2> USE <1>2
  <2>1. JournalTypeOK'
    BY DEF JournalInv, JournalTypeOK
  <2>2. AttemptsMatch'
    BY DEF JournalInv, JournalTypeOK, AttemptsMatch
  <2>3. \A j \in Intents : status'[j] \in Fresh => j = i
    BY DEF JournalInv, JournalTypeOK, NothingOpen
  <2>4. FreshHoldsItsInputs'
    BY <2>3, CandidateAssumption DEF JournalInv, JournalTypeOK, FreshHoldsItsInputs, Roles, Txs
  <2>5. OneUndecided'
    BY <2>3 DEF OneUndecided
  <2> QED BY <2>1, <2>2, <2>4, <2>5 DEF JournalInv
<1> QED BY <1>1, <1>2 DEF PrepareCandidate

\* A method that writes only columns no invariant relates, or none.
LEMMA BystanderKeeps ==
  ASSUME JournalInv, JournalTypeOK', UNCHANGED <<status, attempts, holder>>
  PROVE  JournalInv'
BY DEF JournalInv, AttemptsMatch, FreshHoldsItsInputs, OneUndecided

\* A method that takes one intent out of the undecided ones, without claiming
\* an attempt for it and without touching a reference held by another intent.
LEMMA LeavingKeeps ==
  ASSUME NEW i \in Intents, NEW s \in Statuses \ Fresh, JournalInv, JournalTypeOK',
         s \in {"absent", "aborted"} => attempts[i] = 0,
         status' = [status EXCEPT ![i] = s],
         attempts' = attempts,
         \A r \in Refs : holder[r] \notin {i, Nobody} => holder'[r] = holder[r]
  PROVE  JournalInv'
<1>1. \A j \in Intents : status'[j] \in Fresh => status[j] \in Fresh /\ j # i
  BY DEF JournalInv, JournalTypeOK
<1>2. AttemptsMatch'
  BY DEF JournalInv, JournalTypeOK, AttemptsMatch
<1>3. FreshHoldsItsInputs'
  <2> SUFFICES ASSUME NEW j \in Intents, status'[j] \in Fresh, NEW r \in Roles(j)
               PROVE  holder'[r] = j
    BY DEF FreshHoldsItsInputs
  <2>1. r \in Refs
    BY CandidateAssumption DEF Roles, Txs
  <2>2. holder[r] = j /\ j # i
    BY <1>1 DEF JournalInv, FreshHoldsItsInputs
  <2> QED BY <2>1, <2>2, JournalAssumption
<1>4. OneUndecided'
  BY <1>1 DEF JournalInv, OneUndecided
<1> QED BY <1>2, <1>3, <1>4 DEF JournalInv

\* attach_signature.
LEMMA AttachKeeps ==
  ASSUME NEW i \in Intents, JournalInv, AttachSignature(i)
  PROVE  JournalInv'
<1>1. JournalTypeOK'
  BY DEF JournalInv, JournalTypeOK, AttachSignature
<1> QED BY <1>1, BystanderKeeps DEF AttachSignature

\* abandon_unsigned: only a candidate without an attempt becomes "aborted".
LEMMA AbandonKeeps ==
  ASSUME NEW i \in Intents, JournalInv, AbandonUnsigned(i)
  PROVE  JournalInv'
<1>1. JournalTypeOK'
  BY DEF JournalInv, JournalTypeOK, AbandonUnsigned, Release
<1>2. \A r \in Refs : holder[r] \notin {i, Nobody} => holder'[r] = holder[r]
  BY DEF AbandonUnsigned, Release
<1> QED BY <1>1, <1>2, LeavingKeeps DEF AbandonUnsigned

\* claim_submission: the attempt and the status change together, once.
LEMMA ClaimKeeps ==
  ASSUME NEW i \in Intents, JournalInv, ClaimSubmission(i)
  PROVE  JournalInv'
<1>1. JournalTypeOK'
  BY DEF JournalInv, JournalTypeOK, ClaimSubmission, Claimable
<1>2. AttemptsMatch'
  BY DEF JournalInv, JournalTypeOK, AttemptsMatch, ClaimSubmission
<1>3. FreshHoldsItsInputs' /\ OneUndecided'
  BY DEF JournalInv, JournalTypeOK, FreshHoldsItsInputs, OneUndecided, ClaimSubmission, Claimable
<1> QED BY <1>1, <1>2, <1>3 DEF JournalInv

\* mark_transaction, as the coordinator uses it: between open statuses of an
\* attempt that was made.
LEMMA MarkKeeps ==
  ASSUME NEW i \in Intents, NEW s \in {"unknown", "submitted"}, JournalInv,
         status[i] \in {"submitting", "submitted"}, MarkTransaction(i, s)
  PROVE  JournalInv'
<1>1. JournalTypeOK'
  BY DEF JournalInv, JournalTypeOK, MarkTransaction
<1>2. AttemptsMatch' /\ FreshHoldsItsInputs' /\ OneUndecided'
  BY DEF JournalInv, JournalTypeOK, AttemptsMatch, FreshHoldsItsInputs, OneUndecided, MarkTransaction
<1> QED BY <1>1, <1>2 DEF JournalInv

\* retire_candidate for an expired or conflicted candidate.
LEMMA RetireKeeps ==
  ASSUME NEW i \in Intents, NEW s, NEW release, NEW point \in Points, JournalInv,
         RetireExpired(i, s, release, point)
  PROVE  JournalInv'
<1>1. JournalTypeOK'
  BY DEF JournalInv, JournalTypeOK, RetireExpired, Release
<1>2. \A r \in Refs : holder[r] \notin {i, Nobody} => holder'[r] = holder[r]
  BY DEF RetireExpired, Release
<1> QED BY <1>1, <1>2, LeavingKeeps DEF RetireExpired

\* retire_candidate for a phase-2 failure.
LEMMA FailKeeps ==
  ASSUME NEW i \in Intents, NEW point \in Points, JournalInv, RetireFailed(i, point)
  PROVE  JournalInv'
<1>1. JournalTypeOK'
  BY DEF JournalInv, JournalTypeOK, RetireFailed, Reserve
<1>2. \A r \in Refs : holder[r] \notin {i, Nobody} => holder'[r] = holder[r]
  BY DEF RetireFailed, Reserve
<1> QED BY <1>1, <1>2, LeavingKeeps DEF RetireFailed

\* record_inclusion.
LEMMA InclusionKeeps ==
  ASSUME NEW i \in Intents, NEW point \in Points, NEW confirmed \in BOOLEAN, JournalInv,
         RecordInclusion(i, point, confirmed)
  PROVE  JournalInv'
<1>1. JournalTypeOK'
  BY DEF JournalInv, JournalTypeOK, RecordInclusion, Reserve
<1>2. \A r \in Refs : holder[r] \notin {i, Nobody} => holder'[r] = holder[r]
  BY DEF RecordInclusion, Reserve
<1>3. \E s \in {"confirmed", "included"} : status' = [status EXCEPT ![i] = s]
  BY DEF RecordInclusion
<1> QED BY <1>1, <1>2, <1>3, LeavingKeeps DEF RecordInclusion

\* record_transaction_rollback.
LEMMA RollbackKeeps ==
  ASSUME NEW i \in Intents, JournalInv, RecordRollback(i)
  PROVE  JournalInv'
<1>1. JournalTypeOK'
  BY DEF JournalInv, JournalTypeOK, RecordRollback
<1> QED BY <1>1, LeavingKeeps DEF RecordRollback

\* acknowledge_execution_incident, start_run and request_stop.
LEMMA ControlKeeps ==
  ASSUME JournalInv,
         (\E i \in Intents : AcknowledgeIncident(i)) \/ StartRun \/ RequestStop
  PROVE  JournalInv'
<1>1. JournalTypeOK'
  BY DEF JournalInv, JournalTypeOK, AcknowledgeIncident, StartRun, RequestStop
<1> QED BY <1>1, BystanderKeeps DEF AcknowledgeIncident, StartRun, RequestStop

----------------------------------------------------------------------------
(* The coordinator's invariant.                                            *)

\* Program points with an attempt in flight, and those without a candidate.
Wired == {"send", "ack", "nack"}
Between == {"idle", "open", "closed"}

\* The wire never runs ahead of the journal: a call is made only under an
\* attempt that is already recorded, and recorded as still undecided.
WireMatches ==
  /\ \A i \in Intents : sends[i] <= attempts[i]
  /\ \A i \in Intents : i \in wire => sends[i] > 0
  /\ pc \notin Between => cur \in Intents
  /\ pc = "send" => attempts[cur] = 1 /\ sends[cur] = 0
  /\ pc \in Wired => status[cur] = "submitting"

\* The inductive invariant.
IInv == TypeOK /\ JournalInv /\ WireMatches

USE DEF Wired, Between, Steps

----------------------------------------------------------------------------
(* The environment.                                                        *)

\* A block on the chain has the fields of a block, and a hash is a number.
LEMMA BlockTyped ==
  ASSUME ChainTypeOK, NEW h \in 1..Height
  PROVE  chain[h].hash \in Int /\ chain[h].slot \in Nat /\ chain[h].valid \in BOOLEAN
<1>1. chain[h] \in Blocks
  BY DEF ChainTypeOK, Height
<1> QED BY <1>1, ChainAssumption DEF Blocks

\* The hash found at a height is a number, also where there is no block.
LEMMA HashTyped == ASSUME ChainTypeOK, NEW h PROVE HashAt(h) \in Int
BY BlockTyped DEF HashAt

\* Minting and rolling back keep the chain's type and touch nothing else.
LEMMA ChainKeeps == ASSUME ChainTypeOK, ChainNext PROVE ChainTypeOK' /\ wire' = wire
<1> USE ChainAssumption
<1>0. Height \in 1..Height
  BY DEF ChainTypeOK, Height, Heights
<1>1. ASSUME NEW b \in Blocks, Mint(b) PROVE ChainTypeOK' /\ wire' = wire
  <2>1. chain' \in Seq(Blocks) /\ Len(chain') = Len(chain) + 1
    BY <1>1 DEF ChainTypeOK, Mint
  <2>2. Len(chain') \in Heights
    BY <1>1, <2>1 DEF ChainTypeOK, Mint, Heights, Height
  <2>3. fixed' \in Heights
    BY <1>1 DEF ChainTypeOK, Mint, Heights, Height
  <2> QED BY <1>1, <2>1, <2>2, <2>3 DEF ChainTypeOK, Mint
<1>2. ASSUME NEW slot \in NextSlots PROVE slot \in Nat
  BY <1>2, <1>0, BlockTyped DEF NextSlots, Slot
<1>3. CASE \E slot \in NextSlots : MintEmpty(slot)
  BY <1>1, <1>2, <1>3 DEF MintEmpty, Blocks, ChainTypeOK
<1>4. CASE \E t \in Txs, ok \in BOOLEAN, slot \in NextSlots : MintWith(t, ok, slot)
  BY <1>1, <1>2, <1>4 DEF MintWith, Blocks, ChainTypeOK
<1>5. CASE \E n \in Heights : Rollback(n)
  <2>1. PICK n \in Heights : Rollback(n)
    BY <1>5
  <2>2. n \in 1..(Len(chain) - 1) /\ Len(chain) \in Nat
    BY <2>1 DEF Rollback, Height, ChainTypeOK
  <2>3. chain' \in Seq(Blocks) /\ Len(chain') = n
    BY <2>1, <2>2 DEF Rollback, ChainTypeOK
  <2> QED BY <2>1, <2>2, <2>3 DEF Rollback, ChainTypeOK, Heights
<1> QED BY <1>3, <1>4, <1>5 DEF ChainNext

\* The tip is typed: there is always a block.
LEMMA TipTyped == ASSUME ChainTypeOK PROVE Height \in Nat /\ Slot \in Nat /\ CurrentTip \in [height : Nat, slot : Nat]
<1>1. Height \in 1..Height
  BY ChainAssumption DEF ChainTypeOK, Height, Heights
<1> QED BY <1>1, BlockTyped DEF Slot, CurrentTip

----------------------------------------------------------------------------
(* Two shapes of steps.                                                    *)

\* A call that ends or goes on is well typed when its new answers are.
LEMMA FinishTyped == Finish => CallTypeOK' /\ pc' = "idle"
BY DEF Finish, CallTypeOK, NoTip, NoInfo, NoBlock, Points, NotAsked

\* Going on with the next entry of a pass keeps the call well typed.
LEMMA ReturnTyped == CallTypeOK /\ Return => CallTypeOK' /\ pc' \in {"open", "closed"}
BY DEF Return, CallTypeOK, NoInfo, NoBlock, Points

\* So does a plain change of place inside the call.
LEMMA GotoTyped ==
  ASSUME NEW step \in Steps, CallTypeOK, Goto(step)
  PROVE  CallTypeOK' /\ pc' = step /\ cur' = cur
BY DEF Goto, CallTypeOK

\* A step outside the wire: whatever it writes to the journal claims nothing.
LEMMA QuietKeeps ==
  ASSUME IInv, JournalInv', CallTypeOK', UNCHANGED <<chainVars, attempts, history>>,
         pc' \notin Wired, pc' \notin Between => cur' \in Intents
  PROVE  IInv'
<1>1. ChainTypeOK' /\ JournalTypeOK'
  BY DEF IInv, TypeOK, ChainTypeOK, chainVars, JournalInv
<1>2. TypeOK'
  BY <1>1 DEF IInv, TypeOK, history
<1>3. WireMatches'
  BY DEF IInv, WireMatches, chainVars, history
<1> QED BY <1>2, <1>3 DEF IInv

\* A quiet step that leaves the journal alone.
LEMMA ReadKeeps ==
  ASSUME IInv, CallTypeOK', UNCHANGED <<chainVars, journalVars, history>>,
         pc' \notin Wired, pc' \notin Between => cur' \in Intents
  PROVE  IInv'
<1>1. JournalInv' /\ attempts' = attempts
  BY DEF IInv, JournalInv, JournalTypeOK, AttemptsMatch, FreshHoldsItsInputs, OneUndecided,
         journalVars
<1> QED BY <1>1, QuietKeeps

----------------------------------------------------------------------------
(* The actions.                                                            *)

\* prepare: the row, then the signature.
LEMMA PreparationKeeps == ASSUME IInv, Preparation PROVE IInv'
<1>1. ASSUME NEW i \in Intents, Prepare(i) PROVE IInv'
  <2>1. JournalInv' /\ attempts' = attempts
    BY <1>1, PrepareKeeps DEF IInv, Prepare, PrepareCandidate, journalVars
  <2>2. CallTypeOK' /\ pc' = "sign" /\ cur' = i
    BY <1>1 DEF IInv, TypeOK, CallTypeOK, Prepare, Begin
  <2> QED BY <1>1, <2>1, <2>2, QuietKeeps DEF Prepare, chainVars, history
<1>2. CASE Sign
  <2>1. JournalInv' /\ attempts' = attempts
    BY <1>2, AttachKeeps DEF IInv, WireMatches, Sign, AttachSignature
  <2> QED BY <1>2, <2>1, FinishTyped, QuietKeeps DEF Sign
<1> QED BY <1>1, <1>2 DEF Preparation

\* submit: claim, wire call and record, in this order.
LEMMA ClaimStep == ASSUME IInv, Claim PROVE IInv'
<1> USE DEF Claim
<1>1. cur \in Intents /\ pc = "claim"
  BY DEF IInv, WireMatches
<1>2. JournalInv'
  BY <1>1, ClaimKeeps DEF IInv
<1>3. CallTypeOK' /\ pc' = "send" /\ cur' = cur
  BY GotoTyped DEF IInv, TypeOK
<1>4. TypeOK'
  BY <1>2, <1>3 DEF IInv, TypeOK, ChainTypeOK, chainVars, history, JournalInv
<1>5. /\ attempts[cur] = 0 /\ attempts' = [attempts EXCEPT ![cur] = 1]
      /\ status' = [status EXCEPT ![cur] = "submitting"]
  BY <1>1 DEF ClaimSubmission, Claimable, IInv, JournalInv, JournalTypeOK
<1>6. \A i \in Intents : /\ attempts[i] \in 0..1 /\ sends[i] \in Nat
                         /\ attempts'[i] = IF i = cur THEN 1 ELSE attempts[i]
  BY <1>5 DEF IInv, TypeOK, JournalTypeOK
<1>7. status'[cur] = "submitting" /\ sends[cur] = 0 /\ attempts'[cur] = 1
  BY <1>1, <1>5, <1>6 DEF IInv, TypeOK, JournalTypeOK, WireMatches
<1>8. WireMatches'
  BY <1>1, <1>3, <1>6, <1>7 DEF IInv, WireMatches, chainVars, history
<1> QED BY <1>2, <1>4, <1>8 DEF IInv

\* The wire call: the candidate was claimed and not sent before.
LEMMA SendStep == ASSUME IInv, NEW d \in BOOLEAN, NEW a \in BOOLEAN, Send(d, a) PROVE IInv'
<1> USE DEF Send
<1>1. cur \in Intents /\ attempts[cur] = 1 /\ sends[cur] = 0 /\ status[cur] = "submitting"
  BY DEF IInv, WireMatches
<1>2. JournalInv'
  BY DEF IInv, JournalInv, JournalTypeOK, AttemptsMatch, FreshHoldsItsInputs, OneUndecided, journalVars
<1>3. CallTypeOK' /\ pc' \in {"ack", "nack"} /\ cur' = cur
  BY GotoTyped DEF IInv, TypeOK
<1>4. sends' = [sends EXCEPT ![cur] = 1] /\ \A i \in Intents : sends[i] \in Nat
  BY <1>1 DEF IInv, TypeOK
<1>5. TypeOK'
  BY <1>1, <1>2, <1>3, <1>4 DEF IInv, TypeOK, ChainTypeOK, JournalInv
<1>6. WireMatches'
  BY <1>1, <1>3, <1>4 DEF IInv, TypeOK, WireMatches, journalVars
<1> QED BY <1>2, <1>5, <1>6 DEF IInv

\* submit: gates that only read, the claim, the wire call, the record of its result.
LEMMA SubmissionKeeps == ASSUME IInv, Submission PROVE IInv'
<1>1. ASSUME NEW i \in Intents, Submit(i) PROVE IInv'
  <2>1. CallTypeOK' /\ pc' = "recheck" /\ cur' = i
    BY <1>1 DEF IInv, TypeOK, CallTypeOK, Submit, Begin
  <2> QED BY <1>1, <2>1, ReadKeeps DEF Submit
<1>2. CASE RecheckDependencies
  <2>1. CallTypeOK' /\ pc' = "claim" /\ cur' = cur /\ cur \in Intents
    BY <1>2, GotoTyped DEF IInv, TypeOK, RecheckDependencies, WireMatches
  <2> QED BY <1>2, <2>1, ReadKeeps DEF RecheckDependencies
<1>3. CASE Claim
  BY <1>3, ClaimStep
<1>4. CASE Refuse
  BY <1>4, FinishTyped, ReadKeeps DEF Refuse
<1>5. CASE RecordSend
  <2>1. cur \in Intents /\ status[cur] = "submitting"
    BY <1>5 DEF IInv, WireMatches, RecordSend
  <2>2. JournalInv' /\ attempts' = attempts
    BY <1>5, <2>1, MarkKeeps DEF IInv, RecordSend, MarkTransaction
  <2> QED BY <1>5, <2>2, FinishTyped, QuietKeeps DEF RecordSend
<1>6. CASE \E d, a \in BOOLEAN : Send(d, a)
  BY <1>6, SendStep
<1> QED BY <1>1, <1>2, <1>3, <1>4, <1>5, <1>6 DEF Submission

\* The steps of a pass that only read: which entry is next, what a block is.
LEMMA PassReads ==
  ASSUME IInv, \/ ReconcileAll \/ ReadBlocks \/ PassDone
               \/ \E i \in Intents : \/ ReconcileOne(i) \/ Visit(i)
                                     \/ VisitSettled(i) \/ VisitUnproved(i)
  PROVE  IInv'
<1>1. CASE ReconcileAll
  <2>1. CallTypeOK' /\ pc' = "open"
    BY <1>1, TipTyped DEF IInv, TypeOK, CallTypeOK, ReconcileAll
  <2> QED BY <1>1, <2>1, ReadKeeps DEF ReconcileAll
<1>2. CASE ReadBlocks
  <2>1. CallTypeOK' /\ pc' \in {"idle", "closed"}
    <3>1. CASE closed = {}
      BY <1>2, <3>1, FinishTyped DEF ReadBlocks
    <3>2. CASE closed # {}
      BY <1>2, <3>2, HashTyped DEF ReadBlocks, IInv, TypeOK, CallTypeOK
    <3> QED BY <3>1, <3>2
  <2> QED BY <1>2, <2>1, ReadKeeps DEF ReadBlocks
<1>3. CASE PassDone
  BY <1>3, FinishTyped, ReadKeeps DEF PassDone
<1>4. ASSUME NEW i \in Intents, ReconcileOne(i) PROVE IInv'
  <2>1. CallTypeOK' /\ pc' = "open"
    BY <1>4, TipTyped DEF IInv, TypeOK, CallTypeOK, ReconcileOne
  <2> QED BY <1>4, <2>1, ReadKeeps DEF ReconcileOne
<1>5. ASSUME NEW i \in Intents, Visit(i) PROVE IInv'
  <2>1. CallTypeOK' /\ pc' = "info" /\ cur' = i
    BY <1>5 DEF IInv, TypeOK, CallTypeOK, Visit
  <2> QED BY <1>5, <2>1, ReadKeeps DEF Visit
<1>6. ASSUME NEW i \in Intents, VisitSettled(i) PROVE IInv'
  <2>1. CallTypeOK' /\ pc' = "closed"
    BY <1>6 DEF IInv, TypeOK, CallTypeOK, VisitSettled
  <2> QED BY <1>6, <2>1, ReadKeeps DEF VisitSettled
<1>7. ASSUME NEW i \in Intents, VisitUnproved(i) PROVE IInv'
  BY <1>7, FinishTyped, ReadKeeps DEF VisitUnproved
<1> QED BY <1>1, <1>2, <1>3, <1>4, <1>5, <1>6, <1>7

\* A closed entry whose block was replaced is reopened as rolled back.
LEMMA VisitReplacedStep == ASSUME IInv, NEW i \in Intents, VisitReplaced(i) PROVE IInv'
<1>1. JournalInv' /\ attempts' = attempts
  BY RollbackKeeps DEF IInv, VisitReplaced, RecordRollback
<1>2. CallTypeOK' /\ pc' = "info" /\ cur' = i
  BY DEF IInv, TypeOK, CallTypeOK, VisitReplaced
<1> QED BY <1>1, <1>2, QuietKeeps DEF VisitReplaced

\* reconcile, transaction found: evidence is read, checked and recorded.
LEMMA FoundKeeps ==
  ASSUME IInv, TransactionFound \/ RefreshTip \/ CheckInclusion \/ RecordInfo
  PROVE  IInv'
<1>1. CASE TransactionFound
  <2>1. InclusionOf(cur) \in [height : Nat, hash : Int, valid : BOOLEAN]
    <3>1. \E h \in 1..Height : chain[h].tx = cur
      BY <1>1 DEF TransactionFound, OnChain, InclusionHeights
    <3> DEFINE h == CHOOSE k \in 1..Height : chain[k].tx = cur
    <3>2. h \in 1..Height /\ h \in Nat
      BY <3>1, TipTyped DEF IInv, TypeOK
    <3>3. chain[h].hash \in Int /\ chain[h].valid \in BOOLEAN
      BY <3>2, BlockTyped DEF IInv, TypeOK
    <3> QED BY <3>2, <3>3 DEF InclusionOf
  <2>2. CallTypeOK' /\ pc' \in {"retip", "canonical"} /\ cur' = cur /\ cur \in Intents
    BY <1>1, <2>1 DEF IInv, TypeOK, CallTypeOK, WireMatches, TransactionFound
  <2> QED BY <1>1, <2>2, ReadKeeps DEF TransactionFound
<1>2. CASE RefreshTip
  <2>1. CallTypeOK' /\ pc' = "canonical" /\ cur' = cur /\ cur \in Intents
    BY <1>2, TipTyped DEF IInv, TypeOK, CallTypeOK, WireMatches, RefreshTip
  <2> QED BY <1>2, <2>1, ReadKeeps DEF RefreshTip
<1>3. CASE CheckInclusion
  <2>1. cur \in Intents /\ CallTypeOK
    BY <1>3 DEF IInv, TypeOK, WireMatches, CheckInclusion
  <2>2. CASE Finish /\ UNCHANGED journalVars
    BY <1>3, <2>2, FinishTyped, ReadKeeps DEF CheckInclusion
  <2>3. CASE Goto("record") /\ UNCHANGED journalVars
    BY <1>3, <2>1, <2>3, GotoTyped, ReadKeeps DEF CheckInclusion
  <2>4. CASE Goto("record") /\ RecordRollback(cur)
    <3>1. JournalInv' /\ attempts' = attempts
      BY <2>1, <2>4, RollbackKeeps DEF IInv, RecordRollback
    <3> QED BY <1>3, <2>1, <2>4, <3>1, GotoTyped, QuietKeeps DEF CheckInclusion
  <2> QED BY <1>3, <2>2, <2>3, <2>4 DEF CheckInclusion
<1>4. CASE RecordInfo
  <2>1. cur \in Intents /\ InclusionPoint \in Points
    BY <1>4 DEF IInv, TypeOK, CallTypeOK, WireMatches, RecordInfo, InclusionPoint, Points
  <2>2. JournalInv' /\ attempts' = attempts
    <3> DEFINE confirmed == tip.height - info.height + 1 >= Confirmations
    <3>1. CASE RecordInclusion(cur, InclusionPoint, confirmed)
      <4> HIDE DEF confirmed
      <4>1. ASSUME NEW c \in BOOLEAN, RecordInclusion(cur, InclusionPoint, c)
            PROVE  JournalInv' /\ attempts' = attempts
        BY <2>1, <4>1, InclusionKeeps DEF IInv, RecordInclusion
      <4>2. confirmed \in BOOLEAN
        BY DEF confirmed
      <4> QED BY <3>1, <4>1, <4>2
    <3>2. CASE RetireFailed(cur, InclusionPoint)
      BY <2>1, <3>2, FailKeeps DEF IInv, RetireFailed
    <3>3. CASE UNCHANGED journalVars
      BY <3>3 DEF IInv, JournalInv, JournalTypeOK, AttemptsMatch, FreshHoldsItsInputs,
                  OneUndecided, journalVars
    <3> QED BY <1>4, <3>1, <3>2, <3>3 DEF RecordInfo
  <2>3. CallTypeOK' /\ pc' \in {"open", "closed"}
    BY <1>4, ReturnTyped DEF IInv, TypeOK, RecordInfo
  <2> QED BY <1>4, <2>2, <2>3, QuietKeeps DEF RecordInfo
<1> QED BY <1>1, <1>2, <1>3, <1>4

\* reconcile, transaction not found, and _retire_expired.
LEMMA ExpiryTyped ==
  ASSUME CallTypeOK, NEW s, CheckExpiry(s)
  PROVE  CallTypeOK' /\ (pc' \in {"open", "closed"} \/ (pc' = "anchor" /\ cur' = cur))
BY GotoTyped, ReturnTyped DEF CheckExpiry

\* A lookup in vain marks the attempt unknown or reopens a lost inclusion.
LEMMA MissingKeeps == ASSUME IInv, TransactionMissing \/ CheckLostBlock PROVE IInv'
<1>1. cur \in Intents /\ CallTypeOK
  BY DEF IInv, TypeOK, WireMatches, TransactionMissing, CheckLostBlock
<1>2. /\ CallTypeOK'
      /\ pc' \in {"open", "closed"} \/ (pc' \in {"anchor", "lost"} /\ cur' = cur)
  BY <1>1, ExpiryTyped, GotoTyped DEF TransactionMissing, CheckLostBlock
<1>3. JournalInv' /\ attempts' = attempts
  <2>1. CASE UNCHANGED journalVars
    BY <2>1 DEF IInv, JournalInv, JournalTypeOK, AttemptsMatch, FreshHoldsItsInputs,
                OneUndecided, journalVars
  <2>2. CASE status[cur] \in {"submitting", "submitted"} /\ MarkTransaction(cur, "unknown")
    BY <1>1, <2>2, MarkKeeps DEF IInv, MarkTransaction
  <2>3. CASE RecordRollback(cur)
    BY <1>1, <2>3, RollbackKeeps DEF IInv, RecordRollback
  <2> QED BY <2>1, <2>2, <2>3 DEF TransactionMissing, CheckLostBlock
<1> QED BY <1>1, <1>2, <1>3, QuietKeeps DEF TransactionMissing, CheckLostBlock

\* _retire_expired reads the anchor, the inputs and the spender and writes nothing.
LEMMA ExpiryReads ==
  ASSUME IInv, ReadAnchor \/ ReadInputStates \/ FindSpender \/ \E found \in BOOLEAN : LookAgain(found)
  PROVE  IInv'
<1>1. cur \in Intents /\ CallTypeOK /\ ChainTypeOK
  BY DEF IInv, TypeOK, WireMatches, ReadAnchor, ReadInputStates, FindSpender, LookAgain
<1>2. CallTypeOK' /\ (pc' \in Between \/ (pc' \in Steps \ Wired /\ cur' = cur))
  <2>1. CASE ReadAnchor
    <3> DEFINE h == tip.height - Confirmations + 1
    <3>1. CASE Return
      BY <1>1, <3>1, ReturnTyped
    <3>2. CASE /\ HashAt(h) # -1
               /\ seen' = [height |-> h, hash |-> chain[h].hash]
               /\ pc' = "states"
               /\ UNCHANGED <<cur, tip, info, spent, open, closed, canon>>
      <4>1. h \in 1..Height /\ h \in Nat
        BY <3>2, <1>1, TipTyped DEF HashAt
      <4>2. seen' \in Points
        BY <1>1, <3>2, <4>1, BlockTyped DEF Points
      <4> QED BY <1>1, <3>2, <4>2 DEF CallTypeOK
    <3> QED BY <2>1, <3>1, <3>2 DEF ReadAnchor
  <2>2. CASE ReadInputStates
    <3>1. CASE Return
      BY <1>1, <3>1, ReturnTyped
    <3>2. CASE /\ spent' = Roles(cur) \cap Spent
               /\ pc' \in {"absent", "proof"}
               /\ UNCHANGED <<cur, tip, info, seen, open, closed, canon>>
      <4>1. Roles(cur) \subseteq Refs
        BY <1>1, CandidateAssumption DEF Roles, Txs
      <4> QED BY <1>1, <3>2, <4>1 DEF CallTypeOK
    <3> QED BY <2>2, <3>1, <3>2 DEF ReadInputStates
  <2>3. CASE FindSpender
    BY <1>1, <2>3, GotoTyped, ReturnTyped DEF FindSpender
  <2>4. CASE \E found \in BOOLEAN : LookAgain(found)
    BY <1>1, <2>4, GotoTyped, ReturnTyped DEF LookAgain
  <2> QED BY <2>1, <2>2, <2>3, <2>4
<1> QED BY <1>1, <1>2, ReadKeeps DEF ReadAnchor, ReadInputStates, FindSpender, LookAgain

\* The retirement itself, on an anchor that is still canonical.
LEMMA RetireStep == ASSUME IInv, Retire PROVE IInv'
<1>1. cur \in Intents /\ CallTypeOK /\ seen \in Points
  BY DEF IInv, TypeOK, CallTypeOK, WireMatches, Retire
<1>2. CASE Finish /\ UNCHANGED journalVars
  BY <1>2, FinishTyped, ReadKeeps DEF Retire
<1>3. CASE /\ RetireExpired(cur, IF spent = {} THEN "expired" ELSE "conflicted", Roles(cur) \ spent, seen)
           /\ Return
  <2>1. JournalInv' /\ attempts' = attempts
    BY <1>1, <1>3, RetireKeeps DEF IInv, RetireExpired
  <2> QED BY <1>1, <1>3, <2>1, ReturnTyped, QuietKeeps DEF Retire
<1> QED BY <1>2, <1>3 DEF Retire

\* reconcile_all and reconcile.
LEMMA ReconciliationKeeps == ASSUME IInv, Reconciliation PROVE IInv'
BY PassReads, VisitReplacedStep, FoundKeeps, MissingKeeps, ExpiryReads, RetireStep DEF Reconciliation

\* Commands under the wallet lock run between calls; stop runs at any time.
LEMMA OperatorKeeps == ASSUME IInv, Operator PROVE IInv'
<1>1. JournalInv' /\ attempts' = attempts
  <2>1. ASSUME NEW i \in Intents, Abandon(i) PROVE JournalInv' /\ attempts' = attempts
    BY <2>1, AbandonKeeps DEF IInv, Abandon, AbandonUnsigned
  <2>2. ASSUME NEW i \in Intents, Acknowledge(i) PROVE JournalInv' /\ attempts' = attempts
    BY <2>2, ControlKeeps DEF IInv, Acknowledge, AcknowledgeIncident
  <2>3. CASE Start \/ Stop
    BY <2>3, ControlKeeps DEF IInv, Start, Stop, StartRun, RequestStop
  <2> QED BY <2>1, <2>2, <2>3 DEF Operator
<1>2. pc = "idle" \/ status' = status
  BY DEF Operator, Abandon, Acknowledge, Start, Stop, RequestStop
<1>3. UNCHANGED <<chainVars, callVars, history>>
  BY DEF Operator, Abandon, Acknowledge, Start, Stop
<1>4. TypeOK'
  BY <1>1, <1>3 DEF IInv, TypeOK, ChainTypeOK, CallTypeOK, chainVars, callVars, history, JournalInv
<1>5. WireMatches'
  BY <1>1, <1>2, <1>3 DEF IInv, WireMatches, chainVars, callVars, history
<1> QED BY <1>1, <1>4, <1>5 DEF IInv

\* The chain moves: no row of the journal is touched.
LEMMA EnvironmentKeeps == ASSUME IInv, Environment PROVE IInv'
<1>1. ChainTypeOK' /\ wire' = wire
  BY ChainKeeps DEF IInv, TypeOK, Environment
<1>2. UNCHANGED <<journalVars, callVars, history>>
  BY DEF Environment
<1>3. JournalInv'
  BY <1>2 DEF IInv, JournalInv, JournalTypeOK, AttemptsMatch, FreshHoldsItsInputs,
              OneUndecided, journalVars
<1>4. TypeOK' /\ WireMatches'
  BY <1>1, <1>2, <1>3 DEF IInv, TypeOK, CallTypeOK, WireMatches, JournalInv, journalVars, callVars, history
<1> QED BY <1>3, <1>4 DEF IInv

----------------------------------------------------------------------------
(* The theorems.                                                           *)

\* The invariant holds at the start.
LEMMA InitIInv == Init => IInv
<1> SUFFICES ASSUME Init PROVE IInv
  OBVIOUS
<1>1. JournalInv
  BY JournalStarts DEF Init
<1>2. ChainTypeOK
  <2>1. chain \in Seq(Blocks) /\ Len(chain) = 1
    BY ChainAssumption DEF Init, ChainInit, Blocks
  <2> QED BY <2>1, ChainAssumption DEF Init, ChainInit, ChainTypeOK, Heights
<1>3. CallTypeOK
  BY DEF Init, CallTypeOK, NoTip, NoInfo, NoBlock, NotAsked, Points
<1>4. TypeOK
  BY <1>1, <1>2, <1>3 DEF Init, JournalInv, TypeOK
<1>5. WireMatches
  BY DEF Init, ChainInit, JournalInit, WireMatches
<1> QED BY <1>1, <1>4, <1>5 DEF IInv

\* Every step keeps the invariant.
LEMMA NextIInv == IInv /\ [Next]_vars => IInv'
<1> SUFFICES ASSUME IInv, [Next]_vars PROVE IInv'
  OBVIOUS
<1>1. CASE Environment
  BY <1>1, EnvironmentKeeps
<1>2. CASE Preparation
  BY <1>2, PreparationKeeps
<1>3. CASE Submission
  BY <1>3, SubmissionKeeps
<1>4. CASE Reconciliation
  BY <1>4, ReconciliationKeeps
<1>5. CASE Operator
  BY <1>5, OperatorKeeps
<1>6. CASE Interrupt
  BY <1>6, FinishTyped, ReadKeeps DEF Interrupt
<1>7. CASE UNCHANGED vars
  BY <1>7 DEF IInv, TypeOK, ChainTypeOK, CallTypeOK, WireMatches, JournalInv, JournalTypeOK,
     AttemptsMatch, FreshHoldsItsInputs, OneUndecided, vars, chainVars, journalVars, callVars, history
<1> QED BY <1>1, <1>2, <1>3, <1>4, <1>5, <1>6, <1>7 DEF Next

\* The inductive invariant holds in every reachable state.
THEOREM Invariant == Spec => []IInv
BY InitIInv, NextIInv, PTL DEF Spec

\* Every variable keeps its type, the attempt counter staying 0 or 1.
THEOREM TypeCorrect == Spec => []TypeOK
<1>1. IInv => TypeOK
  BY DEF IInv
<1> QED BY <1>1, Invariant, PTL

\* At most one wire call per intent, over crashes, retries and roll-backs.
THEOREM SentOnce == Spec => []OneWireAttempt
<1>1. IInv => OneWireAttempt
  BY DEF IInv, TypeOK, JournalTypeOK, WireMatches, OneWireAttempt
<1> QED BY <1>1, Invariant, PTL

\* What abandon_unsigned gave away never left the process.
THEOREM AbandonSafe == Spec => []AbortedNeverSent
<1>1. IInv => AbortedNeverSent
  BY DEF IInv, TypeOK, JournalInv, AttemptsMatch, WireMatches, AbortedNeverSent
<1> QED BY <1>1, Invariant, PTL

\* An undecided candidate holds all its references, and it is the only one.
THEOREM UndecidedHolds == Spec => []FreshHoldsItsInputs /\ []OneUndecided
<1>1. IInv => FreshHoldsItsInputs /\ OneUndecided
  BY DEF IInv, JournalInv
<1> QED BY <1>1, Invariant, PTL

\* While stop is committed no attempt is claimed, and what reaches the wire
\* was claimed before.
THEOREM StopKept == Spec => StopHolds
<1>1. ASSUME IInv, [Next]_vars PROVE [StopStep]_vars
  <2> SUFFICES ASSUME Next, control = "stopping", control' = "stopping", NEW i \in Intents
               PROVE  attempts'[i] = attempts[i] /\ (i \in wire' \ wire => status[i] = "submitting")
    BY <1>1 DEF StopStep
  <2>1. CASE Environment
    BY <1>1, <2>1, ChainKeeps DEF IInv, TypeOK, Environment, journalVars
  <2>2. CASE Preparation
    BY <2>2 DEF Preparation, Prepare, PrepareCandidate, Sign, AttachSignature, journalVars, chainVars
  <2>3. CASE Submission
    <3>1. CASE Claim
      BY <3>1 DEF Claim, ClaimSubmission, Claimable, StopRequested
    <3>2. CASE \E d, a \in BOOLEAN : Send(d, a)
      BY <1>1, <3>2 DEF Send, IInv, WireMatches, journalVars
    <3>3. CASE (\E j \in Intents : Submit(j)) \/ RecheckDependencies \/ Refuse \/ RecordSend
      BY <3>3 DEF Submit, RecheckDependencies, Refuse, RecordSend, MarkTransaction, journalVars, chainVars
    <3> QED BY <2>3, <3>1, <3>2, <3>3 DEF Submission
  <2>4. CASE Reconciliation
    <3>1. UNCHANGED wire
      BY <2>4 DEF Reconciliation, ReconcileAll, ReconcileOne, Visit, VisitSettled, VisitReplaced,
         VisitUnproved, ReadBlocks, PassDone, TransactionFound, RefreshTip, CheckInclusion,
         RecordInfo, TransactionMissing, CheckLostBlock, ReadAnchor, ReadInputStates,
         FindSpender, Retire, LookAgain, chainVars
    <3>2. UNCHANGED attempts
      BY <2>4 DEF Reconciliation, ReconcileAll, ReconcileOne, Visit, VisitSettled, VisitReplaced,
         VisitUnproved, ReadBlocks, PassDone, TransactionFound, RefreshTip, CheckInclusion,
         RecordInfo, TransactionMissing, CheckLostBlock, ReadAnchor, ReadInputStates,
         FindSpender, Retire, LookAgain, journalVars, RecordRollback, RecordInclusion,
         RetireFailed, RetireExpired, MarkTransaction
    <3> QED BY <3>1, <3>2
  <2>5. CASE Operator
    BY <2>5 DEF Operator, Abandon, AbandonUnsigned, Acknowledge, AcknowledgeIncident, Start,
                StartRun, Stop, RequestStop, chainVars
  <2>6. CASE Interrupt
    BY <2>6 DEF Interrupt, journalVars, chainVars
  <2> QED BY <2>1, <2>2, <2>3, <2>4, <2>5, <2>6 DEF Next
<1> QED BY <1>1, Invariant, PTL DEF Spec, StopHolds

----------------------------------------------------------------------------
(* Refinement: the coordinator implements the one-slot outbox.             *)

USE DEF Fresh, Terminal, Closed, Statuses

\* The slot holds the undecided candidate, if there is one.
LEMMA SlotOf == ASSUME JournalInv, NEW i \in Intents, status[i] \in Fresh PROVE SlotHolder = i
BY DEF JournalInv, OneUndecided, SlotHolder

\* With nothing undecided the slot is free.
LEMMA SlotFree == ASSUME \A i \in Intents : status[i] \notin Fresh PROVE SlotHolder = Nobody
BY DEF SlotHolder

\* A step that moves no candidate into or out of the undecided ones.
LEMMA SlotStutters ==
  ASSUME JournalInv, JournalInv',
         \A i \in Intents : /\ status'[i] \in Fresh <=> status[i] \in Fresh
                            /\ status'[i] = "absent" <=> status[i] = "absent"
  PROVE  UNCHANGED <<SlotHolder, Known>>
<1>1. UNCHANGED SlotHolder
  <2>1. CASE \E i \in Intents : status[i] \in Fresh
    <3>1. PICK i \in Intents : status[i] \in Fresh /\ status'[i] \in Fresh
      BY <2>1
    <3>2. SlotHolder = i
      BY <3>1, SlotOf
    <3>3. SlotHolder' = i
      BY <3>1 DEF JournalInv, OneUndecided, SlotHolder
    <3> QED BY <3>2, <3>3
  <2>2. CASE \A i \in Intents : status[i] \notin Fresh
    BY <2>2 DEF SlotHolder
  <2> QED BY <2>1, <2>2
<1>2. UNCHANGED Known
  BY DEF Known
<1> QED BY <1>1, <1>2

\* A step that settles one known candidate in a status that is not undecided.
LEMMA SlotLeaves ==
  ASSUME JournalInv, JournalInv', NEW i \in Intents, NEW s \in Statuses \ (Fresh \cup {"absent"}),
         status[i] # "absent", status' = [status EXCEPT ![i] = s], UNCHANGED <<attempts, sends>>
  PROVE  OneSlot!Leave \/ UNCHANGED <<SlotHolder, Known, attempts, sends>>
<1>1. \A j \in Intents : status'[j] = IF j = i THEN s ELSE status[j]
  BY DEF JournalInv, JournalTypeOK
<1>2. CASE status[i] \in Fresh
  <2>1. SlotHolder = i
    BY <1>2, SlotOf
  <2>2. \A j \in Intents : status'[j] \notin Fresh
    BY <1>1, <1>2 DEF JournalInv, OneUndecided
  <2>3. SlotHolder' = Nobody
    BY <2>2 DEF SlotHolder
  <2>4. UNCHANGED Known
    BY <1>1 DEF Known
  <2> QED BY <2>1, <2>3, <2>4, JournalAssumption DEF OneSlot!Leave
<1>3. CASE status[i] \notin Fresh
  BY <1>1, <1>3, SlotStutters
<1> QED BY <1>2, <1>3

\* Preparing takes the slot.
LEMMA PrepareTakes ==
  ASSUME JournalInv, JournalInv', NEW i \in Intents, PrepareCandidate(i), UNCHANGED sends
  PROVE  OneSlot!Take(i) \/ UNCHANGED <<SlotHolder, Known, attempts, sends>>
<1>1. CASE UNCHANGED journalVars
  BY <1>1, SlotStutters DEF journalVars
<1>2. CASE /\ status[i] = "absent" /\ NothingOpen
           /\ status' = [status EXCEPT ![i] = "prepared"] /\ attempts' = attempts
  <2>1. \A j \in Intents : status'[j] = IF j = i THEN "prepared" ELSE status[j]
    BY <1>2 DEF JournalInv, JournalTypeOK
  <2>2. SlotHolder = Nobody
    BY <1>2, SlotFree DEF NothingOpen
  <2>3. SlotHolder' = i
    BY <2>1 DEF JournalInv, OneUndecided, SlotHolder
  <2>4. i \notin Known /\ Known' = Known \cup {i}
    BY <1>2, <2>1 DEF Known
  <2> QED BY <1>2, <2>2, <2>3, <2>4 DEF OneSlot!Take
<1> QED BY <1>1, <1>2 DEF PrepareCandidate

\* Claiming launches the candidate in the slot, which has not been launched.
LEMMA ClaimLaunches ==
  ASSUME JournalInv, JournalInv', NEW i \in Intents, ClaimSubmission(i), UNCHANGED sends
  PROVE  OneSlot!Launch
<1>1. /\ status[i] = "prepared" /\ attempts[i] = 0
      /\ attempts' = [attempts EXCEPT ![i] = 1]
      /\ \A j \in Intents : status'[j] = IF j = i THEN "submitting" ELSE status[j]
  BY DEF ClaimSubmission, Claimable, JournalInv, JournalTypeOK
<1>2. SlotHolder = i
  BY <1>1, SlotOf
<1>3. SlotHolder' = i
  BY <1>1 DEF JournalInv, OneUndecided, SlotHolder
<1>4. Known' = Known
  BY <1>1 DEF Known
<1> QED BY <1>1, <1>2, <1>3, <1>4, JournalAssumption DEF OneSlot!Launch

\* The wire call is made for the candidate in the slot, launched once and not
\* called yet.
LEMMA SendCalls ==
  ASSUME IInv, IInv', NEW d, NEW a, Send(d, a)
  PROVE  OneSlot!Call
<1>1. cur \in Intents /\ status[cur] = "submitting" /\ attempts[cur] = 1 /\ sends[cur] = 0
  BY DEF Send, IInv, WireMatches
<1>2. UNCHANGED <<status, attempts>> /\ sends' = [sends EXCEPT ![cur] = 1]
  BY <1>1 DEF Send, journalVars
<1>3. SlotHolder = cur
  BY <1>1, SlotOf DEF IInv
<1>4. UNCHANGED <<SlotHolder, Known>>
  BY <1>2, SlotStutters DEF IInv
<1> QED BY <1>1, <1>2, <1>3, <1>4, JournalAssumption DEF OneSlot!Call

\* A record of evidence settles the candidate or changes nothing here.
LEMMA EvidenceLeaves ==
  ASSUME JournalInv, JournalInv', NEW i \in Intents, UNCHANGED sends,
         \/ UNCHANGED journalVars
         \/ RecordRollback(i) \/ AbandonUnsigned(i)
         \/ \E point : RetireFailed(i, point)
         \/ \E point, release : \E s \in {"expired", "conflicted"} : RetireExpired(i, s, release, point)
         \/ \E point : \E confirmed \in BOOLEAN : RecordInclusion(i, point, confirmed)
         \/ status[i] \in {"submitting", "submitted"} /\ \E s \in {"unknown", "submitted"} : MarkTransaction(i, s)
  PROVE  OneSlot!Leave \/ UNCHANGED <<SlotHolder, Known, attempts, sends>>
<1>1. CASE UNCHANGED journalVars
  BY <1>1, SlotStutters DEF journalVars
<1>2. CASE \E s \in Statuses \ (Fresh \cup {"absent"}) :
             status[i] # "absent" /\ status' = [status EXCEPT ![i] = s] /\ attempts' = attempts
  BY <1>2, SlotLeaves
<1>3. CASE status[i] \in {"submitting", "submitted"} /\ \E s \in {"unknown", "submitted"} : MarkTransaction(i, s)
  <2>1. \A j \in Intents : /\ status'[j] \in Fresh <=> status[j] \in Fresh
                           /\ status'[j] = "absent" <=> status[j] = "absent"
    BY <1>3 DEF MarkTransaction, JournalInv, JournalTypeOK
  <2>2. attempts' = attempts
    BY <1>3 DEF MarkTransaction
  <2> QED BY <2>1, <2>2, SlotStutters
<1>4. CASE RecordRollback(i) \/ AbandonUnsigned(i)
  BY <1>2, <1>4 DEF RecordRollback, AbandonUnsigned
<1>5. CASE \E point : RetireFailed(i, point)
  BY <1>2, <1>5 DEF RetireFailed
<1>6. CASE \E point, release : \E s \in {"expired", "conflicted"} : RetireExpired(i, s, release, point)
  BY <1>2, <1>6 DEF RetireExpired
<1>7. CASE \E point : \E confirmed \in BOOLEAN : RecordInclusion(i, point, confirmed)
  BY <1>2, <1>7 DEF RecordInclusion
<1> QED BY <1>1, <1>3, <1>4, <1>5, <1>6, <1>7

\* The outbox starts empty.
LEMMA InitSlot == Init => OneSlot!Init
BY DEF Init, JournalInit, OneSlot!Init, SlotHolder, Known

\* Every step of the coordinator is a step of the outbox or leaves it alone.
LEMMA NextSlot ==
  IInv /\ IInv' /\ [Next]_vars => [OneSlot!Next]_<<SlotHolder, Known, attempts, sends>>
<1> DEFINE Stays == UNCHANGED <<SlotHolder, Known, attempts, sends>>
<1> SUFFICES ASSUME IInv, IInv', [Next]_vars PROVE OneSlot!Next \/ Stays
  OBVIOUS
<1>a. JournalInv /\ JournalInv'
  BY DEF IInv
<1>1. CASE UNCHANGED <<status, attempts, sends>>
  BY <1>a, <1>1, SlotStutters
<1>2. CASE Preparation
  <2>1. ASSUME NEW i \in Intents, Prepare(i) PROVE OneSlot!Take(i) \/ Stays
    BY <1>a, <2>1, PrepareTakes DEF Prepare, history
  <2>2. CASE Sign
    BY <1>1, <2>2 DEF Sign, AttachSignature, history
  <2> QED BY <1>2, <2>1, <2>2 DEF Preparation, OneSlot!Next
<1>3. CASE Submission
  <2>1. CASE Claim
    <3>1. cur \in Intents
      BY <2>1 DEF Claim, IInv, WireMatches
    <3> QED BY <1>a, <2>1, <3>1, ClaimLaunches DEF Claim, history, OneSlot!Next
  <2>2. CASE RecordSend
    <3>1. cur \in Intents /\ status[cur] = "submitting"
      BY <2>2 DEF RecordSend, IInv, WireMatches
    <3> QED BY <1>a, <2>2, <3>1, EvidenceLeaves DEF RecordSend, history, OneSlot!Next
  <2>3. CASE (\E i \in Intents : Submit(i)) \/ RecheckDependencies \/ Refuse
    BY <1>1, <2>3 DEF Submit, RecheckDependencies, Refuse, journalVars, history
  <2>4. ASSUME NEW d \in BOOLEAN, NEW a \in BOOLEAN, Send(d, a) PROVE OneSlot!Next
    BY <2>4, SendCalls DEF OneSlot!Next
  <2> QED BY <1>3, <2>1, <2>2, <2>3, <2>4 DEF Submission
<1>4. CASE Reconciliation
  <2>1. ASSUME NEW i \in Intents, VisitReplaced(i) PROVE OneSlot!Next \/ Stays
    BY <1>a, <2>1, EvidenceLeaves DEF VisitReplaced, history, OneSlot!Next
  <2>2. CASE CheckInclusion \/ RecordInfo \/ TransactionMissing \/ CheckLostBlock \/ Retire
    <3>1. cur \in Intents
      BY <2>2 DEF CheckInclusion, RecordInfo, TransactionMissing, CheckLostBlock, Retire, IInv, WireMatches
    <3>2. CASE CheckInclusion \/ TransactionMissing \/ CheckLostBlock
      BY <1>a, <3>1, <3>2, EvidenceLeaves
         DEF CheckInclusion, TransactionMissing, CheckLostBlock, history, OneSlot!Next
    <3>3. CASE RecordInfo
      <4> DEFINE confirmed == tip.height - info.height + 1 >= Confirmations
      <4>1. confirmed \in BOOLEAN
        OBVIOUS
      <4>2. \/ RecordInclusion(cur, InclusionPoint, confirmed)
            \/ RetireFailed(cur, InclusionPoint) \/ UNCHANGED journalVars
        BY <3>3 DEF RecordInfo
      <4>3. UNCHANGED sends
        BY <3>3 DEF RecordInfo, history
      <4> HIDE DEF confirmed
      <4> QED BY <1>a, <3>1, <4>1, <4>2, <4>3, EvidenceLeaves DEF OneSlot!Next
    <3>4. CASE Retire
      BY <1>a, <3>1, <3>4, EvidenceLeaves DEF Retire, history, OneSlot!Next
    <3> QED BY <2>2, <3>2, <3>3, <3>4
  <2>3. CASE \/ ReconcileAll \/ ReadBlocks \/ PassDone \/ TransactionFound \/ RefreshTip
             \/ ReadAnchor \/ ReadInputStates \/ FindSpender \/ \E found \in BOOLEAN : LookAgain(found)
             \/ \E i \in Intents : ReconcileOne(i) \/ Visit(i) \/ VisitSettled(i) \/ VisitUnproved(i)
    BY <1>1, <2>3 DEF ReconcileAll, ReadBlocks, PassDone, TransactionFound, RefreshTip, ReadAnchor,
       ReadInputStates, FindSpender, LookAgain, ReconcileOne, Visit, VisitSettled, VisitUnproved,
       journalVars, history
  <2> QED BY <1>4, <2>1, <2>2, <2>3 DEF Reconciliation
<1>5. CASE Operator
  <2>1. ASSUME NEW i \in Intents, Abandon(i) PROVE OneSlot!Next \/ Stays
    BY <1>a, <2>1, EvidenceLeaves DEF Abandon, history, OneSlot!Next
  <2>2. CASE (\E i \in Intents : Acknowledge(i)) \/ Start \/ Stop
    BY <1>1, <2>2 DEF Acknowledge, AcknowledgeIncident, Start, StartRun, Stop, RequestStop, history
  <2> QED BY <1>5, <2>1, <2>2 DEF Operator
<1>6. CASE Environment \/ Interrupt \/ UNCHANGED vars
  BY <1>1, <1>6 DEF Environment, Interrupt, vars, journalVars, history
<1> QED BY <1>2, <1>3, <1>4, <1>5, <1>6 DEF Next

\* The coordinator implements the one-slot outbox, whatever the chain does: a
\* candidate is undecided for one stretch of its life, and launched and handed
\* to the wire once at most within it.
THEOREM OutboxImplemented == Spec => ImplementsOutbox
BY InitSlot, NextSlot, Invariant, PTL DEF Spec, ImplementsOutbox, OneSlot!Spec

----------------------------------------------------------------------------
(* Safety under shallow roll-backs.                                        *)

\* No roll-back is as deep as a confirmation, and what a lookup misses is
\* younger than what is left of it.
Shallow == MaxReorg < Confirmations /\ Lag + MaxReorg <= Confirmations

\* Program points of a reconciliation that has an entry in hand.
Visiting == {"info", "lost", "retip", "canonical", "record", "anchor",
             "states", "proof", "absent", "again"}
Reconciling == Visiting \cup {"open", "closed"}

\* Statuses with which a candidate may yet come to be on the chain.
Undone == Fresh \cup {"included", "rolled_back"}

\* The part of the chain that stays reaches to MaxReorg below its tip.
FixedBelow == fixed <= Height /\ Height <= fixed + MaxReorg

\* Slots grow along the chain; a block belongs to a fork there has been, and
\* carries a transaction before it expires, an own one after it was sent.
BlocksSound ==
  /\ \A h \in 1..Height :
       /\ chain[h].hash \in 0..forks
       /\ chain[h].tx \in Txs => chain[h].slot < Expires[chain[h].tx]
       /\ chain[h].tx \in Intents => chain[h].tx \in wire
  /\ \A h, k \in 1..Height : h < k => chain[h].slot < chain[k].slot

ChainSound == FixedBelow /\ BlocksSound

\* p is a block of the part of the chain that stays.
Rests(p) == p.height \in 1..fixed /\ chain[p.height].hash = p.hash

\* The tip a pass works with was the chain's when it was read.
TipLow == tip.height <= fixed + MaxReorg

\* A pass visits open candidates and checks closed ones, whose blocks it finds.
PassStands ==
  /\ pc # "closed" => canon = NotAsked
  /\ pc \notin Reconciling => open = {} /\ closed = {}
  /\ \A i \in open : status[i] \in Undone
  /\ \A i \in closed : status[i] \in Terminal
  /\ pc = "closed" => \A i \in closed : canon[i] = BlockUnder(i).hash
  /\ pc \in Visiting => status[cur] \in Undone /\ cur \notin open

\* The block of an inclusion is the one that was read, or is there no more: a
\* later block at its height bears a later hash.
InfoStands ==
  pc \in {"retip", "canonical"} =>
    /\ info.height \in Heights /\ info.hash \in 0..forks
    /\ HashAt(info.height) = -1 => info.hash < forks
    /\ HashAt(info.height) # -1 => HashAt(info.height) >= info.hash
    /\ HashAt(info.height) = info.hash =>
         chain[info.height].tx = cur /\ chain[info.height].valid = info.valid

\* An inclusion found canonical as deep below the pass's tip as no roll-back
\* reaches is there for good.
RecordStands ==
  pc = "record" /\ info.height + MaxReorg <= tip.height =>
    /\ Rests(InclusionPoint)
    /\ chain[info.height].tx = cur /\ chain[info.height].valid = info.valid

\* The anchor of a retirement is there for good and past the candidate's expiry.
AnchorStands ==
  pc \in {"states", "proof", "absent", "again"} =>
    /\ Rests(seen) /\ chain[seen.height].slot >= Expires[cur]
    /\ seen.height + Confirmations <= fixed + MaxReorg + 1

\* The second look finds what could still be there.
AbsenceStands == pc = "again" => ~ OnChain(cur)

CallStands ==
  TipLow /\ PassStands /\ InfoStands /\ RecordStands /\ AnchorStands /\ AbsenceStands

\* What the journal says of i agrees with the part of the chain that stays.
RowRests(i) ==
  /\ status[i] \in Undone => \A r \in Roles(i) : holder[r] = i
  /\ status[i] \in {"confirmed", "failed"} =>
       /\ Rests(block[i]) /\ chain[block[i].height].tx = i
       /\ chain[block[i].height].valid <=> status[i] = "confirmed"
  /\ status[i] \in {"expired", "conflicted"} =>
       Rests(anchor[i]) /\ chain[anchor[i].height].slot >= Expires[i] /\ ~ OnChain(i)
  /\ status[i] = "confirmed" => \A r \in Spends[i] : holder[r] = i

RowsRest == \A i \in Intents : RowRests(i)

\* The inductive invariant.
DInv == IInv /\ ChainSound /\ CallStands /\ RowsRest

\* Constants are numbers.
LEMMA Numbers ==
  /\ MaxReorg \in Nat /\ MaxForks \in Nat /\ MaxHeight \in Nat /\ Confirmations \in Nat /\ Lag \in Nat
  /\ Expires \in [Txs -> Nat] /\ Intents \subseteq Txs /\ NoTx \notin Txs
BY ChainAssumption, CoordinatorAssumption, CandidateAssumption DEF Txs

----------------------------------------------------------------------------
(* The chain.                                                              *)

\* A step of the chain, seen from the blocks: one of a later slot is added, or
\* blocks above the part that stays are taken away.
LEMMA ChainMoves ==
  ASSUME ChainTypeOK, FixedBelow, BlocksSound, ChainNext
  PROVE  /\ Height' \in Nat \ {0} /\ Height \in Nat \ {0} /\ forks \in Nat
         /\ \A h \in 1..Height : h <= Height' => chain'[h] = chain[h]
         /\ wire' = wire
         /\ \/ /\ Height' = Height + 1 /\ forks' = forks
               /\ fixed' = IF Height + 1 - MaxReorg > fixed THEN Height + 1 - MaxReorg ELSE fixed
               /\ chain'[Height + 1].hash = forks
               /\ chain'[Height + 1].slot > chain[Height].slot /\ chain'[Height + 1].slot \in Nat
               /\ chain'[Height + 1].tx = NoTx \/
                  (/\ chain'[Height + 1].tx \in wire \cup Foreign
                   /\ chain'[Height + 1].slot < Expires[chain'[Height + 1].tx])
            \/ Height' < Height /\ fixed <= Height' /\ forks' = forks + 1 /\ fixed' = fixed
<1> USE Numbers, ChainAssumption
<1>0. Height \in Nat \ {0} /\ forks \in Nat /\ chain \in Seq(Blocks)
  BY DEF ChainTypeOK, Height, Heights
<1>1. chain[Height].slot \in Nat /\ Slot = chain[Height].slot
  BY <1>0, BlockTyped DEF Slot
<1>2. ASSUME NEW b, Mint(b)
      PROVE  /\ Height' \in Nat \ {0} /\ wire' = wire
             /\ \A h \in 1..Height : chain'[h] = chain[h]
             /\ Height' = Height + 1 /\ forks' = forks
             /\ fixed' = IF Height + 1 - MaxReorg > fixed THEN Height + 1 - MaxReorg ELSE fixed
             /\ chain'[Height + 1] = b
  <2>1. Len(chain) \in Nat /\ Len(chain') = Len(chain) + 1
    BY <1>0, <1>2 DEF Mint
  <2>2. \A h \in 1..Len(chain) : chain'[h] = chain[h]
    BY <1>0, <1>2 DEF Mint
  <2>3. chain'[Len(chain) + 1] = b
    BY <1>0, <1>2 DEF Mint
  <2> QED BY <1>2, <2>1, <2>2, <2>3 DEF Mint, Height
<1>3. CASE \E slot \in NextSlots : MintEmpty(slot)
  <2>1. PICK slot \in NextSlots : MintEmpty(slot)
    BY <1>3
  <2>2. slot \in Nat /\ slot > chain[Height].slot
    BY <1>1 DEF NextSlots
  <2> QED BY <1>0, <1>2, <2>1, <2>2 DEF MintEmpty
<1>4. CASE \E t \in Txs, ok \in BOOLEAN, slot \in NextSlots : MintWith(t, ok, slot)
  <2>1. PICK t \in Txs, ok \in BOOLEAN, slot \in NextSlots : MintWith(t, ok, slot)
    BY <1>4
  <2>2. slot \in Nat /\ slot > chain[Height].slot
    BY <1>1 DEF NextSlots
  <2> QED BY <1>0, <1>2, <2>1, <2>2 DEF MintWith, Includable
<1>5. CASE \E n \in Heights : Rollback(n)
  <2>1. PICK n \in Heights : Rollback(n)
    BY <1>5
  <2>2. n \in 1..(Len(chain) - 1) /\ Len(chain) \in Nat
    BY <2>1, <1>0 DEF Rollback, Height
  <2>3. Len(chain') = n
    BY <1>0, <2>1, <2>2 DEF Rollback
  <2>4. \A h \in 1..n : chain'[h] = chain[h]
    BY <1>0, <2>1, <2>2 DEF Rollback
  <2> QED BY <1>0, <2>1, <2>2, <2>3, <2>4 DEF Rollback, Height
<1> QED BY <1>3, <1>4, <1>5 DEF ChainNext

\* The part that stays only grows, and stays as it is.
LEMMA FixedStays ==
  ASSUME ChainTypeOK, FixedBelow, BlocksSound, ChainNext
  PROVE  /\ FixedBelow' /\ fixed \in Nat \ {0} /\ fixed' \in Nat /\ fixed' >= fixed /\ fixed <= Height /\ fixed <= Height'
         /\ \A h \in 1..fixed : chain'[h] = chain[h]
<1>1. fixed \in Nat \ {0}
  BY ChainAssumption DEF ChainTypeOK, Heights
<1> QED BY <1>1, ChainMoves, Numbers DEF FixedBelow

\* The blocks stay sound.
LEMMA BlocksKeep ==
  ASSUME ChainTypeOK, FixedBelow, BlocksSound, ChainNext
  PROVE  BlocksSound'
<1> USE Numbers
<1>a. Height' \in Nat /\ Height \in Nat /\ forks \in Nat
  BY ChainMoves
<1>b. ChainTypeOK' /\ wire' = wire
  BY ChainKeeps
<1>c. wire \subseteq Intents /\ Intents \cap Foreign = {}
  BY CandidateAssumption DEF ChainTypeOK
<1>1. ASSUME NEW h \in 1..(Height')
      PROVE  /\ chain'[h].hash \in 0..(forks')
             /\ chain'[h].tx \in Txs => chain'[h].slot < Expires[chain'[h].tx]
             /\ chain'[h].tx \in Intents => chain'[h].tx \in wire'
  <2>1. CASE h <= Height
    <3>1. chain'[h] = chain[h] /\ h \in 1..Height
      BY <1>a, <2>1, ChainMoves
    <3>2. forks' \in Nat /\ forks' >= forks
      BY <1>a, ChainMoves
    <3>3. chain[h].hash \in 0..forks
      BY <3>1 DEF BlocksSound
    <3> QED BY <1>a, <1>b, <3>1, <3>2, <3>3 DEF BlocksSound
  <2>2. CASE h > Height
    <3>1. h = Height + 1 /\ Height' = Height + 1
      BY <1>a, <2>2, ChainMoves
    <3> QED BY <1>a, <1>b, <1>c, <3>1, ChainMoves
  <2> QED BY <1>a, <2>1, <2>2
<1>2. ASSUME NEW h \in 1..(Height'), NEW k \in 1..(Height'), h < k
      PROVE  chain'[h].slot < chain'[k].slot
  <2>1. h <= Height /\ chain'[h] = chain[h]
    BY <1>a, <1>2, ChainMoves
  <2>2. CASE k <= Height
    BY <1>a, <1>2, <2>1, <2>2, ChainMoves DEF BlocksSound
  <2>3. CASE k > Height
    <3>1. k = Height + 1 /\ Height' = Height + 1
      BY <1>a, <2>3, ChainMoves
    <3>2. chain'[k].slot > chain[Height].slot /\ chain'[k].slot \in Nat
      BY <1>a, <3>1, ChainMoves
    <3>3. h = Height \/ chain[h].slot < chain[Height].slot
      BY <1>a, <2>1 DEF BlocksSound
    <3>4. chain[h].slot \in Nat /\ chain[Height].slot \in Nat
      BY <1>a, <2>1, BlockTyped, ChainMoves
    <3> QED BY <2>1, <3>2, <3>3, <3>4
  <2> QED BY <1>a, <2>2, <2>3
<1> QED BY <1>1, <1>2 DEF BlocksSound

\* What is not on the chain and expired in a block that stays comes no more.
LEMMA ExpiredStaysOff ==
  ASSUME ChainTypeOK, FixedBelow, BlocksSound, ChainNext,
         NEW t \in Txs, ~ OnChain(t), NEW k \in 1..fixed, chain[k].slot >= Expires[t]
  PROVE  ~ OnChain(t)'
<1> USE Numbers
<1>a. Height' \in Nat /\ Height \in Nat /\ k \in 1..Height
  BY ChainMoves, FixedStays
<1> SUFFICES ASSUME NEW h \in 1..(Height'), chain'[h].tx = t PROVE FALSE
  BY DEF OnChain, InclusionHeights
<1>1. ~ h <= Height
  <2> SUFFICES ASSUME h <= Height PROVE FALSE
    OBVIOUS
  <2>1. h \in 1..Height /\ chain[h].tx = t
    BY <1>a, ChainMoves
  <2> QED BY <2>1 DEF OnChain, InclusionHeights
<1>2. Height' = Height + 1 /\ h = Height + 1
  BY <1>a, <1>1, ChainMoves
<1>3. chain'[h].slot < Expires[t] /\ chain'[h].slot > chain[Height].slot /\ chain'[h].slot \in Nat
  BY <1>a, <1>2, ChainMoves
<1>4. k = Height \/ chain[k].slot < chain[Height].slot
  BY <1>a DEF BlocksSound
<1>5. chain[k].slot \in Nat /\ chain[Height].slot \in Nat /\ Expires[t] \in Nat
  BY <1>a, BlockTyped
<1> QED BY <1>3, <1>4, <1>5

\* The chain moves under a call: what the call knows of it stands.
LEMMA EnvironmentStands == ASSUME DInv, Environment PROVE DInv'
<1> USE Numbers
<1>a. ChainTypeOK /\ FixedBelow /\ BlocksSound /\ ChainNext /\ IInv /\ IInv'
  BY EnvironmentKeeps DEF DInv, IInv, TypeOK, ChainSound, Environment
<1>b. UNCHANGED <<status, holder, block, anchor, pc, cur, tip, info, seen, spent, open, closed, canon>>
  BY DEF Environment, journalVars, callVars
<1>c. /\ fixed \in Nat /\ fixed' \in Nat /\ fixed' >= fixed /\ fixed <= Height /\ fixed <= Height'
      /\ Height \in Nat /\ Height' \in Nat
      /\ \A h \in 1..fixed : h \in 1..(fixed') /\ chain'[h] = chain[h]
  BY <1>a, FixedStays, ChainMoves
<1>d. \A h \in 1..fixed : chain[h].slot \in Nat
  BY <1>a, <1>c, BlockTyped
<1>1. ChainSound'
  BY <1>a, FixedStays, BlocksKeep DEF ChainSound
<1>2. TipLow'
  BY <1>b, <1>c DEF DInv, CallStands, TipLow, IInv, TypeOK, CallTypeOK
<1>3. PassStands'
  BY <1>b DEF DInv, CallStands, PassStands, BlockUnder
<1>4. InfoStands'
  <2> SUFFICES ASSUME pc \in {"retip", "canonical"}
               PROVE  /\ info.height \in Heights /\ info.hash \in 0..(forks')
                      /\ HashAt(info.height)' = -1 => info.hash < forks'
                      /\ HashAt(info.height)' # -1 => HashAt(info.height)' >= info.hash
                      /\ HashAt(info.height)' = info.hash =>
                           chain'[info.height].tx = cur /\ chain'[info.height].valid = info.valid
    BY <1>b DEF InfoStands
  <2> DEFINE h == info.height
             was == IF h \in 1..Height THEN chain[h].hash ELSE -1
             is == IF h \in 1..(Height') THEN chain'[h].hash ELSE -1
  <2>1. /\ h \in Heights /\ h \in Nat \ {0} /\ info.hash \in 0..forks /\ info.hash \in Nat
        /\ was = -1 => info.hash < forks
        /\ was # -1 => was >= info.hash
        /\ was = info.hash => chain[h].tx = cur /\ chain[h].valid = info.valid
    BY <1>a DEF DInv, CallStands, InfoStands, HashAt, Heights
  <2>2. forks \in Nat /\ forks' \in Nat /\ forks' >= forks
    BY <1>a, ChainMoves
  <2>3. HashAt(h)' = is
    BY <1>b DEF HashAt
  <2>4. CASE h \in 1..Height /\ h \in 1..(Height')
    <3>1. chain'[h] = chain[h] /\ is = was /\ chain[h].hash \in Nat
      BY <1>a, <1>c, <2>4, ChainMoves DEF BlocksSound
    <3> QED BY <2>1, <2>2, <2>3, <2>4, <3>1
  <2>5. CASE h \notin 1..Height /\ h \in 1..(Height')
    <3>1. h = Height + 1 /\ chain'[h].hash = forks /\ forks' = forks
      BY <1>a, <1>c, <2>1, <2>5, ChainMoves
    <3> QED BY <2>1, <2>2, <2>3, <2>5, <3>1
  <2>6. CASE h \notin 1..(Height')
    <3>1. h \in 1..Height => forks' = forks + 1
      BY <1>a, <1>c, <2>6, ChainMoves
    <3> QED BY <2>1, <2>2, <2>3, <2>6, <3>1
  <2> HIDE DEF is, was
  <2> QED BY <2>1, <2>4, <2>5, <2>6
<1>5. RecordStands'
  BY <1>b, <1>c DEF DInv, CallStands, RecordStands, Rests, InclusionPoint
<1>6. AnchorStands'
  <2> SUFFICES ASSUME pc \in {"states", "proof", "absent", "again"} PROVE AnchorStands'
    BY <1>b DEF AnchorStands
  <2>1. /\ Rests(seen) /\ chain[seen.height].slot >= Expires[cur]
        /\ seen.height + Confirmations <= fixed + MaxReorg + 1
        /\ seen.height \in Nat
    BY <1>a DEF DInv, CallStands, AnchorStands, IInv, TypeOK, CallTypeOK, Points
  <2> QED BY <1>b, <1>c, <2>1 DEF AnchorStands, Rests
<1>7. AbsenceStands'
  <2> SUFFICES ASSUME pc = "again" PROVE ~ OnChain(cur)'
    BY <1>b DEF AbsenceStands
  <2>1. cur \in Txs /\ ~ OnChain(cur) /\ Rests(seen) /\ chain[seen.height].slot >= Expires[cur]
    BY <1>a DEF DInv, CallStands, AnchorStands, AbsenceStands, IInv, WireMatches
  <2>2. \A t \in Txs : ~ OnChain(t) /\ (\E k \in 1..fixed : chain[k].slot >= Expires[t]) => ~ OnChain(t)'
    BY <1>a, ExpiredStaysOff
  <2>3. OnChain(cur)' <=> InclusionHeights(cur)' # {}
    BY DEF OnChain
  <2> QED BY <1>b, <2>1, <2>2 DEF Rests, OnChain, InclusionHeights
<1>8. RowsRest'
  <2> SUFFICES ASSUME NEW i \in Intents PROVE RowRests(i)'
    BY DEF RowsRest
  <2>1. RowRests(i) /\ i \in Txs
    BY DEF DInv, RowsRest
  <2>2. ASSUME status[i] \in {"expired", "conflicted"} PROVE ~ OnChain(i)'
    BY <1>a, <2>1, <2>2, ExpiredStaysOff DEF RowRests, Rests
  <2> QED BY <1>b, <1>c, <1>d, <2>1, <2>2 DEF RowRests, Rests
<1> QED BY <1>a, <1>1, <1>2, <1>3, <1>4, <1>5, <1>6, <1>7, <1>8 DEF DInv, CallStands

----------------------------------------------------------------------------
(* The journal's rows, on a chain that does not move.                      *)

\* The blocks stay sound when the network receives another transaction.
LEMMA ChainSoundStays ==
  ASSUME ChainSound, UNCHANGED <<chain, forks, fixed>>, wire \subseteq wire'
  PROVE  ChainSound'
BY DEF ChainSound, FixedBelow, BlocksSound, Height

\* Rows that are not written stay as they are.
LEMMA RowsSame ==
  ASSUME RowsRest, UNCHANGED <<chain, fixed, status, holder, block, anchor>>
  PROVE  RowsRest'
BY DEF RowsRest, RowRests, Rests, OnChain, InclusionHeights, Height

\* A method that writes one row takes nothing another intent holds.
LEMMA RowMoves ==
  ASSUME IInv, RowsRest, UNCHANGED <<chain, fixed>>, NEW i \in Intents,
         \A j \in Intents \ {i} : status'[j] = status[j] /\ block'[j] = block[j] /\ anchor'[j] = anchor[j],
         \A r \in Refs : holder[r] \notin {i, Nobody} => holder'[r] = holder[r],
         RowRests(i)'
  PROVE  RowsRest'
<1> SUFFICES ASSUME NEW j \in Intents \ {i} PROVE RowRests(j)'
  BY DEF RowsRest
<1>1. RowRests(j) /\ j \notin {i, Nobody} /\ Roles(j) \subseteq Refs /\ Spends[j] \subseteq Roles(j)
  BY CandidateAssumption, JournalAssumption DEF RowsRest, Roles, Txs
<1>2. \A r \in Roles(j) : holder[r] = j => holder'[r] = j
  BY <1>1
<1>3. \A r \in Spends[j] : holder[r] = j => holder'[r] = j
  BY <1>1, <1>2
<1> QED BY <1>1, <1>2, <1>3 DEF RowRests, Rests, OnChain, InclusionHeights, Height

\* A candidate that stays undone keeps what it holds.
LEMMA StaysUndone ==
  ASSUME IInv, RowsRest, NEW i \in Intents, status[i] \in Undone, NEW s \in Undone,
         status' = [status EXCEPT ![i] = s], UNCHANGED <<chain, fixed, holder, anchor>>,
         \A j \in Intents \ {i} : block'[j] = block[j]
  PROVE  RowsRest'
<1>1. \A j \in Intents : status'[j] = IF j = i THEN s ELSE status[j]
  BY DEF IInv, TypeOK, JournalTypeOK
<1>2. RowRests(i)'
  BY <1>1 DEF RowsRest, RowRests, Undone
<1> QED BY <1>1, <1>2, RowMoves

\* prepare_candidate reserves every role.
LEMMA PrepareRests ==
  ASSUME IInv, RowsRest, UNCHANGED <<chain, fixed>>, NEW i \in Intents, PrepareCandidate(i)
  PROVE  RowsRest'
<1>1. CASE UNCHANGED journalVars
  BY <1>1, RowsSame DEF journalVars
<1>2. CASE /\ \A r \in Roles(i) : holder[r] = Nobody
           /\ status' = [status EXCEPT ![i] = "prepared"]
           /\ holder' = [r \in Refs |-> IF r \in Roles(i) THEN i ELSE holder[r]]
           /\ UNCHANGED <<signed, attempts, block, anchor, incident, control>>
  <2>1. \A j \in Intents : status'[j] = IF j = i THEN "prepared" ELSE status[j]
    BY <1>2 DEF IInv, TypeOK, JournalTypeOK
  <2>2. Roles(i) \subseteq Refs
    BY CandidateAssumption DEF Roles, Txs
  <2>3. RowRests(i)'
    BY <1>2, <2>1, <2>2 DEF RowRests, Undone
  <2>4. \A r \in Refs : holder[r] \notin {i, Nobody} => holder'[r] = holder[r]
    BY <1>2
  <2> QED BY <1>2, <2>1, <2>3, <2>4, RowMoves
<1> QED BY <1>1, <1>2 DEF PrepareCandidate

\* abandon_unsigned gives up a row of which nothing is asked any more.
LEMMA AbandonRests ==
  ASSUME IInv, RowsRest, UNCHANGED <<chain, fixed>>, NEW i \in Intents, AbandonUnsigned(i)
  PROVE  RowsRest'
<1>1. \A j \in Intents : status'[j] = IF j = i THEN "aborted" ELSE status[j]
  BY DEF AbandonUnsigned, IInv, TypeOK, JournalTypeOK
<1>2. RowRests(i)'
  BY <1>1 DEF RowRests, Undone
<1>3. \A r \in Refs : holder[r] \notin {i, Nobody} => holder'[r] = holder[r]
  BY DEF AbandonUnsigned, Release
<1> QED BY <1>1, <1>2, <1>3, RowMoves DEF AbandonUnsigned

\* record_inclusion in a block that stays, once it counts as confirmed.
LEMMA InclusionRests ==
  ASSUME IInv, RowsRest, UNCHANGED <<chain, fixed>>, NEW i \in Intents, status[i] \in Undone,
         NEW point, NEW confirmed \in BOOLEAN, RecordInclusion(i, point, confirmed),
         confirmed => Rests(point) /\ chain[point.height].tx = i /\ chain[point.height].valid
  PROVE  RowsRest'
<1> USE DEF RecordInclusion
<1>1. CASE ~ confirmed
  <2>1. \A j \in Intents \ {i} : block'[j] = block[j]
    BY DEF IInv, TypeOK, JournalTypeOK
  <2> QED BY <1>1, <2>1, StaysUndone DEF Undone
<1>2. CASE confirmed
  <2>1. \A j \in Intents : /\ status'[j] = IF j = i THEN "confirmed" ELSE status[j]
                           /\ block'[j] = IF j = i THEN point ELSE block[j]
    BY <1>2 DEF IInv, TypeOK, JournalTypeOK
  <2>2. /\ Roles(i) \subseteq Refs /\ Spends[i] \subseteq Roles(i) /\ Spends[i] \cap Pledges[i] = {}
        /\ \A r \in Roles(i) : holder[r] = i
    BY CandidateAssumption DEF Roles, Txs, RowsRest, RowRests
  <2>3. \A r \in Spends[i] : holder'[r] = i
    BY <1>2, <2>2 DEF Reserve
  <2>4. RowRests(i)'
    BY <1>2, <2>1, <2>3 DEF RowRests, Rests, Undone
  <2>5. \A r \in Refs : holder[r] \notin {i, Nobody} => holder'[r] = holder[r]
    BY <1>2 DEF Reserve
  <2> QED BY <2>1, <2>4, <2>5, RowMoves
<1> QED BY <1>1, <1>2

\* retire_candidate for a failure in a block that stays.
LEMMA FailureRests ==
  ASSUME IInv, RowsRest, UNCHANGED <<chain, fixed>>, NEW i \in Intents,
         NEW point, RetireFailed(i, point),
         Rests(point), chain[point.height].tx = i, ~ chain[point.height].valid
  PROVE  RowsRest'
<1> USE DEF RetireFailed
<1>1. \A j \in Intents : /\ status'[j] = IF j = i THEN "failed" ELSE status[j]
                         /\ block'[j] = IF j = i THEN point ELSE block[j]
  BY DEF IInv, TypeOK, JournalTypeOK
<1>2. RowRests(i)'
  BY <1>1 DEF RowRests, Rests, Undone
<1>3. \A r \in Refs : holder[r] \notin {i, Nobody} => holder'[r] = holder[r]
  BY DEF Reserve
<1> QED BY <1>1, <1>2, <1>3, RowMoves

\* retire_candidate for one that expired in a block that stays and is not there.
LEMMA ExpiryRests ==
  ASSUME IInv, RowsRest, UNCHANGED <<chain, fixed>>, NEW i \in Intents,
         NEW s, NEW release, NEW point, RetireExpired(i, s, release, point),
         Rests(point), chain[point.height].slot >= Expires[i], ~ OnChain(i)
  PROVE  RowsRest'
<1> USE DEF RetireExpired
<1>1. \A j \in Intents : /\ status'[j] = IF j = i THEN s ELSE status[j]
                         /\ anchor'[j] = IF j = i THEN point ELSE anchor[j]
  BY DEF IInv, TypeOK, JournalTypeOK
<1>2. RowRests(i)'
  BY <1>1 DEF RowRests, Rests, Undone, OnChain, InclusionHeights, Height
<1>3. \A r \in Refs : holder[r] \notin {i, Nobody} => holder'[r] = holder[r]
  BY DEF Release
<1> QED BY <1>1, <1>2, <1>3, RowMoves

----------------------------------------------------------------------------
(* Shapes of a call's steps.                                               *)

\* A call that ends leaves nothing to stand.
LEMMA FinishStands == ASSUME IInv, Finish, fixed' = fixed PROVE CallStands'
<1>1. fixed \in Nat
  BY ChainAssumption DEF IInv, TypeOK, ChainTypeOK, Heights
<1> QED BY <1>1, Numbers DEF Finish, NoTip, CallStands, TipLow, PassStands, InfoStands, RecordStands,
             AnchorStands, AbsenceStands, Visiting, Reconciling

\* Outside a reconciliation there is nothing to stand but the tip.
LEMMA OutsideStands ==
  ASSUME CallStands, pc \notin Reconciling, pc' \notin Reconciling,
         UNCHANGED <<fixed, tip, open, closed, canon>>
  PROVE  CallStands'
BY DEF CallStands, TipLow, PassStands, InfoStands, RecordStands, AnchorStands, AbsenceStands,
       Visiting, Reconciling

\* The entry in hand is done with: the others are as the pass left them.
LEMMA ReturnStands ==
  ASSUME IInv, CallStands, pc \in Visiting, Return, fixed' = fixed,
         \A j \in Intents \ {cur} : status'[j] = status[j]
  PROVE  CallStands'
<1>1. open \subseteq Intents /\ closed \subseteq Intents /\ cur \notin open \cup closed
  BY DEF IInv, TypeOK, CallTypeOK, CallStands, PassStands, Undone
<1> QED BY <1>1 DEF Return, CallStands, TipLow, PassStands, InfoStands, RecordStands, AnchorStands,
             AbsenceStands, Visiting, Reconciling

\* The call goes on with the entry in hand.
LEMMA PassGoesOn ==
  ASSUME IInv, CallStands, pc \in Visiting, pc' \in Visiting,
         UNCHANGED <<fixed, cur, tip, open, closed, canon>>,
         \A j \in Intents \ {cur} : status'[j] = status[j], status'[cur] \in Undone
  PROVE  TipLow' /\ PassStands'
<1>1. open \subseteq Intents /\ closed \subseteq Intents /\ cur \notin open \cup closed
  BY DEF IInv, TypeOK, CallTypeOK, CallStands, PassStands, Undone
<1> QED BY <1>1 DEF CallStands, TipLow, PassStands, Visiting, Reconciling

----------------------------------------------------------------------------
(* The actions.                                                            *)

\* prepare, submit and the operator's commands run outside a pass.
LEMMA PreparationStands ==
  ASSUME DInv, Preparation PROVE ChainSound' /\ CallStands' /\ RowsRest'
<1> USE DEF DInv
<1>1. UNCHANGED chainVars
  BY DEF Preparation, Prepare, Sign
<1>s. ChainSound'
  BY <1>1, ChainSoundStays DEF chainVars
<1>2. ASSUME NEW i \in Intents, Prepare(i) PROVE CallStands' /\ RowsRest'
  <2>1. pc \notin Reconciling /\ pc' \notin Reconciling /\ UNCHANGED <<tip, open, closed, canon>>
    BY <1>2 DEF Prepare, Begin, Reconciling, Visiting
  <2> QED BY <1>s, <1>1, <1>2, <2>1, OutsideStands, PrepareRests DEF Prepare, chainVars
<1>3. CASE Sign
  BY <1>s, <1>1, <1>3, FinishStands, RowsSame DEF Sign, AttachSignature, chainVars
<1> QED BY <1>s, <1>2, <1>3 DEF Preparation, chainVars

\* submit moves an undone candidate between undone statuses.
LEMMA SubmissionStands ==
  ASSUME DInv, Submission PROVE ChainSound' /\ CallStands' /\ RowsRest'
<1> USE DEF DInv
<1>1. UNCHANGED <<chain, forks, fixed>> /\ wire \subseteq wire'
  BY DEF Submission, Submit, RecheckDependencies, Claim, Refuse, RecordSend, Send, chainVars
<1>s. ChainSound'
  BY <1>1, ChainSoundStays
<1>2. CASE Refuse
  BY <1>s, <1>1, <1>2, FinishStands, RowsSame DEF Refuse, journalVars
<1>3. CASE (\E i \in Intents : Submit(i)) \/ RecheckDependencies \/ \E d, a \in BOOLEAN : Send(d, a)
  <2>1. /\ pc \notin Reconciling /\ pc' \notin Reconciling
        /\ UNCHANGED <<tip, open, closed, canon>> /\ UNCHANGED journalVars
    BY <1>3 DEF Submit, RecheckDependencies, Send, Begin, Goto, Reconciling, Visiting
  <2> QED BY <1>s, <1>1, <2>1, OutsideStands, RowsSame DEF journalVars
<1>4. CASE Claim
  <2>1. pc \notin Reconciling /\ pc' \notin Reconciling /\ UNCHANGED <<tip, open, closed, canon>>
    BY <1>4 DEF Claim, Goto, Reconciling, Visiting
  <2>2. cur \in Intents /\ status[cur] = "prepared" /\ status' = [status EXCEPT ![cur] = "submitting"]
    BY <1>4 DEF Claim, ClaimSubmission, Claimable, IInv, WireMatches
  <2>3. UNCHANGED <<holder, block, anchor>>
    BY <1>4 DEF Claim, ClaimSubmission
  <2> QED BY <1>s, <1>1, <2>1, <2>2, <2>3, OutsideStands, StaysUndone DEF Undone
<1>5. CASE RecordSend
  <2>1. cur \in Intents /\ status[cur] = "submitting"
    BY <1>5 DEF RecordSend, IInv, WireMatches
  <2>2. \E s \in Undone : status' = [status EXCEPT ![cur] = s]
    BY <1>5 DEF RecordSend, MarkTransaction, Undone
  <2>3. UNCHANGED <<holder, block, anchor>>
    BY <1>5 DEF RecordSend, MarkTransaction
  <2> QED BY <1>s, <1>1, <1>5, <2>1, <2>2, <2>3, FinishStands, StaysUndone DEF RecordSend, Undone
<1> QED BY <1>s, <1>2, <1>3, <1>4, <1>5 DEF Submission

\* The commands leave the call, and stop the rows, alone.
LEMMA OperatorStands ==
  ASSUME DInv, Operator PROVE ChainSound' /\ CallStands' /\ RowsRest'
<1> USE DEF DInv
<1>1. UNCHANGED <<chainVars, callVars>>
  BY DEF Operator, Abandon, Acknowledge, Start, Stop
<1>s. ChainSound'
  BY <1>1, ChainSoundStays DEF chainVars
<1>2. ASSUME NEW i \in Intents, Abandon(i) PROVE CallStands' /\ RowsRest'
  <2>1. pc \notin Reconciling /\ pc' \notin Reconciling
    BY <1>1, <1>2 DEF Abandon, callVars, Reconciling, Visiting
  <2> QED BY <1>s, <1>1, <1>2, <2>1, OutsideStands, AbandonRests DEF Abandon, chainVars, callVars
<1>3. CASE (\E i \in Intents : Acknowledge(i)) \/ Start \/ Stop
  <2>1. UNCHANGED <<status, holder, block, anchor>>
    BY <1>3 DEF Acknowledge, AcknowledgeIncident, Start, StartRun, Stop, RequestStop
  <2>2. CallStands'
    BY <1>1, <2>1 DEF CallStands, TipLow, PassStands, InfoStands, RecordStands, AnchorStands,
       AbsenceStands, BlockUnder, InclusionPoint, Rests, OnChain, InclusionHeights, HashAt, Height,
       chainVars, callVars
  <2> QED BY <1>s, <1>1, <2>1, <2>2, RowsSame DEF chainVars
<1> QED BY <1>s, <1>2, <1>3 DEF Operator, chainVars

\* A pass starts on rows as they are, and asks for blocks that are there.
LEMMA PassStarts ==
  ASSUME DInv, \/ ReconcileAll \/ ReadBlocks \/ PassDone
               \/ \E i \in Intents : \/ ReconcileOne(i) \/ Visit(i)
                                     \/ VisitSettled(i) \/ VisitUnproved(i)
  PROVE  ChainSound' /\ CallStands' /\ RowsRest'
<1> USE DEF DInv
<1>1. UNCHANGED chainVars /\ UNCHANGED journalVars
  BY DEF ReconcileAll, ReadBlocks, PassDone, ReconcileOne, Visit, VisitSettled, VisitUnproved
<1>2. ChainSound' /\ RowsRest'
  BY <1>1, ChainSoundStays, RowsSame DEF chainVars, journalVars
<1>3. fixed \in Nat /\ fixed' = fixed /\ status' = status /\ status \in [Intents -> Statuses]
  BY <1>1, ChainAssumption DEF chainVars, journalVars, IInv, TypeOK, ChainTypeOK, JournalTypeOK, Heights
<1>4. CASE ReconcileAll
  <2>1. CurrentTip.height <= fixed + MaxReorg
    BY DEF ChainSound, FixedBelow, CurrentTip
  <2> QED BY <1>2, <1>3, <1>4, <2>1
      DEF ReconcileAll, CallStands, TipLow, PassStands, InfoStands, RecordStands,
          AnchorStands, AbsenceStands, Visiting, Reconciling, Undone
<1>5. ASSUME NEW i \in Intents, ReconcileOne(i) PROVE CallStands'
  <2>1. CurrentTip.height <= fixed + MaxReorg
    BY DEF ChainSound, FixedBelow, CurrentTip
  <2>2. \A j \in open' : status[j] \in Undone
    BY <1>3, <1>5 DEF ReconcileOne, Undone
  <2>3. \A j \in closed' : status[j] \in Terminal
    BY <1>3, <1>5 DEF ReconcileOne
  <2> QED BY <1>3, <1>5, <2>1, <2>2, <2>3
      DEF ReconcileOne, CallStands, TipLow, PassStands, InfoStands, RecordStands,
          AnchorStands, AbsenceStands, Visiting, Reconciling
<1>6. ASSUME NEW i \in Intents, Visit(i) PROVE CallStands'
  BY <1>3, <1>6 DEF Visit, CallStands, TipLow, PassStands, InfoStands, RecordStands,
     AnchorStands, AbsenceStands, Visiting, Reconciling
<1>7. CASE ReadBlocks
  <2>1. CASE closed = {}
    BY <1>2, <1>3, <1>7, <2>1, FinishStands DEF ReadBlocks
  <2>2. CASE closed # {}
    <3>1. \A i \in closed : i \in Intents /\ status[i] \in Terminal
      BY DEF IInv, TypeOK, CallTypeOK, CallStands, PassStands
    <3>2. \A i \in closed : Rests(BlockUnder(i))
      BY <3>1 DEF RowsRest, RowRests, BlockUnder
    <3>3. \A i \in closed : HashAt(BlockUnder(i).height) = BlockUnder(i).hash
      <4>1. Height \in Nat /\ fixed <= Height
        BY TipTyped DEF IInv, TypeOK, ChainSound, FixedBelow
      <4> QED BY <1>3, <3>2, <4>1 DEF Rests, HashAt
    <3>4. \A i \in closed : canon'[i] = BlockUnder(i)'.hash
      BY <1>1, <1>7, <2>2, <3>1, <3>3 DEF ReadBlocks, BlockUnder, journalVars
    <3> QED BY <1>2, <1>3, <1>7, <2>2, <3>4
        DEF ReadBlocks, CallStands, TipLow, PassStands, InfoStands, RecordStands,
            AnchorStands, AbsenceStands, Visiting, Reconciling
  <2> QED BY <1>2, <2>1, <2>2
<1>8. CASE PassDone \/ \E i \in Intents : VisitUnproved(i)
  BY <1>2, <1>3, <1>8, FinishStands DEF PassDone, VisitUnproved
<1>9. ASSUME NEW i \in Intents, VisitSettled(i) PROVE CallStands'
  BY <1>1, <1>9 DEF VisitSettled, CallStands, TipLow, PassStands, InfoStands, RecordStands,
     AnchorStands, AbsenceStands, Visiting, Reconciling, BlockUnder, chainVars, journalVars
<1> QED BY <1>2, <1>4, <1>5, <1>6, <1>7, <1>8, <1>9

\* No block under a terminal row is ever replaced.
LEMMA NeverReplaced == ASSUME DInv, NEW i \in Intents PROVE ~ VisitReplaced(i)
BY DEF DInv, VisitReplaced, CallStands, PassStands

\* reconcile reads where the transaction is and what the tip is.
LEMMA InclusionRead ==
  ASSUME DInv, TransactionFound \/ RefreshTip
  PROVE  ChainSound' /\ CallStands' /\ RowsRest'
<1> USE DEF DInv
<1>1. UNCHANGED chainVars /\ UNCHANGED journalVars /\ cur' = cur /\ cur \in Intents
  BY DEF TransactionFound, RefreshTip, IInv, WireMatches
<1>2. ChainSound' /\ RowsRest'
  BY <1>1, ChainSoundStays, RowsSame DEF chainVars, journalVars
<1>3. Height \in Nat /\ Height \in Heights /\ forks \in Nat /\ status' = status
  BY <1>1, TipTyped DEF journalVars, IInv, TypeOK, ChainTypeOK, Height
<1>4. CASE TransactionFound
  <2>1. PICK h \in 1..Height : InclusionOf(cur) = [height |-> h, hash |-> chain[h].hash, valid |-> chain[h].valid]
                               /\ chain[h].tx = cur
    BY <1>4 DEF TransactionFound, OnChain, InclusionHeights, InclusionOf
  <2>2. /\ info'.height = h /\ info'.hash = chain[h].hash /\ info'.valid = chain[h].valid
        /\ pc' \in {"retip", "canonical"} /\ pc \in Visiting /\ pc' \in Visiting
        /\ UNCHANGED <<cur, tip, open, closed, canon>>
    BY <1>4, <2>1 DEF TransactionFound, Visiting
  <2>3. h \in Heights /\ chain[h].hash \in 0..forks /\ chain[h].hash \in Nat
    BY <1>3, Numbers DEF ChainSound, BlocksSound, Heights
  <2>4. TipLow' /\ PassStands'
    BY <1>1, <2>2, PassGoesOn DEF chainVars, journalVars, CallStands, PassStands
  <2>5. InfoStands'
    BY <1>1, <2>1, <2>2, <2>3 DEF InfoStands, HashAt, Height, chainVars
  <2> QED BY <1>2, <2>2, <2>4, <2>5 DEF CallStands, RecordStands, AnchorStands, AbsenceStands
<1>5. CASE RefreshTip
  <2>1. /\ pc = "retip" /\ pc' = "canonical" /\ tip' = CurrentTip
        /\ UNCHANGED <<info, cur, open, closed, canon>>
    BY <1>5 DEF RefreshTip
  <2>2. TipLow'
    BY <1>1, <2>1 DEF TipLow, CurrentTip, ChainSound, FixedBelow, chainVars
  <2>3. PassStands'
    BY <1>1, <2>1 DEF PassStands, CallStands, Visiting, Reconciling, journalVars
  <2>4. InfoStands'
    BY <1>1, <2>1 DEF InfoStands, CallStands, HashAt, Height, chainVars
  <2> QED BY <1>2, <2>1, <2>2, <2>3, <2>4 DEF CallStands, RecordStands, AnchorStands, AbsenceStands
<1> QED BY <1>4, <1>5

\* A block read back under the pass's tip stays if it is deep enough there.
LEMMA InclusionChecked ==
  ASSUME DInv, CheckInclusion PROVE ChainSound' /\ CallStands' /\ RowsRest'
<1> USE DEF DInv
<1>1. UNCHANGED chainVars /\ cur \in Intents /\ pc = "canonical" /\ status[cur] \in Undone
  BY DEF CheckInclusion, IInv, WireMatches, CallStands, PassStands, Visiting
<1>2. ChainSound'
  BY <1>1, ChainSoundStays DEF chainVars
<1>3. CASE Finish /\ UNCHANGED journalVars
  BY <1>1, <1>2, <1>3, FinishStands, RowsSame DEF chainVars, journalVars
<1>4. CASE /\ HashAt(info.height) = info.hash /\ info.height <= tip.height
           /\ Goto("record") /\ (UNCHANGED journalVars \/ RecordRollback(cur))
  <2>1. \E s \in Undone : /\ status' = [status EXCEPT ![cur] = s]
                          /\ UNCHANGED <<holder, block, anchor>>
    <3>1. CASE UNCHANGED journalVars
      BY <1>1, <3>1 DEF journalVars, IInv, TypeOK, JournalTypeOK
    <3>2. CASE RecordRollback(cur)
      BY <3>2 DEF RecordRollback, Undone
    <3> QED BY <1>4, <3>1, <3>2
  <2>2. RowsRest'
    BY <1>1, <2>1, StaysUndone DEF chainVars
  <2>3. pc' = "record" /\ pc \in Visiting /\ pc' \in Visiting /\ UNCHANGED <<cur, tip, info, open, closed, canon>>
    BY <1>1, <1>4 DEF Goto, Visiting
  <2>4. TipLow' /\ PassStands'
    <3>1. (\A j \in Intents \ {cur} : status'[j] = status[j]) /\ status'[cur] \in Undone
      BY <1>1, <2>1 DEF IInv, TypeOK, JournalTypeOK
    <3> QED BY <1>1, <2>3, <3>1, PassGoesOn DEF chainVars
  <2>5. RecordStands'
    <3>1. /\ info.height \in Heights /\ info.height \in Nat \ {0} /\ info.hash \in Nat
          /\ tip.height \in Nat /\ tip.height <= fixed + MaxReorg /\ fixed \in Nat
      BY <1>1, ChainAssumption DEF CallStands, InfoStands, TipLow, IInv, TypeOK, CallTypeOK, ChainTypeOK, Heights
    <3>2. chain[info.height].tx = cur /\ chain[info.height].valid = info.valid /\ info.height \in 1..Height
          /\ chain[info.height].hash = info.hash
      BY <1>1, <1>4, <3>1 DEF CallStands, InfoStands, HashAt
    <3>3. info.height + MaxReorg <= tip.height => info.height \in 1..fixed
      BY <3>1, Numbers
    <3> QED BY <1>1, <2>3, <3>2, <3>3 DEF RecordStands, Rests, InclusionPoint, chainVars
  <2> QED BY <1>2, <2>2, <2>3, <2>4, <2>5 DEF CallStands, InfoStands, AnchorStands, AbsenceStands
<1>5. tip.height \in Nat /\ info.height \in Nat
  BY DEF IInv, TypeOK, CallTypeOK
<1> QED BY <1>3, <1>4, <1>5 DEF CheckInclusion

\* What is recorded as confirmed or failed is there for good.
LEMMA InclusionRecorded ==
  ASSUME Shallow, DInv, RecordInfo PROVE ChainSound' /\ CallStands' /\ RowsRest'
<1> USE DEF DInv
<1>1. UNCHANGED chainVars /\ cur \in Intents /\ pc = "record" /\ pc \in Visiting /\ status[cur] \in Undone /\ Return
  BY DEF RecordInfo, IInv, WireMatches, CallStands, PassStands, Visiting
<1>2. ChainSound'
  BY <1>1, ChainSoundStays DEF chainVars
<1> DEFINE confirmed == tip.height - info.height + 1 >= Confirmations
<1>3. confirmed => /\ Rests(InclusionPoint) /\ chain[InclusionPoint.height].tx = cur
                   /\ chain[InclusionPoint.height].valid = info.valid
  <2>1. tip.height \in Nat /\ info.height \in Nat
    BY DEF IInv, TypeOK, CallTypeOK
  <2>2. confirmed => info.height + MaxReorg <= tip.height
    BY <2>1, Numbers DEF Shallow
  <2> QED BY <1>1, <2>2 DEF CallStands, RecordStands, InclusionPoint
<1>4. info.valid \in BOOLEAN /\ confirmed \in BOOLEAN
  BY DEF IInv, TypeOK, CallTypeOK
<1>5. /\ info.valid => RecordInclusion(cur, InclusionPoint, confirmed)
      /\ ~ info.valid => IF confirmed THEN RetireFailed(cur, InclusionPoint) ELSE UNCHANGED journalVars
  BY DEF RecordInfo
<1> HIDE DEF confirmed
<1>6. RowsRest' /\ \A j \in Intents \ {cur} : status'[j] = status[j]
  <2>1. CASE info.valid
    <3>1. RowsRest'
      BY <1>1, <1>3, <1>4, <1>5, <2>1, InclusionRests DEF chainVars
    <3> QED BY <1>1, <1>5, <2>1, <3>1 DEF RecordInclusion, IInv, TypeOK, JournalTypeOK
  <2>2. CASE ~ info.valid /\ confirmed
    <3>1. RowsRest'
      BY <1>1, <1>3, <1>5, <2>2, FailureRests DEF chainVars
    <3> QED BY <1>1, <1>5, <2>2, <3>1 DEF RetireFailed, IInv, TypeOK, JournalTypeOK
  <2>3. CASE ~ info.valid /\ ~ confirmed
    BY <1>1, <1>5, <2>3, RowsSame DEF chainVars, journalVars
  <2> QED BY <1>4, <2>1, <2>2, <2>3
<1> QED BY <1>1, <1>2, <1>6, ReturnStands DEF chainVars

\* A lookup in vain retires nothing by itself.
LEMMA MissingStands ==
  ASSUME DInv, TransactionMissing \/ CheckLostBlock
  PROVE  ChainSound' /\ CallStands' /\ RowsRest'
<1> USE DEF DInv
<1>1. UNCHANGED chainVars /\ cur \in Intents /\ pc \in {"info", "lost"} /\ pc \in Visiting /\ status[cur] \in Undone
  BY DEF TransactionMissing, CheckLostBlock, IInv, WireMatches, CallStands, PassStands, Visiting
<1>2. ChainSound'
  BY <1>1, ChainSoundStays DEF chainVars
<1>3. \E s \in Undone : status' = [status EXCEPT ![cur] = s] /\ UNCHANGED <<holder, block, anchor>>
  <2>1. CASE UNCHANGED journalVars
    BY <1>1, <2>1 DEF journalVars, IInv, TypeOK, JournalTypeOK
  <2>2. CASE MarkTransaction(cur, "unknown")
    BY <2>2 DEF MarkTransaction, Undone
  <2>3. CASE RecordRollback(cur)
    BY <2>3 DEF RecordRollback, Undone
  <2> QED BY <2>1, <2>2, <2>3 DEF TransactionMissing, CheckLostBlock
<1>4. RowsRest'
  BY <1>1, <1>3, StaysUndone DEF chainVars
<1>5. (\A j \in Intents \ {cur} : status'[j] = status[j]) /\ status'[cur] \in Undone
  BY <1>1, <1>3 DEF IInv, TypeOK, JournalTypeOK
<1>6. Return \/ Goto("anchor") \/ Goto("lost")
  BY DEF TransactionMissing, CheckLostBlock, CheckExpiry
<1>7. CASE Return
  BY <1>1, <1>2, <1>4, <1>5, <1>7, ReturnStands DEF chainVars
<1>8. CASE Goto("anchor") \/ Goto("lost")
  <2>1. pc' \in {"anchor", "lost"} /\ pc' \in Visiting /\ UNCHANGED <<cur, tip, open, closed, canon>>
    BY <1>8 DEF Goto, Visiting
  <2>2. TipLow' /\ PassStands'
    BY <1>1, <1>5, <2>1, PassGoesOn DEF chainVars
  <2> QED BY <1>2, <1>4, <2>1, <2>2 DEF CallStands, InfoStands, RecordStands, AnchorStands, AbsenceStands
<1> QED BY <1>6, <1>7, <1>8

\* The anchor of a retirement is a block that stays, and after it there is no
\* room for the candidate: what a second look may miss would lie above it.
LEMMA ExpiryStands ==
  ASSUME Shallow, DInv, ReadAnchor \/ ReadInputStates \/ FindSpender \/ \E found \in BOOLEAN : LookAgain(found)
  PROVE  ChainSound' /\ CallStands' /\ RowsRest'
<1> USE DEF DInv
<1>1. /\ UNCHANGED chainVars /\ UNCHANGED journalVars /\ cur \in Intents /\ pc \in Visiting /\ status[cur] \in Undone
      /\ pc \in {"anchor", "states", "proof", "absent"}
  BY DEF ReadAnchor, ReadInputStates, FindSpender, LookAgain, IInv, WireMatches, CallStands, PassStands, Visiting
<1>2. ChainSound' /\ RowsRest'
  BY <1>1, ChainSoundStays, RowsSame DEF chainVars, journalVars
<1>3. CASE Return
  BY <1>1, <1>2, <1>3, ReturnStands DEF chainVars, journalVars
<1>n. /\ Height \in Nat /\ fixed \in Nat \ {0} /\ tip.height \in Nat /\ fixed <= Height /\ Height <= fixed + MaxReorg
      /\ tip.height <= fixed + MaxReorg
  BY TipTyped, ChainAssumption DEF IInv, TypeOK, ChainTypeOK, CallTypeOK, Heights, ChainSound, FixedBelow,
     CallStands, TipLow
<1>4. ASSUME pc' \in {"states", "proof", "absent", "again"}, UNCHANGED <<cur, tip, open, closed, canon>>,
             AnchorStands', AbsenceStands'
      PROVE  ChainSound' /\ CallStands' /\ RowsRest'
  <2>1. TipLow' /\ PassStands'
    BY <1>1, <1>4, PassGoesOn DEF Visiting, chainVars, journalVars
  <2> QED BY <1>2, <1>4, <2>1 DEF CallStands, InfoStands, RecordStands
<1>5. CASE ReadAnchor /\ ~ Return
  <2> DEFINE h == tip.height - Confirmations + 1
  <2>1. /\ HashAt(h) # -1 /\ chain[h].slot >= Expires[cur]
        /\ seen' = [height |-> h, hash |-> chain[h].hash]
        /\ pc' = "states" /\ UNCHANGED <<cur, tip, info, spent, open, closed, canon>>
    BY <1>5 DEF ReadAnchor
  <2>2. h \in 1..Height
    BY <2>1 DEF HashAt
  <2>3. h \in 1..fixed /\ h + Confirmations <= fixed + MaxReorg + 1
    BY <1>n, <2>2, Numbers DEF Shallow
  <2>4. AnchorStands' /\ AbsenceStands'
    BY <1>1, <2>1, <2>3 DEF AnchorStands, AbsenceStands, Rests, chainVars
  <2> QED BY <1>4, <2>1, <2>4
<1>6. CASE (ReadInputStates \/ FindSpender) /\ ~ Return
  <2>1. pc' \in {"absent", "proof"} /\ UNCHANGED <<cur, tip, seen, open, closed, canon>> /\ pc \in {"states", "proof"}
    BY <1>6 DEF ReadInputStates, FindSpender, Goto
  <2>2. AnchorStands' /\ AbsenceStands'
    BY <1>1, <2>1 DEF CallStands, AnchorStands, AbsenceStands, Rests, chainVars
  <2> QED BY <1>4, <2>1, <2>2
<1>7. CASE (\E found \in BOOLEAN : LookAgain(found)) /\ ~ Return
  <2>1. pc' = "again" /\ UNCHANGED <<cur, tip, seen, open, closed, canon>> /\ pc = "absent" /\ LookedUpInVain(cur)
    BY <1>7 DEF LookAgain, Goto
  <2>2. /\ Rests(seen) /\ chain[seen.height].slot >= Expires[cur]
        /\ seen.height + Confirmations <= fixed + MaxReorg + 1
    BY <2>1 DEF CallStands, AnchorStands
  <2>3. ~ OnChain(cur)
    <3> SUFFICES ASSUME NEW k \in 1..Height, chain[k].tx = cur PROVE FALSE
      BY DEF OnChain, InclusionHeights
    <3>1. Height - k < Lag
      BY <2>1 DEF LookedUpInVain, InclusionHeights
    <3>2. seen.height \in 1..Height /\ k >= seen.height
      BY <1>n, <2>2, <3>1, Numbers DEF Shallow, Rests
    <3>3. k = seen.height \/ chain[seen.height].slot < chain[k].slot
      BY <3>2 DEF ChainSound, BlocksSound
    <3>4. chain[k].slot < Expires[cur] /\ cur \in Txs
      BY <1>1, Numbers DEF ChainSound, BlocksSound
    <3>5. chain[k].slot \in Nat /\ chain[seen.height].slot \in Nat /\ Expires[cur] \in Nat
      BY <3>2, <3>4, BlockTyped, Numbers DEF IInv, TypeOK
    <3> QED BY <2>2, <3>3, <3>4, <3>5
  <2>4. AnchorStands' /\ AbsenceStands'
    BY <1>1, <2>1, <2>2, <2>3 DEF AnchorStands, AbsenceStands, Rests, chainVars, OnChain, InclusionHeights, Height
  <2> QED BY <1>4, <2>1, <2>4
<1> QED BY <1>3, <1>5, <1>6, <1>7

\* The retirement rests on what the call has seen.
LEMMA RetireStands ==
  ASSUME DInv, Retire PROVE ChainSound' /\ CallStands' /\ RowsRest'
<1> USE DEF DInv
<1>1. UNCHANGED chainVars /\ cur \in Intents /\ pc = "again" /\ pc \in Visiting
  BY DEF Retire, IInv, WireMatches, Visiting
<1>2. ChainSound'
  BY <1>1, ChainSoundStays DEF chainVars
<1>3. CASE Finish /\ UNCHANGED journalVars
  BY <1>1, <1>2, <1>3, FinishStands, RowsSame DEF chainVars, journalVars
<1>4. CASE /\ RetireExpired(cur, IF spent = {} THEN "expired" ELSE "conflicted", Roles(cur) \ spent, seen)
           /\ Return
  <2>1. Rests(seen) /\ chain[seen.height].slot >= Expires[cur] /\ ~ OnChain(cur)
    BY <1>1 DEF CallStands, AnchorStands, AbsenceStands
  <2>2. RowsRest'
    BY <1>1, <1>4, <2>1, ExpiryRests DEF chainVars
  <2>3. \A j \in Intents \ {cur} : status'[j] = status[j]
    BY <1>1, <1>4 DEF RetireExpired, IInv, TypeOK, JournalTypeOK
  <2> QED BY <1>1, <1>2, <1>4, <2>2, <2>3, ReturnStands DEF chainVars
<1> QED BY <1>3, <1>4 DEF Retire

----------------------------------------------------------------------------
(* The theorems.                                                           *)

\* The invariant holds at the start.
LEMMA InitDInv == Init => DInv
<1> SUFFICES ASSUME Init PROVE DInv
  OBVIOUS
<1>1. Height = 1 /\ chain[1] = [hash |-> 0, slot |-> 1, tx |-> NoTx, valid |-> TRUE] /\ fixed = 1 /\ forks = 0
  BY DEF Init, ChainInit, Height
<1>2. ChainSound
  BY <1>1, Numbers DEF ChainSound, FixedBelow, BlocksSound
<1>3. CallStands
  BY <1>1, Numbers DEF Init, NoTip, CallStands, TipLow, PassStands, InfoStands, RecordStands,
     AnchorStands, AbsenceStands, Visiting, Reconciling
<1>4. RowsRest
  BY DEF Init, JournalInit, RowsRest, RowRests, Undone
<1> QED BY <1>2, <1>3, <1>4, InitIInv DEF DInv

\* Every step keeps it.
LEMMA NextDInv == ASSUME Shallow PROVE DInv /\ [Next]_vars => DInv'
<1> SUFFICES ASSUME DInv, [Next]_vars PROVE DInv'
  OBVIOUS
<1>1. IInv'
  BY NextIInv DEF DInv
<1>2. CASE Environment
  BY <1>2, EnvironmentStands
<1>3. CASE Preparation \/ Submission \/ Operator
  BY <1>1, <1>3, PreparationStands, SubmissionStands, OperatorStands DEF DInv
<1>4. CASE Reconciliation
  BY <1>1, <1>4, PassStarts, NeverReplaced, InclusionRead, InclusionChecked, InclusionRecorded,
     MissingStands, ExpiryStands, RetireStands DEF DInv, Reconciliation
<1>5. CASE Interrupt
  <2>1. ChainSound' /\ RowsRest'
    BY <1>5, ChainSoundStays, RowsSame DEF DInv, Interrupt, chainVars, journalVars
  <2> QED BY <1>1, <1>5, <2>1, FinishStands DEF DInv, Interrupt, chainVars
<1>6. CASE UNCHANGED vars
  BY <1>1, <1>6 DEF DInv, ChainSound, FixedBelow, BlocksSound, CallStands, TipLow, PassStands, InfoStands,
     RecordStands, AnchorStands, AbsenceStands, RowsRest, RowRests, BlockUnder, InclusionPoint, Rests,
     OnChain, InclusionHeights, HashAt, Height, vars, chainVars, journalVars, callVars
<1> QED BY <1>2, <1>3, <1>4, <1>5, <1>6 DEF Next

\* Under shallow roll-backs the call's knowledge and the journal's rows agree
\* with the part of the chain that stays, in every reachable state.
THEOREM DepthInvariant == ASSUME Shallow PROVE Spec => []DInv
BY InitDInv, NextDInv, PTL DEF Spec

\* A candidate that is retired has expired where no roll-back reaches.
LEMMA RetiredCannotLand ==
  ASSUME DInv, NEW i \in Intents, status[i] \in {"expired", "conflicted"}
  PROVE  ~ OnChain(i) /\ ~ CanLand(i)
<1>1. ~ OnChain(i) /\ Rests(anchor[i]) /\ chain[anchor[i].height].slot >= Expires[i] /\ i \in Txs
  BY Numbers DEF DInv, RowsRest, RowRests
<1>2. fixed \in 1..Height /\ Height \in Nat
  BY TipTyped, ChainAssumption DEF DInv, ChainSound, FixedBelow, IInv, TypeOK, ChainTypeOK, Heights
<1>3. anchor[i].height \in 1..Height /\ anchor[i].height <= fixed
  BY <1>1, <1>2 DEF Rests
<1>4. anchor[i].height = fixed \/ chain[anchor[i].height].slot < chain[fixed].slot
  BY <1>2, <1>3 DEF DInv, ChainSound, BlocksSound
<1>5. chain[anchor[i].height].slot \in Nat /\ chain[fixed].slot \in Nat /\ Expires[i] \in Nat
  BY <1>1, <1>2, <1>3, BlockTyped, Numbers DEF DInv, IInv, TypeOK
<1> QED BY <1>1, <1>4, <1>5 DEF CanLand

\* A terminal status is the truth for good: what is confirmed or failed is so
\* in a block that stays, what is retired or abandoned can never land.
THEOREM TerminalFinal == ASSUME Shallow PROVE Spec => []TerminalIsFinal
<1>1. DInv => TerminalIsFinal
  <2> SUFFICES ASSUME DInv, NEW i \in Intents
               PROVE  /\ status[i] = "confirmed" => \E h \in 1..fixed : chain[h].tx = i /\ chain[h].valid
                      /\ status[i] = "failed" => \E h \in 1..fixed : chain[h].tx = i /\ ~ chain[h].valid
                      /\ status[i] \in {"expired", "conflicted", "aborted"} => ~ OnChain(i) /\ ~ CanLand(i)
    BY DEF TerminalIsFinal
  <2>1. RowRests(i)
    BY DEF DInv, RowsRest
  <2>2. status[i] = "aborted" => i \notin wire
    BY DEF DInv, IInv, TypeOK, WireMatches, JournalInv, AttemptsMatch, JournalTypeOK
  <2>3. status[i] = "aborted" => ~ OnChain(i) /\ ~ CanLand(i)
    BY <2>2 DEF DInv, ChainSound, BlocksSound, OnChain, InclusionHeights, CanLand
  <2> QED BY <2>1, <2>3, RetiredCannotLand DEF RowRests, Rests
<1> QED BY <1>1, DepthInvariant, PTL

\* What can still land, or is undecided, holds every input and collateral it
\* names: nothing is given back on a timeout, a missed lookup or a block that may yet go.
THEOREM LandableReserved == ASSUME Shallow PROVE Spec => []LandableStaysReserved
<1>1. DInv => LandableStaysReserved
  <2> SUFFICES ASSUME DInv, NEW i \in Intents, CanLand(i) PROVE \A r \in Roles(i) : holder[r] = i
    BY DEF LandableStaysReserved, DInv, IInv, JournalInv, FreshHoldsItsInputs
  <2>1. RowRests(i)
    BY DEF DInv, RowsRest
  <2>2. status[i] \notin {"absent", "aborted"} /\ status[i] \in Statuses
    BY DEF DInv, IInv, TypeOK, WireMatches, JournalInv, AttemptsMatch, JournalTypeOK, CanLand
  <2>3. status[i] \notin {"confirmed", "failed"}
    BY <2>1 DEF RowRests, Rests, CanLand
  <2>4. status[i] \in Undone
    BY <2>2, <2>3, RetiredCannotLand DEF Undone
  <2> QED BY <2>1, <2>4 DEF RowRests
<1> QED BY <1>1, DepthInvariant, PTL

\* The inputs a confirmed candidate spent stay reserved for it.
THEOREM TombstonesKept == ASSUME Shallow PROVE Spec => []ConfirmedTombstones
<1>1. DInv => ConfirmedTombstones
  BY JournalAssumption DEF DInv, RowsRest, RowRests, ConfirmedTombstones
<1> QED BY <1>1, DepthInvariant, PTL
=============================================================================
