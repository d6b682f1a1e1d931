------------------------------ MODULE Journal ------------------------------
(***************************************************************************)
(* The durable journal of one wallet (journal.py): the rows it keeps about *)
(* each prepared transaction, and every method that writes them.  Each     *)
(* method is one SQLite transaction (BEGIN IMMEDIATE .. COMMIT) or one     *)
(* autocommitted statement, so each is one action here; a method that      *)
(* raises rolls back and is simply not enabled.                            *)
(*                                                                         *)
(* Transaction bytes, metadata and the diagnostic columns (confirmations,  *)
(* last_error of an attempt, reasons) are abstracted: an intent is its     *)
(* bytes, so "same unsigned bytes" is "same intent".                       *)
(***************************************************************************)
EXTENDS Candidates

CONSTANT Nobody \* holder of a reference that is not reserved

ASSUME JournalAssumption == Nobody \notin Intents

VARIABLES
  status,       \* transactions.status ("absent": no row)
  signed,       \* outbox.signed is present
  attempts,     \* outbox.attempts
  holder,       \* reservations: the intent that holds a reference
  block,        \* outbox.block_height and block_hash (NoBlock: NULL)
  anchor,       \* anchor block of the retirement evidence in outbox.last_error
  incident,     \* execution_incidents
  control       \* run_control ("absent": no row yet)

journalVars == <<status, signed, attempts, holder, block, anchor, incident, control>>

Fresh == {"prepared", "submitting", "unknown", "submitted"}
Terminal == {"confirmed", "failed", "expired", "conflicted"}
Closed == Terminal \cup {"aborted"}
Statuses == {"absent", "included", "rolled_back"} \cup Fresh \cup Closed

NoBlock == [height |-> 0, hash |-> -1]
Points == [height : Nat, hash : Int]

JournalTypeOK ==
  /\ status \in [Intents -> Statuses]
  /\ signed \in [Intents -> BOOLEAN]
  /\ attempts \in [Intents -> 0..1]
  /\ holder \in [Refs -> Intents \cup {Nobody}]
  /\ block \in [Intents -> Points]
  /\ anchor \in [Intents -> Points]
  /\ incident \in [Intents -> {"none", "open", "acknowledged"}]
  /\ control \in {"absent", "running", "stopping"}

JournalInit ==
  /\ status = [i \in Intents |-> "absent"]
  /\ signed = [i \in Intents |-> FALSE]
  /\ attempts = [i \in Intents |-> 0]
  /\ holder = [r \in Refs |-> Nobody]
  /\ block = [i \in Intents |-> NoBlock]
  /\ anchor = [i \in Intents |-> NoBlock]
  /\ incident = [i \in Intents |-> "none"]
  /\ control = "absent"

----------------------------------------------------------------------------
(* Queries.                                                                *)

NoIncident == \A i \in Intents : incident[i] # "open"
NothingOpen == \A i \in Intents : status[i] \in Closed \cup {"absent"}
NothingRolledBack == \A i \in Intents : status[i] # "rolled_back"
StopRequested == control = "stopping"

\* The block a terminal entry rests on: its inclusion, or the anchor of its
\* retirement evidence.
BlockUnder(i) == IF status[i] \in {"expired", "conflicted"} THEN anchor[i] ELSE block[i]

(* Reservation updates: INSERT OR IGNORE and DELETE .. WHERE intent.       *)
Reserve(i, refs) ==
  [r \in Refs |-> IF r \in refs /\ holder[r] = Nobody THEN i ELSE holder[r]]
Release(i, refs) ==
  [r \in Refs |-> IF r \in refs /\ holder[r] = i THEN Nobody ELSE holder[r]]

----------------------------------------------------------------------------
(* Preparation and signing.                                                *)

\* A known intent may only be prepared again unchanged and before any
\* attempt; a new one only when nothing is open and nobody holds its inputs
\* (the INSERT fails on the primary key otherwise).
PrepareCandidate(i) ==
  \/ /\ status[i] = "prepared"
     /\ UNCHANGED journalVars
  \/ /\ status[i] = "absent"
     /\ NothingOpen
     /\ \A r \in Roles(i) : holder[r] = Nobody
     /\ status' = [status EXCEPT ![i] = "prepared"]
     /\ holder' = [r \in Refs |-> IF r \in Roles(i) THEN i ELSE holder[r]]
     /\ UNCHANGED <<signed, attempts, block, anchor, incident, control>>

AttachSignature(i) ==
  /\ status[i] = "prepared" /\ attempts[i] = 0
  /\ signed' = [signed EXCEPT ![i] = TRUE]
  /\ UNCHANGED <<status, attempts, holder, block, anchor, incident, control>>

AbandonUnsigned(i) ==
  /\ status[i] = "prepared" /\ ~ signed[i] /\ attempts[i] = 0
  /\ status' = [status EXCEPT ![i] = "aborted"]
  /\ holder' = Release(i, Refs)
  /\ UNCHANGED <<signed, attempts, block, anchor, incident, control>>

----------------------------------------------------------------------------
(* Submission.                                                             *)

\* Slip: an attempt with an unknown outcome may be claimed again.
ClaimableAgain(i) ==
  /\ ~ StopRequested
  /\ signed[i] /\ status[i] \in {"prepared", "unknown"}

\* Slip: the flag is not read.
ClaimableWhileStopping(i) == signed[i] /\ attempts[i] = 0 /\ status[i] = "prepared"

\* The stop flag is read inside the transaction that claims the attempt.
Claimable(i) ==
  /\ ~ StopRequested
  /\ signed[i] /\ attempts[i] = 0 /\ status[i] = "prepared"

ClaimSubmission(i) ==
  /\ Claimable(i)
  /\ attempts' = [attempts EXCEPT ![i] = @ + 1]
  /\ status' = [status EXCEPT ![i] = "submitting"]
  /\ UNCHANGED <<signed, holder, block, anchor, incident, control>>

Transitions == [s \in Statuses |->
  CASE s = "prepared"    -> {"submitting"}
    [] s = "submitting"  -> {"unknown", "submitted", "included"}
    [] s = "unknown"     -> {"submitted", "included"}
    [] s = "submitted"   -> {"unknown", "included"}
    [] s = "included"    -> {"confirmed", "rolled_back"}
    [] s = "confirmed"   -> {"rolled_back"}
    [] s = "rolled_back" -> {"unknown", "included"}
    [] OTHER -> {}]

MarkTransaction(i, s) ==
  /\ status[i] # "absent"
  /\ s = status[i] \/ s \in Transitions[status[i]]
  /\ status' = [status EXCEPT ![i] = s]
  /\ UNCHANGED <<signed, attempts, holder, block, anchor, incident, control>>

----------------------------------------------------------------------------
(* Chain evidence.                                                         *)

\* Expired and conflicted candidates give their unspent references back and
\* keep the block that proved it.
RetireExpired(i, s, release, point) ==
  /\ s \in {"expired", "conflicted"}
  /\ status[i] \notin Closed \cup {"absent"}
  /\ status' = [status EXCEPT ![i] = s]
  /\ anchor' = [anchor EXCEPT ![i] = point]
  /\ holder' = Release(i, release)
  /\ UNCHANGED <<signed, attempts, block, incident, control>>

\* A confirmed phase-2 failure spent the collateral, not the regular inputs.
RetireFailed(i, point) ==
  /\ status[i] \notin Closed \cup {"absent"}
  /\ status' = [status EXCEPT ![i] = "failed"]
  /\ incident' = [incident EXCEPT ![i] = IF @ = "none" THEN "open" ELSE @]
  /\ block' = [block EXCEPT ![i] = point]
  /\ holder' = [r \in Refs |-> IF r \in Spends[i] /\ holder[r] = i
                               THEN Nobody ELSE Reserve(i, Pledges[i])[r]]
  /\ UNCHANGED <<signed, attempts, anchor, control>>

\* Slip: confirmation releases every reservation of the intent.
InclusionReleasesAll(i, point, confirmed) ==
  /\ status[i] # "absent"
  /\ status' = [status EXCEPT ![i] = IF confirmed THEN "confirmed" ELSE "included"]
  /\ block' = [block EXCEPT ![i] = point]
  /\ holder' = IF confirmed THEN Release(i, Refs) ELSE holder
  /\ UNCHANGED <<signed, attempts, anchor, incident, control>>

RecordInclusion(i, point, confirmed) ==
  /\ status[i] # "absent"
  /\ status' = [status EXCEPT ![i] = IF confirmed THEN "confirmed" ELSE "included"]
  /\ block' = [block EXCEPT ![i] = point]
  /\ holder' = IF confirmed
               THEN [r \in Refs |-> IF r \in Pledges[i] /\ holder[r] = i
                                    THEN Nobody ELSE Reserve(i, Spends[i])[r]]
               ELSE holder
  /\ UNCHANGED <<signed, attempts, anchor, incident, control>>

\* Slip: the candidate counts as undecided again.
RollbackToUnknown(i) ==
  /\ status[i] # "absent"
  /\ status' = [status EXCEPT ![i] = "unknown"]
  /\ UNCHANGED <<signed, attempts, holder, block, anchor, incident, control>>

\* Slip: a failure that is rolled back takes its incident with it.
RollbackForgives(i) ==
  /\ status[i] # "absent"
  /\ status' = [status EXCEPT ![i] = "rolled_back"]
  /\ incident' = [incident EXCEPT ![i] = "none"]
  /\ UNCHANGED <<signed, attempts, holder, block, anchor, control>>

\* Reservations, the last inclusion block and the incident are kept.
RecordRollback(i) ==
  /\ status[i] # "absent"
  /\ status' = [status EXCEPT ![i] = "rolled_back"]
  /\ UNCHANGED <<signed, attempts, holder, block, anchor, incident, control>>

----------------------------------------------------------------------------
(* Operator controls.                                                      *)

AcknowledgeIncident(i) ==
  /\ incident[i] = "open"
  /\ incident' = [incident EXCEPT ![i] = "acknowledged"]
  /\ UNCHANGED <<status, signed, attempts, holder, block, anchor, control>>

StartRun ==
  /\ control' = "running"
  /\ UNCHANGED <<status, signed, attempts, holder, block, anchor, incident>>

\* An UPDATE of a row that may not exist yet.
RequestStop ==
  /\ control # "absent"
  /\ control' = "stopping"
  /\ UNCHANGED <<status, signed, attempts, holder, block, anchor, incident>>

----------------------------------------------------------------------------
(* What every sequence of these methods must keep.                         *)

\* While a candidate may still be sent or its fate is unknown, it alone holds
\* every input and collateral it names (prepare_candidate, retire_candidate).
FreshHoldsItsInputs ==
  \A i \in Intents : status[i] \in Fresh => \A r \in Roles(i) : holder[r] = i

\* Only one candidate is undecided at a time: a new one waits until the old
\* one is closed, even when a roll-back reopens older ones meanwhile.
OneUndecided ==
  \A i, j \in Intents : status[i] \in Fresh /\ status[j] \in Fresh => i = j
=============================================================================
