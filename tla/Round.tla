------------------------------- MODULE Round -------------------------------
(***************************************************************************)
(* One tick of the arbitrage engine from the observation of the venues to  *)
(* the wire (arbitrage_runtime.py, slots.py, clip_dano_validity of         *)
(* dendrite_bridge.py), while the clock runs, blocks arrive and strangers  *)
(* take the liquidity it is looking at.  Credentials are read one after    *)
(* the other; every candidate gets a deadline from its own validity; the   *)
(* best of those that are still in time goes out.                          *)
(*                                                                         *)
(* What a route earns and which rows it uses is given (Search); how it is  *)
(* sized and inspected is Construction; the claim and what follows is      *)
(* Coordinator.  The chain only grows here.                                *)
(***************************************************************************)
EXTENDS Integers, Sequences, FiniteSets, FiniteSetsExt

CONSTANTS
  Refs, Credential,  \* rows of the venues, and where each of them lies
  Credentials,       \* how many credentials are read, in order
  Plans, Uses, Gain, \* the routes over those rows, and what each would gain
  Dano, Until,       \* the routes clipped to an epoch, the slot at which orders end
  Fees,              \* what a built candidate may cost
  MinProfit, MaxAge, Margin, MaxEvaluations, Confirmations,
  TtlSpan, DanoSpan, EpochLength,   \* 300 and 240 slots, 1800 s
  Eras,              \* set of [start, slot, end, length]
  MaxTime, MaxHeight \* bounds

ASSUME RoundAssumption ==
  /\ Credential \in [Refs -> 1 .. Credentials]
  /\ Uses \in [Plans -> SUBSET Refs] /\ Gain \in [Plans -> Nat]
  /\ Dano \subseteq Plans /\ Until \in [Plans -> Nat] /\ Fees \subseteq Nat
  /\ {MinProfit, MaxAge, Margin, MaxEvaluations, Confirmations} \subseteq Nat \ {0}
  /\ Margin < MaxAge
  /\ {TtlSpan, DanoSpan, EpochLength} \subseteq Nat \ {0}
  /\ IsFiniteSet(Plans)

VARIABLES
  now, height, minted,        \* clock, tip and when the tip was minted
  born, gone,                 \* height that made a row, height that spent it (or None)
  pc,
  tip,                        \* the tip this tick began with, its age counts
  context,                    \* the later one of its chain context, its height and slot count
  scan, seen, observedAt,     \* credentials read, rows taken in, when it began
  queue, draft, candidates,   \* shortlist, the one under evaluation, the evaluated ones
  skipped                     \* history: the routes not built, and what beat them

environment == <<now, height, minted, born, gone>>
observation == <<tip, context, scan, seen, observedAt>>
round == <<pc, observation, queue, draft, candidates, skipped>>
vars == <<environment, round>>

None == -1
NoDraft == [plan |-> None, net |-> 0, before |-> 0]

Least(x, y) == IF x <= y THEN x ELSE y

Unspent == {r \in Refs : born[r] \in 0 .. height /\ gone[r] = None}

----------------------------------------------------------------------------
(* SlotClock.                                                              *)

Covers(era, t) == era.start <= t /\ (era.end = None \/ t < era.end)
EndSlot(era) == era.slot + (era.end - era.start) \div era.length
Holds(era, s) == era.slot <= s /\ (era.end = None \/ s < EndSlot(era))

\* What the clock accepts: whole slots, and one era after the other.
ASSUME EraAssumption ==
  /\ Eras \subseteq [start : Nat, slot : Nat, end : Nat \cup {None}, length : Nat \ {0}]
  /\ \A e \in Eras : e.end # None =>
       e.start < e.end /\ e.end - e.start = (EndSlot(e) - e.slot) * e.length
  /\ \A e, f \in Eras : e # f =>
       \/ e.end # None /\ e.end <= f.start /\ EndSlot(e) <= f.slot
       \/ f.end # None /\ f.end <= e.start /\ EndSlot(f) <= e.slot

\* Slip: a time inside a slot counts for the next one.
SlotAtRoundedUp(t) ==
  LET era == CHOOSE e \in Eras : Covers(e, t)
  IN  era.slot + (t - era.start + era.length - 1) \div era.length

SlotAt(t) ==
  LET era == CHOOSE e \in Eras : Covers(e, t) IN era.slot + (t - era.start) \div era.length

TimeAt(s) ==
  LET era == CHOOSE e \in Eras : Holds(e, s)
  IN  era.start + (s - era.slot) * era.length

----------------------------------------------------------------------------
(* Validity of a candidate, and until when it may be sent.                 *)

\* clip_dano_validity: not beyond the epoch of the observation.
EpochEnd(t) == (t \div EpochLength + 1) * EpochLength
Clip(ttl) == Min({SlotAt(observedAt) + DanoSpan, SlotAt(EpochEnd(observedAt)) - 1, ttl})

\* contribute_direct: nor beyond the end of an order it takes.
Ttl(p) ==
  LET ttl == Least(SlotAt(context.minted) + TtlSpan, SlotAt(observedAt + MaxAge))
  IN  Least(IF p \in Dano THEN Clip(ttl) ELSE ttl, Until[p])

\* The eras reach far enough; otherwise the clock raises.
Reached(p) ==
  /\ \A t \in {context.minted, observedAt + MaxAge}
              \cup (IF p \in Dano THEN {observedAt, EpochEnd(observedAt)} ELSE {}) :
       \E e \in Eras : Covers(e, t)
  /\ \E e \in Eras : Holds(e, Ttl(p))

\* The deadline leaves a margin before the ledger's.
Before(p) == TimeAt(Ttl(p)) - Margin

----------------------------------------------------------------------------
(* The world.                                                              *)

Elapse ==
  /\ now < MaxTime /\ now' = now + 1
  /\ UNCHANGED <<height, minted, born, gone>>

\* A block spends some rows and makes others.
Block ==
  /\ height < MaxHeight /\ minted < now
  /\ height' = height + 1 /\ minted' = now
  /\ \E taken \in SUBSET Unspent, made \in SUBSET {r \in Refs : born[r] = None} :
       /\ gone' = [r \in Refs |-> IF r \in taken THEN height + 1 ELSE gone[r]]
       /\ born' = [r \in Refs |-> IF r \in made THEN height + 1 ELSE born[r]]
  /\ UNCHANGED now

----------------------------------------------------------------------------
(* Observation.                                                            *)

Init ==
  /\ now = 0 /\ height = 0 /\ minted = 0
  /\ born \in [Refs -> {0, None}] /\ gone = [r \in Refs |-> None]
  /\ pc = "start" /\ tip = [height |-> 0, minted |-> 0] /\ context = tip
  /\ scan = 0 /\ seen = {} /\ observedAt = 0
  /\ queue = <<>> /\ draft = NoDraft /\ candidates = {}
  /\ skipped = {}

Latest == [height |-> height, minted |-> minted]

\* The tick reads the tip and reconciles with it.
ReadTip ==
  /\ pc = "start" /\ pc' = "tip"
  /\ tip' = Latest
  /\ UNCHANGED <<environment, context, scan, seen, observedAt, queue, draft, candidates, skipped>>

\* By then it must not be older than an observation may be.
CheckTip ==
  /\ pc = "tip" /\ pc' = "context"
  /\ now - tip.minted <= MaxAge
  /\ UNCHANGED <<environment, observation, queue, draft, candidates, skipped>>

\* ProviderChainContext reads a tip of its own, for everything that follows.
MakeContext ==
  /\ pc = "context" /\ pc' = "begin"
  /\ context' = Latest
  /\ UNCHANGED <<environment, tip, scan, seen, observedAt, queue, draft, candidates, skipped>>

\* The observation has the age of its first request.
Begin ==
  /\ pc = "begin" /\ pc' = "observe"
  /\ observedAt' = now
  /\ UNCHANGED <<environment, tip, context, scan, seen, queue, draft, candidates, skipped>>

\* Slip: depth is counted from the tip at the moment of the read.
DeepByNow(r) == height - born[r] + 1 >= Confirmations

Deep(r) == context.height - born[r] + 1 >= Confirmations

\* One credential: its unspent rows that are deep enough below the context's tip.
Scan ==
  /\ pc = "observe" /\ scan < Credentials
  /\ scan' = scan + 1
  /\ seen' = seen \cup {r \in Unspent : Credential[r] = scan' /\ Deep(r)}
  /\ UNCHANGED <<environment, pc, tip, context, observedAt, queue, draft, candidates, skipped>>

\* The search returns the routes over what was seen in an order of its own.
Orders(S) == {q \in [1 .. Cardinality(S) -> S] : \A i, j \in DOMAIN q : q[i] = q[j] => i = j}

Search ==
  /\ pc = "observe" /\ scan = Credentials /\ pc' = "evaluate"
  /\ now - observedAt <= MaxAge
  /\ \E order \in Orders({p \in Plans : Uses[p] \subseteq seen}) :
       queue' = SubSeq(order, 1, Least(Len(order), MaxEvaluations))
  /\ UNCHANGED <<environment, observation, draft, candidates, skipped>>

----------------------------------------------------------------------------
(* Evaluation.                                                             *)

\* Slip: the best candidate counts even if its time is over.
BestEver == {c \in candidates : \A d \in candidates : d.net <= c.net}

\* The best candidates that could still be sent.
Best ==
  LET valid == {c \in candidates : now < c.before}
  IN  {c \in valid : \A d \in valid : d.net <= c.net}

Hopeless(p) == \E c \in Best : Gain[p] < c.net

Skip ==
  /\ pc = "evaluate" /\ queue # <<>> /\ Hopeless(Head(queue))
  /\ \E c \in Best : skipped' = skipped \cup {[plan |-> Head(queue), against |-> c, at |-> now]}
  /\ queue' = Tail(queue)
  /\ UNCHANGED <<environment, pc, observation, draft, candidates>>

\* build_route, and the floor after the fee.
Build ==
  /\ pc = "evaluate" /\ queue # <<>> /\ ~ Hopeless(Head(queue))
  /\ now - observedAt <= MaxAge
  /\ Reached(Head(queue)) /\ now < Before(Head(queue))
  /\ \E fee \in Fees :
       /\ Gain[Head(queue)] - fee >= MinProfit
       /\ draft' = [plan |-> Head(queue), net |-> Gain[Head(queue)] - fee,
                    before |-> Before(Head(queue))]
  /\ queue' = Tail(queue) /\ pc' = "validate"
  /\ UNCHANGED <<environment, observation, candidates, skipped>>

\* The rows are read again: all of them must still be there.
Validate ==
  /\ pc = "validate" /\ pc' = "evaluate"
  /\ now < draft.before /\ Uses[draft.plan] \subseteq Unspent
  /\ candidates' = candidates \cup {draft} /\ draft' = NoDraft
  /\ UNCHANGED <<environment, observation, queue, skipped>>

\* A route fails to build or to validate, and the next one is tried.
Reject ==
  /\ \/ /\ pc = "evaluate" /\ queue # <<>> /\ ~ Hopeless(Head(queue))
        /\ queue' = Tail(queue) /\ UNCHANGED draft
     \/ pc = "validate" /\ draft' = NoDraft /\ UNCHANGED queue
  /\ pc' = "evaluate"
  /\ UNCHANGED <<environment, observation, candidates, skipped>>

----------------------------------------------------------------------------
(* Selection and sending.                                                  *)

Select ==
  /\ pc = "evaluate" /\ queue = <<>> /\ pc' = "finish"
  /\ draft' \in Best
  /\ UNCHANGED <<environment, observation, queue, candidates, skipped>>

\* finish_candidate and prepare: the window, and the rows once more.
Prepare ==
  /\ pc = "finish" /\ pc' = "submit"
  /\ now < draft.before /\ Uses[draft.plan] \subseteq Unspent
  /\ UNCHANGED <<environment, observation, queue, draft, candidates, skipped>>

\* What the tick knew goes when it returns.
Return ==
  /\ pc' = "done" /\ queue' = <<>> /\ draft' = NoDraft /\ candidates' = {}
  /\ skipped' = {} /\ seen' = {}
  /\ UNCHANGED <<environment, tip, context, scan, observedAt>>

Submit ==
  /\ pc = "submit" /\ now < draft.before /\ Uses[draft.plan] \subseteq Unspent
  /\ Return

\* A stop, a stale observation, a provider's error, nothing left to send.
End == pc # "done" /\ Return

Engine ==
  \/ ReadTip \/ CheckTip \/ MakeContext \/ Begin \/ Scan \/ Search
  \/ Skip \/ Build \/ Validate \/ Reject
  \/ Select \/ Prepare \/ Submit \/ End

Next ==
  \/ pc # "done" /\ (Elapse \/ Block) /\ UNCHANGED round
  \/ Engine

Spec == Init /\ [][Next]_vars

----------------------------------------------------------------------------
(* Properties.                                                             *)

\* Although credentials are read one after the other, everything an observation
\* takes in lay on the ledger at one and the same height; and what is sent
\* rests on an observation that began less than max_age before, with the
\* margin to spare, whatever pacing and evaluation took.
ObservationHolds ==
  [][/\ \E h \in 0 .. height : \A r \in seen' :
          born[r] <= h /\ (gone[r] = None \/ h < gone[r])
     /\ Submit => now + Margin < observedAt + MaxAge]_vars

\* Nothing better is passed over for what is selected, which is still in time:
\* neither a candidate that is in time too, nor a route that was not even
\* built, unless the candidate it could not beat was in time then and has run
\* out of it since.
BestIsSent ==
  [][Select =>
       /\ now < draft'.before
       /\ \A c \in candidates : now < c.before => c.net <= draft'.net
       /\ \A s \in skipped :
            Gain[s.plan] <= draft'.net
              \/ (s.at < s.against.before /\ s.against.before <= now)]_vars
=============================================================================
