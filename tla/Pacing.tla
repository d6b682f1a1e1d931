------------------------------- MODULE Pacing -------------------------------
(***************************************************************************)
(* How the engine talks to one host: poll (runtime.py) calls a tick again  *)
(* and again, a tick makes requests (BoundedHTTP.request, providers.py),   *)
(* and a claimed submission is one of them.  A request waits for its turn, *)
(* may be repeated after a failure unless it is a submission, and leaves   *)
(* the host alone after HTTP 429.  The guard (reporting.py) may veto a     *)
(* submission at the last moment, and so may its deadline.                 *)
(*                                                                         *)
(* Time is relative: a timer holds what is left until, or has passed since *)
(* an event, and Elapse moves all of them.  A step of the program that     *)
(* sleeps sets left and the next one waits until left is 0; any other step *)
(* may be late by any time.                                                *)
(***************************************************************************)
EXTENDS Integers

CONSTANTS
  Interval,      \* request_interval
  PollInterval,  \* interval of poll
  Backoff,       \* Backoff[n]: local wait after the n-th 429
  MaxLevel,      \* most 429 answers counted
  ResetAfter,    \* time beyond a cooldown before a success forgets it
  RetryAfter,    \* waits a 429 may ask for (0: none)
  ServerDelays,  \* waits a 5xx may ask for
  Window         \* longest time to a submission deadline

Ceiling == Backoff[MaxLevel]
NoDeadline == -1

Lesser(a, b) == IF a < b THEN a ELSE b
Larger(a, b) == IF a > b THEN a ELSE b

\* min(900, 60 * 2 ** (n - 1)): each wait doubles up to the ceiling.
ASSUME PacingAssumption ==
  /\ Interval \in Nat /\ PollInterval \in Nat \ {0} /\ ResetAfter \in Nat \ {0}
  /\ MaxLevel \in Nat \ {0} /\ Window \in Nat
  /\ Backoff \in [1..MaxLevel -> Nat \ {0}]
  /\ \A n \in 1..MaxLevel - 1 : Backoff[n + 1] = Lesser(Ceiling, 2 * Backoff[n])
  /\ RetryAfter \subseteq Nat /\ ServerDelays \subseteq Nat

VARIABLES
  cool,      \* cooldown_until - monotonic(), not below -ResetAfter
  level,     \* rate_limits
  since,     \* monotonic() - last_request, not above Interval
  due,       \* time to the deadline of the submission
  left,      \* rest of the current sleep
  pc,        \* where the process is
  kind,      \* the request: a read, the read inside submit, the submission
  attempt,   \* attempt of the request
  wait,      \* remaining, in poll
  limited,   \* the last tick ended with RateLimited
  quit,      \* reporter.stop_requested, set by a signal
  stop,      \* stop request in the journal
  observed,  \* the provider has a reporter (arbitrage), or none (market maker)
  claim,     \* row of the submission: none, open, accepted or unknown
  \* History:
  sent,      \* transmissions of the claimed submission
  owed,      \* rest of the time the host asked to be left alone
  floor,     \* least wait the next 429 must cause
  armed,     \* the log was written after the request got its turn, and no
             \* stop had been requested by then
  late       \* transmissions after the signal

host == <<cool, level, owed, floor>>
orders == <<quit, stop, observed>>
book == <<claim, sent>>
vars == <<host, since, due, left, pc, kind, attempt, wait, limited, orders, book,
          armed, late>>

Stopping == quit \/ stop
Ready(at) == pc = at /\ left = 0

TypeOK ==
  /\ cool \in Int /\ cool >= -ResetAfter
  /\ level \in 0..MaxLevel
  /\ since \in 0..Interval
  /\ due \in NoDeadline..Window
  /\ left \in Nat
  /\ pc \in {"poll", "tick", "attempt", "paced", "guard", "log", "again", "send",
             "answer", "wait", "done"}
  /\ kind \in {"read", "identity", "submit"}
  /\ attempt \in 0..2
  /\ wait \in Nat
  /\ limited \in BOOLEAN /\ quit \in BOOLEAN /\ stop \in BOOLEAN
  /\ observed \in BOOLEAN /\ armed \in BOOLEAN
  /\ claim \in {"none", "open", "accepted", "unknown"}
  /\ sent \in Nat /\ owed \in Nat /\ floor \in Nat /\ late \in Nat

Init ==
  /\ cool = -ResetAfter /\ level = 0 /\ since = Interval
  /\ due = NoDeadline /\ left = 0
  /\ pc = "poll" /\ kind = "read" /\ attempt = 0
  /\ wait = 0 /\ limited = FALSE
  /\ quit = FALSE /\ stop = FALSE /\ observed \in BOOLEAN
  /\ claim = "none" /\ sent = 0
  /\ owed = 0 /\ floor = Backoff[1] /\ armed = FALSE /\ late = 0

-----------------------------------------------------------------------------
\* The poll loop.

\* An exception ends the tick; poll reports a pause and, for RateLimited, holds
\* off for that long.  A submission that was claimed is unknown from here on.
\* A bounded run may end with this cycle.
EndTick(hold) ==
  /\ claim' = IF claim = "open" THEN "unknown" ELSE claim
  /\ limited' = (hold > 0)
  /\ wait' = Larger(PollInterval, hold)
  /\ pc' \in {"wait", "done"}
  /\ UNCHANGED <<kind, attempt, sent>>

\* RateLimited.retry_after_seconds is at least one second.
Hold(seconds) == Larger(1, seconds)

Ask(k) == pc' = "attempt" /\ kind' = k /\ attempt' = 0

\* Every tick begins with a read.
BeginTick ==
  /\ Ready("poll") /\ ~Stopping
  /\ Ask("read")
  /\ UNCHANGED <<host, since, due, left, wait, limited, orders, book, armed, late>>

EndRun ==
  /\ Ready("poll") /\ Stopping
  /\ pc' = "done"
  /\ UNCHANGED <<host, since, due, left, kind, attempt, wait, limited, orders, book,
                 armed, late>>

NextRead ==
  /\ Ready("tick")
  /\ Ask("read")
  /\ UNCHANGED <<host, since, due, left, wait, limited, orders, book, armed, late>>

\* Coordinator.submit up to the claim: the deadline has not passed, the guard
\* agrees and the journal is not stopped.  Provider.submit reads the identity of
\* the chain before it sends.
BeginSubmission ==
  /\ Ready("tick") /\ ~stop /\ (observed => ~quit)
  /\ \E d \in {NoDeadline} \cup 1..Window : due' = d
  /\ claim' = "open" /\ sent' = 0
  /\ Ask("identity")
  /\ UNCHANGED <<host, since, left, wait, limited, orders, armed, late>>

TickReturns ==
  /\ Ready("tick")
  /\ EndTick(0)
  /\ UNCHANGED <<host, since, due, left, orders, armed, late>>

PollSleepForever ==   \* Slip: the rest of the pause is not counted down.
  /\ Ready("wait") /\ wait > 0 /\ ~Stopping
  /\ left' = 1
  /\ UNCHANGED <<host, since, due, pc, kind, attempt, wait, limited, orders, book, armed,
                 late>>

\* poll sleeps in steps of a second and looks for a stop between them.
PollSleep ==
  /\ Ready("wait") /\ wait > 0 /\ ~Stopping
  /\ left' = 1 /\ wait' = wait - 1
  /\ UNCHANGED <<host, since, due, pc, kind, attempt, limited, orders, book, armed, late>>

PollWakeLate ==   \* Slip: a stop does not end the pause.
  /\ Ready("wait") /\ wait = 0
  /\ pc' = "poll"
  /\ UNCHANGED <<host, since, due, left, kind, attempt, wait, limited, orders, book,
                 armed, late>>

PollWake ==
  /\ Ready("wait") /\ (wait = 0 \/ Stopping)
  /\ pc' = "poll"
  /\ UNCHANGED <<host, since, due, left, kind, attempt, wait, limited, orders, book,
                 armed, late>>

-----------------------------------------------------------------------------
\* BoundedHTTP.request

Repeatable == kind # "submit"

StopBetweenOperations ==
  /\ Ready("attempt") /\ Repeatable /\ quit
  /\ EndTick(0)
  /\ UNCHANGED <<host, since, due, left, orders, armed, late>>

CoolingDown ==
  /\ Ready("attempt") /\ ~(Repeatable /\ quit) /\ cool > 0
  /\ EndTick(Hold(cool))
  /\ UNCHANGED <<host, since, due, left, orders, armed, late>>

AwaitTurn ==
  /\ Ready("attempt") /\ ~(Repeatable /\ quit) /\ cool <= 0
  /\ left' = Larger(0, Interval - since)
  /\ pc' = "paced"
  /\ UNCHANGED <<host, since, due, kind, attempt, wait, limited, orders, book, armed, late>>

TakeTurn ==
  /\ Ready("paced")
  /\ since' = 0
  /\ armed' = FALSE
  /\ pc' = IF kind = "submit" /\ observed THEN "guard" ELSE "send"
  /\ UNCHANGED <<host, due, left, kind, attempt, wait, limited, orders, book, late>>

\* Reporter.guard: stop flags, a synced log record, stop flags again.
GuardStop(here, next) ==
  /\ Ready(here)
  /\ IF Stopping THEN EndTick(0)
                 ELSE pc' = next /\ UNCHANGED <<kind, attempt, wait, limited, book>>
  /\ UNCHANGED <<host, since, due, left, orders, armed, late>>

GuardLog ==
  /\ Ready("log")
  /\ \/ /\ armed' = ~Stopping
        /\ pc' = "again"
        /\ UNCHANGED <<kind, attempt, wait, limited, book>>
     \/ EndTick(0) /\ UNCHANGED armed
  /\ UNCHANGED <<host, since, due, left, orders, late>>

GuardFirst == GuardStop("guard", "log")

GuardLastUnread ==   \* Slip: the stop flags are not read again after the log write.
  /\ Ready("again")
  /\ pc' = "send"
  /\ UNCHANGED <<host, since, due, left, kind, attempt, wait, limited, orders, book,
                 armed, late>>

GuardLast == GuardStop("again", "send")

DeadlineElapsed == kind = "submit" /\ due = 0

TooLate ==
  /\ Ready("send") /\ DeadlineElapsed
  /\ EndTick(0)
  /\ UNCHANGED <<host, since, due, left, orders, armed, late>>

Transmit ==
  /\ Ready("send") /\ ~DeadlineElapsed
  /\ sent' = IF kind = "submit" THEN sent + 1 ELSE sent
  /\ late' = IF quit THEN late + 1 ELSE late
  /\ pc' = "answer"
  /\ UNCHANGED <<host, since, due, left, kind, attempt, wait, limited, orders, claim, armed>>

-----------------------------------------------------------------------------
\* The answer.

ForgetLimitsAtOnce ==   \* Slip: the first success forgets them.
  /\ level' = 0 /\ floor' = IF -cool >= ResetAfter THEN Backoff[1] ELSE floor
  /\ UNCHANGED <<cool, owed>>

\* An answer below 300 forgets earlier 429 answers, well beyond the cooldown.
ForgetLimits ==
  IF -cool >= ResetAfter
  THEN level' = 0 /\ floor' = Backoff[1] /\ UNCHANGED <<cool, owed>>
  ELSE UNCHANGED host

\* A usable body; the identity read is followed by the submission itself.
Succeed ==
  /\ Ready("answer")
  /\ ForgetLimits
  /\ IF kind = "identity"
     THEN Ask("submit") /\ UNCHANGED claim
     ELSE /\ pc' = "tick"
          /\ claim' = IF kind = "submit" THEN "accepted" ELSE claim
          /\ UNCHANGED <<kind, attempt>>
  /\ UNCHANGED <<since, due, left, wait, limited, orders, sent, armed, late>>

\* 404 for a read that may find nothing.
FindNothing ==
  /\ Ready("answer") /\ kind = "read"
  /\ pc' = "tick"
  /\ UNCHANGED <<host, since, due, left, kind, attempt, wait, limited, orders, book,
                 armed, late>>

\* An unusable body (JSON, RPC error, identity, hash), another status, 8 MiB.
Reject ==
  /\ Ready("answer")
  /\ ForgetLimits \/ UNCHANGED host
  /\ EndTick(0)
  /\ UNCHANGED <<since, due, left, orders, armed, late>>

\* A body that cannot be decoded raises what nothing here catches: poll ends.
Escape ==
  /\ Ready("answer")
  /\ claim' = IF claim = "open" THEN "unknown" ELSE claim
  /\ pc' = "done"
  /\ UNCHANGED <<host, since, due, left, kind, attempt, wait, limited, orders, sent,
                 armed, late>>

RetryAlways(delays) ==   \* Slip: a submission is repeated like a read.
  \/ /\ attempt < 2
     /\ \E d \in delays : left' = d
     /\ attempt' = attempt + 1
     /\ pc' = "attempt"
     /\ UNCHANGED <<kind, wait, limited, book>>
  \/ /\ attempt = 2
     /\ EndTick(0)
     /\ UNCHANGED left

\* A transport error or 5xx: a submission is unknown, a read is repeated twice.
Retry(delays) ==
  \/ /\ Repeatable /\ attempt < 2
     /\ \E d \in delays : left' = d
     /\ attempt' = attempt + 1
     /\ pc' = "attempt"
     /\ UNCHANGED <<kind, wait, limited, book>>
  \/ /\ ~Repeatable \/ attempt = 2
     /\ EndTick(0)
     /\ UNCHANGED left

Doubling == attempt + 1   \* 2 ** attempt, for the attempts that are repeated

TransportError ==
  /\ Ready("answer")
  /\ Retry({Doubling})
  /\ UNCHANGED <<host, since, due, orders, armed, late>>

ServerError ==
  /\ Ready("answer")
  /\ Retry({Doubling} \cup ServerDelays)
  /\ UNCHANGED <<host, since, due, orders, armed, late>>

DelayLocal(n, asked) == Backoff[n]   \* Slip: Retry-After is ignored.

\* HTTP 429: count it, and leave the host alone for the longer of the local wait
\* and what it asked for.
Delay(n, asked) == Larger(Backoff[n], asked)

TooManyRequests ==
  /\ Ready("answer")
  /\ level' = Lesser(level + 1, MaxLevel)
  /\ \E asked \in RetryAfter :
       LET delay == Delay(level', asked) IN
       /\ cool' = delay /\ owed' = asked
       /\ EndTick(IF Repeatable THEN Hold(delay) ELSE 0)
  /\ floor' = Lesser(Ceiling, 2 * floor)
  /\ UNCHANGED <<since, due, left, orders, armed, late>>

-----------------------------------------------------------------------------
\* The world.

Elapse ==
  /\ cool' = Larger(-ResetAfter, cool - 1)
  /\ since' = Lesser(Interval, since + 1)
  /\ due' = IF due > 0 THEN due - 1 ELSE due
  /\ left' = Larger(0, left - 1)
  /\ owed' = Larger(0, owed - 1)
  /\ UNCHANGED <<level, floor, pc, kind, attempt, wait, limited, orders, book, armed, late>>

Signal ==
  /\ observed /\ ~quit /\ pc # "done"
  /\ quit' = TRUE
  /\ UNCHANGED <<host, since, due, left, pc, kind, attempt, wait, limited, stop, observed,
                 book, armed, late>>

RequestStop ==
  /\ ~stop /\ pc # "done"
  /\ stop' = TRUE
  /\ UNCHANGED <<host, since, due, left, pc, kind, attempt, wait, limited, quit, observed,
                 book, armed, late>>

Poll == BeginTick \/ EndRun \/ TickReturns \/ PollSleep \/ PollWake
Tick == NextRead \/ BeginSubmission
Request ==
  \/ StopBetweenOperations \/ CoolingDown \/ AwaitTurn \/ TakeTurn
  \/ GuardFirst \/ GuardLog \/ GuardLast \/ TooLate \/ Transmit
Answer ==
  \/ Succeed \/ FindNothing \/ Reject \/ Escape \/ TransportError \/ ServerError
  \/ TooManyRequests

Next == Poll \/ Tick \/ Request \/ Answer \/ Elapse \/ Signal \/ RequestStop

Spec == Init /\ [][Next]_vars

-----------------------------------------------------------------------------
\* What must hold.

Transmission == pc = "send" /\ pc' = "answer"

\* No request leaves while the host has asked to be left alone, whatever kind of
\* request was answered 429 and however long the next one waited for its turn.
QuietWhenAsked == [][Transmission => owed = 0]_vars

\* Two 429 answers without a success well beyond the cooldown of the first: the
\* second causes at least twice the wait of the first, up to the ceiling.
BackoffRemembered == floor <= Backoff[Lesser(level + 1, MaxLevel)]

\* A claimed submission is transmitted at most once, is accepted only if it was,
\* and the row is never left open when the tick is over.
SubmittedOnce ==
  /\ sent <= 1
  /\ claim = "accepted" => sent = 1
  /\ pc \in {"wait", "poll", "done"} => claim # "open"

\* A submission leaves only if nothing vetoes it once it has its turn: its deadline
\* has not passed, however long pacing and log took, and, with a reporter, a log
\* record was written in that turn and no stop was requested before it was complete.
VetoesHold ==
  [][Transmission /\ kind = "submit" => due # 0 /\ (observed => armed)]_vars

\* A signal lets at most the request in progress leave.
QuitIsPrompt == late <= 1

\* A cycle that follows RateLimited starts after the cooldown.
CycleWaitsOut == [][pc = "poll" /\ pc' = "attempt" /\ limited => cool <= 0]_vars

-----------------------------------------------------------------------------
\* Time passes, the program goes on, a request is answered, and a tick makes
\* finitely many requests.
Fairness ==
  /\ WF_vars(Elapse)
  /\ WF_vars(Poll \/ Tick \/ Request \/ Answer)
  /\ SF_vars(TickReturns)

FairSpec == Spec /\ Fairness

\* The host is asked again and again, whatever it answers, until the run ends.
KeepsAsking == []<>(pc \in {"answer", "done"})

\* A stop or a signal ends the run, whatever the host answers.
StopEnds == Stopping ~> pc = "done"
=============================================================================
