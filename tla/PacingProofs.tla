---------------------------- MODULE PacingProofs ----------------------------
(***************************************************************************)
(* Theorems about Pacing: the safety properties of its run, for every      *)
(* interval, table of waits, deadline and answer of the host.              *)
(***************************************************************************)
EXTENDS Pacing, TLAPS

\* Between the look at the cooldown and the transmission, and in the pause that
\* RateLimited causes.
CooldownSeen ==
  /\ owed <= Larger(0, cool)
  /\ pc \in {"paced", "guard", "log", "again", "send"} => cool <= 0
  /\ pc = "wait" /\ limited => cool - left <= wait
  /\ pc = "poll" /\ limited /\ ~Stopping => cool <= 0

\* The submission's row follows the call.
ClaimFollowsCall ==
  /\ pc \in {"poll", "tick", "wait", "done"} => claim # "open"
  /\ pc \in {"attempt", "paced", "guard", "log", "again", "send", "answer"} =>
       (claim = "open" <=> kind # "read")
  /\ claim = "open" => sent = IF pc = "answer" /\ kind = "submit" THEN 1 ELSE 0
  /\ pc \in {"guard", "log", "again"} => kind = "submit" /\ observed

\* The guard's record is there when it lets go.
GuardSeen ==
  /\ pc = "again" /\ ~Stopping => armed
  /\ pc = "send" /\ kind = "submit" /\ observed => armed

\* Once a request has left after the signal, the next one stops at its guard.
SignalSeen ==
  /\ quit => observed
  /\ ~quit => late = 0
  /\ late = 1 => /\ pc \notin {"log", "again", "send"}
                 /\ pc = "paced" => kind = "submit"

IInv ==
  /\ TypeOK /\ BackoffRemembered /\ SubmittedOnce /\ QuitIsPrompt
  /\ CooldownSeen /\ ClaimFollowsCall /\ GuardSeen /\ SignalSeen

\* What a step does to one of the parts is expanded leaf by leaf; these facts
\* about the constants are used throughout.
LEMMA ConstantFacts ==
  /\ Interval \in Nat /\ PollInterval \in Nat /\ ResetAfter \in Nat /\ Window \in Nat
  /\ MaxLevel \in Nat /\ MaxLevel >= 1 /\ ResetAfter >= 1
  /\ \A n \in 1..MaxLevel : Backoff[n] \in Nat /\ Backoff[n] >= 1
  /\ RetryAfter \subseteq Nat /\ ServerDelays \subseteq Nat
  BY PacingAssumption DEF PacingAssumption

\* What the end of a tick leaves behind: no open row, and a pause that is at least
\* as long as the cooldown that ended it.
TickOver(hold) ==
  /\ pc' \in {"wait", "done"}
  /\ wait' \in Nat /\ wait' >= hold
  /\ limited' \in BOOLEAN /\ (limited' => hold > 0)
  /\ claim' \in {"none", "accepted", "unknown"}
  /\ claim' = "accepted" => claim = "accepted"
  /\ kind' = kind /\ attempt' = attempt /\ sent' = sent

\* A tick that ends leaves no request under way.
LEMMA EndTickEnds ==
  ASSUME TypeOK, NEW hold \in Nat, EndTick(hold)
  PROVE  TickOver(hold)
<1>1. limited' = (hold > 0)
  BY DEF EndTick
<1>2. limited' \in BOOLEAN
  <2>1. CASE hold > 0
    BY <1>1, <2>1
  <2>2. CASE ~(hold > 0)
    BY <1>1, <2>2
  <2> QED BY <2>1, <2>2
<1>3. limited' => hold > 0
  BY <1>1
<1> QED
  BY <1>2, <1>3, ConstantFacts DEF EndTick, TickOver, TypeOK, Larger

\* The invariant holds at every start of the process.
LEMMA InitHolds == Init => IInv
<1> SUFFICES ASSUME Init PROVE IInv
  OBVIOUS
<1> USE ConstantFacts DEF Init
<1>1. TypeOK
  <2>1. limited \in BOOLEAN /\ quit \in BOOLEAN /\ stop \in BOOLEAN /\ armed \in BOOLEAN
    OBVIOUS
  <2>2. cool \in Int /\ floor \in Nat
    OBVIOUS
  <2> QED BY <2>1, <2>2 DEF TypeOK, NoDeadline
<1>2. BackoffRemembered
  BY DEF BackoffRemembered, Lesser
<1>3. CooldownSeen
  BY DEF CooldownSeen, Larger
<1>4. SubmittedOnce /\ QuitIsPrompt /\ ClaimFollowsCall /\ GuardSeen /\ SignalSeen
  BY DEF SubmittedOnce, QuitIsPrompt, ClaimFollowsCall, GuardSeen, SignalSeen
<1> QED BY <1>1, <1>2, <1>3, <1>4 DEF IInv

\* Every step keeps the invariant: one case per action.
LEMMA StepHolds == IInv /\ [Next]_vars => IInv'
<1> SUFFICES ASSUME IInv, [Next]_vars PROVE IInv'
  OBVIOUS
<1> USE DEF Ready, Repeatable, Ask, Stopping, host, orders, book
<1>0. TypeOK /\ BackoffRemembered /\ SubmittedOnce /\ QuitIsPrompt
      /\ CooldownSeen /\ ClaimFollowsCall /\ GuardSeen /\ SignalSeen
  BY DEF IInv
<1>a. \A hold \in Nat : EndTick(hold) => TickOver(hold)
  BY <1>0, EndTickEnds
\* The cases that need more than the definitions of their step.
<1>1. CASE CoolingDown
  <2>a. Hold(cool) \in Nat /\ Hold(cool) >= cool
    BY <1>0, <1>1 DEF CoolingDown, TypeOK, Hold, Larger
  <2>b. PICK hold \in Nat : TickOver(hold) /\ hold >= cool
    BY <1>a, <1>1, <2>a DEF CoolingDown
  <2> USE <1>0, <1>1, <2>b DEF CoolingDown, TickOver
  <2>1. TypeOK'
    BY ConstantFacts DEF TypeOK, NoDeadline, Lesser, Larger
  <2>2. BackoffRemembered'
    BY DEF BackoffRemembered
  <2>3. CooldownSeen'
    BY ConstantFacts DEF CooldownSeen, TypeOK, Larger
  <2>4. SubmittedOnce' /\ ClaimFollowsCall'
    BY DEF SubmittedOnce, ClaimFollowsCall, TypeOK
  <2>5. GuardSeen' /\ SignalSeen' /\ QuitIsPrompt'
    BY DEF GuardSeen, SignalSeen, QuitIsPrompt, ClaimFollowsCall, TypeOK
  <2> QED BY <2>1, <2>2, <2>3, <2>4, <2>5 DEF IInv
<1>2. CASE TakeTurn
  <2> USE <1>0, <1>2 DEF TakeTurn
  <2>0. armed' \in BOOLEAN
    OBVIOUS
  <2>1. TypeOK'
    BY ConstantFacts, <2>0 DEF TypeOK, NoDeadline
  <2>2. BackoffRemembered'
    BY DEF BackoffRemembered
  <2>3. CooldownSeen'
    BY ConstantFacts DEF CooldownSeen, TypeOK, Larger
  <2>4. SubmittedOnce' /\ ClaimFollowsCall'
    BY DEF SubmittedOnce, ClaimFollowsCall, TypeOK
  <2>5. GuardSeen' /\ SignalSeen' /\ QuitIsPrompt'
    BY DEF GuardSeen, SignalSeen, QuitIsPrompt, ClaimFollowsCall, TypeOK
  <2> QED BY <2>1, <2>2, <2>3, <2>4, <2>5 DEF IInv
<1>3. CASE GuardLog
  <2> USE <1>0, <1>a, <1>3 DEF GuardLog, TickOver
  <2>1. TypeOK'
    BY ConstantFacts DEF TypeOK, NoDeadline, Lesser, Larger
  <2>2. BackoffRemembered'
    BY DEF BackoffRemembered
  <2>3. CooldownSeen'
    BY ConstantFacts DEF CooldownSeen, TypeOK, Larger
  <2>4. SubmittedOnce' /\ ClaimFollowsCall'
    BY DEF SubmittedOnce, ClaimFollowsCall, TypeOK
  <2>5. GuardSeen' /\ SignalSeen' /\ QuitIsPrompt'
    BY DEF GuardSeen, SignalSeen, QuitIsPrompt, ClaimFollowsCall, TypeOK
  <2> QED BY <2>1, <2>2, <2>3, <2>4, <2>5 DEF IInv
<1>4. CASE TooManyRequests
  <2>1. PICK asked \in RetryAfter, delay \in Nat :
          /\ delay = Delay(level', asked) /\ delay >= asked
          /\ cool' = delay /\ owed' = asked
          /\ EndTick(IF kind # "submit" THEN Hold(delay) ELSE 0)
    <3>1. level' \in 1..MaxLevel
      BY <1>0, <1>4, ConstantFacts DEF TooManyRequests, TypeOK, Lesser
    <3>2. \A asked \in RetryAfter : Delay(level', asked) \in Nat /\ Delay(level', asked) >= asked
      BY <3>1, ConstantFacts DEF Delay, Larger
    <3> QED BY <1>4, <3>2 DEF TooManyRequests
  <2>2. PICK hold \in Nat : TickOver(hold) /\ (hold > 0 => hold >= cool')
    BY <1>a, <2>1 DEF Hold, Larger
  <2> USE <1>0, <2>1, <2>2 DEF TickOver
  <2>3. TypeOK'
    <3>1. Ceiling \in Nat
      BY ConstantFacts DEF Ceiling
    <3>2. level' \in 0..MaxLevel /\ floor' \in Nat /\ owed' \in Nat
      BY <1>4, <3>1, ConstantFacts DEF TooManyRequests, TypeOK, Lesser
    <3>3. cool' \in Int /\ cool' >= -ResetAfter
      BY ConstantFacts
    <3> QED BY <1>4, <3>2, <3>3 DEF TooManyRequests, TypeOK, NoDeadline
  <2>4. BackoffRemembered'
    <3>1. CASE level + 1 < MaxLevel
      <4>1. level' = level + 1 /\ floor' = Lesser(Ceiling, 2 * floor)
        BY <1>4, <3>1 DEF TooManyRequests, TypeOK, Lesser
      <4>2. level + 1 \in 1..MaxLevel - 1 /\ floor <= Backoff[level + 1]
        BY <3>1, ConstantFacts DEF TypeOK, BackoffRemembered, Lesser
      <4>3. Backoff[(level + 1) + 1] = Lesser(Ceiling, 2 * Backoff[level + 1])
        BY <4>2, PacingAssumption DEF PacingAssumption
      <4>4. Backoff[level + 1] \in Nat /\ Ceiling \in Nat
        BY <4>2, ConstantFacts DEF Ceiling
      <4>5. floor' <= Backoff[(level + 1) + 1]
        BY <4>1, <4>2, <4>3, <4>4 DEF TypeOK, Lesser
      <4> QED BY <3>1, <4>1, <4>5, ConstantFacts DEF BackoffRemembered, TypeOK, Lesser
    <3>2. CASE level + 1 >= MaxLevel
      <4>1. Lesser(level' + 1, MaxLevel) = MaxLevel
        BY <1>4, <3>2, ConstantFacts DEF TooManyRequests, TypeOK, Lesser
      <4>2. floor' <= Ceiling
        BY <1>4, ConstantFacts DEF TooManyRequests, TypeOK, Lesser, Ceiling
      <4> QED BY <4>1, <4>2 DEF BackoffRemembered, Ceiling
    <3> QED BY <3>1, <3>2, ConstantFacts DEF TypeOK
  <2>5. CooldownSeen'
    BY <1>4, ConstantFacts DEF TooManyRequests, CooldownSeen, TypeOK, Larger
  <2>6. SubmittedOnce' /\ ClaimFollowsCall'
    BY <1>4 DEF TooManyRequests, SubmittedOnce, ClaimFollowsCall, TypeOK
  <2>7. GuardSeen' /\ SignalSeen' /\ QuitIsPrompt'
    BY <1>4 DEF TooManyRequests, GuardSeen, SignalSeen, QuitIsPrompt, ClaimFollowsCall, TypeOK
  <2> QED BY <2>3, <2>4, <2>5, <2>6, <2>7 DEF IInv
\* The others.
<1> USE <1>0, <1>a, ConstantFacts DEF IInv, TypeOK, BackoffRemembered, SubmittedOnce,
    QuitIsPrompt, CooldownSeen, ClaimFollowsCall, GuardSeen, SignalSeen, NoDeadline,
    Lesser, Larger
<1>5. CASE BeginTick
  BY <1>5 DEF BeginTick
<1>6. CASE EndRun
  BY <1>6 DEF EndRun
<1>7. CASE TickReturns
  BY <1>7 DEF TickReturns, TickOver
<1>8. CASE PollSleep
  BY <1>8 DEF PollSleep
<1>9. CASE PollWake
  BY <1>9 DEF PollWake
<1>10. CASE NextRead
  BY <1>10 DEF NextRead
<1>11. CASE BeginSubmission
  BY <1>11 DEF BeginSubmission
<1>12. CASE StopBetweenOperations
  BY <1>12 DEF StopBetweenOperations, TickOver
<1>13. CASE AwaitTurn
  BY <1>13 DEF AwaitTurn
<1>14. CASE GuardFirst
  BY <1>14 DEF GuardFirst, GuardStop, TickOver
<1>15. CASE GuardLast
  BY <1>15 DEF GuardLast, GuardStop, TickOver
<1>16. CASE TooLate
  BY <1>16 DEF TooLate, DeadlineElapsed, TickOver
<1>17. CASE Transmit
  BY <1>17 DEF Transmit, DeadlineElapsed
<1>18. CASE Succeed
  BY <1>18 DEF Succeed, ForgetLimits
<1>19. CASE FindNothing
  BY <1>19 DEF FindNothing
<1>20. CASE Reject
  BY <1>20 DEF Reject, ForgetLimits, TickOver
<1>21. CASE Escape
  BY <1>21 DEF Escape
<1>22. CASE TransportError
  BY <1>22 DEF TransportError, Retry, Doubling, TickOver
<1>23. CASE ServerError
  BY <1>23 DEF ServerError, Retry, Doubling, TickOver
<1>24. CASE Elapse
  BY <1>24 DEF Elapse
<1>25. CASE Signal
  BY <1>25 DEF Signal
<1>26. CASE RequestStop
  BY <1>26 DEF RequestStop
<1>27. CASE UNCHANGED vars
  BY <1>27 DEF vars
<1> QED
  BY <1>1, <1>2, <1>3, <1>4, <1>5, <1>6, <1>7, <1>8, <1>9, <1>10, <1>11, <1>12, <1>13, <1>14, <1>15, <1>16, <1>17, <1>18, <1>19, <1>20, <1>21, <1>22, <1>23, <1>24, <1>25, <1>26, <1>27 DEF Next, Poll, Tick, Request, Answer

-----------------------------------------------------------------------------
\* The inductive invariant holds in every state.
THEOREM Invariant == Spec => []IInv
  BY InitHolds, StepHolds, PTL DEF Spec

\* Every variable keeps its type, whatever the host answers.
THEOREM TypeCorrect == Spec => []TypeOK
  BY Invariant, PTL DEF IInv

\* A claimed submission is transmitted at most once and its row is never left open,
\* for every interval, backoff and deadline.
THEOREM SubmissionOnce == Spec => []SubmittedOnce
  BY Invariant, PTL DEF IInv

\* The wait after 429 answers never falls below the doubled one before, whatever
\* table of doubling waits is used.
THEOREM BackoffKept == Spec => []BackoffRemembered
  BY Invariant, PTL DEF IInv

\* At most one request leaves after a signal.
THEOREM SignalPrompt == Spec => []QuitIsPrompt
  BY Invariant, PTL DEF IInv

\* A transmission is the step Transmit of a request whose look at the cooldown came
\* after the last 429.
LEMMA QuietStep == IInv /\ [Next]_vars => [Transmission => owed = 0]_vars
<1> SUFFICES ASSUME IInv, Transmission PROVE owed = 0
  OBVIOUS
<1> QED BY DEF IInv, TypeOK, CooldownSeen, Transmission, Larger

\* No request leaves while the host has asked to be left alone.
THEOREM HostLeftAlone == Spec => QuietWhenAsked
  BY Invariant, QuietStep, PTL DEF Spec, QuietWhenAsked

\* A submission under a reporter leaves with its guard's record standing.
LEMMA GuardStep ==
  IInv /\ [Next]_vars => [Transmission /\ kind = "submit" /\ observed => armed]_vars
<1> SUFFICES ASSUME IInv, Transmission, kind = "submit", observed PROVE armed
  OBVIOUS
<1> QED BY DEF IInv, GuardSeen, Transmission

\* A submission does not leave at its deadline.
LEMMA DeadlineStep ==
  IInv /\ [Next]_vars => [Transmission /\ kind = "submit" => due # 0]_vars
<1> SUFFICES ASSUME Next, Transmission, kind = "submit" PROVE due # 0
  OBVIOUS
<1>1. ~DeadlineElapsed
  BY DEF Transmission, Next, Poll, Tick, Request, Answer, BeginTick, EndRun, TickReturns,
    PollSleep, PollWake, NextRead, BeginSubmission, StopBetweenOperations, CoolingDown,
    AwaitTurn, TakeTurn, GuardFirst, GuardLog, GuardLast, GuardStop, TooLate, EndTick,
    Transmit, Succeed, FindNothing, Reject, Escape, TransportError, ServerError,
    TooManyRequests, Elapse, Signal, RequestStop, Ready
<1> QED BY <1>1 DEF DeadlineElapsed

\* No submission leaves at or after its deadline, however long it waited, nor, with
\* a reporter, without a log record of its own turn or after a stop that came before it.
THEOREM VetoesAlwaysHold == Spec => VetoesHold
<1>1. IInv /\ [Next]_vars
        => [Transmission /\ kind = "submit" => due # 0 /\ (observed => armed)]_vars
  BY GuardStep, DeadlineStep
<1> QED BY <1>1, Invariant, PTL DEF Spec, VetoesHold

\* A cycle after RateLimited starts with the cooldown over.
LEMMA CycleStep ==
  IInv /\ [Next]_vars => [pc = "poll" /\ pc' = "attempt" /\ limited => cool <= 0]_vars
<1> SUFFICES ASSUME IInv, Next, pc = "poll", pc' = "attempt", limited PROVE cool <= 0
  OBVIOUS
<1>1. ~Stopping
  BY DEF Next, Poll, Tick, Request, Answer, BeginTick, EndRun, TickReturns, PollSleep,
    PollWake, NextRead, BeginSubmission, StopBetweenOperations, CoolingDown, AwaitTurn,
    TakeTurn, GuardFirst, GuardLog, GuardLast, GuardStop, TooLate, Transmit, Succeed,
    FindNothing, Reject, Escape, TransportError, ServerError, TooManyRequests, Elapse,
    Signal, RequestStop, Ready
<1> QED BY <1>1 DEF IInv, CooldownSeen

\* A cycle that follows RateLimited starts after the cooldown.
THEOREM CooldownWaitedOut == Spec => CycleWaitsOut
  BY Invariant, CycleStep, PTL DEF Spec, CycleWaitsOut
=============================================================================
