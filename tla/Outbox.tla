------------------------------ MODULE Outbox ------------------------------
(***************************************************************************)
(* What the coordinator promises about sending: the wallet has one slot.   *)
(* A candidate takes it once in its life and leaves it for good; while it  *)
(* has the slot it is launched once at most, and one wire call at most is  *)
(* made for that launch.  Whatever happens after that (confirmation,       *)
(* roll-back, retirement) never puts it back.                              *)
(***************************************************************************)
EXTENDS Naturals

CONSTANTS Intents, Nobody

VARIABLES
  slot,         \* the candidate whose fate is open, or Nobody
  taken,        \* candidates that have had the slot
  launches,     \* how often each has been launched
  calls         \* how often its bytes have been handed to the wire

Init ==
  /\ slot = Nobody /\ taken = {}
  /\ launches = [i \in Intents |-> 0] /\ calls = [i \in Intents |-> 0]

Take(i) ==
  /\ slot = Nobody /\ i \notin taken
  /\ slot' = i /\ taken' = taken \cup {i}
  /\ UNCHANGED <<launches, calls>>

Launch ==
  /\ slot # Nobody /\ launches[slot] = 0
  /\ launches' = [launches EXCEPT ![slot] = 1]
  /\ UNCHANGED <<slot, taken, calls>>

Call ==
  /\ slot # Nobody /\ launches[slot] = 1 /\ calls[slot] = 0
  /\ calls' = [calls EXCEPT ![slot] = 1]
  /\ UNCHANGED <<slot, taken, launches>>

Leave ==
  /\ slot # Nobody /\ slot' = Nobody
  /\ UNCHANGED <<taken, launches, calls>>

Next == (\E i \in Intents : Take(i)) \/ Launch \/ Call \/ Leave

Spec == Init /\ [][Next]_<<slot, taken, launches, calls>>
=============================================================================
