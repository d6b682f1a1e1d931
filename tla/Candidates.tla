----------------------------- MODULE Candidates -----------------------------
(***************************************************************************)
(* The transactions of a behaviour: what each spends, what it pledges as   *)
(* collateral and when its validity ends (transaction body fields inputs,  *)
(* collateral and ttl).  The wallet's own candidates are fixed before the  *)
(* behaviour starts and the engine chooses when to prepare them.           *)
(***************************************************************************)
EXTENDS Integers, FiniteSets

CONSTANTS
  Intents,      \* transactions this wallet may prepare
  Foreign,      \* transactions of others (they spend shared outputs)
  Refs,         \* transaction outputs
  Spends,       \* Spends[t]: regular inputs of t
  Pledges,      \* Pledges[t]: collateral inputs of t
  Expires       \* Expires[t]: first slot in which t is no longer valid

Txs == Intents \cup Foreign
Roles(t) == Spends[t] \cup Pledges[t]

\* prepare_candidate refuses a body without inputs, without a ttl, or whose
\* spending and collateral inputs overlap.
ASSUME CandidateAssumption ==
  /\ Intents \cap Foreign = {}
  /\ Spends \in [Txs -> SUBSET Refs]
  /\ Pledges \in [Txs -> SUBSET Refs]
  /\ Expires \in [Txs -> Nat]
  /\ \A t \in Txs : Spends[t] # {} /\ Spends[t] \cap Pledges[t] = {}
=============================================================================
