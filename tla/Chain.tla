------------------------------- MODULE Chain -------------------------------
(***************************************************************************)
(* The Cardano ledger and the network in front of it, as the trading       *)
(* engine uses them through its provider.  Not code of the repository: the *)
(* model is drawn from what coordinator.py and providers.py ask of it - a  *)
(* canonical block at a height, the inclusion of a transaction, the state  *)
(* of an output - and from the two roll-back facts the code relies on (a   *)
(* block hash commits to its ancestry; the tip moves).                     *)
(*                                                                         *)
(* A block carries at most one transaction of interest.  Its "hash" is the *)
(* number of the fork that minted it: the pair (height, hash) names one    *)
(* block, and a fork once left does not return.                            *)
(***************************************************************************)
EXTENDS Candidates, Sequences

CONSTANTS
  MaxHeight,    \* bound: blocks on a chain
  MaxForks,     \* bound: roll-backs in a behaviour
  MaxGap,       \* bound: slots from one block to the next
  MaxReorg,     \* blocks a node may roll back from the highest tip it had
  NoTx          \* the transaction of a block that carries none of these

ASSUME ChainAssumption ==
  /\ NoTx \notin Txs
  /\ MaxHeight \in Nat \ {0} /\ MaxGap \in Nat \ {0}
  /\ MaxForks \in Nat /\ MaxReorg \in Nat

VARIABLES
  chain,        \* the canonical chain: chain[h] is the block at height h
  forks,        \* roll-backs so far; the hash of the blocks minted next
  fixed,        \* height below which no roll-back reaches
  wire          \* own transactions the network has received

chainVars == <<chain, forks, fixed, wire>>

Blocks == [hash : 0..MaxForks, slot : Nat, tx : Txs \cup {NoTx}, valid : BOOLEAN]
Heights == 1..MaxHeight

ChainTypeOK ==
  /\ chain \in Seq(Blocks) /\ Len(chain) \in Heights
  /\ forks \in 0..MaxForks
  /\ fixed \in Heights
  /\ wire \subseteq Intents

ChainInit ==
  /\ chain = <<[hash |-> 0, slot |-> 1, tx |-> NoTx, valid |-> TRUE]>>
  /\ forks = 0
  /\ fixed = 1
  /\ wire = {}

----------------------------------------------------------------------------
(* What the provider reads off the canonical chain.                        *)

Height == Len(chain)
Slot == chain[Height].slot
NextSlots == (Slot + 1)..(Slot + MaxGap)
HashAt(h) == IF h \in 1..Height THEN chain[h].hash ELSE -1  \* -1: no such block

InclusionHeights(t) == {h \in 1..Height : chain[h].tx = t}
OnChain(t) == InclusionHeights(t) # {}

\* A phase-2 failure consumes the collateral instead of the regular inputs.
Consumed(b) ==
  IF b.tx = NoTx THEN {}
  ELSE IF b.valid THEN Spends[b.tx] ELSE Pledges[b.tx]
SpentBelow(h) == UNION {Consumed(chain[k]) : k \in 1..h}
Spent == SpentBelow(Height)

----------------------------------------------------------------------------
(* The environment's steps.                                                *)

Includable(t, slot) ==
  /\ t \in wire \cup Foreign
  /\ ~ OnChain(t)
  /\ Roles(t) \cap Spent = {}
  /\ slot < Expires[t]

\* A block is minted; the network keeps every transaction it has received,
\* and is never obliged to include one.  A script may fail in phase 2 only
\* for a transaction that pledges collateral.
Mint(b) ==
  /\ Height < MaxHeight
  /\ chain' = Append(chain, b)
  /\ fixed' = IF Height + 1 - MaxReorg > fixed THEN Height + 1 - MaxReorg ELSE fixed
  /\ UNCHANGED <<forks, wire>>

MintEmpty(slot) ==
  Mint([hash |-> forks, slot |-> slot, tx |-> NoTx, valid |-> TRUE])

MintWith(t, ok, slot) ==
  /\ Includable(t, slot)
  /\ ok \/ Pledges[t] # {}
  /\ Mint([hash |-> forks, slot |-> slot, tx |-> t, valid |-> ok])

\* The node leaves its fork at height n; later blocks belong to another one.
Rollback(n) ==
  /\ n \in 1..(Height - 1) /\ n >= fixed
  /\ forks < MaxForks
  /\ chain' = SubSeq(chain, 1, n)
  /\ forks' = forks + 1
  /\ UNCHANGED <<fixed, wire>>

ChainNext ==
  \/ \E slot \in NextSlots : MintEmpty(slot)
  \/ \E t \in Txs, ok \in BOOLEAN, slot \in NextSlots : MintWith(t, ok, slot)
  \/ \E n \in Heights : Rollback(n)

----------------------------------------------------------------------------
\* t could still enter some canonical chain from here on: it is on the wire
\* and the part of the chain that stays leaves room for it.
CanLand(t) ==
  /\ t \in wire
  /\ \A h \in 1..fixed : chain[h].tx # t
  /\ Roles(t) \cap SpentBelow(fixed) = {}
  /\ chain[fixed].slot + 1 < Expires[t]
=============================================================================
