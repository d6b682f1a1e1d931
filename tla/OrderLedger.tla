---------------------------- MODULE OrderLedger ----------------------------
(***************************************************************************)
(* OrderObserver.sync (settlement.py): the lineage of the wallet's orders, *)
(* rebuilt from the transactions at the order address.  The pass reads the *)
(* history, every block the history or the stored events mention, the      *)
(* inclusion of what is new, the unspent orders, the tip, and every block  *)
(* once more; the chain may grow or leave its fork between any two reads,  *)
(* and the history may trail the chain or omit a transaction for a while.  *)
(* Only then the journal replaces events, projection and fills in one      *)
(* transaction.                                                            *)
(*                                                                         *)
(* A transaction creates an order, fills one (spends its output and makes  *)
(* the continuation) or closes one.  Terms, amounts and datums are         *)
(* abstracted: what they could contradict raises.                          *)
(***************************************************************************)
EXTENDS Integers, Sequences, FiniteSets

CONSTANTS
  Creates, Fills, Closes,   \* transactions at the order address
  Takes,        \* Takes[t]: the order output t spends (None for a creation)
  Makes,        \* Makes[t]: the order output t makes (None for a close)
  None,
  Confirmations,  \* profile.confirmations
  Lag,          \* blocks the history may trail the chain
  Gaps,         \* transactions it may omit at once
  MaxHeight, MaxForks, MaxReorg   \* bounds, as in the Chain module

Txs == Creates \cup Fills \cup Closes
Outputs == {Makes[t] : t \in Creates \cup Fills}

ASSUME OrderLedgerAssumption ==
  /\ None \notin Txs \cup Outputs
  /\ \A t \in Creates : Takes[t] = None
  /\ \A t \in Fills \cup Closes : Takes[t] \in Outputs
  /\ \A t \in Closes : Makes[t] = None
  /\ \A t, u \in Creates \cup Fills : Makes[t] = Makes[u] => t = u
  /\ Confirmations \in Nat \ {0} /\ Lag \in Nat /\ Gaps \in Nat
  /\ MaxHeight \in Nat \ {0} /\ MaxForks \in Nat /\ MaxReorg \in Nat

VARIABLES
  chain,        \* canonical chain: blocks with their fork and transaction
  forks,        \* roll-backs so far
  fixed,        \* height no roll-back reaches
  eras,         \* history: the events of every chain the node has had
  events,       \* journal: chain_events
  counted,      \* journal: fills that are not reversed
  live,         \* journal: outputs of live orders in the projection
  pending,      \* journal: the projection saw younger activity
  pc,           \* step of the pass
  tip,          \* tip_after of the history
  rows,         \* the history: transactions and their heights
  blocks,       \* hash read at each height (Unread, Missing)
  found,        \* events established so far in this pass
  again,        \* heights still to be read back
  since         \* history: forks there had been when the history was read,
                \* -1 when it omitted something

chainVars == <<chain, forks, fixed, eras>>
journalVars == <<events, counted, live, pending>>
listing == <<tip, rows, since>>
passVars == <<pc, listing, blocks, found, again>>
vars == <<chainVars, journalVars, passVars>>

Heights == 1..MaxHeight
Missing == -1
Unread == -2
NoBlocks == [h \in Heights |-> Unread]
Event == [tx : Txs, height : Heights, hash : 0..MaxForks]

TypeOK ==
  /\ chain \in Seq([hash : 0..MaxForks, tx : Txs \cup {None}])
  /\ forks \in 0..MaxForks /\ fixed \in Heights
  /\ eras \in SUBSET SUBSET Event
  /\ events \in SUBSET Event /\ counted \in SUBSET Fills
  /\ live \in SUBSET Outputs /\ pending \in BOOLEAN
  /\ pc \in {"idle", "blocks", "events", "utxos", "tip", "again", "crashed"} /\ tip \in 0..MaxHeight
  /\ rows \in SUBSET [tx : Txs, height : Heights]
  /\ blocks \in [Heights -> -2..MaxForks]
  /\ found \in SUBSET Event /\ again \in SUBSET Heights /\ since \in -1..MaxForks
  /\ \A e, f \in events : e.tx = f.tx => e = f

Init ==
  /\ chain = <<[hash |-> 0, tx |-> None]>> /\ forks = 0 /\ fixed = 1
  /\ eras = {{}}
  /\ events = {} /\ counted = {} /\ live = {} /\ pending = FALSE
  /\ pc = "idle" /\ tip = 0 /\ rows = {} /\ blocks = NoBlocks
  /\ found = {} /\ again = {} /\ since = 0

----------------------------------------------------------------------------
(* The ledger.                                                             *)

Height == Len(chain)
HashAt(h) == IF h \in 1..Height THEN chain[h].hash ELSE Missing
EventAt(c, h) == [tx |-> c[h].tx, height |-> h, hash |-> c[h].hash]
EventsOf(c) == {EventAt(c, h) : h \in {k \in 1..Len(c) : c[k].tx # None}}
OnChain == EventsOf(chain)

Unspent(E) ==
  {Makes[e.tx] : e \in {f \in E : f.tx \notin Closes}}
    \ {Takes[e.tx] : e \in {f \in E : f.tx \notin Creates}}

Mint(t) ==
  /\ Height < MaxHeight
  /\ t # None => /\ \A e \in OnChain : e.tx # t
                 /\ Takes[t] \in Unspent(OnChain) \cup {None}
  /\ chain' = Append(chain, [hash |-> forks, tx |-> t])
  /\ fixed' = IF Height + 1 - MaxReorg > fixed THEN Height + 1 - MaxReorg ELSE fixed
  /\ eras' = eras \cup {EventsOf(chain')}
  /\ UNCHANGED <<forks, journalVars, passVars>>

Rollback(n) ==
  /\ n \in fixed..(Height - 1) /\ forks < MaxForks
  /\ chain' = SubSeq(chain, 1, n)
  /\ forks' = forks + 1
  /\ UNCHANGED <<fixed, eras, journalVars, passVars>>

----------------------------------------------------------------------------
(* project_history: the lineage of a set of events.                        *)

\* The output a fill continues must come from an earlier event.
Replayable(E) ==
  \A e \in E : e.tx \in Fills =>
    \E f \in E : f.tx \notin Closes /\ Makes[f.tx] = Takes[e.tx] /\ f.height < e.height

----------------------------------------------------------------------------
(* The pass.                                                               *)

Finish ==
  /\ pc' = "idle" /\ tip' = 0 /\ rows' = {} /\ blocks' = NoBlocks
  /\ found' = {} /\ again' = {} /\ since' = 0

\* Any disagreement and any provider error raises: accounting is retained.
Raise == pc \notin {"idle", "crashed"} /\ Finish /\ UNCHANGED <<chainVars, journalVars>>

\* An error the scheduler does not expect ends the process; it is run again.
Restart == pc = "crashed" /\ Finish /\ UNCHANGED <<chainVars, journalVars>>

ReadHistory ==
  /\ pc = "idle"
  /\ \E n \in 0..Lag, omitted \in SUBSET Txs :
       /\ Cardinality(omitted) <= Gaps
       /\ rows' = {[tx |-> e.tx, height |-> e.height] :
                     e \in {f \in OnChain : f.height + n <= Height /\ f.tx \notin omitted}}
       /\ since' = IF omitted = {} THEN forks ELSE -1
  /\ tip' = Height
  /\ pc' = "blocks"
  /\ UNCHANGED <<chainVars, journalVars, blocks, found, again>>

\* Heights of the stored events and of the history, each read once.
Asked == {e.height : e \in events} \cup {r.height : r \in rows}
Known == {h \in Heights : blocks[h] # Unread}

ReadBlock(h) ==
  /\ pc = "blocks" /\ h \in Asked \ Known
  /\ blocks' = [blocks EXCEPT ![h] = HashAt(h)]
  /\ UNCHANGED <<chainVars, journalVars, pc, listing, found, again>>

Listed(t) == \E r \in rows : r.tx = t
Confirmed(h) == tip - h + 1 >= Confirmations
Deep == {r \in rows : Confirmed(r.height)}

\* Slip: a stored event that is not listed any more is forgotten.
TakeCachedOnly ==
  /\ pc = "blocks" /\ Asked \subseteq Known
  /\ \A r \in rows : blocks[r.height] # Missing
  /\ found' = {e \in events : /\ blocks[e.height] = e.hash
                              /\ [tx |-> e.tx, height |-> e.height] \in Deep}
  /\ pc' = "events"
  /\ UNCHANGED <<chainVars, journalVars, listing, blocks, again>>

\* A stored event may only be gone from the history when its block was
\* replaced; one whose block stands is taken from the journal.
TakeCached ==
  /\ pc = "blocks" /\ Asked \subseteq Known
  /\ \A e \in events : Listed(e.tx) \/ blocks[e.height] \notin {Missing, e.hash}
  /\ \A r \in rows : blocks[r.height] # Missing
  /\ found' = {e \in events : /\ blocks[e.height] = e.hash
                              /\ [tx |-> e.tx, height |-> e.height] \in Deep}
  /\ pc' = "events"
  /\ UNCHANGED <<chainVars, journalVars, listing, blocks, again>>

Left == {r \in Deep : \A e \in found : e.tx # r.tx}

\* transaction_info must name the height of the history and the block read.
ReadInfo(r) ==
  /\ pc = "events" /\ r \in Left
  /\ \E e \in OnChain : e.tx = r.tx /\ e.height = r.height /\ e.hash = blocks[r.height]
                        /\ found' = found \cup {e}
  /\ UNCHANGED <<chainVars, journalVars, pc, listing, blocks, again>>

Project ==
  /\ pc = "events" /\ Left = {}
  /\ Replayable(found)
  /\ pc' = "utxos"
  /\ UNCHANGED <<chainVars, journalVars, listing, blocks, found, again>>

\* Slip: the unspent orders are not compared with the lineage.
ReadUtxosUnchecked ==
  /\ pc = "utxos"
  /\ pc' = "tip"
  /\ UNCHANGED <<chainVars, journalVars, listing, blocks, found, again>>

\* Unspent orders may differ from the lineage only by activity that is listed
\* and not deep yet.
ReadUtxos ==
  /\ pc = "utxos"
  /\ Unspent(OnChain) = Unspent(found) \/ rows # Deep
  /\ pc' = "tip"
  /\ UNCHANGED <<chainVars, journalVars, listing, blocks, found, again>>

CheckTip ==
  /\ pc = "tip" /\ Height >= tip
  /\ pc' = "again" /\ again' = Known
  /\ UNCHANGED <<chainVars, journalVars, listing, blocks, found>>

\* Slip: the blocks are not read back.
RecheckNothing(h) ==
  /\ pc = "again" /\ h \in again
  /\ again' = again \ {h}
  /\ UNCHANGED <<chainVars, journalVars, pc, listing, blocks, found>>

\* Every block is read back and must be the one read before.
Recheck(h) ==
  /\ pc = "again" /\ h \in again
  /\ HashAt(h) = blocks[h] /\ blocks[h] # Missing
  /\ again' = again \ {h}
  /\ UNCHANGED <<chainVars, journalVars, pc, listing, blocks, found>>

\* The comparison reads the hash of a block that was not there the first time
\* (again["hash"] != block["hash"] with block None), a TypeError.
RecheckCrash(h) ==
  /\ pc = "again" /\ h \in again
  /\ blocks[h] = Missing /\ HashAt(h) # Missing
  /\ pc' = "crashed"
  /\ UNCHANGED <<chainVars, journalVars, listing, blocks, found, again>>

FillsIn(E) == {e.tx : e \in E} \cap Fills

\* Slip: fills that are gone are not marked reversed.
CommitKeepingFills ==
  /\ pc = "again" /\ again = {}
  /\ events' = found
  /\ counted' = counted \cup FillsIn(found)
  /\ live' = Unspent(found)
  /\ pending' = (rows # Deep)
  /\ Finish
  /\ UNCHANGED chainVars

\* replace_order_projection: one transaction.
Commit ==
  /\ pc = "again" /\ again = {}
  /\ events' = found
  /\ counted' = FillsIn(found)
  /\ live' = Unspent(found)
  /\ pending' = (rows # Deep)
  /\ Finish
  /\ UNCHANGED chainVars

Next ==
  \/ \E t \in Txs \cup {None} : Mint(t)
  \/ \E n \in Heights : Rollback(n)
  \/ ReadHistory \/ TakeCached \/ Project \/ ReadUtxos \/ CheckTip
  \/ Commit \/ Raise \/ Restart
  \/ \E h \in Heights : ReadBlock(h) \/ Recheck(h) \/ RecheckCrash(h)
  \/ \E r \in rows : ReadInfo(r)

Spec == Init /\ [][Next]_vars

----------------------------------------------------------------------------
(* Properties.                                                             *)

\* Whatever the chain did between the reads, the stored events never mix two
\* forks: they are order transactions of one chain the node had (the closing
\* re-read in sync).  They are all of that chain's, up to some height, if the
\* history omitted nothing and no roll-back came during the pass; else one that
\* the history could not list may be missing below one that it did, and a later
\* pass finds it.
OneHistory ==
  /\ \E E \in eras : events \subseteq E
  /\ pc = "again" /\ forks = since => found \in eras

\* As long as nothing is pending, the orders that count as live are the unspent
\* orders of one chain the node had, whatever the history omitted (the
\* comparison with address_utxos in sync).
LiveOrdersStood == ~ pending => \E E \in eras : live = Unspent(E)

\* An event that was accounted for leaves the journal only when the chain has
\* left its block, or has become so short that it is pending again; a history
\* that trails behind does not erase a fill.
NothingForgotten ==
  [][\A e \in events \ events' :
       \/ HashAt(e.height) # e.hash
       \/ [tx |-> e.tx, height |-> e.height] \in rows \ Deep]_vars

\* The counted fills and the live orders tell one story: a fill's continuation
\* is live or was taken by a later event, what it took was made by a counted
\* fill or a creation, and a live continuation has its fill counted.  So every
\* trade is counted once, also when fills were reversed and came back.
FillsExplainOrders ==
  /\ \A t \in counted :
       /\ Makes[t] \in live \/ \E e \in events : Takes[e.tx] = Makes[t]
       /\ \E u \in counted \cup ({e.tx : e \in events} \cap Creates) : Makes[u] = Takes[t]
  /\ \A t \in Fills : Makes[t] \in live => t \in counted

\* "incomplete history pauses execution" (settlement.py:5): no disagreement
\* of the provider with itself ends the process.
DisagreementPauses == pc # "crashed"
=============================================================================
