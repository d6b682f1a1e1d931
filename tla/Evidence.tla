------------------------------ MODULE Evidence ------------------------------
(***************************************************************************)
(* What the engine takes as one answer of its provider is a conversation:  *)
(* an address history is read page by page between two reads of the tip,   *)
(* and the proof that an output was spent by somebody else is a history or *)
(* a lookup, then bytes, inclusion, block and tip.  The chain moves        *)
(* between any two of these reads.  The adapters are Koios (providers.py)  *)
(* and Dolos (dolos.py); Coordinator and OrderLedger use the answers.      *)
(*                                                                         *)
(* Every transaction belongs to the address.  The output Ref was created   *)
(* below the first block, so no height bound applies to its history.       *)
(***************************************************************************)
EXTENDS Chain, FiniteSets

CONSTANTS
  Ref,            \* the reserved output whose spender is looked for
  Own,            \* the candidate that reserved it (exclude)
  Rank,           \* Rank[t]: order of the transaction hashes
  PageSize,       \* entries of a full page
  MaxPages,       \* pages a scan may take
  Confirmations

ASSUME EvidenceAssumption ==
  /\ Ref \in Refs /\ Own \in Txs
  /\ Rank \in [Txs -> Nat] /\ \A t, u \in Txs : Rank[t] = Rank[u] => t = u
  /\ PageSize \in Nat \ {0} /\ MaxPages \in Nat \ {0} /\ Confirmations \in Nat \ {0}

VARIABLES
  adapter,  \* which adapter answers: koios or dolos
  pc,       \* the read that comes next, or how the call ended
  goal,     \* what the call is for: history or spender
  before,   \* tip read first
  last,     \* tip read last
  rows,     \* entries read so far
  offset,   \* where the next page begins
  pages,    \* pages read
  item,     \* entry that is looked at
  found,    \* inclusion that was read for it
  \* History:
  base,     \* entries on the chain when the first tip was read
  cut       \* the chain has been rolled back since then, or, for Dolos'
            \* spender, since its block was read

scan == <<before, last, rows, offset, pages>>
lookup == <<item, found>>
vars == <<chainVars, adapter, pc, goal, scan, lookup, base, cut>>

Tip == [height |-> Height, hash |-> HashAt(Height)]
Row(h) == [tx |-> chain[h].tx, height |-> h, slot |-> chain[h].slot]
Rows == {Row(h) : h \in {k \in 1..Height : chain[k].tx # NoTx}}
NoPoint == [height |-> 0, hash |-> -1]
NoRow == [tx |-> NoTx, height |-> 0, slot |-> 0]

Entries == [tx : Txs, height : Heights, slot : Nat]
Points == [height : 0..MaxHeight, hash : -1..MaxForks]
Reads == {"page", "close", "anchor", "item", "bytes", "info", "block", "tip"}
Ends == {"listed", "proved", "none"}

TypeOK ==
  /\ ChainTypeOK
  /\ adapter \in {"koios", "dolos"} /\ goal \in {"history", "spender"}
  /\ pc \in {"idle"} \cup Reads \cup Ends
  /\ before \in Points /\ last \in Points /\ found \in Points
  /\ rows \subseteq Entries /\ base \subseteq Entries
  /\ item \in Entries \cup {NoRow}
  /\ offset \in Nat /\ pages \in 0..MaxPages
  /\ cut \in BOOLEAN
  \* Only Dolos reads an anchor, and only a lookup of Dolos a tip of its own.
  /\ pc \in {"anchor", "tip"} => adapter = "dolos"
  /\ pc = "item" => adapter = "koios" /\ goal = "spender"

NoCall ==
  /\ before = NoPoint /\ last = NoPoint /\ rows = {} /\ offset = 0 /\ pages = 0
  /\ item = NoRow /\ found = NoPoint /\ base = {} /\ cut = FALSE

Init == ChainInit /\ pc = "idle" /\ adapter \in {"koios", "dolos"} /\ goal = "history" /\ NoCall

-----------------------------------------------------------------------------
(* Histories.                                                              *)

\* verify_identity, then the tip.
BeginScan(g) ==
  /\ pc = "idle"
  /\ g = "spender" => adapter = "koios"
  /\ goal' = g /\ pc' = "page"
  /\ before' = Tip /\ base' = Rows
  /\ UNCHANGED <<chainVars, adapter, last, rows, offset, pages, lookup, cut>>

\* Koios sorts by transaction hash, Dolos by position on the chain.
Key(r) == IF adapter = "koios" THEN Rank[r.tx] ELSE r.height
Position(r) == Cardinality({q \in Rows : Key(q) <= Key(r)})

\* The entries of a page that begins at the offset and has room for n.
Page(n) == {r \in Rows : Position(r) \in (offset + 1) .. (offset + n)}

ReadPage(n, step) ==
  /\ pc = "page" /\ pages < MaxPages
  /\ Page(n) # {}
  /\ rows' = rows \cup Page(n)
  /\ offset' = offset + step
  /\ pages' = pages + 1
  /\ UNCHANGED <<chainVars, adapter, pc, goal, before, last, lookup, base, cut>>

\* Koios.scan: the server may cap a page, so the offset follows what came.  An
\* entry may come again if it is the same, but a page must bring a new one.
KoiosPage ==
  /\ adapter = "koios"
  /\ \E n \in 1..PageSize :
       /\ \A r \in Page(n), q \in rows : r.tx = q.tx => r = q
       /\ ~ (Page(n) \subseteq rows)
       /\ ReadPage(n, Cardinality(Page(n)))

\* Dolos.address_transactions: numbered pages, in which nothing may come again.
DolosPage ==
  /\ adapter = "dolos"
  /\ \A r \in Page(PageSize), q \in rows : r.tx # q.tx
  /\ ReadPage(PageSize, PageSize)

\* The empty page that ends the scan.
LastPage ==
  /\ pc = "page" /\ pages < MaxPages
  /\ Page(PageSize) = {}
  /\ pc' = "close"
  /\ UNCHANGED <<chainVars, adapter, goal, scan, lookup, base, cut>>

\* Koios.scan: the tip has not fallen back and is not another one of the same height.
KoiosClose ==
  /\ pc = "close" /\ adapter = "koios"
  /\ Height >= before.height
  /\ Height = before.height => Tip.hash = before.hash
  /\ last' = Tip
  /\ pc' = IF goal = "history" THEN "listed" ELSE "item"
  /\ UNCHANGED <<chainVars, adapter, goal, before, rows, offset, pages, lookup, base, cut>>

\* Dolos._observation: the tip, then the block at the height of the first tip.
DolosClose ==
  /\ pc = "close" /\ adapter = "dolos"
  /\ last' = Tip
  /\ pc' = "anchor"
  /\ UNCHANGED <<chainVars, adapter, goal, before, rows, offset, pages, lookup, base, cut>>

DolosAnchorAny ==   \* Slip: only the heights of the tips are compared.
  /\ pc = "anchor"
  /\ last.height >= before.height
  /\ pc' = "listed"
  /\ UNCHANGED <<chainVars, adapter, goal, scan, lookup, base, cut>>

DolosAnchor ==
  /\ pc = "anchor"
  /\ last.height >= before.height /\ HashAt(before.height) = before.hash
  /\ pc' = "listed"
  /\ UNCHANGED <<chainVars, adapter, goal, scan, lookup, base, cut>>

-----------------------------------------------------------------------------
(* Spenders.                                                               *)

Deep(height) == last.height - height + 1 >= Confirmations
InclusionOf(t) == CHOOSE h \in 1..Height : chain[h].tx = t
PointOf(t) == [height |-> InclusionOf(t), hash |-> HashAt(InclusionOf(t))]

\* ProviderChecks.confirmed_spender: the entries from the highest down, without
\* the own candidate and what was not deep at the last tip.  Entries that are
\* done leave rows.
NextItem ==
  /\ pc = "item"
  /\ \E r \in rows :
       /\ \A q \in rows : q.height <= r.height
       /\ rows' = rows \ {r}
       /\ IF r.tx = Own \/ ~ Deep(r.height)
          THEN UNCHANGED <<pc, item>>
          ELSE item' = r /\ pc' = "bytes"
  /\ UNCHANGED <<chainVars, adapter, goal, before, last, offset, pages, found, base, cut>>

\* No entry was a spender.
NoSpender ==
  /\ pc = "item" /\ rows = {}
  /\ pc' = "none"
  /\ UNCHANGED <<chainVars, adapter, goal, scan, lookup, base, cut>>

\* Dolos names the transaction that consumed an output (input_states).
BeginLookup ==
  /\ pc = "idle" /\ adapter = "dolos"
  /\ \E h \in 1..Height :
       /\ Ref \in Consumed(chain[h]) /\ chain[h].tx # Own
       /\ item' = Row(h)
  /\ goal' = "spender" /\ pc' = "info"
  /\ UNCHANGED <<chainVars, adapter, scan, found, base, cut>>

\* transaction_cbor: bytes, and with them whether the script succeeded.
Bytes ==
  /\ pc = "bytes" /\ OnChain(item.tx)
  /\ IF Ref \in Consumed(chain[InclusionOf(item.tx)])
     THEN pc' = IF adapter = "koios" THEN "info" ELSE "block"
     ELSE adapter = "koios" /\ pc' = "item"
  /\ UNCHANGED <<chainVars, adapter, goal, scan, lookup, base, cut>>

\* transaction_info; a transaction may be missing from the index.
Info ==
  /\ pc = "info"
  /\ \/ /\ OnChain(item.tx)
        /\ found' = PointOf(item.tx)
        /\ pc' = IF adapter = "koios" THEN "block" ELSE "bytes"
     \/ /\ pc' = IF adapter = "koios" THEN "item" ELSE "none"
        /\ UNCHANGED found
  /\ UNCHANGED <<chainVars, adapter, goal, scan, item, base, cut>>

KoiosBlockOfInfo ==   \* Slip: the inclusion is checked where it is now.
  /\ pc = "block" /\ adapter = "koios"
  /\ pc' = IF found.hash = HashAt(found.height) THEN "proved" ELSE "item"
  /\ UNCHANGED <<chainVars, adapter, goal, scan, lookup, base, cut>>

\* Koios: included where the history said, in the block that is there now.
KoiosBlock ==
  /\ pc = "block" /\ adapter = "koios"
  /\ pc' = IF found.height = item.height /\ found.hash = HashAt(item.height)
           THEN "proved" ELSE "item"
  /\ UNCHANGED <<chainVars, adapter, goal, scan, lookup, base, cut>>

\* Dolos reads the block first, the tip after it.
DolosBlock ==
  /\ pc = "block" /\ adapter = "dolos"
  /\ pc' = IF found.hash = HashAt(found.height) THEN "tip" ELSE "none"
  /\ cut' = FALSE
  /\ UNCHANGED <<chainVars, adapter, goal, scan, lookup, base>>

DolosDepth ==
  /\ pc = "tip"
  /\ last' = Tip
  /\ pc' = IF Tip.height - found.height + 1 >= Confirmations THEN "proved" ELSE "none"
  /\ UNCHANGED <<chainVars, adapter, goal, before, rows, offset, pages, lookup, base, cut>>

-----------------------------------------------------------------------------
\* The call returns, or an error raises out of it at any read.
Return ==
  /\ pc # "idle"
  /\ pc' = "idle" /\ goal' = "history"
  /\ before' = NoPoint /\ last' = NoPoint /\ rows' = {} /\ offset' = 0 /\ pages' = 0
  /\ item' = NoRow /\ found' = NoPoint /\ base' = {} /\ cut' = FALSE
  /\ UNCHANGED <<chainVars, adapter>>

\* The chain moves on between any two reads.
Move ==
  /\ ChainNext
  /\ cut' = (cut \/ (pc # "idle" /\ forks' # forks))
  /\ UNCHANGED <<adapter, pc, goal, scan, lookup, base>>

History ==
  \/ \E g \in {"history", "spender"} : BeginScan(g)
  \/ KoiosPage \/ DolosPage \/ LastPage \/ KoiosClose \/ DolosClose \/ DolosAnchor

Spender ==
  \/ NextItem \/ NoSpender \/ BeginLookup
  \/ Bytes \/ Info \/ KoiosBlock \/ DolosBlock \/ DolosDepth

Next == History \/ Spender \/ Return \/ Move

Spec == Init /\ [][Next]_vars

-----------------------------------------------------------------------------
\* What must hold.

\* An accepted history lists every transaction once and has exactly the entries
\* that the chain had when the first tip was read, and perhaps later ones.  With
\* Dolos this holds whatever the chain does between the pages; Koios' check sees
\* a roll-back only as long as the chain has not outgrown it.
HistoryIsWhole ==
  pc = "listed" /\ (adapter = "koios" => ~cut) =>
    /\ {r \in rows : r.height <= before.height} = base
    /\ \A r, q \in rows : r.tx = q.tx => r = q

\* A proof names another transaction that consumes the output in a block no
\* roll-back can reach any more, whatever moved between the reads.  Dolos reads
\* the tip after the block, so there a roll-back between these two is excepted.
SpenderIsSettled ==
  pc = "proved" /\ (adapter = "dolos" => ~cut) =>
    /\ item.tx # Own
    /\ found.height <= fixed
    /\ HashAt(found.height) = found.hash
    /\ chain[found.height].tx = item.tx
    /\ Ref \in Consumed(chain[found.height])
=============================================================================
