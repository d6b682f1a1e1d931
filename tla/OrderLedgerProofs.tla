-------------------------- MODULE OrderLedgerProofs --------------------------
(***************************************************************************)
(* What the order lineage guarantees, for any orders, any lag and any gaps *)
(* of the history and any roll-backs between the reads of a pass.          *)
(***************************************************************************)
EXTENDS OrderLedger, TLAPS

Block == [hash : 0..MaxForks, tx : Txs \cup {None}]

\* The transactions of the chain up to a height.
UpTo(n) == {e \in OnChain : e.height <= n}

Named(e) == [tx |-> e.tx, height |-> e.height]

\* The chain holds a transaction once, and everything it was up to any height
\* is a chain the node has had.
LedgerOK ==
  /\ Height \in 1..MaxHeight /\ fixed <= Height
  /\ \A h \in 1..Height : chain[h].hash <= forks
  /\ \A e, f \in OnChain : e.tx = f.tx => e = f
  /\ \A n \in 0..Height : UpTo(n) \in eras

\* A hash that was read at a height once: when the chain has left that block,
\* no later block there bears it.
Stands(h, x) ==
  /\ x \in 0..forks
  /\ HashAt(h) = Missing => x < forks
  /\ HashAt(h) # Missing => x <= HashAt(h)

\* An event that was on the chain: it is there now or its block is gone for good.
Sound(e) == Stands(e.height, e.hash) /\ (HashAt(e.height) = e.hash => e \in OnChain)

JournalOK ==
  /\ counted = FillsIn(events) /\ live = Unspent(events) /\ Replayable(events)
  /\ \E E \in eras : events \subseteq E
  /\ LiveOrdersStood
  /\ \A e \in events : Sound(e)

ReadsOK ==
  /\ since <= forks
  /\ \A h \in Known : blocks[h] = Missing \/ Stands(h, blocks[h])
  /\ pc = "idle" => blocks = NoBlocks /\ found = {} /\ rows = {}
  /\ pc = "blocks" => found = {}
  /\ \A e \in found : Sound(e) /\ e.height \in Known /\ blocks[e.height] = e.hash /\ Named(e) \in Deep
  /\ \A e, f \in found : e.tx = f.tx => e = f

\* What a pass knows of the events it may forget.
MemoryOK ==
  /\ \A e \in events :
       e.height \in Known /\ blocks[e.height] \notin {Missing, e.hash} => HashAt(e.height) # e.hash
  /\ \A e \in events, r \in rows : r.tx = e.tx /\ r.height # e.height => HashAt(e.height) # e.hash
  /\ pc \in {"events", "utxos", "tip", "again"} =>
       \A e \in events \ found : HashAt(e.height) # e.hash \/ Named(e) \in rows \ Deep

\* While the chain only grows and the history omitted nothing, a pass sees a
\* prefix of the chain.
ListOK ==
  pc \in {"blocks", "events", "utxos", "tip", "again"} /\ forks = since =>
    /\ \E n \in 0..Height : rows = {Named(e) : e \in UpTo(n)}
    /\ \A h \in Known : blocks[h] \in {Missing, HashAt(h)}
    /\ pc \in {"utxos", "tip", "again"} => found \in eras

\* What was projected is of one chain, or a block still to be read back differs.
PassOK ==
  /\ pc \in {"utxos", "tip", "again"} => Replayable(found)
  /\ pc \in {"tip", "again"} => rows # Deep \/ \E E \in eras : Unspent(found) = Unspent(E)
  /\ pc = "again" => \/ \E E \in eras : found \subseteq E
                     \/ \E h \in again : blocks[h] = Missing \/ HashAt(h) # blocks[h]

IInv == TypeOK /\ LedgerOK /\ JournalOK /\ ReadsOK /\ MemoryOK /\ ListOK /\ PassOK

USE OrderLedgerAssumption

----------------------------------------------------------------------------
(* The chain.                                                              *)

\* The events of a chain are its transactions at their heights.
LEMMA EventsAre ==
  ASSUME NEW c
  PROVE  \A e : e \in EventsOf(c) <=>
           \E h \in 1..Len(c) : c[h].tx # None /\ e = EventAt(c, h)
BY DEF EventsOf

\* What is on a chain is what its events name.
LEMMA OnChainAre ==
  ASSUME TypeOK, LedgerOK
  PROVE  /\ \A e \in OnChain :
              /\ e \in Event /\ e.height \in 1..Height
              /\ e = EventAt(chain, e.height) /\ HashAt(e.height) = e.hash
         /\ \A h \in 1..Height : chain[h].tx # None => EventAt(chain, h) \in OnChain
         /\ \A h \in 1..Height : chain[h] \in Block
         /\ Height \in Nat
<1>0. chain \in Seq(Block)
  BY DEF TypeOK, Block
<1>1. Height \in Nat /\ \A h \in 1..Height : chain[h] \in Block
  BY <1>0 DEF Height
<1>2. \A h \in 1..Height : chain[h].tx # None => EventAt(chain, h) \in OnChain
  BY EventsAre DEF OnChain, Height
<1>3. ASSUME NEW e \in OnChain
      PROVE  /\ e.height \in 1..Height
             /\ e = EventAt(chain, e.height) /\ HashAt(e.height) = e.hash
             /\ e \in Event
  <2>1. PICK h \in 1..Height : chain[h].tx # None /\ e = EventAt(chain, h)
    BY EventsAre DEF OnChain, Height
  <2>2. e.tx = chain[h].tx /\ e.height = h /\ e.hash = chain[h].hash
    BY <2>1 DEF EventAt
  <2>3. chain[h].tx \in Txs /\ chain[h].hash \in 0..MaxForks
    BY <1>1, <2>1 DEF Block
  <2>4. h \in Heights
    BY <1>1 DEF LedgerOK, Heights
  <2> QED BY <2>1, <2>2, <2>3, <2>4 DEF HashAt, EventAt, Event
<1> QED BY <1>1, <1>2, <1>3

\* A step of the chain adds a block of the present fork, with a transaction
\* that is not on the chain or none, or cuts the chain and starts a fork.
LEMMA BlocksMove ==
  ASSUME TypeOK, LedgerOK, (\E t \in Txs \cup {None} : Mint(t)) \/ (\E n \in Heights : Rollback(n))
  PROVE  /\ chain' \in Seq(Block) /\ Height \in Nat /\ Height' \in 1..MaxHeight
         /\ fixed' \in Heights /\ fixed' <= Height' /\ forks \in Nat /\ forks' \in 0..MaxForks
         /\ \A h \in 1..Height : h <= Height' => chain'[h] = chain[h]
         /\ \/ /\ forks' = forks /\ Height' = Height + 1 /\ chain'[Height'].hash = forks
               /\ chain'[Height'].tx \in Txs \cup {None}
               /\ \A e \in OnChain : e.tx # chain'[Height'].tx
               /\ eras' = eras \cup {OnChain'}
            \/ forks' = forks + 1 /\ Height' < Height /\ eras' = eras
<1>0. chain \in Seq(Block) /\ Len(chain) \in Nat /\ Height = Len(chain) /\ Height' = Len(chain')
  BY DEF TypeOK, Block, Height
<1>1. ASSUME NEW t \in Txs \cup {None}, Mint(t)
      PROVE  /\ chain' \in Seq(Block) /\ Height' \in 1..MaxHeight
             /\ fixed' \in Heights /\ fixed' <= Height' /\ forks' \in 0..MaxForks
             /\ \A h \in 1..Height : chain'[h] = chain[h]
             /\ forks' = forks /\ Height' = Height + 1 /\ chain'[Height'].hash = forks
             /\ chain'[Height'].tx \in Txs \cup {None}
             /\ \A e \in OnChain : e.tx # chain'[Height'].tx
             /\ eras' = eras \cup {OnChain'}
  <2> DEFINE b == [hash |-> forks, tx |-> t]
  <2>1. b \in Block /\ b.hash = forks /\ b.tx = t
    BY DEF TypeOK, Block
  <2>2. chain' = Append(chain, b)
    BY <1>1 DEF Mint
  <2> HIDE DEF b
  <2>3. /\ chain' \in Seq(Block) /\ Len(chain') = Len(chain) + 1
        /\ \A h \in 1..Len(chain) : chain'[h] = chain[h]
        /\ chain'[Len(chain) + 1] = b
    BY <1>0, <2>1, <2>2
  <2>4. fixed' \in Heights /\ fixed' <= Height + 1
    BY <1>0, <1>1 DEF Mint, TypeOK, LedgerOK, Heights
  <2>5. \A e \in OnChain : e.tx # t
    BY <1>1, OnChainAre DEF Mint, Event
  <2>6. Height + 1 \in 1..MaxHeight /\ forks' = forks /\ forks \in 0..MaxForks
    BY <1>0, <1>1 DEF Mint, TypeOK, LedgerOK
  <2> QED BY <1>0, <1>1, <2>1, <2>3, <2>4, <2>5, <2>6 DEF Mint, OnChain
<1>2. ASSUME NEW n \in Heights, Rollback(n)
      PROVE  /\ chain' \in Seq(Block) /\ Height' \in 1..MaxHeight
             /\ fixed' \in Heights /\ fixed' <= Height' /\ forks' \in 0..MaxForks
             /\ \A h \in 1..Height : h <= Height' => chain'[h] = chain[h]
             /\ forks' = forks + 1 /\ Height' < Height /\ eras' = eras
  <2>1. n \in 1..(Len(chain) - 1) /\ fixed <= n /\ n < Height
    BY <1>0, <1>2 DEF Rollback, TypeOK, Heights
  <2>2. /\ chain' \in Seq(Block) /\ Len(chain') = n
        /\ \A h \in 1..n : chain'[h] = chain[h]
    BY <1>0, <1>2, <2>1 DEF Rollback
  <2>3. Height' = n /\ Height' \in 1..MaxHeight /\ Height' < Height
    BY <1>0, <2>1, <2>2 DEF LedgerOK
  <2>4. fixed' = fixed /\ fixed \in Heights /\ eras' = eras /\ forks' = forks + 1
    BY <1>2 DEF Rollback, TypeOK
  <2>5. forks' \in 0..MaxForks
    BY <1>2 DEF Rollback, TypeOK
  <2>6. \A h \in 1..Height : h <= Height' => chain'[h] = chain[h]
    BY <1>0, <2>2, <2>3
  <2> QED BY <2>1, <2>2, <2>3, <2>4, <2>5, <2>6
<1>3. forks \in Nat
  BY DEF TypeOK
<1> QED BY <1>0, <1>1, <1>2, <1>3

\* The events of the new chain: those at the heights kept and that of the new
\* block.
LEMMA EventsMove ==
  ASSUME TypeOK, LedgerOK, (\E t \in Txs \cup {None} : Mint(t)) \/ (\E n \in Heights : Rollback(n))
  PROVE  \A e : e \in OnChain' <=>
           \/ e \in OnChain /\ e.height <= Height'
           \/ forks' = forks /\ chain'[Height'].tx # None /\ e = EventAt(chain', Height')
<1>1. Height' = Len(chain') /\ OnChain' = EventsOf(chain') /\ OnChain = EventsOf(chain) /\ Height = Len(chain)
  BY DEF Height, OnChain
<1>2. \A h \in 1..Height : h <= Height' => EventAt(chain', h) = EventAt(chain, h) /\ chain'[h] = chain[h]
  BY BlocksMove DEF EventAt
<1>3. \A e : e \in OnChain' <=> \E h \in 1..Height' : chain'[h].tx # None /\ e = EventAt(chain', h)
  BY <1>1, EventsAre
<1>4. \A e : e \in OnChain <=> \E h \in 1..Height : chain[h].tx # None /\ e = EventAt(chain, h)
  BY <1>1, EventsAre
<1>5. \A c, h : EventAt(c, h).height = h
  BY DEF EventAt
<1>6. Height \in Nat /\ Height' \in Nat /\ Height' >= 1 /\ (forks' = forks => Height' = Height + 1)
      /\ (forks' # forks => Height' < Height)
  BY BlocksMove
<1>7. ASSUME NEW e, e \in OnChain'
      PROVE  \/ e \in OnChain /\ e.height <= Height'
             \/ forks' = forks /\ chain'[Height'].tx # None /\ e = EventAt(chain', Height')
  <2>1. PICK h \in 1..Height' : chain'[h].tx # None /\ e = EventAt(chain', h)
    BY <1>3, <1>7
  <2>2. CASE h <= Height
    BY <2>1, <2>2, <1>2, <1>4, <1>5, <1>6
  <2>3. CASE h > Height
    BY <2>1, <2>3, <1>6
  <2> QED BY <2>1, <2>2, <2>3, <1>6
<1>8. ASSUME NEW e, e \in OnChain, e.height <= Height'
      PROVE  e \in OnChain'
  <2>1. PICK h \in 1..Height : chain[h].tx # None /\ e = EventAt(chain, h)
    BY <1>4, <1>8
  <2>2. h <= Height' /\ h \in 1..Height'
    BY <2>1, <1>5, <1>6, <1>8
  <2> QED BY <2>1, <2>2, <1>2, <1>3
<1>9. ASSUME forks' = forks, chain'[Height'].tx # None PROVE EventAt(chain', Height') \in OnChain'
  BY <1>3, <1>6, <1>9
<1> QED BY <1>7, <1>8, <1>9

\* What a step of the chain keeps: the shape of the ledger, every chain there
\* has been, and the fate of a hash or an event that was read.
LEMMA LedgerMoves ==
  ASSUME TypeOK, LedgerOK, (\E t \in Txs \cup {None} : Mint(t)) \/ (\E n \in Heights : Rollback(n))
  PROVE  /\ LedgerOK' /\ eras' \in SUBSET SUBSET Event
         /\ eras \subseteq eras' /\ forks \in Nat /\ forks' \in 0..MaxForks /\ forks <= forks'
         /\ \A h \in Heights : \A x : Stands(h, x) => Stands(h, x)' /\ (HashAt(h) # x => HashAt(h)' # x)
         /\ \A h \in Heights : HashAt(h)' \in -1..MaxForks
         /\ \A e : e.height \in Heights /\ Sound(e) => Sound(e)'
         /\ forks' = forks => /\ Height <= Height'
                              /\ \A h \in 1..Height : HashAt(h)' = HashAt(h)
                              /\ \A n \in 0..Height : UpTo(n)' = UpTo(n)
<1> DEFINE new == EventAt(chain', Height')
<1>0. Height \in Nat /\ Height' \in 1..MaxHeight /\ forks \in Nat /\ forks' \in 0..MaxForks /\ forks <= forks'
  BY BlocksMove
<1>1. \/ /\ forks' = forks /\ Height' = Height + 1 /\ chain'[Height'].hash = forks
         /\ chain'[Height'].tx \in Txs \cup {None}
         /\ \A e \in OnChain : e.tx # chain'[Height'].tx
         /\ eras' = eras \cup {OnChain'}
      \/ forks' = forks + 1 /\ Height' < Height /\ eras' = eras
  BY BlocksMove
<1>2. \A h \in 1..Height : h <= Height' => chain'[h] = chain[h]
  BY BlocksMove
<1>3. new.height = Height' /\ new.tx = chain'[Height'].tx /\ new.hash = chain'[Height'].hash
  BY DEF EventAt
<1>4. \A e : e \in OnChain' <=>
        \/ e \in OnChain /\ e.height <= Height'
        \/ forks' = forks /\ chain'[Height'].tx # None /\ e = new
  BY EventsMove
<1> HIDE DEF new
<1>5. \A e \in OnChain : e \in Event /\ e.height \in 1..Height /\ HashAt(e.height) = e.hash
  BY OnChainAre
<1>6. \A h \in 1..Height : chain[h].hash \in 0..forks
  BY OnChainAre DEF Block, LedgerOK
<1>7. \A h \in 1..Height' : chain'[h].hash \in 0..forks'
  BY <1>0, <1>1, <1>2, <1>6
<1>8. \A h : h \in Heights => HashAt(h)' = IF h \in 1..Height' THEN chain'[h].hash ELSE Missing
  BY DEF HashAt
<1>9. \A h \in Heights : HashAt(h)' \in -1..MaxForks
  BY <1>0, <1>7, <1>8 DEF Missing
<1>10. \A h \in Heights :
         \/ HashAt(h)' = HashAt(h)
         \/ HashAt(h)' = Missing /\ HashAt(h) \in 0..forks /\ forks' = forks + 1
         \/ HashAt(h)' = forks /\ HashAt(h) = Missing /\ forks' = forks /\ h = Height'
  BY <1>0, <1>1, <1>2, <1>6, <1>8 DEF HashAt, Heights
<1>11. ASSUME NEW h \in Heights, NEW x, Stands(h, x)
       PROVE  Stands(h, x)' /\ (HashAt(h) # x => HashAt(h)' # x)
  BY <1>0, <1>10, <1>11 DEF Stands, Missing
<1>12. ASSUME NEW e, e.height \in Heights, Sound(e) PROVE Sound(e)'
  <2>1. Stands(e.height, e.hash)' /\ (HashAt(e.height) # e.hash => HashAt(e.height)' # e.hash)
    BY <1>11, <1>12 DEF Sound
  <2>2. ASSUME HashAt(e.height)' = e.hash PROVE e \in OnChain'
    <3>1. HashAt(e.height) = e.hash /\ e \in OnChain
      BY <2>1, <2>2, <1>12 DEF Sound
    <3>2. e.hash \in 0..forks
      BY <1>12 DEF Sound, Stands
    <3>3. e.height <= Height'
      BY <2>2, <3>2, <1>0, <1>8, <1>12 DEF Missing, Heights
    <3> QED BY <3>1, <3>3, <1>4
  <2> QED BY <2>1, <2>2 DEF Sound
<1>13. ASSUME NEW n \in 0..Height, n <= Height' PROVE UpTo(n)' = UpTo(n)
  <2>1. ASSUME NEW e PROVE e \in UpTo(n)' <=> e \in UpTo(n)
    <3>1. e \in UpTo(n)' <=> e \in OnChain' /\ e.height <= n
      BY DEF UpTo
    <3>2. e \in UpTo(n) <=> e \in OnChain /\ e.height <= n
      BY DEF UpTo
    <3>3. ASSUME e.height <= n, forks' = forks PROVE e # new
      BY <3>3, <1>0, <1>1, <1>3
    <3> QED BY <3>1, <3>2, <3>3, <1>0, <1>4, <1>5, <1>13
  <2>2. UpTo(n)' = {e \in OnChain' : e.height <= n} /\ UpTo(n) = {e \in OnChain : e.height <= n}
    BY DEF UpTo
  <2> QED BY <2>1, <2>2
<1>14. ASSUME NEW n \in 0..Height', n = Height' PROVE UpTo(n)' = OnChain'
  <2>1. \A e \in OnChain' : e.height <= n
    BY <1>0, <1>3, <1>4, <1>14
  <2>2. UpTo(n)' = {e \in OnChain' : e.height <= n}
    BY DEF UpTo
  <2> QED BY <2>1, <2>2
<1>15. \A n \in 0..Height' : UpTo(n)' \in eras'
  <2>1. CASE forks' = forks
    <3>1. ASSUME NEW n \in 0..Height' PROVE UpTo(n)' \in eras'
      <4>1. CASE n = Height'
        BY <4>1, <2>1, <1>0, <1>1, <1>14
      <4>2. CASE n # Height'
        BY <4>2, <2>1, <1>0, <1>1, <1>13 DEF LedgerOK
      <4> QED BY <4>1, <4>2
    <3> QED BY <3>1
  <2>2. CASE forks' # forks
    BY <2>2, <1>0, <1>1, <1>13 DEF LedgerOK
  <2> QED BY <2>1, <2>2
<1>16. \A e, f \in OnChain' : e.tx = f.tx => e = f
  <2>1. \A e, f \in OnChain : e.tx = f.tx => e = f
    BY DEF LedgerOK
  <2>2. \A e \in OnChain : forks' = forks => e.tx # new.tx
    BY <1>0, <1>1, <1>3
  <2> QED BY <2>1, <2>2, <1>4
<1>17. fixed' <= Height'
  BY BlocksMove
<1>18. LedgerOK'
  <2>1. Height' \in 1..MaxHeight /\ \A h \in 1..Height' : chain'[h].hash <= forks'
    BY <1>0, <1>7
  <2> QED BY <2>1, <1>15, <1>16, <1>17 DEF LedgerOK
<1>19. eras' \in SUBSET SUBSET Event
  <2>1. OnChain' \subseteq Event
    <3>1. chain'[Height'].tx # None /\ forks' = forks => new \in Event
      <4>1. new = [tx |-> chain'[Height'].tx, height |-> Height', hash |-> chain'[Height'].hash]
        BY DEF new, EventAt
      <4> QED BY <4>1, <1>0, <1>1 DEF Event, Heights
    <3> QED BY <3>1, <1>4, <1>5
  <2> QED BY <2>1, <1>1 DEF TypeOK
<1>20. forks' = forks => /\ Height <= Height'
                         /\ \A h \in 1..Height : HashAt(h)' = HashAt(h)
                         /\ \A n \in 0..Height : UpTo(n)' = UpTo(n)
  <2> SUFFICES ASSUME forks' = forks
               PROVE  /\ Height <= Height'
                      /\ \A h \in 1..Height : HashAt(h)' = HashAt(h)
                      /\ \A n \in 0..Height : UpTo(n)' = UpTo(n)
    OBVIOUS
  <2>1. Height <= Height'
    BY <1>0, <1>1
  <2>2. \A h \in 1..Height : HashAt(h)' = HashAt(h)
    BY <2>1, <1>0, <1>2 DEF HashAt
  <2> QED BY <2>1, <2>2, <1>0, <1>13
<1> QED BY <1>0, <1>1, <1>9, <1>11, <1>12, <1>18, <1>19, <1>20

\* A step of the chain between two reads disturbs nothing a pass relies on.
LEMMA LedgerStep ==
  ASSUME IInv, (\E t \in Txs \cup {None} : Mint(t)) \/ (\E n \in Heights : Rollback(n))
  PROVE  IInv'
<1>1. /\ events' = events /\ counted' = counted /\ live' = live /\ pending' = pending
      /\ pc' = pc /\ tip' = tip /\ rows' = rows /\ since' = since
      /\ blocks' = blocks /\ found' = found /\ again' = again
  BY DEF Mint, Rollback, journalVars, passVars, listing
<1>2. /\ \A e \in events \cup found : e.height \in Heights
      /\ Known' = Known /\ Known \subseteq Heights /\ Deep' = Deep
  <2>1. \A e \in events \cup found : e.height \in Heights
    BY DEF IInv, TypeOK, Event
  <2> QED BY <2>1, <1>1 DEF Known, Deep, Confirmed
<1>3. TypeOK /\ LedgerOK
  BY DEF IInv
<1>4. /\ LedgerOK' /\ eras' \in SUBSET SUBSET Event
      /\ eras \subseteq eras' /\ forks \in Nat /\ forks' \in 0..MaxForks /\ forks <= forks'
      /\ \A h \in Heights : \A x : Stands(h, x) => Stands(h, x)' /\ (HashAt(h) # x => HashAt(h)' # x)
      /\ \A e : e.height \in Heights /\ Sound(e) => Sound(e)'
  BY <1>3, LedgerMoves
<1>5. forks' = forks => /\ Height <= Height'
                        /\ \A h \in 1..Height : HashAt(h)' = HashAt(h)
                        /\ \A n \in 0..Height : UpTo(n)' = UpTo(n)
  BY <1>3, LedgerMoves
<1>6. TypeOK'
  <2>1. chain' \in Seq(Block) /\ fixed' \in Heights
    BY <1>3, BlocksMove
  <2> QED BY <1>1, <1>3, <1>4, <2>1 DEF TypeOK, Block
<1>7. JournalOK'
  <2>1. JournalOK
    BY DEF IInv
  <2>2. counted' = FillsIn(events') /\ live' = Unspent(events') /\ Replayable(events')
    BY <1>1, <2>1 DEF JournalOK
  <2>3. \E E \in eras' : events' \subseteq E
    BY <1>1, <1>4, <2>1 DEF JournalOK
  <2>4. LiveOrdersStood'
    BY <1>1, <1>4, <2>1 DEF JournalOK, LiveOrdersStood
  <2>5. \A e \in events' : Sound(e)'
    BY <1>1, <1>2, <1>4, <2>1 DEF JournalOK
  <2> QED BY <2>2, <2>3, <2>4, <2>5, <1>1 DEF JournalOK
<1>8. ReadsOK'
  <2>1. ReadsOK /\ since \in Int
    BY DEF IInv, TypeOK
  <2>2. since' <= forks'
    BY <1>1, <1>4, <2>1 DEF ReadsOK
  <2>3. \A h \in Known' : blocks'[h] = Missing \/ Stands(h, blocks[h])'
    BY <1>1, <1>2, <1>4, <2>1 DEF ReadsOK
  <2>4. \A e \in found' : /\ Sound(e)' /\ e.height \in Known' /\ blocks'[e.height] = e.hash
                          /\ Named(e) \in Deep'
    BY <1>1, <1>2, <1>4, <2>1 DEF ReadsOK
  <2>5. \A h : blocks'[h] = blocks[h]
    BY <1>1
  <2> QED BY <2>1, <2>2, <2>3, <2>4, <2>5, <1>1 DEF ReadsOK
<1>9. MemoryOK'
  <2>1. MemoryOK
    BY DEF IInv
  <2>2. \A e \in events : HashAt(e.height) # e.hash => HashAt(e.height)' # e.hash
    BY <1>2, <1>4 DEF IInv, JournalOK, Sound
  <2> QED BY <1>1, <1>2, <2>1, <2>2 DEF MemoryOK
<1>10. ListOK'
  <2> SUFFICES ASSUME pc \in {"blocks", "events", "utxos", "tip", "again"}, forks' = since
               PROVE  /\ \E n \in 0..Height' : rows = {Named(e) : e \in UpTo(n)'}
                      /\ \A h \in Known : blocks[h] \in {Missing, HashAt(h)'}
                      /\ pc \in {"utxos", "tip", "again"} => found \in eras'
    BY <1>1, <1>2 DEF ListOK
  <2>1. forks = since /\ forks' = forks
    BY <1>4 DEF IInv, ReadsOK, TypeOK
  <2>2. /\ \E n \in 0..Height : rows = {Named(e) : e \in UpTo(n)}
        /\ \A h \in Known : blocks[h] \in {Missing, HashAt(h)}
        /\ pc \in {"utxos", "tip", "again"} => found \in eras
    BY <2>1 DEF IInv, ListOK
  <2>3. Height \in Nat /\ Height' \in Nat /\ Height <= Height'
    BY <1>3, <1>5, <2>1, BlocksMove
  <2>4. \A h \in Known : blocks[h] \in {Missing, HashAt(h)'}
    <3>1. \A h \in Known : HashAt(h) # Missing => h \in 1..Height
      BY DEF HashAt
    <3> QED BY <2>1, <2>2, <3>1, <1>5
  <2>5. \E n \in 0..Height' : rows = {Named(e) : e \in UpTo(n)'}
    <3>1. PICK n \in 0..Height : rows = {Named(e) : e \in UpTo(n)}
      BY <2>2
    <3>2. UpTo(n)' = UpTo(n) /\ n \in 0..Height'
      BY <2>1, <2>3, <1>5
    <3> QED BY <3>1, <3>2
  <2> QED BY <2>2, <2>4, <2>5, <1>4
<1>11. PassOK'
  <2>1. PassOK
    BY DEF IInv
  <2>2. pc = "again" => \/ \E E \in eras : found \subseteq E
                        \/ \E h \in again : blocks[h] = Missing \/ HashAt(h) # blocks[h]
    BY <2>1 DEF PassOK
  <2>3. ASSUME NEW h \in again, blocks[h] = Missing \/ HashAt(h) # blocks[h]
        PROVE  blocks[h] = Missing \/ HashAt(h)' # blocks[h]
    <3>1. h \in Heights /\ (h \in Known => blocks[h] = Missing \/ Stands(h, blocks[h]))
      BY DEF IInv, TypeOK, ReadsOK
    <3>2. h \notin Known => blocks[h] = Unread
      BY <3>1 DEF Known
    <3>3. HashAt(h)' # Unread
      BY <3>1, <1>3, LedgerMoves DEF Unread
    <3> QED BY <2>3, <3>1, <3>2, <3>3, <1>4
  <2>4. pc = "again" => \/ \E E \in eras' : found \subseteq E
                        \/ \E h \in again : blocks[h] = Missing \/ HashAt(h)' # blocks[h]
    BY <2>2, <2>3, <1>4
  <2>5. pc \in {"utxos", "tip", "again"} => Replayable(found)
    BY <2>1 DEF PassOK
  <2>6. pc \in {"tip", "again"} => rows # Deep \/ \E E \in eras' : Unspent(found) = Unspent(E)
    BY <2>1, <1>4 DEF PassOK
  <2> QED BY <1>1, <1>2, <2>4, <2>5, <2>6 DEF PassOK
<1> QED BY <1>4, <1>6, <1>7, <1>8, <1>9, <1>10, <1>11 DEF IInv

----------------------------------------------------------------------------
(* The steps of a pass.                                                    *)

\* A step of the pass reads the chain and leaves it as it is.
LEMMA ChainStays ==
  ASSUME UNCHANGED chainVars
  PROVE  /\ chain' = chain /\ forks' = forks /\ fixed' = fixed /\ eras' = eras
         /\ OnChain' = OnChain /\ Height' = Height /\ LedgerOK' = LedgerOK
         /\ \A h : HashAt(h)' = HashAt(h)
         /\ \A n : UpTo(n)' = UpTo(n)
         /\ \A h, x : Stands(h, x)' <=> Stands(h, x)
         /\ \A e : Sound(e)' <=> Sound(e)
<1>1. chain' = chain /\ forks' = forks /\ fixed' = fixed /\ eras' = eras
  BY DEF chainVars
<1>2. OnChain' = OnChain /\ Height' = Height
  BY <1>1 DEF OnChain, Height
<1>3. \A h : HashAt(h)' = HashAt(h)
  BY <1>1, <1>2 DEF HashAt
<1>4. \A n : UpTo(n)' = UpTo(n)
  BY <1>2 DEF UpTo
<1>5. \A h, x : Stands(h, x)' <=> Stands(h, x)
  BY <1>1, <1>3 DEF Stands
<1>6. \A e : Sound(e)' <=> Sound(e)
  BY <1>2, <1>3, <1>5 DEF Sound
<1>7. LedgerOK' = LedgerOK
  BY <1>1, <1>2, <1>4 DEF LedgerOK
<1> QED BY <1>1, <1>2, <1>3, <1>4, <1>5, <1>6, <1>7

\* Until it commits, a pass leaves the journal as it is.
LEMMA JournalStays ==
  ASSUME JournalOK, UNCHANGED <<chainVars, journalVars>> PROVE JournalOK'
<1>1. events' = events /\ counted' = counted /\ live' = live /\ pending' = pending
  BY DEF journalVars
<1>2. eras' = eras /\ \A e : Sound(e)' <=> Sound(e)
  BY ChainStays
<1> QED BY <1>1, <1>2 DEF JournalOK, LiveOrdersStood

\* A pass that ends, whatever it leaves in the journal, knows nothing any more.
LEMMA FinishStep ==
  ASSUME IInv, Finish, UNCHANGED chainVars, JournalOK',
         /\ events' \in SUBSET Event /\ counted' \in SUBSET Fills
         /\ live' \in SUBSET Outputs /\ pending' \in BOOLEAN
         /\ \A e, f \in events' : e.tx = f.tx => e = f
  PROVE  IInv'
<1>1. TypeOK'
  BY DEF IInv, TypeOK, Finish, chainVars, NoBlocks, Unread, Heights, LedgerOK
<1>2. LedgerOK'
  BY ChainStays DEF IInv
<1>3. Known' = {} /\ rows' = {} /\ found' = {} /\ pc' = "idle" /\ blocks' = NoBlocks /\ since' = 0
  BY DEF Finish, Known, NoBlocks
<1>4. ReadsOK'
  BY <1>1, <1>3 DEF ReadsOK, TypeOK
<1>5. MemoryOK' /\ ListOK' /\ PassOK'
  BY <1>3 DEF MemoryOK, ListOK, PassOK
<1> QED BY <1>1, <1>2, <1>4, <1>5 DEF IInv

\* The history, with or without gaps, is read off the chain of this moment.
LEMMA ReadHistoryStep == ASSUME IInv, ReadHistory PROVE IInv'
<1>1. /\ pc = "idle" /\ pc' = "blocks" /\ tip' = Height
      /\ UNCHANGED <<chainVars, journalVars>> /\ blocks' = blocks /\ found' = found /\ again' = again
      /\ events' = events
  BY DEF ReadHistory, journalVars
<1>2. PICK n \in 0..Lag, omitted \in SUBSET Txs :
        /\ rows' = {Named(e) : e \in {f \in OnChain : f.height + n <= Height /\ f.tx \notin omitted}}
        /\ since' = IF omitted = {} THEN forks ELSE -1
  BY DEF ReadHistory, Named
<1>3. blocks = NoBlocks /\ found = {} /\ Known' = {}
  BY <1>1 DEF IInv, ReadsOK, Known, NoBlocks
<1>4. \A e \in OnChain : e \in Event /\ e.height \in 1..Height /\ HashAt(e.height) = e.hash
  BY OnChainAre DEF IInv
<1>5. Height \in 1..MaxHeight
  BY DEF IInv, LedgerOK
<1>6. TypeOK'
  <2>1. rows' \in SUBSET [tx : Txs, height : Heights]
    BY <1>2, <1>4 DEF Named, Event
  <2>2. since' \in -1..MaxForks
    BY <1>2 DEF IInv, TypeOK
  <2> QED BY <1>1, <1>5, <2>1, <2>2 DEF IInv, TypeOK, chainVars, journalVars
<1>7. LedgerOK' /\ JournalOK'
  BY <1>1, ChainStays, JournalStays DEF IInv
<1>8. ReadsOK'
  <2>1. since' <= forks
    BY <1>2 DEF IInv, TypeOK
  <2> QED BY <1>1, <1>3, <2>1, ChainStays DEF ReadsOK
<1>9. MemoryOK'
  <2>1. ASSUME NEW e \in events, NEW r \in rows', r.tx = e.tx, r.height # e.height
        PROVE  HashAt(e.height) # e.hash
    <3>1. PICK f \in OnChain : r = Named(f)
      BY <1>2
    <3>2. f.tx = e.tx /\ f.height # e.height
      BY <2>1, <3>1 DEF Named
    <3>3. e \notin OnChain
      BY <3>2 DEF IInv, LedgerOK
    <3> QED BY <3>3 DEF IInv, JournalOK, Sound
  <2> QED BY <1>1, <1>3, <2>1, ChainStays DEF MemoryOK
<1>10. ListOK'
  <2> DEFINE m == IF n <= Height THEN Height - n ELSE 0
  <2>1. m \in 0..Height
    BY <1>5
  <2>2. \A e \in OnChain : e.height + n <= Height <=> e.height <= m
    BY <1>4, <1>5
  <2>3. omitted = {} => rows' = {Named(e) : e \in UpTo(m)}
    BY <1>2, <2>2 DEF UpTo
  <2>4. omitted # {} => since' # forks
    BY <1>2 DEF IInv, TypeOK
  <2> HIDE DEF m
  <2> QED BY <1>1, <1>3, <2>1, <2>3, <2>4, ChainStays DEF ListOK
<1>11. PassOK'
  BY <1>1 DEF PassOK
<1> QED BY <1>6, <1>7, <1>8, <1>9, <1>10, <1>11 DEF IInv

\* A block that is read is the block the chain has at that height now.
LEMMA ReadBlockStep == ASSUME IInv, NEW h \in Heights, ReadBlock(h) PROVE IInv'
<1>1. /\ pc = "blocks" /\ pc' = "blocks" /\ tip' = tip /\ since' = since /\ rows' = rows
      /\ UNCHANGED <<chainVars, journalVars>> /\ found' = found /\ again' = again /\ events' = events
      /\ h \notin Known /\ blocks' = [blocks EXCEPT ![h] = HashAt(h)]
  BY DEF ReadBlock, journalVars, listing
<1>2. HashAt(h) \in -1..MaxForks /\ (HashAt(h) # Missing => Stands(h, HashAt(h)))
  BY OnChainAre DEF IInv, HashAt, Missing, Block, Stands, LedgerOK
<1>3. blocks' \in [Heights -> -2..MaxForks] /\ blocks'[h] = HashAt(h)
      /\ \A k \in Heights \ {h} : blocks'[k] = blocks[k]
  BY <1>1, <1>2 DEF IInv, TypeOK
<1>4. Known' = Known \cup {h}
  BY <1>2, <1>3 DEF Known, Unread
<1>5. TypeOK'
  BY <1>1, <1>3 DEF IInv, TypeOK, chainVars, journalVars
<1>6. LedgerOK' /\ JournalOK'
  BY <1>1, ChainStays, JournalStays DEF IInv
<1>7. found = {} /\ found' = {}
  BY <1>1 DEF IInv, ReadsOK
<1>8. ReadsOK'
  <2>1. \A k \in Known' : blocks'[k] = Missing \/ Stands(k, blocks'[k])
    BY <1>1, <1>2, <1>3, <1>4 DEF IInv, ReadsOK, Known
  <2> QED BY <1>1, <1>7, <2>1, ChainStays DEF IInv, ReadsOK
<1>9. MemoryOK'
  <2>1. \A e \in events : e.height \in Known' /\ blocks'[e.height] \notin {Missing, e.hash} => HashAt(e.height) # e.hash
    BY <1>3, <1>4 DEF IInv, MemoryOK, Known
  <2> QED BY <1>1, <2>1, ChainStays DEF IInv, MemoryOK
<1>10. ListOK'
  <2>1. ASSUME forks = since
        PROVE  \A k \in Known' : blocks'[k] \in {Missing, HashAt(k)}
    BY <2>1, <1>1, <1>3, <1>4 DEF IInv, ListOK, Known
  <2> QED BY <1>1, <2>1, ChainStays DEF IInv, ListOK
<1>11. PassOK'
  BY <1>1 DEF PassOK
<1> QED BY <1>5, <1>6, <1>8, <1>9, <1>10, <1>11 DEF IInv

\* What is kept of the stored events was on a chain the node had.
LEMMA TakeCachedStep == ASSUME IInv, TakeCached PROVE IInv'
<1>1. /\ pc = "blocks" /\ pc' = "events" /\ tip' = tip /\ since' = since /\ rows' = rows
      /\ UNCHANGED <<chainVars, journalVars>> /\ blocks' = blocks /\ again' = again /\ events' = events
      /\ Known' = Known /\ Deep' = Deep /\ Asked \subseteq Known
      /\ \A e \in events : Listed(e.tx) \/ blocks[e.height] \notin {Missing, e.hash}
      /\ \A r \in rows : blocks[r.height] # Missing
  BY DEF TakeCached, journalVars, listing, Known, Deep, Confirmed
<1>2. found' = {e \in events : blocks[e.height] = e.hash /\ Named(e) \in Deep}
  BY DEF TakeCached, Named
<1>3. \A e \in events : e \in Event /\ e.height \in Known /\ Sound(e)
  BY <1>1 DEF IInv, TypeOK, JournalOK, Asked
<1>4. TypeOK'
  BY <1>1, <1>2 DEF IInv, TypeOK, chainVars, journalVars
<1>5. LedgerOK' /\ JournalOK'
  BY <1>1, ChainStays, JournalStays DEF IInv
<1>6. ReadsOK'
  <2>1. \A e \in found' : /\ Sound(e)' /\ e.height \in Known' /\ blocks'[e.height] = e.hash
                          /\ Named(e) \in Deep'
    BY <1>1, <1>2, <1>3, ChainStays
  <2>2. \A e, f \in found' : e.tx = f.tx => e = f
    BY <1>2 DEF IInv, TypeOK
  <2> QED BY <1>1, <2>1, <2>2, ChainStays DEF IInv, ReadsOK
<1>7. MemoryOK'
  <2>1. ASSUME NEW e \in events \ found'
        PROVE  HashAt(e.height) # e.hash \/ Named(e) \in rows \ Deep
    <3>1. CASE blocks[e.height] \notin {Missing, e.hash}
      BY <3>1, <1>3 DEF IInv, MemoryOK
    <3>2. CASE blocks[e.height] \in {Missing, e.hash}
      <4>1. PICK r \in rows : r.tx = e.tx
        BY <3>2, <1>1 DEF Listed
      <4>2. r \in [tx : Txs, height : Heights] /\ (r.height = e.height => r = Named(e))
        BY <4>1 DEF IInv, TypeOK, Named
      <4>3. CASE r.height # e.height
        BY <4>1, <4>3 DEF IInv, MemoryOK
      <4>4. CASE r.height = e.height
        BY <4>1, <4>2, <4>4, <3>2, <1>1, <1>2, <2>1
      <4> QED BY <4>3, <4>4
    <3> QED BY <3>1, <3>2
  <2> QED BY <1>1, <2>1, ChainStays DEF IInv, MemoryOK
<1>8. ListOK'
  BY <1>1, ChainStays DEF IInv, ListOK
<1>9. PassOK'
  BY <1>1 DEF PassOK
<1> QED BY <1>4, <1>5, <1>6, <1>7, <1>8, <1>9 DEF IInv

\* An inclusion that is read new lies in a block that was read and is there.
LEMMA ReadInfoStep == ASSUME IInv, NEW r \in rows, ReadInfo(r) PROVE IInv'
<1>1. /\ pc = "events" /\ pc' = "events" /\ tip' = tip /\ since' = since /\ rows' = rows
      /\ UNCHANGED <<chainVars, journalVars>> /\ blocks' = blocks /\ again' = again /\ events' = events
      /\ Known' = Known /\ Deep' = Deep /\ r \in Left
  BY DEF ReadInfo, journalVars, listing, Known, Deep, Confirmed
<1>2. PICK e \in OnChain : /\ e.tx = r.tx /\ e.height = r.height /\ e.hash = blocks[r.height]
                           /\ found' = found \cup {e}
  BY DEF ReadInfo
<1>3. e \in Event /\ HashAt(e.height) = e.hash /\ e.hash \in 0..forks
  <2>1. e \in Event /\ e.height \in 1..Height /\ HashAt(e.height) = e.hash /\ e.hash = chain[e.height].hash
    BY OnChainAre DEF IInv, EventAt
  <2> QED BY <2>1 DEF IInv, LedgerOK, TypeOK, Event
<1>4. Sound(e)
  BY <1>2, <1>3 DEF Sound, Stands, Missing, Event, IInv, TypeOK
<1>5. Named(e) = r /\ r \in Deep /\ \A f \in found : f.tx # r.tx
  BY <1>1, <1>2 DEF Named, Left, Deep, IInv, TypeOK
<1>6. e.height \in Known
  BY <1>2, <1>3 DEF Known, Event, Unread
<1>7. TypeOK'
  BY <1>1, <1>2, <1>3 DEF IInv, TypeOK, chainVars, journalVars
<1>8. LedgerOK' /\ JournalOK'
  BY <1>1, ChainStays, JournalStays DEF IInv
<1>9. ReadsOK'
  <2>1. ReadsOK
    BY DEF IInv
  <2>2. \A f \in found' : /\ Sound(f)' /\ f.height \in Known' /\ blocks'[f.height] = f.hash
                          /\ Named(f) \in Deep'
    BY <2>1, <1>1, <1>2, <1>4, <1>5, <1>6, ChainStays DEF ReadsOK
  <2>3. \A f, g \in found' : f.tx = g.tx => f = g
    BY <2>1, <1>2, <1>5 DEF ReadsOK
  <2> QED BY <2>1, <1>1, <2>2, <2>3, ChainStays DEF ReadsOK
<1>10. MemoryOK'
  BY <1>1, <1>2, ChainStays DEF IInv, MemoryOK
<1>11. ListOK'
  BY <1>1, ChainStays DEF IInv, ListOK
<1>12. PassOK'
  BY <1>1 DEF PassOK
<1> QED BY <1>7, <1>8, <1>9, <1>10, <1>11, <1>12 DEF IInv

\* A pass that saw no roll-back has found what the chain held up to a height:
\* everything listed that is deep, and nothing else.
LEMMA FoundIsAPrefix ==
  ASSUME IInv, pc = "events", Left = {}, forks = since PROVE found \in eras
<1>1. PICK n \in 0..Height : rows = {Named(e) : e \in UpTo(n)}
  BY DEF IInv, ListOK
<1>2. tip \in Nat /\ Confirmations \in Nat \ {0} /\ Height \in Nat
  BY OnChainAre DEF IInv, TypeOK
<1> DEFINE d == tip - Confirmations + 1
           m == IF d < 0 THEN 0 ELSE IF d <= n THEN d ELSE n
<1>3. m \in 0..Height
  BY <1>2
<1>4. \A e \in OnChain : e \in Event /\ e.height \in 1..Height
  BY OnChainAre DEF IInv
<1>5. \A e \in OnChain : e.height <= m <=> e.height <= n /\ Confirmed(e.height)
  BY <1>2, <1>4 DEF Confirmed
<1> HIDE DEF d, m
<1>6. \A e \in OnChain : e \in UpTo(m) <=> Named(e) \in Deep
  <2>1. ASSUME NEW e \in OnChain PROVE e.height <= n <=> Named(e) \in rows
    <3>1. ASSUME Named(e) \in rows PROVE e.height <= n
      <4>1. PICK f \in UpTo(n) : Named(e) = Named(f)
        BY <3>1, <1>1
      <4>2. e.height = f.height
        BY <4>1 DEF Named
      <4> QED BY <4>1, <4>2 DEF UpTo
    <3> QED BY <3>1, <1>1 DEF UpTo
  <2>2. \A e : Named(e).height = e.height
    BY DEF Named
  <2> QED BY <1>5, <2>1, <2>2 DEF Deep, UpTo
<1>7. found \subseteq OnChain
  <2>1. ASSUME NEW e \in found PROVE HashAt(e.height) = e.hash
    <3>1. e.height \in Known /\ blocks[e.height] = e.hash /\ e.hash \in 0..MaxForks
      BY DEF IInv, ReadsOK, TypeOK, Event
    <3>2. blocks[e.height] \in {Missing, HashAt(e.height)}
      BY <3>1 DEF IInv, ListOK
    <3> QED BY <3>1, <3>2 DEF Missing
  <2> QED BY <2>1 DEF IInv, ReadsOK, Sound
<1>8. \A e \in found : Named(e) \in Deep
  BY DEF IInv, ReadsOK
<1>9. ASSUME NEW e \in OnChain, Named(e) \in Deep PROVE e \in found
  <2>1. PICK f \in found : f.tx = Named(e).tx
    BY <1>9 DEF Left
  <2>2. f.tx = e.tx /\ f \in OnChain
    BY <2>1, <1>7 DEF Named
  <2> QED BY <2>1, <2>2 DEF IInv, LedgerOK
<1>10. found = UpTo(m)
  BY <1>6, <1>7, <1>8, <1>9 DEF UpTo
<1> QED BY <1>3, <1>10 DEF IInv, LedgerOK

\* What the steps after the reads of the transactions share: they leave
\* everything read as it is.
LEMMA ReadsStay ==
  ASSUME IInv, UNCHANGED <<chainVars, journalVars, listing, blocks, found>>,
         pc \in {"events", "utxos", "tip", "again"},
         pc' \in {"events", "utxos", "tip", "again", "crashed"},
         again' \in SUBSET Heights
  PROVE  /\ TypeOK' /\ LedgerOK' /\ JournalOK' /\ ReadsOK' /\ MemoryOK'
         /\ Known' = Known /\ Deep' = Deep
<1>1. /\ tip' = tip /\ since' = since /\ rows' = rows /\ events' = events
      /\ blocks' = blocks /\ found' = found
      /\ Known' = Known /\ Deep' = Deep
  BY DEF journalVars, listing, Known, Deep, Confirmed
<1>2. TypeOK'
  BY <1>1 DEF IInv, TypeOK, chainVars, journalVars
<1>3. LedgerOK' /\ JournalOK'
  BY ChainStays, JournalStays DEF IInv
<1>4. ReadsOK'
  BY <1>1, ChainStays DEF IInv, ReadsOK
<1>5. MemoryOK'
  BY <1>1, ChainStays DEF IInv, MemoryOK
<1> QED BY <1>1, <1>2, <1>3, <1>4, <1>5

\* The projection is a function of what was found.
LEMMA ProjectStep == ASSUME IInv, Project PROVE IInv'
<1>1. /\ pc = "events" /\ pc' = "utxos" /\ UNCHANGED <<chainVars, journalVars, listing, blocks, found, again>>
      /\ Left = {} /\ Replayable(found) /\ again' = again /\ again \in SUBSET Heights
  BY DEF Project, IInv, TypeOK
<1>2. TypeOK' /\ LedgerOK' /\ JournalOK' /\ ReadsOK' /\ MemoryOK' /\ Known' = Known
  BY <1>1, ReadsStay
<1>3. ListOK'
  <2>1. forks = since => found \in eras
    BY <1>1, FoundIsAPrefix
  <2> QED BY <1>1, <1>2, <2>1, ChainStays DEF IInv, ListOK, listing
<1>4. PassOK'
  BY <1>1 DEF PassOK
<1> QED BY <1>2, <1>3, <1>4 DEF IInv

\* The unspent orders are those of the chain of this moment, or the pass ends.
LEMMA ReadUtxosStep == ASSUME IInv, ReadUtxos PROVE IInv'
<1>1. /\ pc = "utxos" /\ pc' = "tip" /\ UNCHANGED <<chainVars, journalVars, listing, blocks, found, again>>
      /\ Unspent(OnChain) = Unspent(found) \/ rows # Deep
      /\ again' = again /\ again \in SUBSET Heights /\ found' = found /\ rows' = rows
  BY DEF ReadUtxos, IInv, TypeOK, listing
<1>2. TypeOK' /\ LedgerOK' /\ JournalOK' /\ ReadsOK' /\ MemoryOK' /\ Known' = Known /\ Deep' = Deep
  BY <1>1, ReadsStay
<1>3. ListOK'
  BY <1>1, <1>2, ChainStays DEF IInv, ListOK, listing
<1>4. OnChain \in eras
  <2>1. Height \in 0..Height /\ UpTo(Height) = OnChain
    BY OnChainAre DEF IInv, UpTo
  <2> QED BY <2>1 DEF IInv, LedgerOK
<1>5. PassOK'
  BY <1>1, <1>2, <1>4, ChainStays DEF IInv, PassOK
<1> QED BY <1>2, <1>3, <1>5 DEF IInv

\* The closing tip is read; nothing else moves.
LEMMA CheckTipStep == ASSUME IInv, CheckTip PROVE IInv'
<1>1. /\ pc = "tip" /\ pc' = "again" /\ UNCHANGED <<chainVars, journalVars, listing, blocks, found>>
      /\ again' = Known /\ Known \in SUBSET Heights /\ found' = found /\ rows' = rows /\ blocks' = blocks
  BY DEF CheckTip, Known, listing
<1>2. TypeOK' /\ LedgerOK' /\ JournalOK' /\ ReadsOK' /\ MemoryOK' /\ Known' = Known /\ Deep' = Deep
  BY <1>1, ReadsStay
<1>3. ListOK'
  BY <1>1, <1>2, ChainStays DEF IInv, ListOK, listing
<1>4. OnChain \in eras
  <2>1. Height \in 0..Height /\ UpTo(Height) = OnChain
    BY OnChainAre DEF IInv, UpTo
  <2> QED BY <2>1 DEF IInv, LedgerOK
<1>5. \/ \E E \in eras : found \subseteq E
      \/ \E h \in Known : blocks[h] = Missing \/ HashAt(h) # blocks[h]
  <2> SUFFICES ASSUME \A h \in Known : blocks[h] # Missing /\ HashAt(h) = blocks[h]
               PROVE  found \subseteq OnChain
    BY <1>4
  <2> QED BY DEF IInv, ReadsOK, Sound
<1>6. PassOK'
  BY <1>1, <1>2, <1>5, ChainStays DEF IInv, PassOK
<1> QED BY <1>2, <1>3, <1>6 DEF IInv

\* A block that is the same again is one that never left in between.
LEMMA RecheckStep == ASSUME IInv, NEW h \in Heights, Recheck(h) PROVE IInv'
<1>1. /\ pc = "again" /\ pc' = "again" /\ UNCHANGED <<chainVars, journalVars, listing, blocks, found>>
      /\ again' = again \ {h} /\ again' \in SUBSET Heights
      /\ HashAt(h) = blocks[h] /\ blocks[h] # Missing
      /\ found' = found /\ rows' = rows /\ blocks' = blocks
  BY DEF Recheck, IInv, TypeOK, listing
<1>2. TypeOK' /\ LedgerOK' /\ JournalOK' /\ ReadsOK' /\ MemoryOK' /\ Known' = Known /\ Deep' = Deep
  BY <1>1, ReadsStay
<1>3. ListOK'
  BY <1>1, <1>2, ChainStays DEF IInv, ListOK, listing
<1>4. PassOK'
  BY <1>1, <1>2, ChainStays DEF IInv, PassOK
<1> QED BY <1>2, <1>3, <1>4 DEF IInv

\* The run that ends at a closing read leaves the journal as it is.
LEMMA RecheckCrashStep == ASSUME IInv, NEW h \in Heights, RecheckCrash(h) PROVE IInv'
<1>1. /\ pc = "again" /\ pc' = "crashed" /\ UNCHANGED <<chainVars, journalVars, listing, blocks, found>>
      /\ again' = again /\ again' \in SUBSET Heights
  BY DEF RecheckCrash, IInv, TypeOK
<1>2. TypeOK' /\ LedgerOK' /\ JournalOK' /\ ReadsOK' /\ MemoryOK'
  BY <1>1, ReadsStay
<1>3. ListOK' /\ PassOK'
  BY <1>1 DEF ListOK, PassOK
<1> QED BY <1>2, <1>3 DEF IInv

\* After every block was the same again, what is stored is of one chain.
LEMMA CommitStep == ASSUME IInv, Commit PROVE IInv'
<1>1. /\ pc = "again" /\ again = {} /\ UNCHANGED chainVars /\ Finish
      /\ events' = found /\ counted' = FillsIn(found) /\ live' = Unspent(found)
      /\ pending' = (rows # Deep)
  BY DEF Commit
<1>2. /\ found \in SUBSET Event /\ FillsIn(found) \in SUBSET Fills
      /\ \A e, f \in found : e.tx = f.tx => e = f
  BY DEF IInv, TypeOK, ReadsOK, FillsIn
<1>3. Unspent(found) \subseteq Outputs
  <2>1. \A e \in found : e.tx \in Creates \cup Fills \cup Closes
    BY <1>2 DEF Event, Txs
  <2> QED BY <2>1 DEF Unspent, Outputs
<1>4. JournalOK'
  <2>1. Replayable(found) /\ (rows # Deep \/ \E E \in eras : Unspent(found) = Unspent(E))
        /\ \E E \in eras : found \subseteq E
    BY <1>1 DEF IInv, PassOK
  <2>2. \A e \in found : Sound(e)
    BY DEF IInv, ReadsOK
  <2>3. eras' = eras
    BY <1>1 DEF chainVars
  <2>4. counted' = FillsIn(events') /\ live' = Unspent(events')
    BY <1>1
  <2>5. Replayable(events')
    BY <1>1, <2>1
  <2>6. LiveOrdersStood'
    BY <1>1, <2>1, <2>3 DEF LiveOrdersStood
  <2>7. \A e \in events' : Sound(e)'
    BY <1>1, <2>2, ChainStays
  <2>8. \E E \in eras' : events' \subseteq E
    BY <1>1, <2>1, <2>3
  <2> QED BY <2>4, <2>5, <2>6, <2>7, <2>8 DEF JournalOK
<1>5. events' \in SUBSET Event /\ counted' \in SUBSET Fills /\ live' \in SUBSET Outputs
      /\ pending' \in BOOLEAN /\ \A e, f \in events' : e.tx = f.tx => e = f
  BY <1>1, <1>2, <1>3
<1> QED BY <1>1, <1>4, <1>5, FinishStep

\* A pass that raises, or a restart, leaves the journal as it is.
LEMMA AbandonStep == ASSUME IInv, Raise \/ Restart PROVE IInv'
<1>1. UNCHANGED <<chainVars, journalVars>> /\ Finish
  BY DEF Raise, Restart
<1>2. JournalOK'
  BY <1>1, JournalStays DEF IInv
<1>3. events' \in SUBSET Event /\ counted' \in SUBSET Fills /\ live' \in SUBSET Outputs
      /\ pending' \in BOOLEAN /\ \A e, f \in events' : e.tx = f.tx => e = f
  BY <1>1 DEF IInv, TypeOK, journalVars
<1> QED BY <1>1, <1>2, <1>3, FinishStep

\* Nothing moves.
LEMMA StutterStep == ASSUME IInv, UNCHANGED vars PROVE IInv'
<1>1. UNCHANGED <<chainVars, journalVars, passVars>> /\ events' = events /\ pc' = pc /\ tip' = tip
      /\ since' = since /\ rows' = rows /\ blocks' = blocks /\ found' = found /\ again' = again
  BY DEF vars, journalVars, passVars, listing
<1>2. Known' = Known /\ Deep' = Deep
  BY <1>1 DEF Known, Deep, Confirmed
<1>3. TypeOK'
  BY <1>1 DEF IInv, TypeOK, chainVars, journalVars
<1>4. LedgerOK' /\ JournalOK'
  BY <1>1, ChainStays, JournalStays DEF IInv
<1>5. ReadsOK' /\ MemoryOK' /\ ListOK' /\ PassOK'
  BY <1>1, <1>2, ChainStays DEF IInv, ReadsOK, MemoryOK, ListOK, PassOK
<1> QED BY <1>3, <1>4, <1>5 DEF IInv

----------------------------------------------------------------------------
(* The theorems.                                                           *)

\* The empty journal and chain satisfy the invariant.
LEMMA InitIInv == ASSUME Init PROVE IInv
<1>1. chain = <<[hash |-> 0, tx |-> None]>> /\ Height = 1 /\ Len(chain) = 1
      /\ chain[1].hash = 0 /\ chain[1].tx = None
  BY DEF Init, Height
<1>2. chain \in Seq(Block)
  <2>1. [hash |-> 0, tx |-> None] \in Block
    BY DEF Block
  <2> QED BY <1>1, <2>1
<1>3. OnChain = {}
  BY <1>1 DEF OnChain, EventsOf
<1>4. LedgerOK
  BY <1>1, <1>3 DEF Init, LedgerOK, UpTo
<1>5. TypeOK
  <2>1. chain \in Seq([hash : 0..MaxForks, tx : Txs \cup {None}])
    BY <1>2 DEF Block
  <2>2. forks \in 0..MaxForks /\ fixed \in Heights /\ tip \in 0..MaxHeight /\ since \in -1..MaxForks
    BY DEF Init, Heights
  <2>3. blocks \in [Heights -> -2..MaxForks]
    BY DEF Init, NoBlocks, Unread
  <2>4. /\ eras \in SUBSET SUBSET Event /\ events \in SUBSET Event /\ counted \in SUBSET Fills
        /\ live \in SUBSET Outputs /\ rows \in SUBSET [tx : Txs, height : Heights]
        /\ found \in SUBSET Event /\ again \in SUBSET Heights /\ events = {}
    BY DEF Init
  <2> QED BY <2>1, <2>2, <2>3, <2>4 DEF Init, TypeOK
<1>6. Known = {}
  BY DEF Init, Known, NoBlocks
<1>7. JournalOK
  BY DEF Init, JournalOK, FillsIn, Unspent, Replayable, LiveOrdersStood
<1>8. ReadsOK /\ MemoryOK /\ ListOK /\ PassOK
  BY <1>6 DEF Init, ReadsOK, MemoryOK, ListOK, PassOK
<1> QED BY <1>4, <1>5, <1>7, <1>8 DEF IInv

\* Every step keeps the invariant: one case per action.
LEMMA NextIInv == ASSUME IInv, [Next]_vars PROVE IInv'
BY LedgerStep, ReadHistoryStep, ReadBlockStep, TakeCachedStep, ReadInfoStep, ProjectStep,
   ReadUtxosStep, CheckTipStep, RecheckStep, RecheckCrashStep, CommitStep, AbandonStep, StutterStep
   DEF Next

\* The inductive invariant of a pass over a moving chain.
THEOREM LineageInvariant == Spec => []IInv
<1>1. Init => IInv
  BY InitIInv
<1>2. IInv /\ [Next]_vars => IInv'
  BY NextIInv
<1> QED BY <1>1, <1>2, PTL DEF Spec

\* Every variable keeps its type.
THEOREM OrderTypeCorrect == Spec => []TypeOK
<1>1. IInv => TypeOK
  BY DEF IInv
<1> QED BY <1>1, LineageInvariant, PTL

\* The stored events are of one chain the node had, all of them up to some
\* height when the history omitted nothing and no roll-back came between the
\* reads (sync's closing re-read).
THEOREM StoredFromOneChain == Spec => []OneHistory
<1>1. IInv => OneHistory
  BY DEF IInv, JournalOK, ListOK, OneHistory
<1> QED BY <1>1, LineageInvariant, PTL

\* Unless activity is pending, the live orders are the unspent orders of one
\* chain the node had (the comparison with address_utxos in sync).
THEOREM LiveFromOneChain == Spec => []LiveOrdersStood
<1>1. IInv => LiveOrdersStood
  BY DEF IInv, JournalOK
<1> QED BY <1>1, LineageInvariant, PTL

\* Counted fills and live orders agree, whatever was reversed and came back.
THEOREM FillsAgree == Spec => []FillsExplainOrders
<1>1. IInv => FillsExplainOrders
  <2> SUFFICES ASSUME IInv PROVE FillsExplainOrders
    OBVIOUS
  <2>1. counted = FillsIn(events) /\ live = Unspent(events) /\ Replayable(events)
    BY DEF IInv, JournalOK
  <2>2. \A e \in events : e.tx \in Creates \cup Fills \cup Closes
    BY DEF IInv, TypeOK, Event, Txs
  <2>3. ASSUME NEW t \in Fills PROVE t \notin Closes /\ t \notin Creates
    BY <2>3 DEF Outputs
  <2>4. ASSUME NEW t \in counted
        PROVE  Makes[t] \in live \/ \E e \in events : Takes[e.tx] = Makes[t]
    <3>1. PICK e \in events : e.tx = t /\ t \in Fills
      BY <2>1, <2>4 DEF FillsIn
    <3> QED BY <3>1, <2>1, <2>3 DEF Unspent
  <2>5. ASSUME NEW t \in counted
        PROVE  \E u \in counted \cup ({e.tx : e \in events} \cap Creates) : Makes[u] = Takes[t]
    <3>1. PICK e \in events : e.tx = t /\ t \in Fills
      BY <2>1, <2>5 DEF FillsIn
    <3>2. PICK f \in events : f.tx \notin Closes /\ Makes[f.tx] = Takes[t]
      BY <3>1, <2>1 DEF Replayable
    <3> QED BY <3>2, <2>1, <2>2 DEF FillsIn
  <2>6. ASSUME NEW t \in Fills, Makes[t] \in live PROVE t \in counted
    <3>1. PICK e \in events : e.tx \notin Closes /\ Makes[e.tx] = Makes[t]
      BY <2>1, <2>6 DEF Unspent
    <3>2. e.tx = t
      BY <3>1, <2>2
    <3> QED BY <3>1, <3>2, <2>1 DEF FillsIn
  <2> QED BY <2>4, <2>5, <2>6 DEF FillsExplainOrders
<1> QED BY <1>1, LineageInvariant, PTL

\* An event leaves the journal only when the chain has left its block or it is
\* pending again.
THEOREM HistoryRemembered == Spec => NothingForgotten
<1>1. IInv /\ [Next]_vars =>
        [\A e \in events \ events' :
           \/ HashAt(e.height) # e.hash
           \/ [tx |-> e.tx, height |-> e.height] \in rows \ Deep]_vars
  <2> SUFFICES ASSUME IInv, Next, NEW e \in events \ events'
               PROVE  HashAt(e.height) # e.hash \/ Named(e) \in rows \ Deep
    BY DEF Named
  <2>1. CASE Commit
    BY <2>1 DEF Commit, IInv, MemoryOK
  <2>2. CASE UNCHANGED journalVars
    BY <2>2 DEF journalVars
  <2> QED BY <2>1, <2>2 DEF Next, Mint, Rollback, ReadHistory, TakeCached, Project, ReadUtxos, CheckTip,
        Raise, Restart, ReadBlock, Recheck, RecheckCrash, ReadInfo
<1> QED BY <1>1, LineageInvariant, PTL DEF Spec, NothingForgotten
=============================================================================
