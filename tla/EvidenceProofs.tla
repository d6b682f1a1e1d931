--------------------------- MODULE EvidenceProofs ---------------------------
(***************************************************************************)
(* Theorems about Evidence: an accepted history has every entry the chain  *)
(* had when it was begun, whatever moves between its pages, and a proved   *)
(* spender is settled for good as long as roll-backs stay within the       *)
(* confirmation depth; for every chain, page size and order of hashes.     *)
(***************************************************************************)
EXTENDS Evidence, FiniteSetTheorems, TLAPS

----------------------------------------------------------------------------
(* The chain.                                                              *)

\* No roll-back reaches below fixed, which lags the height by MaxReorg at most;
\* no block is of a fork to come, and a transaction is on the chain once.
ChainSound ==
  /\ ChainTypeOK
  /\ fixed <= Height /\ Height <= fixed + MaxReorg
  /\ \A h \in 1..Height : chain[h].hash <= forks
  /\ \A h, k \in 1..Height : chain[h].tx = chain[k].tx /\ chain[h].tx # NoTx => h = k

\* The bounds are numbers.
LEMMA Numbers ==
  /\ MaxHeight \in Nat \ {0} /\ MaxReorg \in Nat /\ MaxForks \in Nat /\ NoTx \notin Txs
  /\ PageSize \in Nat \ {0} /\ MaxPages \in Nat \ {0} /\ Confirmations \in Nat \ {0}
  BY ChainAssumption, EvidenceAssumption

\* There is always a block, and blocks have their fields.
LEMMA BlocksTyped ==
  ASSUME ChainTypeOK
  PROVE  /\ Height \in 1..MaxHeight /\ Height \in Nat /\ fixed \in Nat /\ fixed >= 1 /\ forks \in Nat
         /\ chain \in Seq(Blocks)
         /\ \A h \in 1..Height : /\ chain[h].hash \in 0..MaxForks /\ chain[h].slot \in Nat
                                 /\ chain[h].tx \in Txs \cup {NoTx}
<1>1. Height \in 1..MaxHeight /\ fixed \in 1..MaxHeight /\ forks \in 0..MaxForks /\ chain \in Seq(Blocks)
  BY DEF ChainTypeOK, Height, Heights
<1>2. \A h \in 1..Height : chain[h] \in Blocks
  BY <1>1 DEF Height
<1> QED BY <1>1, <1>2, Numbers DEF Blocks

\* A step of the chain: a block of the present fork comes on top, or blocks
\* above the part that is fixed go and the next fork begins.
LEMMA ChainMoves ==
  ASSUME ChainSound, ChainNext
  PROVE  /\ ChainTypeOK' /\ Height' \in Nat
         /\ \A h \in 1..Height : h <= Height' => chain'[h] = chain[h]
         /\ \/ /\ forks' = forks /\ Height' = Height + 1 /\ chain'[Height'].hash = forks
               /\ chain'[Height'].tx = NoTx \/ ~ OnChain(chain'[Height'].tx)
               /\ fixed' = IF Height + 1 - MaxReorg > fixed THEN Height + 1 - MaxReorg ELSE fixed
            \/ forks' = forks + 1 /\ Height' < Height /\ fixed <= Height' /\ fixed' = fixed
<1> USE Numbers DEF ChainSound
<1>0. /\ Height \in 1..MaxHeight /\ Height \in Nat /\ fixed \in Nat /\ chain \in Seq(Blocks)
      /\ \A h \in 1..Height : chain[h].slot \in Nat
  BY BlocksTyped
<1>1. ASSUME NEW b \in Blocks, b.hash = forks, b.tx = NoTx \/ ~ OnChain(b.tx), Mint(b)
      PROVE  /\ ChainTypeOK' /\ Height' \in Nat
             /\ \A h \in 1..Height : chain'[h] = chain[h]
             /\ forks' = forks /\ Height' = Height + 1 /\ chain'[Height'].hash = forks
             /\ chain'[Height'].tx = NoTx \/ ~ OnChain(chain'[Height'].tx)
             /\ fixed' = IF Height + 1 - MaxReorg > fixed THEN Height + 1 - MaxReorg ELSE fixed
  <2>1. chain' \in Seq(Blocks) /\ Len(chain') = Len(chain) + 1 /\ Len(chain) \in Nat
    BY <1>0, <1>1 DEF Mint
  <2>2. \A h \in 1..Len(chain) : chain'[h] = chain[h]
    BY <1>0, <1>1 DEF Mint
  <2>3. chain'[Len(chain) + 1] = b
    BY <1>0, <1>1 DEF Mint
  <2>4. Len(chain') \in Heights /\ fixed' \in Heights
    BY <1>0, <1>1, <2>1 DEF ChainTypeOK, Mint, Heights, Height
  <2>5. ChainTypeOK'
    BY <1>1, <2>1, <2>4 DEF ChainTypeOK, Mint
  <2> QED BY <1>1, <2>1, <2>2, <2>3, <2>5 DEF Mint, Height
<1>2. ASSUME NEW n \in Heights, Rollback(n)
      PROVE  /\ ChainTypeOK' /\ Height' \in Nat
             /\ \A h \in 1..Height : h <= Height' => chain'[h] = chain[h]
             /\ forks' = forks + 1 /\ Height' < Height /\ fixed <= Height' /\ fixed' = fixed
  <2>1. n \in 1..(Len(chain) - 1) /\ Len(chain) \in Nat
    BY <1>0, <1>2 DEF Rollback, Height
  <2>2. chain' \in Seq(Blocks) /\ Len(chain') = n
    BY <1>0, <1>2, <2>1 DEF Rollback
  <2>3. \A h \in 1..n : chain'[h] = chain[h]
    BY <1>0, <1>2, <2>1 DEF Rollback
  <2>4. ChainTypeOK'
    BY <1>2, <2>2 DEF Rollback, ChainTypeOK
  <2> QED BY <1>2, <2>1, <2>2, <2>3, <2>4 DEF Rollback, Height
<1>3. \A slot \in NextSlots : slot \in Nat
  BY <1>0 DEF NextSlots, Slot
<1>4. ASSUME NEW slot \in NextSlots, MintEmpty(slot)
      PROVE  \E b \in Blocks : b.hash = forks /\ (b.tx = NoTx \/ ~ OnChain(b.tx)) /\ Mint(b)
  BY <1>3, <1>4 DEF MintEmpty, Blocks, ChainTypeOK
<1>5. ASSUME NEW t \in Txs, NEW ok \in BOOLEAN, NEW slot \in NextSlots, MintWith(t, ok, slot)
      PROVE  \E b \in Blocks : b.hash = forks /\ (b.tx = NoTx \/ ~ OnChain(b.tx)) /\ Mint(b)
  BY <1>3, <1>5 DEF MintWith, Includable, Blocks, ChainTypeOK
<1>6. CASE \E n \in Heights : Rollback(n)
  BY <1>2, <1>6
<1>7. CASE \E b \in Blocks : b.hash = forks /\ (b.tx = NoTx \/ ~ OnChain(b.tx)) /\ Mint(b)
  <2>1. PICK b \in Blocks : b.hash = forks /\ (b.tx = NoTx \/ ~ OnChain(b.tx)) /\ Mint(b)
    BY <1>7
  <2> QED BY <1>1, <2>1
<1> QED BY <1>4, <1>5, <1>6, <1>7 DEF ChainNext

\* The chain stays sound, and what is fixed stays.
LEMMA SoundStays ==
  ASSUME ChainSound, ChainNext
  PROVE  /\ ChainSound' /\ fixed <= fixed'
         /\ \A h \in 1..fixed : h \in 1..Height /\ h \in 1..Height' /\ chain'[h] = chain[h]
<1> USE Numbers
<1>0. /\ Height \in 1..MaxHeight /\ Height \in Nat /\ fixed \in Nat /\ forks \in Nat
      /\ fixed <= Height /\ Height <= fixed + MaxReorg
      /\ \A h \in 1..Height : chain[h].hash \in Nat /\ chain[h].hash <= forks
  BY BlocksTyped DEF ChainSound
<1>1. \A h, k \in 1..Height : chain[h].tx = chain[k].tx /\ chain[h].tx # NoTx => h = k
  BY DEF ChainSound
<1>2. ChainTypeOK' /\ Height' \in Nat /\ \A h \in 1..Height : h <= Height' => chain'[h] = chain[h]
  BY ChainMoves
<1>3. CASE /\ forks' = forks /\ Height' = Height + 1 /\ chain'[Height'].hash = forks
           /\ chain'[Height'].tx = NoTx \/ ~ OnChain(chain'[Height'].tx)
           /\ fixed' = IF Height + 1 - MaxReorg > fixed THEN Height + 1 - MaxReorg ELSE fixed
  <2>1. fixed <= fixed' /\ fixed' <= Height' /\ Height' <= fixed' + MaxReorg
    BY <1>0, <1>3
  <2>2. \A h \in 1..Height' : h = Height' \/ (h \in 1..Height /\ chain'[h] = chain[h])
    BY <1>0, <1>2, <1>3
  <2>3. \A h \in 1..Height' : chain'[h].hash <= forks'
    BY <1>0, <1>3, <2>2
  <2>4. \A h \in 1..Height : chain[h].tx = chain'[Height'].tx => chain[h].tx = NoTx
    BY <1>3 DEF OnChain, InclusionHeights
  <2>5. \A h, k \in 1..Height' : chain'[h].tx = chain'[k].tx /\ chain'[h].tx # NoTx => h = k
    BY <1>1, <2>2, <2>4
  <2> QED BY <1>0, <1>2, <1>3, <2>1, <2>3, <2>5 DEF ChainSound
<1>4. CASE forks' = forks + 1 /\ Height' < Height /\ fixed <= Height' /\ fixed' = fixed
  <2>1. \A h \in 1..Height' : h \in 1..Height /\ chain'[h] = chain[h]
    BY <1>0, <1>2, <1>4
  <2>2. \A h \in 1..Height' : chain'[h].hash <= forks'
    BY <1>0, <1>4, <2>1
  <2>3. \A h, k \in 1..Height' : chain'[h].tx = chain'[k].tx /\ chain'[h].tx # NoTx => h = k
    BY <1>1, <2>1
  <2>4. fixed' <= Height' /\ Height' <= fixed' + MaxReorg
    BY <1>0, <1>2, <1>4
  <2> QED BY <1>0, <1>2, <1>4, <2>2, <2>3, <2>4 DEF ChainSound
<1> QED BY <1>3, <1>4, ChainMoves

\* The block of a point is on the chain.
Stands(p) == p.height \in 1..Height /\ chain[p.height].hash = p.hash

\* A point that was once read: its block is there, or gone with its fork.
Seen(p) ==
  /\ p.height \in 1..MaxHeight /\ p.hash \in 0..MaxForks /\ p.hash <= forks
  /\ Stands(p) \/ p.hash < forks

\* A point of the chain is seen.
LEMMA PointSeen ==
  ASSUME ChainSound, NEW h \in 1..Height, NEW p, p.height = h, p.hash = HashAt(h)
  PROVE  Seen(p) /\ Stands(p)
  BY BlocksTyped, Numbers DEF ChainSound, Seen, Stands, HashAt

\* The block of a point that was seen does not come back: where it stands after
\* a step it stood before, and with it everything below.
LEMMA PointMoves ==
  ASSUME ChainSound, ChainNext, NEW p, Seen(p)
  PROVE  /\ Seen(p)'
         /\ Stands(p)' => /\ Stands(p)
                          /\ \A h \in 1..p.height :
                               h \in 1..Height /\ h \in 1..Height' /\ chain'[h] = chain[h]
         /\ Stands(p) /\ forks' = forks => Stands(p)'
<1> USE Numbers
<1>0. /\ Height \in Nat /\ Height' \in Nat /\ forks \in Nat /\ p.height \in Nat /\ p.height >= 1
      /\ p.hash \in Nat
  BY BlocksTyped, ChainMoves DEF ChainSound, Seen
<1>1. \A h \in 1..Height : h <= Height' => chain'[h] = chain[h]
  BY ChainMoves
<1>2. CASE forks' = forks /\ Height' = Height + 1 /\ chain'[Height'].hash = forks
  <2>1. Stands(p) => Stands(p)'
    BY <1>0, <1>1, <1>2 DEF Stands
  <2>2. ASSUME Stands(p)' PROVE Stands(p)
    <3>1. CASE p.height = Height'
      BY <1>0, <1>2, <2>2, <3>1 DEF Stands, Seen
    <3>2. CASE p.height # Height'
      BY <1>0, <1>1, <1>2, <2>2, <3>2 DEF Stands
    <3> QED BY <3>1, <3>2
  <2>3. Stands(p)' => \A h \in 1..p.height : h \in 1..Height /\ h \in 1..Height' /\ chain'[h] = chain[h]
    BY <1>0, <1>1, <1>2, <2>2 DEF Stands
  <2> QED BY <1>2, <2>1, <2>2, <2>3 DEF Seen
<1>3. CASE forks' = forks + 1 /\ Height' < Height
  <2>1. Stands(p)' => /\ Stands(p)
                      /\ \A h \in 1..p.height : h \in 1..Height /\ h \in 1..Height' /\ chain'[h] = chain[h]
    BY <1>0, <1>1, <1>3 DEF Stands
  <2>2. p.hash <= forks' /\ p.hash < forks' /\ forks' # forks
    BY <1>0, <1>3 DEF Seen
  <2> QED BY <2>1, <2>2 DEF Seen
<1> QED BY <1>2, <1>3, ChainMoves

----------------------------------------------------------------------------
(* Listings.                                                               *)

\* A row is typed and names its block, and a transaction has one row.
LEMMA RowsAre ==
  ASSUME ChainSound
  PROVE  /\ \A r \in Rows : /\ r \in Entries /\ r.height \in 1..Height
                            /\ r = Row(r.height) /\ chain[r.height].tx # NoTx
         /\ \A h \in 1..Height : chain[h].tx # NoTx => Row(h) \in Rows
         /\ \A r, q \in Rows : r.tx = q.tx \/ r.height = q.height => r = q
         /\ IsFiniteSet(Rows)
<1>0. /\ Height \in 1..MaxHeight
      /\ \A h \in 1..Height : chain[h].slot \in Nat /\ chain[h].tx \in Txs \cup {NoTx}
  BY BlocksTyped DEF ChainSound
<1>1. ASSUME NEW r \in Rows
      PROVE  /\ r \in Entries /\ r.height \in 1..Height /\ r = Row(r.height)
             /\ chain[r.height].tx # NoTx /\ r.tx = chain[r.height].tx
  <2>1. PICK h \in 1..Height : chain[h].tx # NoTx /\ r = Row(h)
    BY DEF Rows
  <2>2. h \in Heights /\ r = [tx |-> chain[h].tx, height |-> h, slot |-> chain[h].slot]
    BY <1>0, <2>1, Numbers DEF Row, Heights
  <2>3. chain[h].tx \in Txs /\ chain[h].slot \in Nat
    BY <1>0, <2>1
  <2>4. r.height = h /\ r.tx = chain[h].tx
    BY <2>2
  <2>5. r \in Entries
    BY <2>2, <2>3 DEF Entries
  <2> QED BY <2>1, <2>4, <2>5
<1>2. \A h \in 1..Height : chain[h].tx # NoTx => Row(h) \in Rows
  BY DEF Rows
<1>3. \A r, q \in Rows : r.tx = q.tx \/ r.height = q.height => r = q
  <2> SUFFICES ASSUME NEW r \in Rows, NEW q \in Rows, r.tx = q.tx \/ r.height = q.height PROVE r = q
    OBVIOUS
  <2>1. r.height \in 1..Height /\ q.height \in 1..Height /\ chain[r.height].tx # NoTx
        /\ r.tx = chain[r.height].tx /\ q.tx = chain[q.height].tx
        /\ r = Row(r.height) /\ q = Row(q.height)
    BY <1>1
  <2>2. r.height = q.height
    BY <2>1 DEF ChainSound
  <2> QED BY <2>1, <2>2
<1>4. IsFiniteSet(Rows)
  <2> DEFINE f == [r \in Rows |-> r.height]
  <2>1. f \in Injection(Rows, 1..Height)
    BY <1>1, <1>3 DEF Injection, IsInjective
  <2>2. IsFiniteSet(1..Height)
    BY <1>0, Numbers, FS_Interval
  <2> QED BY <2>1, <2>2, FS_Injection
<1> QED BY <1>1, <1>2, <1>3, <1>4

\* Keys order the rows.
LEMMA KeysAre ==
  ASSUME ChainSound
  PROVE  /\ \A r \in Entries : Key(r) \in Nat
         /\ \A r, q \in Rows : Key(r) = Key(q) => r = q
<1>1. /\ Rank \in [Txs -> Nat] /\ \A t, u \in Txs : Rank[t] = Rank[u] => t = u
      /\ Heights \subseteq Nat
  BY EvidenceAssumption, Numbers DEF Heights
<1>2. \A r \in Entries : r.tx \in Txs /\ r.height \in Nat
  BY <1>1 DEF Entries
<1> QED BY <1>1, <1>2, RowsAre DEF Key

\* Positions are the numbers from one to the count of rows, each of one row.
LEMMA PositionsAre ==
  ASSUME ChainSound
  PROVE  /\ \A r \in Rows : Position(r) \in 1..Cardinality(Rows)
         /\ \A r, q \in Rows : Position(r) = Position(q) => r = q
         /\ \A n \in 1..Cardinality(Rows) : \E r \in Rows : Position(r) = n
         /\ Cardinality(Rows) \in Nat
<1> DEFINE Upto(r) == {q \in Rows : Key(q) <= Key(r)}
<1>0. IsFiniteSet(Rows) /\ Cardinality(Rows) \in Nat
  BY RowsAre, FS_CardinalityType
<1>1. \A r \in Rows : Key(r) \in Nat
  BY RowsAre, KeysAre
<1>2. \A r \in Rows : /\ Upto(r) \in SUBSET Rows /\ r \in Upto(r) /\ IsFiniteSet(Upto(r))
                      /\ Cardinality(Upto(r)) \in Nat
  <2> TAKE r \in Rows
  <2>1. Upto(r) \in SUBSET Rows /\ r \in Upto(r)
    BY <1>1
  <2> HIDE DEF Upto
  <2> QED BY <1>0, <2>1, FS_Subset, FS_CardinalityType
<1>3. \A r \in Rows : Position(r) = Cardinality(Upto(r))
  BY DEF Position
<1>4. ASSUME NEW r \in Rows PROVE Position(r) \in 1..Cardinality(Rows)
  <2>1. Cardinality(Upto(r)) <= Cardinality(Rows)
    <3> HIDE DEF Upto
    <3> QED BY <1>0, <1>2, FS_Subset
  <2>2. Cardinality(Upto(r)) # 0
    <3> HIDE DEF Upto
    <3> QED BY <1>2, FS_EmptySet
  <2> QED BY <1>0, <1>2, <1>3, <2>1, <2>2
<1>5. ASSUME NEW r \in Rows, NEW q \in Rows, Key(r) <= Key(q), Position(r) = Position(q) PROVE r = q
  <2>1. Upto(r) \in SUBSET Upto(q)
    BY <1>1, <1>5
  <2>2. Upto(r) = Upto(q)
    <3> HIDE DEF Upto
    <3>1. IsFiniteSet(Upto(q)) /\ Cardinality(Upto(r)) = Cardinality(Upto(q))
      BY <1>2, <1>3, <1>5
    <3> QED BY <2>1, <3>1, FS_Subset
  <2>3. q \in Upto(r)
    <3> HIDE DEF Upto
    <3> QED BY <1>2, <2>2
  <2>4. Key(q) = Key(r)
    BY <1>1, <1>5, <2>3
  <2> QED BY <2>4, KeysAre
<1>6. \A r, q \in Rows : Position(r) = Position(q) => r = q
  <2> SUFFICES ASSUME NEW r \in Rows, NEW q \in Rows, Position(r) = Position(q) PROVE r = q
    OBVIOUS
  <2>1. Key(r) \in Nat /\ Key(q) \in Nat
    BY <1>1
  <2>2. CASE Key(r) <= Key(q)
    BY <1>5, <2>2
  <2>3. CASE Key(q) <= Key(r)
    BY <1>5, <2>3
  <2> QED BY <2>1, <2>2, <2>3
<1> DEFINE n == Cardinality(Rows)
           f == [r \in Rows |-> Position(r)]
<1>7. f \in Injection(Rows, 1..n)
  BY <1>4, <1>6 DEF Injection, IsInjective
<1>8. IsFiniteSet(1..n) /\ Cardinality(1..n) = n
  <2>1. n \in Int /\ 1 \in Int
    BY <1>0
  <2> HIDE DEF n
  <2>2. IsFiniteSet(1..n) /\ Cardinality(1..n) = IF 1 > n THEN 0 ELSE n - 1 + 1
    BY <2>1, FS_Interval
  <2> QED BY <1>0, <2>1, <2>2 DEF n
<1>9. f \in Surjection(Rows, 1..n)
  <2> HIDE DEF f
  <2> QED BY <1>7, <1>8, FS_Injection
<1>10. \A k \in 1..n : \E r \in Rows : Position(r) = k
  BY <1>9 DEF Surjection
<1> QED BY <1>0, <1>4, <1>6, <1>10

\* A page has no more rows than it has room for, and an empty one is behind the
\* last row.
LEMMA PageHolds ==
  ASSUME ChainSound, offset \in Nat, NEW n \in Nat \ {0}
  PROVE  /\ Page(n) \subseteq Rows /\ Cardinality(Page(n)) \in Nat /\ Cardinality(Page(n)) <= n
         /\ Page(n) = {} => \A r \in Rows : Position(r) <= offset
<1>1. Page(n) \in SUBSET Rows
  BY DEF Page
<1>2. IsFiniteSet(Page(n)) /\ Cardinality(Page(n)) \in Nat
  BY <1>1, RowsAre, FS_Subset, FS_CardinalityType
<1>3. Cardinality(Page(n)) <= n
  <2> DEFINE S == (offset + 1) .. (offset + n)
             f == [r \in Page(n) |-> Position(r)]
  <2>1. IsFiniteSet(S) /\ Cardinality(S) = n
    BY FS_Interval
  <2>2. f \in Injection(Page(n), S)
    BY <1>1, PositionsAre DEF Injection, IsInjective, Page
  <2> HIDE DEF S, f
  <2>3. Cardinality(Page(n)) <= Cardinality(S)
    BY <2>1, <2>2, FS_Injection
  <2> QED BY <2>1, <2>3
<1>4. ASSUME Page(n) = {}, NEW r \in Rows, ~ (Position(r) <= offset) PROVE FALSE
  <2>1. Position(r) \in 1..Cardinality(Rows) /\ Cardinality(Rows) \in Nat
    BY PositionsAre
  <2>2. offset + 1 \in 1..Cardinality(Rows)
    BY <1>4, <2>1
  <2>3. PICK q \in Rows : Position(q) = offset + 1
    BY <2>2, PositionsAre
  <2>4. offset + 1 \in (offset + 1) .. (offset + n)
    OBVIOUS
  <2> QED BY <1>4, <2>3, <2>4 DEF Page
<1> QED BY <1>1, <1>2, <1>3, <1>4

----------------------------------------------------------------------------
(* Histories.                                                              *)

Reading == {"page", "close", "anchor"}
Below(S) == {r \in S : r.height <= before.height}
Once(S) == \A r, q \in S : r.tx = q.tx => r = q

\* Nothing is left of the call before; a lookup is about a spender.
Calls ==
  /\ pc = "idle" => rows = {} /\ offset = 0 /\ ~ cut
  /\ pc \in {"item", "bytes", "info", "block", "tip"} => goal = "spender"

\* The chain the first tip was read from is still there; for Koios, whose rows
\* have no order on the chain, nothing was rolled back at all.
Valid == Stands(before) /\ (adapter = "koios" => ~ cut)

\* While that is so, the entries of then are those up to the first tip, none of
\* them moved ahead in the listing, and what the pages have passed is in rows.
Scanning ==
  pc \in Reading =>
    /\ Seen(before) /\ Once(rows)
    /\ adapter = "koios" /\ ~ cut => Stands(before)
    /\ Valid =>
         /\ base = Below(Rows) /\ Below(rows) \subseteq base
         /\ \A r \in base : Position(r) <= offset \/ pc # "page" => r \in rows

HInv == TypeOK /\ Calls /\ ChainSound /\ Scanning /\ HistoryIsWhole

\* The rows are finitely many, in every state.
RowsFinite == ChainSound => IsFiniteSet(Rows)

\* The library of finite sets may be used for them in any state.
LEMMA RowsAreFinite == RowsFinite
BY RowsAre DEF RowsFinite

\* What the adapters read is typed.
LEMMA ReadsTyped ==
  ASSUME ChainSound
  PROVE  /\ Tip \in Points /\ Seen(Tip) /\ Stands(Tip) /\ NoPoint \in Points
         /\ \A h \in 1..Height : [height |-> h, hash |-> HashAt(h)] \in Points
<1> USE Numbers
<1>0. Height \in 1..MaxHeight /\ \A h \in 1..Height : chain[h].hash \in 0..MaxForks
  BY BlocksTyped DEF ChainSound
<1>1. Height \in 1..Height /\ Tip.height = Height /\ Tip.hash = HashAt(Height)
  BY <1>0 DEF Tip
<1>2. \A h \in 1..Height : [height |-> h, hash |-> HashAt(h)] \in Points
  BY <1>0 DEF HashAt, Points
<1>3. NoPoint \in Points
  BY DEF NoPoint, Points
<1>4. Seen(Tip) /\ Stands(Tip)
  BY <1>1, PointSeen
<1> QED BY <1>1, <1>2, <1>3, <1>4 DEF Tip

\* A step that leaves the chain alone leaves alone what is read off it.
LEMMA ChainRests ==
  ASSUME UNCHANGED chainVars
  PROVE  /\ Rows' = Rows /\ Height' = Height /\ Tip' = Tip /\ (ChainSound => ChainSound')
         /\ \A h : HashAt(h)' = HashAt(h)
         /\ \A p : (Stands(p)' <=> Stands(p)) /\ (Seen(p)' <=> Seen(p))
<1>1. chain' = chain /\ forks' = forks /\ fixed' = fixed /\ wire' = wire
  BY DEF chainVars
<1>2. Height' = Height /\ Rows' = Rows
  BY <1>1 DEF Height, Rows, Row
<1>3. \A h : HashAt(h)' = HashAt(h)
  BY <1>1, <1>2 DEF HashAt
<1>4. \A p : (Stands(p)' <=> Stands(p)) /\ (Seen(p)' <=> Seen(p))
  BY <1>1, <1>2 DEF Stands, Seen
<1>5. ChainSound => ChainSound'
  BY <1>1, <1>2 DEF ChainSound, ChainTypeOK
<1> QED BY <1>2, <1>3, <1>4, <1>5 DEF Tip

\* The types, and what a call begins with.
LEMMA TypeStep ==
  ASSUME TypeOK, Calls, ChainSound, [Next]_vars
  PROVE  TypeOK' /\ Calls' /\ ChainSound'
<1> USE DEF Reads, Ends
<1>0. Tip \in Points /\ NoPoint \in Points /\ \A h \in 1..Height : [height |-> h, hash |-> HashAt(h)] \in Points
  BY ReadsTyped
<1>1. /\ Rows \subseteq Entries
      /\ \A n : Page(n) \subseteq Entries
  BY RowsAre DEF Page
<1>2. PageSize \in Nat /\ MaxPages \in Nat /\ PageSize # 0
  BY Numbers
<1>3. CASE UNCHANGED chainVars
  <2>0. ChainSound' /\ ChainTypeOK'
    BY <1>3, ChainRests DEF ChainSound
  <2> USE DEF scan, lookup
  <2>1. ASSUME NEW g \in {"history", "spender"}, BeginScan(g) PROVE TypeOK' /\ Calls'
    BY <1>0, <1>1, <2>0, <2>1 DEF TypeOK, Calls, BeginScan
  <2>2. ASSUME NEW n \in Nat, NEW step \in Nat, ReadPage(n, step) PROVE TypeOK' /\ Calls'
    BY <1>1, <1>2, <2>0, <2>2 DEF TypeOK, Calls, ReadPage
  <2>3. CASE KoiosPage
    <3>1. PICK n \in 1..PageSize : ReadPage(n, Cardinality(Page(n)))
      BY <2>3 DEF KoiosPage
    <3>2. n \in Nat \ {0} /\ offset \in Nat
      BY <1>2 DEF TypeOK
    <3>3. Cardinality(Page(n)) \in Nat
      BY <3>2, PageHolds
    <3> QED BY <2>0, <2>2, <3>1, <3>2, <3>3
  <2>4. CASE DolosPage
    <3>1. ReadPage(PageSize, PageSize)
      BY <2>4 DEF DolosPage
    <3> QED BY <1>2, <2>0, <2>2, <3>1
  <2>5. CASE LastPage
    BY <2>0, <2>5 DEF TypeOK, Calls, LastPage
  <2>6. CASE KoiosClose
    BY <1>0, <2>0, <2>6 DEF TypeOK, Calls, KoiosClose
  <2>7. CASE DolosClose
    BY <1>0, <2>0, <2>7 DEF TypeOK, Calls, DolosClose
  <2>8. CASE DolosAnchor
    BY <2>0, <2>8 DEF TypeOK, Calls, DolosAnchor
  <2>9. CASE NextItem
    BY <2>0, <2>9 DEF TypeOK, Calls, NextItem
  <2>10. CASE NoSpender
    BY <2>0, <2>10 DEF TypeOK, Calls, NoSpender
  <2>11. CASE BeginLookup
    <3>1. PICK h \in 1..Height : Ref \in Consumed(chain[h]) /\ item' = Row(h)
      BY <2>11 DEF BeginLookup
    <3>2. Row(h) \in Entries
      BY <3>1, RowsAre DEF Consumed
    <3> QED BY <2>0, <2>11, <3>1, <3>2 DEF TypeOK, Calls, BeginLookup
  <2>12. CASE Bytes
    BY <2>0, <2>12 DEF TypeOK, Calls, Bytes
  <2>13. CASE Info
    <3>1. OnChain(item.tx) => PointOf(item.tx) \in Points
      BY <1>0 DEF OnChain, InclusionHeights, InclusionOf, PointOf
    <3> QED BY <2>0, <2>13, <3>1 DEF TypeOK, Calls, Info
  <2>14. CASE KoiosBlock
    BY <2>0, <2>14 DEF TypeOK, Calls, KoiosBlock
  <2>15. CASE DolosBlock
    BY <2>0, <2>15 DEF TypeOK, Calls, DolosBlock
  <2>16. CASE DolosDepth
    BY <1>0, <2>0, <2>16 DEF TypeOK, Calls, DolosDepth
  <2>17. CASE Return
    <3>1. adapter' \in {"koios", "dolos"} /\ pc' = "idle" /\ goal' = "history"
          /\ before' = NoPoint /\ last' = NoPoint /\ found' = NoPoint
          /\ rows' = {} /\ base' = {} /\ item' = NoRow /\ offset' = 0 /\ pages' = 0 /\ cut' = FALSE
      BY <2>17 DEF TypeOK, Return
    <3>2. /\ before' \in Points /\ last' \in Points /\ found' \in Points
          /\ item' \in Entries \cup {NoRow} /\ offset' \in Nat
      BY <1>0, <3>1
    <3>3. pages' \in 0..MaxPages
      BY <1>2, <3>1
    <3>4. cut' \in BOOLEAN
      BY <3>1
    <3>5. TypeOK'
      BY <2>0, <3>1, <3>2, <3>3, <3>4 DEF TypeOK
    <3> QED BY <2>0, <3>1, <3>5 DEF Calls
  <2>18. CASE UNCHANGED vars
    BY <2>0, <2>18 DEF TypeOK, Calls, vars
  <2>19. CASE Move
    <3>1. forks' = forks
      BY <1>3 DEF chainVars
    <3> QED BY <2>0, <2>19, <3>1 DEF TypeOK, Calls, Move
  <2> QED BY <2>0, <2>1, <2>3, <2>4, <2>5, <2>6, <2>7, <2>8, <2>9, <2>10, <2>11, <2>12, <2>13, <2>14,
             <2>15, <2>16, <2>17, <2>18, <2>19 DEF Next, History, Spender
<1>4. CASE Move
  <2>1. ChainSound' /\ ChainTypeOK'
    BY <1>4, SoundStays DEF Move, ChainSound
  <2> QED BY <1>4, <2>1 DEF TypeOK, Calls, Move, scan, lookup
<1>5. [Next]_vars => Move \/ UNCHANGED chainVars
  BY DEF Next, History, Spender, BeginScan, KoiosPage, DolosPage, ReadPage, LastPage, KoiosClose, DolosClose,
         DolosAnchor, NextItem, NoSpender, BeginLookup, Bytes, Info, KoiosBlock, DolosBlock, DolosDepth,
         Return, vars
<1> QED BY <1>3, <1>4, <1>5


\* The chain moves under a scan: as long as the block of the first tip stands,
\* the entries below it are the same, and none moves ahead in the listing.
LEMMA ScanMove ==
  ASSUME HInv, Move, ChainSound', RowsFinite'
  PROVE  Scanning'
<1>1. /\ pc' = pc /\ before' = before /\ rows' = rows /\ offset' = offset /\ base' = base
      /\ adapter' = adapter /\ (cut' <=> (cut \/ (pc # "idle" /\ forks' # forks)))
  BY DEF Move, scan
<1>2. SUFFICES ASSUME pc \in Reading
               PROVE  /\ Seen(before)' /\ Once(rows)'
                      /\ adapter' = "koios" /\ ~ cut' => Stands(before)'
                      /\ Valid' => /\ base' = Below(Rows)' /\ Below(rows)' \subseteq base'
                                   /\ \A r \in base' : Position(r)' <= offset' \/ pc' # "page" => r \in rows'
  BY <1>1 DEF Scanning
<1>3. PICK b : b = before
  OBVIOUS
<1>4. /\ Seen(b) /\ Once(rows)
      /\ adapter = "koios" /\ ~ cut => Stands(b)
      /\ Valid => /\ base = Below(Rows) /\ Below(rows) \subseteq base
                  /\ \A r \in base : Position(r) <= offset \/ pc # "page" => r \in rows
  BY <1>2, <1>3 DEF HInv, Scanning
<1>5. /\ Seen(b)'
      /\ Stands(b)' => /\ Stands(b)
                       /\ \A h \in 1..b.height : h \in 1..Height /\ h \in 1..Height' /\ chain'[h] = chain[h]
      /\ Stands(b) /\ forks' = forks => Stands(b)'
  BY <1>4, PointMoves DEF HInv, Move
<1>6. (Seen(before)' <=> Seen(b)') /\ (Stands(before)' <=> Stands(b)') /\ (Stands(before) <=> Stands(b))
  BY <1>1, <1>3 DEF Seen, Stands
<1>7. pc # "idle"
  BY <1>2 DEF Reading
<1>8. Seen(before)' /\ Once(rows)' /\ (adapter' = "koios" /\ ~ cut' => Stands(before)')
  BY <1>1, <1>4, <1>5, <1>6, <1>7 DEF Once
<1>9. ASSUME Valid'
      PROVE  /\ base' = Below(Rows)' /\ Below(rows)' \subseteq base'
             /\ \A r \in base' : Position(r)' <= offset' \/ pc' # "page" => r \in rows'
  <2>1. /\ Valid /\ \A h \in 1..b.height : h \in 1..Height /\ h \in 1..Height' /\ chain'[h] = chain[h]
        /\ adapter = "koios" => forks' = forks
    BY <1>1, <1>5, <1>6, <1>7, <1>9 DEF Valid
  <2>2. \A h \in 1..b.height : Row(h)' = Row(h)
    BY <2>1 DEF Row
  <2>3. Height \in Nat /\ Height' \in Nat /\ b.height \in Nat
    BY <1>4, BlocksTyped, ChainMoves, Numbers DEF HInv, ChainSound, Move, Seen
  <2>4. ASSUME NEW r, r \in Rows', r.height <= b.height PROVE r \in Rows
    <3>1. PICK h \in 1..Height' : chain'[h].tx # NoTx /\ r = Row(h)'
      BY <2>4 DEF Rows
    <3>2. h = r.height /\ h \in 1..b.height
      BY <2>3, <2>4, <3>1 DEF Row
    <3>3. h \in 1..Height /\ chain[h].tx # NoTx /\ r = Row(h)
      BY <2>1, <2>2, <3>1, <3>2
    <3> QED BY <3>3 DEF Rows
  <2>5. ASSUME NEW r \in Rows, r.height <= b.height PROVE r \in Rows'
    <3>1. PICK h \in 1..Height : chain[h].tx # NoTx /\ r = Row(h)
      BY DEF Rows
    <3>2. h = r.height /\ h \in 1..b.height
      BY <2>3, <2>5, <3>1 DEF Row
    <3>3. h \in 1..Height' /\ chain'[h].tx # NoTx /\ r = Row(h)'
      BY <2>1, <2>2, <3>1, <3>2
    <3> QED BY <3>3 DEF Rows
  <2>6. Below(Rows)' = Below(Rows) /\ Below(rows)' = Below(rows)
    BY <1>1, <1>3, <2>4, <2>5 DEF Below
  <2>7. ASSUME NEW r \in base PROVE Position(r)' \in Nat /\ Position(r) \in Nat /\ Position(r) <= Position(r)'
    <3>1. r \in Rows /\ r.height <= b.height
      BY <1>3, <1>4, <2>1 DEF Below
    <3> DEFINE S == {q \in Rows : Key(q) <= Key(r)}
               T == {q \in Rows' : Key(q) <= Key(r)}
    <3>2. \A q : Key(q)' = Key(q)
      BY <1>1 DEF Key
    <3>3. Position(r) = Cardinality(S) /\ Position(r)' = Cardinality(T)
      BY <3>2 DEF Position
    <3>4. IsFiniteSet(Rows') /\ T \in SUBSET Rows'
      BY DEF RowsFinite
    <3>5. S \in SUBSET T
      <4>1. CASE adapter = "koios"
        <5>1. Height' = Height + 1 /\ \A h \in 1..Height : chain'[h] = chain[h]
          BY <2>1, <2>3, <4>1, ChainMoves, BlocksTyped DEF HInv, ChainSound, Move
        <5>2. \A h \in 1..Height : h \in 1..Height' /\ Row(h)' = Row(h)
          BY <2>3, <5>1 DEF Row
        <5>3. Rows \subseteq Rows'
          BY <5>1, <5>2 DEF Rows
        <5> QED BY <5>3
      <4>2. CASE adapter = "dolos"
        <5>1. \A q \in Rows : q.height \in Nat
          BY <2>3, RowsAre DEF HInv
        <5>2. \A q \in S : q \in Rows /\ q.height <= b.height
          BY <2>3, <3>1, <4>2, <5>1 DEF Key
        <5> QED BY <2>5, <5>2
      <4> QED BY <4>1, <4>2 DEF HInv, TypeOK
    <3> HIDE DEF S, T
    <3>6. IsFiniteSet(T) /\ IsFiniteSet(S) /\ Cardinality(S) <= Cardinality(T)
      BY <3>4, <3>5, FS_Subset
    <3> QED BY <3>3, <3>6, FS_CardinalityType
  <2>8. offset \in Nat
    BY DEF HInv, TypeOK
  <2> QED BY <1>1, <1>4, <2>1, <2>6, <2>7, <2>8
<1> QED BY <1>8, <1>9

\* Under a read the chain rests, and with it the listing.
LEMMA ScanRests ==
  ASSUME UNCHANGED <<chainVars, adapter>>
  PROVE  /\ Rows' = Rows /\ \A r : Position(r)' = Position(r)
         /\ UNCHANGED before =>
              /\ (Seen(before)' <=> Seen(before)) /\ (Stands(before)' <=> Stands(before))
              /\ Below(Rows)' = Below(Rows)
              /\ UNCHANGED rows => Below(rows)' = Below(rows)
<1>1. /\ chain' = chain /\ forks' = forks /\ Rows' = Rows /\ Height' = Height
  BY ChainRests DEF chainVars
<1>2. \A q : Key(q)' = Key(q)
  BY DEF Key
<1> QED BY <1>1, <1>2 DEF Position, Seen, Stands, Below

\* The first tip: what the chain has now is what is to be read.
LEMMA ScanBegins ==
  ASSUME HInv, NEW g, BeginScan(g)
  PROVE  Scanning'
<1>1. /\ UNCHANGED <<chainVars, adapter>> /\ pc = "idle" /\ pc' = "page" /\ before' = Tip /\ base' = Rows
      /\ rows' = rows /\ offset' = offset /\ cut' = cut
  BY DEF BeginScan
<1>2. rows = {} /\ offset = 0
  BY <1>1 DEF HInv, Calls
<1>3. /\ Rows' = Rows /\ \A r : Position(r)' = Position(r)
  BY <1>1, ScanRests
<1>4. PICK b : b = Tip
  OBVIOUS
<1>5. Seen(b) /\ Stands(b)
  BY <1>4, ReadsTyped DEF HInv
<1>6. Seen(before)' /\ Stands(before)'
  BY <1>1, <1>4, <1>5, ChainRests DEF Seen, Stands, Height, chainVars
<1>7. \A r \in Rows : r.height <= b.height
  BY <1>4, RowsAre, BlocksTyped DEF HInv, ChainSound, Tip
<1>8. Below(Rows)' = Rows /\ Below(rows)' = {}
  BY <1>1, <1>2, <1>3, <1>4, <1>7 DEF Below
<1>9. \A r \in Rows : ~ (Position(r) <= 0)
  BY PositionsAre DEF HInv
<1>10. Once(rows)'
  BY <1>1, <1>2 DEF Once
<1> QED BY <1>1, <1>2, <1>3, <1>6, <1>8, <1>9, <1>10 DEF Scanning

\* A page: what lies between the old and the new offset is in it.
LEMMA ScanPage ==
  ASSUME HInv, NEW n \in Nat \ {0}, NEW step \in Nat, step <= n \/ step = Cardinality(Page(n)),
         ReadPage(n, step), \A r \in Page(n), q \in rows : r.tx = q.tx => r = q
  PROVE  Scanning'
<1>1. /\ UNCHANGED <<chainVars, adapter>> /\ pc = "page" /\ pc' = "page" /\ before' = before /\ base' = base
      /\ rows' = rows \cup Page(n) /\ offset' = offset + step /\ cut' = cut
  BY DEF ReadPage
<1>2. offset \in Nat
  BY DEF HInv, TypeOK
<1>3. Page(n) \subseteq Rows /\ step <= n
  BY <1>2, PageHolds DEF HInv
<1>4. /\ Seen(before) /\ Once(rows)
      /\ adapter = "koios" /\ ~ cut => Stands(before)
      /\ Valid => /\ base = Below(Rows) /\ Below(rows) \subseteq base
                  /\ \A r \in base : Position(r) <= offset => r \in rows
  BY <1>1 DEF HInv, Scanning, Reading
<1>5. /\ Rows' = Rows /\ \A r : Position(r)' = Position(r)
      /\ (Seen(before)' <=> Seen(before)) /\ (Stands(before)' <=> Stands(before))
      /\ Below(Rows)' = Below(Rows)
  BY <1>1, ScanRests
<1>6. Once(rows)'
  <2>1. \A r, q \in Page(n) : r.tx = q.tx => r = q
    BY <1>3, RowsAre DEF HInv
  <2> QED BY <1>1, <1>4, <2>1 DEF Once
<1>7. Valid' <=> Valid
  BY <1>1, <1>5 DEF Valid
<1>8. ASSUME Valid PROVE Below(rows)' \subseteq base'
  BY <1>1, <1>3, <1>4, <1>8 DEF Below
<1>9. ASSUME Valid, NEW r \in base, Position(r) <= offset' PROVE r \in rows'
  <2>1. r \in Rows
    BY <1>4, <1>9 DEF Below
  <2>2. Position(r) \in Nat
    BY <2>1, PositionsAre DEF HInv
  <2>3. CASE Position(r) <= offset
    BY <1>1, <1>4, <1>9, <2>3
  <2>4. CASE ~ (Position(r) <= offset)
    <3>1. Position(r) \in (offset + 1) .. (offset + n)
      BY <1>1, <1>2, <1>3, <1>9, <2>2, <2>4
    <3> QED BY <1>1, <2>1, <3>1 DEF Page
  <2> QED BY <2>3, <2>4
<1> QED BY <1>1, <1>4, <1>5, <1>6, <1>7, <1>8, <1>9 DEF Scanning

\* The empty page: every entry is behind it.
LEMMA ScanLast ==
  ASSUME HInv, LastPage
  PROVE  Scanning'
<1>1. /\ UNCHANGED <<chainVars, adapter>> /\ pc = "page" /\ pc' = "close" /\ before' = before /\ base' = base
      /\ rows' = rows /\ offset' = offset /\ cut' = cut /\ Page(PageSize) = {}
  BY DEF LastPage, scan
<1>2. /\ Seen(before) /\ Once(rows)
      /\ adapter = "koios" /\ ~ cut => Stands(before)
      /\ Valid => /\ base = Below(Rows) /\ Below(rows) \subseteq base
                  /\ \A r \in base : Position(r) <= offset => r \in rows
  BY <1>1 DEF HInv, Scanning, Reading
<1>3. /\ Rows' = Rows /\ \A r : Position(r)' = Position(r)
      /\ (Seen(before)' <=> Seen(before)) /\ (Stands(before)' <=> Stands(before))
      /\ Below(Rows)' = Below(Rows) /\ Below(rows)' = Below(rows)
  BY <1>1, ScanRests
<1>4. \A r \in Rows : Position(r) <= offset
  BY <1>1, Numbers, PageHolds DEF HInv, TypeOK
<1>5. Valid => \A r \in base : r \in rows
  BY <1>2, <1>4 DEF Below
<1>6. (Valid' <=> Valid) /\ Once(rows)'
  BY <1>1, <1>2, <1>3 DEF Valid, Once
<1> QED BY <1>1, <1>2, <1>3, <1>5, <1>6 DEF Scanning

\* The tip after the pages: Dolos goes on to the block of the first tip.
LEMMA ScanClosed ==
  ASSUME HInv, DolosClose
  PROVE  Scanning'
<1>1. /\ UNCHANGED <<chainVars, adapter>> /\ pc = "close" /\ pc' = "anchor" /\ before' = before /\ base' = base
      /\ rows' = rows /\ offset' = offset /\ cut' = cut
  BY DEF DolosClose
<1>2. /\ Seen(before) /\ Once(rows)
      /\ adapter = "koios" /\ ~ cut => Stands(before)
      /\ Valid => /\ base = Below(Rows) /\ Below(rows) \subseteq base
                  /\ \A r \in base : r \in rows
  BY <1>1 DEF HInv, Scanning, Reading
<1>3. /\ Rows' = Rows /\ \A r : Position(r)' = Position(r)
      /\ (Seen(before)' <=> Seen(before)) /\ (Stands(before)' <=> Stands(before))
      /\ Below(Rows)' = Below(Rows) /\ Below(rows)' = Below(rows)
  BY <1>1, ScanRests
<1>4. (Valid' <=> Valid) /\ Once(rows)'
  BY <1>1, <1>2, <1>3 DEF Valid, Once
<1> QED BY <1>1, <1>2, <1>3, <1>4 DEF Scanning

\* Where the pages are through and the scan still valid, the rows are whole.
LEMMA WholeRows ==
  ASSUME Scanning, pc \in {"close", "anchor"}, Valid
  PROVE  {r \in rows : r.height <= before.height} = base /\ \A r, q \in rows : r.tx = q.tx => r = q
<1>1. /\ Once(rows) /\ base = Below(Rows) /\ Below(rows) \subseteq base
      /\ \A r \in base : r \in rows
  BY DEF Scanning, Reading
<1> QED BY <1>1 DEF Below, Once

\* The block of a point that was seen is where its hash is found.
LEMMA FoundThere ==
  ASSUME NEW p, Seen(p), HashAt(p.height) = p.hash
  PROVE  Stands(p)
<1>1. p.hash \in 0..MaxForks
  BY DEF Seen
<1>2. p.hash # -1
  BY <1>1, Numbers
<1> QED BY <1>2 DEF HashAt, Stands

\* Every step keeps what is known of a scan.
LEMMA HistoryStep ==
  ASSUME HInv, [Next]_vars, RowsFinite'
  PROVE  HInv'
<1>1. TypeOK' /\ Calls' /\ ChainSound'
  BY TypeStep DEF HInv
<1>2. CASE Move
  <2>1. Scanning'
    BY <1>1, <1>2, ScanMove
  <2>2. HistoryIsWhole'
    BY <1>2 DEF Move, scan, HInv, HistoryIsWhole
  <2> QED BY <1>1, <2>1, <2>2 DEF HInv
<1>3. CASE UNCHANGED vars
  <2>1. UNCHANGED <<chainVars, adapter>> /\ UNCHANGED <<pc, before, rows, offset, base, cut>>
    BY <1>3 DEF vars, scan
  <2>2. /\ Rows' = Rows /\ \A r : Position(r)' = Position(r)
        /\ (Seen(before)' <=> Seen(before)) /\ (Stands(before)' <=> Stands(before))
        /\ Below(Rows)' = Below(Rows) /\ Below(rows)' = Below(rows)
    BY <2>1, ScanRests
  <2>3. (Valid' <=> Valid) /\ (Once(rows)' <=> Once(rows))
    BY <2>1, <2>2 DEF Valid, Once
  <2>4. Scanning'
    BY <2>1, <2>2, <2>3 DEF HInv, Scanning
  <2>5. HistoryIsWhole'
    BY <2>1 DEF HInv, HistoryIsWhole
  <2> QED BY <1>1, <2>4, <2>5 DEF HInv
<1>4. ASSUME Scanning', pc' # "listed" PROVE HInv'
  BY <1>1, <1>4 DEF HInv, HistoryIsWhole
<1>5. ASSUME pc' \notin Reading \cup {"listed"} PROVE HInv'
  BY <1>4, <1>5 DEF Scanning, Reading
<1>6. ASSUME NEW g \in {"history", "spender"}, BeginScan(g) PROVE HInv'
  BY <1>4, <1>6, ScanBegins DEF BeginScan
<1>7. CASE KoiosPage
  <2>1. PICK n \in 1..PageSize : /\ \A r \in Page(n), q \in rows : r.tx = q.tx => r = q
                                 /\ ReadPage(n, Cardinality(Page(n)))
    BY <1>7 DEF KoiosPage
  <2>2. n \in Nat \ {0} /\ offset \in Nat
    BY Numbers DEF HInv, TypeOK
  <2>3. Cardinality(Page(n)) \in Nat
    BY <2>2, PageHolds DEF HInv
  <2>4. Scanning'
    BY <2>1, <2>2, <2>3, ScanPage
  <2>5. pc' # "listed"
    BY <2>1 DEF ReadPage
  <2> QED BY <1>4, <2>4, <2>5
<1>8. CASE DolosPage
  <2>1. PageSize \in Nat \ {0} /\ PageSize \in Nat /\ PageSize <= PageSize
    BY Numbers
  <2>2. Scanning'
    BY <1>8, <2>1, ScanPage DEF DolosPage
  <2>3. pc' # "listed"
    BY <1>8 DEF DolosPage, ReadPage
  <2> QED BY <1>4, <2>2, <2>3
<1>9. CASE LastPage
  BY <1>4, <1>9, ScanLast DEF LastPage
<1>10. CASE DolosClose
  BY <1>4, <1>10, ScanClosed DEF DolosClose
<1>11. ASSUME pc \in {"close", "anchor"}, pc' = "listed", UNCHANGED <<rows, before, base, cut, adapter>>,
              ~ cut \/ adapter = "dolos" => Valid
       PROVE  HInv'
  <2>1. Scanning'
    BY <1>11 DEF Scanning, Reading
  <2>2. ~ cut \/ adapter = "dolos" =>
          {r \in rows : r.height <= before.height} = base /\ \A r, q \in rows : r.tx = q.tx => r = q
    BY <1>11, WholeRows DEF HInv
  <2>3. adapter \in {"koios", "dolos"}
    BY DEF HInv, TypeOK
  <2>4. HistoryIsWhole'
    BY <1>11, <2>2, <2>3 DEF HistoryIsWhole
  <2> QED BY <1>1, <2>1, <2>4 DEF HInv
<1>12. CASE KoiosClose
  <2>1. pc = "close" /\ adapter = "koios" /\ UNCHANGED <<rows, before, base, cut, adapter>>
        /\ (pc' = "listed" \/ pc' = "item")
    BY <1>12 DEF KoiosClose
  <2>2. ~ cut => Valid
    BY <2>1 DEF HInv, Scanning, Reading, Valid
  <2> QED BY <1>5, <1>11, <2>1, <2>2 DEF Reading
<1>13. CASE DolosAnchor
  <2>1. pc = "anchor" /\ pc' = "listed" /\ HashAt(before.height) = before.hash
        /\ UNCHANGED <<rows, before, base, cut, adapter>>
    BY <1>13 DEF DolosAnchor, scan
  <2>2. adapter = "dolos" /\ Seen(before)
    BY <2>1 DEF HInv, TypeOK, Scanning, Reading
  <2>3. Stands(before)
    <3>1. PICK b : b = before
      OBVIOUS
    <3> QED BY <2>1, <2>2, <3>1, FoundThere
  <2> QED BY <1>11, <2>1, <2>2, <2>3 DEF Valid
<1>14. CASE Spender \/ Return
  <2>1. pc' \notin Reading \cup {"listed"}
    BY <1>14 DEF Spender, NextItem, NoSpender, BeginLookup, Bytes, Info, KoiosBlock, DolosBlock, DolosDepth,
                 Return, Reading, HInv, TypeOK, Reads, Ends
  <2> QED BY <1>5, <2>1
<1> QED BY <1>2, <1>3, <1>6, <1>7, <1>8, <1>9, <1>10, <1>12, <1>13, <1>14 DEF Next, History

\* The chain of one block is sound.
LEMMA SoundInit ==
  ASSUME Init
  PROVE  ChainSound /\ TypeOK
<1> USE Numbers
<1>1. /\ chain = <<[hash |-> 0, slot |-> 1, tx |-> NoTx, valid |-> TRUE]>>
      /\ forks = 0 /\ fixed = 1 /\ wire = {}
  BY DEF Init, ChainInit
<1>2. [hash |-> 0, slot |-> 1, tx |-> NoTx, valid |-> TRUE] \in Blocks
  BY DEF Blocks
<1>3. chain \in Seq(Blocks) /\ Len(chain) = 1 /\ chain[1].hash = 0
  BY <1>1, <1>2
<1>4. ChainTypeOK
  BY <1>1, <1>3 DEF ChainTypeOK, Heights
<1>5. ChainSound
  BY <1>1, <1>3, <1>4 DEF ChainSound, Height
<1>6. NoPoint \in Points
  BY ReadsTyped, <1>5
<1>7. /\ adapter \in {"koios", "dolos"} /\ pc = "idle" /\ goal = "history"
      /\ before = NoPoint /\ last = NoPoint /\ found = NoPoint
      /\ rows = {} /\ base = {} /\ item = NoRow /\ offset = 0 /\ pages = 0 /\ cut = FALSE
  BY DEF Init, NoCall
<1>8. pages \in 0..MaxPages
  BY <1>7
<1>9. cut \in BOOLEAN
  BY <1>7
<1> QED BY <1>4, <1>5, <1>6, <1>7, <1>8, <1>9 DEF TypeOK

\* An accepted history lists every transaction once and has exactly the entries
\* the chain had when the scan began (providers.py Koios.scan, dolos.py
\* address_transactions), whatever moves between its pages.
THEOREM HistoryWhole == Spec => []HistoryIsWhole
<1>1. Init => HInv
  <2> SUFFICES ASSUME Init PROVE HInv
    OBVIOUS
  <2>1. pc = "idle" /\ rows = {} /\ offset = 0 /\ cut = FALSE
    BY DEF Init, NoCall
  <2>2. Calls /\ Scanning /\ HistoryIsWhole
    BY <2>1 DEF Calls, Scanning, Reading, HistoryIsWhole
  <2> QED BY <2>2, SoundInit DEF HInv
<1>2. HInv /\ [Next]_vars /\ RowsFinite' => HInv'
  BY HistoryStep
<1>3. HInv => HistoryIsWhole
  BY DEF HInv
<1> QED BY <1>1, <1>2, <1>3, RowsAreFinite, PTL DEF Spec

----------------------------------------------------------------------------
(* Spenders.                                                               *)

\* A lookup of Koios: the entry is too deep to be rolled back, so what was read
\* of its block stays so.
KoiosLookup ==
  adapter = "koios" /\ pc \in {"bytes", "info", "block", "proved"} =>
    /\ item \in Entries /\ item.tx # Own /\ item.height <= fixed
    /\ pc # "bytes" /\ chain[item.height].tx = item.tx => Ref \in Consumed(chain[item.height])
    /\ pc \in {"block", "proved"} /\ found.height = item.height => chain[item.height].tx = item.tx
    /\ pc = "proved" => found.height = item.height /\ found.hash = HashAt(item.height)

\* A lookup of Dolos: what was read of a block holds as long as the block stands.
DolosLookup ==
  adapter = "dolos" /\ pc \in {"info", "bytes", "block", "tip", "proved"} =>
    /\ item \in Entries /\ item.tx # Own
    /\ pc # "info" => Seen(found) /\ (Stands(found) => chain[found.height].tx = item.tx)
    /\ pc \in {"block", "tip", "proved"} /\ Stands(found) => Ref \in Consumed(chain[found.height])
    /\ pc \in {"tip", "proved"} /\ ~ cut => Stands(found)
    /\ pc = "proved" => found.height <= fixed

\* A tip that was read is within reach of what is fixed.
LastInReach == last.height <= fixed + MaxReorg

LInv == TypeOK /\ Calls /\ ChainSound /\ LastInReach /\ KoiosLookup /\ DolosLookup

\* A transaction is where it is included, and only there.
LEMMA IncludedAt ==
  ASSUME ChainSound, NEW t \in Txs, OnChain(t)
  PROVE  /\ InclusionOf(t) \in 1..Height /\ chain[InclusionOf(t)].tx = t
         /\ \A h \in 1..Height : chain[h].tx = t => h = InclusionOf(t)
         /\ PointOf(t).height = InclusionOf(t) /\ PointOf(t).hash = HashAt(InclusionOf(t))
         /\ Seen(PointOf(t))
<1>1. \E h \in 1..Height : chain[h].tx = t
  BY DEF OnChain, InclusionHeights
<1>2. InclusionOf(t) \in 1..Height /\ chain[InclusionOf(t)].tx = t
  BY <1>1 DEF InclusionOf
<1>3. t # NoTx
  BY Numbers
<1>4. \A h \in 1..Height : chain[h].tx = t => h = InclusionOf(t)
  BY <1>2, <1>3 DEF ChainSound
<1>5. PointOf(t).height = InclusionOf(t) /\ PointOf(t).hash = HashAt(InclusionOf(t))
  BY DEF PointOf
<1>6. Seen(PointOf(t))
  BY <1>2, <1>5, PointSeen
<1> QED BY <1>2, <1>4, <1>5, <1>6

\* Once it is deep below a tip that was read, a height is fixed.
LEMMA DeepIsFixed ==
  ASSUME MaxReorg < Confirmations, NEW tip \in Nat, NEW height \in Nat, fixed \in Nat,
         tip <= fixed + MaxReorg, tip - height + 1 >= Confirmations
  PROVE  height <= fixed
  BY Numbers

\* The chain moves under a lookup.
LEMMA LookupMove ==
  ASSUME LInv, Move, ChainSound'
  PROVE  LastInReach' /\ KoiosLookup' /\ DolosLookup'
<1>1. /\ UNCHANGED <<pc, adapter, last, item, found>>
      /\ cut' <=> (cut \/ (pc # "idle" /\ forks' # forks))
  BY DEF Move, scan, lookup
<1>2. /\ fixed <= fixed' /\ fixed \in Nat /\ fixed' \in Nat
      /\ \A h \in 1..fixed : h \in 1..Height /\ h \in 1..Height' /\ chain'[h] = chain[h]
  BY SoundStays, BlocksTyped, Numbers DEF LInv, Move, ChainSound, ChainTypeOK, Heights
<1>3. LastInReach'
  <2>1. last.height \in Nat
    BY Numbers DEF LInv, TypeOK, Points
  <2>2. \A t, m, f, g \in Nat : t <= f + m /\ f <= g => t <= g + m
    OBVIOUS
  <2> QED BY <1>1, <1>2, <2>1, <2>2, Numbers DEF LInv, LastInReach
<1>4. KoiosLookup'
  <2> SUFFICES ASSUME adapter = "koios", pc \in {"bytes", "info", "block", "proved"} PROVE KoiosLookup'
    BY <1>1 DEF KoiosLookup
  <2>1. /\ item \in Entries /\ item.tx # Own /\ item.height <= fixed
        /\ pc # "bytes" /\ chain[item.height].tx = item.tx => Ref \in Consumed(chain[item.height])
        /\ pc \in {"block", "proved"} /\ found.height = item.height => chain[item.height].tx = item.tx
        /\ pc = "proved" => found.height = item.height /\ found.hash = HashAt(item.height)
    BY DEF LInv, KoiosLookup
  <2>2. item.height \in 1..fixed
    BY <1>2, <2>1, Numbers DEF Entries, Heights
  <2>3. PICK k : k = item.height
    OBVIOUS
  <2>4. chain'[k] = chain[k] /\ k \in 1..Height /\ k \in 1..Height' /\ k <= fixed'
    BY <1>2, <2>2, <2>3
  <2>5. HashAt(item.height)' = HashAt(item.height)
    BY <1>1, <2>3, <2>4 DEF HashAt
  <2>6. Consumed(chain[item.height])' = Consumed(chain[item.height])
    BY <1>1, <2>3, <2>4 DEF Consumed
  <2> QED BY <1>1, <2>1, <2>3, <2>4, <2>5, <2>6 DEF KoiosLookup
<1>5. DolosLookup'
  <2> SUFFICES ASSUME adapter = "dolos", pc \in {"info", "bytes", "block", "tip", "proved"} PROVE DolosLookup'
    BY <1>1 DEF DolosLookup
  <2>1. PICK p : p = found
    OBVIOUS
  <2>2. /\ item \in Entries /\ item.tx # Own
        /\ pc # "info" => Seen(p) /\ (Stands(p) => chain[p.height].tx = item.tx)
        /\ pc \in {"block", "tip", "proved"} /\ Stands(p) => Ref \in Consumed(chain[p.height])
        /\ pc \in {"tip", "proved"} /\ ~ cut => Stands(p)
        /\ pc = "proved" => p.height <= fixed
    BY <2>1 DEF LInv, DolosLookup
  <2>3. CASE pc = "info"
    BY <1>1, <2>2, <2>3 DEF DolosLookup
  <2>4. CASE pc # "info"
    <3>1. /\ Seen(p)'
          /\ Stands(p)' => Stands(p) /\ \A h \in 1..p.height : chain'[h] = chain[h]
          /\ Stands(p) /\ forks' = forks => Stands(p)'
      BY <2>2, <2>4, PointMoves DEF LInv, Move
    <3>2. p.height \in Nat /\ p.height \in 1..p.height
      BY <2>2, <2>4, Numbers DEF Seen
    <3>3. Stands(p)' => chain'[p.height] = chain[p.height]
      BY <3>1, <3>2
    <3>4. (Seen(found)' <=> Seen(p)') /\ (Stands(found)' <=> Stands(p)')
      BY <1>1, <2>1 DEF Seen, Stands
    <3>5. Stands(found)' => chain'[found'.height] = chain[p.height]
      BY <1>1, <2>1, <3>3, <3>4
    <3>6. Stands(found)' => Consumed(chain[found.height])' = Consumed(chain[p.height])
      BY <3>5 DEF Consumed
    <3>7. pc # "idle"
      OBVIOUS
    <3>8. pc = "proved" => found'.height <= fixed'
      BY <1>1, <1>2, <2>1, <2>2, <3>2
    <3> QED BY <1>1, <2>2, <2>4, <3>1, <3>4, <3>5, <3>6, <3>7, <3>8 DEF DolosLookup
  <2> QED BY <2>3, <2>4
<1> QED BY <1>3, <1>4, <1>5

\* A step that leaves the chain and what was read of the last tip alone.
LEMMA ReachRests ==
  ASSUME LInv, UNCHANGED <<chainVars, last>>
  PROVE  LastInReach'
  BY DEF LInv, LastInReach, chainVars

\* The lookup's reads, between which the chain rests.
LEMMA LookupReads ==
  ASSUME LInv, MaxReorg < Confirmations, Spender
  PROVE  LastInReach' /\ KoiosLookup' /\ DolosLookup'
<1>0. /\ Height \in Nat /\ fixed \in Nat /\ fixed <= Height /\ Height <= fixed + MaxReorg
      /\ \A r \in Entries : r.tx \in Txs /\ r.height \in Nat /\ r.height >= 1
  BY BlocksTyped, Numbers DEF LInv, ChainSound, Entries, Heights
<1>1. /\ UNCHANGED <<chainVars, adapter>> /\ chain' = chain /\ fixed' = fixed /\ Height' = Height
      /\ \A h : HashAt(h)' = HashAt(h)
      /\ \A p : (Stands(p)' <=> Stands(p)) /\ (Seen(p)' <=> Seen(p))
  BY ChainRests DEF Spender, NextItem, NoSpender, BeginLookup, Bytes, Info, KoiosBlock, DolosBlock, DolosDepth,
                    chainVars
<1>2. adapter \in {"koios", "dolos"}
  BY DEF LInv, TypeOK
<1>3. ASSUME UNCHANGED last, pc' \in {"item", "none"} PROVE LastInReach' /\ KoiosLookup' /\ DolosLookup'
  BY <1>1, <1>3, ReachRests DEF KoiosLookup, DolosLookup
<1>4. CASE NextItem
  <2>1. PICK r \in rows : IF r.tx = Own \/ ~ Deep(r.height)
                          THEN UNCHANGED <<pc, item>>
                          ELSE item' = r /\ pc' = "bytes"
    BY <1>4 DEF NextItem
  <2>2. pc = "item" /\ adapter = "koios" /\ UNCHANGED <<last, found>>
    BY <1>4 DEF NextItem, LInv, TypeOK
  <2>3. CASE r.tx = Own \/ ~ Deep(r.height)
    BY <1>3, <2>1, <2>2, <2>3
  <2>4. CASE r.tx # Own /\ Deep(r.height)
    <3>1. item' = r /\ pc' = "bytes" /\ r \in Entries
      BY <2>1, <2>4 DEF LInv, TypeOK
    <3>2. last.height \in Nat /\ last.height <= fixed + MaxReorg
      BY Numbers DEF LInv, TypeOK, Points, LastInReach
    <3>3. last.height - r.height + 1 >= Confirmations
      BY <2>4 DEF Deep
    <3>4. r.height <= fixed
      BY <1>0, <3>1, <3>2, <3>3, DeepIsFixed
    <3> QED BY <1>1, <2>2, <2>4, <3>1, <3>4, ReachRests DEF KoiosLookup, DolosLookup
  <2> QED BY <2>3, <2>4
<1>5. CASE NoSpender
  BY <1>3, <1>5 DEF NoSpender, scan
<1>6. CASE BeginLookup
  <2>1. PICK h \in 1..Height : Ref \in Consumed(chain[h]) /\ chain[h].tx # Own /\ item' = Row(h)
    BY <1>6 DEF BeginLookup
  <2>2. Row(h) \in Entries /\ Row(h).tx = chain[h].tx
    BY <2>1, RowsAre DEF Consumed, LInv, Row
  <2>3. adapter' = "dolos" /\ pc' = "info" /\ UNCHANGED last
    BY <1>6 DEF BeginLookup, scan
  <2> QED BY <1>1, <2>1, <2>2, <2>3, ReachRests DEF KoiosLookup, DolosLookup
<1>7. CASE Bytes
  <2>1. /\ pc = "bytes" /\ OnChain(item.tx) /\ UNCHANGED <<last, item, found, cut>>
        /\ IF Ref \in Consumed(chain[InclusionOf(item.tx)])
           THEN pc' = IF adapter = "koios" THEN "info" ELSE "block"
           ELSE adapter = "koios" /\ pc' = "item"
    BY <1>7 DEF Bytes, scan, lookup
  <2>2. CASE pc' = "item"
    BY <1>3, <2>1, <2>2
  <2>3. ASSUME Ref \in Consumed(chain[InclusionOf(item.tx)]), item \in Entries,
               NEW h \in 1..Height, chain[h].tx = item.tx
        PROVE  Ref \in Consumed(chain[h])
    BY <1>0, <2>1, <2>3, IncludedAt DEF LInv
  <2>4. CASE adapter = "koios" /\ pc' = "info" /\ Ref \in Consumed(chain[InclusionOf(item.tx)])
    <3>1. item \in Entries /\ item.tx # Own /\ item.height <= fixed
      BY <2>1, <2>4 DEF LInv, KoiosLookup
    <3>2. item.height \in 1..Height
      BY <1>0, <3>1
    <3>3. chain[item.height].tx = item.tx => Ref \in Consumed(chain[item.height])
      BY <2>3, <2>4, <3>1, <3>2
    <3>4. Consumed(chain[item.height])' = Consumed(chain[item.height])
      BY <1>1, <2>1 DEF Consumed
    <3> QED BY <1>1, <2>1, <2>4, <3>1, <3>3, <3>4, ReachRests DEF KoiosLookup, DolosLookup
  <2>5. CASE adapter = "dolos" /\ pc' = "block" /\ Ref \in Consumed(chain[InclusionOf(item.tx)])
    <3>1. /\ item \in Entries /\ item.tx # Own
          /\ Seen(found) /\ (Stands(found) => chain[found.height].tx = item.tx)
      BY <2>1, <2>5 DEF LInv, DolosLookup
    <3>2. Stands(found) => Ref \in Consumed(chain[found.height])
      BY <2>3, <2>5, <3>1 DEF Stands
    <3>3. Consumed(chain[found.height])' = Consumed(chain[found.height])
      BY <1>1, <2>1 DEF Consumed
    <3>4. (Stands(found)' <=> Stands(found)) /\ (Seen(found)' <=> Seen(found))
      BY <1>1, <2>1 DEF Stands, Seen, chainVars
    <3> QED BY <1>1, <2>1, <2>5, <3>1, <3>2, <3>3, <3>4, ReachRests DEF KoiosLookup, DolosLookup
  <2> QED BY <1>2, <2>1, <2>2, <2>4, <2>5
<1>8. CASE Info
  <2>1. pc = "info" /\ UNCHANGED <<last, item, cut>>
    BY <1>8 DEF Info, scan
  <2>2. CASE pc' \in {"item", "none"}
    BY <1>3, <2>1, <2>2
  <2>3. CASE OnChain(item.tx) /\ found' = PointOf(item.tx) /\ pc' = IF adapter = "koios" THEN "block" ELSE "bytes"
    <3>1. /\ item \in Entries /\ item.tx # Own
          /\ adapter = "koios" =>
               /\ item.height <= fixed
               /\ chain[item.height].tx = item.tx => Ref \in Consumed(chain[item.height])
      BY <1>2, <2>1 DEF LInv, KoiosLookup, DolosLookup
    <3>2. PICK p : p = found'
      OBVIOUS
    <3>3. /\ p.height = InclusionOf(item.tx) /\ chain[InclusionOf(item.tx)].tx = item.tx /\ Seen(p)
      BY <1>0, <2>3, <3>1, <3>2, IncludedAt DEF LInv
    <3>4. (Seen(found)' <=> Seen(p)') /\ (Stands(found)' <=> Stands(p)')
      BY <3>2 DEF Seen, Stands
    <3>5. Consumed(chain[item.height])' = Consumed(chain[item.height])
      BY <1>1, <2>1 DEF Consumed
    <3>6. KoiosLookup'
      BY <1>1, <2>1, <2>3, <3>1, <3>2, <3>3, <3>5 DEF KoiosLookup
    <3>7. DolosLookup'
      BY <1>1, <1>2, <2>1, <2>3, <3>1, <3>2, <3>3, <3>4 DEF DolosLookup
    <3> QED BY <1>1, <2>1, <3>6, <3>7, ReachRests
  <2> QED BY <1>2, <1>8, <2>2, <2>3 DEF Info
<1>9. CASE KoiosBlock
  <2>1. /\ pc = "block" /\ adapter = "koios" /\ UNCHANGED <<last, item, found>>
        /\ pc' = IF found.height = item.height /\ found.hash = HashAt(item.height) THEN "proved" ELSE "item"
    BY <1>9 DEF KoiosBlock, scan, lookup
  <2>2. CASE pc' = "item"
    BY <1>3, <2>1, <2>2
  <2>3. CASE pc' = "proved" /\ found.height = item.height /\ found.hash = HashAt(item.height)
    <3>1. /\ item \in Entries /\ item.tx # Own /\ item.height <= fixed
          /\ chain[item.height].tx = item.tx => Ref \in Consumed(chain[item.height])
          /\ chain[item.height].tx = item.tx
      BY <2>1, <2>3 DEF LInv, KoiosLookup
    <3>2. /\ Consumed(chain[item.height])' = Consumed(chain[item.height])
          /\ HashAt(item.height)' = HashAt(item.height)
      BY <1>1, <2>1 DEF Consumed, HashAt
    <3> QED BY <1>1, <2>1, <2>3, <3>1, <3>2, ReachRests DEF KoiosLookup, DolosLookup
  <2> QED BY <2>1, <2>2, <2>3
<1>10. ASSUME adapter = "dolos", pc \in {"block", "tip"}, UNCHANGED <<item, found>>, pc' \in {"tip", "proved"},
              ~ cut' => Stands(found), pc' = "proved" => found.height <= fixed
       PROVE  KoiosLookup' /\ DolosLookup'
  <2>1. /\ item \in Entries /\ item.tx # Own
        /\ Seen(found) /\ (Stands(found) => chain[found.height].tx = item.tx)
        /\ Stands(found) => Ref \in Consumed(chain[found.height])
    BY <1>10 DEF LInv, DolosLookup
  <2>2. Consumed(chain[found.height])' = Consumed(chain[found.height])
    BY <1>1, <1>10 DEF Consumed
  <2>3. (Stands(found)' <=> Stands(found)) /\ (Seen(found)' <=> Seen(found))
    BY <1>1, <1>10 DEF Stands, Seen, chainVars
  <2> QED BY <1>1, <1>10, <2>1, <2>2, <2>3 DEF KoiosLookup, DolosLookup
<1>11. CASE DolosBlock
  <2>1. /\ pc = "block" /\ adapter = "dolos" /\ UNCHANGED <<last, item, found>>
        /\ pc' = IF found.hash = HashAt(found.height) THEN "tip" ELSE "none"
    BY <1>11 DEF DolosBlock, scan, lookup
  <2>2. CASE pc' = "none"
    BY <1>3, <2>1, <2>2
  <2>3. CASE pc' = "tip" /\ found.hash = HashAt(found.height)
    <3>1. Seen(found)
      BY <2>1 DEF LInv, DolosLookup
    <3>2. PICK p : p = found
      OBVIOUS
    <3>3. Stands(found)
      BY <2>3, <3>1, <3>2, FoundThere
    <3> QED BY <1>1, <1>10, <2>1, <2>3, <3>3, ReachRests
  <2> QED BY <2>1, <2>2, <2>3
<1>12. CASE DolosDepth
  <2>1. /\ pc = "tip" /\ last' = Tip /\ UNCHANGED <<item, found, cut>>
        /\ pc' = IF Tip.height - found.height + 1 >= Confirmations THEN "proved" ELSE "none"
    BY <1>12 DEF DolosDepth, lookup
  <2>2. adapter = "dolos"
    BY <2>1 DEF LInv, TypeOK
  <2>3. Tip.height = Height
    BY DEF Tip
  <2>4. LastInReach'
    BY <1>0, <1>1, <2>1, <2>3 DEF LastInReach
  <2>5. CASE pc' = "none"
    BY <2>4, <2>5 DEF KoiosLookup, DolosLookup
  <2>6. CASE pc' = "proved" /\ Tip.height - found.height + 1 >= Confirmations
    <3>1. found.height \in Nat /\ (~ cut => Stands(found))
      BY <2>1, <2>2, Numbers DEF LInv, TypeOK, Points, DolosLookup
    <3>2. found.height <= fixed
      BY <1>0, <2>3, <2>6, <3>1, DeepIsFixed
    <3> QED BY <1>1, <1>10, <2>1, <2>2, <2>4, <2>6, <3>1, <3>2
  <2> QED BY <2>1, <2>5, <2>6
<1> QED BY <1>4, <1>5, <1>6, <1>7, <1>8, <1>9, <1>11, <1>12 DEF Spender

\* Every step keeps what is known of a lookup.
LEMMA LookupStep ==
  ASSUME LInv, MaxReorg < Confirmations, [Next]_vars
  PROVE  LInv'
<1>1. TypeOK' /\ Calls' /\ ChainSound'
  BY TypeStep DEF LInv
<1>2. CASE Move
  BY <1>1, <1>2, LookupMove DEF LInv
<1>3. CASE Spender
  BY <1>1, <1>3, LookupReads DEF LInv
<1>4. CASE UNCHANGED vars
  <2>1. UNCHANGED <<chainVars, last>> /\ UNCHANGED <<pc, adapter, item, found, cut>>
    BY <1>4 DEF vars, scan, lookup
  <2>2. chain' = chain /\ fixed' = fixed /\ forks' = forks
    BY <2>1 DEF chainVars
  <2>3. LastInReach'
    BY <2>1, ReachRests
  <2>4. KoiosLookup' /\ DolosLookup'
    BY <2>1, <2>2 DEF LInv, KoiosLookup, DolosLookup, HashAt, Height, Consumed, Stands, Seen
  <2> QED BY <1>1, <2>3, <2>4 DEF LInv
<1>5. CASE History \/ Return
  <2>1. pc' \in {"idle", "page", "close", "anchor", "listed", "item"}
    BY <1>5 DEF History, BeginScan, KoiosPage, DolosPage, ReadPage, LastPage, KoiosClose, DolosClose, DolosAnchor,
                Return
  <2>2. UNCHANGED chainVars /\ (UNCHANGED last \/ last' = Tip \/ last' = NoPoint)
    BY <1>5 DEF History, BeginScan, KoiosPage, DolosPage, ReadPage, LastPage, KoiosClose, DolosClose, DolosAnchor,
                Return, scan
  <2>3. Height \in Nat /\ fixed \in Nat /\ Height <= fixed + MaxReorg
    BY BlocksTyped DEF LInv, ChainSound
  <2>4. LastInReach'
    <3>1. CASE UNCHANGED last
      BY <2>2, <3>1, ReachRests
    <3>2. CASE last' = Tip
      BY <2>2, <2>3, <3>2 DEF LastInReach, Tip, chainVars
    <3>3. CASE last' = NoPoint
      BY <2>2, <2>3, <3>3, Numbers DEF LastInReach, NoPoint, chainVars
    <3> QED BY <2>2, <3>1, <3>2, <3>3
  <2>5. KoiosLookup' /\ DolosLookup'
    BY <2>1 DEF KoiosLookup, DolosLookup
  <2> QED BY <1>1, <2>4, <2>5 DEF LInv
<1> QED BY <1>2, <1>3, <1>4, <1>5 DEF Next

\* Where roll-backs stay within the confirmation depth, a proof names another
\* transaction that consumes the output in a block no roll-back reaches
\* (ProviderChecks.confirmed_spender, Dolos.confirmed_spender).
THEOREM SpenderSettled ==
  ASSUME MaxReorg < Confirmations
  PROVE  Spec => []SpenderIsSettled
<1>1. Init => LInv
  <2> SUFFICES ASSUME Init PROVE LInv
    OBVIOUS
  <2>1. /\ pc = "idle" /\ rows = {} /\ offset = 0 /\ cut = FALSE /\ last = NoPoint
        /\ fixed = 1
    BY DEF Init, NoCall, ChainInit
  <2>2. Calls /\ KoiosLookup /\ DolosLookup
    BY <2>1 DEF Calls, KoiosLookup, DolosLookup
  <2>3. LastInReach
    BY <2>1, Numbers DEF LastInReach, NoPoint
  <2> QED BY <2>2, <2>3, SoundInit DEF LInv
<1>2. LInv /\ [Next]_vars => LInv'
  BY LookupStep
<1>3. LInv => SpenderIsSettled
  <2> SUFFICES ASSUME LInv, pc = "proved", adapter = "dolos" => ~ cut
               PROVE  /\ item.tx # Own /\ found.height <= fixed
                      /\ HashAt(found.height) = found.hash
                      /\ chain[found.height].tx = item.tx
                      /\ Ref \in Consumed(chain[found.height])
    BY DEF SpenderIsSettled
  <2>1. CASE adapter = "koios"
    BY <2>1 DEF LInv, KoiosLookup
  <2>2. CASE adapter = "dolos"
    BY <2>2 DEF LInv, DolosLookup, Stands, HashAt
  <2> QED BY <2>1, <2>2 DEF LInv, TypeOK
<1> QED BY <1>1, <1>2, <1>3, PTL DEF Spec
=============================================================================
