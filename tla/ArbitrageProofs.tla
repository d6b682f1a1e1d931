-------------------------- MODULE ArbitrageProofs --------------------------
(***************************************************************************)
(* What the loss accounting of the arbitrage engine rests on, for any      *)
(* candidates, any chain, roll-backs of any depth and any number.          *)
(***************************************************************************)
EXTENDS Arbitrage, TLAPS, WellFoundedInduction

\* Program points with a candidate, and those after the rows were visited.
Chosen == {"prepare", "sign", "prepared", "submit", "claim"}
Deciding == Chosen \cup {"settle", "decide"}

Control ==
  /\ pc \in Chosen => cur \in Intents
  /\ canon # Unread => pc = "reconcile"
  /\ pc = "settle" => todo \subseteq Settled

\* Every block bears the number of a fork that was begun.
ForksNumbered == \A h \in Heights : HashAt(h) \in -1..forks

\* A settled row rests on a block of such a fork, and one of the present fork
\* has not left the chain.
SettledOnBlocks ==
  \A i \in Settled : /\ block[i].height \in Heights /\ block[i].hash \in 0..forks
                     /\ block[i].hash = forks => Canonical(i)

\* While a tick has no evidence from two forks: the blocks it has read stand,
SnapshotStands ==
  canon # Unread /\ ~ torn => \A h \in Heights : canon[h] # -1 => HashAt(h) = canon[h]

\* the settled rows it has visited stand,
VisitedStands ==
  pc = "reconcile" /\ ~ torn => \A i \in Settled \ todo : Canonical(i)

\* and later no settled row falls that one above it does not fall with.
SettledNest ==
  pc \in Deciding /\ ~ torn =>
    \A i, j \in Settled : block[i].height <= block[j].height /\ Canonical(j) => Canonical(i)

\* The block that was read for all of them was canonical on its fork.
AnchorStands ==
  pc = "claim" => /\ vouched <= forks
                  /\ vouched = forks /\ Settled # {} => Canonical(Anchor)

\* The inductive invariant.
IInv ==
  /\ TypeOK /\ Control /\ ForksNumbered /\ SettledOnBlocks
  /\ SnapshotStands /\ VisitedStands /\ SettledNest /\ AnchorStands

USE DEF Chosen, Deciding, Fresh, Terminal, Closed, Statuses

----------------------------------------------------------------------------
(* The chain.                                                              *)

\* A block on the chain has the fields of a block, and a hash is a number.
LEMMA BlockTyped ==
  ASSUME ChainTypeOK, NEW h \in 1..Height
  PROVE  chain[h].hash \in Int /\ chain[h].slot \in Nat /\ chain[h].valid \in BOOLEAN
<1>1. chain[h] \in Blocks
  BY DEF ChainTypeOK, Height
<1> QED BY <1>1, ChainAssumption DEF Blocks

\* The hash found at a height is a number, also where there is no block.
LEMMA HashTyped == ASSUME ChainTypeOK, NEW h PROVE HashAt(h) \in Int
BY BlockTyped DEF HashAt

\* Minting and rolling back keep the chain's type and touch nothing else.
LEMMA ChainKeeps == ASSUME ChainTypeOK, ChainNext PROVE ChainTypeOK' /\ wire' = wire
<1> USE ChainAssumption
<1>0. Height \in 1..Height
  BY DEF ChainTypeOK, Height, Heights
<1>1. ASSUME NEW b \in Blocks, Mint(b) PROVE ChainTypeOK' /\ wire' = wire
  <2>1. chain' \in Seq(Blocks) /\ Len(chain') = Len(chain) + 1
    BY <1>1 DEF ChainTypeOK, Mint
  <2>2. Len(chain') \in Heights
    BY <1>1, <2>1 DEF ChainTypeOK, Mint, Heights, Height
  <2>3. fixed' \in Heights
    BY <1>1 DEF ChainTypeOK, Mint, Heights, Height
  <2> QED BY <1>1, <2>1, <2>2, <2>3 DEF ChainTypeOK, Mint
<1>2. ASSUME NEW slot \in NextSlots PROVE slot \in Nat
  BY <1>2, <1>0, BlockTyped DEF NextSlots, Slot
<1>3. CASE \E slot \in NextSlots : MintEmpty(slot)
  BY <1>1, <1>2, <1>3 DEF MintEmpty, Blocks, ChainTypeOK
<1>4. CASE \E t \in Txs, ok \in BOOLEAN, slot \in NextSlots : MintWith(t, ok, slot)
  BY <1>1, <1>2, <1>4 DEF MintWith, Blocks, ChainTypeOK
<1>5. CASE \E n \in Heights : Rollback(n)
  <2>1. PICK n \in Heights : Rollback(n)
    BY <1>5
  <2>2. n \in 1..(Len(chain) - 1) /\ Len(chain) \in Nat
    BY <2>1 DEF Rollback, Height, ChainTypeOK
  <2>3. chain' \in Seq(Blocks) /\ Len(chain') = n
    BY <2>1, <2>2 DEF Rollback, ChainTypeOK
  <2> QED BY <2>1, <2>2, <2>3 DEF Rollback, ChainTypeOK, Heights
<1> QED BY <1>3, <1>4, <1>5 DEF ChainNext

\* What a step does to the block hashes: a new block takes a height that had
\* none and bears the number of the fork; a roll-back starts a fork of its own
\* and takes the blocks above one height.
LEMMA HashesMove ==
  ASSUME ChainTypeOK, ChainNext
  PROVE  \/ /\ forks' = forks
            /\ \A h \in Heights : HashAt(h)' # HashAt(h) => HashAt(h) = -1 /\ HashAt(h)' = forks
         \/ /\ forks' = forks + 1
            /\ \E n \in Heights : \A h \in Heights :
                 HashAt(h)' = IF h <= n THEN HashAt(h) ELSE -1
<1> USE ChainAssumption
<1>1. ASSUME NEW b, b.hash = forks, Mint(b)
      PROVE  /\ forks' = forks
             /\ \A h \in Heights : HashAt(h)' # HashAt(h) => HashAt(h) = -1 /\ HashAt(h)' = forks
  <2>1. Len(chain) \in Nat /\ Len(chain') = Len(chain) + 1
    BY <1>1 DEF ChainTypeOK, Mint
  <2>2. \A h \in 1..Len(chain) : chain'[h] = chain[h]
    BY <1>1 DEF ChainTypeOK, Mint
  <2>3. chain'[Len(chain) + 1] = b
    BY <1>1 DEF ChainTypeOK, Mint
  <2> QED BY <1>1, <2>1, <2>2, <2>3 DEF Mint, HashAt, Height, Heights
<1>2. ASSUME NEW n \in Heights, Rollback(n)
      PROVE  /\ forks' = forks + 1
             /\ \A h \in Heights : HashAt(h)' = IF h <= n THEN HashAt(h) ELSE -1
  <2>1. Len(chain) \in Nat /\ n \in 1..Len(chain) /\ Len(chain') = n
    BY <1>2 DEF ChainTypeOK, Rollback, Height, Heights
  <2>2. \A h \in 1..n : chain'[h] = chain[h]
    BY <1>2, <2>1 DEF ChainTypeOK, Rollback
  <2> QED BY <1>2, <2>1, <2>2 DEF Rollback, HashAt, Height, Heights
<1> QED BY <1>1, <1>2 DEF ChainNext, MintEmpty, MintWith

\* What a step does to the blocks: one of the present fork is added, in a later
\* slot, which carries nothing or a transaction that was sent, still valid and
\* not on the chain; or the blocks above a height go.
LEMMA BlocksMove ==
  ASSUME ChainTypeOK, ChainNext
  PROVE  /\ \A h \in 1..Height : h <= Height' => chain'[h] = chain[h]
         /\ Height' \in Nat /\ Height \in Nat
         /\ \/ /\ forks' = forks /\ Height' = Height + 1
               /\ chain'[Height'].hash = forks /\ chain'[Height'].slot > Slot
               /\ \/ chain'[Height'].tx = NoTx
                  \/ Includable(chain'[Height'].tx, chain'[Height'].slot)
            \/ forks' = forks + 1 /\ Height' < Height
<1> USE ChainAssumption
<1>1. ASSUME NEW b, b.hash = forks, b.slot > Slot, b.tx = NoTx \/ Includable(b.tx, b.slot), Mint(b)
      PROVE  /\ \A h \in 1..Height : h <= Height' => chain'[h] = chain[h]
             /\ Height' \in Nat /\ Height \in Nat
             /\ forks' = forks /\ Height' = Height + 1
             /\ chain'[Height'] = b
  <2>1. Len(chain) \in Nat /\ Len(chain') = Len(chain) + 1
    BY <1>1 DEF ChainTypeOK, Mint
  <2>2. \A h \in 1..Len(chain) : chain'[h] = chain[h]
    BY <1>1 DEF ChainTypeOK, Mint
  <2>3. chain'[Len(chain) + 1] = b
    BY <1>1 DEF ChainTypeOK, Mint
  <2> QED BY <1>1, <2>1, <2>2, <2>3 DEF Mint, Height
<1>2. ASSUME NEW n \in Heights, Rollback(n)
      PROVE  /\ \A h \in 1..Height : h <= Height' => chain'[h] = chain[h]
             /\ Height' \in Nat /\ Height \in Nat
             /\ forks' = forks + 1 /\ Height' < Height
  <2>1. Len(chain) \in Nat /\ n \in 1..(Len(chain) - 1) /\ Len(chain') = n
    BY <1>2 DEF ChainTypeOK, Rollback, Height, Heights
  <2>2. \A h \in 1..n : chain'[h] = chain[h]
    BY <1>2, <2>1 DEF ChainTypeOK, Rollback
  <2> QED BY <1>2, <2>1, <2>2 DEF Rollback, Height
<1>3. \A slot \in NextSlots : slot > Slot
  <2>1. Slot \in Nat
    BY BlockTyped DEF Slot, ChainTypeOK, Height, Heights
  <2> QED BY <2>1 DEF NextSlots
<1>4. ASSUME NEW slot \in NextSlots, MintEmpty(slot)
      PROVE  \E b : b.hash = forks /\ b.slot > Slot /\ (b.tx = NoTx \/ Includable(b.tx, b.slot)) /\ Mint(b)
  BY <1>3, <1>4 DEF MintEmpty
<1>5. ASSUME NEW t, NEW ok, NEW slot \in NextSlots, MintWith(t, ok, slot)
      PROVE  \E b : b.hash = forks /\ b.slot > Slot /\ (b.tx = NoTx \/ Includable(b.tx, b.slot)) /\ Mint(b)
  BY <1>3, <1>5 DEF MintWith
<1>6. CASE \E n \in Heights : Rollback(n)
  BY <1>2, <1>6
<1>7. CASE \E b : b.hash = forks /\ b.slot > Slot /\ (b.tx = NoTx \/ Includable(b.tx, b.slot)) /\ Mint(b)
  <2>1. PICK b : b.hash = forks /\ b.slot > Slot /\ (b.tx = NoTx \/ Includable(b.tx, b.slot)) /\ Mint(b)
    BY <1>7
  <2> QED BY <1>1, <2>1
<1> QED BY <1>4, <1>5, <1>6, <1>7 DEF ChainNext

----------------------------------------------------------------------------
(* Numbers.                                                                *)

\* A set of natural numbers has a least one.
LEMMA LeastExists ==
  ASSUME NEW S, S \subseteq Nat, S # {}
  PROVE  \E x \in S : \A y \in S : x <= y
<1>1. PICK x \in S : \A y \in S : ~ (<<y, x>> \in OpToRel(<, Nat))
  BY NatLessThanWellFounded, WFMin
<1>2. \A y \in S : ~ (y < x)
  BY <1>1 DEF OpToRel
<1> QED BY <1>2

\* There is a last settled row.
LEMMA AnchorIsLast ==
  ASSUME SettledOnBlocks, Settled # {}
  PROVE  Anchor \in Settled /\ \A j \in Settled : block[j].height <= block[Anchor].height
<1> USE ChainAssumption
<1> DEFINE Below == {MaxHeight - block[i].height : i \in Settled}
<1>1. \A i \in Settled : block[i].height \in 1..MaxHeight /\ block[i].hash \in Nat
  BY DEF SettledOnBlocks, Heights
<1>2. PICK x \in Below : \A y \in Below : x <= y
  <2>1. Below \subseteq Nat /\ Below # {}
    BY <1>1
  <2> HIDE DEF Below
  <2> QED BY <2>1, LeastExists
<1>3. PICK top0 \in Settled : x = MaxHeight - block[top0].height
  BY <1>2
<1>4. \A j \in Settled : block[j].height <= block[top0].height
  <2> TAKE j \in Settled
  <2>1. MaxHeight - block[j].height \in Below
    OBVIOUS
  <2>2. x <= MaxHeight - block[j].height
    BY <1>2, <2>1
  <2> QED BY <1>1, <1>3, <2>2
<1> DEFINE Highest == {i \in Settled : block[i].height = block[top0].height}
           Ranks == {block[i].hash : i \in Highest}
<1>5. PICK r \in Ranks : \A y \in Ranks : r <= y
  <2>1. Ranks \subseteq Nat /\ Ranks # {}
    BY <1>1
  <2> HIDE DEF Ranks
  <2> QED BY <2>1, LeastExists
<1>6. PICK a \in Highest : r = block[a].hash
  BY <1>5
<1>7. \A j \in Settled : \/ block[j].height < block[a].height
                         \/ block[j].height = block[a].height /\ block[j].hash >= block[a].hash
  <2> TAKE j \in Settled
  <2>1. CASE j \in Highest
    BY <1>1, <1>5, <1>6, <2>1
  <2>2. CASE j \notin Highest
    BY <1>1, <1>4, <1>6, <2>2
  <2> QED BY <2>1, <2>2
<1>8. /\ Anchor \in Settled
      /\ \A j \in Settled : \/ block[j].height < block[Anchor].height
                            \/ block[j].height = block[Anchor].height /\ block[j].hash >= block[Anchor].hash
  BY <1>6, <1>7 DEF Anchor
<1> QED BY <1>1, <1>8

----------------------------------------------------------------------------
(* Sums.                                                                   *)

\* A sum over nothing,
LEMMA TotalEmpty == ASSUME NEW f PROVE Total(f, {}) = 0
<1> DEFINE F(it, s) == IF s = {} THEN 0 ELSE LET x == CHOOSE x \in s : TRUE IN f[x] + it[s \ {x}]
<1>1. LET g == [s \in SUBSET {} |-> 0] IN g = [s \in SUBSET {} |-> F(g, s)]
  OBVIOUS
<1>2. Total(f, {}) = (CHOOSE g : g = [s \in SUBSET {} |-> F(g, s)])[{}]
  BY DEF Total, MapThenSumSet, MapThenFoldSet
<1> QED BY <1>1, <1>2

\* a sum over one,
LEMMA TotalOne == ASSUME NEW f, NEW x, f[x] \in Int PROVE Total(f, {x}) = f[x]
<1> DEFINE F(it, s) == IF s = {} THEN 0 ELSE LET y == CHOOSE y \in s : TRUE IN f[y] + it[s \ {y}]
           G == [s \in SUBSET {x} |-> IF s = {} THEN 0 ELSE f[x]]
           H == CHOOSE g : g = [s \in SUBSET {x} |-> F(g, s)]
<1>1. G = [s \in SUBSET {x} |-> F(G, s)]
  <2>1. \A s \in SUBSET {x} : s # {} => s = {x} /\ (CHOOSE y \in s : TRUE) = x /\ s \ {x} = {}
    OBVIOUS
  <2>2. \A s \in SUBSET {x} : G[s] = F(G, s)
    BY <2>1
  <2> QED BY <2>2
<1>2. Total(f, {x}) = H[{x}]
  BY DEF Total, MapThenSumSet, MapThenFoldSet
<1>3. H = [s \in SUBSET {x} |-> F(H, s)]
  <2> HIDE DEF G, F
  <2> QED BY <1>1
<1>4. H[{}] = 0
  <2> HIDE DEF H
  <2> QED BY <1>3
<1>5. H[{x}] = f[x] + H[{x} \ {x}]
  <2> HIDE DEF H
  <2> QED BY <1>3
<1>6. {x} \ {x} = {} /\ f[x] + 0 = f[x]
  OBVIOUS
<1> HIDE DEF H
<1> QED BY <1>2, <1>4, <1>5, <1>6

\* and the running sums satisfy the equation they are defined by: a solution for
\* fewer heights extends to one more, so there is one, and it is the only one.
LEMMA RunningIs ==
  ASSUME NEW g \in [Heights -> Int]
  PROVE  /\ Running(g) \in [0..MaxHeight -> Int] /\ Running(g)[0] = 0
         /\ \A h \in Heights : Running(g)[h] = Running(g)[h - 1] + g[h]
<1> USE ChainAssumption DEF Heights
<1> DEFINE Fits(n, f) == /\ f \in [0..n -> Int]
                         /\ \A h \in 0..n : f[h] = IF h = 0 THEN 0 ELSE f[h - 1] + g[h]
           Bad == {n \in 0..MaxHeight : ~ \E f : Fits(n, f)}
<1>1. Bad = {}
  <2> SUFFICES ASSUME Bad # {} PROVE FALSE
    OBVIOUS
  <2>1. PICK n \in Bad : \A m \in Bad : n <= m
    <3>1. Bad \subseteq Nat
      OBVIOUS
    <3> HIDE DEF Bad
    <3> QED BY <3>1, LeastExists
  <2>2. Fits(0, [h \in 0..0 |-> 0])
    OBVIOUS
  <2>3. n \in 0..MaxHeight /\ ~ \E f : Fits(n, f)
    BY <2>1
  <2>4. n # 0
    BY <2>2, <2>3
  <2>5. n \in 1..MaxHeight /\ n - 1 \in 0..MaxHeight
    BY <2>3, <2>4
  <2>6. n - 1 \notin Bad
    <3> HIDE DEF Bad
    <3> QED BY <2>1, <2>5
  <2>7. PICK f : Fits(n - 1, f)
    <3> HIDE DEF Fits
    <3> QED BY <2>5, <2>6
  <2> DEFINE e == [h \in 0..n |-> IF h = n THEN f[n - 1] + g[n] ELSE f[h]]
  <2>8. Fits(n, e)
    <3>1. \A h \in 0..n : e[h] = IF h = n THEN f[n - 1] + g[n] ELSE f[h]
      OBVIOUS
    <3>2. \A h \in 0..n : h # n => h \in 0..(n - 1) /\ (h # 0 => h - 1 \in 0..(n - 1) /\ h - 1 \in 0..n /\ h - 1 # n)
      BY <2>5
    <3>3. n - 1 \in 0..n /\ n - 1 # n /\ n # 0 /\ n - 1 \in 0..(n - 1) /\ g[n] \in Int
      BY <2>5
    <3>4. e \in [0..n -> Int]
      BY <2>7, <3>2, <3>3
    <3> HIDE DEF e
    <3>5. \A h \in 0..n : e[h] = IF h = 0 THEN 0 ELSE e[h - 1] + g[h]
      BY <2>7, <3>1, <3>2, <3>3
    <3> QED BY <3>4, <3>5
  <2> HIDE DEF Fits
  <2> QED BY <2>3, <2>8
<1>2. PICK f : Fits(MaxHeight, f)
  <2>1. MaxHeight \in 0..MaxHeight
    OBVIOUS
  <2> HIDE DEF Fits
  <2> QED BY <1>1, <2>1
<1>3. f = [h \in 0..MaxHeight |-> IF h = 0 THEN 0 ELSE f[h - 1] + g[h]]
  BY <1>2
<1>4. Running(g) = [h \in 0..MaxHeight |-> IF h = 0 THEN 0 ELSE Running(g)[h - 1] + g[h]]
  BY <1>3, Zenon DEF Running
<1> DEFINE r == Running(g)
<1>5. \A h \in 0..MaxHeight : r[h] = IF h = 0 THEN 0 ELSE r[h - 1] + g[h]
  BY <1>4
<1> HIDE DEF r
<1>6. \A h \in 0..MaxHeight : r[h] = f[h]
  <2> DEFINE Odd == {h \in 0..MaxHeight : r[h] # f[h]}
  <2> SUFFICES ASSUME Odd # {} PROVE FALSE
    OBVIOUS
  <2>1. PICK n \in Odd : \A m \in Odd : n <= m
    <3>1. Odd \subseteq Nat
      OBVIOUS
    <3> HIDE DEF Odd
    <3> QED BY <3>1, LeastExists
  <2>2. n # 0 /\ n - 1 \in 0..MaxHeight /\ n - 1 \notin Odd
    BY <1>5, <1>2, <2>1
  <2> QED BY <1>2, <1>5, <2>1, <2>2
<1>7. DOMAIN r = 0..MaxHeight /\ r = [h \in 0..MaxHeight |-> r[h]]
  BY <1>4 DEF r
<1>8. r \in [0..MaxHeight -> Int]
  BY <1>2, <1>6, <1>7
<1> QED BY <1>5, <1>8 DEF r

\* Rows that agree up to n have the same sums up to n.
LEMMA RunningAgrees ==
  ASSUME NEW g \in [Heights -> Int], NEW k \in [Heights -> Int], NEW n \in 0..MaxHeight,
         \A h \in Heights : h <= n => g[h] = k[h]
  PROVE  \A h \in 0..n : Running(g)[h] = Running(k)[h]
<1> USE ChainAssumption DEF Heights
<1> DEFINE r == Running(g) s == Running(k) Odd == {h \in 0..n : r[h] # s[h]}
<1>1. /\ r[0] = 0 /\ \A h \in Heights : r[h] = r[h - 1] + g[h]
      /\ s[0] = 0 /\ \A h \in Heights : s[h] = s[h - 1] + k[h]
  BY RunningIs
<1> HIDE DEF r, s
<1> SUFFICES ASSUME Odd # {} PROVE FALSE
  BY DEF r, s
<1>2. PICK m \in Odd : \A x \in Odd : m <= x
  <2>1. Odd \subseteq Nat
    OBVIOUS
  <2> HIDE DEF Odd
  <2> QED BY <2>1, LeastExists
<1>3. m \in Heights /\ m <= n /\ m - 1 \in 0..n /\ m - 1 \notin Odd
  BY <1>1, <1>2
<1> QED BY <1>1, <1>2, <1>3

\* Where nothing is added the sum stays.
LEMMA RunningRests ==
  ASSUME NEW g \in [Heights -> Int], NEW m \in 0..MaxHeight,
         \A h \in Heights : h > m => g[h] = 0
  PROVE  \A h \in m..MaxHeight : Running(g)[h] = Running(g)[m]
<1> USE ChainAssumption DEF Heights
<1> DEFINE r == Running(g) Odd == {h \in m..MaxHeight : r[h] # r[m]}
<1>1. r \in [0..MaxHeight -> Int] /\ \A h \in Heights : r[h] = r[h - 1] + g[h]
  BY RunningIs
<1> HIDE DEF r
<1> SUFFICES ASSUME Odd # {} PROVE FALSE
  BY DEF r
<1>2. PICK x \in Odd : \A y \in Odd : x <= y
  <2>1. Odd \subseteq Nat
    OBVIOUS
  <2> HIDE DEF Odd
  <2> QED BY <2>1, LeastExists
<1>3. x \in m..MaxHeight /\ r[x] # r[m]
  BY <1>2
<1>4. x > m /\ x \in Heights /\ x - 1 \in m..MaxHeight /\ x - 1 \notin Odd
  BY <1>2, <1>3
<1>5. r[x - 1] = r[m] /\ r[x] = r[x - 1] + g[x] /\ g[x] = 0 /\ r[x - 1] \in Int
  BY <1>1, <1>4
<1> QED BY <1>3, <1>5

\* Of the values of a function on a stretch of numbers one is the largest.
LEMMA PeakExists ==
  ASSUME NEW n \in Nat, NEW r \in [0..n -> Int]
  PROVE  /\ Max({r[h] : h \in 0..n}) \in Int
         /\ \A h \in 0..n : r[h] <= Max({r[k] : k \in 0..n})
<1> DEFINE Tops(m) == \E x \in 0..m : \A y \in 0..m : r[y] <= r[x]
           Bad == {m \in 0..n : ~ Tops(m)}
<1>1. Bad = {}
  <2> SUFFICES ASSUME Bad # {} PROVE FALSE
    OBVIOUS
  <2>1. PICK m \in Bad : \A y \in Bad : m <= y
    <3>1. Bad \subseteq Nat
      OBVIOUS
    <3> HIDE DEF Bad
    <3> QED BY <3>1, LeastExists
  <2>2. m \in 0..n /\ ~ Tops(m)
    BY <2>1
  <2>3. Tops(0)
    OBVIOUS
  <2>4. m # 0 /\ m - 1 \in 0..n
    <3>1. m # 0
      <4> HIDE DEF Tops
      <4> QED BY <2>2, <2>3
    <3> QED BY <2>2, <3>1
  <2>5. Tops(m - 1)
    <3>1. m - 1 \notin Bad
      <4> HIDE DEF Bad
      <4> QED BY <2>1, <2>2, <2>4
    <3> HIDE DEF Tops
    <3> QED BY <2>4, <3>1
  <2>6. PICK x \in 0..(m - 1) : \A y \in 0..(m - 1) : r[y] <= r[x]
    BY <2>5
  <2>7. /\ \A y \in 0..m : r[y] \in Int /\ (y # m => y \in 0..(m - 1))
        /\ x \in 0..m /\ m \in 0..m
    BY <2>2, <2>4
  <2>8. \A y \in 0..m : r[y] <= r[IF r[m] <= r[x] THEN x ELSE m]
    <3>1. CASE r[m] <= r[x]
      BY <2>6, <2>7, <3>1
    <3>2. CASE ~ (r[m] <= r[x])
      <4>1. \A y \in 0..m : r[y] <= r[m]
        <5> TAKE y \in 0..m
        <5>1. CASE y = m
          BY <2>7, <5>1
        <5>2. CASE y # m
          BY <2>6, <2>7, <3>2, <5>2
        <5> QED BY <5>1, <5>2
      <4> QED BY <3>2, <4>1
    <3> QED BY <3>1, <3>2
  <2> QED BY <2>2, <2>7, <2>8
<1>2. PICK x \in 0..n : \A y \in 0..n : r[y] <= r[x]
  <2>1. Tops(n)
    <3> HIDE DEF Tops
    <3> QED BY <1>1
  <2> QED BY <2>1
<1> DEFINE S == {r[h] : h \in 0..n}
<1>3. r[x] \in S /\ \A v \in S : r[x] >= v
  BY <1>2
<1>4. Max(S) \in S /\ \A v \in S : Max(S) >= v
  <2> HIDE DEF S
  <2> QED BY <1>3 DEF Max
<1>5. S \subseteq Int
  OBVIOUS
<1>6. \A h \in 0..n : r[h] \in S
  OBVIOUS
<1> HIDE DEF S
<1>7. Max(S) \in Int /\ \A h \in 0..n : Max(S) >= r[h] /\ r[h] \in Int
  BY <1>4, <1>5, <1>6
<1> QED BY <1>7 DEF S

----------------------------------------------------------------------------
(* The environment.                                                        *)

\* Max of two.
LEMMA MaxTyped ==
  ASSUME NEW x \in Heights, NEW y \in Heights
  PROVE  Max({x, y}) \in Heights
<1>1. \E m \in {x, y} : \A n \in {x, y} : m >= n
  <2>1. CASE x >= y
    BY <2>1 DEF Heights
  <2>2. CASE ~ (x >= y)
    BY <2>2 DEF Heights
  <2> QED BY <2>1, <2>2
<1>2. Max({x, y}) \in {x, y}
  BY <1>1 DEF Max
<1> QED BY <1>2

\* Where a settled row stood it still stands, or a fork has begun below it;
\* none comes to stand that did not.
LEMMA StandingMoves ==
  ASSUME TypeOK, ForksNumbered, SettledOnBlocks, ChainNext, UNCHANGED block, NEW i \in Settled
  PROVE  /\ Canonical(i)' => Canonical(i)
         /\ forks' = forks => Canonical(i)' = Canonical(i)
<1>1. block[i].height \in Heights /\ block[i].hash \in 0..forks /\ (block[i].hash = forks => Canonical(i))
  BY DEF SettledOnBlocks
<1>2. forks \in Nat /\ forks' # forks => forks' = forks + 1
  BY HashesMove DEF TypeOK, ChainTypeOK
<1>3. block'[i] = block[i]
  OBVIOUS
<1>4. CASE /\ forks' = forks
           /\ \A h \in Heights : HashAt(h)' # HashAt(h) => HashAt(h) = -1 /\ HashAt(h)' = forks
  BY <1>1, <1>3, <1>4 DEF Canonical, TypeOK, ChainTypeOK
<1>5. CASE /\ forks' = forks + 1
           /\ \E n \in Heights : \A h \in Heights : HashAt(h)' = IF h <= n THEN HashAt(h) ELSE -1
  BY <1>1, <1>3, <1>5 DEF Canonical, TypeOK, ChainTypeOK
<1> QED BY <1>4, <1>5, HashesMove DEF TypeOK

\* The chain moves under a tick: what the tick knows of it stands.
LEMMA EnvironmentKeeps == ASSUME IInv, Environment PROVE IInv'
<1> USE DEF IInv, Environment
<1>1. ChainTypeOK' /\ wire' = wire
  BY ChainKeeps DEF TypeOK
<1>2. UNCHANGED <<journalVars, outcome, tickVars>>
  OBVIOUS
<1>3. Settled' = Settled /\ block' = block
  BY <1>2 DEF Settled, journalVars
<1>4. TypeOK'
  <2>1. top' \in Heights
    BY <1>1, MaxTyped DEF TypeOK, ChainTypeOK
  <2>2. calm' \in BOOLEAN /\ torn' \in BOOLEAN
    BY DEF TypeOK
  <2> QED BY <1>1, <1>2, <2>1, <2>2 DEF TypeOK, JournalTypeOK, journalVars, tickVars
<1>5. Control'
  BY <1>2, <1>3 DEF Control, tickVars
<1>6. \/ forks' = forks /\ \A h \in Heights : HashAt(h)' # HashAt(h) => HashAt(h) = -1 /\ HashAt(h)' = forks
      \/ /\ forks' = forks + 1
         /\ \E n \in Heights : \A h \in Heights : HashAt(h)' = IF h <= n THEN HashAt(h) ELSE -1
  BY HashesMove DEF TypeOK
<1>7. forks \in Nat
  BY DEF TypeOK, ChainTypeOK
<1>8. ForksNumbered'
  <2> SUFFICES ASSUME NEW h \in Heights PROVE HashAt(h)' \in -1..forks'
    BY DEF ForksNumbered
  <2>1. HashAt(h) \in -1..forks
    BY DEF ForksNumbered
  <2> QED BY <1>6, <1>7, <2>1
<1>9. \A i \in Settled : /\ Canonical(i)' => Canonical(i)
                         /\ forks' = forks => Canonical(i)' = Canonical(i)
  BY <1>3, StandingMoves DEF TypeOK
<1>10. SettledOnBlocks'
  <2> SUFFICES ASSUME NEW i \in Settled
               PROVE  /\ block[i].height \in Heights /\ block[i].hash \in 0..forks'
                      /\ block[i].hash = forks' => Canonical(i)'
    BY <1>3 DEF SettledOnBlocks
  <2>1. block[i].height \in Heights /\ block[i].hash \in 0..forks /\ (block[i].hash = forks => Canonical(i))
    BY DEF SettledOnBlocks
  <2> QED BY <1>6, <1>7, <1>9, <2>1
<1>11. SnapshotStands'
  <2> SUFFICES ASSUME canon # Unread, ~ torn', NEW h \in Heights, canon[h] # -1
               PROVE  HashAt(h)' = canon[h]
    BY <1>2 DEF SnapshotStands, tickVars
  <2>1. pc = "reconcile" /\ ~ torn /\ forks' = forks
    BY DEF Control, Begun
  <2>2. HashAt(h) = canon[h]
    BY <2>1 DEF SnapshotStands
  <2> QED BY <1>6, <1>7, <2>1, <2>2
<1>12. VisitedStands'
  <2> SUFFICES ASSUME pc = "reconcile", ~ torn', NEW i \in Settled \ todo
               PROVE  Canonical(i)'
    BY <1>2, <1>3 DEF VisitedStands, tickVars
  <2>1. ~ torn /\ forks' = forks
    BY DEF Begun
  <2> QED BY <1>9, <2>1 DEF VisitedStands
<1>13. SettledNest'
  <2> SUFFICES ASSUME pc \in Deciding, ~ torn', NEW i \in Settled, NEW j \in Settled,
                      block[i].height <= block[j].height, Canonical(j)'
               PROVE  Canonical(i)'
    BY <1>2, <1>3 DEF SettledNest, tickVars
  <2>1. Canonical(j) /\ Canonical(i)
    BY <1>9 DEF SettledNest
  <2>2. block[i].height \in Heights /\ block[j].height \in Heights /\ block[j].hash # -1
    BY <1>7 DEF SettledOnBlocks
  <2>3. CASE \E n \in Heights : \A h \in Heights : HashAt(h)' = IF h <= n THEN HashAt(h) ELSE -1
    BY <1>3, <2>1, <2>2, <2>3 DEF Canonical, Heights
  <2> QED BY <1>6, <1>9, <2>1, <2>3
<1>14. AnchorStands'
  <2> SUFFICES ASSUME pc = "claim"
               PROVE  vouched <= forks' /\ (vouched = forks' /\ Settled # {} => Canonical(Anchor)')
    BY <1>2 , <1>3 DEF AnchorStands, tickVars
  <2>1. vouched \in Int /\ vouched <= forks /\ (vouched = forks /\ Settled # {} => Canonical(Anchor))
    BY DEF AnchorStands, TypeOK
  <2>2. Anchor' = Anchor
    BY <1>3 DEF Anchor
  <2>3. Settled # {} => Anchor \in Settled
    BY AnchorIsLast
  <2> QED BY <1>6, <1>7, <1>9, <2>1, <2>2, <2>3 DEF Canonical
<1> QED BY <1>4, <1>5, <1>8, <1>10, <1>11, <1>12, <1>13, <1>14

----------------------------------------------------------------------------
(* Shapes of the engine's steps.                                           *)

\* The books rest on the chain and on the rows' blocks, and on nothing else.
LEMMA BooksKeep ==
  ASSUME IInv, UNCHANGED <<chain, forks, block>>, Settled' \subseteq Settled
  PROVE  ForksNumbered' /\ SettledOnBlocks'
BY DEF IInv, ForksNumbered, SettledOnBlocks, Canonical, HashAt, Height

\* The tick ends: whatever it knew is forgotten.
LEMMA EndKeeps ==
  ASSUME IInv, TypeOK', UNCHANGED <<chain, forks, block>>, Settled' \subseteq Settled,
         pc' = "idle", canon' = Unread
  PROVE  IInv'
BY BooksKeep DEF IInv, Control, SnapshotStands, VisitedStands, SettledNest, AnchorStands

\* The tick goes on after the settlement, the anchor still unread.
LEMMA AdvanceKeeps ==
  ASSUME IInv, TypeOK', UNCHANGED <<chain, forks, block>>, Settled' = Settled,
         pc \in Deciding, pc' \in Deciding \ {"claim"}, pc' \in Chosen => cur' \in Intents,
         canon' = Unread, torn' = torn, pc' = "settle" => todo' \subseteq Settled
  PROVE  IInv'
<1>1. ForksNumbered' /\ SettledOnBlocks'
  BY BooksKeep
<1>2. SettledNest'
  BY DEF IInv, SettledNest, Canonical, HashAt, Height
<1>3. Control' /\ SnapshotStands' /\ VisitedStands' /\ AnchorStands'
  BY DEF Control, SnapshotStands, VisitedStands, AnchorStands
<1> QED BY <1>1, <1>2, <1>3 DEF IInv

\* A provider error, a crash, or nothing left to do.
LEMMA InterruptKeeps ==
  ASSUME IInv, Interrupt \/ Rest, UNCHANGED <<top, calm>>, torn' \in BOOLEAN
  PROVE  IInv'
<1>1. /\ UNCHANGED <<chainVars, journalVars, outcome>>
      /\ pc' = "idle" /\ cur' = Nobody /\ todo' = {} /\ canon' = Unread /\ vouched' = -1
  BY DEF Interrupt, Rest, Finish
<1>2. Settled' = Settled
  BY <1>1 DEF Settled, journalVars
<1>3. TypeOK'
  BY <1>1, ChainAssumption DEF IInv, TypeOK, ChainTypeOK, JournalTypeOK, chainVars, journalVars
<1> QED BY <1>1, <1>2, <1>3, EndKeeps DEF chainVars, journalVars

\* start_run, acknowledge_execution_incident and request_stop.
LEMMA OperatorKeeps ==
  ASSUME IInv, Operator, UNCHANGED <<top, calm>>, torn' = (torn /\ pc' # "idle")
  PROVE  IInv'
<1>1. /\ UNCHANGED <<chainVars, outcome, tickVars>>
      /\ UNCHANGED <<status, signed, attempts, holder, block, anchor>>
  BY DEF Operator, StartRun, RequestStop, AcknowledgeIncident
<1>2. Settled' = Settled /\ Anchor' = Anchor
  BY <1>1 DEF Settled, Anchor
<1>3. JournalTypeOK'
  BY <1>1 DEF IInv, TypeOK, JournalTypeOK, Operator, StartRun, RequestStop, AcknowledgeIncident
<1>4. TypeOK'
  BY <1>1, <1>3 DEF IInv, TypeOK, ChainTypeOK, chainVars, tickVars
<1>5. ForksNumbered' /\ SettledOnBlocks'
  BY <1>1, <1>2, BooksKeep DEF chainVars
<1>6. SnapshotStands' /\ VisitedStands' /\ SettledNest'
  BY <1>1, <1>2 DEF IInv, TypeOK, Control, SnapshotStands, VisitedStands, SettledNest,
     Canonical, HashAt, Height, chainVars, tickVars
<1>7. AnchorStands' /\ Control'
  BY <1>1, <1>2 DEF IInv, Control, AnchorStands, Canonical, HashAt, Height, chainVars, tickVars
<1> QED BY <1>4, <1>5, <1>6, <1>7 DEF IInv

----------------------------------------------------------------------------
(* Reconciliation.                                                         *)

\* A tick begins with every settled row before it.
LEMMA TickKeeps ==
  ASSUME IInv, Tick, UNCHANGED <<top, calm>>, torn' \in BOOLEAN
  PROVE  IInv'
<1>1. Settled' = Settled
  BY DEF Tick, Settled, journalVars
<1>2. TypeOK'
  BY DEF IInv, TypeOK, ChainTypeOK, JournalTypeOK, Tick, chainVars, journalVars
<1>3. ForksNumbered' /\ SettledOnBlocks'
  BY <1>1, BooksKeep DEF Tick, chainVars, journalVars
<1>4. canon = Unread
  BY DEF IInv, Control, Tick
<1>5. Settled' \ todo' = {}
  BY DEF Tick, Settled, journalVars
<1> QED BY <1>1, <1>2, <1>3, <1>4, <1>5
  DEF Tick, IInv, Control, SnapshotStands, VisitedStands, SettledNest, AnchorStands

\* The one read of the blocks.
LEMMA ReadKeeps ==
  ASSUME IInv, ReadBlocks, UNCHANGED <<top, calm>>, torn' = (torn /\ pc' # "idle")
  PROVE  IInv'
<1>1. /\ UNCHANGED <<chainVars, journalVars, outcome, pc, cur, todo, vouched>>
      /\ pc = "reconcile" /\ canon' = [h \in Heights |-> HashAt(h)]
  BY DEF ReadBlocks
<1>2. Settled' = Settled
  BY <1>1 DEF Settled, journalVars
<1>3. \A h \in Heights : HashAt(h) \in Int /\ HashAt(h)' = HashAt(h)
  BY <1>1, HashTyped DEF IInv, TypeOK, HashAt, Height, chainVars
<1>4. TypeOK'
  BY <1>1, <1>3 DEF IInv, TypeOK, ChainTypeOK, JournalTypeOK, chainVars, journalVars
<1>5. ForksNumbered' /\ SettledOnBlocks'
  BY <1>1, <1>2, BooksKeep DEF chainVars, journalVars
<1>6. VisitedStands'
  BY <1>1, <1>2 DEF IInv, TypeOK, VisitedStands, Canonical, HashAt, Height, chainVars, journalVars
<1> QED BY <1>1, <1>2, <1>3, <1>4, <1>5, <1>6 DEF IInv, Control, SnapshotStands, SettledNest, AnchorStands

\* A row that finds no place on the chain does not become a settled one.
\* One that does rests on a canonical block.
LEMMA RowFound ==
  ASSUME IInv, NEW i \in Intents, NEW h \in InclusionHeights(i)
  PROVE  /\ PointAt(h) \in Points /\ PointAt(h).height = h /\ PointAt(h).hash = HashAt(h)
         /\ h \in Heights /\ HashAt(h) \in 0..forks
<1>1. h \in 1..Height /\ Height \in Heights
  BY DEF InclusionHeights, IInv, TypeOK, ChainTypeOK, Height
<1>2. h \in Heights /\ HashAt(h) = chain[h].hash
  BY <1>1, ChainAssumption DEF Heights, HashAt
<1>3. chain[h] \in Blocks
  BY <1>1 DEF IInv, TypeOK, ChainTypeOK, Height
<1>4. chain[h].hash \in 0..MaxForks
  BY <1>3 DEF Blocks
<1>5. HashAt(h) \in 0..forks
  BY <1>2, <1>4, ChainAssumption DEF IInv, TypeOK, ChainTypeOK, ForksNumbered
<1> QED BY <1>1, <1>2, <1>5 DEF PointAt, Points, Heights

\* What one visit may do to the books: the row keeps its block and its being
\* settled, or comes to rest on a canonical one, or is not settled.
LEMMA RowSettles ==
  ASSUME IInv, NEW i \in Intents, ReconcileRow(i)
  PROVE  /\ JournalTypeOK' /\ UNCHANGED <<chainVars, outcome, pc, cur, canon, vouched>>
         /\ todo' \subseteq todo /\ todo \ {i} \subseteq todo'
         /\ Settled' \subseteq Settled \cup {i}
         /\ \A j \in Intents \ {i} : block'[j] = block[j]
         /\ i \in Settled' =>
              \/ /\ block'[i].height \in Heights /\ block'[i].hash \in 0..forks
                 /\ HashAt(block'[i].height) = block'[i].hash
              \/ RowStands(i)
<1> USE DEF IInv
<1>0. /\ pc = "reconcile" /\ i \in todo
      /\ UNCHANGED <<chainVars, outcome, pc, cur, canon, vouched>>
      /\ status \in [Intents -> Statuses] /\ block \in [Intents -> Points] /\ JournalTypeOK
  BY DEF ReconcileRow, TypeOK, JournalTypeOK
<1>1. CASE RowRolledBack(i)
  <2>1. JournalTypeOK'
    BY <1>0, <1>1 DEF RowRolledBack, RecordRollback, JournalTypeOK
  <2> QED BY <1>0, <1>1, <2>1 DEF RowRolledBack, RecordRollback, Settled
<1>2. CASE RowIncluded(i)
  <2>1. PICK h \in InclusionHeights(i) :
          /\ RecordInclusion(i, PointAt(h), Depth(h) >= Confirmations)
          /\ todo' = todo \ {i}
    BY <1>2 DEF RowIncluded
  <2>2. /\ PointAt(h) \in Points /\ PointAt(h).height = h /\ PointAt(h).hash = HashAt(h)
        /\ h \in Heights /\ HashAt(h) \in 0..forks
    BY RowFound
  <2>3. JournalTypeOK'
    BY <1>0, <2>1, <2>2 DEF RecordInclusion, JournalTypeOK, Reserve
  <2> QED BY <1>0, <2>1, <2>2, <2>3 DEF RecordInclusion, Settled
<1>3. CASE RowFailed(i)
  <2>1. PICK h \in InclusionHeights(i) : RetireFailed(i, PointAt(h)) /\ todo' = todo \ {i}
    BY <1>3 DEF RowFailed
  <2>2. /\ PointAt(h) \in Points /\ PointAt(h).height = h /\ PointAt(h).hash = HashAt(h)
        /\ h \in Heights /\ HashAt(h) \in 0..forks
    BY RowFound
  <2>3. JournalTypeOK'
    BY <1>0, <2>1, <2>2 DEF RetireFailed, JournalTypeOK, Reserve
  <2> QED BY <1>0, <2>1, <2>2, <2>3 DEF RetireFailed, Settled
<1>4. CASE RowWaits(i) /\ status[i] \notin Terminal
  BY <1>0, <1>4 DEF RowWaits, journalVars, Settled, JournalTypeOK
<1>5. CASE RowMissing(i) /\ status[i] \notin Terminal
  BY <1>0, <1>5 DEF RowMissing, MarkTransaction, journalVars, Settled, JournalTypeOK
<1>6. CASE RowExpired(i)
  <2>1. PICK h \in 1..Height : RetireExpired(i, "expired", Roles(i), PointAt(h)) /\ todo' = todo \ {i}
    BY <1>6 DEF RowExpired
  <2>2. PointAt(h) \in Points
    BY BlockTyped DEF PointAt, Points, TypeOK
  <2>3. JournalTypeOK'
    BY <1>0, <2>1, <2>2 DEF RetireExpired, JournalTypeOK, Release
  <2> QED BY <1>0, <2>1, <2>2, <2>3 DEF RetireExpired, Settled
<1>7. CASE RowStands(i)
  BY <1>0, <1>7 DEF RowStands, journalVars, Settled, JournalTypeOK
<1> QED BY <1>1, <1>2, <1>3, <1>4, <1>5, <1>6, <1>7 DEF ReconcileRow

\* A row that stands by the snapshot stands, as long as no fork came between.
LEMMA StandingRow ==
  ASSUME IInv, NEW i \in Settled, Turn(i), RowStands(i), ~ torn
  PROVE  Canonical(i)
<1>1. status[i] \in {"confirmed", "failed"} /\ block[i].height \in Heights /\ block[i].hash \in 0..forks
  BY DEF IInv, SettledOnBlocks, Settled
<1>2. canon # Unread /\ canon[block[i].height] = block[i].hash
  BY <1>1 DEF Turn, RowStands, BlockSeen, BlockUnder
<1>3. block[i].hash # -1
  BY <1>1 DEF IInv, TypeOK, ChainTypeOK
<1> QED BY <1>1, <1>2, <1>3 DEF IInv, SnapshotStands, Canonical

\* One row is reconciled.
LEMMA RowKeeps ==
  ASSUME IInv, NEW i \in Intents, ReconcileRow(i), UNCHANGED <<top, calm>>, torn' = (torn /\ pc' # "idle")
  PROVE  IInv'
<1>1. /\ JournalTypeOK' /\ UNCHANGED <<chainVars, outcome, pc, cur, canon, vouched>>
      /\ todo' \subseteq todo /\ todo \ {i} \subseteq todo'
      /\ Settled' \subseteq Settled \cup {i}
      /\ \A j \in Intents \ {i} : block'[j] = block[j]
      /\ i \in Settled' =>
           \/ /\ block'[i].height \in Heights /\ block'[i].hash \in 0..forks
              /\ HashAt(block'[i].height) = block'[i].hash
           \/ RowStands(i)
  BY RowSettles
<1>2. pc = "reconcile" /\ torn' = torn /\ Turn(i)
  BY <1>1 DEF ReconcileRow, IInv, TypeOK
<1>3. TypeOK'
  BY <1>1, <1>2 DEF IInv, TypeOK, ChainTypeOK, chainVars
<1>4. \A h \in Heights : HashAt(h)' = HashAt(h)
  BY <1>1 DEF HashAt, Height, chainVars
<1>5. RowStands(i) => block' = block /\ Settled' = Settled
  BY DEF RowStands, journalVars, Settled
<1>6. ForksNumbered'
  BY <1>1, <1>4 DEF IInv, ForksNumbered, chainVars
<1>7. \A j \in Settled' : j # i => j \in Settled /\ block'[j] = block[j]
  BY <1>1 DEF Settled
<1>8. SettledOnBlocks' /\ VisitedStands'
  <2> SUFFICES ASSUME NEW j \in Settled'
               PROVE  /\ block'[j].height \in Heights /\ block'[j].hash \in 0..forks'
                      /\ block'[j].hash = forks' => Canonical(j)'
                      /\ j \notin todo' /\ ~ torn => Canonical(j)'
    BY <1>2 DEF SettledOnBlocks, VisitedStands
  <2>1. CASE j = i /\ ~ RowStands(i)
    BY <1>1, <1>4, <2>1 DEF Canonical, chainVars
  <2>2. CASE j = i /\ RowStands(i)
    <3>1. i \in Settled /\ block' = block /\ forks' = forks
      BY <1>1, <1>5, <2>2 DEF chainVars
    <3>2. ~ torn => Canonical(i)
      BY <1>2, <2>2, <3>1, StandingRow
    <3> QED BY <1>4, <2>2, <3>1, <3>2 DEF IInv, SettledOnBlocks, Canonical
  <2>3. CASE j # i
    <3>1. j \in Settled /\ block'[j] = block[j] /\ forks' = forks
      BY <1>1, <1>7, <2>3 DEF chainVars
    <3>2. j \notin todo' => j \notin todo
      BY <1>1, <2>3
    <3>3. ~ torn /\ j \notin todo' => Canonical(j)
      BY <1>2, <3>1, <3>2 DEF IInv, VisitedStands
    <3> QED BY <1>4, <3>1, <3>3 DEF IInv, SettledOnBlocks, Canonical
  <2> QED BY <2>1, <2>2, <2>3
<1>9. SnapshotStands'
  BY <1>1, <1>2, <1>4 DEF IInv, SnapshotStands
<1>10. Control' /\ SettledNest' /\ AnchorStands'
  BY <1>1, <1>2 DEF IInv, Control, SettledNest, AnchorStands
<1> QED BY <1>3, <1>6, <1>8, <1>9, <1>10 DEF IInv

\* With no row left to visit, all settled rows stand together.
LEMMA PassKeeps ==
  ASSUME IInv, EndPass, UNCHANGED <<top, calm>>, torn' = (torn /\ pc' # "idle")
  PROVE  IInv'
<1>1. /\ UNCHANGED <<chainVars, journalVars, outcome, cur, vouched>> /\ canon' = Unread
      /\ pc = "reconcile" /\ todo = {} /\ pc' = "settle" /\ torn' = torn
  BY DEF EndPass, IInv, TypeOK
<1>2. Settled' = Settled
  BY <1>1 DEF Settled, journalVars
<1>3. todo' \in SUBSET Intents
  BY DEF EndPass, Settled
<1>4. TypeOK'
  BY <1>1, <1>3 DEF IInv, TypeOK, ChainTypeOK, JournalTypeOK, chainVars, journalVars
<1>5. ForksNumbered' /\ SettledOnBlocks'
  BY <1>1, <1>2, BooksKeep DEF chainVars, journalVars
<1>6. SettledNest'
  BY <1>1, <1>2 DEF IInv, VisitedStands, SettledNest, Canonical, HashAt, Height, chainVars, journalVars
<1>7. todo' \subseteq Settled'
  BY <1>2 DEF EndPass
<1> QED BY <1>1, <1>4, <1>5, <1>6, <1>7 DEF IInv, Control, SnapshotStands, VisitedStands, AnchorStands

\* The settlement looks at the rows again and changes none.
LEMMA SettleKeeps ==
  ASSUME IInv, (\E i \in Intents : SettleRow(i)) \/ EndSettlement,
         UNCHANGED <<top, calm>>, torn' = (torn /\ pc' # "idle")
  PROVE  IInv'
<1>1. /\ UNCHANGED <<chainVars, journalVars, vouched>> /\ canon' = Unread
      /\ pc = "settle" /\ pc' \in {"settle", "decide"} /\ torn' = torn
      /\ todo' \subseteq todo /\ cur' \in Intents \cup {Nobody}
      /\ pc' = "decide" => todo' = {}
  BY DEF SettleRow, EndSettlement, Goto, IInv, Control, TypeOK
<1>2. Settled' = Settled
  BY <1>1 DEF Settled, journalVars
<1>3. outcome' \in [Intents -> [hash : Int, net : Int]]
  <2>1. CASE EndSettlement
    BY <2>1 DEF EndSettlement, IInv, TypeOK
  <2>2. CASE \E i \in Intents : SettleRow(i)
    <3>1. PICK i \in Intents : SettleRow(i)
      BY <2>2
    <3>2. Result(i) \in Int /\ block[i].hash \in Int
      BY ArbitrageAssumption DEF Result, IInv, TypeOK, JournalTypeOK, Points
    <3> QED BY <3>1, <3>2 DEF SettleRow, IInv, TypeOK
  <2> QED BY <2>1, <2>2
<1>4. TypeOK'
  BY <1>1, <1>3 DEF IInv, TypeOK, ChainTypeOK, JournalTypeOK, chainVars, journalVars
<1>5. UNCHANGED <<chain, forks, block>> /\ pc \in Deciding /\ pc' \in Deciding \ {"claim"} /\ pc' \notin Chosen
  BY <1>1 DEF chainVars, journalVars
<1>6. todo' \subseteq Settled
  BY <1>1 DEF IInv, Control
<1> QED BY <1>1, <1>2, <1>4, <1>5, <1>6, AdvanceKeeps

----------------------------------------------------------------------------
(* One candidate.                                                          *)

\* Steps that only choose what comes next, and prepare or sign it.
LEMMA CandidateKeeps ==
  ASSUME IInv, UNCHANGED <<top, calm>>, torn' = (torn /\ pc' # "idle"),
         (\E i \in Intents : Resume(i) \/ Choose(i)) \/ Prepare \/ Sign \/ Proceed
  PROVE  IInv'
<1>1. /\ UNCHANGED <<chainVars, outcome, todo, vouched>>
      /\ pc \in Deciding \ {"settle"} /\ pc' \in Deciding \ {"settle", "claim"}
      /\ cur' \in Intents /\ canon' = Unread
  BY DEF IInv, Control, Resume, Choose, Ready, Prepare, Sign, Proceed, Goto
<1>2. \/ UNCHANGED journalVars
      \/ PrepareCandidate(cur) /\ cur \in Intents
      \/ AttachSignature(cur)
  BY DEF IInv, Control, Resume, Choose, Prepare, Sign, Proceed
<1>3. JournalTypeOK' /\ Settled' = Settled /\ block' = block
  <2>1. CASE UNCHANGED journalVars
    BY <2>1 DEF IInv, TypeOK, JournalTypeOK, journalVars, Settled
  <2>2. CASE PrepareCandidate(cur) /\ ~ UNCHANGED journalVars /\ cur \in Intents
    <3>1. /\ status[cur] = "absent"
          /\ status' = [status EXCEPT ![cur] = "prepared"]
          /\ holder' = [r \in Refs |-> IF r \in Roles(cur) THEN cur ELSE holder[r]]
          /\ UNCHANGED <<signed, attempts, block, anchor, incident, control>>
      BY <2>2 DEF PrepareCandidate
    <3>2. Settled' = Settled
      BY <2>2, <3>1 DEF IInv, TypeOK, JournalTypeOK, Settled
    <3> QED BY <2>2, <3>1, <3>2 DEF IInv, TypeOK, JournalTypeOK
  <2>3. CASE AttachSignature(cur)
    BY <2>3 DEF IInv, TypeOK, JournalTypeOK, Settled, AttachSignature
  <2> QED BY <1>2, <2>1, <2>2, <2>3
<1>4. TypeOK'
  BY <1>1, <1>3 DEF IInv, TypeOK, ChainTypeOK, chainVars
<1>5. torn' = torn /\ UNCHANGED <<chain, forks, block>>
  BY <1>1, <1>3 DEF IInv, TypeOK, chainVars
<1> QED BY <1>1, <1>3, <1>4, <1>5, AdvanceKeeps

\* The anchor is read on the chain of the moment.
LEMMA SubmitKeeps ==
  ASSUME IInv, Submit, UNCHANGED <<top, calm>>, torn' = (torn /\ pc' # "idle")
  PROVE  IInv'
<1>1. /\ UNCHANGED <<chainVars, journalVars, outcome, cur, todo, canon>>
      /\ pc = "submit" /\ pc' = "claim" /\ vouched' = forks /\ torn' = torn
      /\ Settled # {} => Canonical(Anchor)
  BY DEF Submit, IInv, TypeOK
<1>2. Settled' = Settled /\ Anchor' = Anchor
  BY <1>1 DEF Settled, Anchor, journalVars
<1>3. TypeOK'
  BY <1>1, ChainAssumption DEF IInv, TypeOK, ChainTypeOK, JournalTypeOK, chainVars, journalVars
<1>4. ForksNumbered' /\ SettledOnBlocks'
  BY <1>1, <1>2, BooksKeep DEF chainVars, journalVars
<1>5. SettledNest'
  BY <1>1, <1>2 DEF IInv, SettledNest, Canonical, HashAt, Height, chainVars, journalVars
<1>6. AnchorStands'
  BY <1>1, <1>2, <1>3 DEF TypeOK, ChainTypeOK, AnchorStands, Canonical, HashAt, Height, chainVars, journalVars
<1> QED BY <1>1, <1>3, <1>4, <1>5, <1>6 DEF IInv, Control, SnapshotStands, VisitedStands

\* The claim and the wire call, or the release of a never-signed candidate.
LEMMA LeaveKeeps ==
  ASSUME IInv, UNCHANGED <<top, calm>>, torn' \in BOOLEAN,
         (\E d \in BOOLEAN : Launch(d)) \/ (\E i \in Intents : Recover(i))
  PROVE  IInv'
<1>1. CASE \E d \in BOOLEAN : Launch(d)
  <2>1. PICK d \in BOOLEAN : Launch(d)
    BY <1>1
  <2>2. cur \in Intents /\ status[cur] = "prepared"
    BY <2>1 DEF IInv, Control, Launch, Claimable
  <2>3. Settled' = Settled /\ UNCHANGED <<chain, forks, block>> /\ pc' = "idle" /\ canon' = Unread
    BY <2>1, <2>2 DEF IInv, TypeOK, JournalTypeOK, Settled, Launch, Finish
  <2>4. JournalTypeOK'
    BY <2>1, <2>2 DEF IInv, TypeOK, JournalTypeOK, Launch
  <2>5. ChainTypeOK'
    BY <2>1, <2>2 DEF IInv, TypeOK, ChainTypeOK, Launch
  <2>6. TypeOK'
    BY <2>1, <2>4, <2>5, ChainAssumption DEF IInv, TypeOK, Launch, Finish
  <2> QED BY <2>3, <2>6, EndKeeps
<1>2. CASE \E i \in Intents : Recover(i)
  <2>1. PICK i \in Intents : Recover(i)
    BY <1>2
  <2>2. Settled' = Settled /\ UNCHANGED <<chain, forks, block>> /\ pc' = "idle" /\ canon' = Unread
    BY <2>1 DEF IInv, TypeOK, JournalTypeOK, Settled, Recover, AbandonUnsigned, Finish, chainVars
  <2>3. JournalTypeOK'
    BY <2>1 DEF IInv, TypeOK, JournalTypeOK, Recover, AbandonUnsigned, Release
  <2>4. TypeOK'
    BY <2>1, <2>3, ChainAssumption DEF IInv, TypeOK, ChainTypeOK, Recover, Finish, chainVars
  <2> QED BY <2>2, <2>4, EndKeeps
<1> QED BY <1>1, <1>2

----------------------------------------------------------------------------
(* The invariant.                                                          *)

\* The invariant holds at the start.
LEMMA Initially == Init => IInv
<1> SUFFICES ASSUME Init PROVE IInv
  OBVIOUS
<1> USE ChainAssumption
<1>1. chain \in Seq(Blocks) /\ Len(chain) = 1 /\ forks = 0 /\ Settled = {}
  BY DEF Init, ChainInit, JournalInit, Blocks, Settled
<1>2. ChainTypeOK
  BY <1>1 DEF Init, ChainInit, ChainTypeOK, Heights
<1>3. JournalTypeOK
  BY DEF Init, JournalInit, JournalTypeOK, NoBlock, Points
<1>4. TypeOK
  <2>1. outcome \in [Intents -> [hash : Int, net : Int]]
    BY DEF Init, NoOutcome
  <2>2. /\ pc = "idle" /\ cur = Nobody /\ todo = {} /\ canon = Unread
        /\ vouched \in -1..MaxForks /\ top \in Heights
    BY <1>1 DEF Init, Height, Heights
  <2>3. calm \in BOOLEAN /\ torn \in BOOLEAN
    BY DEF Init
  <2> QED BY <1>2, <1>3, <2>1, <2>2, <2>3 DEF TypeOK
<1>5. ForksNumbered
  BY <1>1 DEF Init, ChainInit, ForksNumbered, HashAt, Height
<1> QED BY <1>1, <1>4, <1>5 DEF Init, IInv, Control, SettledOnBlocks,
  SnapshotStands, VisitedStands, SettledNest, AnchorStands

\* Every step keeps the invariant: one case per action.
LEMMA StepKeeps == IInv /\ [Next]_vars => IInv'
<1> SUFFICES ASSUME IInv, [Next]_vars PROVE IInv'
  OBVIOUS
<1>1. CASE Environment
  BY <1>1, EnvironmentKeeps
<1>2. CASE Engine /\ torn' = (torn /\ pc' # "idle") /\ UNCHANGED <<top, calm>>
  <2>1. torn' \in BOOLEAN /\ UNCHANGED <<top, calm>> /\ torn' = (torn /\ pc' # "idle")
    BY <1>2 DEF IInv, TypeOK
  <2>2. CASE Operator
    BY <2>1, <2>2, OperatorKeeps
  <2>3. CASE Interrupt \/ Rest
    BY <2>1, <2>3, InterruptKeeps
  <2>4. CASE Tick
    BY <2>1, <2>4, TickKeeps
  <2>5. CASE ReadBlocks
    BY <2>1, <2>5, ReadKeeps
  <2>6. CASE EndPass
    BY <2>1, <2>6, PassKeeps
  <2>7. CASE \E i \in Intents : ReconcileRow(i)
    BY <2>1, <2>7, RowKeeps
  <2>8. CASE (\E i \in Intents : Resume(i) \/ Choose(i)) \/ Prepare \/ Sign \/ Proceed
    BY <2>1, <2>8, CandidateKeeps
  <2>9. CASE Submit
    BY <2>1, <2>9, SubmitKeeps
  <2>10. CASE (\E d \in BOOLEAN : Launch(d)) \/ (\E i \in Intents : Recover(i))
    BY <2>1, <2>10, LeaveKeeps
  <2>11. CASE (\E i \in Intents : SettleRow(i)) \/ EndSettlement
    BY <2>1, <2>11, SettleKeeps
  <2> QED BY <1>2, <2>2, <2>3, <2>4, <2>5, <2>6, <2>7, <2>8, <2>9, <2>10, <2>11 DEF Engine
<1>3. CASE UNCHANGED vars
  <2>1. UNCHANGED <<chainVars, journalVars, outcome, tickVars, top, calm, torn>>
    BY <1>3 DEF vars
  <2>2. Settled' = Settled /\ Anchor' = Anchor
    BY <2>1 DEF Settled, Anchor, journalVars
  <2> QED BY <2>1, <2>2 DEF IInv, TypeOK, ChainTypeOK, JournalTypeOK, Control, ForksNumbered,
    SettledOnBlocks, SnapshotStands, VisitedStands, SettledNest, AnchorStands,
    Canonical, HashAt, Height, chainVars, journalVars, tickVars
<1> QED BY <1>1, <1>2, <1>3 DEF Next

\* The accounting's evidence: what the ticks know of the chain is as they know it.
THEOREM Invariant == Spec => []IInv
BY Initially, StepKeeps, PTL DEF Spec

\* Whatever rolls back: a candidate is claimed only while every settled row that
\* its headroom was computed from is canonical, unless the chain has left its
\* fork since the anchor was read or while the rows were reconciled.
THEOREM AnchorSound == Spec => []AnchorVouches
<1>1. IInv => AnchorVouches
  <2> SUFFICES ASSUME IInv, pc = "claim", vouched = forks, ~ torn, NEW i \in Settled
               PROVE  Canonical(i)
    BY DEF AnchorVouches
  <2>1. Anchor \in Settled /\ block[i].height <= block[Anchor].height
    BY AnchorIsLast DEF IInv
  <2>2. Canonical(Anchor)
    BY DEF IInv, AnchorStands
  <2> QED BY <2>1, <2>2 DEF IInv, SettledNest
<1> QED BY <1>1, Invariant, PTL

\* A script failure pauses the wallet until the operator acknowledges it: no
\* candidate is prepared or sent meanwhile, and only the acknowledgement, made
\* while the engine does not run, ends the pause.
THEOREM IncidentKept == Spec => IncidentPauses
<1> DEFINE Pauses ==
      \A i \in Intents : incident[i] = "open" =>
        /\ attempts' = attempts
        /\ \A j \in Intents : status[j] = "absent" => status'[j] = "absent"
        /\ incident'[i] # "open" => pc = "idle" /\ UNCHANGED <<status, outcome>>
<1>1. ASSUME IInv, [Next]_vars PROVE [Pauses]_vars
  <2> SUFFICES ASSUME Next, NEW i \in Intents, incident[i] = "open"
               PROVE  /\ attempts' = attempts
                      /\ \A j \in Intents : status[j] = "absent" => status'[j] = "absent"
                      /\ incident'[i] # "open" => pc = "idle" /\ UNCHANGED <<status, outcome>>
    BY <1>1
  <2>0. ~ NoIncident /\ status \in [Intents -> Statuses] /\ incident \in [Intents -> {"none", "open", "acknowledged"}]
    BY <1>1 DEF NoIncident, IInv, TypeOK, JournalTypeOK
  <2>1. CASE UNCHANGED journalVars
    BY <2>1 DEF journalVars
  <2>2. CASE Operator
    BY <2>0, <2>2 DEF Operator, StartRun, RequestStop, AcknowledgeIncident, journalVars
  <2>3. CASE \E k \in Intents : ReconcileRow(k)
    BY <2>0, <2>3 DEF ReconcileRow, RowRolledBack, RowIncluded, RowFailed, RowWaits, RowMissing, RowExpired,
       RowStands, RecordRollback, RecordInclusion, RetireFailed, MarkTransaction, RetireExpired, journalVars
  <2>4. CASE Sign
    BY <2>4 DEF Sign, AttachSignature
  <2> QED BY <2>0, <2>1, <2>2, <2>3, <2>4 DEF Next, Environment, Engine, Interrupt, Rest, Tick, ReadBlocks,
      EndPass, SettleRow, EndSettlement, Ready, Recover, Resume, Choose, Prepare, Proceed, Submit, Launch, CheckCandidate
<1> QED BY <1>1, Invariant, PTL DEF Spec, IncidentPauses

----------------------------------------------------------------------------
(* The books.                                                              *)

\* A transaction is on the chain once.
OnceOnChain ==
  \A h, k \in 1..Height : chain[h].tx = chain[k].tx /\ chain[h].tx # NoTx => h = k

\* The block a settled row rests on carries it; and a block of that fork that
\* carries it ended as the row says.
RowsTell ==
  \A i \in Settled :
    /\ Canonical(i) => chain[block[i].height].tx = i
    /\ \A h \in 1..Height : chain[h].tx = i /\ chain[h].hash = block[i].hash =>
         chain[h].valid = (status[i] = "confirmed")

\* An outcome is what the block it names did to the wallet, if that is on the
\* chain; one of the present fork is.
OutcomesTell ==
  \A i \in Intents :
    /\ outcome[i].hash \in -1..forks /\ (outcome[i].hash = forks => OnChain(i))
    /\ \A h \in 1..Height : chain[h].tx = i /\ chain[h].hash = outcome[i].hash =>
         outcome[i].net = IF chain[h].valid THEN Gain[i] ELSE - Risk[i]

Books == OnceOnChain /\ RowsTell /\ OutcomesTell

\* The chain grows by a block no row rests on, or loses its upper blocks to a
\* fork no row and no outcome is of.
LEMMA EnvironmentTells == ASSUME IInv, Books, Environment PROVE Books'
<1> USE DEF Books
<1>1. /\ TypeOK /\ ChainTypeOK /\ ChainNext /\ ForksNumbered /\ SettledOnBlocks
      /\ UNCHANGED <<status, block, outcome>> /\ Settled' = Settled /\ forks \in Nat
  BY DEF IInv, TypeOK, ChainTypeOK, Environment, journalVars, Settled
<1>2. /\ \A h \in 1..Height : h <= Height' => chain'[h] = chain[h]
      /\ Height' \in Nat /\ Height \in Nat
      /\ \/ /\ forks' = forks /\ Height' = Height + 1
            /\ chain'[Height'].hash = forks
            /\ chain'[Height'].tx = NoTx \/ ~ OnChain(chain'[Height'].tx)
         \/ forks' = forks + 1 /\ Height' < Height
  BY <1>1, BlocksMove DEF Includable
<1>3. \A h \in 1..Height' : \/ h \in 1..Height /\ chain'[h] = chain[h]
                            \/ /\ forks' = forks /\ h = Height + 1 /\ chain'[h].hash = forks
                               /\ chain'[h].tx = NoTx \/ ~ OnChain(chain'[h].tx)
  BY <1>2
<1>4. \A i \in Intents : NoTx # i
  BY ChainAssumption DEF Txs
<1>5. OnceOnChain'
  BY <1>2, <1>3 DEF OnceOnChain, OnChain, InclusionHeights
<1>6. RowsTell'
  <2> SUFFICES ASSUME NEW i \in Settled
               PROVE  /\ Canonical(i)' => chain'[block[i].height].tx = i
                      /\ \A h \in 1..Height' : chain'[h].tx = i /\ chain'[h].hash = block[i].hash =>
                           chain'[h].valid = (status[i] = "confirmed")
    BY <1>1 DEF RowsTell
  <2>1. /\ block[i].height \in Heights /\ block[i].hash \in 0..forks
        /\ block[i].hash = forks => Canonical(i)
        /\ Canonical(i)' => Canonical(i)
    BY <1>1, StandingMoves DEF SettledOnBlocks
  <2>2. Canonical(i) => block[i].height \in 1..Height
    BY <1>1, <2>1 DEF Canonical, HashAt
  <2>3. Canonical(i)' => block[i].height \in 1..Height'
    BY <1>1, <2>1 DEF Canonical, HashAt
  <2>4. Canonical(i) => chain[block[i].height].tx = i
    BY DEF RowsTell
  <2>5. block[i].hash = forks => OnChain(i)
    BY <2>1, <2>2, <2>4 DEF OnChain, InclusionHeights
  <2>6. i \in Intents
    BY DEF Settled
  <2>7. ASSUME NEW h \in 1..Height', chain'[h].tx = i, chain'[h].hash = block[i].hash
        PROVE  chain'[h].valid = (status[i] = "confirmed")
    BY <1>3, <1>4, <2>5, <2>6, <2>7 DEF RowsTell
  <2> QED BY <1>2, <2>1, <2>2, <2>3, <2>4, <2>7
<1>7. OutcomesTell'
  <2> SUFFICES ASSUME NEW i \in Intents
               PROVE  /\ outcome[i].hash \in -1..forks' /\ (outcome[i].hash = forks' => OnChain(i)')
                      /\ \A h \in 1..Height' : chain'[h].tx = i /\ chain'[h].hash = outcome[i].hash =>
                           outcome[i].net = IF chain'[h].valid THEN Gain[i] ELSE - Risk[i]
    BY <1>1 DEF OutcomesTell
  <2>1. outcome[i].hash \in -1..forks /\ (outcome[i].hash = forks => OnChain(i))
    BY DEF OutcomesTell
  <2>2. forks' = forks /\ OnChain(i) => OnChain(i)'
    BY <1>1, <1>2 DEF OnChain, InclusionHeights
  <2>3. ASSUME NEW h \in 1..Height', chain'[h].tx = i, chain'[h].hash = outcome[i].hash
        PROVE  outcome[i].net = IF chain'[h].valid THEN Gain[i] ELSE - Risk[i]
    BY <1>3, <1>4, <2>1, <2>3 DEF OutcomesTell
  <2> QED BY <1>1, <1>2, <2>1, <2>2, <2>3
<1> QED BY <1>5, <1>6, <1>7

\* A step that leaves the settled rows, their blocks and the outcomes alone.
LEMMA BystanderTells ==
  ASSUME Books, UNCHANGED <<chain, forks, block, outcome>>, Settled' \subseteq Settled,
         \A i \in Settled' : status'[i] = status[i]
  PROVE  Books'
<1>1. OnceOnChain' /\ OutcomesTell'
  BY DEF Books, OnceOnChain, OutcomesTell, Height, OnChain, InclusionHeights
<1>2. RowsTell'
  BY DEF Books, RowsTell, Canonical, HashAt, Height
<1> QED BY <1>1, <1>2 DEF Books

\* A row that becomes a settled one takes its block and its end from the chain.
LEMMA RowTells ==
  ASSUME IInv, Books, NEW i \in Intents, ReconcileRow(i)
  PROVE  Books'
<1> USE DEF Books
<1>0. /\ UNCHANGED <<chain, forks, outcome>> /\ status \in [Intents -> Statuses] /\ block \in [Intents -> Points]
      /\ Settled \subseteq Intents
  BY DEF ReconcileRow, chainVars, IInv, TypeOK, JournalTypeOK, Settled
<1>1. OnceOnChain' /\ OutcomesTell'
  BY <1>0 DEF OnceOnChain, OutcomesTell, Height, OnChain, InclusionHeights
<1>2. ASSUME NEW h \in InclusionHeights(i), NEW s \in {"confirmed", "failed", "included"},
             s = "confirmed" => chain[h].valid, s = "failed" => ~ chain[h].valid,
             status' = [status EXCEPT ![i] = s], block' = [block EXCEPT ![i] = PointAt(h)]
      PROVE  RowsTell'
  <2>1. /\ h \in 1..Height /\ chain[h].tx = i /\ i # NoTx
        /\ PointAt(h).height = h /\ PointAt(h).hash = chain[h].hash
    BY ChainAssumption DEF InclusionHeights, PointAt, Txs
  <2>2. \A k \in 1..Height : chain[k].tx = i => k = h
    BY <2>1 DEF OnceOnChain
  <2> SUFFICES ASSUME NEW j \in Settled'
               PROVE  /\ HashAt(block'[j].height) = block'[j].hash => chain[block'[j].height].tx = j
                      /\ \A k \in 1..Height : chain[k].tx = j /\ chain[k].hash = block'[j].hash =>
                           chain[k].valid = (status'[j] = "confirmed")
    BY <1>0 DEF RowsTell, Canonical, HashAt, Height
  <2>3. CASE j = i
    <3>1. status'[i] = s /\ block'[i].height = h /\ s \in {"confirmed", "failed"}
      BY <1>0, <1>2, <2>1, <2>3 DEF Settled
    <3>2. chain[h].valid \in BOOLEAN
      BY <2>1, BlockTyped DEF IInv, TypeOK
    <3>3. chain[h].valid = (s = "confirmed")
      BY <1>2, <3>1, <3>2
    <3>4. block'[i].hash = chain[h].hash
      BY <1>0, <1>2, <2>1
    <3> QED BY <2>1, <2>2, <2>3, <3>1, <3>3, <3>4
  <2>4. CASE j # i
    BY <1>0, <1>2, <2>4 DEF RowsTell, Canonical, Settled
  <2> QED BY <2>3, <2>4
<1>3. CASE RowIncluded(i)
  <2>1. PICK h \in InclusionHeights(i) :
          chain[h].valid /\ RecordInclusion(i, PointAt(h), Depth(h) >= Confirmations)
    BY <1>3 DEF RowIncluded
  <2>2. PICK s \in {"confirmed", "included"} :
          status' = [status EXCEPT ![i] = s] /\ block' = [block EXCEPT ![i] = PointAt(h)]
    BY <2>1, Zenon DEF RecordInclusion
  <2>3. RowsTell'
    BY <1>2, <2>1, <2>2
  <2> QED BY <1>1, <2>3
<1>4. CASE RowFailed(i)
  <2>1. PICK h \in InclusionHeights(i) : ~ chain[h].valid /\ RetireFailed(i, PointAt(h))
    BY <1>4 DEF RowFailed
  <2>2. status' = [status EXCEPT ![i] = "failed"] /\ block' = [block EXCEPT ![i] = PointAt(h)]
    BY <2>1 DEF RetireFailed
  <2>3. RowsTell'
    BY <1>2, <2>1, <2>2
  <2> QED BY <1>1, <2>3
<1>5. CASE RowRolledBack(i) \/ RowExpired(i)
  <2>1. Settled' \subseteq Settled /\ block' = block /\ \A j \in Settled' : status'[j] = status[j]
    BY <1>0, <1>5 DEF RowRolledBack, RowExpired, RecordRollback, RetireExpired, Settled
  <2> QED BY <1>0, <2>1, BystanderTells
<1>6. CASE RowMissing(i) /\ status[i] \notin Terminal
  <2>1. Settled' \subseteq Settled /\ block' = block /\ \A j \in Settled' : status'[j] = status[j]
    BY <1>0, <1>6 DEF RowMissing, MarkTransaction, Settled, journalVars
  <2> QED BY <1>0, <2>1, BystanderTells
<1>7. CASE RowWaits(i) \/ RowStands(i)
  <2>1. Settled' \subseteq Settled /\ block' = block /\ \A j \in Settled' : status'[j] = status[j]
    BY <1>7 DEF RowWaits, RowStands, Settled, journalVars
  <2> QED BY <1>0, <2>1, BystanderTells
<1> QED BY <1>3, <1>4, <1>5, <1>6, <1>7 DEF ReconcileRow

\* The settlement writes what the row tells.
LEMMA SettleTells == ASSUME IInv, Books, NEW i \in Settled, SettleRow(i) PROVE Books'
<1> USE DEF Books
<1>1. /\ UNCHANGED <<chain, forks, status, block>> /\ Settled' = Settled /\ i \in Intents
      /\ outcome' = [outcome EXCEPT ![i] = [hash |-> block[i].hash, net |-> Result(i)]]
      /\ outcome \in [Intents -> [hash : Int, net : Int]]
  BY DEF SettleRow, chainVars, journalVars, Settled, IInv, TypeOK
<1>2. OnceOnChain' /\ RowsTell'
  BY <1>1 DEF OnceOnChain, RowsTell, Canonical, HashAt, Height
<1>3. /\ block[i].height \in Heights /\ block[i].hash \in 0..forks /\ forks \in Nat
      /\ block[i].hash = forks => Canonical(i)
  BY DEF IInv, SettledOnBlocks, TypeOK, ChainTypeOK
<1>4. block[i].hash = forks => OnChain(i)
  <2>1. Canonical(i) => block[i].height \in 1..Height
    BY <1>3 DEF Canonical, HashAt
  <2> QED BY <1>3, <2>1 DEF RowsTell, OnChain, InclusionHeights
<1>5. ASSUME NEW h \in 1..Height, chain[h].tx = i, chain[h].hash = block[i].hash
      PROVE  Result(i) = IF chain[h].valid THEN Gain[i] ELSE - Risk[i]
  <2>1. chain[h].valid = (status[i] = "confirmed")
    BY <1>5 DEF RowsTell
  <2>2. CASE status[i] = "confirmed"
    BY <2>1, <2>2 DEF Result
  <2>3. CASE status[i] # "confirmed"
    BY <2>1, <2>3 DEF Result
  <2> QED BY <2>2, <2>3
<1>6. OutcomesTell'
  <2> SUFFICES ASSUME NEW j \in Intents
               PROVE  /\ outcome'[j].hash \in -1..forks /\ (outcome'[j].hash = forks => OnChain(j))
                      /\ \A h \in 1..Height : chain[h].tx = j /\ chain[h].hash = outcome'[j].hash =>
                           outcome'[j].net = IF chain[h].valid THEN Gain[j] ELSE - Risk[j]
    BY <1>1 DEF OutcomesTell, OnChain, InclusionHeights, Height
  <2>1. CASE j = i
    <3>1. outcome'[j].hash = block[i].hash /\ outcome'[j].net = Result(i)
      BY <1>1, <2>1
    <3> QED BY <1>3, <1>4, <1>5, <2>1, <3>1
  <2>2. CASE j # i
    <3>1. outcome'[j] = outcome[j]
      BY <1>1, <2>2
    <3> QED BY <3>1 DEF OutcomesTell
  <2> QED BY <2>1, <2>2
<1> QED BY <1>2, <1>6

\* Every step keeps what rows and outcomes tell of the chain.
LEMMA BooksStep == IInv /\ Books /\ [Next]_vars => Books'
<1> SUFFICES ASSUME IInv, Books, [Next]_vars PROVE Books'
  OBVIOUS
<1>1. CASE Environment
  BY <1>1, EnvironmentTells
<1>2. CASE \E i \in Intents : ReconcileRow(i)
  BY <1>2, RowTells
<1>3. CASE \E i \in Intents : SettleRow(i)
  BY <1>3, SettleTells DEF IInv, Control, SettleRow
<1>4. CASE UNCHANGED <<chainVars, journalVars, outcome>>
  <2>1. Settled' = Settled
    BY <1>4 DEF Settled, journalVars
  <2> QED BY <1>4, <2>1, BystanderTells DEF chainVars, journalVars
<1>5. CASE Operator
  <2>1. UNCHANGED <<chainVars, outcome>> /\ UNCHANGED <<status, block>>
    BY <1>5 DEF Operator, StartRun, RequestStop, AcknowledgeIncident
  <2>2. Settled' = Settled
    BY <2>1 DEF Settled
  <2> QED BY <2>1, <2>2, BystanderTells DEF chainVars
<1>6. CASE Prepare \/ Sign \/ (\E i \in Intents : Recover(i)) \/ (\E d \in BOOLEAN : Launch(d))
  <2>1. status \in [Intents -> Statuses] /\ cur \in Intents \cup {Nobody}
    BY DEF IInv, TypeOK, JournalTypeOK
  <2>2. UNCHANGED <<chain, forks, block, outcome>>
    BY <1>6 DEF Prepare, PrepareCandidate, Sign, AttachSignature, Recover, AbandonUnsigned, Launch,
       chainVars, journalVars
  <2>3. \A j \in Intents : status'[j] # status[j] =>
          /\ status[j] \in {"absent", "prepared"}
          /\ status'[j] \in {"prepared", "aborted", "submitted", "unknown"}
    BY <1>6, <2>1 DEF Prepare, PrepareCandidate, Sign, AttachSignature, Recover, AbandonUnsigned, Launch,
       Claimable, journalVars
  <2>4. Settled' = Settled /\ \A j \in Settled' : status'[j] = status[j]
    BY <2>3 DEF Settled
  <2> QED BY <2>2, <2>4, BystanderTells
<1> QED BY <1>1, <1>2, <1>3, <1>4, <1>5, <1>6 DEF Next, Engine, Interrupt, Rest, Tick, ReadBlocks, EndPass,
  EndSettlement, Resume, Choose, Proceed, Submit, vars, tickVars

\* Nothing is told at the start.
LEMMA BooksFirst == Init => Books
<1> SUFFICES ASSUME Init PROVE Books
  OBVIOUS
<1>1. Height = 1 /\ forks = 0 /\ Settled = {} /\ chain[1].tx = NoTx
  BY DEF Init, ChainInit, JournalInit, Height, Settled
<1>2. \A i \in Intents : NoTx # i /\ outcome[i].hash = -1
  BY ChainAssumption DEF Init, NoOutcome, Txs
<1> QED BY <1>1, <1>2 DEF Books, OnceOnChain, RowsTell, OutcomesTell

\* A result that a roll-back invalidated leaves the books: whenever the accounts
\* are complete, what is counted for a settled row that stands is what its block
\* did to the wallet.
THEOREM BooksSound == Spec => []BooksFollowBlocks
<1>1. IInv /\ Books => BooksFollowBlocks
  <2> SUFFICES ASSUME IInv, Books, Accountable, NEW i \in Settled, Canonical(i)
               PROVE  outcome[i].net = IF chain[block[i].height].valid THEN Gain[i] ELSE - Risk[i]
    BY DEF BooksFollowBlocks
  <2>1. /\ block[i].height \in Heights /\ block[i].hash \in 0..forks /\ forks \in Nat
        /\ outcome[i].hash = block[i].hash
    BY DEF IInv, SettledOnBlocks, TypeOK, ChainTypeOK, Accountable, Verified
  <2>2. block[i].height \in 1..Height /\ chain[block[i].height].hash = block[i].hash
    BY <2>1 DEF Canonical, HashAt
  <2>3. chain[block[i].height].tx = i /\ i \in Intents
    BY DEF Books, RowsTell, Settled
  <2> QED BY <2>1, <2>2, <2>3 DEF Books, OutcomesTell
<1> QED BY <1>1, BooksFirst, BooksStep, Invariant, PTL DEF Spec
----------------------------------------------------------------------------
(* The wallet itself.                                                      *)

\* Rows that may still come to something, and those whose end rests on a block.
Open == {i \in Intents : status[i] \notin Closed \cup {"absent"}}
Steady == {i \in Intents : status[i] \in Terminal}

\* Slots grow along the chain.
SlotsGrow == \A k, l \in 1..Height : k < l => chain[k].slot < chain[l].slot

\* Only what was sent gets on the chain, and what was sent has a row that says so.
Sent ==
  \A i \in Intents : /\ OnChain(i) => i \in wire
                     /\ i \in wire => status[i] \notin {"absent", "prepared", "aborted"}

\* A pass visits rows of candidates that were not given up.
Visits == pc = "reconcile" => \A i \in todo : status[i] \notin {"absent", "aborted"}

\* As long as the chain is calm it is short of its highest tip by less than a
\* confirmation.
Highest == Height <= top /\ (calm => top - Height < Confirmations)

\* The block under an end is deep enough to stay, and the chain cannot take the
\* candidate of an expired row any more.
EndsStand ==
  \A i \in Steady :
    /\ BlockUnder(i).height \in 1..Height
    /\ BlockUnder(i).height + Confirmations <= top + 1
    /\ HashAt(BlockUnder(i).height) = BlockUnder(i).hash
    /\ i \notin Settled => ~ OnChain(i) /\ Expires[i] <= chain[BlockUnder(i).height].slot

\* The one read of the blocks found those of all rows to visit.
ReadStands ==
  canon # Unread => \A i \in todo : i \in Steady /\ canon[BlockUnder(i).height] = BlockUnder(i).hash

\* At most one candidate is open, and its block lies above all the settled ones.
OneOpen == \A i, j \in Open : i = j
OpenIsLast == \A i \in Open : \A k \in InclusionHeights(i) : \A j \in Settled : block[j].height < k

\* What the settled rows alone did to the wallet.
Fixed == [h \in Heights |-> IF h <= Height /\ chain[h].tx \in Settled THEN Effect(h) ELSE 0]

\* They leave the wallet within its limit, and room for the loss of a candidate
\* that was sent and has not ended.
Bounded ==
  \A h \in 0..MaxHeight :
    /\ Running(Fixed)[h] - Running(Fixed)[MaxHeight] <= Limit
    /\ \A i \in Open \cap wire : Running(Fixed)[h] - Running(Fixed)[MaxHeight] + Risk[i] <= Limit

Quiet == OneOpen /\ EndsStand /\ ReadStands /\ OpenIsLast /\ Bounded
Ledger == SlotsGrow /\ Sent /\ Visits /\ Highest /\ (calm => Quiet)

\* The amounts are numbers.
LEMMA AmountsTyped ==
  ASSUME TypeOK
  PROVE  Fixed \in [Heights -> Int] /\ Landed \in [Heights -> Int] /\ \A h : chain[h].tx \in Intents => Effect(h) \in Int
<1>1. \A i \in Intents : Gain[i] \in Int /\ - Risk[i] \in Int
  BY ArbitrageAssumption
<1>2. \A h : chain[h].tx \in Intents => Effect(h) \in Int
  BY <1>1 DEF Effect
<1>3. Settled \subseteq Intents
  BY DEF Settled
<1> QED BY <1>2, <1>3 DEF Fixed, Landed

\* While the chain is calm a settled row lies where its row says, nowhere else;
\* what else lies on the chain is the open candidate's.
LEMMA SettledLie ==
  ASSUME IInv, Books, Ledger, calm
  PROVE  /\ \A i \in Settled : /\ block[i].height \in 1..Height /\ chain[block[i].height].tx = i
                               /\ block[i].height + Confirmations <= top + 1
                               /\ chain[block[i].height].hash = block[i].hash
         /\ \A i \in Settled : \A h \in 1..Height : chain[h].tx = i => h = block[i].height
         /\ \A h \in 1..Height : chain[h].tx \in Intents \ Settled => chain[h].tx \in Open \cap wire
<1> USE DEF Ledger, Quiet
<1>1. ASSUME NEW i \in Settled
      PROVE  /\ block[i].height \in 1..Height /\ chain[block[i].height].tx = i
             /\ block[i].height + Confirmations <= top + 1
             /\ chain[block[i].height].hash = block[i].hash
  <2>1. i \in Steady /\ BlockUnder(i) = block[i]
    BY DEF Settled, Steady, BlockUnder
  <2>2. block[i].height \in 1..Height /\ Canonical(i) /\ block[i].height + Confirmations <= top + 1
    BY <2>1 DEF EndsStand, Canonical
  <2> QED BY <2>2 DEF Books, RowsTell, Canonical, HashAt
<1>2. \A i \in Settled : i \in Intents /\ i # NoTx
  BY ChainAssumption DEF Settled, Txs
<1>3. ASSUME NEW i \in Settled, NEW h \in 1..Height, chain[h].tx = i PROVE h = block[i].height
  BY <1>1, <1>2, <1>3 DEF Books, OnceOnChain
<1>4. ASSUME NEW h \in 1..Height, chain[h].tx \in Intents \ Settled PROVE chain[h].tx \in Open \cap wire
  <2>1. OnChain(chain[h].tx)
    BY DEF OnChain, InclusionHeights
  <2>2. chain[h].tx \in wire /\ status[chain[h].tx] \notin {"absent", "aborted"}
    BY <1>4, <2>1 DEF Sent
  <2>3. chain[h].tx \notin Steady
    BY <1>4, <2>1 DEF EndsStand
  <2> QED BY <1>4, <2>2, <2>3 DEF Open, Steady
<1> QED BY <1>1, <1>3, <1>4

\* Nothing that can land, lands below its worst case: whatever the open
\* candidate did on the chain, the wallet is within its limit.
LEMMA LandedBounded ==
  ASSUME IInv, Books, Ledger, calm
  PROVE  \A h \in 0..MaxHeight : Running(Landed)[h] - Running(Landed)[MaxHeight] <= Limit
<1> USE ChainAssumption
<1>0. /\ Fixed \in [Heights -> Int] /\ Landed \in [Heights -> Int] /\ Height \in Heights
      /\ \A h : chain[h].tx \in Intents => Effect(h) \in Int
  BY AmountsTyped DEF IInv, TypeOK, ChainTypeOK, Height
<1> DEFINE S == Running(Fixed) C == Running(Landed)
<1>1. /\ S \in [0..MaxHeight -> Int] /\ C \in [0..MaxHeight -> Int]
      /\ \A h \in Heights : S[h] = S[h - 1] + Fixed[h] /\ C[h] = C[h - 1] + Landed[h]
  BY <1>0, RunningIs
<1>2. \A h \in 0..MaxHeight : S[h] - S[MaxHeight] <= Limit
  BY DEF Ledger, Quiet, Bounded
<1>3. Settled \subseteq Intents
  BY DEF Settled
<1>4. CASE \A h \in 1..Height : chain[h].tx \notin Intents \ Settled
  <2>1. Fixed = Landed
    BY <1>0, <1>3, <1>4 DEF Fixed, Landed, Heights
  <2> QED BY <1>2, <2>1
<1>5. CASE \E k \in 1..Height : chain[k].tx \in Intents \ Settled
  <2>1. PICK k \in 1..Height : chain[k].tx \in Intents \ Settled
    BY <1>5
  <2> DEFINE i == chain[k].tx
  <2>2. i \in Open \cap wire /\ i \in Intents /\ k \in Heights /\ k \in InclusionHeights(i)
    BY <1>0, <2>1, SettledLie DEF InclusionHeights, Heights
  <2>3. \A h \in 1..Height : chain[h].tx \in Intents \ Settled => h = k
    <3> SUFFICES ASSUME NEW h \in 1..Height, chain[h].tx \in Intents \ Settled PROVE h = k
      OBVIOUS
    <3>1. chain[h].tx \in Open
      BY SettledLie
    <3>2. chain[h].tx = i
      BY <2>2, <3>1 DEF Ledger, Quiet, OneOpen
    <3> QED BY <2>1, <2>2, <3>2 DEF Books, OnceOnChain, Txs
  <2>4. \A h \in 1..Height : chain[h].tx \in Settled => h < k
    <3> SUFFICES ASSUME NEW h \in 1..Height, chain[h].tx \in Settled PROVE h < k
      OBVIOUS
    <3>1. h = block[chain[h].tx].height
      BY SettledLie
    <3> QED BY <2>2, <3>1 DEF Ledger, Quiet, OpenIsLast
  <2>5. \A h \in Heights : h < k => Fixed[h] = Landed[h]
    BY <1>0, <1>3, <2>3 DEF Fixed, Landed, Heights
  <2>6. \A h \in Heights : h > k - 1 => Fixed[h] = 0
    BY <1>0, <2>2, <2>4 DEF Fixed, Heights
  <2>7. \A h \in Heights : h > k => Landed[h] = 0
    BY <1>0, <2>2, <2>3, <2>4 DEF Landed, Heights
  <2>8. Landed[k] = Effect(k) /\ Effect(k) \in Int /\ Effect(k) >= - Risk[i] /\ Risk[i] \in Nat
    <3>1. Gain[i] \in Int /\ Risk[i] \in Nat /\ Gain[i] >= - Risk[i]
      BY <2>2, ArbitrageAssumption
    <3>2. Effect(k) = Gain[i] \/ Effect(k) = - Risk[i]
      BY DEF Effect
    <3> QED BY <2>1, <2>2, <3>1, <3>2 DEF Landed
  <2>9. k - 1 \in 0..MaxHeight /\ k \in 0..MaxHeight
    BY <2>2 DEF Heights
  <2> HIDE DEF i
  <2>10. \A h \in 0..(k - 1) : C[h] = S[h]
    <3>1. \A h \in Heights : h <= k - 1 => Landed[h] = Fixed[h]
      BY <2>2, <2>5 DEF Heights
    <3> HIDE DEF C, S
    <3> QED BY <1>0, <2>9, <3>1, RunningAgrees DEF C, S
  <2>11. \A h \in (k - 1)..MaxHeight : S[h] = S[k - 1]
    BY <1>0, <2>6, <2>9, RunningRests
  <2>12. \A h \in k..MaxHeight : C[h] = C[k]
    BY <1>0, <2>7, <2>9, RunningRests
  <2> HIDE DEF C, S
  <2>13. C[k] = S[k - 1] + Effect(k) /\ S[MaxHeight] = S[k - 1] /\ C[MaxHeight] = C[k]
    BY <1>1, <2>2, <2>8, <2>9, <2>10, <2>11, <2>12
  <2>14. \A h \in 0..MaxHeight : S[h] - S[MaxHeight] + Risk[i] <= Limit
    BY <2>2 DEF S, Ledger, Quiet, Bounded
  <2>15. \A h \in 0..MaxHeight : S[h] \in Int /\ C[h] \in Int
    BY <1>1
  <2> SUFFICES ASSUME NEW h \in 0..MaxHeight PROVE C[h] - C[MaxHeight] <= Limit
    BY DEF C
  <2>16. CASE h < k
    <3>1. C[h] = S[h] /\ h \in 0..(k - 1)
      BY <2>9, <2>10, <2>16
    <3>2. S[h] - S[MaxHeight] + Risk[i] <= Limit /\ S[h] \in Int /\ S[MaxHeight] \in Int
      BY <2>14, <2>15
    <3> QED BY <2>8, <2>13, <2>15, <3>1, <3>2, ArbitrageAssumption
  <2>17. CASE ~ (h < k)
    <3>1. C[h] = C[MaxHeight] /\ C[h] \in Int
      BY <2>9, <2>12, <2>15, <2>17
    <3> QED BY <3>1, ArbitrageAssumption
  <2> QED BY <2>16, <2>17, <2>9
<1> QED BY <1>4, <1>5

\* While the chain is calm and the accounts complete, the books' sums are those
\* of the chain's settled blocks.
LEMMA BooksAreFixed ==
  ASSUME IInv, Books, Ledger, calm, Accountable
  PROVE  Booked = Fixed
<1> USE ChainAssumption
<1>1. Fixed \in [Heights -> Int] /\ Height \in Heights /\ Settled \subseteq Intents
  BY AmountsTyped DEF IInv, TypeOK, ChainTypeOK, Height, Settled
<1> DEFINE net == [i \in Intents |-> outcome[i].net]
<1>2. \A i \in Settled : net[i] = Effect(block[i].height) /\ net[i] \in Int
  <2> TAKE i \in Settled
  <2>1. outcome[i].hash = block[i].hash /\ outcome[i].net \in Int
    BY <1>1 DEF Accountable, Verified, IInv, TypeOK
  <2>2. /\ block[i].height \in 1..Height /\ chain[block[i].height].tx = i
        /\ chain[block[i].height].hash = block[i].hash
    BY SettledLie
  <2>3. outcome[i].net = IF chain[block[i].height].valid THEN Gain[i] ELSE - Risk[i]
    BY <1>1, <2>1, <2>2 DEF Books, OutcomesTell
  <2> QED BY <1>1, <2>1, <2>2, <2>3 DEF Effect
<1>3. ASSUME NEW h \in Heights
      PROVE  Total(net, {i \in Settled : block[i].height = h}) = Fixed[h]
  <2>1. CASE h <= Height /\ chain[h].tx \in Settled
    <3>1. {i \in Settled : block[i].height = h} = {chain[h].tx} /\ block[chain[h].tx].height = h
      BY <2>1, SettledLie DEF Heights
    <3>2. net[chain[h].tx] = Effect(h) /\ net[chain[h].tx] \in Int
      BY <1>2, <2>1, <3>1
    <3> HIDE DEF net
    <3>3. Total(net, {chain[h].tx}) = net[chain[h].tx]
      BY <3>2, TotalOne
    <3> QED BY <2>1, <3>1, <3>2, <3>3 DEF Fixed
  <2>2. CASE ~ (h <= Height /\ chain[h].tx \in Settled)
    <3>1. {i \in Settled : block[i].height = h} = {}
      BY <2>2, SettledLie
    <3>2. Fixed[h] = 0
      BY <2>2 DEF Fixed
    <3> HIDE DEF net
    <3> QED BY <3>1, <3>2, TotalEmpty
  <2> QED BY <2>1, <2>2
<1>4. Booked = [h \in Heights |-> Total(net, {i \in Settled : block[i].height = h})]
  BY DEF Booked
<1> HIDE DEF net
<1>5. Booked = [h \in Heights |-> Fixed[h]]
  BY <1>3, <1>4
<1> QED BY <1>1, <1>5

\* What the gate lets through: with nothing else open, the candidate's worst
\* case on top of everything that is settled.
LEMMA GateBounds ==
  ASSUME IInv, Books, Ledger, calm, NEW i \in Open, CheckCandidate(i, i)
  PROVE  \A h \in 0..MaxHeight : Running(Fixed)[h] - Running(Fixed)[MaxHeight] + Risk[i] <= Limit
<1> USE ChainAssumption
<1>1. Booked = Fixed
  BY BooksAreFixed DEF CheckCandidate
<1>2. Fixed \in [Heights -> Int]
  BY AmountsTyped DEF IInv
<1>3. Running(Fixed) \in [0..MaxHeight -> Int]
  BY <1>2, RunningIs
<1>4. Reserved(i) = 0
  <2>1. (Intents \ (Settled \cup Dead)) \ {i} = {}
    BY DEF Ledger, Quiet, OneOpen, Open, Settled, Dead
  <2> QED BY <2>1, TotalEmpty DEF Reserved
<1> DEFINE S == Running(Fixed)
<1>5. Net = S[MaxHeight] /\ Peak = Max({S[h] : h \in 0..MaxHeight})
  BY <1>1 DEF Net, Peak, NetAt
<1>6. Peak \in Int /\ \A h \in 0..MaxHeight : S[h] <= Peak
  <2> HIDE DEF S
  <2>1. S \in [0..MaxHeight -> Int]
    BY <1>3 DEF S
  <2> QED BY <1>5, <2>1, PeakExists
<1>7. Risk[i] <= Limit - (Peak - Net) - 0
  BY <1>4 DEF CheckCandidate, Headroom
<1>8. Risk[i] \in Nat /\ Limit \in Nat /\ Net \in Int
  <2>1. MaxHeight \in 0..MaxHeight
    OBVIOUS
  <2> QED BY <1>3, <1>5, <2>1, ArbitrageAssumption DEF Open
<1> SUFFICES ASSUME NEW h \in 0..MaxHeight PROVE S[h] - S[MaxHeight] + Risk[i] <= Limit
  OBVIOUS
<1>9. S[h] \in Int /\ S[h] <= Peak
  BY <1>3, <1>6
<1> HIDE DEF S
<1> QED BY <1>5, <1>6, <1>7, <1>8, <1>9

----------------------------------------------------------------------------
(* Every step keeps the wallet's ledger.                                   *)

\* The higher of two.
LEMMA MaxIs ==
  ASSUME NEW x \in Int, NEW y \in Int
  PROVE  Max({x, y}) = IF x >= y THEN x ELSE y
<1> DEFINE m == IF x >= y THEN x ELSE y
<1>1. m \in {x, y} /\ \A n \in {x, y} : m >= n
  OBVIOUS
<1>2. Max({x, y}) \in {x, y} /\ \A n \in {x, y} : Max({x, y}) >= n
  BY <1>1 DEF Max
<1> QED BY <1>2

\* Slots keep growing, and only what was sent gets on the chain.
LEMMA EnvironmentOrders ==
  ASSUME IInv, Ledger, Environment
  PROVE  SlotsGrow' /\ Sent' /\ Visits' /\ Highest' /\ top' \in Nat /\ top' >= top /\ (calm' => calm)
<1> USE ChainAssumption DEF Ledger
<1>1. /\ ChainTypeOK /\ ChainNext /\ ChainTypeOK' /\ wire' = wire
      /\ UNCHANGED <<status, pc, todo>> /\ top \in Nat /\ calm \in BOOLEAN
  BY ChainKeeps DEF IInv, TypeOK, Environment, journalVars, tickVars, Heights
<1>2. /\ \A h \in 1..Height : h <= Height' => chain'[h] = chain[h]
      /\ Height' \in Nat /\ Height \in Nat /\ Height \in 1..Height
      /\ \/ /\ forks' = forks /\ Height' = Height + 1 /\ chain'[Height'].slot > Slot
            /\ chain'[Height'].tx = NoTx \/ Includable(chain'[Height'].tx, chain'[Height'].slot)
         \/ forks' = forks + 1 /\ Height' < Height
  BY <1>1, BlocksMove DEF ChainTypeOK, Height, Heights
<1>3. \A h \in 1..Height' : h \in 1..Height \/ (h = Height' /\ Height' = Height + 1)
  BY <1>2
<1>4. \A h \in 1..Height : chain[h].slot \in Nat
  BY <1>1, BlockTyped
<1>5. \A h \in 1..Height' : chain'[h].slot \in Nat
  <2>1. ASSUME NEW h \in 1..Height' PROVE chain'[h] \in Blocks
    BY <1>1 DEF ChainTypeOK, Height
  <2> QED BY <2>1 DEF Blocks
<1>6. SlotsGrow'
  <2> SUFFICES ASSUME NEW k \in 1..Height', NEW l \in 1..Height', k < l
               PROVE  chain'[k].slot < chain'[l].slot
    BY DEF SlotsGrow
  <2>1. k \in 1..Height /\ chain'[k] = chain[k]
    BY <1>2
  <2>2. CASE l \in 1..Height
    BY <1>2, <2>1, <2>2 DEF SlotsGrow
  <2>3. CASE l = Height' /\ Height' = Height + 1
    <3>1. chain[k].slot <= Slot
      BY <1>2, <1>4, <2>1 DEF SlotsGrow, Slot
    <3>2. Slot \in Nat
      BY <1>2, <1>4 DEF Slot
    <3>3. chain'[l].slot > Slot /\ chain'[l].slot \in Nat
      BY <1>2, <1>5, <2>3
    <3> QED BY <1>4, <2>1, <3>1, <3>2, <3>3
  <2> QED BY <1>3, <2>2, <2>3
<1>7. Sent'
  <2> SUFFICES ASSUME NEW i \in Intents, NEW h \in 1..Height', chain'[h].tx = i PROVE i \in wire
    BY <1>1 DEF Sent, OnChain, InclusionHeights
  <2>1. CASE h \in 1..Height
    BY <1>2, <2>1 DEF Sent, OnChain, InclusionHeights
  <2>2. CASE h = Height' /\ Height' = Height + 1
    BY <1>2, <2>2, CandidateAssumption DEF Includable, Txs
  <2> QED BY <1>3, <2>1, <2>2
<1>8. Visits'
  BY <1>1 DEF Visits
<1>9. top' = Max({top, Height'}) /\ (calm' <=> calm /\ top - Height' < Confirmations)
  BY DEF Environment, Height
<1>10. top' = IF top >= Height' THEN top ELSE Height'
  BY <1>1, <1>2, <1>9, MaxIs
<1>11. top' \in Nat /\ top' >= top /\ Height' <= top'
  BY <1>1, <1>2, <1>10
<1>12. calm' => top' - Height' < Confirmations
  <2>1. calm' => top - Height' < Confirmations
    BY <1>9
  <2>2. Confirmations \in Nat /\ Confirmations > 0
    BY ArbitrageAssumption
  <2>3. top \in Nat /\ Height' \in Nat
    BY <1>1, <1>2
  <2>4. \A t, n, m \in Nat :
          t - n < Confirmations /\ m = (IF t >= n THEN t ELSE n) => m - n < Confirmations
    BY <2>2
  <2> QED BY <1>10, <1>11, <2>1, <2>3, <2>4
<1>13. Highest'
  BY <1>11, <1>12 DEF Highest
<1>14. calm' => calm
  BY <1>9
<1> QED BY <1>6, <1>7, <1>8, <1>11, <1>13, <1>14

\* The blocks under the ends stay where they are, as long as the chain is calm.
LEMMA EnvironmentLedger == ASSUME IInv, Books, Ledger, Environment PROVE Ledger'
<1> USE ChainAssumption
<1>1. /\ ChainTypeOK /\ ChainNext /\ ChainTypeOK' /\ wire' = wire /\ TypeOK /\ TypeOK'
      /\ UNCHANGED <<status, block, anchor, todo, canon>> /\ top \in Nat
      /\ Settled' = Settled /\ Steady' = Steady /\ Open' = Open
  <2>1. TypeOK'
    BY EnvironmentKeeps DEF IInv
  <2> QED BY <2>1, ChainKeeps DEF IInv, TypeOK, Environment, journalVars, tickVars, Settled, Steady, Open, Heights
<1>2. SlotsGrow' /\ Sent' /\ Visits' /\ Highest' /\ top' \in Nat /\ top' >= top /\ (calm' => calm)
  BY EnvironmentOrders
<1>3. /\ \A h \in 1..Height : h <= Height' => chain'[h] = chain[h]
      /\ Height' \in Nat /\ Height \in Nat /\ Height \in 1..Height
      /\ Height' \in Heights /\ Height \in Heights
      /\ \/ /\ forks' = forks /\ Height' = Height + 1 /\ chain'[Height'].slot > Slot
            /\ chain'[Height'].tx = NoTx \/ Includable(chain'[Height'].tx, chain'[Height'].slot)
         \/ forks' = forks + 1 /\ Height' < Height
  BY <1>1, BlocksMove DEF ChainTypeOK, Height, Heights
<1> SUFFICES ASSUME calm' PROVE Quiet'
  BY <1>2 DEF Ledger
<1>4. calm /\ Quiet /\ top - Height' < Confirmations /\ Confirmations \in Nat
  BY <1>2, ArbitrageAssumption DEF Ledger, Environment, Height
<1>5. \A i \in Steady : /\ BlockUnder(i).height \in 1..Height /\ BlockUnder(i).height \in 1..Height'
                        /\ chain'[BlockUnder(i).height] = chain[BlockUnder(i).height]
                        /\ BlockUnder(i)' = BlockUnder(i)
  <2> TAKE i \in Steady
  <2>1. BlockUnder(i).height \in 1..Height /\ BlockUnder(i).height + Confirmations <= top + 1
    BY <1>4 DEF Quiet, EndsStand
  <2>2. BlockUnder(i).height <= Height'
    BY <1>1, <1>3, <1>4, <2>1
  <2> QED BY <1>1, <1>3, <2>1, <2>2 DEF BlockUnder
<1>6. \A i \in Settled : i \in Steady /\ BlockUnder(i) = block[i] /\ OnChain(i)
  <2>1. \A i \in Settled : i \in Steady /\ BlockUnder(i) = block[i]
    BY DEF Settled, Steady, BlockUnder
  <2> QED BY <1>4, <2>1, SettledLie DEF OnChain, InclusionHeights
<1>7. \A h \in 1..Height' :
        \/ h \in 1..Height /\ chain'[h] = chain[h]
        \/ /\ h = Height' /\ Height' = Height + 1 /\ chain'[h].slot > Slot
           /\ chain'[h].tx = NoTx \/ Includable(chain'[h].tx, chain'[h].slot)
  BY <1>3
<1>8. EndsStand'
  <2> SUFFICES ASSUME NEW i \in Steady
               PROVE  LET b == BlockUnder(i) IN
                      /\ b.height \in 1..Height' /\ b.height + Confirmations <= top' + 1
                      /\ HashAt(b.height)' = b.hash
                      /\ i \notin Settled => ~ OnChain(i)' /\ Expires[i] <= chain'[b.height].slot
    BY <1>1, <1>5 DEF EndsStand
  <2> DEFINE b == BlockUnder(i)
  <2>1. /\ b.height \in 1..Height /\ b.height + Confirmations <= top + 1 /\ HashAt(b.height) = b.hash
        /\ i \notin Settled => ~ OnChain(i) /\ Expires[i] <= chain[b.height].slot
    BY <1>4 DEF Quiet, EndsStand
  <2>2. b.height \in 1..Height' /\ chain'[b.height] = chain[b.height]
    BY <1>5
  <2>3. HashAt(b.height)' = b.hash
    BY <1>5, <2>1, <2>2 DEF HashAt
  <2>4. ASSUME i \notin Settled PROVE ~ OnChain(i)'
    <3> SUFFICES ASSUME NEW h \in 1..Height', chain'[h].tx = i PROVE FALSE
      BY DEF OnChain, InclusionHeights
    <3>1. ~ OnChain(i) /\ Expires[i] <= chain[b.height].slot
      BY <2>1, <2>4
    <3>2. h \notin 1..Height \/ chain'[h] # chain[h]
      BY <3>1 DEF OnChain, InclusionHeights
    <3>3. i \in Intents /\ i # NoTx
      BY DEF Steady, Txs
    <3>4. h = Height + 1 /\ chain'[h].slot > Slot /\ chain'[h].slot < Expires[i] /\ h \in 1..Height'
      BY <1>7, <3>2, <3>3 DEF Includable
    <3>5. chain[b.height].slot <= Slot /\ Slot \in Nat /\ chain[b.height].slot \in Nat
      <4>1. \A k \in 1..Height : chain[k].slot \in Nat
        BY <1>1, BlockTyped
      <4> QED BY <1>3, <2>1, <4>1 DEF Ledger, SlotsGrow, Slot
    <3>6. chain'[h] \in Blocks /\ Expires[i] \in Nat
      BY <1>1, <3>3, CandidateAssumption DEF ChainTypeOK, Height, Txs
    <3> QED BY <3>1, <3>4, <3>5, <3>6 DEF Blocks
  <2>5. b.height + Confirmations <= top' + 1
    BY <1>1, <1>2, <1>4, <2>1
  <2>6. i \notin Settled => Expires[i] <= chain'[b.height].slot
    BY <2>1, <2>2
  <2> HIDE DEF b
  <2> QED BY <2>2, <2>3, <2>4, <2>5, <2>6 DEF b
<1>9. ReadStands'
  BY <1>1, <1>4, <1>5 DEF Quiet, ReadStands
<1>10. OneOpen'
  BY <1>1, <1>4 DEF Quiet, OneOpen
<1>11. OpenIsLast'
  <2> SUFFICES ASSUME NEW i \in Open, NEW k \in 1..Height', chain'[k].tx = i, NEW j \in Settled
               PROVE  block[j].height < k
    BY <1>1 DEF OpenIsLast, InclusionHeights
  <2>1. CASE k \in 1..Height /\ chain'[k] = chain[k]
    BY <1>4, <2>1 DEF Quiet, OpenIsLast, InclusionHeights
  <2>2. CASE k = Height + 1
    BY <1>3, <1>5, <1>6, <2>2
  <2> QED BY <1>7, <2>1, <2>2
<1>12. Fixed' = Fixed
  <2>1. ASSUME NEW h \in Heights PROVE Fixed'[h] = Fixed[h]
    <3>1. CASE h \in 1..Height /\ h \in 1..Height'
      BY <1>1, <1>3, <3>1 DEF Fixed, Effect
    <3>2. CASE h \in 1..Height /\ h \notin 1..Height'
      <4>1. chain[h].tx \notin Settled
        BY <1>4, <1>5, <1>6, <3>2, SettledLie
      <4> QED BY <1>3, <3>2, <4>1 DEF Fixed
    <3>3. CASE h \notin 1..Height /\ h \in 1..Height'
      <4>1. chain'[h].tx = NoTx \/ ~ OnChain(chain'[h].tx)
        BY <1>7, <3>3 DEF Includable
      <4>2. chain'[h].tx \notin Settled
        BY <1>6, <4>1 DEF Settled, Txs
      <4> QED BY <1>1, <1>3, <3>3, <4>2 DEF Fixed
    <3>4. CASE h \notin 1..Height /\ h \notin 1..Height'
      BY <1>3, <3>4 DEF Fixed, Heights
    <3> QED BY <3>1, <3>2, <3>3, <3>4
  <2>2. Fixed \in [Heights -> Int] /\ Fixed' \in [Heights -> Int]
    <3>1. Fixed \in [Heights -> Int]
      BY <1>1, AmountsTyped
    <3>2. (\A i \in Settled : chain[1].tx = chain[1].tx) /\ DOMAIN Fixed' = Heights /\ Fixed' = [h \in Heights |-> Fixed'[h]]
      BY DEF Fixed
    <3> QED BY <2>1, <3>1, <3>2
  <2> QED BY <2>1, <2>2
<1>13. Bounded'
  BY <1>1, <1>4, <1>12 DEF Quiet, Bounded
<1> QED BY <1>8, <1>9, <1>10, <1>11, <1>13 DEF Quiet

\* Steps that change no row and no block: the tick only moves on.
LEMMA MovingOnLedger ==
  ASSUME Ledger, UNCHANGED <<chain, wire, status, block, anchor, top, calm>>,
         pc' = "reconcile" => \A i \in todo' : status[i] \notin {"absent", "aborted"},
         calm /\ canon' # Unread =>
           \A i \in todo' : i \in Steady /\ canon'[BlockUnder(i).height] = BlockUnder(i).hash
  PROVE  Ledger'
<1>1. Settled' = Settled /\ Steady' = Steady /\ Open' = Open /\ Height' = Height /\ Fixed' = Fixed
      /\ \A i : BlockUnder(i)' = BlockUnder(i) /\ OnChain(i)' = OnChain(i) /\ InclusionHeights(i)' = InclusionHeights(i)
      /\ \A h : HashAt(h)' = HashAt(h)
  BY DEF Settled, Steady, Open, Height, Fixed, Effect, BlockUnder, OnChain, InclusionHeights, HashAt
<1>2. SlotsGrow' /\ Sent' /\ Highest' /\ Visits'
  BY <1>1 DEF Ledger, SlotsGrow, Sent, Highest, Visits
<1>3. calm => Quiet'
  BY <1>1 DEF Ledger, Quiet, OneOpen, EndsStand, ReadStands, OpenIsLast, Bounded
<1> QED BY <1>2, <1>3 DEF Ledger

\* A row that is still open after its visit, with or without a block.
LEMMA RowStaysOpen ==
  ASSUME IInv, Ledger, NEW i \in Intents, i \in todo, pc = "reconcile",
         NEW s \in Statuses \ (Closed \cup {"absent", "prepared"}),
         calm => i \in Open,
         status' = [status EXCEPT ![i] = s] \/ UNCHANGED status,
         \A j \in Intents \ {i} : block'[j] = block[j],
         UNCHANGED <<chain, wire, anchor, top, calm, pc, canon>>, todo' \subseteq todo
  PROVE  Ledger'
<1> USE DEF Ledger
<1>1. status \in [Intents -> Statuses] /\ status[i] \notin {"absent", "aborted"} /\ calm \in BOOLEAN
  BY DEF Visits, IInv, TypeOK, JournalTypeOK
<1>2. \A j \in Intents : j # i => status'[j] = status[j]
  BY <1>1
<1>3. status'[i] \in {s, status[i]}
  BY <1>1
<1>4. /\ \A t : OnChain(t)' = OnChain(t) /\ InclusionHeights(t)' = InclusionHeights(t)
      /\ \A h : HashAt(h)' = HashAt(h) /\ Effect(h)' = Effect(h)
      /\ Height' = Height
  BY DEF OnChain, InclusionHeights, HashAt, Height, Effect
<1>5. SlotsGrow' /\ Sent' /\ Visits' /\ Highest'
  <2>1. Sent'
    BY <1>2, <1>3, <1>4 DEF Sent
  <2>2. Visits'
    <3>1. todo \subseteq Intents
      BY DEF IInv, TypeOK
    <3> QED BY <1>1, <1>2, <1>3, <3>1 DEF Visits
  <2>3. SlotsGrow' /\ Highest'
    BY <1>4 DEF SlotsGrow, Highest
  <2> QED BY <2>1, <2>2, <2>3
<1> SUFFICES ASSUME calm PROVE Quiet'
  BY <1>5
<1>6. Open' = Open /\ Settled' = Settled /\ Steady' = Steady
  BY <1>1, <1>2, <1>3 DEF Open, Settled, Steady
<1>7. \A j \in Steady : j # i /\ BlockUnder(j)' = BlockUnder(j)
  BY <1>2 DEF Open, Steady, BlockUnder
<1>8. \A j \in Settled : j \in Steady /\ block'[j] = block[j]
  BY <1>7 DEF Settled, Steady, Open
<1>9. Fixed' = Fixed
  BY <1>4, <1>6 DEF Fixed
<1>10. OneOpen' /\ OpenIsLast'
  BY <1>4, <1>6, <1>8 DEF Quiet, OneOpen, OpenIsLast
<1>11. EndsStand' /\ ReadStands'
  BY <1>4, <1>6, <1>7 DEF Quiet, EndsStand, ReadStands
<1>12. Bounded'
  BY <1>6, <1>9 DEF Quiet, Bounded
<1> QED BY <1>10, <1>11, <1>12 DEF Quiet

\* The open row ends, on a block deep enough: nothing is open any more, and
\* what the chain did to the wallet is what the settled rows did.
LEMMA RowEnds ==
  ASSUME IInv, Books, Ledger, NEW i \in Intents, i \in todo, pc = "reconcile", status[i] \notin Terminal,
         NEW s \in {"confirmed", "failed", "expired"}, status' = [status EXCEPT ![i] = s],
         NEW h \in 1..Height, h + Confirmations <= Height + 1,
         IF s = "expired"
         THEN /\ anchor' = [anchor EXCEPT ![i] = PointAt(h)] /\ block' = block
              /\ ~ OnChain(i) /\ Expires[i] <= chain[h].slot
         ELSE block' = [block EXCEPT ![i] = PointAt(h)] /\ anchor' = anchor,
         UNCHANGED <<chain, wire, top, calm, pc, canon>>, todo' \subseteq todo
  PROVE  Ledger'
<1> USE DEF Ledger
<1>1. /\ status \in [Intents -> Statuses] /\ status[i] \notin {"absent", "aborted"} /\ calm \in BOOLEAN
      /\ block \in [Intents -> Points] /\ anchor \in [Intents -> Points]
  BY DEF Visits, IInv, TypeOK, JournalTypeOK
<1>2. status'[i] = s /\ \A j \in Intents : j # i => status'[j] = status[j]
  BY <1>1
<1>3. /\ \A t : OnChain(t)' = OnChain(t) /\ InclusionHeights(t)' = InclusionHeights(t)
      /\ \A k : HashAt(k)' = HashAt(k) /\ Effect(k)' = Effect(k)
      /\ Height' = Height /\ Landed' = Landed
  BY DEF OnChain, InclusionHeights, HashAt, Height, Effect, Landed
<1>4. SlotsGrow' /\ Sent' /\ Visits' /\ Highest'
  BY <1>1, <1>2, <1>3 DEF SlotsGrow, Sent, Visits, Highest
<1> SUFFICES ASSUME calm PROVE Quiet'
  BY <1>4
<1>5. i \in Open /\ i \notin Steady
  BY <1>1 DEF Open, Steady
<1>6. Open' = {} /\ Open = {i}
  BY <1>2, <1>5 DEF Quiet, OneOpen, Open
<1>7. Steady' = Steady \cup {i}
  BY <1>2, <1>5 DEF Steady
<1>8. \A j \in Steady : j # i /\ BlockUnder(j)' = BlockUnder(j) /\ (j \in Settled' <=> j \in Settled)
  <2> TAKE j \in Steady
  <2>1. j # i /\ j \in Intents /\ status'[j] = status[j]
    BY <1>2, <1>5 DEF Steady
  <2>2. block'[j] = block[j] /\ anchor'[j] = anchor[j]
    BY <1>1, <2>1
  <2> QED BY <2>1, <2>2 DEF BlockUnder, Settled
<1>9. BlockUnder(i)' = PointAt(h)
  <2>1. CASE s = "expired"
    BY <1>1, <1>2, <2>1 DEF BlockUnder
  <2>2. CASE s # "expired"
    BY <1>1, <1>2, <2>2 DEF BlockUnder
  <2> QED BY <2>1, <2>2
<1>10. EndsStand'
  <2> SUFFICES ASSUME NEW j \in Steady'
               PROVE  LET b == BlockUnder(j)' IN
                      /\ b.height \in 1..Height /\ b.height + Confirmations <= top + 1
                      /\ HashAt(b.height) = b.hash
                      /\ j \notin Settled' => ~ OnChain(j) /\ Expires[j] <= chain[b.height].slot
    BY <1>3 DEF EndsStand
  <2>1. CASE j = i
    <3>1. BlockUnder(j)' = PointAt(h) /\ PointAt(h).height = h /\ PointAt(h).hash = chain[h].hash
      BY <1>9, <2>1 DEF PointAt
    <3>2. h + Confirmations <= top + 1
      <4>1. Height <= top
        BY DEF Highest
      <4>2. Height \in Nat /\ top \in Nat /\ Confirmations \in Nat
        <5>1. Height \in Heights /\ top \in Heights
          BY DEF IInv, TypeOK, ChainTypeOK, Height
        <5> QED BY <5>1, ArbitrageAssumption, ChainAssumption DEF Heights
      <4>3. h \in Nat /\ h + Confirmations <= Height + 1
        BY <4>2
      <4> QED BY <4>1, <4>2, <4>3
    <3>3. j \notin Settled' => s = "expired"
      BY <1>2, <2>1 DEF Settled
    <3> QED BY <2>1, <3>1, <3>2, <3>3 DEF HashAt
  <2>2. CASE j # i
    <3>1. j \in Steady
      BY <1>7, <2>2
    <3> QED BY <1>8, <3>1 DEF Quiet, EndsStand
  <2> QED BY <2>1, <2>2
<1>11. ReadStands'
  BY <1>5 DEF Quiet, ReadStands
<1>12. OneOpen' /\ OpenIsLast'
  BY <1>6 DEF OneOpen, OpenIsLast
<1>13. Fixed' = Landed
  <2>1. \A k \in 1..Height : chain[k].tx \in Settled' <=> chain[k].tx \in Intents
    <3> TAKE k \in 1..Height
    <3>1. CASE chain[k].tx \in Intents \ Settled
      <4>1. chain[k].tx = i
        BY <1>6, <3>1, SettledLie
      <4>2. OnChain(i)
        BY <4>1 DEF OnChain, InclusionHeights
      <4>3. s # "expired"
        BY <4>2
      <4> QED BY <1>2, <4>1, <4>3 DEF Settled
    <3>2. CASE chain[k].tx \in Settled
      <4>1. chain[k].tx \in Steady
        BY <3>2 DEF Settled, Steady
      <4> QED BY <1>8, <3>2, <4>1 DEF Settled
    <3>3. CASE chain[k].tx \notin Intents
      BY <3>3 DEF Settled
    <3> QED BY <3>1, <3>2, <3>3 DEF Settled
  <2>2. Height \in Nat
    BY DEF IInv, TypeOK, ChainTypeOK, Height, Heights
  <2> QED BY <1>3, <2>1, <2>2 DEF Fixed, Landed, Heights
<1>14. Bounded'
  BY <1>6, <1>13, LandedBounded DEF Bounded
<1> QED BY <1>10, <1>11, <1>12, <1>14 DEF Quiet

\* A visit to a row.
LEMMA RowLedger ==
  ASSUME IInv, Books, Ledger, NEW i \in Intents, ReconcileRow(i), UNCHANGED <<top, calm>>
  PROVE  Ledger'
<1> USE DEF Ledger
<1>1. /\ pc = "reconcile" /\ i \in todo /\ Turn(i) /\ UNCHANGED <<chain, forks, wire, pc, canon>>
      /\ status[i] \notin {"absent", "aborted"} /\ status \in [Intents -> Statuses]
      /\ (status[i] \in Terminal => canon # Unread) /\ Height \in Nat
  BY DEF ReconcileRow, chainVars, Visits, IInv, TypeOK, JournalTypeOK, Turn, ChainTypeOK, Height, Heights
<1>2. CASE UNCHANGED journalVars /\ todo' \subseteq todo
  <2>1. UNCHANGED <<chain, wire, status, block, anchor, top, calm, pc, canon>>
    BY <1>1, <1>2 DEF journalVars
  <2>2. pc' = "reconcile" => \A j \in todo' : status[j] \notin {"absent", "aborted"}
    BY <1>1, <1>2 DEF Visits
  <2>3. calm /\ canon' # Unread =>
          \A j \in todo' : j \in Steady /\ canon'[BlockUnder(j).height] = BlockUnder(j).hash
    BY <1>1, <1>2 DEF Quiet, ReadStands
  <2> QED BY <2>1, <2>2, <2>3, MovingOnLedger
<1>3. CASE RowRolledBack(i)
  <2>1. status' = [status EXCEPT ![i] = "rolled_back"] /\ UNCHANGED <<block, anchor, todo>>
    BY <1>3 DEF RowRolledBack, RecordRollback
  <2>2. ASSUME calm PROVE i \in Open
    <3>1. CASE status[i] \in Terminal
      <4>1. canon # Unread /\ canon[BlockUnder(i).height] = BlockUnder(i).hash
        BY <1>1, <2>2, <3>1 DEF Turn, Quiet, ReadStands
      <4> QED BY <1>3, <3>1, <4>1 DEF RowRolledBack, Replaced, BlockSeen
    <3>2. CASE status[i] \notin Terminal
      BY <1>1, <3>2 DEF Open
    <3> QED BY <3>1, <3>2
  <2> QED BY <1>1, <2>1, <2>2, RowStaysOpen
<1>4. CASE status[i] \notin Terminal /\ RowIncluded(i)
  <2>1. PICK h \in InclusionHeights(i) :
          /\ RecordInclusion(i, PointAt(h), Depth(h) >= Confirmations) /\ todo' = todo \ {i}
    BY <1>4 DEF RowIncluded
  <2>2. /\ block' = [block EXCEPT ![i] = PointAt(h)] /\ anchor' = anchor /\ h \in 1..Height
        /\ status' = [status EXCEPT ![i] = IF Depth(h) >= Confirmations THEN "confirmed" ELSE "included"]
    BY <2>1 DEF RecordInclusion, InclusionHeights
  <2>3. \A j \in Intents \ {i} : block'[j] = block[j]
    BY <2>2 DEF IInv, TypeOK, JournalTypeOK
  <2>4. CASE Depth(h) >= Confirmations
    <3>1. h + Confirmations <= Height + 1
      BY <1>1, <2>2, <2>4, ArbitrageAssumption DEF Depth, IInv, TypeOK, ChainTypeOK, Height, Heights
    <3> QED BY <1>1, <1>4, <2>1, <2>2, <2>4, <3>1, RowEnds
  <2>5. CASE ~ (Depth(h) >= Confirmations)
    <3>1. i \in Open
      BY <1>1, <1>4 DEF Open
    <3> QED BY <1>1, <2>1, <2>2, <2>3, <2>5, <3>1, RowStaysOpen
  <2> QED BY <2>4, <2>5
<1>5. CASE status[i] \notin Terminal /\ RowFailed(i)
  <2>1. PICK h \in InclusionHeights(i) :
          Depth(h) >= Confirmations /\ RetireFailed(i, PointAt(h)) /\ todo' = todo \ {i}
    BY <1>5 DEF RowFailed
  <2>2. /\ block' = [block EXCEPT ![i] = PointAt(h)] /\ anchor' = anchor /\ h \in 1..Height
        /\ status' = [status EXCEPT ![i] = "failed"]
    BY <2>1 DEF RetireFailed, InclusionHeights
  <2>3. h + Confirmations <= Height + 1
    BY <2>1, <2>2, ArbitrageAssumption DEF Depth, IInv, TypeOK, ChainTypeOK, Height, Heights
  <2> QED BY <1>1, <1>5, <2>1, <2>2, <2>3, RowEnds
<1>6. CASE status[i] \notin Terminal /\ RowExpired(i)
  <2>1. /\ ~ OnChain(i) /\ todo' = todo \ {i}
        /\ \E h \in 1..Height : /\ Depth(h) = Confirmations /\ chain[h].slot >= Expires[i]
                                /\ RetireExpired(i, "expired", Roles(i), PointAt(h))
    BY <1>6 DEF RowExpired
  <2>2. PICK h \in 1..Height : /\ Depth(h) = Confirmations /\ chain[h].slot >= Expires[i]
                               /\ RetireExpired(i, "expired", Roles(i), PointAt(h))
    BY <2>1
  <2>3. /\ anchor' = [anchor EXCEPT ![i] = PointAt(h)] /\ block' = block
        /\ status' = [status EXCEPT ![i] = "expired"]
    BY <2>2 DEF RetireExpired
  <2>4. h + Confirmations <= Height + 1
    BY <2>2, ArbitrageAssumption DEF Depth, IInv, TypeOK, ChainTypeOK, Height, Heights
  <2>5. Expires[i] <= chain[h].slot
    <3>1. chain[h].slot \in Nat /\ Expires[i] \in Nat
      BY BlockTyped, CandidateAssumption DEF IInv, TypeOK, Txs
    <3> QED BY <2>2, <3>1
  <2> QED BY <1>1, <1>6, <2>1, <2>3, <2>4, <2>5, RowEnds
<1>7. CASE status[i] \notin Terminal /\ RowMissing(i) /\ status[i] = "submitted"
  <2>1. status' = [status EXCEPT ![i] = "unknown"] /\ UNCHANGED <<block, anchor>> /\ todo' = todo \ {i}
    BY <1>7 DEF RowMissing, MarkTransaction
  <2>2. i \in Open
    BY <1>7 DEF Open
  <2> QED BY <1>1, <2>1, <2>2, RowStaysOpen
<1>8. CASE RowMissing(i) /\ status[i] # "submitted"
  BY <1>2, <1>8 DEF RowMissing
<1>9. CASE RowWaits(i) \/ RowStands(i)
  BY <1>2, <1>9 DEF RowWaits, RowStands
<1> QED BY <1>3, <1>4, <1>5, <1>6, <1>7, <1>8, <1>9 DEF ReconcileRow

\* A candidate is prepared when nothing is open, or released unsent; neither
\* has been on the wire.
LEMMA UnsentLedger ==
  ASSUME IInv, Ledger, Prepare \/ (\E i \in Intents : Recover(i)), UNCHANGED <<top, calm>>
  PROVE  Ledger'
<1> USE DEF Ledger
<1>1. /\ UNCHANGED <<chain, wire, block, anchor, top, calm>> /\ pc' # "reconcile" /\ canon' = Unread
      /\ status \in [Intents -> Statuses] /\ (pc = "prepare" => cur \in Intents) /\ calm \in BOOLEAN
  BY DEF IInv, TypeOK, JournalTypeOK, Control, Prepare, PrepareCandidate, Recover, AbandonUnsigned,
     Goto, Finish, chainVars, journalVars
<1>2. CASE UNCHANGED status
  BY <1>1, <1>2, MovingOnLedger
<1>3. CASE \E i \in Intents : \/ /\ status[i] = "absent" /\ NothingOpen
                                 /\ status' = [status EXCEPT ![i] = "prepared"]
                              \/ status[i] = "prepared" /\ status' = [status EXCEPT ![i] = "aborted"]
  <2>1. PICK i \in Intents : \/ /\ status[i] = "absent" /\ NothingOpen
                                /\ status' = [status EXCEPT ![i] = "prepared"]
                             \/ status[i] = "prepared" /\ status' = [status EXCEPT ![i] = "aborted"]
    BY <1>3
  <2>2. /\ status[i] \in {"absent", "prepared"} /\ status'[i] \in {"prepared", "aborted"}
        /\ \A j \in Intents : j # i => status'[j] = status[j]
    BY <1>1, <2>1
  <2>3. i \notin wire /\ ~ OnChain(i)
    BY <2>2 DEF Sent
  <2>4. /\ \A t : OnChain(t)' = OnChain(t) /\ InclusionHeights(t)' = InclusionHeights(t)
        /\ \A h : HashAt(h)' = HashAt(h) /\ Effect(h)' = Effect(h)
        /\ Height' = Height
    BY <1>1 DEF OnChain, InclusionHeights, HashAt, Height, Effect
  <2>5. Settled' = Settled /\ Steady' = Steady /\ Fixed' = Fixed
    <3>1. Settled' = Settled /\ Steady' = Steady
      BY <2>2 DEF Settled, Steady
    <3> QED BY <1>1, <2>4, <3>1 DEF Fixed
  <2>6. \A j \in Steady : BlockUnder(j)' = BlockUnder(j)
    BY <1>1, <2>2 DEF Steady, BlockUnder
  <2>7. SlotsGrow' /\ Sent' /\ Visits' /\ Highest'
    BY <1>1, <2>2, <2>3, <2>4 DEF SlotsGrow, Sent, Visits, Highest
  <2>8. \A j \in Open' : j \in Open \/ j = i
    BY <2>2 DEF Open
  <2>9. calm => OneOpen'
    <3>1. CASE status'[i] = "prepared"
      <4>1. Open' \subseteq {i}
        BY <1>1, <2>1, <2>2, <3>1 DEF NothingOpen, Open
      <4> QED BY <4>1 DEF OneOpen
    <3>2. CASE status'[i] = "aborted"
      <4>1. Open' \subseteq Open
        BY <2>2, <3>2 DEF Open
      <4> QED BY <4>1 DEF Quiet, OneOpen
    <3> QED BY <2>2, <3>1, <3>2
  <2>10. calm => EndsStand' /\ ReadStands'
    BY <1>1, <2>4, <2>5, <2>6 DEF Quiet, EndsStand, ReadStands
  <2>11. calm => OpenIsLast'
    BY <1>1, <2>3, <2>4, <2>5, <2>8 DEF Quiet, OpenIsLast, OnChain
  <2>12. calm => Bounded'
    BY <1>1, <2>3, <2>5, <2>8 DEF Quiet, Bounded
  <2> QED BY <1>1, <2>7, <2>9, <2>10, <2>11, <2>12 DEF Quiet
<1>4. CASE Prepare
  BY <1>1, <1>2, <1>3, <1>4 DEF Prepare, PrepareCandidate, journalVars
<1>5. CASE \E i \in Intents : Recover(i)
  BY <1>3, <1>5 DEF Recover, AbandonUnsigned
<1> QED BY <1>4, <1>5

\* A candidate is sent: its worst case has passed the gate on the books, and
\* they are those of the chain.
LEMMA LaunchLedger ==
  ASSUME IInv, Books, Ledger, NEW d \in BOOLEAN, Launch(d), UNCHANGED <<top, calm>>
  PROVE  Ledger'
<1> USE DEF Ledger
<1>1. /\ UNCHANGED <<chain, block, anchor, top, calm>> /\ pc' # "reconcile" /\ canon' = Unread
      /\ status \in [Intents -> Statuses] /\ cur \in Intents /\ calm \in BOOLEAN
      /\ status[cur] = "prepared" /\ wire \subseteq wire' /\ wire' \subseteq wire \cup {cur}
      /\ CheckCandidate(cur, cur)
  BY DEF IInv, TypeOK, JournalTypeOK, Control, Launch, Claimable, Finish
<1>2. /\ status'[cur] \in {"submitted", "unknown"}
      /\ \A j \in Intents : j # cur => status'[j] = status[j]
  BY <1>1 DEF Launch
<1>3. ~ OnChain(cur) /\ cur \in Open
  BY <1>1 DEF Sent, Open
<1>4. /\ \A t : OnChain(t)' = OnChain(t) /\ InclusionHeights(t)' = InclusionHeights(t)
      /\ \A h : HashAt(h)' = HashAt(h) /\ Effect(h)' = Effect(h)
      /\ Height' = Height
  BY <1>1 DEF OnChain, InclusionHeights, HashAt, Height, Effect
<1>5. SlotsGrow' /\ Sent' /\ Visits' /\ Highest'
  BY <1>1, <1>2, <1>4 DEF SlotsGrow, Sent, Visits, Highest
<1> SUFFICES ASSUME calm PROVE Quiet'
  BY <1>1, <1>5
<1>6. Open' = Open /\ Settled' = Settled /\ Steady' = Steady
  BY <1>1, <1>2 DEF Open, Settled, Steady
<1>7. Fixed' = Fixed
  BY <1>1, <1>4, <1>6 DEF Fixed
<1>8. \A j \in Steady : BlockUnder(j)' = BlockUnder(j)
  BY <1>1, <1>2 DEF Steady, BlockUnder
<1>9. OneOpen' /\ OpenIsLast' /\ ReadStands'
  BY <1>1, <1>4, <1>6 DEF Quiet, OneOpen, OpenIsLast, ReadStands
<1>10. EndsStand'
  BY <1>1, <1>4, <1>6, <1>8 DEF Quiet, EndsStand
<1>11. Bounded'
  BY <1>1, <1>3, <1>6, <1>7, GateBounds DEF Quiet, Bounded
<1> QED BY <1>9, <1>10, <1>11 DEF Quiet

\* Every step.
LEMMA LedgerStep == IInv /\ Books /\ Ledger /\ [Next]_vars => Ledger'
<1> SUFFICES ASSUME IInv, Books, Ledger, [Next]_vars PROVE Ledger'
  OBVIOUS
<1>1. CASE Environment
  BY <1>1, EnvironmentLedger
<1>2. CASE Engine /\ UNCHANGED <<top, calm>>
  <2>1. CASE \E i \in Intents : ReconcileRow(i)
    BY <1>2, <2>1, RowLedger
  <2>2. CASE Prepare \/ \E i \in Intents : Recover(i)
    BY <1>2, <2>2, UnsentLedger
  <2>3. CASE \E d \in BOOLEAN : Launch(d)
    BY <1>2, <2>3, LaunchLedger
  <2>4. CASE Tick
    <3>1. UNCHANGED <<chain, wire, status, block, anchor, top, calm>> /\ canon' = Unread
      BY <1>2, <2>4 DEF Tick, IInv, Control, chainVars, journalVars
    <3> QED BY <2>4, <3>1, MovingOnLedger DEF Tick
  <2>5. CASE ReadBlocks
    <3>1. /\ UNCHANGED <<chain, wire, status, block, anchor, top, calm, pc, todo>>
          /\ canon' = [h \in Heights |-> HashAt(h)]
      BY <1>2, <2>5 DEF ReadBlocks, chainVars, journalVars
    <3>2. calm => \A i \in todo : i \in Steady /\ canon'[BlockUnder(i).height] = BlockUnder(i).hash
      <4> SUFFICES ASSUME calm, NEW i \in todo
                   PROVE  i \in Steady /\ canon'[BlockUnder(i).height] = BlockUnder(i).hash
        OBVIOUS
      <4>1. i \in Steady
        BY <2>5 DEF ReadBlocks, Steady, IInv, TypeOK
      <4>2. BlockUnder(i).height \in 1..Height /\ HashAt(BlockUnder(i).height) = BlockUnder(i).hash
        BY <4>1 DEF Ledger, Quiet, EndsStand
      <4>3. BlockUnder(i).height \in Heights
        BY <4>2, ChainAssumption DEF IInv, TypeOK, ChainTypeOK, Height, Heights
      <4> QED BY <3>1, <4>1, <4>2, <4>3
    <3>3. pc' = "reconcile" => \A i \in todo' : status[i] \notin {"absent", "aborted"}
      BY <3>1 DEF Ledger, Visits
    <3> QED BY <3>1, <3>2, <3>3, MovingOnLedger
  <2>6. CASE Operator
    <3>1. UNCHANGED <<chain, wire, status, block, anchor, top, calm, pc, todo, canon>>
      BY <1>2, <2>6 DEF Operator, StartRun, RequestStop, AcknowledgeIncident, chainVars, tickVars
    <3> QED BY <3>1, MovingOnLedger DEF Ledger, Quiet, Visits, ReadStands
  <2>7. CASE Interrupt \/ Rest \/ EndPass \/ EndSettlement \/ Sign \/ Proceed \/ Submit
             \/ \E i \in Intents : SettleRow(i) \/ Resume(i) \/ Choose(i)
    <3>1. UNCHANGED <<chain, wire, status, block, anchor, top, calm>> /\ pc' # "reconcile" /\ canon' = Unread
      BY <1>2, <2>7 DEF Interrupt, Rest, EndPass, EndSettlement, Sign, AttachSignature, Proceed, Submit, SettleRow,
         Resume, Choose, Ready, Goto, Finish, IInv, Control, chainVars, journalVars
    <3> QED BY <3>1, MovingOnLedger
  <2> QED BY <1>2, <2>1, <2>2, <2>3, <2>4, <2>5, <2>6, <2>7 DEF Engine
<1>3. CASE UNCHANGED vars
  <2>1. UNCHANGED <<chain, wire, status, block, anchor, top, calm, pc, todo, canon>>
    BY <1>3 DEF vars, chainVars, journalVars, tickVars
  <2> QED BY <2>1, MovingOnLedger DEF Ledger, Quiet, Visits, ReadStands
<1> QED BY <1>1, <1>2, <1>3 DEF Next

\* At the start nothing has happened to the wallet.
LEMMA LedgerFirst == Init => Ledger
<1> SUFFICES ASSUME Init PROVE Ledger
  OBVIOUS
<1> USE ChainAssumption, ArbitrageAssumption
<1>1. /\ Height = 1 /\ chain[1].tx = NoTx /\ Settled = {} /\ Open = {} /\ Steady = {}
      /\ wire = {} /\ todo = {} /\ canon = Unread /\ top = 1
      /\ status = [i \in Intents |-> "absent"]
  BY DEF Init, ChainInit, JournalInit, Height, Settled, Open, Steady
<1>2. \A i \in Intents : ~ OnChain(i)
  BY <1>1 DEF OnChain, InclusionHeights, Txs
<1>3. SlotsGrow /\ Sent /\ Visits /\ Highest
  BY <1>1, <1>2 DEF SlotsGrow, Sent, Visits, Highest
<1>4. OneOpen /\ EndsStand /\ ReadStands /\ OpenIsLast
  BY <1>1 DEF OneOpen, EndsStand, ReadStands, OpenIsLast
<1>5. Bounded
  <2>1. Fixed \in [Heights -> Int] /\ \A h \in Heights : h > 0 => Fixed[h] = 0
    BY <1>1 DEF Fixed
  <2>2. Running(Fixed) \in [0..MaxHeight -> Int] /\ 0 \in 0..MaxHeight
    BY <2>1, RunningIs
  <2>3. \A h \in 0..MaxHeight : Running(Fixed)[h] = Running(Fixed)[0]
    BY <2>1, <2>2, RunningRests
  <2>4. \A h \in 0..MaxHeight : Running(Fixed)[h] - Running(Fixed)[MaxHeight] = 0
    BY <2>2, <2>3
  <2> QED BY <1>1, <2>4 DEF Bounded
<1> QED BY <1>3, <1>4, <1>5 DEF Ledger, Quiet

\* The wallet is never further below its best verified result than the limit,
\* on the chain itself and not only in the books, also with a candidate in
\* flight that then fails, as long as no roll-back is as deep as a confirmation.
THEOREM DrawdownBounded == Spec => []DrawdownWithinLimit
<1>1. IInv /\ Books /\ Ledger => DrawdownWithinLimit
  <2> SUFFICES ASSUME IInv, Books, Ledger, calm, NEW h \in 0..Height
               PROVE  ChainNetAt(h) - ChainNetAt(Height) <= Limit
    BY DEF DrawdownWithinLimit
  <2> USE ChainAssumption
  <2>1. Landed \in [Heights -> Int] /\ Height \in Heights
    BY AmountsTyped DEF IInv, TypeOK, ChainTypeOK, Height
  <2>2. \A k \in Heights : k > Height => Landed[k] = 0
    BY <2>1 DEF Landed, Heights
  <2>3. Height \in 0..MaxHeight /\ MaxHeight \in Height..MaxHeight /\ h \in 0..MaxHeight
    BY <2>1 DEF Heights
  <2>4. Running(Landed)[MaxHeight] = Running(Landed)[Height]
    BY <2>1, <2>2, <2>3, RunningRests
  <2>5. Running(Landed)[h] - Running(Landed)[MaxHeight] <= Limit
    BY <2>3, LandedBounded
  <2> QED BY <2>4, <2>5 DEF ChainNetAt
<1>2. Init => Books /\ Ledger
  BY BooksFirst, LedgerFirst
<1>3. IInv /\ Books /\ Ledger /\ [Next]_vars => Books' /\ Ledger'
  BY BooksStep, LedgerStep
<1> QED BY <1>1, <1>2, <1>3, Invariant, PTL DEF Spec

=============================================================================
