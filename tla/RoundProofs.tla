----------------------------- MODULE RoundProofs -----------------------------
(***************************************************************************)
(* Theorems about Round: what an observation takes in lay on the ledger at *)
(* one height, what is sent is young enough, and nothing better was passed *)
(* over, for every ledger history, era table, set of routes and timing.    *)
(***************************************************************************)
EXTENDS Round, SequenceTheorems, FiniteSetTheorems, TLAPS

Heights == Nat \cup {None}
Drafts == [plan : Plans \cup {None}, net : Int, before : Int]

TypeOK ==
  /\ now \in Nat /\ height \in Nat /\ minted \in Nat
  /\ born \in [Refs -> Heights] /\ gone \in [Refs -> Heights]
  /\ tip \in [height : Nat, minted : Nat] /\ context \in [height : Nat, minted : Nat]
  /\ seen \subseteq Refs /\ observedAt \in Nat
  /\ queue \in Seq(Plans)
  /\ draft \in Drafts /\ candidates \subseteq Drafts

\* Everything seen lay there at the height of the context's tip, and still does
\* or has been spent since.
SeenAtTip ==
  /\ context.height <= height
  /\ \A r \in seen : born[r] \in 0 .. context.height /\ (gone[r] = None \/ context.height < gone[r])

\* A deadline within the age of the observation.
InTime(d) == d.before + Margin <= observedAt + MaxAge

\* A tick begins with nothing.
BeginsEmpty ==
  /\ pc \in {"start", "tip", "context"} => seen = {}
  /\ pc \in {"start", "tip", "context", "begin"} => candidates = {} /\ draft = NoDraft

\* A route was only passed over for a candidate it could not beat.
PassedOver ==
  \A s \in skipped :
    /\ s.plan \in Plans /\ s.at \in Nat /\ s.against \in candidates
    /\ Gain[s.plan] < s.against.net /\ s.at < s.against.before

IInv ==
  /\ TypeOK /\ SeenAtTip /\ BeginsEmpty /\ PassedOver
  /\ InTime(draft) /\ \A c \in candidates : InTime(c)

----------------------------------------------------------------------------
(* Slots and time.                                                         *)

\* Division rounds down.
LEMMA Floor ==
  ASSUME NEW n \in Int, NEW d \in Int, d > 0
  PROVE  n \div d \in Int /\ (n \div d) * d <= n
  BY SMT

\* A product keeps the order of its factors.
LEMMA Monotone ==
  ASSUME NEW a \in Int, NEW b \in Int, NEW d \in Int, d > 0, a <= b
  PROVE  a * d \in Int /\ b * d \in Int /\ a * d <= b * d
  BY SMT

\* The fields of an era are numbers, and its end comes after its beginning.
LEMMA EraTypes ==
  ASSUME NEW e \in Eras
  PROVE  /\ e.start \in Nat /\ e.slot \in Nat /\ e.length \in Nat /\ e.length > 0
         /\ e.end # None => e.end \in Nat /\ EndSlot(e) \in Int
<1>1. e \in [start : Nat, slot : Nat, end : Nat \cup {None}, length : Nat \ {0}]
  BY EraAssumption
<1>2. e.start \in Nat /\ e.slot \in Nat /\ e.length \in Nat /\ e.length > 0
        /\ e.end \in Nat \cup {None}
  BY <1>1
<1>3. ASSUME e.end # None PROVE e.end \in Nat /\ EndSlot(e) \in Int
  <2>1. e.end \in Nat
    BY <1>2, <1>3
  <2>2. (e.end - e.start) \div e.length \in Int
    BY <1>2, <2>1, Floor
  <2> QED BY <1>2, <2>1, <2>2 DEF EndSlot
<1> QED BY <1>2, <1>3

\* A time that an era covers has a slot, within that era.
LEMMA SlotOfTime ==
  ASSUME NEW t \in Int, NEW f \in Eras, Covers(f, t)
  PROVE  \E e \in Eras :
           /\ Covers(e, t) /\ SlotAt(t) \in Int
           /\ SlotAt(t) = e.slot + (t - e.start) \div e.length
           /\ (SlotAt(t) - e.slot) * e.length <= t - e.start
           /\ e.end # None => SlotAt(t) < EndSlot(e)
<1> DEFINE e == CHOOSE g \in Eras : Covers(g, t)
<1>1. e \in Eras /\ Covers(e, t)
  OBVIOUS
<1>2. SlotAt(t) = e.slot + (t - e.start) \div e.length
  BY DEF SlotAt
<1> HIDE DEF e
<1>3. e.start \in Nat /\ e.slot \in Nat /\ e.length \in Nat /\ e.length > 0
  BY <1>1, EraTypes
<1> DEFINE q == (t - e.start) \div e.length
<1>4. q \in Int /\ q * e.length <= t - e.start
  BY <1>3, Floor
<1> HIDE DEF q
<1>5. SlotAt(t) = e.slot + q
  BY <1>2 DEF q
<1>6. SlotAt(t) \in Int /\ SlotAt(t) - e.slot = q
  BY <1>3, <1>4, <1>5
<1>7. ASSUME e.end # None PROVE SlotAt(t) < EndSlot(e)
  <2>1. e.end \in Nat /\ EndSlot(e) \in Int
    BY <1>1, <1>7, EraTypes
  <2>2. t < e.end
    BY <1>1, <1>7 DEF Covers
  <2>3. e.end - e.start = (EndSlot(e) - e.slot) * e.length
    BY <1>1, <1>7, EraAssumption
  <2>4. CASE EndSlot(e) - e.slot <= q
    <3>1. EndSlot(e) - e.slot \in Int
      BY <1>3, <2>1
    <3>2. (EndSlot(e) - e.slot) * e.length <= q * e.length
      BY <1>3, <1>4, <2>4, <3>1, Monotone
    <3> DEFINE x == q * e.length
               y == (EndSlot(e) - e.slot) * e.length
    <3>3. x \in Int /\ y \in Int
      BY <1>3, <1>4, <3>1
    <3>4. x <= t - e.start /\ y <= x /\ y = e.end - e.start
      BY <1>4, <2>3, <3>2
    <3> HIDE DEF x, y
    <3> QED BY <1>3, <2>1, <2>2, <3>3, <3>4
  <2>5. CASE ~ (EndSlot(e) - e.slot <= q)
    BY <1>3, <1>4, <1>5, <2>1, <2>5
  <2> QED BY <2>4, <2>5
<1> QED BY <1>1, <1>2, <1>4, <1>6, <1>7

\* A slot not after that of a time begins not after it, whichever eras hold
\* the two.
LEMMA SlotsBeginInTime ==
  ASSUME NEW t \in Int, NEW s \in Int,
         \E e \in Eras : Covers(e, t), \E e \in Eras : Holds(e, s), s <= SlotAt(t)
  PROVE  TimeAt(s) \in Int /\ TimeAt(s) <= t
<1>1. PICK e \in Eras :
        /\ Covers(e, t) /\ SlotAt(t) \in Int
        /\ SlotAt(t) = e.slot + (t - e.start) \div e.length
        /\ (SlotAt(t) - e.slot) * e.length <= t - e.start
        /\ e.end # None => SlotAt(t) < EndSlot(e)
  BY SlotOfTime
<1> DEFINE f == CHOOSE g \in Eras : Holds(g, s)
<1>2. f \in Eras /\ Holds(f, s)
  OBVIOUS
<1>3. TimeAt(s) = f.start + (s - f.slot) * f.length
  BY DEF TimeAt
<1> HIDE DEF f
<1>4. /\ e.start \in Nat /\ e.slot \in Nat /\ e.length \in Nat /\ e.length > 0
      /\ f.start \in Nat /\ f.slot \in Nat /\ f.length \in Nat /\ f.length > 0
  BY <1>1, <1>2, EraTypes
<1> DEFINE x == (s - f.slot) * f.length
<1>5. x \in Int /\ TimeAt(s) = f.start + x
  BY <1>3, <1>4
<1>6. CASE e = f
  <2>1. x <= (SlotAt(t) - f.slot) * f.length
    <3>1. s - f.slot \in Int /\ SlotAt(t) - f.slot \in Int /\ s - f.slot <= SlotAt(t) - f.slot
      BY <1>1, <1>4
    <3> QED BY <1>4, <3>1, Monotone
  <2> DEFINE y == (SlotAt(t) - f.slot) * f.length
  <2>2. y \in Int /\ y <= t - f.start /\ x <= y
    BY <1>1, <1>4, <1>6, <2>1
  <2> HIDE DEF x, y
  <2> QED BY <1>4, <1>5, <2>2
<1>7. CASE e # f /\ e.end # None /\ e.end <= f.start /\ EndSlot(e) <= f.slot
  <2>1. EndSlot(e) \in Int /\ f.slot <= s
    BY <1>1, <1>2, <1>7, EraTypes DEF Holds
  <2> QED BY <1>1, <1>4, <1>7, <2>1
<1>8. CASE e # f /\ f.end # None /\ f.end <= e.start /\ EndSlot(f) <= e.slot
  <2>1. f.end \in Nat /\ EndSlot(f) \in Int /\ s < EndSlot(f)
    BY <1>2, <1>8, EraTypes DEF Holds
  <2>2. x <= (EndSlot(f) - f.slot) * f.length
    <3>1. s - f.slot \in Int /\ EndSlot(f) - f.slot \in Int /\ s - f.slot <= EndSlot(f) - f.slot
      BY <1>4, <2>1
    <3> QED BY <1>4, <3>1, Monotone
  <2>3. (EndSlot(f) - f.slot) * f.length = f.end - f.start
    BY <1>2, <1>8, EraAssumption
  <2>4. e.start <= t
    BY <1>1 DEF Covers
  <2> HIDE DEF x
  <2> QED BY <1>4, <1>5, <1>8, <2>1, <2>2, <2>3, <2>4
<1> QED BY <1>1, <1>2, <1>6, <1>7, <1>8, EraAssumption

\* The least of two numbers is one that neither undercuts.
LEMMA LeastOf ==
  ASSUME NEW x \in Int, NEW y \in Int
  PROVE  Least(x, y) \in Int /\ Least(x, y) <= x /\ Least(x, y) <= y
  BY DEF Least

\* The least of three numbers is no more than any; stated for the last.
LEMMA MinOfThree ==
  ASSUME NEW x \in Int, NEW y \in Int, NEW z \in Int
  PROVE  Min({x, y, z}) \in Int /\ Min({x, y, z}) <= z
<1>1. \E m \in {x, y, z} : \A n \in {x, y, z} : m <= n
  <2>1. CASE x <= y /\ x <= z
    BY <2>1
  <2>2. CASE y <= x /\ y <= z
    BY <2>2
  <2>3. CASE z <= x /\ z <= y
    BY <2>3
  <2> QED BY <2>1, <2>2, <2>3
<1>2. Min({x, y, z}) \in {x, y, z} /\ \A n \in {x, y, z} : Min({x, y, z}) <= n
  BY <1>1 DEF Min
<1> QED BY <1>2

\* Whatever else bounds the validity of a route, its deadline leaves the margin
\* before the age of the observation runs out.
LEMMA DeadlineInTime ==
  ASSUME TypeOK, NEW p \in Plans, Reached(p)
  PROVE  Before(p) \in Int /\ Before(p) + Margin <= observedAt + MaxAge
<1>1. MaxAge \in Nat /\ Margin \in Nat /\ TtlSpan \in Nat /\ DanoSpan \in Nat
        /\ EpochLength \in Nat /\ EpochLength > 0 /\ Until[p] \in Nat
  BY RoundAssumption
<1>2. context.minted \in Int /\ observedAt \in Int /\ observedAt + MaxAge \in Int
  BY <1>1 DEF TypeOK
<1>3. (\E e \in Eras : Covers(e, context.minted)) /\ (\E e \in Eras : Covers(e, observedAt + MaxAge))
        /\ (\E e \in Eras : Holds(e, Ttl(p)))
  BY DEF Reached
<1>4. SlotAt(context.minted) \in Int /\ SlotAt(observedAt + MaxAge) \in Int
  BY <1>2, <1>3, SlotOfTime
<1> DEFINE ttl == Least(SlotAt(context.minted) + TtlSpan, SlotAt(observedAt + MaxAge))
<1>5. ttl \in Int /\ ttl <= SlotAt(observedAt + MaxAge)
  <2>1. SlotAt(context.minted) + TtlSpan \in Int
    BY <1>1, <1>4
  <2> QED BY <1>4, <2>1, LeastOf
<1>6. Ttl(p) = Least(IF p \in Dano THEN Clip(ttl) ELSE ttl, Until[p])
  BY DEF Ttl
<1> HIDE DEF ttl
<1>7. ASSUME p \in Dano PROVE Clip(ttl) \in Int /\ Clip(ttl) <= ttl
  <2>1. EpochEnd(observedAt) \in Int
    <3>1. observedAt \div EpochLength \in Int
      BY <1>1, <1>2, Floor
    <3> QED BY <1>1, <3>1 DEF EpochEnd
  <2>2. (\E e \in Eras : Covers(e, observedAt)) /\ (\E e \in Eras : Covers(e, EpochEnd(observedAt)))
    BY <1>7 DEF Reached
  <2>3. SlotAt(observedAt) \in Int /\ SlotAt(EpochEnd(observedAt)) \in Int
    BY <1>2, <2>1, <2>2, SlotOfTime
  <2>4. SlotAt(observedAt) + DanoSpan \in Int /\ SlotAt(EpochEnd(observedAt)) - 1 \in Int
    BY <1>1, <2>3
  <2> QED BY <1>5, <2>4, MinOfThree DEF Clip
<1>8. (IF p \in Dano THEN Clip(ttl) ELSE ttl) \in Int
        /\ (IF p \in Dano THEN Clip(ttl) ELSE ttl) <= ttl
  BY <1>5, <1>7
<1>9. Ttl(p) \in Int /\ Ttl(p) <= SlotAt(observedAt + MaxAge)
  <2> DEFINE x == IF p \in Dano THEN Clip(ttl) ELSE ttl
  <2>1. x \in Int /\ x <= ttl /\ Ttl(p) = Least(x, Until[p])
    BY <1>6, <1>8
  <2> HIDE DEF x
  <2>2. Until[p] \in Int
    BY <1>1
  <2>3. Ttl(p) \in Int /\ Ttl(p) <= x
    BY <2>1, <2>2, LeastOf
  <2> QED BY <1>4, <1>5, <2>1, <2>3
<1>10. TimeAt(Ttl(p)) \in Int /\ TimeAt(Ttl(p)) <= observedAt + MaxAge
  BY <1>2, <1>3, <1>9, SlotsBeginInTime
<1> QED BY <1>1, <1>2, <1>10 DEF Before

----------------------------------------------------------------------------
(* The invariant.                                                          *)

\* The empty draft is a draft without a deadline.
LEMMA TypesOfNone ==
  NoDraft \in Drafts /\ NoDraft.before = 0
  BY DEF NoDraft, Drafts, None

\* The invariant holds at the start.
LEMMA Initially ==
  Init => IInv
<1> SUFFICES ASSUME Init PROVE IInv
  OBVIOUS
<1>1. TypeOK
  BY TypesOfNone DEF Init, TypeOK, Heights, None
<1>2. SeenAtTip /\ BeginsEmpty /\ PassedOver
  BY DEF Init, SeenAtTip, BeginsEmpty, PassedOver
<1>3. InTime(draft) /\ \A c \in candidates : InTime(c)
  BY RoundAssumption, TypesOfNone DEF Init, InTime
<1> QED BY <1>1, <1>2, <1>3 DEF IInv

\* Time passes or a block comes.
LEMMA EnvironmentKeeps ==
  ASSUME IInv, Elapse \/ Block, UNCHANGED round
  PROVE  IInv'
<1> USE DEF IInv
<1>1. CASE Elapse
  <2> USE <1>1 DEF Elapse, round, observation
  <2>1. TypeOK'
    BY DEF TypeOK
  <2> QED BY <2>1 DEF SeenAtTip, BeginsEmpty, PassedOver, InTime
<1>2. CASE Block
  <2> USE <1>2 DEF Block, round, observation
  <2>1. TypeOK'
    <3>1. born' \in [Refs -> Heights] /\ gone' \in [Refs -> Heights]
      BY DEF TypeOK, Heights
    <3> QED BY <3>1 DEF TypeOK
  <2>2. SeenAtTip'
    <3>1. context' = context /\ seen' = seen /\ height' = height + 1
      OBVIOUS
    <3>2. context.height \in Nat /\ height \in Nat /\ context.height <= height
      BY DEF SeenAtTip, TypeOK
    <3>3. ASSUME NEW r \in seen
          PROVE  born'[r] \in 0 .. context.height /\ (gone'[r] = None \/ context.height < gone'[r])
      <4>1. r \in Refs /\ born[r] # None /\ born[r] \in 0 .. context.height
              /\ (gone[r] = None \/ context.height < gone[r])
        BY <3>2 DEF SeenAtTip, TypeOK, None
      <4>2. born'[r] = born[r]
        BY <4>1
      <4>3. gone'[r] = gone[r] \/ gone'[r] = height + 1
        BY <4>1
      <4> QED BY <3>2, <4>1, <4>2, <4>3
    <3>4. context'.height <= height'
      BY <3>1, <3>2
    <3> QED BY <3>1, <3>3, <3>4 DEF SeenAtTip
  <2> QED BY <2>1, <2>2 DEF BeginsEmpty, PassedOver, InTime
<1> QED BY <1>1, <1>2

\* A row that lies there now and is deep below the tip of the context lay there
\* at that tip.
LEMMA DeepLay ==
  ASSUME TypeOK, NEW r \in Unspent, Deep(r)
  PROVE  born[r] \in 0 .. context.height /\ gone[r] = None
<1>1. r \in Refs /\ born[r] \in 0 .. height /\ gone[r] = None
  BY DEF Unspent
<1>2. context.height \in Nat /\ height \in Nat
  BY DEF TypeOK
<1>3. Confirmations \in Nat \ {0}
  BY RoundAssumption
<1>4. context.height - born[r] + 1 >= Confirmations
  BY DEF Deep
<1> HIDE DEF Deep
<1> QED BY <1>1, <1>2, <1>3, <1>4

\* The tick reads its two tips, the rows and the routes.
LEMMA ObservationKeeps ==
  ASSUME IInv, ReadTip \/ CheckTip \/ MakeContext \/ Begin \/ Scan \/ Search
  PROVE  IInv'
<1> USE DEF IInv, environment
<1>1. CASE ReadTip \/ CheckTip \/ MakeContext
  <2> USE <1>1 DEF ReadTip, CheckTip, MakeContext, Latest, observation
  <2>1. TypeOK'
    BY DEF TypeOK
  <2>2. SeenAtTip'
    BY DEF TypeOK, SeenAtTip, BeginsEmpty
  <2> QED BY <2>1, <2>2 DEF BeginsEmpty, PassedOver, InTime
<1>2. CASE Begin
  <2> USE <1>2 DEF Begin
  <2>1. TypeOK'
    BY DEF TypeOK
  <2>2. candidates' = {} /\ draft' = NoDraft /\ observedAt' \in Nat
    BY DEF BeginsEmpty, TypeOK
  <2>3. InTime(draft)' /\ \A c \in candidates' : InTime(c)'
    BY <2>2, RoundAssumption, TypesOfNone DEF InTime
  <2> QED BY <2>1, <2>3 DEF SeenAtTip, BeginsEmpty, PassedOver
<1>3. CASE Scan
  <2> USE <1>3 DEF Scan
  <2>1. TypeOK'
    BY DEF TypeOK, Unspent
  <2>2. SeenAtTip'
    <3> SUFFICES ASSUME NEW r \in seen'
                 PROVE  born[r] \in 0 .. context.height /\ (gone[r] = None \/ context.height < gone[r])
      BY DEF SeenAtTip, TypeOK
    <3>1. ASSUME r \in seen
          PROVE  born[r] \in 0 .. context.height /\ (gone[r] = None \/ context.height < gone[r])
      BY <3>1 DEF SeenAtTip
    <3>2. ASSUME r \in Unspent, Deep(r)
          PROVE  born[r] \in 0 .. context.height /\ (gone[r] = None \/ context.height < gone[r])
      BY ONLY <3>2, DeepLay, IInv DEF IInv
    <3>3. r \in seen \/ (r \in Unspent /\ Deep(r))
      OBVIOUS
    <3> QED BY <3>1, <3>2, <3>3
  <2> QED BY <2>1, <2>2 DEF BeginsEmpty, PassedOver, InTime
<1>4. CASE Search
  <2> USE <1>4 DEF Search, observation
  <2>1. queue' \in Seq(Plans)
    <3> DEFINE S == {p \in Plans : Uses[p] \subseteq seen}
    <3>1. PICK order \in Orders(S) : queue' = SubSeq(order, 1, Least(Len(order), MaxEvaluations))
      OBVIOUS
    <3>2. IsFiniteSet(S) /\ Cardinality(S) \in Nat
      BY RoundAssumption, FS_Subset, FS_CardinalityType
    <3>3. order \in [1 .. Cardinality(S) -> Plans]
      BY <3>1 DEF Orders
    <3>4. order \in Seq(Plans)
      BY <3>2, <3>3, SeqDef
    <3> DEFINE n == Least(Len(order), MaxEvaluations)
    <3>5. n \in Int /\ n <= Len(order)
      BY <3>4, RoundAssumption, LeastOf
    <3> HIDE DEF n
    <3>6. \A i \in 1 .. n : order[i] \in Plans
      BY <3>4, <3>5
    <3>7. SubSeq(order, 1, n) \in Seq(Plans)
      BY <3>5, <3>6, SubSeqProperties
    <3> QED BY <3>1, <3>7 DEF n
  <2>2. TypeOK'
    BY <2>1 DEF TypeOK
  <2> QED BY <2>2 DEF SeenAtTip, BeginsEmpty, PassedOver, InTime
<1> QED BY <1>1, <1>2, <1>3, <1>4

\* A route is passed over, built, validated or rejected.
LEMMA EvaluationKeeps ==
  ASSUME IInv, Skip \/ Build \/ Validate \/ Reject
  PROVE  IInv'
<1> USE DEF IInv, environment, observation
<1>1. CASE Skip
  <2> USE <1>1 DEF Skip
  <2>1. Head(queue) \in Plans /\ Tail(queue) \in Seq(Plans)
    BY HeadTailProperties DEF TypeOK
  <2>2. TypeOK'
    BY <2>1 DEF TypeOK
  <2>3. PassedOver'
    <3>1. PICK c \in Best : skipped' = skipped \cup {[plan |-> Head(queue), against |-> c, at |-> now]}
      OBVIOUS
    <3>2. c \in candidates /\ now < c.before /\ c.net \in Int
      BY DEF Best, TypeOK, Drafts
    <3>3. Gain[Head(queue)] < c.net
      <4>1. PICK d \in Best : Gain[Head(queue)] < d.net
        BY DEF Hopeless
      <4>2. d.net <= c.net /\ d.net \in Int /\ Gain[Head(queue)] \in Nat
        BY <2>1, <3>2, RoundAssumption DEF Best, TypeOK, Drafts
      <4> QED BY <3>2, <4>1, <4>2
    <3>4. now \in Nat /\ candidates' = candidates
      BY DEF TypeOK
    <3> QED BY <2>1, <3>1, <3>2, <3>3, <3>4 DEF PassedOver
  <2> QED BY <2>2, <2>3 DEF SeenAtTip, BeginsEmpty, InTime
<1>2. CASE Build
  <2> USE <1>2 DEF Build
  <2>1. Head(queue) \in Plans /\ Tail(queue) \in Seq(Plans)
    BY HeadTailProperties DEF TypeOK
  <2>2. Before(Head(queue)) \in Int /\ Before(Head(queue)) + Margin <= observedAt + MaxAge
    BY <2>1, DeadlineInTime
  <2>3. draft' \in Drafts /\ draft'.before = Before(Head(queue))
    <3>1. PICK fee \in Fees :
            draft' = [plan |-> Head(queue), net |-> Gain[Head(queue)] - fee,
                      before |-> Before(Head(queue))]
      OBVIOUS
    <3>2. Gain[Head(queue)] - fee \in Int
      BY <2>1, RoundAssumption
    <3> QED BY <2>1, <2>2, <3>1, <3>2 DEF Drafts
  <2>4. TypeOK'
    BY <2>1, <2>3 DEF TypeOK
  <2>5. InTime(draft)'
    BY <2>2, <2>3 DEF InTime
  <2> QED BY <2>4, <2>5 DEF SeenAtTip, BeginsEmpty, PassedOver, InTime
<1>3. CASE Validate
  <2> USE <1>3 DEF Validate
  <2>1. TypeOK'
    BY TypesOfNone DEF TypeOK
  <2>2. InTime(draft)' /\ \A c \in candidates' : InTime(c)'
    BY RoundAssumption, TypesOfNone DEF InTime, TypeOK
  <2> QED BY <2>1, <2>2 DEF SeenAtTip, BeginsEmpty, PassedOver
<1>4. CASE Reject
  <2> USE <1>4 DEF Reject
  <2>1. queue' \in Seq(Plans)
    <3>1. CASE queue' = queue
      BY <3>1 DEF TypeOK
    <3>2. CASE queue # <<>> /\ queue' = Tail(queue)
      BY <3>2, HeadTailProperties DEF TypeOK
    <3> QED BY <3>1, <3>2
  <2>2. TypeOK'
    <3>1. draft' \in Drafts
      BY TypesOfNone DEF TypeOK
    <3> QED BY <2>1, <3>1 DEF TypeOK
  <2>3. InTime(draft)'
    <3>1. observedAt' = observedAt /\ (draft' = draft \/ draft' = NoDraft)
      OBVIOUS
    <3>2. InTime(NoDraft)
      BY RoundAssumption, TypesOfNone DEF InTime, TypeOK
    <3>3. InTime(draft)
      OBVIOUS
    <3> QED BY ONLY <3>1, <3>2, <3>3 DEF InTime
  <2>4. SeenAtTip' /\ PassedOver'
    <3>1. UNCHANGED <<environment, context, seen, candidates, skipped>>
      OBVIOUS
    <3>2. SeenAtTip /\ PassedOver
      OBVIOUS
    <3> QED BY ONLY <3>1, <3>2 DEF environment, SeenAtTip, PassedOver
  <2>5. BeginsEmpty'
    <3>1. pc' = "evaluate"
      OBVIOUS
    <3> QED BY ONLY <3>1 DEF BeginsEmpty
  <2>6. \A c \in candidates' : InTime(c)'
    BY DEF InTime
  <2> QED BY <2>2, <2>3, <2>4, <2>5, <2>6
<1> QED BY <1>1, <1>2, <1>3, <1>4

\* A candidate is selected, prepared and sent, or the tick ends.
LEMMA SendingKeeps ==
  ASSUME IInv, Select \/ Prepare \/ Submit \/ End
  PROVE  IInv'
<1> USE DEF IInv, environment, observation
<1>1. CASE Select
  <2> USE <1>1 DEF Select
  <2>1. draft' \in candidates
    BY DEF Best
  <2> QED BY <2>1 DEF TypeOK, SeenAtTip, BeginsEmpty, PassedOver, InTime
<1>2. CASE Prepare
  BY <1>2 DEF Prepare, TypeOK, SeenAtTip, BeginsEmpty, PassedOver, InTime
<1>3. CASE Return
  <2> USE <1>3 DEF Return
  <2>1. TypeOK'
    BY TypesOfNone DEF TypeOK
  <2>2. InTime(draft)' /\ \A c \in candidates' : InTime(c)'
    BY RoundAssumption, TypesOfNone DEF InTime, TypeOK
  <2> QED BY <2>1, <2>2 DEF SeenAtTip, BeginsEmpty, PassedOver
<1> QED BY <1>1, <1>2, <1>3 DEF Submit, End

\* Every step keeps the invariant.
LEMMA StepKeeps ==
  ASSUME IInv, [Next]_vars
  PROVE  IInv'
<1>1. CASE Next
  BY <1>1, EnvironmentKeeps, ObservationKeeps, EvaluationKeeps, SendingKeeps DEF Next, Engine
<1>2. CASE UNCHANGED vars
  BY <1>2
     DEF vars, environment, round, observation, IInv, TypeOK, SeenAtTip, BeginsEmpty,
         PassedOver, InTime
<1> QED BY <1>1, <1>2

\* The types, and what a tick knows, hold throughout.
THEOREM Invariant ==
  Spec => []IInv
  BY Initially, StepKeeps, PTL DEF Spec

----------------------------------------------------------------------------
(* Observation.                                                            *)

\* Only a scan takes rows in, and it leaves the ledger and the context alone.
LEMMA OnlyScanSees ==
  ASSUME IInv, Next
  PROVE  seen' \subseteq seen \/ (Scan /\ UNCHANGED <<environment, context>>)
  BY DEF Next, Engine, Elapse, Block, ReadTip, CheckTip, MakeContext, Begin, Scan, Search, Skip, Build, Validate, Reject,
         Select, Prepare, Submit, End, Return, round, observation, environment

\* An observation of credentials read one after the other holds at the height
\* of the tick's chain context, and what is sent is younger than max_age.
THEOREM ObservationSound ==
  Spec => ObservationHolds
<1> DEFINE Held == \E h \in 0 .. height : \A r \in seen' :
                     born[r] <= h /\ (gone[r] = None \/ h < gone[r])
           Sound == /\ \E h \in 0 .. height : \A r \in seen' :
                         born[r] <= h /\ (gone[r] = None \/ h < gone[r])
                    /\ Submit => now + Margin < observedAt + MaxAge
<1>1. ASSUME IInv, Next PROVE Held
  <2>1. context.height \in 0 .. height
    BY <1>1 DEF IInv, TypeOK, SeenAtTip
  <2>2. ASSUME NEW r \in seen' PROVE born[r] <= context.height /\ (gone[r] = None \/ context.height < gone[r])
    <3>1. CASE r \in seen
      BY <1>1, <2>1, <3>1 DEF IInv, SeenAtTip
    <3>2. CASE Scan /\ UNCHANGED <<environment, context>>
      <4>1. SeenAtTip'
        BY <1>1, StepKeeps DEF IInv
      <4>2. born' = born /\ gone' = gone /\ context' = context
        BY <3>2 DEF environment
      <4> QED BY <2>1, <2>2, <4>1, <4>2 DEF SeenAtTip
    <3> QED BY <1>1, <2>2, <3>1, <3>2, OnlyScanSees
  <2> QED BY <2>1, <2>2
<1>2. ASSUME IInv, Submit PROVE now + Margin < observedAt + MaxAge
  <2>1. now < draft.before /\ draft.before + Margin <= observedAt + MaxAge
    BY <1>2 DEF Submit, IInv, InTime
  <2>2. now \in Int /\ draft.before \in Int /\ observedAt \in Int /\ Margin \in Int /\ MaxAge \in Int
    BY <1>2, RoundAssumption DEF IInv, TypeOK, Drafts
  <2> QED BY <2>1, <2>2
<1>3. ASSUME IInv, [Next]_vars PROVE [Sound]_vars
  BY <1>1, <1>2, <1>3
<1> HIDE DEF Sound
<1>4. Spec => [][Sound]_vars
  BY Invariant, <1>3, PTL DEF Spec
<1> QED BY <1>4 DEF ObservationHolds, Sound

----------------------------------------------------------------------------
(* Selection.                                                              *)

\* What is selected is in time, no candidate in time nets more, and every route
\* passed over could not beat it, unless its rival has run out of time since.
THEOREM BestSent ==
  Spec => BestIsSent
<1> DEFINE Chosen ==
      Select =>
        /\ now < draft'.before
        /\ \A c \in candidates : now < c.before => c.net <= draft'.net
        /\ \A s \in skipped :
             Gain[s.plan] <= draft'.net
               \/ (s.at < s.against.before /\ s.against.before <= now)
<1>1. ASSUME IInv PROVE Chosen
  <2> SUFFICES ASSUME Select
               PROVE  /\ now < draft'.before
                      /\ \A c \in candidates : now < c.before => c.net <= draft'.net
                      /\ \A s \in skipped :
                           Gain[s.plan] <= draft'.net
                             \/ (s.at < s.against.before /\ s.against.before <= now)
    OBVIOUS
  <2>1. draft' \in Best
    BY DEF Select
  <2>2. draft' \in candidates /\ now < draft'.before
          /\ \A c \in candidates : now < c.before => c.net <= draft'.net
    BY <2>1 DEF Best
  <2>3. ASSUME NEW s \in skipped, ~ (s.against.before <= now)
        PROVE  Gain[s.plan] <= draft'.net
    <3>1. s.against \in candidates /\ Gain[s.plan] < s.against.net /\ Gain[s.plan] \in Int
      BY <1>1, RoundAssumption DEF IInv, PassedOver
    <3>2. s.against.before \in Int /\ s.against.net \in Int /\ now \in Int /\ draft'.net \in Int
      BY <1>1, <2>2, <3>1 DEF IInv, TypeOK, Drafts
    <3>3. s.against.net <= draft'.net
      BY <2>2, <2>3, <3>1, <3>2
    <3> QED BY <3>1, <3>2, <3>3
  <2>4. \A s \in skipped : s.at < s.against.before
    BY <1>1 DEF IInv, PassedOver
  <2> QED BY <2>2, <2>3, <2>4
<1>2. ASSUME IInv, [Next]_vars PROVE [Chosen]_vars
  BY <1>1, <1>2
<1> HIDE DEF Chosen
<1>3. Spec => [][Chosen]_vars
  BY Invariant, <1>2, PTL DEF Spec
<1> QED BY <1>3 DEF BestIsSent, Chosen
=============================================================================
