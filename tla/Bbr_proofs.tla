----------------------------- MODULE Bbr_proofs -----------------------------
(***************************************************************************)
(* Proofs about congestion control with BBR, for every value of the        *)
(* constants: the bytes in flight, what counts as acknowledged, and the    *)
(* state of the controller.                                                *)
(*                                                                         *)
(* The first part is about counting, the second about the sender's         *)
(* history, the third about the sampler, the fourth about the controller.  *)
(* The last joins them: BbrInv is what the actions keep.                   *)
(***************************************************************************)
EXTENDS Bbr, FiniteSetTheorems, SequenceTheorems, WellFoundedInduction, TLAPS

-----------------------------------------------------------------------------
(* Induction and counting *)

\* A nonempty set of naturals has a least element: the library says so for a
\* predicate, which is no use to a first-order prover.
LEMMA LeastNat ==
    ASSUME NEW T \in SUBSET Nat, T # {}
    PROVE  \E x \in T : \A y \in T : x <= y
<1> DEFINE Less == {ss \in Nat \X Nat : ss[1] < ss[2]}
<1>1. IsWellFoundedOn(Less, Nat)
  BY NatLessThanWellFounded DEF OpToRel
<1>2. PICK x \in T : \A y \in T : ~(<<y, x>> \in Less)
  <2> HIDE DEF Less
  <2> QED BY <1>1, WFMin
<1>3. \A y \in T : ~(y < x)
  BY <1>2
<1> QED BY <1>3

\* Induction for a set of naturals.
LEMMA Induct ==
    ASSUME NEW T \in SUBSET Nat, 0 \in T, \A k \in T : k + 1 \in T
    PROVE  T = Nat
<1> SUFFICES ASSUME Nat \ T # {} PROVE FALSE
  OBVIOUS
<1>1. PICK x \in Nat \ T : \A y \in Nat \ T : x <= y
  <2>1. Nat \ T \in SUBSET Nat
    OBVIOUS
  <2> QED BY <2>1, LeastNat
<1>2. x # 0 /\ x \in Nat
  OBVIOUS
<1>3. x - 1 \in T
  BY <1>1, <1>2
<1>4. (x - 1) + 1 \in T /\ (x - 1) + 1 = x
  BY <1>2, <1>3
<1> QED BY <1>4

\* A set of naturals with a bound has a greatest element.
LEMMA GreatestNat ==
    ASSUME NEW b \in Nat, NEW S \in SUBSET (0 .. b), S # {}
    PROVE  \E x \in S : \A y \in S : y <= x
<1> DEFINE T == {b - x : x \in S}
<1>1. \A x \in S : x \in Nat /\ b - x \in Nat
  OBVIOUS
<1>2. T \in SUBSET Nat /\ T # {}
  BY <1>1
<1>3. PICK t \in T : \A y \in T : t <= y
  <2> HIDE DEF T
  <2> QED BY <1>2, LeastNat
<1>4. PICK m \in S : t = b - m
  BY <1>3
<1>5. \A x \in S : b - m <= b - x
  BY <1>3, <1>4
<1> QED BY <1>1, <1>5

\* The bytes of so many packets.
Weight(S) == PacketSize * Cardinality(S)

LEMMA SizeType == PacketSize \in Nat /\ PacketSize > 0
BY BbrAssumption

\* A product with one factor more.
LEMMA OneMore == ASSUME NEW a \in Int, NEW b \in Int PROVE a * (b + 1) = a * b + a
OBVIOUS

LEMMA WeightType == ASSUME NEW S, IsFiniteSet(S) PROVE Weight(S) \in Nat
BY FS_CardinalityType, SizeType DEF Weight

LEMMA WeightEmpty == Weight({}) = 0
BY FS_EmptySet, SizeType DEF Weight

LEMMA WeightAdd ==
    ASSUME NEW S, IsFiniteSet(S), NEW x, x \notin S
    PROVE  IsFiniteSet(S \union {x}) /\ Weight(S \union {x}) = Weight(S) + PacketSize
<1>1. /\ IsFiniteSet(S \union {x}) /\ Cardinality(S \union {x}) = Cardinality(S) + 1
      /\ Cardinality(S) \in Nat
  BY FS_AddElement, FS_CardinalityType
<1>2. PacketSize * (Cardinality(S) + 1) = PacketSize * Cardinality(S) + PacketSize
  BY <1>1, SizeType, OneMore
<1> QED BY <1>1, <1>2 DEF Weight

LEMMA WeightRemove ==
    ASSUME NEW S, IsFiniteSet(S), NEW x \in S
    PROVE  IsFiniteSet(S \ {x}) /\ Weight(S) = Weight(S \ {x}) + PacketSize
<1>1. IsFiniteSet(S \ {x}) /\ x \notin S \ {x} /\ (S \ {x}) \union {x} = S
  BY FS_RemoveElement
<1> QED BY <1>1, WeightAdd

LEMMA WeightUnion ==
    ASSUME NEW S, NEW T, IsFiniteSet(S), IsFiniteSet(T), S \cap T = {}
    PROVE  Weight(S \union T) = Weight(S) + Weight(T)
<1>1. Cardinality(S \union T) = Cardinality(S) + Cardinality(T)
  <2>1. Cardinality(S \union T) = Cardinality(S) + Cardinality(T) - Cardinality(S \cap T)
    BY FS_Union
  <2>2. Cardinality(S \cap T) = 0 /\ Cardinality(S) \in Nat /\ Cardinality(T) \in Nat
    BY FS_EmptySet, FS_CardinalityType
  <2> QED BY <2>1, <2>2
<1>2. Cardinality(S) \in Nat /\ Cardinality(T) \in Nat
  BY FS_CardinalityType
<1>3. \A a, b, c \in Nat : a * (b + c) = a * b + a * c
  OBVIOUS
<1> QED BY <1>1, <1>2, <1>3, SizeType DEF Weight

LEMMA WeightSubset ==
    ASSUME NEW S, IsFiniteSet(S), NEW T \in SUBSET S
    PROVE  IsFiniteSet(T) /\ Weight(T) <= Weight(S)
<1>1. IsFiniteSet(T) /\ IsFiniteSet(S \ T) /\ T \union (S \ T) = S /\ T \cap (S \ T) = {}
  BY FS_Subset
<1>2. Weight(T) \in Nat /\ Weight(S \ T) \in Nat
  BY <1>1, WeightType
<1>3. Weight(S) = Weight(T) + Weight(S \ T)
  BY <1>1, WeightUnion
<1> QED BY <1>1, <1>2, <1>3

-----------------------------------------------------------------------------
(* The sender's history *)

\* g is the fold of BytesOf on the sets of D.
FoldOn(l, D, g) ==
    g = [s \in D |-> IF s = {} THEN 0
                     ELSE g[s \ {CHOOSE x \in s : TRUE}] + l[CHOOSE x \in s : TRUE].size]

\* The fold that BytesOf is adds up the sizes in any order: all are the same.
LEMMA BytesAre ==
    ASSUME NEW l, NEW S, IsFiniteSet(S), \A k \in S : l[k].size = PacketSize
    PROVE  BytesOf(l, S) = Weight(S)
<1> DEFINE any(s) == CHOOSE x \in s : TRUE
           w == [s \in SUBSET S |-> Weight(s)]
<1>1. \A s \in SUBSET S : IsFiniteSet(s) /\ Weight(s) \in Nat
  BY FS_Subset, WeightType
<1>2. ASSUME NEW s \in SUBSET S, s # {}
      PROVE  /\ any(s) \in s /\ s \ {any(s)} \in SUBSET S
             /\ l[any(s)].size = PacketSize
             /\ Weight(s) = Weight(s \ {any(s)}) + PacketSize
             /\ Cardinality(s) \in Nat /\ Cardinality(s \ {any(s)}) = Cardinality(s) - 1
  <2>1. any(s) \in s
    BY <1>2
  <2> HIDE DEF any
  <2>2. Weight(s) = Weight(s \ {any(s)}) + PacketSize
    BY <1>1, <2>1, WeightRemove
  <2>3. Cardinality(s) \in Nat /\ Cardinality(s \ {any(s)}) = Cardinality(s) - 1
    BY <1>1, <2>1, FS_RemoveElement, FS_CardinalityType
  <2> QED BY <2>1, <2>2, <2>3
<1>3. FoldOn(l, SUBSET S, w)
  <2>1. \A s \in SUBSET S : w[s] = IF s = {} THEN 0 ELSE w[s \ {any(s)}] + l[any(s)].size
    <3> SUFFICES ASSUME NEW s \in SUBSET S
                 PROVE  Weight(s) = IF s = {} THEN 0 ELSE w[s \ {any(s)}] + l[any(s)].size
      OBVIOUS
    <3>1. CASE s = {}
      BY <3>1, WeightEmpty
    <3>2. CASE s # {}
      <4> HIDE DEF any
      <4> QED BY <1>2, <3>2
    <3> QED BY <3>1, <3>2
  <2> QED BY <2>1 DEF FoldOn
<1>4. ASSUME NEW g, FoldOn(l, SUBSET S, g) PROVE g[S] = Weight(S)
  <2>1. \A s \in SUBSET S : g[s] = IF s = {} THEN 0 ELSE g[s \ {any(s)}] + l[any(s)].size
    BY <1>4 DEF FoldOn
  <2> DEFINE T == {k \in Nat : \A s \in SUBSET S : Cardinality(s) = k => g[s] = Weight(s)}
  <2> HIDE DEF any
  <2>2. 0 \in T
    <3> SUFFICES ASSUME NEW s \in SUBSET S, Cardinality(s) = 0 PROVE g[s] = Weight(s)
      OBVIOUS
    <3>1. s = {}
      BY <1>1, FS_EmptySet
    <3> QED BY <2>1, <3>1, WeightEmpty
  <2>3. ASSUME NEW k \in T PROVE k + 1 \in T
    <3> SUFFICES ASSUME NEW s \in SUBSET S, Cardinality(s) = k + 1 PROVE g[s] = Weight(s)
      OBVIOUS
    <3>0. k \in Nat
      OBVIOUS
    <3>1. s # {}
      <4>1. Cardinality({}) = 0
        BY FS_EmptySet
      <4> QED BY <3>0, <4>1
    <3>2. Cardinality(s \ {any(s)}) = k /\ s \ {any(s)} \in SUBSET S
      <4>1. /\ Cardinality(s \ {any(s)}) = Cardinality(s) - 1
            /\ s \ {any(s)} \in SUBSET S
        BY <1>2, <3>1
      <4> QED BY <3>0, <4>1
    <3>3. g[s \ {any(s)}] = Weight(s \ {any(s)})
      BY <3>2
    <3> QED BY <1>2, <2>1, <3>1, <3>3
  <2>4. T = Nat
    <3>1. T \in SUBSET Nat
      OBVIOUS
    <3> HIDE DEF T
    <3> QED BY <2>2, <2>3, <3>1, Induct
  <2>5. Cardinality(S) \in T
    BY <2>4, FS_CardinalityType
  <2> QED BY <2>5
<1>5. BytesOf(l, S) = (CHOOSE g : FoldOn(l, SUBSET S, g))[S]
  BY DEF BytesOf, FX!FoldSet, FX!MapThenFoldSet, FoldOn
<1>6. FoldOn(l, SUBSET S, CHOOSE g : FoldOn(l, SUBSET S, g))
  <2> HIDE DEF w
  <2> QED BY <1>3
<1> QED BY <1>4, <1>5, <1>6

\* Numbers in half of the space are found again from their remainder.
LEMMA SmallMod ==
    ASSUME NEW x \in Int
    PROVE  /\ x \in 0 .. SeqSpace - 1 => x % SeqSpace = x
           /\ -x \in 1 .. SeqSpace - 1 => x % SeqSpace = x + SeqSpace
<1>1. SeqSpace \in Nat /\ SeqSpace > 0
  BY SeqSpaceAssumption
<1>2. ASSUME NEW r \in 0 .. SeqSpace - 1, NEW q \in {0, -1}
      PROVE  (q * SeqSpace + r) % SeqSpace = r
  BY <1>1, <1>2
<1>3. x \in 0 .. SeqSpace - 1 => x % SeqSpace = x
  BY <1>1
<1>4. -x \in 1 .. SeqSpace - 1 => x % SeqSpace = x + SeqSpace
  BY <1>1
<1> QED BY <1>3, <1>4

LEMMA HalfType == Half \in Nat /\ Half > 0 /\ Half + Half = SeqSpace
BY SeqSpaceAssumption DEF Half

LEMMA UnwrapsExactly ==
    ASSUME NEW last \in 0 .. Half - 1, NEW v \in 0 .. Half - 1
    PROVE  v % SeqSpace = v /\ Unwrap(last, v) = v
<1>1. last % SeqSpace = last /\ v % SeqSpace = v
  BY HalfType, SmallMod
<1>2. CASE v > last
  <2>1. (v - last) % SeqSpace = v - last /\ v - last < Half
    BY <1>2, HalfType, SmallMod
  <2> QED BY <1>1, <1>2, <2>1, HalfType DEF Unwrap, IsNewer
<1>3. CASE v < last
  <2>1. (v - last) % SeqSpace = v - last + SeqSpace /\ v - last + SeqSpace > Half
    BY <1>3, HalfType, SmallMod
  <2> QED BY <1>1, <1>3, <2>1, HalfType DEF Unwrap, IsNewer
<1>4. CASE v = last
  BY <1>1, <1>4, HalfType DEF Unwrap, IsNewer
<1> QED BY <1>1, <1>2, <1>3, <1>4

Records == [size : {PacketSize}, ts : Nat]

\* The packets after the last one reported on.
Ahead(h) == {k \in DOMAIN h.l : k > h.last_ack_seq_num}

\* What is counted as under way and is not.
Excess(h) == h.outstanding_bytes - Weight(Ahead(h))

\* A history of n packets sent.  The first packet and, with the third, the
\* second are never taken off; from then on a report is on record.
HistFits(h, n) ==
    /\ h \in [l : {h.l}, outstanding_bytes : Nat, last_ack_seq_num : Nat, last_value : Nat]
    /\ h.l \in [DOMAIN h.l -> Records]
    /\ DOMAIN h.l \subseteq 0 .. n - 1
    /\ h.last_ack_seq_num \in 0 .. Greater(n - 1, 0)
    /\ h.last_value \in 0 .. Greater(n - 1, 0)
    /\ Excess(h) \in {0, PacketSize, 2 * PacketSize}
    /\ n = 0 => Excess(h) = 0
    /\ n <= 2 => Excess(h) <= PacketSize
    /\ n > 2 => h.last_ack_seq_num > 0

\* The bytes of packets of a history are their number times the size.
LEMMA HistoryBytes ==
    ASSUME NEW h, NEW n \in Nat, HistFits(h, n), NEW S \in SUBSET DOMAIN h.l
    PROVE  IsFiniteSet(S) /\ BytesOf(h.l, S) = Weight(S) /\ Weight(S) \in Nat
<1>1. IsFiniteSet(S)
  <2>1. S \in SUBSET (0 .. n - 1) /\ IsFiniteSet(0 .. n - 1)
    <3>1. 0 \in Int /\ n - 1 \in Int
      OBVIOUS
    <3>2. IsFiniteSet(0 .. n - 1)
      BY <3>1, FS_Interval
    <3> QED BY <3>2 DEF HistFits
  <2> QED BY <2>1, FS_Subset
<1>2. \A k \in S : h.l[k].size = PacketSize
  BY DEF HistFits, Records
<1> QED BY <1>1, <1>2, BytesAre, WeightType

\* Taking packets off the count: those ahead are split.
LEMMA AheadSplits ==
    ASSUME NEW h, NEW n \in Nat, HistFits(h, n), NEW S \in SUBSET Ahead(h)
    PROVE  /\ Weight(Ahead(h)) = Weight(S) + Weight(Ahead(h) \ S)
           /\ {Weight(S), Weight(Ahead(h) \ S)} \subseteq Nat
           /\ BytesOf(h.l, S) = Weight(S)
<1>1. Ahead(h) \in SUBSET DOMAIN h.l
  BY DEF Ahead
<1>2. IsFiniteSet(S) /\ IsFiniteSet(Ahead(h) \ S)
      /\ {Weight(S), Weight(Ahead(h) \ S)} \subseteq Nat /\ BytesOf(h.l, S) = Weight(S)
  <2>1. S \in SUBSET DOMAIN h.l /\ Ahead(h) \ S \in SUBSET DOMAIN h.l
    BY <1>1
  <2> QED BY <2>1, HistoryBytes
<1>3. S \union (Ahead(h) \ S) = Ahead(h) /\ S \cap (Ahead(h) \ S) = {}
  OBVIOUS
<1>4. Weight(S \union (Ahead(h) \ S)) = Weight(S) + Weight(Ahead(h) \ S)
  BY <1>2, <1>3, WeightUnion
<1> QED BY <1>2, <1>3, <1>4

\* The state of a history is within its bounds as soon as the excess is kept.
LEMMA HistMoves ==
    ASSUME NEW h, NEW n \in Nat, HistFits(h, n), NEW g, NEW S \in SUBSET Ahead(h),
           g \in [l : {g.l}, outstanding_bytes : Int, last_ack_seq_num : Nat, last_value : Nat],
           g.l \in [DOMAIN g.l -> Records], DOMAIN g.l \subseteq DOMAIN h.l,
           g.outstanding_bytes = h.outstanding_bytes - Weight(S),
           Ahead(g) = Ahead(h) \ S,
           g.last_ack_seq_num >= h.last_ack_seq_num,
           g.last_ack_seq_num \in 0 .. Greater(n - 1, 0),
           g.last_value \in 0 .. Greater(n - 1, 0)
    PROVE  HistFits(g, n)
<1>1. /\ Weight(Ahead(h)) = Weight(S) + Weight(Ahead(h) \ S)
      /\ Weight(S) \in Nat /\ Weight(Ahead(h) \ S) \in Nat
  BY AheadSplits
<1>2. h.outstanding_bytes \in Nat /\ Excess(h) \in {0, PacketSize, 2 * PacketSize}
  BY DEF HistFits
<1>3. Excess(g) = Excess(h)
  BY <1>1, <1>2 DEF Excess
<1>4. g.outstanding_bytes = Excess(h) + Weight(Ahead(h) \ S)
  BY <1>1, <1>2 DEF Excess
<1>5. g.outstanding_bytes \in Nat
  BY <1>1, <1>2, <1>4, SizeType
<1>6. /\ h.last_ack_seq_num \in Nat /\ g.last_ack_seq_num \in Nat
      /\ n > 2 => h.last_ack_seq_num > 0
      /\ DOMAIN h.l \subseteq 0 .. n - 1
      /\ n = 0 => Excess(h) = 0
      /\ n <= 2 => Excess(h) <= PacketSize
  BY DEF HistFits
<1>7. g \in [l : {g.l}, outstanding_bytes : Nat, last_ack_seq_num : Nat, last_value : Nat]
  BY <1>5
<1> HIDE DEF Excess
<1> QED BY <1>2, <1>3, <1>6, <1>7 DEF HistFits

\* sender_history_get on a number below n: it is the one meant, and what was
\* ahead of it is off the count.
LEMMA HistoryGetFits ==
    ASSUME NEW h, NEW n \in 1 .. Half, HistFits(h, n), NEW v \in 0 .. n - 1
    PROVE  LET got == HistoryGet(h, v, FALSE)
           IN  /\ got.key = v /\ (got.found <=> v \in DOMAIN h.l)
               /\ HistFits(got.h, n) /\ got.h.l = h.l /\ got.h.last_value = v
<1> DEFINE got == HistoryGet(h, v, FALSE)
           S   == {k \in DOMAIN h.l : h.last_ack_seq_num < k /\ k <= v}
           g   == got.h
<1>1. n \in Nat /\ v \in Nat /\ Greater(n - 1, 0) = n - 1 /\ v \in 0 .. Half - 1
  BY HalfType DEF Greater
<1>2. /\ h \in [l : {h.l}, outstanding_bytes : Nat, last_ack_seq_num : Nat, last_value : Nat]
      /\ h.l \in [DOMAIN h.l -> Records] /\ DOMAIN h.l \subseteq 0 .. n - 1
      /\ h.last_ack_seq_num \in 0 .. n - 1 /\ h.last_value \in 0 .. n - 1
  BY <1>1 DEF HistFits
<1>3. Unwrap(h.last_value, v) = v
  BY <1>1, <1>2, HalfType, UnwrapsExactly
<1>4. [k \in DOMAIN h.l \ {} |-> h.l[k]] = h.l
  BY <1>2
<1> DEFINE key    == Unwrap(h.last_value, v)
           passed == {k \in DOMAIN h.l : h.last_ack_seq_num < k /\ k <= key}
<1>5. g = [h EXCEPT !.last_value = key, !.outstanding_bytes = @ - BytesOf(h.l, passed),
                    !.last_ack_seq_num = IF key > @ THEN key ELSE @,
                    !.l = [k \in DOMAIN @ \ {} |-> @[k]]]
  BY DEF HistoryGet
<1>6. S \in SUBSET Ahead(h) /\ \A k \in DOMAIN h.l : k \in Nat
  BY <1>1, <1>2 DEF Ahead
<1>7. BytesOf(h.l, S) = Weight(S) /\ Weight(S) \in Nat
  <2> HIDE DEF S
  <2> QED BY <1>1, <1>6, AheadSplits
<1> DEFINE top == IF v > h.last_ack_seq_num THEN v ELSE h.last_ack_seq_num
<1>8. /\ g.l = h.l /\ g.last_value = v /\ g.last_ack_seq_num = top
      /\ g.outstanding_bytes = h.outstanding_bytes - Weight(S)
      /\ g \in [l : {g.l}, outstanding_bytes : Int, last_ack_seq_num : Nat, last_value : Nat]
  <2>1. key = v /\ passed = S
    BY <1>3
  <2> HIDE DEF S, g, key, passed
  <2>2. /\ g.l = h.l /\ g.last_value = v /\ g.last_ack_seq_num = top
        /\ g.outstanding_bytes = h.outstanding_bytes - Weight(S)
    BY <1>1, <1>2, <1>4, <1>5, <1>7, <2>1
  <2>3. DOMAIN g = DOMAIN h
    BY <1>5
  <2>4. g = [l |-> g.l, outstanding_bytes |-> g.outstanding_bytes,
             last_ack_seq_num |-> g.last_ack_seq_num, last_value |-> g.last_value]
    BY <1>2, <1>5, <2>3
  <2> QED BY <1>1, <1>2, <1>7, <2>2, <2>4
<1>9. Ahead(g) = Ahead(h) \ S
  <2> HIDE DEF g
  <2>1. \A k \in DOMAIN h.l : k > top <=> k > h.last_ack_seq_num /\ ~(h.last_ack_seq_num < k /\ k <= v)
    BY <1>1, <1>2, <1>6
  <2>2. Ahead(g) = {k \in DOMAIN h.l : k > top}
    BY <1>8 DEF Ahead
  <2> QED BY <2>1, <2>2 DEF Ahead
<1>10. top \in 0 .. n - 1 /\ top >= h.last_ack_seq_num
  BY <1>1, <1>2
<1>11. HistFits(g, n)
  <2> HIDE DEF g, S, top
  <2> QED BY <1>1, <1>2, <1>6, <1>8, <1>9, <1>10, HistMoves
<1>12. got.key = v /\ (got.found <=> v \in DOMAIN h.l)
  BY <1>3 DEF HistoryGet
<1> QED BY <1>8, <1>11, <1>12

\* Forgetting the packets that are too old: they are the first, so the ones
\* ahead of the last forgotten are the ones ahead that are left.
LEMMA ForgetFits ==
    ASSUME NEW h, NEW n \in Nat, HistFits(h, n), NEW ts \in Nat
    PROVE  LET g == Forget(h, TooOld(h.l, ts))
           IN  HistFits(g, n) /\ g.last_value = h.last_value
<1> DEFINE keys == TooOld(h.l, ts)
           pending == {k \in keys : k > h.last_ack_seq_num}
           top == IF pending = {} THEN h.last_ack_seq_num ELSE FX!Max(pending)
           g == Forget(h, keys)
           b == Greater(n - 1, 0)
<1>1. /\ h \in [l : {h.l}, outstanding_bytes : Nat, last_ack_seq_num : Nat, last_value : Nat]
      /\ h.l \in [DOMAIN h.l -> Records] /\ DOMAIN h.l \subseteq 0 .. n - 1
      /\ h.last_ack_seq_num \in 0 .. b /\ h.last_value \in 0 .. b
      /\ b \in Nat /\ 0 .. n - 1 \subseteq 0 .. b
  BY DEF HistFits, Greater
<1>2. /\ keys \subseteq DOMAIN h.l
      /\ \A k \in keys, j \in DOMAIN h.l : j <= k => j \in keys
  <2>1. ASSUME NEW k \in keys, NEW j \in DOMAIN h.l, j <= k PROVE j \in keys
    <3>1. \A i \in DOMAIN h.l : i <= j => i <= k
      BY <1>1, <2>1 DEF TooOld
    <3> QED BY <2>1, <3>1 DEF TooOld
  <2> QED BY <2>1 DEF TooOld
<1> HIDE DEF keys
<1>3. /\ top \in 0 .. b /\ top >= h.last_ack_seq_num
      /\ \A k \in pending : k <= top
      /\ pending # {} => top \in pending
  <2>1. CASE pending = {}
    BY <1>1, <2>1
  <2>2. CASE pending # {}
    <3>1. pending \in SUBSET (0 .. b)
      BY <1>1, <1>2
    <3>2. FX!Max(pending) \in pending /\ \A k \in pending : k <= FX!Max(pending)
      <4>1. PICK m \in pending : \A k \in pending : k <= m
        <5> HIDE DEF pending, b
        <5> QED BY <1>1, <2>2, <3>1, GreatestNat
      <4>2. \A k \in pending : m >= k
        BY <3>1, <4>1
      <4> DEFINE top2 == CHOOSE x \in pending : \A y \in pending : x >= y
      <4>3. top2 \in pending /\ \A y \in pending : top2 >= y
        <5> HIDE DEF pending
        <5> QED BY <4>2
      <4>4. FX!Max(pending) = top2
        <5> HIDE DEF pending
        <5> QED BY DEF FX!Max
      <4> QED BY <3>1, <4>3, <4>4
    <3> HIDE DEF b
    <3> QED BY <1>1, <2>2, <3>1, <3>2
  <2> QED BY <2>1, <2>2
<1>4. pending \in SUBSET Ahead(h)
  BY <1>2 DEF Ahead
<1>5. BytesOf(h.l, pending) = Weight(pending) /\ Weight(pending) \in Nat
  <2> HIDE DEF pending
  <2> QED BY <1>4, AheadSplits
<1>6. g = [h EXCEPT !.l = [k \in DOMAIN @ \ keys |-> @[k]],
                    !.outstanding_bytes = @ - BytesOf(h.l, pending),
                    !.last_ack_seq_num = top]
  BY DEF Forget
<1> HIDE DEF g, top
<1>7. /\ g.l = [k \in DOMAIN h.l \ keys |-> h.l[k]]
      /\ g.last_value = h.last_value /\ g.last_ack_seq_num = top
      /\ g.outstanding_bytes = h.outstanding_bytes - Weight(pending)
      /\ g = [l |-> g.l, outstanding_bytes |-> g.outstanding_bytes,
              last_ack_seq_num |-> g.last_ack_seq_num, last_value |-> g.last_value]
  <2> HIDE DEF pending
  <2> QED BY <1>1, <1>5, <1>6
<1>8. DOMAIN g.l = DOMAIN h.l \ keys /\ g.l \in [DOMAIN g.l -> Records]
  BY <1>1, <1>7
<1>9. Ahead(g) = Ahead(h) \ pending
  <2>1. ASSUME NEW k \in DOMAIN h.l, k \notin keys, k > h.last_ack_seq_num PROVE k > top
    <3>1. CASE pending = {}
      BY <2>1, <3>1 DEF top
    <3>2. CASE pending # {}
      <4>1. top \in keys /\ k \in Nat /\ top \in Nat
        BY <1>1, <1>3, <3>2
      <4>2. ~(k <= top)
        BY <1>2, <2>1, <4>1
      <4> QED BY <4>1, <4>2
    <3> QED BY <3>1, <3>2
  <2>2. ASSUME NEW k \in DOMAIN h.l, k > top PROVE k > h.last_ack_seq_num
    BY <1>1, <1>3, <2>2
  <2>3. Ahead(g) = {k \in DOMAIN h.l \ keys : k > top}
    BY <1>7, <1>8 DEF Ahead
  <2> QED BY <2>1, <2>2, <2>3 DEF Ahead
<1>10. g \in [l : {g.l}, outstanding_bytes : Int, last_ack_seq_num : Nat, last_value : Nat]
  <2> HIDE DEF pending
  <2> QED BY <1>1, <1>3, <1>5, <1>7
<1>11. HistFits(g, n)
  <2> HIDE DEF pending
  <2> QED BY <1>1, <1>3, <1>4, <1>7, <1>8, <1>9, <1>10, HistMoves
<1> QED BY <1>7, <1>11 DEF g, keys

\* sender_history_add of packet n: only the first three can add to the excess.
LEMMA HistoryAddFits ==
    ASSUME NEW h, NEW n \in 0 .. Half - 1, HistFits(h, n), NEW ts \in Nat
    PROVE  HistFits(HistoryAdd(h, n % SeqSpace, PacketSize, ts), n + 1)
<1> DEFINE kept == Forget(h, TooOld(h.l, ts))
           g == HistoryAdd(h, n % SeqSpace, PacketSize, ts)
           top == IF kept.last_ack_seq_num = 0 /\ n > 0 THEN n - 1 ELSE kept.last_ack_seq_num
           key == Unwrap(kept.last_value, n % SeqSpace)
<1> SUFFICES HistFits(g, n + 1)
  OBVIOUS
<1>1. n \in Nat /\ HistFits(kept, n)
  BY HalfType, ForgetFits
<1> HIDE DEF kept
<1>2. /\ kept \in [l : {kept.l}, outstanding_bytes : Nat, last_ack_seq_num : Nat, last_value : Nat]
      /\ kept.l \in [DOMAIN kept.l -> Records] /\ DOMAIN kept.l \subseteq 0 .. n - 1
      /\ kept.last_ack_seq_num \in 0 .. Greater(n - 1, 0)
      /\ kept.last_value \in 0 .. Half - 1
      /\ kept.last_ack_seq_num \in Nat /\ kept.last_ack_seq_num <= n
      /\ n > 0 => kept.last_ack_seq_num < n
  BY <1>1, HalfType DEF HistFits, Greater
<1>3. n % SeqSpace = n /\ key = n
  BY <1>2, UnwrapsExactly
<1>4. g = [kept EXCEPT !.last_value = key,
                       !.l = [k \in DOMAIN @ \union {key} |->
                                IF k = key THEN [size |-> PacketSize, ts |-> ts] ELSE @[k]],
                       !.outstanding_bytes = @ + PacketSize,
                       !.last_ack_seq_num = IF @ = 0 /\ n % SeqSpace > 0 THEN (n % SeqSpace) - 1 ELSE @]
  BY DEF HistoryAdd, kept
<1> HIDE DEF g, key
<1>5. /\ g.l = [k \in DOMAIN kept.l \union {n} |->
                  IF k = n THEN [size |-> PacketSize, ts |-> ts] ELSE kept.l[k]]
      /\ g.last_value = n /\ g.last_ack_seq_num = top
      /\ g.outstanding_bytes = kept.outstanding_bytes + PacketSize
      /\ g = [l |-> g.l, outstanding_bytes |-> g.outstanding_bytes,
              last_ack_seq_num |-> g.last_ack_seq_num, last_value |-> g.last_value]
  BY <1>2, <1>3, <1>4
<1>6. /\ DOMAIN g.l = DOMAIN kept.l \union {n} /\ g.l \in [DOMAIN g.l -> Records]
      /\ DOMAIN g.l \subseteq 0 .. n
  <2>1. [size |-> PacketSize, ts |-> ts] \in Records
    BY DEF Records
  <2> QED BY <1>1, <1>2, <1>5, <2>1
<1>7. top \in 0 .. n /\ top >= kept.last_ack_seq_num /\ (n > 1 => top > 0)
  BY <1>1, <1>2
<1>8. g \in [l : {g.l}, outstanding_bytes : Nat, last_ack_seq_num : Nat, last_value : Nat]
  BY <1>1, <1>2, <1>5, <1>7, SizeType
<1>9. n \notin Ahead(kept) /\ IsFiniteSet(Ahead(kept)) /\ Weight(Ahead(kept)) \in Nat
  <2>1. Ahead(kept) \in SUBSET DOMAIN kept.l
    BY DEF Ahead
  <2> QED BY <1>1, <1>2, <2>1, HistoryBytes
<1>10. CASE top = kept.last_ack_seq_num /\ n > 0
  <2>1. Ahead(g) = Ahead(kept) \union {n}
    BY <1>1, <1>2, <1>5, <1>6, <1>10 DEF Ahead
  <2>2. Weight(Ahead(g)) = Weight(Ahead(kept)) + PacketSize
    BY <1>9, <2>1, WeightAdd
  <2>3. Excess(g) = Excess(kept)
    BY <1>2, <1>5, <1>9, <2>2, SizeType DEF Excess
  <2>4. /\ Excess(g) \in {0, PacketSize, 2 * PacketSize}
        /\ n + 1 <= 2 => Excess(g) <= PacketSize
    BY <1>1, <2>3 DEF HistFits
  <2>5. n + 1 > 2 => g.last_ack_seq_num > 0
    BY <1>1, <1>5, <1>7
  <2> QED BY <1>1, <1>5, <1>6, <1>7, <1>8, <1>10, <2>4, <2>5 DEF HistFits, Greater
<1>11. CASE n = 0
  <2>1. Ahead(kept) = {} /\ Ahead(g) = {}
    BY <1>2, <1>5, <1>6, <1>11 DEF Ahead
  <2>2. Excess(g) = Excess(kept) + PacketSize
    BY <1>2, <1>5, <2>1, WeightEmpty, SizeType DEF Excess
  <2>3. Excess(kept) = 0
    BY <1>1, <1>11 DEF HistFits
  <2> QED BY <1>5, <1>6, <1>7, <1>8, <1>11, <2>2, <2>3, SizeType DEF HistFits, Greater
<1>12. CASE n > 0 /\ top # kept.last_ack_seq_num
  <2>1. kept.last_ack_seq_num = 0 /\ top = n - 1 /\ n - 1 # 0 /\ n <= 2
    BY <1>1, <1>12 DEF HistFits
  <2>2. n = 2 /\ top = 1
    BY <1>1, <1>12, <2>1
  <2>3. Ahead(g) = {2}
    BY <1>2, <1>5, <1>6, <2>2 DEF Ahead
  <2>4. Ahead(kept) \subseteq {1}
    BY <1>2, <2>1, <2>2 DEF Ahead
  <2>5. Weight({2}) = PacketSize /\ Weight(Ahead(kept)) \in {0, PacketSize}
    <3>1. \A x : Weight({} \union {x}) = Weight({}) + PacketSize
      BY FS_EmptySet, WeightAdd
    <3>2. \A x : Weight({x}) = PacketSize
      <4>1. \A x : {} \union {x} = {x}
        OBVIOUS
      <4> QED BY <3>1, <4>1, WeightEmpty, SizeType
    <3>3. Ahead(kept) = {} \/ Ahead(kept) = {1}
      BY <2>4
    <3> QED BY <3>2, <3>3, WeightEmpty
  <2>6. Excess(g) = kept.outstanding_bytes /\ kept.outstanding_bytes \in Nat
    BY <1>2, <1>5, <2>3, <2>5, SizeType DEF Excess
  <2>7. Excess(kept) = kept.outstanding_bytes - Weight(Ahead(kept)) /\ Excess(kept) \in {0, PacketSize}
    <3>1. Excess(kept) \in {0, PacketSize, 2 * PacketSize} /\ Excess(kept) <= PacketSize
      BY <1>1, <2>2 DEF HistFits
    <3> QED BY <3>1, SizeType DEF Excess
  <2>8. Excess(g) \in {0, PacketSize, 2 * PacketSize}
    BY <2>5, <2>6, <2>7, SizeType
  <2> HIDE DEF Excess
  <2> QED BY <1>5, <1>6, <1>8, <2>2, <2>8 DEF HistFits, Greater
<1> QED BY <1>1, <1>10, <1>11, <1>12

-----------------------------------------------------------------------------
(* The sampler *)

Points ==
    [send_ts : Nat, size : {PacketSize}, total_sent : Nat, acked_before : Nat,
     sent_at_last_ack : Nat, last_ack_ts : Int, last_ack_sent_ts : Int, is_app_limited : BOOLEAN]

Samplers(points) ==
    [total_data_sent : Nat, total_data_acked : Nat, sent_at_last_ack : Nat,
     last_ack_sent_ts : Int, last_ack_ts : Int, last_sent : Nat,
     is_app_limited : BOOLEAN, end_of_app_limited : Nat,
     start_pos : Int, index : Int, points : {points}]

\* The counts a point was made with are not above the ones of now.
PointFits(p, s) ==
    /\ p.acked_before <= s.total_data_acked
    /\ p.sent_at_last_ack <= p.total_sent
    /\ p.total_sent <= s.total_data_sent

\* The points lie in the window of the sampler.
WindowHolds(s) ==
    /\ s.start_pos >= -1
    /\ s.start_pos = -1 => DOMAIN s.points = {}
    /\ \A k \in DOMAIN s.points : s.start_pos <= k /\ k <= s.index

\* A sampler that has seen n packets sent, those in got arrive.  What counts as
\* acknowledged has arrived and has no point any more.
SamplerFits(s, n, got) ==
    /\ s \in Samplers(s.points)
    /\ s.points \in [DOMAIN s.points -> Points]
    /\ DOMAIN s.points \subseteq 0 .. n - 1
    /\ WindowHolds(s)
    /\ s.sent_at_last_ack <= s.total_data_sent
    /\ \A k \in DOMAIN s.points : PointFits(s.points[k], s)
    /\ s.total_data_acked <= Weight(got \ DOMAIN s.points)
    /\ s.total_data_acked + Weight(DOMAIN s.points) <= s.total_data_sent

LEMMA NumbersFinite ==
    ASSUME NEW n \in Nat, NEW S \in SUBSET (0 .. n - 1)
    PROVE  IsFiniteSet(S) /\ Weight(S) \in Nat
<1>1. 0 \in Int /\ n - 1 \in Int
  OBVIOUS
<1>2. IsFiniteSet(S)
  BY <1>1, FS_Interval, FS_Subset
<1> QED BY <1>2, WeightType

\* Points may leave.
LEMMA PointsLeave ==
    ASSUME NEW n \in Nat, NEW got \in SUBSET (0 .. n - 1), NEW s, SamplerFits(s, n, got),
           NEW d, d \in Samplers(d.points), DOMAIN d.points \subseteq DOMAIN s.points,
           d.points = [k \in DOMAIN d.points |-> s.points[k]], WindowHolds(d),
           d.total_data_sent = s.total_data_sent, d.total_data_acked = s.total_data_acked,
           d.sent_at_last_ack <= d.total_data_sent
    PROVE  SamplerFits(d, n, got)
<1> DEFINE P == DOMAIN s.points
           Q == DOMAIN d.points
<1>1. /\ s \in Samplers(s.points) /\ s.points \in [P -> Points] /\ P \subseteq 0 .. n - 1
      /\ \A k \in P : PointFits(s.points[k], s)
      /\ s.total_data_acked <= Weight(got \ P)
      /\ s.total_data_acked + Weight(P) <= s.total_data_sent
      /\ s.total_data_acked \in Nat /\ s.total_data_sent \in Nat
  BY DEF SamplerFits, Samplers
<1>2. d.points \in [Q -> Points] /\ \A k \in Q : PointFits(d.points[k], d)
  BY <1>1 DEF PointFits
<1>3. Weight(Q) <= Weight(P) /\ {Weight(P), Weight(Q)} \subseteq Nat
  <2>1. IsFiniteSet(P) /\ Weight(P) \in Nat /\ Weight(Q) \in Nat
    BY <1>1, NumbersFinite
  <2> QED BY <2>1, WeightSubset
<1>4. Weight(got \ P) <= Weight(got \ Q)
      /\ {Weight(got \ P), Weight(got \ Q)} \subseteq Nat
  <2>1. got \ P \subseteq got \ Q
    OBVIOUS
  <2>2. IsFiniteSet(got \ Q) /\ Weight(got \ Q) \in Nat /\ Weight(got \ P) \in Nat
    BY NumbersFinite
  <2> QED BY <2>1, <2>2, WeightSubset
<1> QED BY <1>1, <1>2, <1>3, <1>4 DEF SamplerFits

\* sampler_remove_point.
LEMMA RemovePointFits ==
    ASSUME NEW n \in Nat, NEW got \in SUBSET (0 .. n - 1), NEW s, SamplerFits(s, n, got),
           NEW number \in Nat
    PROVE  /\ SamplerFits(RemovePoint(s, number), n, got)
           /\ RemovePoint(s, number).total_data_acked = s.total_data_acked
<1> DEFINE d == RemovePoint(s, number)
<1>1. CASE s.start_pos > number \/ s.index < number
  BY <1>1 DEF RemovePoint
<1>2. CASE ~(s.start_pos > number \/ s.index < number)
  <2> DEFINE start == IF s.start_pos = number /\ s.index > number
                      THEN s.start_pos + 1 ELSE s.start_pos
  <2>1. d = [s EXCEPT !.points = [k \in DOMAIN @ \ {number} |-> @[k]], !.start_pos = start]
    BY <1>2 DEF RemovePoint
  <2>2. /\ s \in Samplers(s.points) /\ DOMAIN s.points \subseteq 0 .. n - 1
        /\ WindowHolds(s) /\ s.sent_at_last_ack <= s.total_data_sent
        /\ s.start_pos \in Int /\ s.index \in Int /\ start \in Int
    BY DEF SamplerFits, Samplers
  <2> HIDE DEF d, start
  <2>3. /\ d.points = [k \in DOMAIN s.points \ {number} |-> s.points[k]]
        /\ d.start_pos = start
        /\ d.index = s.index /\ d.total_data_acked = s.total_data_acked
        /\ d.total_data_sent = s.total_data_sent /\ d.sent_at_last_ack = s.sent_at_last_ack
    BY <2>1, <2>2 DEF Samplers
  <2>4. d \in Samplers(d.points)
    BY <2>1, <2>2 DEF Samplers
  <2>5. WindowHolds(d)
    BY <2>2, <2>3 DEF WindowHolds, start
  <2>6. SamplerFits(d, n, got)
    BY <2>2, <2>3, <2>4, <2>5, PointsLeave
  <2> QED BY <2>3, <2>6 DEF d
<1> QED BY <1>1, <1>2

\* What lies before a number leaves.
LEMMA RemoveOldFits ==
    ASSUME NEW n \in Nat, NEW got \in SUBSET (0 .. n - 1), NEW s, SamplerFits(s, n, got),
           NEW least \in Nat
    PROVE  SamplerFits(SamplerRemoveOld(s, least), n, got)
<1> DEFINE d == SamplerRemoveOld(s, least)
           first == Greater(s.start_pos, Lesser(least, s.index))
<1>1. /\ s \in Samplers(s.points) /\ DOMAIN s.points \subseteq 0 .. n - 1
      /\ WindowHolds(s) /\ s.sent_at_last_ack <= s.total_data_sent
      /\ s.start_pos \in Int /\ s.index \in Int /\ s.start_pos >= -1
  BY DEF SamplerFits, Samplers, WindowHolds
<1>2. first \in Int /\ first >= s.start_pos
  BY <1>1 DEF Greater, Lesser
<1>3. d = [s EXCEPT !.start_pos = first,
                    !.points = [k \in {m \in DOMAIN @ : m >= first} |-> @[k]]]
  BY DEF SamplerRemoveOld
<1> SUFFICES SamplerFits(d, n, got)
  OBVIOUS
<1> HIDE DEF d, first
<1>4. /\ d.points = [k \in {m \in DOMAIN s.points : m >= first} |-> s.points[k]]
      /\ d.start_pos = first
      /\ d.index = s.index /\ d.total_data_acked = s.total_data_acked
      /\ d.total_data_sent = s.total_data_sent /\ d.sent_at_last_ack = s.sent_at_last_ack
  BY <1>1, <1>3 DEF Samplers
<1>5. d \in Samplers(d.points)
  BY <1>1, <1>2, <1>3 DEF Samplers
<1>6. WindowHolds(d)
  BY <1>1, <1>2, <1>4 DEF WindowHolds
<1> QED BY <1>1, <1>4, <1>5, <1>6, PointsLeave

LEMMA AppLimitedFits ==
    ASSUME NEW n \in Nat, NEW got \in SUBSET (0 .. n - 1), NEW s, SamplerFits(s, n, got)
    PROVE  SamplerFits(SamplerAppLimited(s), n, got)
BY DEF SamplerAppLimited, SamplerFits, Samplers, WindowHolds, PointFits

\* sampler_on_packet_sent: packet n gets a point.
LEMMA SamplerSentFits ==
    ASSUME NEW n \in Nat, NEW got \in SUBSET (0 .. n - 1), NEW s, SamplerFits(s, n, got),
           NEW ts \in Nat, NEW in_flight \in Nat
    PROVE  SamplerFits(SamplerSent(s, ts, n, PacketSize, in_flight), n + 1, got)
<1> DEFINE counted == [s EXCEPT !.last_sent = n, !.total_data_sent = @ + PacketSize]
           begun   == IF in_flight <= 0 THEN Restarted(counted, ts) ELSE counted
           d       == AddPoint(begun, ts, n, PacketSize)
           P       == DOMAIN s.points
<1> SUFFICES SamplerFits(d, n + 1, got)
  BY DEF SamplerSent
<1>1. /\ s \in Samplers(s.points) /\ s.points \in [P -> Points] /\ P \subseteq 0 .. n - 1
      /\ \A k \in P : PointFits(s.points[k], s)
      /\ s.total_data_acked <= Weight(got \ P)
      /\ s.total_data_acked + Weight(P) <= s.total_data_sent
      /\ s.sent_at_last_ack <= s.total_data_sent /\ WindowHolds(s)
  BY DEF SamplerFits
<1> DEFINE total == s.total_data_sent + PacketSize
<1>2. /\ counted \in Samplers(s.points)
      /\ counted.total_data_sent = total /\ total = s.total_data_sent + PacketSize
      /\ counted.total_data_acked = s.total_data_acked /\ counted.points = s.points
      /\ counted.start_pos = s.start_pos /\ counted.index = s.index
      /\ counted.sent_at_last_ack = s.sent_at_last_ack
  <2>1. total \in Nat /\ total = s.total_data_sent + PacketSize
    BY <1>1, SizeType DEF Samplers
  <2>2. counted = [s EXCEPT !.last_sent = n, !.total_data_sent = total]
    BY <1>1 DEF Samplers
  <2> HIDE DEF counted, total
  <2>3. counted \in Samplers(s.points)
    BY <1>1, <2>1, <2>2 DEF Samplers
  <2> QED BY <1>1, <2>1, <2>2, <2>3 DEF Samplers
<1> HIDE DEF counted, total
<1>3. /\ begun \in Samplers(s.points)
      /\ begun.total_data_sent = s.total_data_sent + PacketSize
      /\ begun.total_data_acked = s.total_data_acked /\ begun.points = s.points
      /\ begun.start_pos = s.start_pos /\ begun.index = s.index
      /\ begun.sent_at_last_ack <= begun.total_data_sent
  <2>1. CASE in_flight <= 0
    <3>1. begun = [counted EXCEPT !.last_ack_ts = ts, !.last_ack_sent_ts = ts,
                                  !.sent_at_last_ack = counted.total_data_sent]
      BY <2>1 DEF Restarted
    <3>2. counted.total_data_sent \in Nat /\ ts \in Int
      BY <1>2 DEF Samplers
    <3> HIDE DEF begun
    <3>3. begun \in Samplers(s.points)
      BY <1>2, <3>1, <3>2 DEF Samplers
    <3> QED BY <1>2, <3>1, <3>2, <3>3 DEF Samplers
  <2>2. CASE ~(in_flight <= 0)
    <3>1. begun = counted
      BY <2>2
    <3>2. s.sent_at_last_ack <= total
      BY <1>1, <1>2, SizeType DEF Samplers
    <3> QED BY <1>2, <3>1, <3>2
  <2> QED BY <2>1, <2>2
<1> HIDE DEF begun
<1>4. /\ IsFiniteSet(P) /\ {Weight(P), Weight(got \ P)} \subseteq Nat /\ n \notin P
      /\ n \notin got /\ s.total_data_acked \in Nat /\ s.total_data_sent \in Nat
      /\ s.start_pos \in Int /\ s.index \in Int
  <2>1. got \ P \subseteq 0 .. n - 1
    OBVIOUS
  <2> QED BY <1>1, <2>1, NumbersFinite DEF Samplers
<1>5. CASE n <= s.start_pos
  <2>1. d = begun
    BY <1>3, <1>5 DEF AddPoint
  <2>2. P \subseteq 0 .. n /\ \A k \in P : PointFits(begun.points[k], begun)
    BY <1>1, <1>3, <1>4, SizeType DEF PointFits, Points
  <2>3. s.total_data_acked + Weight(P) <= begun.total_data_sent
    BY <1>1, <1>3, <1>4, SizeType
  <2>4. WindowHolds(begun)
    BY <1>1, <1>3 DEF WindowHolds
  <2>5. (n + 1) - 1 = n
    OBVIOUS
  <2> QED BY <1>1, <1>3, <2>1, <2>2, <2>3, <2>4, <2>5 DEF SamplerFits
<1>6. CASE ~(n <= s.start_pos)
  <2> DEFINE start == IF s.start_pos = -1 THEN n ELSE s.start_pos
             pts   == [k \in P \union {n} |-> IF k = n THEN Point(begun, ts, PacketSize) ELSE s.points[k]]
  <2>1. d = [begun EXCEPT !.start_pos = start, !.index = n, !.points = pts]
    BY <1>3, <1>6 DEF AddPoint
  <2>2. start \in Int /\ start <= n /\ start >= -1
    BY <1>1, <1>4, <1>6 DEF WindowHolds
  <2> HIDE DEF d, start, pts
  <2>3. /\ d \in Samplers(pts) /\ d.points = pts /\ d.start_pos = start /\ d.index = n
        /\ d.total_data_sent = begun.total_data_sent
        /\ d.total_data_acked = s.total_data_acked
        /\ d.sent_at_last_ack = begun.sent_at_last_ack
    <3>1. DOMAIN begun = {"total_data_sent", "total_data_acked", "sent_at_last_ack",
                          "last_ack_sent_ts", "last_ack_ts", "last_sent", "is_app_limited",
                          "end_of_app_limited", "start_pos", "index", "points"}
      BY <1>3 DEF Samplers
    <3>0. n \in Int
      OBVIOUS
    <3>2. [begun EXCEPT !.start_pos = start, !.index = n] \in Samplers(s.points)
      <4>1. [begun EXCEPT !.start_pos = start] \in Samplers(s.points)
        BY <1>3, <2>2 DEF Samplers
      <4>2. \A b \in Samplers(s.points) : [b EXCEPT !.index = n] \in Samplers(s.points)
        BY <3>0 DEF Samplers
      <4>3. [begun EXCEPT !.start_pos = start, !.index = n]
              = [[begun EXCEPT !.start_pos = start] EXCEPT !.index = n]
        BY <1>3 DEF Samplers
      <4> QED BY <4>1, <4>2, <4>3
    <3>3. d = [[begun EXCEPT !.start_pos = start, !.index = n] EXCEPT !.points = pts]
      BY <1>3, <2>1, <3>1
    <3>4. d \in Samplers(pts)
      BY <3>2, <3>3 DEF Samplers
    <3> QED BY <1>3, <2>1, <2>2, <3>4 DEF Samplers
  <2>4. DOMAIN pts = P \union {n} /\ P \union {n} \subseteq 0 .. (n + 1) - 1
    BY <1>1 DEF pts
  <2>5. /\ Point(begun, ts, PacketSize) \in Points
        /\ PointFits(Point(begun, ts, PacketSize), begun)
    BY <1>3, SizeType DEF Point, Points, PointFits, Samplers
  <2>6. pts \in [P \union {n} -> Points]
    BY <1>1, <2>5 DEF pts
  <2>7. \A k \in P \union {n} : PointFits(pts[k], d)
    <3>1. \A k \in P : PointFits(s.points[k], d)
      BY <1>1, <1>3, <1>4, <2>3, SizeType DEF PointFits, Points
    <3>2. PointFits(Point(begun, ts, PacketSize), d)
      BY <1>3, <2>3, <2>5 DEF PointFits
    <3> QED BY <3>1, <3>2 DEF pts
  <2>8. WindowHolds(d)
    <3>1. \A k \in P : s.start_pos <= k /\ s.start_pos # -1 /\ k <= n
      BY <1>1, <1>4 DEF WindowHolds
    <3>2. \A k \in P \union {n} : start <= k /\ k <= n
      BY <2>2, <3>1 DEF start
    <3>3. start # -1
      BY <1>6 DEF start
    <3> QED BY <2>2, <2>3, <2>4, <3>2, <3>3 DEF WindowHolds
  <2>9. got \ (P \union {n}) = got \ P /\ Weight(P \union {n}) = Weight(P) + PacketSize
    BY <1>4, WeightAdd
  <2>10. s.total_data_acked + Weight(P \union {n}) <= d.total_data_sent
    BY <1>1, <1>3, <1>4, <2>3, <2>9, SizeType
  <2> QED BY <1>1, <1>3, <2>3, <2>4, <2>6, <2>7, <2>8, <2>9, <2>10 DEF SamplerFits
<1> QED BY <1>4, <1>5, <1>6

SampleTypes == [bandwidth : Nat, rtt : Int, is_app_limited : BOOLEAN]

LEMMA QuotientType ==
    ASSUME NEW a \in Nat, NEW b \in Nat, b > 0
    PROVE  a \div b \in Nat
<1>1. a \div b \in Int /\ a % b \in 0 .. b - 1 /\ a = b * (a \div b) + (a % b)
  OBVIOUS
<1>2. ~(a \div b < 0)
  <2> SUFFICES ASSUME a \div b <= -1 PROVE FALSE
    BY <1>1
  <2>1. b * (a \div b) <= b * (-1)
    BY <1>1
  <2> QED BY <1>1, <2>1
<1> QED BY <1>1, <1>2

\* The rate of an interval is never negative: no count falls while it lasts.
LEMMA SampleOfType ==
    ASSUME NEW p \in Points, NEW acked \in Nat, p.acked_before <= acked,
           p.sent_at_last_ack <= p.total_sent, NEW ack_ts \in Int
    PROVE  SampleOf(p, acked, ack_ts) \in SampleTypes
<1> DEFINE rate == IF p.send_ts > p.last_ack_sent_ts
                   THEN (p.total_sent - p.sent_at_last_ack) \div (p.send_ts - p.last_ack_sent_ts)
                   ELSE 2147483647
           gap == ack_ts - p.last_ack_ts
           sample(d) == [bandwidth |-> Lesser((acked - p.acked_before) \div d, rate),
                         rtt |-> ack_ts - p.send_ts, is_app_limited |-> p.is_app_limited]
<1>1. /\ p.send_ts \in Nat /\ p.last_ack_sent_ts \in Int /\ p.last_ack_ts \in Int
      /\ p.total_sent - p.sent_at_last_ack \in Nat /\ acked - p.acked_before \in Nat
      /\ p.is_app_limited \in BOOLEAN
  BY DEF Points
<1>2. rate \in Nat
  <2>1. CASE p.send_ts > p.last_ack_sent_ts
    <3>1. p.send_ts - p.last_ack_sent_ts \in Nat /\ p.send_ts - p.last_ack_sent_ts > 0
      BY <1>1, <2>1
    <3> QED BY <1>1, <2>1, <3>1, QuotientType
  <2>2. CASE ~(p.send_ts > p.last_ack_sent_ts)
    BY <2>2
  <2> QED BY <2>1, <2>2
<1>3. ASSUME NEW d \in Nat, d > 0 PROVE sample(d) \in SampleTypes
  <2>1. (acked - p.acked_before) \div d \in Nat
    BY <1>1, <1>3, QuotientType
  <2> HIDE DEF rate
  <2> QED BY <1>1, <1>2, <2>1 DEF SampleTypes, Lesser
<1>4. NoSample \in SampleTypes
  BY DEF NoSample, SampleTypes
<1>5. SampleOf(p, acked, ack_ts) \in {NoSample, sample(2)} \/ (gap > 2 /\ SampleOf(p, acked, ack_ts) = sample(gap))
  BY DEF SampleOf
<1>6. gap \in Int
  BY <1>1
<1> HIDE DEF sample, gap
<1> QED BY <1>3, <1>4, <1>5, <1>6

\* sampler_on_packet_acked: what is counted had a point and loses it.
LEMMA SamplerAckedFits ==
    ASSUME NEW n \in Nat, NEW got \in SUBSET (0 .. n - 1), NEW s, SamplerFits(s, n, got),
           NEW number \in got, NEW ack_ts \in Int
    PROVE  LET r == SamplerAcked(s, ack_ts, number)
           IN  /\ SamplerFits(r.smp, n, got)
               /\ r.sample \in SampleTypes
               /\ r.smp.total_data_acked >= s.total_data_acked
<1> DEFINE P     == DOMAIN s.points
           p     == s.points[number]
           acked == s.total_data_acked + p.size
           limit == s.is_app_limited /\ number <= s.end_of_app_limited
           after == [s EXCEPT !.total_data_acked = acked, !.sent_at_last_ack = p.total_sent,
                              !.last_ack_ts = ack_ts, !.last_ack_sent_ts = p.send_ts,
                              !.is_app_limited = @ /\ number <= s.end_of_app_limited]
           d     == RemovePoint(after, number)
<1>1. /\ s \in Samplers(s.points) /\ s.points \in [P -> Points] /\ P \subseteq 0 .. n - 1
      /\ \A k \in P : PointFits(s.points[k], s)
      /\ s.total_data_acked <= Weight(got \ P)
      /\ s.total_data_acked + Weight(P) <= s.total_data_sent
      /\ WindowHolds(s)
  BY DEF SamplerFits
<1>2. /\ s.total_data_acked \in Nat /\ s.total_data_sent \in Nat
      /\ s.start_pos \in Int /\ s.index \in Int /\ number \in Nat
  BY <1>1 DEF Samplers
<1>3. CASE number \notin P
  <2>1. NoSample \in SampleTypes
    BY DEF NoSample, SampleTypes
  <2>2. SamplerAcked(s, ack_ts, number) = [smp |-> s, sample |-> NoSample]
    BY <1>3 DEF SamplerAcked
  <2> QED BY <1>2, <2>1, <2>2
<1>4. CASE number \in P
  <2>1. SamplerAcked(s, ack_ts, number) = [smp |-> d, sample |-> SampleOf(p, acked, ack_ts)]
    BY <1>4 DEF SamplerAcked
  <2>2. /\ p \in Points /\ PointFits(p, s) /\ p.size = PacketSize
        /\ p.total_sent \in Nat /\ p.send_ts \in Int /\ p.acked_before \in Nat
        /\ acked = s.total_data_acked + PacketSize /\ acked \in Nat
    BY <1>1, <1>2, <1>4, SizeType DEF Points
  <2>3. SampleOf(p, acked, ack_ts) \in SampleTypes
    <3>1. p.acked_before <= acked /\ p.sent_at_last_ack <= p.total_sent
      BY <1>2, <2>2, SizeType DEF PointFits
    <3> HIDE DEF p, acked
    <3> QED BY <2>2, <3>1, SampleOfType
  <2>4. limit \in BOOLEAN /\ after = [s EXCEPT !.total_data_acked = acked,
                 !.sent_at_last_ack = p.total_sent, !.last_ack_ts = ack_ts,
                 !.last_ack_sent_ts = p.send_ts, !.is_app_limited = limit]
    BY <1>1 DEF Samplers
  <2> HIDE DEF p, acked, limit, after
  <2>5. after \in Samplers(s.points)
    BY <1>1, <2>2, <2>4 DEF Samplers
  <2>6. /\ after.points = s.points /\ after.start_pos = s.start_pos /\ after.index = s.index
        /\ after.total_data_acked = acked /\ after.sent_at_last_ack = p.total_sent
        /\ after.total_data_sent = s.total_data_sent
    BY <1>1, <2>4 DEF Samplers
  <2> DEFINE start == IF s.start_pos = number /\ s.index > number
                      THEN s.start_pos + 1 ELSE s.start_pos
             Q   == P \ {number}
             pts == [k \in Q |-> s.points[k]]
  <2>7. s.start_pos <= number /\ number <= s.index
    BY <1>1, <1>4 DEF WindowHolds
  <2>8. d = [after EXCEPT !.points = pts, !.start_pos = start]
    <3>1. ~(after.start_pos > number \/ after.index < number)
      BY <1>2, <2>6, <2>7
    <3> QED BY <2>5, <2>6, <3>1 DEF RemovePoint, Samplers
  <2>9. start \in Int
    BY <1>2
  <2> HIDE DEF d, start, pts
  <2>10. d \in Samplers(pts)
    BY <2>5, <2>8, <2>9 DEF Samplers
  <2>11. /\ d.points = pts /\ d.start_pos = start /\ d.index = s.index
         /\ d.total_data_acked = acked /\ d.sent_at_last_ack = p.total_sent
         /\ d.total_data_sent = s.total_data_sent
    BY <2>5, <2>6, <2>8 DEF Samplers
  <2>12. pts \in [Q -> Points] /\ DOMAIN pts = Q /\ Q \subseteq 0 .. n - 1
    BY <1>1 DEF pts
  <2>13. \A k \in Q : PointFits(pts[k], d)
    <3>1. \A k \in Q : s.points[k] \in Points /\ pts[k] = s.points[k]
      BY <1>1 DEF pts
    <3> QED BY <1>1, <1>2, <2>2, <2>11, <3>1, SizeType DEF PointFits, Points
  <2>14. WindowHolds(d)
    BY <1>1, <1>2, <2>7, <2>11, <2>12 DEF WindowHolds, start
  <2>15. /\ Weight(P) = Weight(Q) + PacketSize
         /\ Weight(got \ Q) = Weight(got \ P) + PacketSize
         /\ {Weight(P), Weight(Q), Weight(got \ P)} \subseteq Nat
    <3>1. IsFiniteSet(Q) /\ IsFiniteSet(got \ P) /\ {Weight(P), Weight(Q), Weight(got \ P)} \subseteq Nat
      <4>1. got \ P \subseteq 0 .. n - 1
        OBVIOUS
      <4> QED BY <1>1, <4>1, NumbersFinite
    <3>2. P = Q \union {number} /\ got \ Q = (got \ P) \union {number}
      BY <1>4
    <3>3. number \notin Q /\ number \notin got \ P
      BY <1>4
    <3> HIDE DEF Q
    <3> QED BY <3>1, <3>2, <3>3, WeightAdd
  <2>16. /\ acked <= Weight(got \ Q) /\ acked + Weight(Q) <= s.total_data_sent
         /\ p.total_sent <= s.total_data_sent
    BY <1>1, <1>2, <2>2, <2>15, SizeType DEF PointFits
  <2>17. SamplerFits(d, n, got)
    BY <2>10, <2>11, <2>12, <2>13, <2>14, <2>16 DEF SamplerFits
  <2>18. acked >= s.total_data_acked
    BY <1>2, <2>2, SizeType
  <2> QED BY <2>1, <2>3, <2>11, <2>17, <2>18
<1> QED BY <1>3, <1>4

-----------------------------------------------------------------------------
(* Walks: the loops over a feedback, a message or a cache *)

LEMMA Climb ==
    ASSUME NEW n \in Nat, NEW T \in SUBSET (0 .. n), 0 \in T,
           \A k \in T : k < n => k + 1 \in T
    PROVE  T = 0 .. n
<1> DEFINE U == {k \in Nat : k <= n => k \in T}
<1>1. U = Nat
  <2>1. 0 \in U /\ U \in SUBSET Nat
    OBVIOUS
  <2>2. \A k \in U : k + 1 \in U
    OBVIOUS
  <2> HIDE DEF U
  <2> QED BY <2>1, <2>2, Induct
<1>2. \A k \in 0 .. n : k \in T
  <2>1. \A k \in 0 .. n : k \in U /\ k <= n
    <3> HIDE DEF U
    <3> QED BY <1>1
  <2> QED BY <2>1
<1> QED BY <1>2

\* No step of F leaves V.
Steps(F, n, V) == \A i \in 1 .. n : \A x \in V : F[i][x] \in V

\* g follows n steps of F from e.
Walk(g, e, F, n, V) ==
    /\ g \in [0 .. n -> V]
    /\ g[0] = e
    /\ \A i \in 1 .. n : g[i] = F[i][g[i - 1]]

\* A recursive function along 1 .. n exists when no step leaves the set V.
LEMMA WalkExists ==
    ASSUME NEW V, NEW n \in Nat, NEW e \in V, NEW F, Steps(F, n, V)
    PROVE  \E g : Walk(g, e, F, n, V)
<1> DEFINE Along(k, g) == g[0] = e /\ \A i \in 1 .. k : g[i] = F[i][g[i - 1]]
           T == {k \in 0 .. n : \E g \in [0 .. k -> V] : Along(k, g)}
<1>1. 0 \in T
  <2> DEFINE h == [i \in 0 .. 0 |-> e]
  <2>1. h \in [0 .. 0 -> V] /\ Along(0, h)
    OBVIOUS
  <2>2. \E g \in [0 .. 0 -> V] : Along(0, g)
    <3> HIDE DEF h, Along
    <3> QED BY <2>1
  <2>3. 0 \in 0 .. n
    OBVIOUS
  <2> HIDE DEF Along
  <2> QED BY <2>2, <2>3
<1>2. ASSUME NEW k \in T, k < n PROVE k + 1 \in T
  <2>1. PICK g \in [0 .. k -> V] : Along(k, g)
    OBVIOUS
  <2> DEFINE h == [i \in 0 .. k + 1 |-> IF i = 0 THEN e ELSE F[i][g[i - 1]]]
  <2>2. k \in Nat /\ k + 1 \in 0 .. n
    BY <1>2
  <2>3. \A i \in 0 .. k : h[i] = g[i]
    BY <2>1, <2>2
  <2>4. \A i \in 1 .. k + 1 : i - 1 \in 0 .. k /\ i \in 1 .. n /\ i # 0 /\ i \in 0 .. k + 1
    BY <1>2, <2>2
  <2>5. \A i \in 1 .. k + 1 : h[i] = F[i][g[i - 1]]
    BY <2>4
  <2>6. h[0] = e /\ e \in V
    BY <2>2
  <2>7. \A i \in 0 .. k + 1 : h[i] \in V
    <3>1. \A i \in 1 .. k + 1 : i \in 1 .. n /\ g[i - 1] \in V
      BY <2>4
    <3>2. \A i \in 1 .. k + 1 : F[i][g[i - 1]] \in V
      BY <3>1 DEF Steps
    <3>3. \A i \in 0 .. k + 1 : i = 0 \/ i \in 1 .. k + 1
      BY <2>2
    <3> HIDE DEF h
    <3> QED BY <2>5, <2>6, <3>2, <3>3
  <2>8. h \in [0 .. k + 1 -> V]
    BY <2>7
  <2>9. Along(k + 1, h)
    <3> HIDE DEF h
    <3> QED BY <2>3, <2>4, <2>5, <2>6
  <2>10. \E f \in [0 .. k + 1 -> V] : Along(k + 1, f)
    <3> HIDE DEF h, Along
    <3> QED BY <2>8, <2>9
  <2> HIDE DEF Along
  <2> QED BY <2>2, <2>10
<1>3. T = 0 .. n
  <2>1. T \in SUBSET (0 .. n)
    OBVIOUS
  <2> HIDE DEF T
  <2> QED BY <1>1, <1>2, <2>1, Climb
<1>4. n \in T
  <2> HIDE DEF T
  <2> QED BY <1>3
<1>5. PICK g \in [0 .. n -> V] : Along(n, g)
  BY <1>4
<1>6. Walk(g, e, F, n, V)
  BY <1>5 DEF Walk
<1> QED BY <1>6

\* Where the walk begins in V and every step stays there, it ends there.
LEMMA WalkStays ==
    ASSUME NEW V, NEW n \in Nat, NEW g, g[0] \in V,
           \A i \in 1 .. n : g[i - 1] \in V => g[i] \in V
    PROVE  g[n] \in V
<1> DEFINE T == {i \in 0 .. n : g[i] \in V}
<1>1. 0 \in T /\ T \in SUBSET (0 .. n)
  OBVIOUS
<1>2. ASSUME NEW k \in T, k < n PROVE k + 1 \in T
  <2>1. k + 1 \in 1 .. n /\ (k + 1) - 1 = k
    BY <1>2
  <2> QED BY <2>1
<1>3. T = 0 .. n
  <2> HIDE DEF T
  <2> QED BY <1>1, <1>2, Climb
<1>4. n \in T
  <2> HIDE DEF T
  <2> QED BY <1>3
<1> QED BY <1>4

\* The samplers among which a walk stays.
Tables(n) == UNION {[D -> Points] : D \in SUBSET (0 .. n - 1)}

AllSamplers(n) ==
    [total_data_sent : Nat, total_data_acked : Nat, sent_at_last_ack : Nat,
     last_ack_sent_ts : Int, last_ack_ts : Int, last_sent : Nat,
     is_app_limited : BOOLEAN, end_of_app_limited : Nat,
     start_pos : Int, index : Int, points : Tables(n)]

LEMMA SamplerIsOne ==
    ASSUME NEW n \in Nat, NEW got, NEW s, SamplerFits(s, n, got)
    PROVE  s \in AllSamplers(n) /\ s.total_data_acked \in Nat
<1>1. s.points \in Tables(n)
  BY DEF SamplerFits, Tables
<1>2. s \in Samplers(s.points)
  BY DEF SamplerFits
<1> QED BY <1>1, <1>2 DEF Samplers, AllSamplers

\* The lost packets leave the sampler, nothing more counts as acknowledged.
LEMMA DiscardedFits ==
    ASSUME NEW n \in Nat, NEW got \in SUBSET (0 .. n - 1), NEW s, SamplerFits(s, n, got),
           NEW lost, Len(lost) \in Nat, \A i \in 1 .. Len(lost) : lost[i].seq \in Nat
    PROVE  /\ SamplerFits(Discarded(s, lost), n, got)
           /\ Discarded(s, lost).total_data_acked = s.total_data_acked
<1> DEFINE m == Len(lost)
           V == {x \in AllSamplers(n) : SamplerFits(x, n, got)
                                          /\ x.total_data_acked = s.total_data_acked}
           F == [i \in 1 .. m |-> [x \in V |-> RemovePoint(x, lost[i].seq)]]
           Is(g) == g = [i \in 0 .. m |->
                           IF i = 0 THEN s ELSE RemovePoint(g[i - 1], lost[i].seq)]
<1>1. s \in V
  BY SamplerIsOne
<1>2. ASSUME NEW x \in V, NEW i \in 1 .. m PROVE RemovePoint(x, lost[i].seq) \in V
  <2>1. lost[i].seq \in Nat
    OBVIOUS
  <2>2. /\ SamplerFits(RemovePoint(x, lost[i].seq), n, got)
        /\ RemovePoint(x, lost[i].seq).total_data_acked = x.total_data_acked
    BY <2>1, RemovePointFits
  <2> QED BY <2>2, SamplerIsOne
<1>3. \E g : Is(g)
  <2>1. Steps(F, m, V)
    BY <1>2 DEF Steps
  <2>2. PICK g : Walk(g, s, F, m, V)
    <3> HIDE DEF V, F
    <3> QED BY <1>1, <2>1, WalkExists
  <2>3. \A i \in 1 .. m : i - 1 \in 0 .. m /\ g[i - 1] \in V
    <3> HIDE DEF V, F
    <3> QED BY <2>2 DEF Walk
  <2>4. \A i \in 1 .. m : F[i][g[i - 1]] = RemovePoint(g[i - 1], lost[i].seq)
    <3> HIDE DEF V
    <3> QED BY <2>3
  <2>5. Is(g)
    <3> HIDE DEF V, F
    <3> QED BY <2>2, <2>4 DEF Walk
  <2> QED BY <2>5
<1> DEFINE g == CHOOSE g : Is(g)
<1>4. Discarded(s, lost) = g[m]
  BY DEF Discarded
<1>5. Is(g)
  BY <1>3
<1> HIDE DEF g
<1>6. /\ g[0] = s
      /\ \A i \in 1 .. m : g[i] = RemovePoint(g[i - 1], lost[i].seq)
  BY <1>5
<1>7. g[m] \in V
  <2>1. \A i \in 1 .. m : g[i - 1] \in V => g[i] \in V
    <3> HIDE DEF V
    <3> QED BY <1>2, <1>6
  <2>2. g[0] \in V
    BY <1>1, <1>6
  <2> HIDE DEF V
  <2> QED BY <2>1, <2>2, WalkStays
<1> QED BY <1>4, <1>7

\* bbr_feedback_get_loss and bbr_feedback_get_received.
LEMMA ChosenType ==
    ASSUME NEW S, NEW packets \in Seq(S), NEW lost \in BOOLEAN
    PROVE  Chosen(packets, lost) \in Seq({p \in S : IsLost(p) = lost})
<1> DEFINE m == Len(packets)
           V == Seq({p \in S : IsLost(p) = lost})
           Op(x, i) == IF IsLost(packets[i]) = lost THEN Append(x, packets[i]) ELSE x
           F == [i \in 1 .. m |-> [x \in V |-> Op(x, i)]]
           Is(g) == g = [i \in 0 .. m |-> IF i = 0 THEN << >> ELSE Op(g[i - 1], i)]
<1>1. << >> \in V /\ m \in Nat
  OBVIOUS
<1>2. ASSUME NEW x \in V, NEW i \in 1 .. m PROVE Op(x, i) \in V
  <2>1. packets[i] \in S
    OBVIOUS
  <2> QED BY <2>1
<1>3. \E g : Is(g)
  <2>1. Steps(F, m, V)
    <3> HIDE DEF V, Op
    <3> QED BY <1>2 DEF Steps
  <2>2. PICK g : Walk(g, << >>, F, m, V)
    <3> HIDE DEF V, F, m
    <3> QED BY <1>1, <2>1, WalkExists
  <2>3. \A i \in 1 .. m : i - 1 \in 0 .. m /\ g[i - 1] \in V
    <3> HIDE DEF V, F
    <3> QED BY <2>2 DEF Walk
  <2>4. \A i \in 1 .. m : F[i][g[i - 1]] = Op(g[i - 1], i)
    <3> HIDE DEF V, Op
    <3> QED BY <2>3
  <2>5. Is(g)
    <3> HIDE DEF V, F, Op
    <3> QED BY <2>2, <2>4 DEF Walk
  <2> QED BY <2>5
<1> DEFINE g == CHOOSE g : Is(g)
<1>4. Chosen(packets, lost) = g[m]
  BY DEF Chosen
<1>5. Is(g)
  BY <1>3
<1> HIDE DEF g
<1>6. g[0] = << >> /\ \A i \in 1 .. m : g[i] = Op(g[i - 1], i)
  <2> HIDE DEF Op
  <2> QED BY <1>1, <1>5
<1>7. g[m] \in V
  <2> HIDE DEF V, Op, m
  <2>1. \A i \in 1 .. m : g[i - 1] \in V => g[i] \in V
    BY <1>2, <1>6
  <2> QED BY <1>1, <1>6, <2>1, WalkStays
<1> QED BY <1>4, <1>7

LEMMA BytesType ==
    ASSUME NEW packets, Len(packets) \in Nat,
           \A i \in 1 .. Len(packets) : packets[i].size \in Nat
    PROVE  Bytes(packets) \in Nat
<1> DEFINE m == Len(packets)
           V == Nat
           Op(x, i) == x + packets[i].size
           F == [i \in 1 .. m |-> [x \in V |-> Op(x, i)]]
           Is(g) == g = [i \in 0 .. m |-> IF i = 0 THEN 0 ELSE Op(g[i - 1], i)]
<1>1. 0 \in V /\ m \in Nat
  OBVIOUS
<1>2. ASSUME NEW x \in V, NEW i \in 1 .. m PROVE Op(x, i) \in V
  <2>1. packets[i].size \in Nat
    OBVIOUS
  <2> QED BY <2>1
<1>3. \E g : Is(g)
  <2>1. Steps(F, m, V)
    <3> HIDE DEF V, Op
    <3> QED BY <1>2 DEF Steps
  <2>2. PICK g : Walk(g, 0, F, m, V)
    <3> HIDE DEF V, F, m
    <3> QED BY <1>1, <2>1, WalkExists
  <2>3. \A i \in 1 .. m : i - 1 \in 0 .. m /\ g[i - 1] \in V
    <3> HIDE DEF V, F, m
    <3> QED BY <1>1, <2>2 DEF Walk
  <2>4. \A i \in 1 .. m : F[i][g[i - 1]] = Op(g[i - 1], i)
    <3> HIDE DEF V, Op
    <3> QED BY <2>3
  <2>5. Is(g)
    <3> HIDE DEF V, F, Op
    <3> QED BY <2>2, <2>4 DEF Walk
  <2> QED BY <2>5
<1> DEFINE g == CHOOSE g : Is(g)
<1>4. Bytes(packets) = g[m]
  BY DEF Bytes
<1>5. Is(g)
  BY <1>3
<1> HIDE DEF g
<1>6. g[0] = 0 /\ \A i \in 1 .. m : g[i] = Op(g[i - 1], i)
  <2> HIDE DEF Op
  <2> QED BY <1>1, <1>5
<1>7. g[m] \in V
  <2> HIDE DEF V, Op, m
  <2>1. \A i \in 1 .. m : g[i - 1] \in V => g[i] \in V
    BY <1>2, <1>6
  <2> QED BY <1>1, <1>6, <2>1, WalkStays
<1> QED BY <1>4, <1>7

\* What the samples of a feedback leave: the sampler still fits, the last
\* sample, and a least round trip time that is none or positive.
SampledFits(a, n, got, had) ==
    /\ a \in [smp : AllSamplers(n), sample : SampleTypes, rtt : Int]
    /\ SamplerFits(a.smp, n, got)
    /\ a.rtt = -1 \/ a.rtt > 0
    /\ a.smp.total_data_acked >= had

LEMMA SampleNextFits ==
    ASSUME NEW n \in Nat, NEW got \in SUBSET (0 .. n - 1), NEW had \in Nat,
           NEW a, SampledFits(a, n, got, had), NEW p, p.seq \in got, p.recv_time \in Int
    PROVE  SampledFits(SampleNext(a, p), n, got, had)
<1> DEFINE r   == SamplerAcked(a.smp, p.recv_time, p.seq)
           rtt == IF r.sample.rtt <= 0 THEN a.rtt
                  ELSE IF a.rtt = -1 THEN r.sample.rtt ELSE Lesser(a.rtt, r.sample.rtt)
<1>1. /\ SamplerFits(r.smp, n, got) /\ r.sample \in SampleTypes
      /\ r.smp.total_data_acked >= a.smp.total_data_acked
  BY SamplerAckedFits DEF SampledFits
<1>2. r.smp \in AllSamplers(n) /\ r.smp.total_data_acked \in Nat
  BY <1>1, SamplerIsOne
<1>3. a.smp.total_data_acked >= had /\ a.smp.total_data_acked \in Nat
  BY SamplerIsOne DEF SampledFits
<1>4. SampleNext(a, p) = [smp |-> r.smp, sample |-> r.sample, rtt |-> rtt]
  BY DEF SampleNext
<1>5. r.sample.rtt \in Int /\ a.rtt \in Int /\ (a.rtt = -1 \/ a.rtt > 0)
  BY <1>1 DEF SampleTypes, SampledFits
<1>6. rtt \in Int /\ (rtt = -1 \/ rtt > 0)
  <2> HIDE DEF r
  <2> QED BY <1>5 DEF Lesser
<1>7. r.smp.total_data_acked >= had
  BY <1>1, <1>2, <1>3
<1> HIDE DEF r, rtt
<1> QED BY <1>1, <1>2, <1>4, <1>6, <1>7 DEF SampledFits

LEMMA SampledKeeps ==
    ASSUME NEW n \in Nat, NEW got \in SUBSET (0 .. n - 1), NEW c, SamplerFits(c.smp, n, got),
           NEW acked, Len(acked) \in Nat,
           \A i \in 1 .. Len(acked) : acked[i].seq \in got /\ acked[i].recv_time \in Int
    PROVE  SampledFits(Sampled(c, acked), n, got, c.smp.total_data_acked)
<1> DEFINE m   == Len(acked)
           had == c.smp.total_data_acked
           e   == [smp |-> c.smp, sample |-> NoSample, rtt |-> -1]
           V   == {a \in [smp : AllSamplers(n), sample : SampleTypes, rtt : Int] :
                     SampledFits(a, n, got, had)}
           Op(x, i) == SampleNext(x, acked[i])
           F == [i \in 1 .. m |-> [x \in V |-> Op(x, i)]]
           Is(g) == g = [i \in 0 .. m |-> IF i = 0 THEN e ELSE Op(g[i - 1], i)]
<1>1. e \in V /\ m \in Nat /\ had \in Nat
  <2>1. NoSample \in SampleTypes
    BY DEF NoSample, SampleTypes
  <2>2. c.smp \in AllSamplers(n) /\ had \in Nat
    BY SamplerIsOne
  <2>3. SampledFits(e, n, got, had)
    BY <2>1, <2>2 DEF SampledFits
  <2> QED BY <2>2, <2>3 DEF SampledFits
<1>2. ASSUME NEW x \in V, NEW i \in 1 .. m PROVE Op(x, i) \in V
  <2>1. acked[i].seq \in got /\ acked[i].recv_time \in Int
    OBVIOUS
  <2>2. SampledFits(x, n, got, had)
    OBVIOUS
  <2>3. SampledFits(Op(x, i), n, got, had)
    <3> HIDE DEF V, had
    <3> QED BY <1>1, <2>1, <2>2, SampleNextFits
  <2> HIDE DEF Op
  <2> QED BY <2>3 DEF SampledFits
<1>3. \E g : Is(g)
  <2>1. Steps(F, m, V)
    <3> HIDE DEF V, Op
    <3> QED BY <1>2 DEF Steps
  <2>2. PICK g : Walk(g, e, F, m, V)
    <3> HIDE DEF V, F, m, e
    <3> QED BY <1>1, <2>1, WalkExists
  <2>3. \A i \in 1 .. m : i - 1 \in 0 .. m /\ g[i - 1] \in V
    <3> HIDE DEF V, F, e
    <3> QED BY <2>2 DEF Walk
  <2>4. \A i \in 1 .. m : F[i][g[i - 1]] = Op(g[i - 1], i)
    <3> HIDE DEF V, Op
    <3> QED BY <2>3
  <2>5. Is(g)
    <3> HIDE DEF V, F, Op, e
    <3> QED BY <2>2, <2>4 DEF Walk
  <2> QED BY <2>5
<1> DEFINE g == CHOOSE g : Is(g)
<1>4. Sampled(c, acked) = g[m]
  BY DEF Sampled
<1>5. Is(g)
  BY <1>3
<1> HIDE DEF g
<1>6. g[0] = e /\ \A i \in 1 .. m : g[i] = Op(g[i - 1], i)
  <2> HIDE DEF V, F, Op, e, m, had
  <2>1. m \in Nat
    BY <1>1
  <2>2. g = [i \in 0 .. m |-> IF i = 0 THEN e ELSE Op(g[i - 1], i)]
    BY <1>5
  <2>3. g[0] = e
    BY <2>1, <2>2
  <2>4. ASSUME NEW i \in 1 .. m PROVE g[i] = Op(g[i - 1], i)
    <3>1. i \in 0 .. m /\ i # 0
      BY <2>1
    <3> QED BY <2>2, <3>1
  <2> QED BY <2>3, <2>4
<1>7. g[m] \in V
  <2> HIDE DEF V, Op, m, e
  <2>1. \A i \in 1 .. m : g[i - 1] \in V => g[i] \in V
    BY <1>2, <1>6
  <2> QED BY <1>1, <1>6, <2>1, WalkStays
<1>8. SampledFits(g[m], n, got, had)
  BY <1>7
<1> QED BY <1>4, <1>8

-----------------------------------------------------------------------------
(* The windowed filter *)

Estimates == [sample : Nat, ts : Nat]

\* Three estimates in order, none from the future.
FilterFits(f, t) ==
    /\ f = <<f[1], f[2], f[3]>>
    /\ {f[1], f[2], f[3]} \subseteq Estimates
    /\ FilterOrdered(f)
    /\ f[3].ts <= t

LEMMA FilterResetFits ==
    ASSUME NEW v \in Nat, NEW t \in Nat
    PROVE  FilterFits(FilterReset(v, t), t)
BY DEF FilterReset, FilterFits, FilterOrdered, Estimate, Estimates

LEMMA FilterBestType ==
    ASSUME NEW f, NEW t, FilterFits(f, t)
    PROVE  FilterBest(f) \in Nat
BY DEF FilterFits, FilterBest, Estimates

\* Time passes.
LEMMA FilterLater ==
    ASSUME NEW f, NEW t \in Nat, NEW u \in Nat, t <= u, FilterFits(f, t)
    PROVE  FilterFits(f, u)
BY DEF FilterFits, Estimates

\* wnd_filter_update keeps the order and never leaves an outdated best.
LEMMA FilterUpdateFits ==
    ASSUME NEW t \in Nat, NEW f, FilterFits(f, t), NEW v \in Nat
    PROVE  /\ FilterFits(FilterUpdate(f, v, t), t)
           /\ ~Outdated(FilterUpdate(f, v, t)[1], t)
<1> DEFINE s == Estimate(v, t)
           p == Placed(f, s)
<1>1. /\ f = <<f[1], f[2], f[3]>> /\ {f[1], f[2], f[3]} \subseteq Estimates
      /\ FilterOrdered(f) /\ f[3].ts <= t
  BY DEF FilterFits
<1>2. s \in Estimates /\ s.sample = v /\ s.ts = t
  BY DEF Estimate, Estimates
<1>3. FilterWindow \in Nat /\ FilterWindow > 0
  BY FilterWindowAssumption
<1>4. CASE f[1].sample = 0 \/ v >= f[1].sample \/ Outdated(f[3], t)
  <2>1. FilterUpdate(f, v, t) = FilterReset(v, t)
    BY <1>4 DEF FilterUpdate
  <2>2. ~Outdated(FilterReset(v, t)[1], t)
    BY <1>3 DEF FilterReset, Estimate, Outdated
  <2> QED BY <2>1, <2>2, FilterResetFits
<1>5. CASE ~(f[1].sample = 0 \/ v >= f[1].sample \/ Outdated(f[3], t))
  <2> HIDE DEF s
  <2>1. p \in {<<f[1], s, s>>, <<f[1], f[2], s>>, f}
    BY DEF Placed
  <2>2. /\ p = <<p[1], p[2], p[3]>> /\ p[1] = f[1] /\ {p[1], p[2], p[3]} \subseteq Estimates
        /\ p[3] = f[3] \/ p[3] = s
    BY <1>1, <1>2, <2>1
  <2>3. /\ p[1].sample >= p[2].sample /\ p[2].sample >= p[3].sample /\ p[3].sample >= v
        /\ p[1].ts <= p[2].ts /\ p[2].ts <= p[3].ts /\ p[3].ts <= t
    <3>1. CASE v >= f[2].sample
      BY <1>1, <1>2, <1>5, <3>1 DEF Placed, FilterOrdered, Estimates
    <3>2. CASE ~(v >= f[2].sample) /\ v >= f[3].sample
      BY <1>1, <1>2, <1>5, <3>2 DEF Placed, FilterOrdered, Estimates
    <3>3. CASE ~(v >= f[2].sample) /\ ~(v >= f[3].sample)
      BY <1>1, <1>2, <1>5, <3>3 DEF Placed, FilterOrdered, Estimates
    <3> QED BY <3>1, <3>2, <3>3
  <2>4. ~Outdated(p[3], t)
    BY <1>2, <1>3, <1>5, <2>2 DEF Outdated
  <2> HIDE DEF p
  <2>5. CASE Outdated(p[1], t)
    <3>1. FilterUpdate(f, v, t) = Promoted(p, s)
      BY <1>5, <2>5 DEF FilterUpdate, p, s
    <3>2. Promoted(p, s) = IF Outdated(p[2], t) THEN <<p[3], s, s>> ELSE <<p[2], p[3], s>>
      BY <1>2 DEF Promoted
    <3>3. FilterFits(<<p[3], s, s>>, t) /\ FilterFits(<<p[2], p[3], s>>, t)
      BY <1>2, <2>2, <2>3 DEF FilterFits, FilterOrdered, Estimates
    <3> QED BY <2>4, <3>1, <3>2, <3>3
  <2>6. CASE ~Outdated(p[1], t)
    <3>1. FilterUpdate(f, v, t) = Renewed(p, s)
      BY <1>5, <2>6 DEF FilterUpdate, p, s
    <3>2. Renewed(p, s) \in {p, <<p[1], s, s>>, <<p[1], p[2], s>>}
      BY <2>2 DEF Renewed
    <3>3. FilterFits(p, t)
      BY <2>2, <2>3 DEF FilterFits, FilterOrdered
    <3>4. FilterFits(<<p[1], s, s>>, t) /\ FilterFits(<<p[1], p[2], s>>, t)
      BY <1>2, <2>2, <2>3 DEF FilterFits, FilterOrdered, Estimates
    <3> QED BY <2>6, <3>1, <3>2, <3>3, <3>4
  <2> QED BY <2>5, <2>6
<1> QED BY <1>4, <1>5

\* No estimate of m that came after e is above it.
BestSince(e, m) == \A d \in m : d.ts > e.ts => d.sample <= e.sample

\* f is what the filter makes of the estimates m it was given up to t.
FilterKnows(f, m, t) ==
    /\ m \subseteq Estimates
    /\ \A d \in m : d.ts <= t /\ ~Outdated(f[1], d.ts)
    /\ {f[1], f[2], f[3]} \subseteq m
    /\ BestSince(f[1], m) /\ BestSince(f[2], m) /\ BestSince(f[3], m)

LEMMA FilterKnowsLater ==
    ASSUME NEW f, NEW m, NEW t \in Nat, NEW u \in Nat, t <= u, FilterKnows(f, m, t)
    PROVE  FilterKnows(f, m, u)
BY DEF FilterKnows, Estimates

\* wnd_filter_update only drops estimates that a later one makes useless.
LEMMA FilterUpdateKnows ==
    ASSUME NEW t \in Nat, NEW f, FilterFits(f, t), NEW v \in Nat, NEW m, FilterKnows(f, m, t)
    PROVE  FilterKnows(FilterUpdate(f, v, t), m \union {Estimate(v, t)}, t)
<1> DEFINE s == Estimate(v, t)
           w == m \union {s}
           p == Placed(f, s)
           g == FilterUpdate(f, v, t)
<1>1. s \in Estimates /\ s.sample = v /\ s.ts = t
  BY DEF Estimate, Estimates
<1>2. FilterWindow \in Nat /\ FilterWindow > 0
  BY FilterWindowAssumption
<1>3. /\ w \subseteq Estimates /\ s \in w
      /\ \A d \in w : d.ts \in Nat /\ d.ts <= t /\ d.sample \in Nat
  BY <1>1 DEF FilterKnows, Estimates
<1>4. /\ {f[1], f[2], f[3]} \subseteq w /\ {f[1], f[2], f[3]} \subseteq Estimates
      /\ f[1].sample >= f[2].sample /\ f[2].sample >= f[3].sample
      /\ BestSince(f[1], m) /\ BestSince(f[2], m) /\ BestSince(f[3], m)
  BY DEF FilterKnows, FilterFits, FilterOrdered
<1> HIDE DEF s
<1>5. BestSince(s, w)
  BY <1>1, <1>3 DEF BestSince
<1>6. \A e \in Estimates : BestSince(e, m) /\ v <= e.sample => BestSince(e, w)
  BY <1>1 DEF BestSince
<1>7. g[1] \in w => (~Outdated(g[1], t) => \A d \in w : ~Outdated(g[1], d.ts))
  <2> HIDE DEF g
  <2> QED BY <1>2, <1>3 DEF Outdated
<1>8. ~Outdated(g[1], t)
  BY FilterUpdateFits
<1>9. /\ {g[1], g[2], g[3]} \subseteq w
      /\ BestSince(g[1], w) /\ BestSince(g[2], w) /\ BestSince(g[3], w)
  <2>1. CASE f[1].sample = 0 \/ v >= f[1].sample \/ Outdated(f[3], t)
    <3>1. g = <<s, s, s>>
      BY <2>1 DEF FilterUpdate, FilterReset, s
    <3> QED BY <1>3, <1>5, <3>1
  <2>2. CASE ~(f[1].sample = 0 \/ v >= f[1].sample \/ Outdated(f[3], t))
    <3>1. /\ {p[1], p[2], p[3]} \subseteq w
          /\ BestSince(p[1], w) /\ BestSince(p[2], w) /\ BestSince(p[3], w)
          /\ p = <<p[1], p[2], p[3]>>
      <4>1. v <= f[1].sample
        BY <1>4, <2>2 DEF Estimates
      <4>2. f = <<f[1], f[2], f[3]>>
        BY DEF FilterFits
      <4>3. CASE v >= f[2].sample
        <5>1. p = <<f[1], s, s>>
          BY <1>1, <4>3 DEF Placed
        <5> HIDE DEF p, w
        <5> QED BY <1>3, <1>4, <1>5, <1>6, <4>1, <5>1
      <4>4. CASE ~(v >= f[2].sample) /\ v >= f[3].sample
        <5>1. p = <<f[1], f[2], s>> /\ v <= f[2].sample
          BY <1>1, <1>4, <4>4 DEF Placed, Estimates
        <5> HIDE DEF p, w
        <5> QED BY <1>3, <1>4, <1>5, <1>6, <4>1, <5>1
      <4>5. CASE ~(v >= f[2].sample) /\ ~(v >= f[3].sample)
        <5>1. p = f /\ v <= f[2].sample /\ v <= f[3].sample
          BY <1>1, <1>4, <4>5 DEF Placed, Estimates
        <5> HIDE DEF p, w
        <5> QED BY <1>4, <1>6, <4>1, <4>2, <5>1
      <4> QED BY <4>3, <4>4, <4>5
    <3>2. g \in {Promoted(p, s), Renewed(p, s)}
      BY <2>2 DEF FilterUpdate, s
    <3> HIDE DEF p, w, g
    <3>3. Promoted(p, s) \in {<<p[2], p[3], s>>, <<p[3], s, s>>}
      BY DEF Promoted
    <3>4. Renewed(p, s) \in {p, <<p[1], s, s>>, <<p[1], p[2], s>>}
      BY <3>1 DEF Renewed
    <3>5. g \in {<<p[2], p[3], s>>, <<p[3], s, s>>, p, <<p[1], s, s>>, <<p[1], p[2], s>>}
      BY <3>2, <3>3, <3>4
    <3> QED BY <1>3, <1>5, <3>1, <3>5
  <2> QED BY <2>1, <2>2
<1> HIDE DEF g, w
<1>10. FilterKnows(g, w, t)
  BY <1>3, <1>7, <1>8, <1>9 DEF FilterKnows
<1> QED BY <1>10 DEF g, w, s

-----------------------------------------------------------------------------
(* The controller *)

ModeNames     == {"STARTUP", "DRAIN", "PROBE_BW", "PROBE_RTT"}
RecoveryNames == {"NOT_IN_RECOVERY", "CONSERVATION", "GROWTH"}
Gains         == {HighGain, DrainGain, One, <<5, 4>>, <<3, 4>>, <<2, 1>>}

Controllers(bandwidth, height, smp, measured) ==
    [mode : ModeNames, pacing_gain : Gains, congestion_window_gain : Gains,
     last_sent_packet : Nat, round_trip_count : Nat, current_round_trip_end : Nat,
     max_bandwidth : {bandwidth}, max_ack_height : {height},
     epoch_start : Int, epoch_bytes : Nat,
     min_rtt : Nat, min_rtt_ts : Nat, rtt_min : Nat, srtt : Nat \ {0},
     congestion_window : MinWindow .. MaxWindow, recovery_window : Nat, pacing_rate : Nat,
     cycle_current_offset : 0 .. CycleLength - 1, last_cycle_start : Nat,
     is_at_full_bandwidth : BOOLEAN, rounds_without_gain : Nat, bandwidth_at_last_round : Nat,
     exiting_quiescence : BOOLEAN, exit_probe_rtt_at : Int, probe_rtt_round_passed : BOOLEAN,
     last_sample_is_app_limited : BOOLEAN,
     recovery_state : RecoveryNames, end_recovery_at : Int,
     smp : {smp}, measured : {measured}]

Typed(c) == c \in Controllers(c.max_bandwidth, c.max_ack_height, c.smp, c.measured)

FiltersFit(c) ==
    /\ FilterFits(c.max_bandwidth, c.round_trip_count)
    /\ FilterFits(c.max_ack_height, c.round_trip_count)
    /\ FilterKnows(c.max_bandwidth, c.measured, c.round_trip_count)

\* A controller whose parts fit, but for what its modes and windows say.
PartsFit(c, n, got) == Typed(c) /\ FiltersFit(c) /\ SamplerFits(c.smp, n, got)

\* Between two steps of a feedback start-up may already be at full bandwidth.
ModesNearlyAgree(c) ==
    /\ c.mode = "STARTUP" => c.pacing_gain = HighGain
    /\ c.mode = "DRAIN" => c.is_at_full_bandwidth /\ c.pacing_gain = DrainGain
    /\ c.mode = "PROBE_BW" => /\ c.is_at_full_bandwidth
                              /\ c.pacing_gain = PacingGain(c.cycle_current_offset)

ModesAgree(c) == ModesNearlyAgree(c) /\ (c.mode = "STARTUP" => ~c.is_at_full_bandwidth)

\* What most steps leave alone.
SameFilters(d, c) ==
    /\ d.max_bandwidth = c.max_bandwidth /\ d.max_ack_height = c.max_ack_height
    /\ d.round_trip_count = c.round_trip_count /\ d.measured = c.measured

SameModes(d, c) ==
    /\ d.mode = c.mode /\ d.pacing_gain = c.pacing_gain
    /\ d.cycle_current_offset = c.cycle_current_offset
    /\ d.is_at_full_bandwidth = c.is_at_full_bandwidth

SameRecovery(d, c) ==
    d.recovery_state = c.recovery_state /\ d.recovery_window = c.recovery_window

LEMMA ConstantsType ==
    /\ MinWindow \in Nat \ {0} /\ InitialWindow \in Nat /\ MaxWindow \in Nat
    /\ MinWindow <= MaxWindow /\ InitialWindow \in MinWindow .. MaxWindow
    /\ MaxPacketSize \in Nat /\ MaxSegmentSize \in Nat
    /\ InitialRtt \in Nat \ {0} /\ MinRttFloor \in Nat \ {0} /\ MinRttExpiry \in Nat
    /\ ProbeRttMs \in Nat /\ CycleLength \in Nat /\ CycleLength > 2 /\ StartupRounds \in Nat
BY WindowsAssumption, TimesAssumption

LEMMA GainsAre ==
    /\ HighGain \in Gains /\ DrainGain \in Gains /\ One \in Gains /\ <<5, 4>> \in Gains
    /\ <<3, 4>> \in Gains /\ <<2, 1>> \in Gains
    /\ \A offset : PacingGain(offset) \in Gains
BY DEF Gains, PacingGain

LEMMA TimesType ==
    ASSUME NEW g \in Gains, NEW x \in Nat
    PROVE  Times(g, x) \in Nat
<1>1. g[1] \in Nat /\ g[2] \in Nat /\ g[2] > 0
  BY DEF Gains, HighGain, DrainGain, One
<1>2. g[1] * x \in Nat
  BY <1>1
<1> QED BY <1>1, <1>2, QuotientType DEF Times

LEMMA ProductType ==
    ASSUME NEW a \in Nat, NEW b \in Nat
    PROVE  a * b \in Nat
OBVIOUS

\* Every window the controller computes lets the least one out.
LEMMA WindowsType ==
    ASSUME NEW c, Typed(c), FiltersFit(c)
    PROVE  /\ Bandwidth(c) \in Nat /\ GetMinRtt(c) \in Nat
           /\ \A g \in Gains : TargetWindow(c, g) \in Nat /\ TargetWindow(c, g) >= MinWindow
           /\ CongestionWindow(c) \in Nat
           /\ (InRecovery(c) => c.recovery_window >= MinWindow) => CongestionWindow(c) >= MinWindow
<1>1. Bandwidth(c) \in Nat
  BY FilterBestType DEF FiltersFit, Bandwidth
<1>2. GetMinRtt(c) \in Nat
  BY ConstantsType DEF Typed, Controllers, GetMinRtt
<1>3. ASSUME NEW g \in Gains
      PROVE  TargetWindow(c, g) \in Nat /\ TargetWindow(c, g) >= MinWindow
  <2>1. GetMinRtt(c) * Bandwidth(c) \in Nat
    BY <1>1, <1>2, ProductType
  <2>2. Times(g, GetMinRtt(c) * Bandwidth(c)) \in Nat /\ Times(g, InitialWindow) \in Nat
    BY <2>1, ConstantsType, TimesType
  <2> QED BY <2>2, ConstantsType DEF TargetWindow, Greater
<1>4. /\ CongestionWindow(c) \in Nat
      /\ (InRecovery(c) => c.recovery_window >= MinWindow) => CongestionWindow(c) >= MinWindow
  <2>1. c.congestion_window \in Nat /\ c.congestion_window >= MinWindow /\ c.recovery_window \in Nat
    BY ConstantsType DEF Typed, Controllers
  <2>2. ProbeRttWindow(c) \in Nat /\ ProbeRttWindow(c) >= MinWindow
    BY <1>3, GainsAre DEF ProbeRttWindow
  <2> QED BY <2>1, <2>2, ConstantsType DEF CongestionWindow, Lesser
<1> QED BY <1>1, <1>2, <1>3, <1>4

LEMMA NewControllerFits ==
    /\ PartsFit(NewController, 0, {})
    /\ ModesAgree(NewController)
    /\ ~InRecovery(NewController)
<1> DEFINE c == NewController
<1>1. /\ c.mode = "STARTUP" /\ c.pacing_gain = HighGain /\ ~c.is_at_full_bandwidth
      /\ c.recovery_state = "NOT_IN_RECOVERY" /\ c.smp = NewSampler
      /\ c.max_bandwidth = FilterReset(0, 0) /\ c.max_ack_height = FilterReset(0, 0)
      /\ c.round_trip_count = 0 /\ c.measured = {Estimate(0, 0)}
  BY DEF NewController
<1>2. Typed(c)
  <2>1. MaxWindow \in Nat /\ InitialWindow \in MinWindow .. MaxWindow /\ 0 \in 0 .. CycleLength - 1
    BY ConstantsType
  <2>2. HighGain \in Gains
    BY GainsAre
  <2> HIDE DEF c
  <2>3. c \in Controllers(FilterReset(0, 0), FilterReset(0, 0), NewSampler, {Estimate(0, 0)})
    BY <2>1, <2>2, ConstantsType DEF c, NewController, Controllers, ModeNames, RecoveryNames
  <2> QED BY <1>1, <2>3 DEF Typed
<1>3. FiltersFit(c)
  <2>1. FilterKnows(FilterReset(0, 0), {Estimate(0, 0)}, 0)
    BY FilterWindowAssumption DEF FilterKnows, FilterReset, BestSince, Estimate, Estimates, Outdated
  <2> QED BY <1>1, <2>1, FilterResetFits DEF FiltersFit
<1>4. SamplerFits(c.smp, 0, {})
  <2>1. NewSampler \in Samplers(<< >>)
    BY DEF NewSampler, Samplers
  <2>2. DOMAIN << >> = {} /\ NewSampler.points = << >> /\ << >> \in [{} -> Points]
    BY DEF NewSampler
  <2>3. Weight({}) = 0 /\ {} \ {} = {}
    BY WeightEmpty
  <2>4. WindowHolds(NewSampler)
    BY <2>2 DEF NewSampler, WindowHolds
  <2>5. /\ NewSampler.total_data_acked = 0 /\ NewSampler.total_data_sent = 0
        /\ NewSampler.sent_at_last_ack = 0
    BY DEF NewSampler
  <2>6. SamplerFits(NewSampler, 0, {})
    BY <2>1, <2>2, <2>3, <2>4, <2>5 DEF SamplerFits
  <2> QED BY <1>1, <2>6
<1> HIDE DEF c
<1>5. ModesAgree(c) /\ ~InRecovery(c)
  BY <1>1 DEF ModesAgree, ModesNearlyAgree, InRecovery
<1> QED BY <1>2, <1>3, <1>4, <1>5 DEF PartsFit, c

\* bbr_on_send_packet.
LEMMA OnSendPacketFits ==
    ASSUME NEW n \in Nat, NEW got \in SUBSET (0 .. n - 1), NEW c, PartsFit(c, n, got),
           NEW ts \in Nat, NEW in_flight \in Nat
    PROVE  LET d == OnSendPacket(c, ts, n, PacketSize, in_flight)
           IN  /\ PartsFit(d, n + 1, got) /\ SameFilters(d, c) /\ SameModes(d, c)
               /\ SameRecovery(d, c)
<1> DEFINE smp   == SamplerSent(c.smp, ts, n, PacketSize, in_flight)
           quiet == c.exiting_quiescence \/ (in_flight = 0 /\ c.smp.is_app_limited)
           epoch == IF c.epoch_start = -1 THEN ts ELSE c.epoch_start
           d     == OnSendPacket(c, ts, n, PacketSize, in_flight)
<1>1. Typed(c) /\ SamplerFits(smp, n + 1, got) /\ FiltersFit(c)
  BY SamplerSentFits DEF PartsFit
<1>2. d = [c EXCEPT !.last_sent_packet = n, !.exiting_quiescence = quiet,
                    !.epoch_start = epoch, !.smp = smp]
  BY <1>1 DEF OnSendPacket, Typed, Controllers
<1>3. quiet \in BOOLEAN /\ epoch \in Int
  BY <1>1 DEF Typed, Controllers
<1> HIDE DEF smp, quiet, epoch, d
<1>4. /\ d.smp = smp /\ SameFilters(d, c) /\ SameModes(d, c)
      /\ SameRecovery(d, c)
  BY <1>1, <1>2 DEF Typed, Controllers, SameFilters, SameModes, SameRecovery
<1>5. Typed(d)
  BY <1>1, <1>2, <1>3, ZenonT(30) DEF Typed, Controllers
<1>6. PartsFit(d, n + 1, got)
  BY <1>1, <1>4, <1>5 DEF PartsFit, FiltersFit, SameFilters
<1> QED BY <1>4, <1>6 DEF d

\* bbr_rtt_update: the times never become zero.
LEMMA RttUpdateFits ==
    ASSUME NEW c, Typed(c), NEW delta \in Int
    PROVE  LET d == RttUpdate(c, delta)
           IN  /\ Typed(d) /\ d.smp = c.smp /\ SameFilters(d, c) /\ SameModes(d, c)
               /\ d.recovery_state = c.recovery_state /\ d.recovery_window = c.recovery_window
<1> DEFINE d     == RttUpdate(c, delta)
           least == IF c.rtt_min = 0 \/ c.rtt_min > delta THEN Greater(delta, 1) ELSE c.rtt_min
           srtt  == Smoothed(c.srtt, delta)
<1>1. CASE delta < 0
  BY <1>1 DEF RttUpdate, SameFilters, SameModes
<1>2. CASE ~(delta < 0)
  <2>1. c.rtt_min \in Nat /\ c.srtt \in Nat \ {0} /\ delta \in Nat
    BY <1>2 DEF Typed, Controllers
  <2>2. least \in Nat
    BY <2>1 DEF Greater
  <2>3. srtt \in Nat \ {0}
    <3>1. Greater(1, delta) \in Nat /\ Greater(1, delta) >= 1
      BY <2>1 DEF Greater
    <3>2. ASSUME NEW a \in Nat, NEW b \in Nat, a >= 1, b >= 1
          PROVE  (7 * a + b) \div 8 \in Nat \ {0}
      BY <3>2
    <3> QED BY <2>1, <3>1, <3>2 DEF Smoothed
  <2>4. d = [c EXCEPT !.rtt_min = least, !.srtt = srtt]
    BY <1>2, <2>1 DEF RttUpdate, Typed, Controllers
  <2> HIDE DEF d, least, srtt
  <2>5. /\ d.smp = c.smp /\ SameFilters(d, c) /\ SameModes(d, c)
        /\ d.recovery_state = c.recovery_state /\ d.recovery_window = c.recovery_window
    BY <2>4 DEF Typed, Controllers, SameFilters, SameModes
  <2>6. Typed(d)
    BY <2>2, <2>3, <2>4 DEF Typed, Controllers
  <2> QED BY <2>5, <2>6 DEF d
<1> QED BY <1>1, <1>2

LEMMA CountRoundFits ==
    ASSUME NEW c, Typed(c), FiltersFit(c), NEW last_acked \in Nat
    PROVE  LET d == CountRound(c, last_acked)
           IN  /\ Typed(d) /\ FiltersFit(d) /\ d.smp = c.smp /\ SameModes(d, c)
               /\ d.recovery_state = c.recovery_state /\ d.recovery_window = c.recovery_window
<1> DEFINE d == CountRound(c, last_acked)
<1>1. CASE ~RoundStarts(c, last_acked)
  BY <1>1 DEF CountRound, SameModes
<1>2. CASE RoundStarts(c, last_acked)
  <2> DEFINE count == c.round_trip_count + 1
             sent_last == c.last_sent_packet
  <2>1. /\ c.round_trip_count \in Nat /\ count \in Nat /\ c.round_trip_count <= count
        /\ sent_last \in Nat
    BY DEF Typed, Controllers
  <2>2. d = [c EXCEPT !.round_trip_count = count, !.current_round_trip_end = sent_last]
    BY <1>2 DEF CountRound, Typed, Controllers
  <2> HIDE DEF d, count, sent_last
  <2>3. /\ d.smp = c.smp /\ SameModes(d, c) /\ d.round_trip_count = count
        /\ d.max_bandwidth = c.max_bandwidth /\ d.max_ack_height = c.max_ack_height
        /\ d.measured = c.measured
        /\ d.recovery_state = c.recovery_state /\ d.recovery_window = c.recovery_window
    BY <2>2 DEF Typed, Controllers, SameModes
  <2>4. Typed(d)
    BY <2>1, <2>2 DEF Typed, Controllers
  <2>5. FiltersFit(d)
    BY <2>1, <2>3, FilterLater, FilterKnowsLater DEF FiltersFit
  <2> QED BY <2>3, <2>4, <2>5 DEF d
<1> QED BY <1>1, <1>2

\* bbr_update_bandwidth_and_min_rtt.
LEMMA MeasuredFits ==
    ASSUME NEW n \in Nat, NEW got, NEW had \in Nat, NEW c, Typed(c), FiltersFit(c),
           NEW r, SampledFits(r, n, got, had), NEW ts \in Nat
    PROVE  LET d == Measured(c, ts, r)
           IN  /\ Typed(d) /\ FiltersFit(d) /\ d.smp = r.smp /\ SameModes(d, c)
               /\ d.recovery_state = c.recovery_state /\ d.recovery_window = c.recovery_window
<1> DEFINE d     == Measured(c, ts, r)
           seen  == [c EXCEPT !.smp = r.smp, !.last_sample_is_app_limited = r.sample.is_app_limited]
           rate  == r.sample.bandwidth
           best  == FilterUpdate(c.max_bandwidth, rate, c.round_trip_count)
           known == c.measured \union {Estimate(rate, c.round_trip_count)}
           rated == IF r.sample.is_app_limited /\ rate <= Bandwidth(c) THEN seen
                    ELSE [seen EXCEPT !.max_bandwidth = best, !.measured = known]
           least == Greater(MinRttFloor, r.rtt)
           Fine(x) == /\ Typed(x) /\ FiltersFit(x) /\ x.smp = r.smp /\ SameModes(x, c)
                      /\ x.recovery_state = c.recovery_state
                      /\ x.recovery_window = c.recovery_window
<1>1. /\ r.sample.is_app_limited \in BOOLEAN /\ r.sample.bandwidth \in Nat /\ r.rtt \in Int
      /\ c.round_trip_count \in Nat
  BY DEF SampledFits, SampleTypes, Typed, Controllers
<1>2. FilterFits(best, c.round_trip_count) /\ FilterKnows(best, known, c.round_trip_count)
  BY <1>1, FilterUpdateFits, FilterUpdateKnows DEF FiltersFit
<1>3. d \in {seen, rated, [rated EXCEPT !.min_rtt = least, !.min_rtt_ts = ts]}
  <2>1. seen.max_bandwidth = c.max_bandwidth /\ seen.measured = c.measured
    BY DEF Typed, Controllers
  <2>2. [seen EXCEPT !.max_bandwidth = FilterUpdate(@, rate, c.round_trip_count),
                     !.measured = @ \union {Estimate(rate, c.round_trip_count)}]
          = [seen EXCEPT !.max_bandwidth = best, !.measured = known]
    <3> HIDE DEF seen
    <3> QED BY <2>1
  <2>3. rated = IF r.sample.is_app_limited /\ rate <= Bandwidth(c) THEN seen
                ELSE [seen EXCEPT !.max_bandwidth = FilterUpdate(@, rate, c.round_trip_count),
                                  !.measured = @ \union {Estimate(rate, c.round_trip_count)}]
    BY <2>2
  <2> HIDE DEF rated, best, known
  <2> QED BY <2>3 DEF Measured
<1> HIDE DEF d, best, known, least
<1>4. /\ seen.smp = r.smp /\ SameFilters(seen, c) /\ SameModes(seen, c)
      /\ seen.recovery_state = c.recovery_state /\ seen.recovery_window = c.recovery_window
  BY DEF Typed, Controllers, SameFilters, SameModes
<1>5. Typed(seen)
  BY <1>1 DEF Typed, Controllers
<1> HIDE DEF seen
<1>6. Fine(seen)
  BY <1>4, <1>5 DEF FiltersFit, SameFilters
<1>7. Fine([seen EXCEPT !.max_bandwidth = best, !.measured = known])
  <2> DEFINE x == [seen EXCEPT !.max_bandwidth = best, !.measured = known]
  <2>1. /\ x.smp = r.smp /\ SameModes(x, c) /\ x.max_bandwidth = best /\ x.measured = known
        /\ x.max_ack_height = c.max_ack_height /\ x.round_trip_count = c.round_trip_count
        /\ x.recovery_state = c.recovery_state /\ x.recovery_window = c.recovery_window
    BY <1>4, <1>5 DEF Typed, Controllers, SameModes, SameFilters
  <2>2. Typed(x)
    BY <1>5 DEF Typed, Controllers
  <2> HIDE DEF x
  <2>3. FiltersFit(x)
    BY <1>2, <1>4, <2>1 DEF FiltersFit
  <2>4. Fine(x)
    BY <2>1, <2>2, <2>3
  <2> HIDE DEF Fine
  <2> QED BY <2>4 DEF x
<1>8. Fine(rated)
  <2> HIDE DEF Fine
  <2> QED BY <1>6, <1>7
<1> HIDE DEF rated
<1>9. Fine([rated EXCEPT !.min_rtt = least, !.min_rtt_ts = ts])
  <2> DEFINE x == [rated EXCEPT !.min_rtt = least, !.min_rtt_ts = ts]
  <2>1. least \in Nat
    BY <1>1, ConstantsType DEF Greater, least
  <2>2. /\ x.smp = rated.smp /\ SameModes(x, rated) /\ SameFilters(x, rated)
        /\ x.recovery_state = rated.recovery_state /\ x.recovery_window = rated.recovery_window
    BY <1>8 DEF Typed, Controllers, SameModes, SameFilters
  <2>3. Typed(x)
    BY <1>8, <2>1 DEF Typed, Controllers
  <2> HIDE DEF x
  <2>4. Fine(x)
    BY <1>8, <2>2, <2>3 DEF FiltersFit, SameFilters, SameModes
  <2> HIDE DEF Fine
  <2> QED BY <2>4 DEF x
<1>10. Fine(d)
  <2> HIDE DEF Fine
  <2> QED BY <1>3, <1>6, <1>8, <1>9
<1> QED BY <1>10 DEF d

\* bbr_update_recovery_state.
LEMMA UpdateRecoveryStateFits ==
    ASSUME NEW c, Typed(c), NEW last_acked \in Nat, NEW losses, NEW round_start
    PROVE  LET d == UpdateRecoveryState(c, last_acked, losses, round_start)
           IN  Typed(d) /\ d.smp = c.smp /\ SameFilters(d, c) /\ SameModes(d, c)
<1> DEFINE Fine(x) == Typed(x) /\ x.smp = c.smp /\ SameFilters(x, c) /\ SameModes(x, c)
           marked == IF losses THEN [c EXCEPT !.end_recovery_at = last_acked] ELSE c
           grown  == IF round_start THEN [marked EXCEPT !.recovery_state = "GROWTH"] ELSE marked
           fallen == [marked EXCEPT !.recovery_state = "CONSERVATION", !.recovery_window = 0,
                                    !.current_round_trip_end = last_acked]
           ended  == [grown EXCEPT !.recovery_state = "NOT_IN_RECOVERY"]
           d == UpdateRecoveryState(c, last_acked, losses, round_start)
<1>1. d \in {c, fallen, ended, grown}
  BY DEF UpdateRecoveryState
<1> HIDE DEF d
<1>2. Fine(c)
  BY DEF SameFilters, SameModes
<1>3. Fine(marked)
  BY <1>2 DEF Typed, Controllers, SameFilters, SameModes
<1> HIDE DEF marked
<1>4. Fine(grown)
  BY <1>3 DEF Typed, Controllers, SameFilters, SameModes, RecoveryNames
<1>5. Fine(fallen)
  BY <1>3 DEF Typed, Controllers, SameFilters, SameModes, RecoveryNames
<1> HIDE DEF grown, fallen
<1>6. Fine(ended)
  BY <1>4 DEF Typed, Controllers, SameFilters, SameModes, RecoveryNames
<1>7. Fine(d)
  <2> HIDE DEF Fine, ended
  <2> QED BY <1>1, <1>2, <1>4, <1>5, <1>6
<1> QED BY <1>7 DEF d

\* bbr_update_ack_aggregation_bytes.
LEMMA UpdateAckAggregationFits ==
    ASSUME NEW c, Typed(c), FiltersFit(c), NEW ts \in Nat, NEW had \in Nat,
           c.smp.total_data_acked \in Nat, had <= c.smp.total_data_acked
    PROVE  LET d == UpdateAckAggregation(c, ts, had)
           IN  /\ Typed(d) /\ FiltersFit(d) /\ d.smp = c.smp /\ SameModes(d, c)
<1> DEFINE acked    == c.smp.total_data_acked - had
           expected == Bandwidth(c) * (ts - c.epoch_start)
           bytes    == c.epoch_bytes + acked
           height   == FilterUpdate(c.max_ack_height, bytes - expected, c.round_trip_count)
           begun    == [c EXCEPT !.epoch_bytes = acked, !.epoch_start = ts]
           higher   == [c EXCEPT !.epoch_bytes = bytes, !.max_ack_height = height]
           d        == UpdateAckAggregation(c, ts, had)
           Fine(x)  == /\ Typed(x) /\ FiltersFit(x) /\ x.smp = c.smp /\ SameModes(x, c)
<1>1. /\ acked \in Nat /\ bytes \in Nat /\ c.epoch_bytes \in Nat /\ c.epoch_start \in Int
      /\ bytes = c.epoch_bytes + acked /\ c.round_trip_count \in Nat
  BY DEF Typed, Controllers
<1>2. Bandwidth(c) \in Nat
  BY WindowsType
<1>3. expected \in Int
  <2>1. \A a \in Nat, b \in Int : a * b \in Int
    OBVIOUS
  <2> QED BY <1>1, <1>2, <2>1
<1>4. d = IF c.epoch_start = -1 \/ Bandwidth(c) <= 0 THEN c
          ELSE IF c.epoch_bytes <= expected THEN begun ELSE higher
  BY DEF UpdateAckAggregation, Typed, Controllers
<1>5. Fine(c)
  BY DEF SameModes
<1> HIDE DEF d, acked, bytes, expected
<1>6. Fine(begun)
  <2>1. begun.smp = c.smp /\ SameModes(begun, c) /\ SameFilters(begun, c)
    BY DEF Typed, Controllers, SameModes, SameFilters
  <2>2. Typed(begun)
    <3>1. ts \in Int
      OBVIOUS
    <3>2. [c EXCEPT !.epoch_bytes = acked] \in Controllers(c.max_bandwidth, c.max_ack_height, c.smp, c.measured)
      BY <1>1 DEF Typed, Controllers
    <3>3. \A x \in Controllers(c.max_bandwidth, c.max_ack_height, c.smp, c.measured) :
            [x EXCEPT !.epoch_start = ts] \in Controllers(c.max_bandwidth, c.max_ack_height, c.smp, c.measured)
      BY <3>1 DEF Controllers
    <3>4. begun = [[c EXCEPT !.epoch_bytes = acked] EXCEPT !.epoch_start = ts]
      BY DEF Typed, Controllers
    <3> HIDE DEF begun
    <3> QED BY <2>1, <3>2, <3>3, <3>4 DEF Typed, SameFilters
  <2> HIDE DEF begun
  <2> QED BY <2>1, <2>2 DEF FiltersFit, SameFilters
<1>7. ASSUME ~(c.epoch_bytes <= expected) PROVE Fine(higher)
  <2>1. bytes - expected \in Nat
    BY <1>1, <1>3, <1>7
  <2>2. FilterFits(height, c.round_trip_count)
    BY <1>1, <2>1, FilterUpdateFits DEF FiltersFit
  <2> HIDE DEF height
  <2>3. /\ Typed(higher) /\ higher.smp = c.smp /\ SameModes(higher, c)
        /\ higher.max_bandwidth = c.max_bandwidth /\ higher.max_ack_height = height
        /\ higher.round_trip_count = c.round_trip_count /\ higher.measured = c.measured
    BY <1>1 DEF Typed, Controllers, SameModes
  <2> HIDE DEF higher
  <2> QED BY <2>2, <2>3 DEF FiltersFit
<1>8. Fine(d)
  <2> HIDE DEF Fine, begun, higher
  <2> QED BY <1>4, <1>5, <1>6, <1>7
<1> QED BY <1>8 DEF d

\* What a step of the modes keeps: everything but the modes themselves.
ModeStep(d, c) == Typed(d) /\ SameFilters(d, c) /\ d.smp = c.smp

\* bbr_update_gain_cycle_phase.
LEMMA UpdateGainCycleFits ==
    ASSUME NEW c, Typed(c), NEW ts \in Nat, NEW prior_in_flight, NEW losses
    PROVE  LET d == UpdateGainCycle(c, ts, prior_in_flight, losses)
           IN  ModeStep(d, c) /\ (ModesNearlyAgree(c) => ModesNearlyAgree(d))
<1> DEFINE d    == UpdateGainCycle(c, ts, prior_in_flight, losses)
           next == (c.cycle_current_offset + 1) % CycleLength
           gain == PacingGain(next)
           turned == [c EXCEPT !.cycle_current_offset = next, !.last_cycle_start = ts,
                               !.pacing_gain = gain]
<1>1. next \in 0 .. CycleLength - 1
  <2>1. c.cycle_current_offset \in Nat
    BY ConstantsType DEF Typed, Controllers
  <2> QED BY <2>1, ConstantsType
<1>2. d = c \/ (c.mode = "PROBE_BW" /\ d = turned)
  BY DEF UpdateGainCycle
<1>3. gain \in Gains
  BY GainsAre
<1> HIDE DEF d, next
<1>4. /\ SameFilters(turned, c) /\ turned.smp = c.smp /\ turned.mode = c.mode
      /\ turned.is_at_full_bandwidth = c.is_at_full_bandwidth
      /\ turned.cycle_current_offset = next /\ turned.pacing_gain = PacingGain(next)
  BY DEF Typed, Controllers, SameFilters
<1> HIDE DEF gain
<1>5. Typed(turned)
  BY <1>1, <1>3 DEF Typed, Controllers
<1> HIDE DEF turned
<1>6. CASE d = c
  BY <1>6 DEF ModeStep, SameFilters, d
<1>7. CASE c.mode = "PROBE_BW" /\ d = turned
  <2>1. ModeStep(turned, c)
    BY <1>4, <1>5 DEF ModeStep
  <2>2. ModesNearlyAgree(c) => ModesNearlyAgree(turned)
    BY <1>4, <1>7 DEF ModesNearlyAgree
  <2> QED BY <1>7, <2>1, <2>2 DEF d
<1> QED BY <1>2, <1>6, <1>7

\* bbr_check_if_full_bandwidth_reached.
LEMMA CheckFullBandwidthFits ==
    ASSUME NEW c, Typed(c), FiltersFit(c), NEW round_start
    PROVE  LET d == CheckFullBandwidth(c, round_start)
           IN  ModeStep(d, c) /\ (ModesNearlyAgree(c) => ModesNearlyAgree(d))
<1> DEFINE d      == CheckFullBandwidth(c, round_start)
           best   == Bandwidth(c)
           rounds == c.rounds_without_gain + 1
           full   == rounds >= StartupRounds \/ InRecovery(c)
           grown  == [c EXCEPT !.bandwidth_at_last_round = best, !.rounds_without_gain = 0]
           flat   == [c EXCEPT !.rounds_without_gain = rounds, !.is_at_full_bandwidth = full]
<1>1. best \in Nat /\ rounds \in Nat /\ full \in BOOLEAN
  BY WindowsType DEF Typed, Controllers
<1>2. d = c \/ d = grown \/ (~c.is_at_full_bandwidth /\ d = flat)
  BY DEF CheckFullBandwidth, Typed, Controllers
<1> HIDE DEF d, best, rounds, full
<1>3. ModeStep(c, c)
  BY DEF ModeStep, SameFilters
<1>4. ModeStep(grown, c) /\ SameModes(grown, c)
  BY <1>1 DEF ModeStep, SameFilters, SameModes, Typed, Controllers
<1>5. /\ ModeStep(flat, c) /\ flat.mode = c.mode /\ flat.pacing_gain = c.pacing_gain
      /\ flat.cycle_current_offset = c.cycle_current_offset
  BY <1>1 DEF ModeStep, SameFilters, Typed, Controllers
<1> HIDE DEF grown, flat
<1>6. ModesNearlyAgree(c) => ModesNearlyAgree(grown)
  BY <1>4 DEF ModesNearlyAgree, SameModes
<1>7. ~c.is_at_full_bandwidth /\ ModesNearlyAgree(c) => ModesNearlyAgree(flat)
  BY <1>5 DEF ModesNearlyAgree
<1>8. ModeStep(d, c) /\ (ModesNearlyAgree(c) => ModesNearlyAgree(d))
  BY <1>2, <1>3, <1>4, <1>5, <1>6, <1>7
<1> QED BY <1>8 DEF d

LEMMA EnterStartupFits ==
    ASSUME NEW c, Typed(c)
    PROVE  LET d == EnterStartup(c)
           IN  ModeStep(d, c) /\ (~c.is_at_full_bandwidth => ModesAgree(d))
<1> DEFINE d == EnterStartup(c)
<1>1. /\ SameFilters(d, c) /\ d.smp = c.smp /\ d.mode = "STARTUP" /\ d.pacing_gain = HighGain
      /\ d.is_at_full_bandwidth = c.is_at_full_bandwidth
  BY DEF EnterStartup, SameFilters, Typed, Controllers
<1>2. Typed(d)
  BY GainsAre DEF EnterStartup, Typed, Controllers, ModeNames
<1> HIDE DEF d
<1>3. ModeStep(d, c) /\ (~c.is_at_full_bandwidth => ModesAgree(d))
  BY <1>1, <1>2 DEF ModeStep, ModesAgree, ModesNearlyAgree
<1> QED BY <1>3 DEF d

LEMMA EnterProbeBandwidthFits ==
    ASSUME NEW c, Typed(c), c.is_at_full_bandwidth, NEW ts \in Nat, NEW offset \in CycleStarts
    PROVE  LET d == EnterProbeBandwidth(c, ts, offset)
           IN  ModeStep(d, c) /\ ModesAgree(d)
<1> DEFINE d    == EnterProbeBandwidth(c, ts, offset)
           gain == PacingGain(offset)
<1>1. gain \in Gains /\ <<2, 1>> \in Gains /\ offset \in 0 .. CycleLength - 1
  BY GainsAre, ConstantsType DEF CycleStarts
<1>2. /\ SameFilters(d, c) /\ d.smp = c.smp /\ d.mode = "PROBE_BW" /\ d.pacing_gain = gain
      /\ d.cycle_current_offset = offset /\ d.is_at_full_bandwidth = c.is_at_full_bandwidth
  BY DEF EnterProbeBandwidth, SameFilters, Typed, Controllers
<1>3. d = [c EXCEPT !.mode = "PROBE_BW", !.congestion_window_gain = <<2, 1>>,
                    !.cycle_current_offset = offset, !.last_cycle_start = ts,
                    !.pacing_gain = gain]
  BY DEF EnterProbeBandwidth
<1>4. PacingGain(d.cycle_current_offset) = gain
  BY <1>2
<1> HIDE DEF d, gain
<1>5. Typed(d)
  BY <1>1, <1>3, ZenonT(30) DEF Typed, Controllers, ModeNames
<1>6. ModeStep(d, c) /\ ModesAgree(d)
  BY <1>2, <1>4, <1>5 DEF ModeStep, ModesAgree, ModesNearlyAgree
<1> QED BY <1>6 DEF d

\* bbr_maybe_exit_startup_or_drain: start-up at full bandwidth is over.
LEMMA ExitStartupOrDrainFits ==
    ASSUME NEW c, Typed(c), ModesNearlyAgree(c), NEW ts \in Nat, NEW in_flight,
           NEW offset \in CycleStarts
    PROVE  LET d == ExitStartupOrDrain(c, ts, in_flight, offset)
           IN  ModeStep(d, c) /\ ModesAgree(d)
<1> DEFINE d       == ExitStartupOrDrain(c, ts, in_flight, offset)
           turned  == [c EXCEPT !.mode = "DRAIN", !.pacing_gain = DrainGain,
                                !.congestion_window_gain = DrainGain]
           drained == IF c.mode = "STARTUP" /\ c.is_at_full_bandwidth THEN turned ELSE c
<1>1. d = IF drained.mode = "DRAIN" /\ in_flight <= TargetWindow(drained, One)
          THEN EnterProbeBandwidth(drained, ts, offset) ELSE drained
  BY DEF ExitStartupOrDrain
<1>2. /\ ModeStep(turned, c) /\ turned.mode = "DRAIN" /\ turned.pacing_gain = DrainGain
      /\ turned.is_at_full_bandwidth = c.is_at_full_bandwidth
  BY GainsAre DEF ModeStep, SameFilters, Typed, Controllers, ModeNames
<1> HIDE DEF d, turned
<1>3. ModeStep(drained, c) /\ ModesAgree(drained)
  <2>1. CASE c.mode = "STARTUP" /\ c.is_at_full_bandwidth
    BY <1>2, <2>1 DEF ModesAgree, ModesNearlyAgree
  <2>2. CASE ~(c.mode = "STARTUP" /\ c.is_at_full_bandwidth)
    BY <2>2 DEF ModesAgree, ModeStep, SameFilters
  <2> QED BY <2>1, <2>2
<1> HIDE DEF drained
<1>4. Typed(drained) /\ (drained.mode = "DRAIN" => drained.is_at_full_bandwidth)
  BY <1>3 DEF ModeStep, ModesAgree, ModesNearlyAgree
<1>5. ModeStep(d, c) /\ ModesAgree(d)
  <2>1. CASE d = drained
    BY <1>3, <2>1
  <2>2. CASE drained.mode = "DRAIN" /\ d = EnterProbeBandwidth(drained, ts, offset)
    BY <1>3, <1>4, <2>2, EnterProbeBandwidthFits DEF ModeStep, SameFilters
  <2> QED BY <1>1, <2>1, <2>2
<1> QED BY <1>5 DEF d

\* What the round trip probe keeps: it may mark the sampler.
ProbeStep(d, c, n, got) ==
    /\ Typed(d) /\ SameFilters(d, c) /\ SamplerFits(d.smp, n, got)
    /\ d.smp.total_data_acked = c.smp.total_data_acked

LEMMA LeaveProbeRttFits ==
    ASSUME NEW c, Typed(c), NEW ts \in Nat, NEW offset \in CycleStarts
    PROVE  LET d == LeaveProbeRtt(c, ts, offset)
           IN  ModeStep(d, c) /\ ModesAgree(d)
<1> DEFINE d     == LeaveProbeRtt(c, ts, offset)
           fresh == [c EXCEPT !.min_rtt_ts = ts]
<1>1. ModeStep(fresh, c) /\ fresh.is_at_full_bandwidth = c.is_at_full_bandwidth
  BY DEF ModeStep, SameFilters, Typed, Controllers
<1>2. d = IF c.is_at_full_bandwidth THEN EnterProbeBandwidth(fresh, ts, offset)
          ELSE EnterStartup(fresh)
  BY DEF LeaveProbeRtt
<1> HIDE DEF d, fresh
<1>3. Typed(fresh)
  BY <1>1 DEF ModeStep
<1>4. ModeStep(d, fresh) /\ ModesAgree(d)
  <2>1. CASE c.is_at_full_bandwidth
    BY <1>1, <1>2, <1>3, <2>1, EnterProbeBandwidthFits
  <2>2. CASE ~c.is_at_full_bandwidth
    BY <1>1, <1>2, <1>3, <2>2, EnterStartupFits
  <2> QED BY <2>1, <2>2
<1>5. ModeStep(d, c)
  BY <1>1, <1>4 DEF ModeStep, SameFilters
<1> QED BY <1>4, <1>5 DEF d

LEMMA StayInProbeRttFits ==
    ASSUME NEW n \in Nat, NEW got \in SUBSET (0 .. n - 1), NEW c, Typed(c),
           SamplerFits(c.smp, n, got), c.mode = "PROBE_RTT",
           NEW ts \in Nat, NEW in_flight, NEW round_start \in BOOLEAN, NEW offset \in CycleStarts
    PROVE  LET d == StayInProbeRtt(c, ts, in_flight, round_start, offset)
           IN  ProbeStep(d, c, n, got) /\ ModesAgree(d)
<1> DEFINE d       == StayInProbeRtt(c, ts, in_flight, round_start, offset)
           smp     == SamplerAppLimited(c.smp)
           limited == [c EXCEPT !.smp = smp]
           over    == limited.probe_rtt_round_passed \/ round_start
           passed  == [limited EXCEPT !.probe_rtt_round_passed = over]
           until   == ts + ProbeRttMs
           low     == [limited EXCEPT !.exit_probe_rtt_at = until, !.probe_rtt_round_passed = FALSE]
           Fine(x) == ProbeStep(x, c, n, got) /\ x.mode = "PROBE_RTT"
<1>1. SamplerFits(smp, n, got) /\ smp.total_data_acked = c.smp.total_data_acked
  <2>1. smp.total_data_acked = c.smp.total_data_acked
    BY DEF SamplerAppLimited, SamplerFits, Samplers
  <2> QED BY <2>1, AppLimitedFits
<1>2. d \in {limited, low, passed, LeaveProbeRtt(passed, ts, offset)}
  <2>1. limited = [c EXCEPT !.smp = SamplerAppLimited(@)]
    BY DEF Typed, Controllers
  <2>2. passed = [limited EXCEPT !.probe_rtt_round_passed = @ \/ round_start]
    <3>1. limited.probe_rtt_round_passed = c.probe_rtt_round_passed
          /\ DOMAIN limited = DOMAIN c /\ "probe_rtt_round_passed" \in DOMAIN c
      BY DEF Typed, Controllers
    <3> HIDE DEF limited
    <3> QED BY <3>1
  <2> HIDE DEF passed, limited
  <2> QED BY <2>1, <2>2 DEF StayInProbeRtt
<1> HIDE DEF d, smp
<1>3. Typed(limited)
  BY DEF Typed, Controllers
<1>4. Fine(limited)
  <2>1. /\ SameFilters(limited, c) /\ limited.smp = smp /\ limited.mode = "PROBE_RTT"
    BY DEF SameFilters, Typed, Controllers
  <2> HIDE DEF limited
  <2> QED BY <1>1, <1>3, <2>1 DEF ProbeStep
<1> HIDE DEF limited
<1>5. over \in BOOLEAN /\ until \in Int
  BY ConstantsType
<1> HIDE DEF over, until
<1>6. Typed(low) /\ SameFilters(low, limited) /\ low.smp = limited.smp /\ low.mode = limited.mode
  <2>1. SameFilters(low, limited) /\ low.smp = limited.smp /\ low.mode = limited.mode
    BY <1>3 DEF SameFilters, Typed, Controllers
  <2>2. Typed(low)
    BY <1>3, <1>5 DEF Typed, Controllers
  <2> QED BY <2>1, <2>2
<1>7. /\ Typed(passed) /\ SameFilters(passed, limited) /\ passed.smp = limited.smp
      /\ passed.mode = limited.mode
  <2>1. SameFilters(passed, limited) /\ passed.smp = limited.smp /\ passed.mode = limited.mode
    BY <1>3 DEF SameFilters, Typed, Controllers
  <2>2. Typed(passed)
    BY <1>3, <1>5 DEF Typed, Controllers
  <2> QED BY <2>1, <2>2
<1> HIDE DEF low, passed
<1>8. Fine(low) /\ Fine(passed)
  BY <1>4, <1>6, <1>7 DEF ProbeStep, SameFilters
<1>9. \A x : Fine(x) => ModesAgree(x)
  BY DEF ModesAgree, ModesNearlyAgree
<1>10. LET x == LeaveProbeRtt(passed, ts, offset) IN ProbeStep(x, c, n, got) /\ ModesAgree(x)
  BY <1>7, <1>8, LeaveProbeRttFits DEF ModeStep, ProbeStep, SameFilters
<1>11. ProbeStep(d, c, n, got) /\ ModesAgree(d)
  BY <1>2, <1>4, <1>8, <1>9, <1>10
<1> QED BY <1>11 DEF d

\* bbr_maybe_enter_or_exit_probe_rtt.
LEMMA EnterOrExitProbeRttFits ==
    ASSUME NEW n \in Nat, NEW got \in SUBSET (0 .. n - 1), NEW c, Typed(c),
           SamplerFits(c.smp, n, got), ModesAgree(c),
           NEW ts \in Nat, NEW in_flight, NEW round_start \in BOOLEAN, NEW expired,
           NEW offset \in CycleStarts
    PROVE  LET d == EnterOrExitProbeRtt(c, ts, in_flight, round_start, expired, offset)
           IN  ProbeStep(d, c, n, got) /\ ModesAgree(d)
<1> DEFINE d       == EnterOrExitProbeRtt(c, ts, in_flight, round_start, expired, offset)
           begun   == [c EXCEPT !.mode = "PROBE_RTT", !.pacing_gain = One, !.exit_probe_rtt_at = -1]
           entered == IF expired /\ ~c.exiting_quiescence /\ c.mode # "PROBE_RTT" THEN begun ELSE c
           stayed  == IF entered.mode = "PROBE_RTT"
                      THEN StayInProbeRtt(entered, ts, in_flight, round_start, offset)
                      ELSE entered
<1>1. d = [stayed EXCEPT !.exiting_quiescence = FALSE]
  BY DEF EnterOrExitProbeRtt
<1>2. Typed(begun) /\ SameFilters(begun, c) /\ begun.smp = c.smp /\ begun.mode = "PROBE_RTT"
  <2> DEFINE none == -1
             gain == One
  <2>1. none \in Int /\ gain \in Gains
    BY GainsAre
  <2>2. begun = [c EXCEPT !.mode = "PROBE_RTT", !.pacing_gain = gain, !.exit_probe_rtt_at = none]
    OBVIOUS
  <2> HIDE DEF none, gain, begun
  <2>3. SameFilters(begun, c) /\ begun.smp = c.smp /\ begun.mode = "PROBE_RTT"
    BY <2>2 DEF Typed, Controllers, SameFilters
  <2>4. Typed(begun)
    BY <2>1, <2>2 DEF Typed, Controllers, ModeNames
  <2> QED BY <2>3, <2>4
<1> HIDE DEF begun
<1>3. /\ Typed(entered) /\ SameFilters(entered, c) /\ entered.smp = c.smp
      /\ entered.mode # "PROBE_RTT" => ModesAgree(entered)
  BY <1>2 DEF SameFilters
<1> HIDE DEF entered
<1>4. ProbeStep(stayed, c, n, got) /\ ModesAgree(stayed)
  <2>1. CASE entered.mode = "PROBE_RTT"
    BY <1>3, <2>1, StayInProbeRttFits DEF ProbeStep, SameFilters
  <2>2. CASE entered.mode # "PROBE_RTT"
    BY <1>3, <2>2 DEF ProbeStep, SameFilters
  <2> QED BY <2>1, <2>2
<1> HIDE DEF stayed, d
<1>5. Typed(d) /\ SameFilters(d, stayed) /\ d.smp = stayed.smp /\ SameModes(d, stayed)
  <2>1. SameFilters(d, stayed) /\ d.smp = stayed.smp /\ SameModes(d, stayed)
    BY <1>1, <1>4 DEF ProbeStep, Typed, Controllers, SameFilters, SameModes
  <2>2. Typed(d)
    BY <1>1, <1>4 DEF ProbeStep, Typed, Controllers
  <2> QED BY <2>1, <2>2
<1>6. ProbeStep(d, c, n, got)
  BY <1>4, <1>5 DEF ProbeStep, SameFilters
<1>7. ModesAgree(d)
  BY <1>4, <1>5 DEF ModesAgree, ModesNearlyAgree, SameModes
<1> QED BY <1>6, <1>7 DEF d

\* What the sizes keep: the modes too.
SizeStep(d, c) == ModeStep(d, c) /\ SameModes(d, c)

\* bbr_calculate_pacing_rate.
LEMMA CalculatePacingRateFits ==
    ASSUME NEW c, Typed(c), FiltersFit(c)
    PROVE  SizeStep(CalculatePacingRate(c), c)
<1> DEFINE d      == CalculatePacingRate(c)
           goal   == Times(c.pacing_gain, Bandwidth(c))
           rate   == IF c.is_at_full_bandwidth THEN Greater(goal, CongestionWindow(c) \div c.srtt)
                     ELSE IF c.pacing_rate = 0 /\ c.rtt_min > 0 THEN InitialWindow \div c.rtt_min
                     ELSE Greater(c.pacing_rate, goal)
<1>1. /\ c.srtt \in Nat \ {0} /\ c.rtt_min \in Nat /\ c.pacing_rate \in Nat
      /\ c.pacing_gain \in Gains
  BY DEF Typed, Controllers
<1>2. goal \in Nat /\ CongestionWindow(c) \in Nat
  BY <1>1, TimesType, WindowsType
<1>3. CongestionWindow(c) \div c.srtt \in Nat
  BY <1>1, <1>2, QuotientType
<1>4. c.rtt_min > 0 => InitialWindow \div c.rtt_min \in Nat
  BY <1>1, QuotientType, ConstantsType
<1>5. d = c \/ d = [c EXCEPT !.pacing_rate = rate]
  BY DEF CalculatePacingRate, Typed, Controllers
<1> HIDE DEF goal, d
<1>6. rate \in Nat
  BY <1>1, <1>2, <1>3, <1>4 DEF Greater
<1> HIDE DEF rate
<1>7. SizeStep(c, c)
  BY DEF SizeStep, ModeStep, SameFilters, SameModes
<1>8. SizeStep([c EXCEPT !.pacing_rate = rate], c)
  BY <1>6 DEF SizeStep, ModeStep, SameFilters, SameModes, Typed, Controllers
<1>9. SizeStep(d, c)
  BY <1>5, <1>7, <1>8
<1> QED BY <1>9 DEF d

\* bbr_calculate_congestion_window.
LEMMA CalculateCongestionWindowFits ==
    ASSUME NEW c, Typed(c), FiltersFit(c), NEW acked \in Nat
    PROVE  SizeStep(CalculateCongestionWindow(c, acked), c)
<1> DEFINE d      == CalculateCongestionWindow(c, acked)
           goal   == TargetWindow(c, c.congestion_window_gain)
                       + IF c.is_at_full_bandwidth THEN FilterBest(c.max_ack_height) ELSE 0
           window == IF c.is_at_full_bandwidth THEN Lesser(goal, c.congestion_window + acked)
                     ELSE IF c.congestion_window < goal \/ c.smp.total_data_acked < InitialWindow
                          THEN c.congestion_window + acked
                          ELSE c.congestion_window
           size   == Lesser(Greater(window, MinWindow), MaxWindow)
<1>1. d = c \/ d = [c EXCEPT !.congestion_window = size]
  BY DEF CalculateCongestionWindow
<1>2. goal \in Nat
  <2>1. c.congestion_window_gain \in Gains
    BY DEF Typed, Controllers
  <2>2. FilterBest(c.max_ack_height) \in Nat
    BY FilterBestType DEF FiltersFit
  <2> QED BY <2>1, <2>2, WindowsType
<1> HIDE DEF d, goal
<1>3. window \in Nat
  <2>1. c.congestion_window \in Nat
    BY ConstantsType DEF Typed, Controllers
  <2> QED BY <1>2, <2>1 DEF Lesser
<1> HIDE DEF window
<1>4. size \in MinWindow .. MaxWindow
  BY <1>3, ConstantsType DEF Lesser, Greater
<1> HIDE DEF size
<1>5. SizeStep(c, c)
  BY DEF SizeStep, ModeStep, SameFilters, SameModes
<1>6. SizeStep([c EXCEPT !.congestion_window = size], c)
  BY <1>4 DEF SizeStep, ModeStep, SameFilters, SameModes, Typed, Controllers
<1>7. SizeStep(d, c)
  BY <1>1, <1>5, <1>6
<1> QED BY <1>7 DEF d

\* bbr_calculate_recovery_window: a recovery never ends below the least window.
LEMMA CalculateRecoveryWindowFits ==
    ASSUME NEW c, Typed(c), NEW acked \in Nat, NEW lost \in Nat, NEW in_flight \in Nat
    PROVE  LET d == CalculateRecoveryWindow(c, acked, lost, in_flight)
           IN  SizeStep(d, c) /\ (InRecovery(d) => d.recovery_window >= MinWindow)
<1> DEFINE d       == CalculateRecoveryWindow(c, acked, lost, in_flight)
           reduced == (IF c.recovery_window >= lost THEN c.recovery_window - lost ELSE MaxSegmentSize)
                        + IF c.recovery_state = "GROWTH" THEN acked ELSE 0
           window  == Greater(MinWindow, IF c.recovery_window = 0 THEN in_flight + acked
                                         ELSE Greater(reduced, in_flight + acked))
<1>1. (~InRecovery(c) /\ d = c) \/ d = [c EXCEPT !.recovery_window = window]
  BY DEF CalculateRecoveryWindow, Typed, Controllers
<1>2. c.recovery_window \in Nat
  BY DEF Typed, Controllers
<1>3. reduced \in Nat
  BY <1>2, ConstantsType
<1> HIDE DEF d, reduced
<1>4. window \in Nat /\ window >= MinWindow
  BY <1>2, <1>3, ConstantsType DEF Greater
<1> HIDE DEF window
<1>5. SizeStep(c, c)
  BY DEF SizeStep, ModeStep, SameFilters, SameModes
<1>6. /\ SizeStep([c EXCEPT !.recovery_window = window], c)
      /\ [c EXCEPT !.recovery_window = window].recovery_window = window
  BY <1>4 DEF SizeStep, ModeStep, SameFilters, SameModes, Typed, Controllers
<1>7. SizeStep(d, c) /\ (InRecovery(d) => d.recovery_window >= MinWindow)
  BY <1>1, <1>4, <1>5, <1>6
<1> QED BY <1>7 DEF d

\* What a feedback says of the packets: one that came back has arrived.
Packets(got) ==
    {p \in [seq : Nat, recv_time : Int, send_time : Nat, size : {PacketSize}] :
       ~IsLost(p) => p.seq \in got}

Reported(got) == {p \in Packets(got) : IsLost(p) = FALSE}
Missing(got)  == {p \in Packets(got) : IsLost(p) = TRUE}

FeedbackFits(fb, got) ==
    fb.time \in Nat /\ fb.in_flight \in Nat /\ fb.packets \in Seq(Packets(got))

LEMMA ReportedAre ==
    ASSUME NEW got, NEW acked \in Seq(Reported(got))
    PROVE  /\ Len(acked) \in Nat
           /\ \A i \in 1 .. Len(acked) : acked[i].seq \in got /\ acked[i].recv_time \in Int
           /\ acked # << >> => acked[Len(acked)].seq \in got
<1>1. \A p \in Reported(got) : p.seq \in got /\ p.recv_time \in Int
  BY DEF Reported, Packets
<1>2. \A i \in 1 .. Len(acked) : acked[i] \in Reported(got)
  OBVIOUS
<1>3. acked # << >> => Len(acked) \in 1 .. Len(acked)
  OBVIOUS
<1> QED BY <1>1, <1>2, <1>3

\* What the acknowledged packets change.
LEMMA AcknowledgedFits ==
    ASSUME NEW n \in Nat, NEW got \in SUBSET (0 .. n - 1), NEW c, PartsFit(c, n, got),
           NEW fb, fb.time \in Nat, NEW acked \in Seq(Reported(got)), NEW losses
    PROVE  LET d == Acknowledged(c, fb, acked, losses)
           IN  /\ PartsFit(d, n, got) /\ SameModes(d, c)
               /\ d.smp.total_data_acked >= c.smp.total_data_acked
<1> DEFINE d     == Acknowledged(c, fb, acked, losses)
           last  == acked[Len(acked)].seq
           round == RoundStarts(c, last)
           had   == c.smp.total_data_acked
           c1    == CountRound(c, last)
           r     == Sampled(c1, acked)
           c2    == Measured(c1, fb.time, r)
           c3    == UpdateRecoveryState(c2, last, losses, round)
           c4    == UpdateAckAggregation(c3, fb.time, had)
<1>1. Typed(c) /\ FiltersFit(c) /\ SamplerFits(c.smp, n, got) /\ had \in Nat
  BY SamplerIsOne DEF PartsFit
<1>2. CASE acked = << >>
  BY <1>1, <1>2 DEF Acknowledged, SameModes
<1>3. CASE acked # << >>
  <2>1. d = c4
    BY <1>3 DEF Acknowledged, UpdateBandwidthAndMinRtt
  <2>2. last \in Nat
    <3>1. last \in got
      BY <1>3, ReportedAre
    <3>2. \A k \in got : k \in Nat
      OBVIOUS
    <3> QED BY <3>1, <3>2
  <2>3. Typed(c1) /\ FiltersFit(c1) /\ c1.smp = c.smp /\ SameModes(c1, c)
    BY <1>1, <2>2, CountRoundFits
  <2> HIDE DEF d, c1
  <2>4. SampledFits(r, n, got, had)
    BY <1>1, <2>3, SampledKeeps, ReportedAre
  <2> HIDE DEF r
  <2>5. Typed(c2) /\ FiltersFit(c2) /\ c2.smp = r.smp /\ SameModes(c2, c1)
    BY <1>1, <2>3, <2>4, MeasuredFits
  <2>6. SamplerFits(r.smp, n, got) /\ r.smp.total_data_acked >= had /\ r.smp.total_data_acked \in Nat
    <3>1. SamplerFits(r.smp, n, got) /\ r.smp.total_data_acked >= had
      BY <2>4 DEF SampledFits
    <3> QED BY <3>1, SamplerIsOne
  <2> HIDE DEF c2
  <2>7. Typed(c3) /\ c3.smp = c2.smp /\ SameFilters(c3, c2) /\ SameModes(c3, c2)
    <3> HIDE DEF round, last
    <3> QED BY <2>2, <2>5, UpdateRecoveryStateFits
  <2>8. FiltersFit(c3) /\ had <= c3.smp.total_data_acked /\ c3.smp.total_data_acked \in Nat
    BY <1>1, <2>5, <2>6, <2>7 DEF FiltersFit, SameFilters
  <2> HIDE DEF c3
  <2>9. Typed(c4) /\ FiltersFit(c4) /\ c4.smp = c3.smp /\ SameModes(c4, c3)
    <3> HIDE DEF had
    <3> QED BY <1>1, <2>7, <2>8, UpdateAckAggregationFits
  <2> HIDE DEF c4
  <2>10. PartsFit(c4, n, got) /\ c4.smp.total_data_acked >= had
    BY <2>5, <2>6, <2>7, <2>9 DEF PartsFit
  <2>11. SameModes(c4, c)
    BY <2>3, <2>5, <2>7, <2>9 DEF SameModes
  <2> QED BY <2>1, <2>10, <2>11 DEF d
<1> QED BY <1>2, <1>3

LEMMA ModesFit ==
    ASSUME NEW n \in Nat, NEW got \in SUBSET (0 .. n - 1), NEW c, PartsFit(c, n, got),
           ModesNearlyAgree(c), NEW fb, fb.time \in Nat, NEW losses, NEW round \in BOOLEAN,
           NEW expired, NEW offset \in CycleStarts
    PROVE  LET d == Modes(c, fb, losses, round, expired, offset)
           IN  ProbeStep(d, c, n, got) /\ ModesAgree(d)
<1> DEFINE c1 == UpdateGainCycle(c, fb.time, fb.prior_in_flight, losses)
           c2 == CheckFullBandwidth(c1, round)
           c3 == ExitStartupOrDrain(c2, fb.time, fb.in_flight, offset)
           c4 == EnterOrExitProbeRtt(c3, fb.time, fb.in_flight, round, expired, offset)
<1>1. Typed(c) /\ FiltersFit(c) /\ SamplerFits(c.smp, n, got)
  BY DEF PartsFit
<1>2. ModeStep(c1, c) /\ ModesNearlyAgree(c1)
  BY <1>1, UpdateGainCycleFits
<1> HIDE DEF c1
<1>3. Typed(c1) /\ FiltersFit(c1)
  BY <1>1, <1>2 DEF ModeStep, SameFilters, FiltersFit
<1>4. ModeStep(c2, c1) /\ ModesNearlyAgree(c2)
  BY <1>2, <1>3, CheckFullBandwidthFits
<1> HIDE DEF c2
<1>5. Typed(c2)
  BY <1>4 DEF ModeStep
<1>6. ModeStep(c3, c2) /\ ModesAgree(c3)
  BY <1>4, <1>5, ExitStartupOrDrainFits
<1> HIDE DEF c3
<1>7. Typed(c3) /\ SamplerFits(c3.smp, n, got)
  BY <1>1, <1>2, <1>4, <1>6 DEF ModeStep
<1>8. ProbeStep(c4, c3, n, got) /\ ModesAgree(c4)
  BY <1>6, <1>7, EnterOrExitProbeRttFits
<1>9. Modes(c, fb, losses, round, expired, offset) = c4
  BY DEF Modes, c1, c2, c3
<1> HIDE DEF c4
<1>10. ProbeStep(c4, c, n, got)
  BY <1>2, <1>4, <1>6, <1>8 DEF ProbeStep, ModeStep, SameFilters
<1> QED BY <1>8, <1>9, <1>10

\* A controller as a feedback leaves it.
ControllerFits(c, n, got) ==
    /\ PartsFit(c, n, got)
    /\ ModesAgree(c)
    /\ InRecovery(c) => c.recovery_window >= MinWindow

LEMMA ResizedFits ==
    ASSUME NEW n \in Nat, NEW got \in SUBSET (0 .. n - 1), NEW c, PartsFit(c, n, got),
           ModesAgree(c), NEW fb, fb.in_flight \in Nat, NEW acked \in Seq(Reported(got)),
           NEW lost \in Seq(Missing(got)), NEW had \in Nat, had <= c.smp.total_data_acked
    PROVE  LET d == Resized(c, fb, acked, lost, had)
           IN  ControllerFits(d, n, got) /\ SameFilters(d, c)
<1> DEFINE bytes == c.smp.total_data_acked - had
           gone  == Bytes(lost)
           c1    == CalculatePacingRate(c)
           c2    == CalculateCongestionWindow(c1, bytes)
           c3    == CalculateRecoveryWindow(c2, bytes, gone, fb.in_flight)
           old   == SamplerRemoveOld(c3.smp, acked[Len(acked)].seq)
           c4    == [c3 EXCEPT !.smp = old]
           d     == Resized(c, fb, acked, lost, had)
<1>1. Typed(c) /\ FiltersFit(c) /\ SamplerFits(c.smp, n, got) /\ bytes \in Nat
  BY SamplerIsOne DEF PartsFit
<1>2. gone \in Nat
  <2>1. \A p \in Missing(got) : p.size \in Nat
    BY SizeType DEF Missing, Packets
  <2>2. Len(lost) \in Nat /\ \A i \in 1 .. Len(lost) : lost[i].size \in Nat
    BY <2>1
  <2> QED BY <2>2, BytesType
<1>3. d = IF acked = << >> THEN c3 ELSE c4
  <2>1. [c3 EXCEPT !.smp = SamplerRemoveOld(@, acked[Len(acked)].seq)] = c4
    <3> HIDE DEF c3
    <3> QED OBVIOUS
  <2> QED BY <2>1 DEF Resized
<1> HIDE DEF bytes, gone, d
<1>4. SizeStep(c1, c)
  BY <1>1, CalculatePacingRateFits
<1> HIDE DEF c1
<1>5. Typed(c1) /\ FiltersFit(c1)
  BY <1>1, <1>4 DEF SizeStep, ModeStep, SameFilters, FiltersFit
<1>6. SizeStep(c2, c1)
  BY <1>1, <1>5, CalculateCongestionWindowFits
<1> HIDE DEF c2
<1>7. Typed(c2)
  BY <1>6 DEF SizeStep, ModeStep
<1>8. SizeStep(c3, c2) /\ (InRecovery(c3) => c3.recovery_window >= MinWindow)
  BY <1>1, <1>2, <1>7, CalculateRecoveryWindowFits
<1> HIDE DEF c3
<1>9. /\ Typed(c3) /\ SameFilters(c3, c) /\ c3.smp = c.smp /\ SameModes(c3, c)
  BY <1>4, <1>6, <1>8 DEF SizeStep, ModeStep, SameFilters, SameModes
<1>10. ControllerFits(c3, n, got)
  <2>1. FiltersFit(c3)
    BY <1>1, <1>9 DEF FiltersFit, SameFilters
  <2>2. ModesAgree(c3)
    BY <1>9 DEF ModesAgree, ModesNearlyAgree, SameModes
  <2> QED BY <1>1, <1>8, <1>9, <2>1, <2>2 DEF ControllerFits, PartsFit
<1>11. ASSUME acked # << >>
       PROVE  ControllerFits(c4, n, got) /\ SameFilters(c4, c)
  <2>1. SamplerFits(old, n, got)
    <3>1. acked[Len(acked)].seq \in got
      BY <1>11, ReportedAre
    <3>2. \A k \in got : k \in Nat
      OBVIOUS
    <3>3. acked[Len(acked)].seq \in Nat
      BY <3>1, <3>2
    <3> QED BY <1>1, <1>9, <3>3, RemoveOldFits
  <2> HIDE DEF old
  <2>2. /\ Typed(c4) /\ SameFilters(c4, c3) /\ SameModes(c4, c3) /\ c4.smp = old
        /\ c4.recovery_state = c3.recovery_state /\ c4.recovery_window = c3.recovery_window
    BY <1>9 DEF Typed, Controllers, SameFilters, SameModes
  <2> HIDE DEF c4
  <2>3. FiltersFit(c4) /\ SameFilters(c4, c)
    BY <1>9, <1>10, <2>2 DEF FiltersFit, SameFilters, ControllerFits, PartsFit
  <2>4. ModesAgree(c4)
    BY <1>10, <2>2 DEF ModesAgree, ModesNearlyAgree, SameModes, ControllerFits
  <2>5. InRecovery(c4) => c4.recovery_window >= MinWindow
    BY <1>8, <2>2 DEF InRecovery
  <2> QED BY <2>1, <2>2, <2>3, <2>4, <2>5 DEF ControllerFits, PartsFit
<1>12. ControllerFits(d, n, got) /\ SameFilters(d, c)
  <2> HIDE DEF c4
  <2> QED BY <1>3, <1>9, <1>10, <1>11
<1> QED BY <1>12 DEF d

LEMMA JudgedFits ==
    ASSUME NEW n \in Nat, NEW got \in SUBSET (0 .. n - 1), NEW c, PartsFit(c, n, got),
           ModesAgree(c), NEW fb, FeedbackFits(fb, got), NEW acked \in Seq(Reported(got)),
           NEW lost \in Seq(Missing(got)), NEW offset \in CycleStarts
    PROVE  LET d == Judged(c, fb, acked, lost, offset)
           IN  ControllerFits(d, n, got)
<1> DEFINE losses  == lost # << >>
           round   == acked # << >> /\ RoundStarts(c, acked[Len(acked)].seq)
           expired == acked # << >> /\ MinRttExpired(c, fb.time) /\ Sampled(c, acked).rtt # -1
           had     == c.smp.total_data_acked
           c1      == Acknowledged(c, fb, acked, losses)
           c2      == Modes(c1, fb, losses, round, expired, offset)
           d       == Resized(c2, fb, acked, lost, had)
<1>1. fb.time \in Nat /\ fb.in_flight \in Nat
  BY DEF FeedbackFits
<1>2. round \in BOOLEAN /\ had \in Nat /\ SamplerFits(c.smp, n, got)
  BY SamplerIsOne DEF PartsFit, RoundStarts
<1>3. Judged(c, fb, acked, lost, offset) = d
  BY DEF Judged
<1> HIDE DEF losses, round, expired
<1>4. /\ PartsFit(c1, n, got) /\ SameModes(c1, c)
      /\ c1.smp.total_data_acked >= had
  BY <1>1, AcknowledgedFits
<1> HIDE DEF c1
<1>5. ModesNearlyAgree(c1)
  BY <1>4 DEF ModesAgree, ModesNearlyAgree, SameModes
<1>6. ProbeStep(c2, c1, n, got) /\ ModesAgree(c2)
  BY <1>1, <1>2, <1>4, <1>5, ModesFit
<1> HIDE DEF c2
<1>7. PartsFit(c2, n, got) /\ had <= c2.smp.total_data_acked
  <2>1. c1.smp.total_data_acked \in Nat /\ c2.smp.total_data_acked = c1.smp.total_data_acked
    BY <1>4, <1>6, SamplerIsOne DEF PartsFit, ProbeStep
  <2>2. had <= c2.smp.total_data_acked
    BY <1>2, <1>4, <2>1
  <2>3. FiltersFit(c2)
    BY <1>4, <1>6 DEF PartsFit, ProbeStep, FiltersFit, SameFilters
  <2> QED BY <1>6, <2>2, <2>3 DEF PartsFit, ProbeStep
<1> HIDE DEF had
<1>8. ControllerFits(d, n, got)
  BY <1>1, <1>2, <1>6, <1>7, ResizedFits
<1> HIDE DEF d
<1> QED BY <1>3, <1>8

\* bbr_on_feedback keeps the controller.
LEMMA OnFeedbackFits ==
    ASSUME NEW n \in Nat, NEW got \in SUBSET (0 .. n - 1), NEW c, ControllerFits(c, n, got),
           NEW fb, FeedbackFits(fb, got), fb.packets # << >>, NEW offset \in CycleStarts
    PROVE  LET d == OnFeedback(c, fb, offset)
           IN  ControllerFits(d, n, got)
<1> DEFINE last  == fb.packets[Len(fb.packets)]
           delta == last.recv_time - last.send_time
           acked == Received(fb.packets)
           lost  == Lost(fb.packets)
           c1    == RttUpdate(c, delta)
           smp   == Discarded(c1.smp, lost)
           c2    == [c1 EXCEPT !.smp = smp]
           d     == Judged(c2, fb, acked, lost, offset)
<1>1. PartsFit(c, n, got) /\ ModesAgree(c) /\ Typed(c)
  BY DEF ControllerFits, PartsFit
<1>2. delta \in Int
  <2>1. last \in Packets(got)
    <3>1. Len(fb.packets) \in 1 .. Len(fb.packets)
      BY DEF FeedbackFits
    <3> QED BY <3>1 DEF FeedbackFits
  <2> HIDE DEF last
  <2> QED BY <2>1 DEF Packets
<1>3. acked \in Seq(Reported(got)) /\ lost \in Seq(Missing(got))
  BY ChosenType DEF FeedbackFits, Received, Lost, Reported, Missing
<1>4. OnFeedback(c, fb, offset) = d
  <2>1. DiscardLost(c1, lost) = c2
    <3> HIDE DEF c1, lost
    <3> QED BY DEF DiscardLost
  <2> HIDE DEF c2
  <2> QED BY <2>1 DEF OnFeedback
<1> HIDE DEF delta, acked, lost
<1>5. Typed(c1) /\ c1.smp = c.smp /\ SameFilters(c1, c) /\ SameModes(c1, c)
  BY <1>1, <1>2, RttUpdateFits
<1> HIDE DEF c1
<1>6. SamplerFits(smp, n, got)
  <2>1. \A p \in Missing(got) : p.seq \in Nat
    BY DEF Missing, Packets
  <2>2. Len(lost) \in Nat /\ \A i \in 1 .. Len(lost) : lost[i].seq \in Nat
    BY <1>3, <2>1
  <2>3. SamplerFits(c1.smp, n, got)
    BY <1>1, <1>5 DEF PartsFit
  <2> QED BY <2>2, <2>3, DiscardedFits
<1> HIDE DEF smp
<1>7. Typed(c2) /\ c2.smp = smp /\ SameFilters(c2, c1) /\ SameModes(c2, c1)
  BY <1>5 DEF Typed, Controllers, SameFilters, SameModes
<1> HIDE DEF c2
<1>8. PartsFit(c2, n, got)
  BY <1>1, <1>5, <1>6, <1>7 DEF PartsFit, FiltersFit, SameFilters
<1>9. ModesAgree(c2)
  BY <1>1, <1>5, <1>7 DEF ModesAgree, ModesNearlyAgree, SameModes
<1>10. ControllerFits(d, n, got)
  BY <1>3, <1>8, <1>9, JudgedFits
<1> HIDE DEF d
<1> QED BY <1>4, <1>10

-----------------------------------------------------------------------------
(* Reading a message *)

\* A message of the receiver: samples of packets that arrived, the first not
\* after the last.
SampleRecords(got) == [seq : got, delta : Int]

Messages(got) ==
    {m \in Seq(SampleRecords(got)) : Len(m) > 0 /\ m[1].seq <= m[Len(m)].seq}

AllHistories(n) ==
    [l : UNION {[D -> Records] : D \in SUBSET (0 .. n - 1)},
     outstanding_bytes : Nat, last_ack_seq_num : Nat, last_value : Nat]

LEMMA HistoryIsOne ==
    ASSUME NEW h, NEW n, HistFits(h, n)
    PROVE  h \in AllHistories(n)
<1>1. h.l \in UNION {[D -> Records] : D \in SUBSET (0 .. n - 1)}
  BY DEF HistFits
<1>2. h \in [l : {h.l}, outstanding_bytes : Nat, last_ack_seq_num : Nat, last_value : Nat]
  BY DEF HistFits
<1> QED BY <1>1, <1>2 DEF AllHistories

\* What has been read so far.
Readings(n, got) ==
    {a \in [h : AllHistories(n), packets : Seq(Packets(got))] : HistFits(a.h, n)}

\* Asking the history for a number below n.
LEMMA LookedFits ==
    ASSUME NEW n \in 1 .. Half, NEW got, NEW a \in Readings(n, got), NEW v \in 0 .. n - 1,
           NEW t \in Int, t > 0 => v \in got
    PROVE  Looked(a, v, v, t) \in Readings(n, got)
<1> DEFINE found == HistoryGet(a.h, v, FALSE)
           item  == Info(v, found.h.l[found.key], t)
           more  == Append(a.packets, item)
           read  == IF ~found.found THEN a.packets
                    ELSE IF Len(more) >= MaxSamples - 1 THEN << >> ELSE more
<1>1. HistFits(a.h, n) /\ a.packets \in Seq(Packets(got))
  BY DEF Readings
<1>2. /\ found.key = v /\ (found.found <=> v \in DOMAIN a.h.l)
      /\ HistFits(found.h, n) /\ found.h.l = a.h.l
  BY <1>1, HistoryGetFits
<1>3. Looked(a, v, v, t) = [h |-> found.h, packets |-> read]
  BY DEF Looked
<1> HIDE DEF found
<1>4. found.found => item \in Packets(got)
  <2>1. v \in DOMAIN a.h.l => a.h.l[v] \in Records
    BY <1>1 DEF HistFits
  <2>2. v \in Nat
    OBVIOUS
  <2> QED BY <1>2, <2>1, <2>2 DEF Packets, Info, Records, IsLost
<1> HIDE DEF item
<1>5. read \in Seq(Packets(got))
  BY <1>1, <1>4
<1>6. found.h \in AllHistories(n)
  BY <1>2, HistoryIsOne
<1> HIDE DEF read
<1> QED BY <1>2, <1>3, <1>5, <1>6 DEF Readings

LEMMA AskedFits ==
    ASSUME NEW n \in 1 .. Half, NEW got, NEW a \in Readings(n, got), NEW v \in 0 .. n - 1,
           NEW msg \in Messages(got), NEW ts \in Nat
    PROVE  Asked(a, msg, v, ts) \in Readings(n, got)
<1> DEFINE reports == {i \in DOMAIN msg : msg[i].seq = v}
           i == CHOOSE i \in reports : TRUE
           t == ts - msg[i].delta
<1>1. CASE reports = {}
  <2>1. Asked(a, msg, v, ts) = Looked(a, v, v, -1)
    BY <1>1 DEF Asked
  <2>2. Looked(a, v, v, -1) \in Readings(n, got)
    BY LookedFits
  <2> QED BY <2>1, <2>2
<1>2. CASE reports # {}
  <2>1. i \in DOMAIN msg /\ msg[i].seq = v
    BY <1>2
  <2>2. msg[i] \in SampleRecords(got)
    BY <2>1 DEF Messages
  <2>3. t \in Int /\ v \in got
    BY <2>1, <2>2 DEF SampleRecords
  <2>4. Unwrap(a.h.last_value, v) = v
    <3>1. a.h.last_value \in 0 .. Half - 1
      BY HalfType DEF Readings, HistFits, Greater
    <3>2. v \in 0 .. Half - 1
      BY HalfType
    <3> QED BY <3>1, <3>2, UnwrapsExactly
  <2>5. Asked(a, msg, v, ts) = Looked(a, v, v, t)
    BY <1>2, <2>4 DEF Asked
  <2> HIDE DEF t
  <2> QED BY <2>3, <2>5, LookedFits
<1> QED BY <1>1, <1>2

\* bbr_feedback_on_feedback.
LEMMA AdaptedFits ==
    ASSUME NEW n \in 1 .. Half, NEW got \in SUBSET (0 .. n - 1), HistFits(hist, n),
           NEW msg \in Messages(got), NEW ts \in Nat
    PROVE  Adapted(msg, ts) \in Readings(n, got)
<1> DEFINE first == msg[1].seq
           last  == msg[Len(msg)].seq
           span  == (last - first) % SeqSpace
           m     == span + 1
           e     == [h |-> hist, packets |-> << >>]
           V     == Readings(n, got)
           Op(x, i) == Asked(x, msg, (first + i - 1) % SeqSpace, ts)
           F == [i \in 1 .. m |-> [x \in V |-> Op(x, i)]]
           Is(g) == g = [i \in 0 .. m |-> IF i = 0 THEN e ELSE Op(g[i - 1], i)]
<1>1. first \in 0 .. n - 1 /\ last \in 0 .. n - 1 /\ first <= last
  <2>1. Len(msg) \in Nat /\ Len(msg) > 0 /\ msg \in Seq(SampleRecords(got)) /\ first <= last
    BY DEF Messages
  <2>2. msg[1] \in SampleRecords(got) /\ msg[Len(msg)] \in SampleRecords(got)
    BY <2>1
  <2>3. \A r \in SampleRecords(got) : r.seq \in 0 .. n - 1
    BY DEF SampleRecords
  <2> QED BY <2>1, <2>2, <2>3
<1> HIDE DEF first, last
<1>2. span = last - first /\ m \in Nat
  <2>1. last - first \in 0 .. SeqSpace - 1
    BY <1>1, HalfType
  <2> QED BY <1>1, <2>1, SmallMod
<1>3. e \in V
  BY HistoryIsOne DEF Readings
<1> HIDE DEF e
<1>4. ASSUME NEW x \in V, NEW i \in 1 .. m PROVE Op(x, i) \in V
  <2> DEFINE v == first + i - 1
  <2>1. v \in 0 .. n - 1 /\ v \in 0 .. SeqSpace - 1
    BY <1>1, <1>2, HalfType
  <2>2. v % SeqSpace = v
    BY <2>1, SmallMod
  <2> HIDE DEF v, V
  <2>3. Op(x, i) = Asked(x, msg, v, ts)
    BY <2>2 DEF v
  <2> HIDE DEF Op
  <2> QED BY <2>1, <2>3, AskedFits DEF V
<1>5. \E g : Is(g)
  <2>1. Steps(F, m, V)
    <3> HIDE DEF V, Op
    <3> QED BY <1>4 DEF Steps
  <2>2. PICK g : Walk(g, e, F, m, V)
    <3> HIDE DEF V, F, m
    <3> QED BY <1>2, <1>3, <2>1, WalkExists
  <2>3. \A i \in 1 .. m : i - 1 \in 0 .. m /\ g[i - 1] \in V
    <3> HIDE DEF V, F, m
    <3> QED BY <1>2, <2>2 DEF Walk
  <2>4. \A i \in 1 .. m : F[i][g[i - 1]] = Op(g[i - 1], i)
    <3> HIDE DEF V, Op
    <3> QED BY <2>3
  <2>5. Is(g)
    <3> HIDE DEF V, F, Op
    <3> QED BY <2>2, <2>4 DEF Walk
  <2> QED BY <2>5
<1> DEFINE g == CHOOSE g : Is(g)
<1>6. Adapted(msg, ts) = g[m]
  BY DEF Adapted, first, last, e
<1>7. Is(g)
  BY <1>5
<1> HIDE DEF g
<1>8. g[0] = e /\ \A i \in 1 .. m : g[i] = Op(g[i - 1], i)
  <2> HIDE DEF Op, m
  <2> QED BY <1>2, <1>7
<1>9. g[m] \in V
  <2> HIDE DEF V, Op, m
  <2>1. \A i \in 1 .. m : g[i - 1] \in V => g[i] \in V
    BY <1>4, <1>8
  <2> QED BY <1>2, <1>3, <1>8, <2>1, WalkStays
<1> QED BY <1>6, <1>9

LEMMA FeedbackOfFits ==
    ASSUME NEW n \in 1 .. Half, NEW got \in SUBSET (0 .. n - 1), HistFits(hist, n),
           NEW msg \in Messages(got), now \in Nat
    PROVE  FeedbackFits(FeedbackOf(msg), got) /\ HistFits(FeedbackOf(msg).h, n)
<1>1. Adapted(msg, now) \in Readings(n, got)
  BY AdaptedFits
<1>2. /\ HistFits(Adapted(msg, now).h, n) /\ Adapted(msg, now).packets \in Seq(Packets(got))
      /\ Adapted(msg, now).h.outstanding_bytes \in Nat
  BY <1>1 DEF Readings, HistFits
<1>3. /\ FeedbackOf(msg).h = Adapted(msg, now).h
      /\ FeedbackOf(msg).packets = Adapted(msg, now).packets
      /\ FeedbackOf(msg).time = now
      /\ FeedbackOf(msg).in_flight = Adapted(msg, now).h.outstanding_bytes
  BY DEF FeedbackOf
<1> QED BY <1>2, <1>3 DEF FeedbackFits

-----------------------------------------------------------------------------
(* Writing the messages *)

\* What the walk over the numbers has written when it is past those below n;
\* first is the least number of the cache.  Until then nothing is written.
Written(a, n, first, got) ==
    /\ a \in [start : Int, out : Seq(Seq(SampleRecords(got)))]
    /\ Len(a.out) > 0
    /\ n <= first => a.start = first /\ a.out = << << >> >>
    /\ n > first => /\ \A j \in 1 .. Len(a.out) : a.out[j] \in Messages(got)
                    /\ LET m == a.out[Len(a.out)] IN m[Len(m)].seq < n

LEMMA SamplesAre ==
    ASSUME NEW got \in SUBSET Nat
    PROVE  /\ \A r \in SampleRecords(got) : r.seq \in got /\ r.seq \in Nat
           /\ \A m \in Messages(got) : m[1].seq \in Nat /\ m[Len(m)].seq \in Nat
<1>1. \A r \in SampleRecords(got) : r.seq \in got /\ r.seq \in Nat
  BY DEF SampleRecords
<1>2. \A m \in Messages(got) : m[1] \in SampleRecords(got) /\ m[Len(m)] \in SampleRecords(got)
  BY DEF Messages
<1> QED BY <1>1, <1>2

\* What a sample says of the age of a packet.
LEMMA AgeType ==
    ASSUME NEW age \in Int
    PROVE  age % DeltaSpace \in Int
<1>1. DeltaSpace \in Nat /\ DeltaSpace > 0
  BY BbrAssumption
<1>2. \A a, b \in Int : b > 0 => a % b \in Int
  OBVIOUS
<1> QED BY <1>1, <1>2

LEMMA BatchedFits ==
    ASSUME NEW n \in 0 .. Half - 1, NEW got \in SUBSET Nat,
           NEW first \in Nat, NEW a, Written(a, n, first, got), n >= first, n \in got,
           NEW c, c[n] \in Nat, NEW ts \in Nat
    PROVE  Written(Batched(a, c, n, ts), n + 1, first, got)
<1> DEFINE s    == Sample(c, n, ts)
           L    == Len(a.out)
           m    == a.out[L]
           d    == Batched(a, c, n, ts)
           more == Append(m, s)
<1>1. /\ a.out \in Seq(Seq(SampleRecords(got))) /\ L \in Nat /\ L > 0 /\ a.start \in Int
      /\ a = [start |-> a.start, out |-> a.out]
  BY DEF Written
<1>2. s \in SampleRecords(got) /\ s.seq = n /\ n \in Nat
  <2>1. n % SeqSpace = n /\ n \in Nat
    BY HalfType, SmallMod
  <2>2. ts - c[n] \in Int
    OBVIOUS
  <2>3. (ts - c[n]) % DeltaSpace \in Int
    BY <2>2, AgeType
  <2> QED BY <2>1, <2>3 DEF Sample, SampleRecords
<1>3. /\ m \in Seq(SampleRecords(got))
      /\ m # << >> => m \in Messages(got) /\ m[Len(m)].seq < n
  <2>1. n > first => m \in Messages(got) /\ m[Len(m)].seq < n
    BY <1>1 DEF Written
  <2>2. n <= first => m = << >>
    BY <1>1 DEF Written
  <2> QED BY <1>1, <1>2, <2>1, <2>2
<1>4. CASE a.start + MaxSamples - 1 > n
  <2>1. d = [start |-> a.start, out |-> [a.out EXCEPT ![L] = more]]
    BY <1>4 DEF Batched
  <2> HIDE DEF s, d
  <2>2. more \in Messages(got) /\ more[Len(more)].seq = n
    <3>1. more \in Seq(SampleRecords(got)) /\ Len(more) = Len(m) + 1 /\ Len(m) \in Nat
          /\ more[Len(m) + 1] = s
      BY <1>2, <1>3
    <3>2. CASE m = << >>
      <4>1. Len(more) = 1 /\ more[1] = s
        BY <3>1, <3>2
      <4> HIDE DEF more, m
      <4>2. more[1].seq = n /\ more[Len(more)].seq = n /\ Len(more) > 0
        BY <1>2, <4>1
      <4>3. more[1].seq <= more[Len(more)].seq
        BY <1>2, <4>2
      <4> QED BY <3>1, <4>2, <4>3 DEF Messages
    <3>3. CASE m # << >>
      <4>1. m \in Messages(got) /\ m[Len(m)].seq < n /\ Len(m) > 0 /\ m[1].seq <= m[Len(m)].seq
        BY <1>3, <3>3 DEF Messages
      <4>2. more[1] = m[1] /\ m[1] \in SampleRecords(got) /\ m[Len(m)] \in SampleRecords(got)
        BY <1>2, <1>3, <4>1
      <4>3. m[1].seq \in Nat /\ m[Len(m)].seq \in Nat
        BY <4>1, SamplesAre
      <4> HIDE DEF more, m
      <4>4. m[1].seq <= n
        BY <1>2, <4>1, <4>3
      <4>5. more[1].seq = m[1].seq /\ more[Len(more)].seq = n /\ Len(more) > 0
        BY <1>2, <3>1, <4>1, <4>2
      <4> QED BY <3>1, <4>4, <4>5 DEF Messages
    <3> QED BY <3>2, <3>3
  <2>3. more \in Seq(SampleRecords(got))
    BY <2>2 DEF Messages
  <2> HIDE DEF more
  <2>4. /\ d.start = a.start /\ d.out = [a.out EXCEPT ![L] = more]
        /\ d = [start |-> d.start, out |-> d.out]
    <3> HIDE DEF L
    <3> QED BY <1>1, <2>1
  <2>5. /\ d.out \in Seq(Seq(SampleRecords(got))) /\ Len(d.out) = L /\ d.out[L] = more
        /\ \A j \in 1 .. L : j # L => d.out[j] = a.out[j]
    BY <1>1, <2>3, <2>4
  <2>6. \A j \in 1 .. L : d.out[j] \in Messages(got)
    <3>1. CASE n > first
      BY <1>1, <2>2, <2>5, <3>1 DEF Written
    <3>2. CASE n <= first
      BY <1>1, <2>2, <2>5, <3>2 DEF Written
    <3> QED BY <1>2, <3>1, <3>2
  <2>7. n + 1 > first /\ n < n + 1 /\ ~(n + 1 <= first)
    BY <1>2
  <2> HIDE DEF L
  <2>8. Written(d, n + 1, first, got)
    BY <1>1, <2>2, <2>4, <2>5, <2>6, <2>7 DEF Written
  <2> QED BY <2>8 DEF d
<1>5. CASE ~(a.start + MaxSamples - 1 > n)
  <2>1. d = [start |-> n, out |-> Append(a.out, <<s>>)]
    BY <1>5 DEF Batched
  <2>2. n > first
    <3>1. MaxSamples \in Nat /\ MaxSamples > 1
      BY BbrAssumption
    <3>2. n <= first => a.start = first
      BY DEF Written
    <3> QED BY <1>2, <1>5, <3>1, <3>2
  <2> HIDE DEF s
  <2>3. <<s>> \in Messages(got) /\ <<s>> \in Seq(SampleRecords(got)) /\ <<s>>[Len(<<s>>)].seq = n
    BY <1>2 DEF Messages
  <2> DEFINE one == <<s>>
  <2> HIDE DEF one, d
  <2>4. /\ d.start = n /\ d.out = Append(a.out, one) /\ d = [start |-> d.start, out |-> d.out]
    BY <2>1 DEF one
  <2>5. /\ d.out \in Seq(Seq(SampleRecords(got))) /\ Len(d.out) = L + 1 /\ d.out[L + 1] = one
        /\ \A j \in 1 .. L : d.out[j] = a.out[j]
    BY <1>1, <2>3, <2>4 DEF one
  <2>6. \A j \in 1 .. L + 1 : d.out[j] \in Messages(got)
    <3>1. \A j \in 1 .. L : a.out[j] \in Messages(got)
      BY <2>2 DEF Written
    <3>2. \A j \in 1 .. L + 1 : j \in 1 .. L \/ j = L + 1
      BY <1>1
    <3> QED BY <2>3, <2>5, <3>1, <3>2 DEF one
  <2>7. n + 1 > first /\ n < n + 1 /\ ~(n + 1 <= first) /\ L + 1 > 0 /\ n \in Int
    BY <1>1, <1>2, <2>2
  <2>8. one[Len(one)].seq = n
    BY <2>3 DEF one
  <2> HIDE DEF L
  <2>9. Written(d, n + 1, first, got)
    BY <2>4, <2>5, <2>6, <2>7, <2>8 DEF Written
  <2> QED BY <2>9 DEF d
<1> QED BY <1>4, <1>5

\* What a walk over the numbers below n keeps, whatever the step.
LEMMA BatchesFit ==
    ASSUME NEW n \in 1 .. Half, NEW got \in SUBSET (0 .. n - 1),
           NEW c, DOMAIN c \in SUBSET got, DOMAIN c # {}, \A k \in DOMAIN c : c[k] \in Nat,
           NEW ts \in Nat
    PROVE  Batches(c, ts) \in Seq(Messages(got))
<1> DEFINE keys  == DOMAIN c
           first == CHOOSE k \in keys : \A j \in keys : k <= j
           last  == CHOOSE k \in keys : \A j \in keys : j <= k
           m     == last + 1
           e     == [start |-> first, out |-> << << >> >>]
           Batch == Seq(SampleRecords(got))
           V     == {a \in [start : Int, out : Seq(Batch)] : Len(a.out) > 0}
           Op(x, i) == IF i - 1 \in keys THEN Batched(x, c, i - 1, ts) ELSE x
           F == [i \in 1 .. m |-> [x \in V |-> Op(x, i)]]
           Is(g) == g = [i \in 0 .. m |-> IF i = 0 THEN e ELSE Op(g[i - 1], i)]
<1>1. keys \in SUBSET (0 .. n - 1) /\ keys \in SUBSET Nat /\ n \in Nat /\ n - 1 \in Nat
  <2>1. n \in Nat /\ n - 1 \in Nat
    BY HalfType
  <2>2. \A k \in got : k \in 0 .. n - 1 /\ k \in Nat
    BY <2>1
  <2>3. keys \subseteq got
    OBVIOUS
  <2> HIDE DEF keys
  <2> QED BY <2>1, <2>2, <2>3
<1>2. first \in keys /\ \A j \in keys : first <= j
  <2>1. \E k \in keys : \A j \in keys : k <= j
    <3> HIDE DEF keys
    <3> QED BY <1>1, LeastNat DEF keys
  <2> HIDE DEF keys
  <2> QED BY <2>1
<1>3. last \in keys /\ \A j \in keys : j <= last
  <2>1. \E k \in keys : \A j \in keys : j <= k
    <3> HIDE DEF keys
    <3> QED BY <1>1, GreatestNat DEF keys
  <2> HIDE DEF keys
  <2> QED BY <2>1
<1> HIDE DEF first, last
<1>4. first \in Nat /\ m \in Nat /\ first < m /\ last \in Nat
  BY <1>1, <1>2, <1>3
<1>5. e \in V
  <2> DEFINE none == << << >> >>
  <2>1. none \in Seq(Batch) /\ Len(none) > 0
    <3>1. << >> \in Batch
      OBVIOUS
    <3> HIDE DEF Batch
    <3> QED BY <3>1
  <2>2. e = [start |-> first, out |-> none] /\ first \in Int
    BY <1>4
  <2> HIDE DEF Batch, none, e
  <2> QED BY <2>1, <2>2
<1>6. ASSUME NEW x \in V, NEW i \in 1 .. m PROVE Op(x, i) \in V
  <2> DEFINE k == i - 1
             s == Sample(c, k, ts)
  <2>1. CASE k \in keys
    <3>1. s \in SampleRecords(got) /\ k \in Int
      <4>1. k \in 0 .. SeqSpace - 1 /\ k \in got /\ c[k] \in Nat
        BY <1>1, <2>1, HalfType
      <4>2. k % SeqSpace = k
        BY <4>1, SmallMod
      <4>3. ts - c[k] \in Int
        BY <4>1
      <4>4. (ts - c[k]) % DeltaSpace \in Int
        BY <4>3, AgeType
      <4> QED BY <4>1, <4>2, <4>4 DEF Sample, SampleRecords
    <3>2. x.out \in Seq(Batch) /\ Len(x.out) \in 1 .. Len(x.out) /\ x.start \in Int
          /\ x = [start |-> x.start, out |-> x.out]
      OBVIOUS
    <3> HIDE DEF s, k
    <3> DEFINE more == Append(x.out[Len(x.out)], s)
               one  == <<s>>
    <3>3. more \in Batch /\ one \in Batch
      <4>1. x.out[Len(x.out)] \in Batch
        BY <3>2
      <4> QED BY <3>1, <4>1
    <3>4. Batched(x, c, k, ts) = IF x.start + MaxSamples - 1 > k
                                 THEN [start |-> x.start, out |-> [x.out EXCEPT ![Len(x.out)] = more]]
                                 ELSE [start |-> k, out |-> Append(x.out, one)]
      BY DEF Batched, s
    <3> HIDE DEF more, one, Batch
    <3>5. [x.out EXCEPT ![Len(x.out)] = more] \in Seq(Batch)
          /\ Len([x.out EXCEPT ![Len(x.out)] = more]) = Len(x.out)
      BY <3>2, <3>3
    <3>6. [start |-> x.start, out |-> [x.out EXCEPT ![Len(x.out)] = more]] \in V
      BY <3>2, <3>5
    <3>7. Append(x.out, one) \in Seq(Batch) /\ Len(Append(x.out, one)) > 0
      BY <3>2, <3>3
    <3>8. [start |-> k, out |-> Append(x.out, one)] \in V
      BY <3>1, <3>7
    <3> HIDE DEF V
    <3> QED BY <2>1, <3>4, <3>6, <3>8 DEF k
  <2>2. CASE k \notin keys
    BY <2>2
  <2> QED BY <2>1, <2>2
<1>7. \E g : Is(g)
  <2>1. Steps(F, m, V)
    <3> HIDE DEF V, Op
    <3> QED BY <1>6 DEF Steps
  <2>2. PICK g : Walk(g, e, F, m, V)
    <3> HIDE DEF V, F, m, e
    <3> QED BY <1>4, <1>5, <2>1, WalkExists
  <2>3. \A i \in 1 .. m : i - 1 \in 0 .. m /\ g[i - 1] \in V
    <3> HIDE DEF V, F, m, e
    <3> QED BY <1>4, <2>2 DEF Walk
  <2>4. \A i \in 1 .. m : F[i][g[i - 1]] = Op(g[i - 1], i)
    <3> HIDE DEF V, Op, e
    <3> QED BY <2>3
  <2>5. Is(g)
    <3> HIDE DEF V, F, Op, e
    <3> QED BY <2>2, <2>4 DEF Walk
  <2> QED BY <2>5
<1> DEFINE g == CHOOSE g : Is(g)
<1>8. Batches(c, ts) = g[m].out
  BY DEF Batches, first, last
<1>9. Is(g)
  BY <1>7
<1> HIDE DEF g
<1>10. g[0] = e /\ \A i \in 0 .. m : i # 0 => g[i] = Op(g[i - 1], i)
  <2> HIDE DEF Op, m, e
  <2> QED BY <1>4, <1>9
<1> DEFINE T == {i \in 0 .. m : Written(g[i], i, first, got)}
<1>11. 0 \in T
  <2>1. Written(e, 0, first, got)
    BY <1>4, <1>5 DEF Written
  <2> HIDE DEF e
  <2> QED BY <1>4, <1>10, <2>1
<1>12. ASSUME NEW i \in T, i < m PROVE i + 1 \in T
  <2>1. i \in Nat /\ i + 1 \in 0 .. m /\ i + 1 # 0 /\ (i + 1) - 1 = i /\ Written(g[i], i, first, got)
    BY <1>4, <1>12
  <2>2. g[i + 1] = IF i \in keys THEN Batched(g[i], c, i, ts) ELSE g[i]
    BY <1>10, <2>1
  <2>3. CASE i \in keys
    <3>1. i \in 0 .. Half - 1 /\ n - 1 \in Nat /\ i >= first /\ i \in got /\ c[i] \in Nat
      BY <1>1, <1>2, <2>3, HalfType
    <3>2. Written(Batched(g[i], c, i, ts), i + 1, first, got)
      <4> HIDE DEF keys, m
      <4> QED BY <1>4, <2>1, <3>1, BatchedFits
    <3> QED BY <2>1, <2>2, <2>3, <3>2
  <2>4. CASE i \notin keys
    <3>1. i # first
      BY <1>2, <2>4
    <3>2. /\ i + 1 <= first => i <= first
          /\ i + 1 > first => i > first
      BY <1>4, <2>1, <3>1
    <3>3. ASSUME i > first
          PROVE  LET b == g[i].out[Len(g[i].out)] IN b[Len(b)].seq < i + 1
      <4> DEFINE b == g[i].out[Len(g[i].out)]
      <4>1. b \in Messages(got) /\ b[Len(b)].seq < i
        BY <2>1, <3>3 DEF Written
      <4>2. b[Len(b)].seq \in Nat
        <5>1. got \in SUBSET Nat
          BY <1>1
        <5> HIDE DEF b
        <5> QED BY <4>1, <5>1, SamplesAre
      <4> QED BY <2>1, <4>1, <4>2
    <3>4. Written(g[i], i + 1, first, got)
      BY <2>1, <3>2, <3>3 DEF Written
    <3> QED BY <2>1, <2>2, <2>4, <3>4
  <2> QED BY <2>3, <2>4
<1>13. T = 0 .. m
  <2>1. T \in SUBSET (0 .. m)
    OBVIOUS
  <2> HIDE DEF T, m
  <2> QED BY <1>4, <1>11, <1>12, <2>1, Climb
<1>14. Written(g[m], m, first, got)
  <2>1. m \in 0 .. m
    BY <1>4
  <2> QED BY <1>13, <2>1
<1> HIDE DEF m
<1>15. /\ g[m].out \in Seq(Batch)
       /\ \A j \in 1 .. Len(g[m].out) : g[m].out[j] \in Messages(got)
  BY <1>4, <1>14 DEF Written
<1> DEFINE out == g[m].out
<1>16. out \in Seq(Messages(got))
  <2> HIDE DEF out, Batch
  <2> QED BY <1>15 DEF out
<1> QED BY <1>8, <1>16

-----------------------------------------------------------------------------
(* The two ends together *)

\* What the actions keep.  Of the packets sent the network and the receiver
\* hold some; the history and the controller fit what was sent and what arrived,
\* and every message on its way is one the receiver may write.
BbrInv ==
    /\ now \in Nat /\ sent \in 0 .. MaxPackets
    /\ data \in SUBSET (0 .. sent - 1) /\ arrived \in SUBSET (0 .. sent - 1)
    /\ limits \in Limits /\ target \in limits.min .. limits.max /\ told \in Nat
    /\ HistFits(hist, sent)
    /\ ControllerFits(bbr, sent, arrived)
    /\ DOMAIN cache \in SUBSET arrived /\ \A k \in DOMAIN cache : cache[k] \in Nat
    /\ acks \in Seq(Messages(arrived))

\* What a step does to the bitrate told.
RateStep ==
    notify_ts' # notify_ts =>
      LET flying == OnTheWay(hist')
          window == CongestionWindow(bbr')
      IN  /\ target' \in limits.min .. limits.max
          /\ target' > target => 10 * flying < 9 * window
          /\ flying > window => target' < target \/ target' = limits.min

StepFits == BbrInv' /\ RateStep

\* More packets arrive: what was said of fewer still holds.
LEMMA MoreArrive ==
    ASSUME NEW n \in Nat, NEW more \in SUBSET (0 .. n - 1), NEW got \in SUBSET more
    PROVE  /\ \A c : ControllerFits(c, n, got) => ControllerFits(c, n, more)
           /\ Messages(got) \subseteq Messages(more)
<1>1. ASSUME NEW c, ControllerFits(c, n, got)
      PROVE  ControllerFits(c, n, more)
  <2>1. PartsFit(c, n, got) /\ SamplerFits(c.smp, n, got)
    BY <1>1 DEF ControllerFits, PartsFit
  <2>2. Weight(got \ DOMAIN c.smp.points) <= Weight(more \ DOMAIN c.smp.points)
    <3>1. IsFiniteSet(more \ DOMAIN c.smp.points)
      BY NumbersFinite
    <3>2. got \ DOMAIN c.smp.points \in SUBSET (more \ DOMAIN c.smp.points)
      OBVIOUS
    <3> QED BY <3>1, <3>2, WeightSubset
  <2>3. /\ Weight(got \ DOMAIN c.smp.points) \in Nat /\ Weight(more \ DOMAIN c.smp.points) \in Nat
        /\ c.smp.total_data_acked \in Nat
    <3>1. got \ DOMAIN c.smp.points \in SUBSET (0 .. n - 1)
          /\ more \ DOMAIN c.smp.points \in SUBSET (0 .. n - 1)
      OBVIOUS
    <3> QED BY <2>1, <3>1, NumbersFinite DEF SamplerFits, Samplers
  <2>4. c.smp.total_data_acked <= Weight(more \ DOMAIN c.smp.points)
    BY <2>1, <2>2, <2>3 DEF SamplerFits
  <2>5. SamplerFits(c.smp, n, more)
    BY <2>1, <2>4 DEF SamplerFits
  <2> QED BY <1>1, <2>1, <2>5 DEF ControllerFits, PartsFit
<1>2. Messages(got) \subseteq Messages(more)
  <2>1. SampleRecords(got) \subseteq SampleRecords(more)
    BY DEF SampleRecords
  <2>2. ASSUME NEW m \in Messages(got) PROVE m \in Messages(more)
    <3>1. m \in Seq(SampleRecords(got)) /\ Len(m) > 0 /\ m[1].seq <= m[Len(m)].seq
      BY DEF Messages
    <3>2. m \in Seq(SampleRecords(more))
      BY <2>1, <3>1
    <3> QED BY <3>1, <3>2 DEF Messages
  <2> QED BY <2>2
<1> QED BY <1>1, <1>2

\* A sequence one element shorter.
LEMMA RemoveAtType ==
    ASSUME NEW S, NEW s \in Seq(S), NEW i \in DOMAIN s
    PROVE  SQ!RemoveAt(s, i) \in Seq(S)
<1>1. SubSeq(s, 1, i - 1) \in Seq(S) /\ SubSeq(s, i + 1, Len(s)) \in Seq(S)
  OBVIOUS
<1>2. SubSeq(s, 1, i - 1) \o SubSeq(s, i + 1, Len(s)) \in Seq(S)
  BY <1>1
<1> QED BY <1>2 DEF SQ!RemoveAt

LEMMA LimitsType ==
    ASSUME NEW l \in Limits
    PROVE  /\ l.min \in Nat /\ l.start \in Nat /\ l.max \in Nat
           /\ l.min > 0 /\ l.start \in l.min .. l.max /\ l.min <= l.max
<1>1. RateUnit \in Nat /\ RateUnit > 0 /\ l \in [min : Nat, start : Nat, max : Nat]
      /\ l.min <= l.start /\ l.start <= l.max /\ l.min >= RateUnit
  BY BbrAssumption
<1> QED BY <1>1

LEMMA InitFits == Init => BbrInv
<1> SUFFICES ASSUME Init PROVE BbrInv
  OBVIOUS
<1>1. limits \in Limits
  <2>1. \E l \in Limits : \A k \in Limits : l.max >= k.max
    BY BbrAssumption
  <2> QED BY <2>1 DEF Init
<1>2. target \in limits.min .. limits.max
  BY <1>1, LimitsType DEF Init
<1>3. HistFits(hist, sent)
  <2>1. DOMAIN NewHistory.l = {} /\ NewHistory.l \in [{} -> Records]
    BY DEF NewHistory
  <2>2. Ahead(NewHistory) = {} /\ Excess(NewHistory) = 0
    BY <2>1, WeightEmpty DEF Ahead, Excess, NewHistory
  <2>3. HistFits(NewHistory, 0)
    BY <2>1, <2>2, SizeType DEF HistFits, NewHistory, Greater
  <2> QED BY <2>3 DEF Init
<1>4. ControllerFits(bbr, sent, arrived)
  BY NewControllerFits DEF Init, ControllerFits
<1>5. /\ DOMAIN cache \in SUBSET arrived /\ \A k \in DOMAIN cache : cache[k] \in Nat
      /\ acks \in Seq(Messages(arrived))
  BY DEF Init
<1>6. now \in Nat /\ sent \in 0 .. MaxPackets /\ told \in Nat /\ data = {} /\ arrived = {}
  BY BbrAssumption DEF Init
<1> QED BY <1>1, <1>2, <1>3, <1>4, <1>5, <1>6 DEF BbrInv

\* The bitrate told after a step: left alone, or set to the target for what is
\* then under way and the window of then.
Notified ==
    \/ UNCHANGED <<target, told, notify_ts>>
    \/ /\ target' = Target(RateUpdate(bbr'), hist'.outstanding_bytes)
       /\ told' = target'

LEMMA NotifiedFits ==
    ASSUME BbrInv, Notified, sent' \in Nat, HistFits(hist', sent'), Typed(bbr'), FiltersFit(bbr')
    PROVE  target' \in limits.min .. limits.max /\ told' \in Nat /\ RateStep
<1> DEFINE out    == hist'.outstanding_bytes
           flying == OnTheWay(hist')
           window == CongestionWindow(bbr')
           asked  == IF out > window THEN (target * 9) \div 10
                     ELSE IF 10 * out < 9 * window THEN target + Greater(target \div 16, BitrateStep)
                     ELSE target
<1>1. /\ limits.min \in Nat /\ limits.max \in Nat /\ limits.min > 0 /\ limits.min <= limits.max
      /\ target \in Nat /\ target > 0 /\ target \in limits.min .. limits.max /\ told \in Nat
  <2>1. limits \in Limits /\ target \in limits.min .. limits.max /\ told \in Nat
    BY DEF BbrInv
  <2> QED BY <2>1, LimitsType
<1>2. out \in Nat /\ flying \in Nat /\ flying <= out
  <2>1. Ahead(hist') \in SUBSET DOMAIN hist'.l
    BY DEF Ahead
  <2>2. flying = Weight(Ahead(hist')) /\ flying \in Nat
    BY <2>1, HistoryBytes DEF OnTheWay, Ahead
  <2>3. out \in Nat /\ out - Weight(Ahead(hist')) \in {0, PacketSize, 2 * PacketSize}
    BY DEF HistFits, Excess
  <2> HIDE DEF out, flying
  <2> QED BY <2>2, <2>3, SizeType
<1>3. window \in Nat
  BY WindowsType
<1>4. CASE UNCHANGED <<target, told, notify_ts>>
  BY <1>1, <1>4 DEF RateStep
<1>5. CASE target' = Target(RateUpdate(bbr'), hist'.outstanding_bytes) /\ told' = target'
  <2>1. target' = Within(limits.min, asked, limits.max)
    BY <1>5 DEF Target, RateUpdate
  <2> HIDE DEF out, flying, window
  <2>2. (target * 9) \div 10 \in Nat /\ (target * 9) \div 10 < target
    BY <1>1
  <2>3. Greater(target \div 16, BitrateStep) \in Nat
    <3>1. target \div 16 \in Nat
      BY <1>1, QuotientType
    <3>2. BitrateStep \in Nat
      BY BbrAssumption
    <3> QED BY <3>1, <3>2 DEF Greater
  <2> DEFINE more == Greater(target \div 16, BitrateStep)
             less == (target * 9) \div 10
  <2> HIDE DEF more, less
  <2>4. /\ asked \in Nat
        /\ asked > target => 10 * out < 9 * window
        /\ out > window => asked < target
    BY <1>1, <1>2, <1>3, <2>2, <2>3 DEF more, less
  <2> HIDE DEF asked
  <2>5. target' \in limits.min .. limits.max
    BY <1>1, <2>1, <2>4 DEF Within, Greater, Lesser
  <2>6. target' > target => asked > target
    BY <1>1, <2>1, <2>4 DEF Within, Greater, Lesser
  <2>7. asked < target => target' < target \/ target' = limits.min
    BY <1>1, <2>1, <2>4 DEF Within, Greater, Lesser
  <2>8. target' > target => 10 * flying < 9 * window
    BY <1>2, <1>3, <2>4, <2>6
  <2>9. flying > window => target' < target \/ target' = limits.min
    BY <1>2, <1>3, <2>4, <2>7
  <2>10. RateStep
    BY <2>5, <2>8, <2>9 DEF RateStep, flying, window
  <2> QED BY <1>1, <1>5, <2>5, <2>10
<1> QED BY <1>4, <1>5 DEF Notified

\* What BbrInv says of the controller.
LEMMA ControllerIs ==
    ASSUME BbrInv
    PROVE  /\ sent \in Nat /\ sent <= MaxPackets /\ MaxPackets < Half /\ Half \in Nat
           /\ Typed(bbr) /\ FiltersFit(bbr) /\ PartsFit(bbr, sent, arrived)
<1>1. MaxPackets \in Nat /\ MaxPackets < Half /\ Half \in Nat
  BY BbrAssumption, HalfType
<1> QED BY <1>1 DEF BbrInv, ControllerFits, PartsFit

LEMMA HeartbeatFits ==
    ASSUME BbrInv, NEW d \in Delays, Heartbeat(d)
    PROVE  StepFits
<1>1. /\ UNCHANGED <<hist, bbr, limits, constraint, sent, data, cache, arrived, acks>>
      /\ now' \in Nat
  <2>1. d \in Nat
    BY BbrAssumption
  <2> QED BY <2>1 DEF Heartbeat, receiverVars, BbrInv
<1>2. Notified
  BY <1>1 DEF Heartbeat, Invalidate, Notified
<1>3. sent' \in Nat /\ HistFits(hist', sent') /\ Typed(bbr') /\ FiltersFit(bbr')
  BY <1>1, ControllerIs DEF BbrInv
<1>4. target' \in limits.min .. limits.max /\ told' \in Nat /\ RateStep
  BY <1>2, <1>3, NotifiedFits
<1>5. BbrInv'
  BY <1>1, <1>4 DEF BbrInv
<1> QED BY <1>4, <1>5 DEF StepFits

LEMMA SetBitratesFits ==
    ASSUME BbrInv, NEW l \in Limits, SetBitrates(l)
    PROVE  StepFits
<1>1. /\ UNCHANGED <<now, hist, bbr, told, notify_ts, sent, data, cache, arrived, acks>>
      /\ limits' = l /\ target' = l.start
  BY DEF SetBitrates, receiverVars
<1>2. target' \in limits'.min .. limits'.max
  BY <1>1, LimitsType
<1>3. BbrInv'
  BY <1>1, <1>2 DEF BbrInv
<1> QED BY <1>1, <1>3 DEF StepFits, RateStep

LEMMA SendPacketFits ==
    ASSUME BbrInv, SendPacket
    PROVE  StepFits
<1>1. /\ UNCHANGED <<now, limits, target, told, notify_ts, cache, arrived, acks>>
      /\ sent < MaxPackets /\ sent' = sent + 1 /\ data' = data \union {sent}
      /\ hist' = HistoryAdd(hist, sent % SeqSpace, PacketSize, now)
      /\ bbr' = OnSendPacket(bbr, now, sent, PacketSize, hist.outstanding_bytes)
  BY DEF SendPacket, receiverVars
<1>2. sent \in Nat /\ sent \in 0 .. Half - 1 /\ now \in Nat /\ MaxPackets \in Nat
  <2>1. sent \in Nat /\ MaxPackets < Half /\ Half \in Nat /\ PartsFit(bbr, sent, arrived)
    BY ControllerIs
  <2>2. MaxPackets \in Nat
    BY BbrAssumption
  <2>3. now \in Nat
    BY DEF BbrInv
  <2> QED BY <1>1, <2>1, <2>2, <2>3
<1>3. HistFits(hist', sent')
  BY <1>1, <1>2, HistoryAddFits DEF BbrInv
<1>4. /\ PartsFit(bbr', sent', arrived) /\ SameFilters(bbr', bbr) /\ SameModes(bbr', bbr)
      /\ SameRecovery(bbr', bbr)
  <2>1. arrived \in SUBSET (0 .. sent - 1) /\ PartsFit(bbr, sent, arrived)
        /\ hist.outstanding_bytes \in Nat
    BY DEF BbrInv, ControllerFits, HistFits
  <2> DEFINE before == hist.outstanding_bytes
             d == OnSendPacket(bbr, now, sent, PacketSize, before)
  <2> HIDE DEF before
  <2>2. /\ PartsFit(d, sent + 1, arrived) /\ SameFilters(d, bbr) /\ SameModes(d, bbr)
        /\ SameRecovery(d, bbr)
    <3>1. before \in Nat /\ sent \in Nat /\ now \in Nat /\ arrived \in SUBSET (0 .. sent - 1)
          /\ PartsFit(bbr, sent, arrived)
      BY <1>2, <2>1 DEF before
    <3>2. PartsFit(d, sent + 1, arrived) /\ SameFilters(d, bbr)
      BY <3>1, OnSendPacketFits, Zenon
    <3>3. SameModes(d, bbr) /\ SameRecovery(d, bbr)
      BY <3>1, OnSendPacketFits, Zenon
    <3> QED BY <3>2, <3>3
  <2> QED BY <1>1, <2>2 DEF before
<1>5. ControllerFits(bbr', sent', arrived)
  BY <1>4 DEF ControllerFits, BbrInv, ModesAgree, ModesNearlyAgree, SameModes, SameRecovery, InRecovery
<1>6. data' \in SUBSET (0 .. sent' - 1) /\ arrived \in SUBSET (0 .. sent' - 1)
      /\ sent' \in 0 .. MaxPackets
  BY <1>1, <1>2 DEF BbrInv
<1>7. BbrInv'
  BY <1>1, <1>3, <1>5, <1>6 DEF BbrInv
<1>8. RateStep
  BY <1>1 DEF RateStep
<1> QED BY <1>7, <1>8 DEF StepFits

LEMMA DeliverFits ==
    ASSUME BbrInv, NEW s \in data, NEW again \in {0, 1}, Deliver(s, again)
    PROVE  StepFits
<1> DEFINE c == [k \in DOMAIN cache \union {s} |-> IF k = s THEN now ELSE cache[k]]
<1>1. /\ UNCHANGED <<now, hist, bbr, limits, target, told, notify_ts, sent>>
      /\ data' \in {data, data \ {s}} /\ arrived' = arrived \union {s}
      /\ IF s \in DOMAIN cache THEN UNCHANGED <<cache, acks>> ELSE Receive(s, c)
  BY DEF Deliver, senderVars
<1>2. /\ sent \in Nat /\ sent <= Half /\ now \in Nat /\ s \in 0 .. sent - 1
      /\ data' \in SUBSET (0 .. sent - 1) /\ arrived' \in SUBSET (0 .. sent - 1)
      /\ arrived \in SUBSET arrived' /\ s \in arrived'
  <2>1. sent \in Nat /\ sent <= Half
    <3>1. sent \in Nat /\ sent <= MaxPackets /\ MaxPackets < Half /\ Half \in Nat
      BY ControllerIs
    <3>2. MaxPackets \in Nat
      BY BbrAssumption
    <3> QED BY <3>1, <3>2
  <2>2. now \in Nat /\ s \in 0 .. sent - 1 /\ data \in SUBSET (0 .. sent - 1)
        /\ arrived \in SUBSET (0 .. sent - 1)
    BY DEF BbrInv
  <2> QED BY <1>1, <2>1, <2>2
<1>3. sent \in 1 .. Half
  BY <1>2, HalfType
<1>4. ControllerFits(bbr, sent, arrived') /\ Messages(arrived) \subseteq Messages(arrived')
  BY <1>2, MoreArrive DEF BbrInv
<1>5. acks \in Seq(Messages(arrived'))
  BY <1>4 DEF BbrInv
<1>6. /\ DOMAIN c \in SUBSET arrived' /\ DOMAIN c # {} /\ \A k \in DOMAIN c : c[k] \in Nat
  <2>1. DOMAIN cache \in SUBSET arrived /\ \A k \in DOMAIN cache : cache[k] \in Nat
    BY DEF BbrInv
  <2> QED BY <1>2, <2>1
<1>7. /\ DOMAIN cache' \in SUBSET arrived' /\ \A k \in DOMAIN cache' : cache'[k] \in Nat
      /\ acks' \in Seq(Messages(arrived'))
  <2>1. CASE s \in DOMAIN cache
    BY <1>1, <1>2, <1>5, <2>1 DEF BbrInv
  <2>2. CASE Receive(s, c)
    <3> HIDE DEF c
    <3>1. Batches(c, now) \in Seq(Messages(arrived'))
      BY <1>2, <1>3, <1>6, BatchesFit
    <3>2. \/ acks' = acks \o Batches(c, now) /\ cache' = << >>
          \/ cache' = c /\ acks' = acks
      BY <2>2 DEF Receive
    <3>3. acks \o Batches(c, now) \in Seq(Messages(arrived'))
      BY <1>5, <3>1
    <3>4. DOMAIN << >> = {}
      OBVIOUS
    <3> QED BY <1>5, <1>6, <3>2, <3>3, <3>4
  <2> QED BY <1>1, <2>1, <2>2
<1>8. BbrInv'
  BY <1>1, <1>2, <1>4, <1>7 DEF BbrInv
<1> QED BY <1>1, <1>8 DEF StepFits, RateStep

LEMMA LoseFits ==
    ASSUME BbrInv, NEW s \in data, Lose(s)
    PROVE  StepFits
<1>1. /\ UNCHANGED <<now, hist, bbr, limits, target, told, notify_ts, sent, cache, arrived, acks>>
      /\ data' = data \ {s}
  BY DEF Lose, senderVars, receiverVars
<1>2. BbrInv'
  BY <1>1 DEF BbrInv
<1> QED BY <1>1, <1>2 DEF StepFits, RateStep

LEMMA LoseFeedbackFits ==
    ASSUME BbrInv, NEW i \in DOMAIN acks, LoseFeedback(i)
    PROVE  StepFits
<1>1. /\ UNCHANGED <<now, hist, bbr, limits, target, told, notify_ts, sent, data, cache, arrived>>
      /\ acks' = SQ!RemoveAt(acks, i)
  BY DEF LoseFeedback, senderVars, receiverVars
<1>2. acks' \in Seq(Messages(arrived))
  BY <1>1, RemoveAtType DEF BbrInv
<1>3. BbrInv'
  BY <1>1, <1>2 DEF BbrInv
<1> QED BY <1>1, <1>3 DEF StepFits, RateStep

LEMMA ReceiveFeedbackFits ==
    ASSUME BbrInv, NEW i \in DOMAIN acks, NEW again \in {0, 1}, NEW offset \in CycleStarts,
           ReceiveFeedback(i, again, offset)
    PROVE  StepFits
<1> DEFINE fb == FeedbackOf(acks[i])
<1>1. /\ UNCHANGED <<now, limits, sent, data, cache, arrived>>
      /\ acks' \in {acks, SQ!RemoveAt(acks, i)} /\ Taken(fb, offset)
  BY DEF ReceiveFeedback, receiverVars
<1>2. acks[i] \in Messages(arrived) /\ acks' \in Seq(Messages(arrived))
  BY <1>1, RemoveAtType DEF BbrInv
<1>3. sent \in 1 .. Half
  <2>1. acks[i][1] \in SampleRecords(arrived)
    BY <1>2 DEF Messages
  <2>2. acks[i][1].seq \in 0 .. sent - 1
    BY <2>1 DEF SampleRecords, BbrInv
  <2>3. sent \in Nat /\ sent <= MaxPackets /\ MaxPackets < Half /\ Half \in Nat
    BY ControllerIs
  <2>4. MaxPackets \in Nat
    BY BbrAssumption
  <2> QED BY <2>2, <2>3, <2>4
<1>4. FeedbackFits(fb, arrived) /\ HistFits(fb.h, sent)
  BY <1>2, <1>3, FeedbackOfFits DEF BbrInv
<1> HIDE DEF fb
<1>5. hist' = fb.h /\ HistFits(hist', sent') /\ sent' \in Nat
  BY <1>1, <1>3, <1>4 DEF Taken
<1>6. Notified
  BY <1>1, <1>5 DEF Taken, Invalidate, Notified
<1>7. ControllerFits(bbr', sent, arrived)
  <2>1. CASE fb.packets = << >>
    BY <1>1, <2>1 DEF Taken, BbrInv
  <2>2. CASE fb.packets # << >>
    <3>1. bbr' = OnFeedback(bbr, fb, offset)
      BY <1>1, <2>2 DEF Taken
    <3> QED BY <1>4, <2>2, <3>1, ControllerIs, OnFeedbackFits DEF BbrInv
  <2> QED BY <2>1, <2>2
<1>8. Typed(bbr') /\ FiltersFit(bbr')
  BY <1>7 DEF ControllerFits, PartsFit
<1>9. target' \in limits.min .. limits.max /\ told' \in Nat /\ RateStep
  BY <1>5, <1>6, <1>8, NotifiedFits
<1>10. BbrInv'
  BY <1>1, <1>2, <1>5, <1>7, <1>9 DEF BbrInv
<1> QED BY <1>9, <1>10 DEF StepFits

\* The invariant is inductive, and every step is one the action properties allow.
LEMMA StepsKeep ==
    ASSUME BbrInv, [Next]_vars
    PROVE  BbrInv' /\ (UNCHANGED vars \/ RateStep)
<1>1. CASE UNCHANGED vars
  <2>1. BbrInv'
    BY <1>1 DEF vars, senderVars, receiverVars, BbrInv
  <2> QED BY <1>1, <2>1
<1>2. CASE Next
  <2>1. StepFits
    BY <1>2, HeartbeatFits, SetBitratesFits, SendPacketFits, DeliverFits, LoseFits,
       ReceiveFeedbackFits, LoseFeedbackFits DEF Next
  <2> QED BY <2>1 DEF StepFits
<1> QED BY <1>1, <1>2

LEMMA InvKept == Spec => []BbrInv
<1>1. BbrInv /\ [Next]_vars => BbrInv'
  BY StepsKeep
<1> QED BY InitFits, <1>1, PTL DEF Spec

\* The count of bytes in flight is never below what is under way, and never more
\* than two packets above it, after any number of losses, repeats and expiries.
THEOREM InFlightIsBounded == Spec => []InFlightBounded
<1>1. BbrInv => InFlightBounded
  <2> SUFFICES ASSUME BbrInv PROVE InFlightBounded
    OBVIOUS
  <2>1. sent \in Nat /\ HistFits(hist, sent) /\ Ahead(hist) \in SUBSET DOMAIN hist.l
    BY ControllerIs DEF BbrInv, Ahead
  <2>2. OnTheWay(hist) = Weight(Ahead(hist))
    BY <2>1, HistoryBytes DEF OnTheWay, Ahead
  <2>3. hist.outstanding_bytes - OnTheWay(hist) \in {0, PacketSize, 2 * PacketSize}
    BY <2>1, <2>2 DEF HistFits, Excess
  <2> QED BY <2>3, SizeType DEF InFlightBounded
<1> QED BY <1>1, InvKept, PTL

\* What counts as acknowledged has arrived, once, and what waits for its
\* acknowledgement was sent besides it.
THEOREM EachAckedOnce == Spec => []AckedOnce
<1>1. BbrInv => AckedOnce
  <2> SUFFICES ASSUME BbrInv PROVE AckedOnce
    OBVIOUS
  <2> DEFINE s == bbr.smp
             P == DOMAIN bbr.smp.points
  <2>1. sent \in Nat /\ SamplerFits(s, sent, arrived) /\ arrived \in SUBSET (0 .. sent - 1)
    BY ControllerIs DEF BbrInv, PartsFit
  <2>2. BytesOf(s.points, P) = Weight(P)
    <3>1. IsFiniteSet(P)
      BY <2>1, NumbersFinite DEF SamplerFits
    <3>2. \A k \in P : s.points[k].size = PacketSize
      BY <2>1 DEF SamplerFits, Points
    <3> QED BY <3>1, <3>2, BytesAre
  <2>3. s.total_data_acked <= Weight(arrived)
    <3>1. IsFiniteSet(arrived) /\ Weight(arrived) \in Nat
          /\ Weight(arrived \ P) \in Nat /\ Weight(arrived \ P) <= Weight(arrived)
      BY <2>1, NumbersFinite, WeightSubset
    <3>2. s.total_data_acked \in Nat /\ s.total_data_acked <= Weight(arrived \ P)
      BY <2>1 DEF SamplerFits, Samplers
    <3> HIDE DEF s, P
    <3> QED BY <3>1, <3>2
  <2>4. s.total_data_acked + Weight(P) <= s.total_data_sent
    BY <2>1 DEF SamplerFits
  <2> QED BY <2>2, <2>3, <2>4 DEF AckedOnce, Weight
<1> QED BY <1>1, InvKept, PTL

\* The controller's state is well formed, its window lets the least one out, and
\* its mode agrees with its verdict on the bandwidth.
THEOREM ControllerConsistent == Spec => []ControllerInv
<1>1. BbrInv => ControllerInv
  <2> SUFFICES ASSUME BbrInv PROVE ControllerInv
    OBVIOUS
  <2>1. /\ Typed(bbr) /\ FiltersFit(bbr) /\ SamplerFits(bbr.smp, sent, arrived) /\ ModesAgree(bbr)
        /\ InRecovery(bbr) => bbr.recovery_window >= MinWindow
    BY DEF BbrInv, ControllerFits, PartsFit
  <2>2. Bandwidth(bbr) \in Nat /\ CongestionWindow(bbr) >= MinWindow
    BY <2>1, WindowsType
  <2>3. SendableWindow
    BY <2>1, <2>2 DEF SendableWindow, Typed, Controllers
  <2>4. ModesFollowBandwidth
    BY <2>1 DEF ModesFollowBandwidth, ModesAgree, ModesNearlyAgree
  <2>5. /\ bbr.mode \in ModeNames /\ bbr.recovery_state \in RecoveryNames
        /\ bbr.srtt \in Nat \ {0} /\ bbr.min_rtt \in Nat /\ bbr.pacing_rate \in Nat
        /\ bbr.round_trip_count \in Nat /\ bbr.cycle_current_offset \in 0 .. CycleLength - 1
    BY <2>1 DEF Typed, Controllers
  <2>6. target \in Nat /\ told \in Nat
    <3>1. limits \in Limits /\ target \in limits.min .. limits.max /\ told \in Nat
      BY DEF BbrInv
    <3> QED BY <3>1, LimitsType
  <2>7. /\ DOMAIN bbr.smp.points \subseteq 0 .. sent - 1 /\ DOMAIN hist.l \subseteq 0 .. sent - 1
        /\ hist.outstanding_bytes \in Nat /\ DOMAIN cache \subseteq arrived
    BY <2>1 DEF BbrInv, HistFits, SamplerFits
  <2>8. TypeOK
    BY <2>2, <2>5, <2>6, <2>7 DEF TypeOK, ModeNames, RecoveryNames
  <2> QED BY <2>3, <2>4, <2>8 DEF ControllerInv
<1> QED BY <1>1, InvKept, PTL

\* The bandwidth in use and the estimates behind it were all measured, nothing
\* measured since is above them, and the best was inside its window of round
\* trips when the latest measurement came.
THEOREM BandwidthStaysRecent == Spec => []BandwidthIsRecent
<1>1. BbrInv => BandwidthIsRecent
  <2> SUFFICES ASSUME BbrInv PROVE BandwidthIsRecent
    OBVIOUS
  <2>1. FilterKnows(bbr.max_bandwidth, bbr.measured, bbr.round_trip_count)
    BY ControllerIs DEF FiltersFit
  <2> QED BY <2>1 DEF BandwidthIsRecent, FilterKnows, BestSince
<1> QED BY <1>1, InvKept, PTL

\* The bitrate told rises only while the window has room, and falls when what is
\* under way overflows it.
THEOREM RateFollows == Spec => RateFollowsWindow
<1>1. BbrInv /\ [Next]_vars => [RateStep]_vars
  BY StepsKeep
<1> QED BY <1>1, InvKept, PTL DEF Spec, RateFollowsWindow, RateStep
=============================================================================
