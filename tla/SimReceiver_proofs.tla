------------------------ MODULE SimReceiver_proofs ------------------------
(***************************************************************************)
(* Machine-checked proofs about the video receiver, for every stream and   *)
(* every value of the constants: no gap is forgotten, the base is safe,    *)
(* and frames come out whole, in order and decodable.                      *)
(***************************************************************************)
EXTENDS SimReceiver, FiniteSetTheorems, WellFoundedInduction, TLAPS

-----------------------------------------------------------------------------
(* The stream and the operators *)

LEMMA FrameIds == Fids \subseteq Nat \ {0} /\ \A f \in Fids : 1 .. f \subseteq Fids
<1> DEFINE R == [first : Nat \ {0}, last : Nat \ {0}, key : BOOLEAN, ts : Nat]
<1>1. Frames \in Seq(R)
  BY StreamAssumption
<1> HIDE DEF R
<1>2. Len(Frames) \in Nat /\ DOMAIN Frames = 1 .. Len(Frames)
  BY <1>1
<1> DEFINE n == Len(Frames)
<1> HIDE DEF n
<1>3. n \in Nat /\ Fids = 1 .. n
  BY <1>2 DEF n, Fids
<1>4. \A f \in 1 .. n : \A g \in 1 .. f : g \in 1 .. n
  BY <1>3
<1> QED BY <1>3, <1>4

LEMMA FrameTypes ==
    ASSUME NEW f \in Fids
    PROVE  /\ Frames[f].first \in Nat \ {0} /\ Frames[f].last \in Nat \ {0}
           /\ Frames[f].first <= Frames[f].last
           /\ Ts(f) \in Nat /\ IsKey(f) \in BOOLEAN
           /\ Frames[f].first \in PacketsOf(f) /\ Frames[f].last \in PacketsOf(f)
           /\ PacketsOf(f) \subseteq Pids
<1> DEFINE R == [first : Nat \ {0}, last : Nat \ {0}, key : BOOLEAN, ts : Nat]
<1>1. Frames \in Seq(R)
  BY StreamAssumption
<1>2. Frames[f] \in R
  <2> HIDE DEF R
  <2> QED BY <1>1 DEF Fids
<1>3. Frames[f].first <= Frames[f].last
  BY StreamAssumption
<1>4. PacketsOf(f) \subseteq Pids
  BY DEF Pids
<1> QED BY <1>2, <1>3, <1>4 DEF Ts, IsKey, PacketsOf

LEMMA Pids1 == Pids \subseteq Nat \ {0}
BY FrameTypes DEF Pids, PacketsOf

\* Packets are numbered in the order of their frames.
LEMMA FrameOrder ==
    ASSUME NEW f \in Fids, NEW g \in Fids, f < g
    PROVE  Frames[f].last < Frames[g].first
BY StreamAssumption

LEMMA FrameOfPacket ==
    ASSUME NEW p \in Pids
    PROVE  FrameOf(p) \in Fids /\ p \in PacketsOf(FrameOf(p))
BY DEF Pids, FrameOf

LEMMA PacketOrder ==
    ASSUME NEW p \in Pids, NEW q \in Pids, p <= q
    PROVE  FrameOf(p) <= FrameOf(q)
<1> DEFINE f == FrameOf(p)
           g == FrameOf(q)
<1>1. f \in Fids /\ g \in Fids /\ f \in Nat /\ g \in Nat
  BY FrameOfPacket, FrameIds
<1>2. p \in PacketsOf(f) /\ q \in PacketsOf(g)
  BY FrameOfPacket
<1>3. p \in Nat /\ q \in Nat
  BY Pids1
<1> HIDE DEF f, g
<1>4. CASE g < f
  BY <1>1, <1>2, <1>3, <1>4, FrameOrder, FrameTypes DEF PacketsOf
<1> QED BY <1>1, <1>4 DEF f, g

\* A packet of a frame is of that frame only.
LEMMA FrameOfUnique ==
    ASSUME NEW f \in Fids, NEW p \in PacketsOf(f)
    PROVE  p \in Pids /\ FrameOf(p) = f
<1> DEFINE g == FrameOf(p)
<1>1. p \in Pids
  BY FrameTypes
<1>2. g \in Fids /\ p \in PacketsOf(g) /\ f \in Nat /\ g \in Nat
  BY <1>1, FrameOfPacket, FrameIds
<1> HIDE DEF g
<1>3. CASE g < f
  BY <1>2, <1>3, FrameOrder, FrameTypes DEF PacketsOf
<1>4. CASE f < g
  BY <1>2, <1>4, FrameOrder, FrameTypes DEF PacketsOf
<1> QED BY <1>1, <1>2, <1>3, <1>4 DEF g

LEMMA FromFrame ==
    ASSUME NEW p \in Pids, NEW f \in Fids, FrameOf(p) >= f
    PROVE  p >= Frames[f].first
<1> DEFINE g == FrameOf(p)
<1>1. g \in Fids /\ p \in PacketsOf(g) /\ f \in Nat /\ g \in Nat /\ p \in Nat
  BY FrameOfPacket, FrameIds, Pids1
<1>2. /\ Frames[f].first \in Nat /\ Frames[f].last \in Nat /\ Frames[f].first <= Frames[f].last
      /\ Frames[g].first \in Nat
  BY <1>1, FrameTypes
<1>3. g >= f
  OBVIOUS
<1> HIDE DEF g
<1>4. p >= Frames[g].first
  BY <1>1 DEF PacketsOf
<1>5. CASE g > f
  BY <1>1, <1>2, <1>4, <1>5, FrameOrder
<1> QED BY <1>1, <1>3, <1>4, <1>5

\* A nonempty set of naturals has a least element: the library says so for a
\* predicate, which is no use to a first-order prover.
LEMMA LeastNat ==
    ASSUME NEW T \in SUBSET Nat, T # {}
    PROVE  \E x \in T : \A y \in T : x <= y
<1> DEFINE Less == {ss \in Nat \X Nat : ss[1] < ss[2]}
<1>1. IsWellFoundedOn(Less, Nat)
  BY NatLessThanWellFounded DEF OpToRel
<1>2. PICK x \in T : \A y \in T : ~(<<y, x>> \in Less)
  <2> HIDE DEF Less
  <2> QED BY <1>1, WFMin
<1>3. \A y \in T : ~(y < x)
  BY <1>2
<1> QED BY <1>3

LEMMA MinFact ==
    ASSUME NEW S \in SUBSET Nat, S # {}
    PROVE  Min(S) \in S /\ \A x \in S : Min(S) <= x
BY LeastNat DEF Min

\* A nonempty set of naturals with a bound has a greatest element.
LEMMA MaxFact ==
    ASSUME NEW b \in Nat, NEW S \in SUBSET (0 .. b), S # {}
    PROVE  Max(S) \in S /\ \A x \in S : x <= Max(S)
<1> DEFINE T == {b - x : x \in S}
<1> \A x \in S : x \in Nat /\ b - x \in Nat
  OBVIOUS
<1>1. T \in SUBSET Nat /\ T # {}
  OBVIOUS
<1>2. PICK t \in T : \A y \in T : t <= y
  <2> HIDE DEF T
  <2> QED BY <1>1, LeastNat
<1>3. PICK m \in S : t = b - m
  BY <1>2
<1>4. \A x \in S : m >= x
  <2> TAKE x \in S
  <2>1. b - x \in T
    OBVIOUS
  <2>2. x \in Nat /\ m \in Nat
    OBVIOUS
  <2> HIDE DEF T
  <2>3. t <= b - x
    BY <1>2, <2>1
  <2> QED BY <1>3, <2>2, <2>3
<1> QED BY <1>3, <1>4 DEF Max

LEMMA MaxPair ==
    ASSUME NEW a \in Nat, NEW b \in Nat
    PROVE  Max({a, b}) = IF a >= b THEN a ELSE b
BY DEF Max

LEMMA MinPair ==
    ASSUME NEW a \in Nat, NEW b \in Nat
    PROVE  Min({a, b}) = IF a <= b THEN a ELSE b
BY DEF Min

-----------------------------------------------------------------------------
(* The inductive invariant *)

LEMMA InitInv == Init => ReceiverInv
<1> SUFFICES ASSUME Init PROVE ReceiverInv
  OBVIOUS
<1> USE DEF Init
<1>1. TypeOK
  <2>1. frames \in [Fids -> SUBSET Pids] /\ \A f \in Fids : frames[f] \subseteq PacketsOf(f)
    OBVIOUS
  <2>2. playing \in BOOLEAN /\ slow \in BOOLEAN
    BY Zenon
  <2> QED BY <2>1, <2>2 DEF TypeOK
<1>2. Fresh
  BY DEF Fresh
<1>3. \A p \in Pids : p \in Nat /\ p > 0 /\ FrameOf(p) \in Nat /\ FrameOf(p) > 0
  <2> TAKE p \in Pids
  <2>1. FrameOf(p) \in Nat \ {0} /\ p \in Nat \ {0}
    BY Pids1, FrameOfPacket, FrameIds
  <2> QED BY <2>1
<1>4. HeldArrived /\ MinSeqBehind /\ NextDecodable /\ PositionSeen
  BY <1>3 DEF HeldArrived, PositionSeen, MinSeqBehind, NextDecodable
<1>5. LossIsMissing /\ NothingForgotten /\ BaseIsSafe
  BY <1>3 DEF LossIsMissing, NothingForgotten, BaseIsSafe
<1> QED BY <1>1, <1>2, <1>4, <1>5 DEF ReceiverInv

LEMMA Types ==
    ASSUME TypeOK
    PROVE  /\ base \in Nat /\ max_seq \in Nat /\ max_ts \in Nat /\ min_seq \in Nat
           /\ play_frame_ts \in Nat /\ frame_ts \in Nat /\ resets \in Nat
           /\ min_fid \in Nat /\ max_fid \in Nat /\ played \in Nat
<1>1. base \in Nat /\ max_seq \in Nat /\ max_ts \in Nat /\ min_seq \in Nat
  BY DEF TypeOK
<1>2. play_frame_ts \in Nat /\ frame_ts \in Nat /\ resets \in Nat
  BY DEF TypeOK
<1>3. Fids \union {0} \subseteq Nat
  BY FrameIds
<1>4. min_fid \in Nat /\ max_fid \in Nat /\ played \in Nat
  BY <1>3 DEF TypeOK
<1> QED BY <1>1, <1>2, <1>4

-----------------------------------------------------------------------------
(* Taking in a packet *)

\* The numbering starts at or right below what comes next.
LEMMA StartFacts ==
    ASSUME ReceiverInv, NEW p \in Pids, Accepts(p)
    PROVE  /\ Start(p) \in Nat /\ p \in Nat \ {0}
           /\ Skipped(p) \subseteq Pids
           /\ max_seq # 0 => Start(p) = max_seq
           /\ max_seq = 0 => Start(p) = Frames[FrameOf(p)].first - 1 /\ Start(p) < p
<1> DEFINE f == FrameOf(p)
<1>1. f \in Fids /\ p \in PacketsOf(f) /\ f \in Nat \ {0} /\ p \in Nat \ {0}
  BY FrameOfPacket, FrameIds, Pids1
<1>2. Frames[f].first \in Nat \ {0} /\ Frames[f].last \in Nat /\ Frames[f].first <= p /\ p <= Frames[f].last
  BY <1>1, FrameTypes DEF PacketsOf
<1>3. max_seq \in Nat /\ max_fid \in Fids \union {0}
  BY DEF ReceiverInv, TypeOK
<1> HIDE DEF f
<1>4. CASE max_seq = 0
  <2>1. Start(p) = Frames[f].first - 1
    BY <1>4 DEF Start, f
  <2>2. Skipped(p) \subseteq PacketsOf(f)
    BY <1>1, <1>2, <2>1 DEF Skipped, PacketsOf
  <2> QED BY <1>1, <1>2, <1>4, <2>1, <2>2, FrameTypes DEF f
<1>5. CASE max_seq # 0
  <2>1. Start(p) = max_seq
    BY <1>5 DEF Start
  <2> DEFINE q == Frames[max_fid].first
  <2>2. q \in Pids /\ q \in Nat /\ q <= max_seq
    BY <1>3, <1>5, FrameTypes DEF ReceiverInv, Fresh, PositionSeen
  <2>3. q .. p \subseteq Pids
    BY <2>2, StreamAssumption
  <2> HIDE DEF q
  <2>4. Skipped(p) \subseteq q .. p
    BY <1>1, <1>3, <2>1, <2>2 DEF Skipped
  <2> QED BY <1>1, <1>3, <1>5, <2>1, <2>3, <2>4
<1> QED BY <1>4, <1>5

\* The packet is not stored: it was there, or its frame is behind.
LEMMA NotStoredFacts ==
    ASSUME ReceiverInv, NEW p \in Pids, Accepts(p), ~Stores(p)
    PROVE  max_seq # 0 /\ p <= max_seq /\ (FrameOf(p) > min_fid => p \in received)
<1> DEFINE f == FrameOf(p)
<1>1. f \in Fids /\ p \in PacketsOf(f) /\ f \in Nat \ {0} /\ p \in Nat \ {0}
  BY FrameOfPacket, FrameIds, Pids1
<1>2. min_fid \in Nat
  BY Types DEF ReceiverInv
<1> HIDE DEF f
<1>3. ~(f > min_fid) \/ p \in frames[f]
  BY DEF Stores, f
<1>4. CASE p \in frames[f]
  <2>1. p \in received
    BY <1>1, <1>4 DEF ReceiverInv, HeldArrived
  <2>2. p <= max_seq
    BY <2>1 DEF ReceiverInv, HeldArrived
  <2> QED BY <1>1, <2>1, <2>2
<1>5. CASE f <= min_fid
  <2>1. p <= max_seq
    BY <1>5 DEF f, ReceiverInv, PositionSeen
  <2> QED BY <1>1, <1>2, <1>5, <2>1 DEF f
<1> QED BY <1>1, <1>2, <1>3, <1>4, <1>5

\* What storing a packet does, case by case.
LEMMA StoreFacts ==
    ASSUME ReceiverInv, NEW p \in Pids, Accepts(p), Stores(p), Store(p)
    PROVE  /\ max_seq' \in Nat /\ max_ts' \in Nat /\ p <= max_seq' /\ max_seq <= max_seq'
           /\ max_seq' = p \/ max_seq' = max_seq
           /\ max_fid' \in Nat
           /\ max_fid' = FrameOf(p) \/ max_fid' = max_fid
           /\ max_fid' >= FrameOf(p) /\ max_fid' >= max_fid
           /\ max_fid = 0 => max_fid' = FrameOf(p) /\ max_seq' = p /\ min_fid' = FrameOf(p) - 1
           /\ max_fid # 0 => min_fid' = min_fid /\ play_frame_ts' = play_frame_ts
<1> DEFINE f == FrameOf(p)
<1>1. f \in Fids /\ p \in PacketsOf(f) /\ f \in Nat \ {0} /\ p \in Nat \ {0} /\ Ts(f) \in Nat
  BY FrameOfPacket, FrameIds, Pids1, FrameTypes
<1>2. max_fid \in Nat /\ max_seq \in Nat /\ max_ts \in Nat
  BY Types DEF ReceiverInv
<1>3. /\ Start(p) \in Nat
      /\ max_seq # 0 => Start(p) = max_seq
      /\ max_seq = 0 => Start(p) < p
  BY StartFacts
<1>4. max_seq = 0 <=> max_fid = 0
  BY DEF ReceiverInv, Fresh
<1> HIDE DEF f
<1>5. /\ max_fid' = Max({max_fid, f})
      /\ min_fid' = IF max_fid = 0 THEN f - 1 ELSE min_fid
      /\ play_frame_ts' = IF max_fid = 0 THEN Ts(f) ELSE play_frame_ts
      /\ max_seq' = Max({Start(p), p})
      /\ max_ts' = Max({max_ts, Ts(f)})
  BY DEF Store, f
<1>6. max_fid' = IF max_fid >= f THEN max_fid ELSE f
  BY <1>1, <1>2, <1>5, MaxPair
<1>7. max_seq' = IF Start(p) >= p THEN Start(p) ELSE p
  BY <1>1, <1>3, <1>5, MaxPair
<1>8. max_ts' \in Nat
  BY <1>1, <1>2, <1>5, MaxPair
<1> QED BY <1>1, <1>2, <1>3, <1>4, <1>5, <1>6, <1>7, <1>8 DEF f

\* The map of the missing: what is struck from it without arriving is dropped.
LEMMA TrackFacts ==
    ASSUME ReceiverInv, NEW p \in Pids, Accepts(p), TrackLoss(p)
    PROVE  /\ loss' \subseteq (loss \ {p}) \union Skipped(p)
           /\ dropped' \subseteq dropped \union loss \union Skipped(p)
           /\ dropped \ {p} \subseteq dropped'
           /\ \A q \in (loss \union Skipped(p)) \ {p} : q \in loss' \union dropped'
BY DEF TrackLoss

LEMMA TakeInTypes ==
    ASSUME ReceiverInv, NEW p \in Pids, TakeIn(p), busy' \in {"no", "put", "fec"}
    PROVE  TypeOK'
<1> DEFINE f == FrameOf(p)
<1> Accepts(p)
  BY DEF TakeIn
<1>1. f \in Fids /\ p \in PacketsOf(f) /\ f \in Nat \ {0} /\ p \in Nat \ {0} /\ Ts(f) \in Nat
  BY FrameOfPacket, FrameIds, Pids1, FrameTypes
<1>2. TypeOK
  BY DEF ReceiverInv
<1>3. Start(p) \in Nat /\ Skipped(p) \subseteq Pids
  BY StartFacts
<1>4. base' \in Nat
  BY <1>3, <1>2, Types DEF TakeIn
<1>5. loss' \subseteq Pids /\ dropped' \subseteq Pids
  <2>1. TrackLoss(p)
    BY DEF TakeIn
  <2> QED BY <1>2, <1>3, <2>1, TrackFacts DEF TypeOK
<1>6. /\ frame_ts' = frame_ts /\ playing' = playing /\ slow' = slow /\ resets' = resets
      /\ played' = played
  BY DEF TakeIn, clock
<1>7. CASE Stores(p)
  <2>1. Store(p)
    BY <1>7 DEF TakeIn
  <2>2. /\ max_seq' \in Nat /\ max_ts' \in Nat
        /\ max_fid' = FrameOf(p) \/ max_fid' = max_fid
        /\ max_fid = 0 => min_fid' = FrameOf(p) - 1
        /\ max_fid # 0 => min_fid' = min_fid /\ play_frame_ts' = play_frame_ts
    BY <1>7, <2>1, StoreFacts
  <2>3. max_fid' \in Fids \union {0}
    BY <1>1, <1>2, <2>2 DEF TypeOK
  <2>4. min_fid' \in Fids \union {0}
    <3>1. f - 1 \in Fids \union {0}
      BY <1>1, FrameIds
    <3> QED BY <1>2, <2>2, <3>1 DEF TypeOK
  <2>5. play_frame_ts' \in Nat /\ min_seq' \in Nat
    BY <1>1, <1>2, <2>1, Types DEF Store
  <2>6. received' \subseteq Pids /\ touched' \subseteq Fids
    BY <1>1, <1>2, <2>1 DEF Store, TypeOK
  <2>7. frames' = [frames EXCEPT ![f] = @ \union {p}]
    BY <2>1 DEF Store
  <2> HIDE DEF f
  <2>8. frames' \in [Fids -> SUBSET Pids] /\ \A g \in Fids : frames'[g] \subseteq PacketsOf(g)
    BY <1>1, <1>2, <2>7 DEF TypeOK
  <2> QED BY <1>2, <1>4, <1>5, <1>6, <2>2, <2>3, <2>4, <2>5, <2>6, <2>8 DEF TypeOK
<1>8. CASE ~Stores(p)
  <2>1. UNCHANGED <<frames, touched, min_seq, min_fid, max_fid, play_frame_ts, max_seq, max_ts,
                    received>>
    BY <1>8 DEF TakeIn, cache
  <2> QED BY <1>2, <1>4, <1>5, <1>6, <2>1 DEF TypeOK
<1> QED BY <1>7, <1>8

LEMMA TakeInInv ==
    ASSUME ReceiverInv, NEW p \in Pids, TakeIn(p), busy' \in {"no", "put", "fec"}
    PROVE  ReceiverInv'
<1> DEFINE f == FrameOf(p)
<1> Accepts(p) /\ TrackLoss(p)
  BY DEF TakeIn
<1>1. f \in Fids /\ p \in PacketsOf(f) /\ f \in Nat \ {0} /\ p \in Nat \ {0}
  BY FrameOfPacket, FrameIds, Pids1
<1>2. TypeOK
  BY DEF ReceiverInv
<1>3. TypeOK'
  BY TakeInTypes
<1>4. /\ base \in Nat /\ max_seq \in Nat /\ min_seq \in Nat
      /\ min_fid \in Nat /\ max_fid \in Nat /\ played \in Nat
  BY <1>2, Types
<1>5. /\ Start(p) \in Nat /\ Skipped(p) \subseteq Pids
      /\ max_seq # 0 => Start(p) = max_seq
      /\ max_seq = 0 => Start(p) = Frames[f].first - 1
  BY StartFacts
<1>6. /\ loss' \subseteq (loss \ {p}) \union Skipped(p)
      /\ dropped' \subseteq dropped \union loss \union Skipped(p)
      /\ dropped \ {p} \subseteq dropped'
      /\ \A q \in (loss \union Skipped(p)) \ {p} : q \in loss' \union dropped'
  BY TrackFacts
<1>7. played' = played /\ playing' = playing /\ base' = IF max_seq = 0 THEN Start(p) ELSE base
  BY DEF TakeIn, clock
<1>8. \A q \in Pids : q \in Nat \ {0} /\ FrameOf(q) \in Nat \ {0}
  BY Pids1, FrameIds, FrameOfPacket
<1>9. \A q \in Skipped(p) : q > Start(p) /\ q < p
  BY <1>1, <1>5 DEF Skipped
<1> HIDE DEF f
<1>10. CASE ~Stores(p)
  <2>1. max_seq # 0 /\ p <= max_seq /\ (f > min_fid => p \in received)
    BY <1>10, NotStoredFacts DEF f
  <2>2. UNCHANGED <<frames, touched, min_seq, min_fid, max_fid, play_frame_ts, max_seq, max_ts,
                    received, base>>
    BY <1>7, <1>10, <2>1 DEF TakeIn, cache
  <2>3. Skipped(p) = {}
    <3> SUFFICES ASSUME NEW q \in Skipped(p) PROVE FALSE
      OBVIOUS
    <3>1. q \in Nat /\ q > max_seq /\ q < p
      BY <1>5, <1>8, <1>9, <2>1
    <3> QED BY <1>1, <1>4, <2>1, <3>1
  <2>4. Fresh' /\ HeldArrived' /\ PositionSeen' /\ MinSeqBehind' /\ NextDecodable'
    BY <1>7, <2>2 DEF ReceiverInv, Fresh, HeldArrived, PositionSeen, MinSeqBehind, NextDecodable
  <2>5. LossIsMissing'
    BY <1>6, <2>2, <2>3 DEF ReceiverInv, LossIsMissing
  <2>6. NothingForgotten'
    BY <1>6, <2>1, <2>2, <2>3 DEF ReceiverInv, NothingForgotten, f
  <2>7. BaseIsSafe'
    BY <1>6, <2>1, <2>2, <2>3 DEF ReceiverInv, BaseIsSafe, f
  <2> QED BY <1>3, <2>4, <2>5, <2>6, <2>7 DEF ReceiverInv
<1>11. CASE Stores(p)
  <2>1. Store(p)
    BY <1>11 DEF TakeIn
  <2>2. /\ max_seq' \in Nat /\ p <= max_seq' /\ max_seq <= max_seq'
        /\ max_seq' = p \/ max_seq' = max_seq
        /\ max_fid' \in Nat
        /\ max_fid' = f \/ max_fid' = max_fid
        /\ max_fid' >= f /\ max_fid' >= max_fid
        /\ max_fid = 0 => max_fid' = f /\ max_seq' = p /\ min_fid' = f - 1
        /\ max_fid # 0 => min_fid' = min_fid
    BY <1>11, <2>1, StoreFacts DEF f
  <2>3. /\ frames' = [frames EXCEPT ![f] = @ \union {p}]
        /\ received' = received \union {p} /\ min_seq' = min_seq
    BY <2>1 DEF Store, f
  <2>4. /\ max_seq = 0 <=> max_fid = 0
        /\ max_fid = 0 => base = 0 /\ min_fid = 0 /\ played = 0 /\ received = {}
    BY DEF ReceiverInv, Fresh
  <2>5. Fresh'
    BY <1>1, <2>2 DEF Fresh
  <2>6. HeldArrived'
    <3>1. \A g \in Fids : frames'[g] \subseteq received'
      BY <1>1, <1>2, <2>3 DEF TypeOK, ReceiverInv, HeldArrived
    <3>2. \A q \in received' : q <= max_seq'
      <4> TAKE q \in received'
      <4>1. CASE q \in received
        <5>1. q \in Nat /\ q <= max_seq
          BY <1>2, <1>8, <4>1 DEF TypeOK, ReceiverInv, HeldArrived
        <5> QED BY <1>4, <2>2, <5>1
      <4> QED BY <2>2, <2>3, <4>1
    <3> QED BY <3>1, <3>2 DEF HeldArrived
  <2>7. PositionSeen'
    <3>1. min_fid' <= max_fid'
      BY <1>1, <1>4, <2>2 DEF ReceiverInv, PositionSeen
    <3>2. Frames[max_fid'].first <= max_seq'
      <4>1. CASE max_fid' = f
        BY <1>1, <2>2, <4>1, FrameTypes DEF PacketsOf
      <4>2. CASE max_fid' = max_fid /\ max_fid # 0
        <5>1. Frames[max_fid].first <= max_seq /\ Frames[max_fid].first \in Nat
          BY <1>2, <4>2, FrameTypes DEF ReceiverInv, PositionSeen, TypeOK
        <5> QED BY <1>4, <2>2, <4>2, <5>1
      <4> QED BY <1>1, <2>2, <4>1, <4>2
    <3>3. \A q \in Pids : FrameOf(q) <= min_fid' => q <= max_seq'
      <4> SUFFICES ASSUME NEW q \in Pids, FrameOf(q) <= min_fid' PROVE q <= max_seq'
        OBVIOUS
      <4>1. CASE max_fid = 0
        <5>1. ~(p <= q)
          <6>1. FrameOf(q) < f
            BY <1>1, <1>8, <2>2, <4>1
          <6> QED BY <1>1, <1>8, <6>1, PacketOrder DEF f
        <5> QED BY <1>1, <1>8, <2>2, <5>1
      <4>2. CASE max_fid # 0
        <5>1. q <= max_seq
          BY <2>2, <4>2 DEF ReceiverInv, PositionSeen
        <5> QED BY <1>4, <1>8, <2>2, <5>1
      <4> QED BY <4>1, <4>2
    <3> QED BY <3>1, <3>2, <3>3 DEF PositionSeen
  <2>8. min_fid <= min_fid' /\ min_fid' \in Nat
    BY <1>1, <1>4, <2>2, <2>4
  <2>9. MinSeqBehind'
    BY <1>4, <1>8, <2>3, <2>8 DEF ReceiverInv, MinSeqBehind
  <2>10. NextDecodable'
    <3>1. CASE max_fid = 0
      <4>1. IsKey(f)
        BY <2>4, <3>1 DEF Accepts, f
      <4>2. min_fid' + 1 = f
        BY <1>1, <2>2, <3>1
      <4> QED BY <1>1, <1>4, <1>7, <2>4, <2>8, <3>1, <4>1, <4>2 DEF NextDecodable
    <3>2. CASE max_fid # 0
      BY <1>7, <2>2, <3>2 DEF ReceiverInv, NextDecodable
    <3> QED BY <3>1, <3>2
  <2>11. \A q \in Skipped(p) : q > max_seq
    BY <1>4, <1>5, <1>8, <1>9
  <2>12. LossIsMissing'
    <3>1. \A q \in Pids : q \in received => q <= max_seq
      BY DEF ReceiverInv, HeldArrived
    <3>2. loss' \intersect received' = {}
      <4>1. \A q \in Skipped(p) : q \notin received /\ q # p
        <5> TAKE q \in Skipped(p)
        <5>1. q \in Pids /\ q > max_seq /\ q < p
          BY <1>5, <1>9, <2>11
        <5>2. q \in Nat
          BY <1>8, <5>1
        <5> QED BY <1>1, <1>4, <3>1, <5>1, <5>2
      <4> QED BY <1>6, <2>3, <4>1 DEF ReceiverInv, LossIsMissing
    <3>3. \A q \in loss' : q < max_seq'
      <4> TAKE q \in loss'
      <4>1. CASE q \in loss
        <5>1. q < max_seq /\ q \in Nat
          BY <1>2, <1>8, <4>1 DEF ReceiverInv, LossIsMissing, TypeOK
        <5> QED BY <1>4, <2>2, <5>1
      <4>2. CASE q \in Skipped(p)
        <5>1. q \in Nat /\ q < p
          BY <1>5, <1>8, <1>9, <4>2
        <5> QED BY <1>1, <2>2, <5>1
      <4> QED BY <1>6, <4>1, <4>2
    <3> QED BY <3>2, <3>3 DEF LossIsMissing
  <2>13. NothingForgotten'
    <3> SUFFICES ASSUME NEW q \in Pids, q <= max_seq', FrameOf(q) > min_fid'
                 PROVE  q \in received' \union loss' \union dropped'
      BY DEF NothingForgotten
    <3>1. CASE q = p
      BY <2>3, <3>1
    <3>2. CASE q # p /\ q <= max_seq /\ max_fid # 0
      <4>1. q \in received \union loss \union dropped
        BY <2>2, <3>2 DEF ReceiverInv, NothingForgotten
      <4> QED BY <1>6, <2>3, <3>2, <4>1
    <3>3. CASE q # p /\ q \in Skipped(p)
      BY <1>6, <3>3
    <3>4. CASE q # p /\ q > max_seq /\ max_fid # 0
      <4>1. q \in Skipped(p)
        BY <1>1, <1>4, <1>5, <1>8, <2>2, <2>4, <3>4 DEF Skipped
      <4> QED BY <3>3, <3>4, <4>1
    <3>5. CASE q # p /\ max_fid = 0
      <4>1. ~(FrameOf(q) < f)
        BY <1>1, <1>8, <2>2, <3>5
      <4>2. q >= Frames[f].first
        <5>1. FrameOf(q) >= f
          BY <1>1, <1>8, <4>1
        <5> QED BY <1>1, <5>1, FromFrame
      <4>3. q < p /\ q > Start(p)
        <5>1. Frames[f].first \in Nat
          BY <1>1, FrameTypes
        <5> QED BY <1>1, <1>5, <1>8, <2>2, <2>4, <3>5, <4>2, <5>1
      <4>4. q \in Skipped(p)
        <5>1. q \in Nat /\ p \in Nat /\ Start(p) \in Nat
          BY <1>1, <1>5, <1>8
        <5> QED BY <4>3, <5>1 DEF Skipped
      <4> QED BY <3>3, <3>5, <4>4
    <3> QED BY <1>4, <1>8, <3>1, <3>2, <3>4, <3>5
  <2>14. BaseIsSafe'
    <3> SUFFICES ASSUME NEW q \in Pids, q <= base', FrameOf(q) > min_fid'
                 PROVE  q \in received' \union dropped'
      BY DEF BaseIsSafe
    <3>1. CASE max_fid # 0
      <4>1. q \in received \union dropped
        BY <1>7, <2>2, <2>4, <3>1 DEF ReceiverInv, BaseIsSafe
      <4> QED BY <1>6, <2>3, <4>1
    <3>2. CASE max_fid = 0
      <4>1. q < Frames[f].first /\ FrameOf(q) >= f
        <5>1. Frames[f].first \in Nat
          BY <1>1, FrameTypes
        <5> QED BY <1>1, <1>5, <1>7, <1>8, <2>2, <2>4, <3>2, <5>1
      <4>2. q >= Frames[f].first /\ Frames[f].first \in Nat
        BY <1>1, <4>1, FromFrame, FrameTypes
      <4> QED BY <1>8, <4>1, <4>2
    <3> QED BY <3>1, <3>2
  <2> QED BY <1>3, <2>5, <2>6, <2>7, <2>9, <2>10, <2>12, <2>13, <2>14 DEF ReceiverInv
<1> QED BY <1>10, <1>11

-----------------------------------------------------------------------------
(* Acknowledging *)

\* A packet taken off the map by the update of the base is behind the play
\* position, so that what still counts as missing is all there is to wait for.
LEMMA AcknowledgeInv ==
    ASSUME ReceiverInv, Acknowledge
    PROVE  ReceiverInv'
<1> DEFINE l == StillMissing
<1>1. TypeOK
  BY DEF ReceiverInv
<1>2. base \in Nat /\ max_seq \in Nat /\ min_seq \in Nat /\ min_fid \in Nat
  BY <1>1, Types
<1>3. \A q \in Pids : q \in Nat \ {0} /\ FrameOf(q) \in Nat \ {0}
  BY Pids1, FrameIds, FrameOfPacket
<1>4. l \subseteq loss /\ l \in SUBSET Nat /\ l \subseteq Pids
  BY <1>1, Pids1 DEF StillMissing, TypeOK
<1>5. /\ busy' = "no"
      /\ UNCHANGED <<frames, touched, min_seq, min_fid, max_fid, play_frame_ts, max_seq, max_ts,
                     frame_ts, playing, slow, resets, received, played>>
  BY DEF Acknowledge, cache, clock
<1>6. \A q \in Pids : q \in loss \ l => FrameOf(q) <= min_fid
  <2> TAKE q \in Pids
  <2> HAVE q \in loss \ l
  <2>1. q <= min_seq
    BY <1>2, <1>3 DEF StillMissing
  <2> QED BY <2>1 DEF ReceiverInv, MinSeqBehind
<1>7. loss' \union dropped' = l \union dropped /\ loss' \subseteq l
  BY DEF Acknowledge
<1>8. l # {} => base' = Min(l) - 1 /\ Min(l) \in l /\ \A x \in l : Min(l) <= x
  <2> SUFFICES ASSUME l # {} PROVE base' = Min(l) - 1 /\ Min(l) \in l /\ \A x \in l : Min(l) <= x
    OBVIOUS
  <2>1. base' = Min(l) - 1
    BY DEF Acknowledge, BaseBelow
  <2> HIDE DEF l
  <2> QED BY <1>4, <2>1, MinFact
<1>9. l = {} => base' = max_seq
  BY DEF Acknowledge, BaseBelow
<1>10. dropped \subseteq dropped' /\ dropped' \subseteq dropped \union l
  BY DEF Acknowledge
<1> HIDE DEF l
<1>11. base' \in Nat
  <2>1. CASE l # {}
    <3>1. Min(l) \in Nat \ {0}
      BY <1>3, <1>4, <1>8, <2>1
    <3> QED BY <1>8, <2>1, <3>1
  <2> QED BY <1>2, <1>9, <2>1
<1>12. TypeOK'
  <2>1. busy' \in {"no", "put", "fec"} /\ loss' \subseteq Pids /\ dropped' \subseteq Pids
    BY <1>1, <1>4, <1>5, <1>7, <1>10 DEF TypeOK
  <2> QED BY <1>1, <1>5, <1>11, <2>1 DEF TypeOK
<1>13. max_fid = 0 => base' = 0
  <2> HAVE max_fid = 0
  <2>1. max_seq = 0
    BY DEF ReceiverInv, Fresh
  <2>2. l = {}
    <3> SUFFICES ASSUME NEW q \in l PROVE FALSE
      OBVIOUS
    <3>1. q < 0 /\ q \in Nat
      BY <1>4, <2>1 DEF ReceiverInv, LossIsMissing
    <3> QED BY <3>1
  <2> QED BY <1>9, <2>1, <2>2
<1>14. Fresh' /\ HeldArrived' /\ PositionSeen' /\ MinSeqBehind' /\ NextDecodable'
  BY <1>5, <1>13 DEF ReceiverInv, Fresh, HeldArrived, PositionSeen, MinSeqBehind, NextDecodable
<1>15. LossIsMissing'
  BY <1>4, <1>5, <1>7 DEF ReceiverInv, LossIsMissing
<1>16. NothingForgotten'
  <2> SUFFICES ASSUME NEW q \in Pids, q <= max_seq, FrameOf(q) > min_fid
               PROVE  q \in received \union loss' \union dropped'
    BY <1>5 DEF NothingForgotten
  <2>1. q \in received \union loss \union dropped
    BY DEF ReceiverInv, NothingForgotten
  <2>2. q \in loss => q \in l
    BY <1>2, <1>3, <1>6
  <2> QED BY <1>7, <2>1, <2>2
<1>17. BaseIsSafe'
  <2> SUFFICES ASSUME NEW q \in Pids, q <= base', FrameOf(q) > min_fid
               PROVE  q \in received \union dropped'
    BY <1>5 DEF BaseIsSafe
  <2>1. q \in loss => q \in l
    BY <1>2, <1>3, <1>6
  <2>2. q <= max_seq /\ q \notin l
    <3>1. CASE l = {}
      BY <1>9, <3>1
    <3>2. CASE l # {}
      <4>1. Min(l) \in Nat /\ Min(l) < max_seq /\ base' = Min(l) - 1
        BY <1>4, <1>8, <3>2 DEF ReceiverInv, LossIsMissing
      <4>2. q \in Nat /\ q < Min(l)
        BY <1>3, <4>1
      <4> QED BY <1>2, <1>4, <1>8, <3>2, <4>1, <4>2
    <3> QED BY <3>1, <3>2
  <2>3. q \in received \union loss \union dropped
    BY <2>2 DEF ReceiverInv, NothingForgotten
  <2> QED BY <1>10, <2>1, <2>2, <2>3
<1> QED BY <1>12, <1>14, <1>15, <1>16, <1>17 DEF ReceiverInv

-----------------------------------------------------------------------------
(* Playing *)

LEMMA SlotFacts ==
    ASSUME NEW f \in Fids PROVE SlotTs(f) \in Nat
BY FrameTypes DEF SlotTs

\* Frames are only given up in favour of a key frame that is in the ring.
LEMMA GivenUpFacts ==
    ASSUME ReceiverInv, NEW delay
    PROVE  /\ GivenUpTo(delay) \in Fids \union {0} /\ GivenUpTo(delay) \in Nat
           /\ min_fid <= GivenUpTo(delay) /\ GivenUpTo(delay) <= max_fid
           /\ ~Evicts(delay) => GivenUpTo(delay) = min_fid
           /\ Evicts(delay) => /\ GivenUpTo(delay) \in Fids
                               /\ GivenUpTo(delay) + 1 \in Fids
                               /\ GivenUpTo(delay) + 1 < max_fid
                               /\ IsKey(GivenUpTo(delay) + 1)
<1>1. /\ min_fid \in Nat /\ max_fid \in Nat /\ min_fid <= max_fid
      /\ min_fid \in Fids \union {0} /\ max_fid \in Fids \union {0}
  BY Types DEF ReceiverInv, TypeOK, PositionSeen
<1>2. CASE ~Evicts(delay)
  BY <1>1, <1>2 DEF GivenUpTo
<1>3. CASE Evicts(delay)
  <2> DEFINE k == Min(GopKeys)
  <2>1. GopKeys # {} /\ GopKeys \in SUBSET Nat
    BY <1>1, <1>3 DEF Evicts, GopKeys
  <2>2. k \in GopKeys
    BY <2>1, MinFact
  <2>3. GivenUpTo(delay) = k - 1
    BY <1>3 DEF GivenUpTo
  <2> HIDE DEF k
  <2>4. k \in Nat /\ k >= min_fid + 2 /\ k < max_fid /\ IsKey(k)
    BY <1>1, <2>2 DEF GopKeys
  <2>5. max_fid \in Fids
    BY <1>1, <2>4
  <2>6. k \in 1 .. max_fid /\ k - 1 \in 1 .. max_fid
    BY <1>1, <2>4
  <2>7. k \in Fids /\ k - 1 \in Fids
    BY <2>5, <2>6, FrameIds
  <2> QED BY <1>1, <1>3, <2>3, <2>4, <2>7
<1> QED BY <1>2, <1>3

\* A poll gives up or plays frames up to m; a frame handed over is whole, newer
\* than the one before, and follows it or is a key frame.
LEMMA GetFacts ==
    ASSUME ReceiverInv, Get
    PROVE  /\ frame_ts' \in Nat /\ playing' = TRUE /\ max_fid # 0
           /\ UNCHANGED <<base, max_seq, max_ts, loss, touched, max_fid, busy, slow, resets,
                          received, dropped>>
           /\ \E m \in Fids \union {0} :
                 /\ Cleaned(m) /\ min_fid <= m /\ m <= max_fid
                 /\ \/ /\ played' = played
                       /\ m = min_fid \/ (m + 1 \in Fids /\ IsKey(m + 1) /\ m + 1 < max_fid)
                    \/ /\ played' = m /\ m \in Fids /\ m > played
                       /\ IsKey(m) \/ m = played + 1
                       /\ frames[m] = PacketsOf(m)
<1>1. playing' = TRUE /\ UNCHANGED <<base, max_seq, max_ts, loss, touched, max_fid, busy, slow,
                                     resets, received, dropped>>
  BY DEF Get, losses
<1>2. PICK space \in Spaces, delay \in EvictDelays :
         /\ playing \/ CanStart(space)
         /\ \E now \in IF playing THEN Moved ELSE {StartClock} :
               LET last == GivenUpTo(delay)
                   head == last + 1
                   t    == IF Evicts(delay) THEN SlotTs(last) ELSE now
               IN  IF Complete(head) /\ Due(head, t)
                   THEN /\ frame_ts' = SlotTs(head)
                        /\ IF frames[head] = {} THEN Cleaned(last) /\ UNCHANGED played
                                                ELSE Cleaned(head) /\ played' = head
                   ELSE /\ frame_ts' = IF Complete(head) /\ Skips(head, t, space)
                                       THEN SlotTs(head) - space ELSE t
                        /\ Cleaned(last) /\ UNCHANGED played
  BY DEF Get
<1>3. PICK now \in IF playing THEN Moved ELSE {StartClock} :
         LET last == GivenUpTo(delay)
             head == last + 1
             t    == IF Evicts(delay) THEN SlotTs(last) ELSE now
         IN  IF Complete(head) /\ Due(head, t)
             THEN /\ frame_ts' = SlotTs(head)
                  /\ IF frames[head] = {} THEN Cleaned(last) /\ UNCHANGED played
                                          ELSE Cleaned(head) /\ played' = head
             ELSE /\ frame_ts' = IF Complete(head) /\ Skips(head, t, space)
                                 THEN SlotTs(head) - space ELSE t
                  /\ Cleaned(last) /\ UNCHANGED played
  BY <1>2
<1> DEFINE last == GivenUpTo(delay)
           head == last + 1
           t    == IF Evicts(delay) THEN SlotTs(last) ELSE now
<1>4. /\ min_fid \in Nat /\ max_fid \in Nat /\ played \in Nat /\ frame_ts \in Nat
      /\ play_frame_ts \in Nat /\ touched \subseteq Fids /\ space \in Nat /\ MaxClock \in Nat
      /\ Elapsed \subseteq Nat /\ FrameTimer \in Nat /\ SkipAhead \in Nat
  BY <1>2, Types, ReceiverAssumption DEF ReceiverInv, TypeOK
<1>5. /\ last \in Fids \union {0} /\ last \in Nat /\ min_fid <= last /\ last <= max_fid
      /\ ~Evicts(delay) => last = min_fid
      /\ Evicts(delay) => last \in Fids /\ head \in Fids /\ head < max_fid /\ IsKey(head)
  BY GivenUpFacts
<1>6. max_fid # 0 /\ max_fid \in Fids
  <2>1. max_fid = 0 => playing = FALSE /\ min_fid = 0
    BY DEF ReceiverInv, Fresh
  <2>2. max_fid = 0 => ~CanStart(space)
    BY <1>4, <2>1 DEF CanStart
  <2> QED BY <1>2, <2>1, <2>2 DEF ReceiverInv, TypeOK
<1>7. now \in Nat
  <2>1. CASE playing
    <3>1. PICK e \in Elapsed : now = Min({frame_ts + e, MaxClock})
      BY <1>3, <2>1 DEF Moved
    <3>2. frame_ts + e \in Nat
      BY <1>4
    <3> QED BY <1>4, <3>1, <3>2, MinPair
  <2>2. CASE ~playing
    <3>1. now = StartClock
      BY <1>3, <2>2
    <3>2. CacheMaxTs \in Nat
      BY <1>6, FrameTypes DEF CacheMaxTs
    <3>3. CacheMaxTs - FrameTimer * (max_fid - min_fid - 1) \in Int
      BY <1>4, <3>2
    <3> QED BY <1>4, <3>1, <3>3 DEF StartClock
  <2> QED BY <2>1, <2>2
<1>8. t \in Nat
  BY <1>5, <1>7, SlotFacts
<1>9. Complete(head) => head \in Fids /\ head <= max_fid /\ head \in Nat /\ SlotTs(head) \in Nat
  <2> HAVE Complete(head)
  <2>1. head \in Fids /\ min_fid # max_fid
    BY <1>4 DEF Complete
  <2>2. min_fid <= max_fid
    BY DEF ReceiverInv, PositionSeen
  <2> QED BY <1>4, <1>5, <2>1, <2>2, SlotFacts
<1>10. CASE Complete(head) /\ Due(head, t) /\ frames[head] # {}
  <2>1. frame_ts' = SlotTs(head) /\ Cleaned(head) /\ played' = head
    BY <1>3, <1>10
  <2>2. frames[head] = PacketsOf(head)
    BY <1>10 DEF Complete, Full
  <2>3. /\ played <= min_fid
        /\ played = min_fid \/ (min_fid + 1 \in Fids /\ IsKey(min_fid + 1))
    BY <1>6 DEF ReceiverInv, NextDecodable
  <2>4. IsKey(head) \/ head = played + 1
    BY <1>4, <1>5, <2>3
  <2>5. head > played /\ min_fid <= head
    BY <1>4, <1>5, <2>3
  <2> HIDE DEF head
  <2>6. head \in Fids \union {0} /\ head <= max_fid /\ SlotTs(head) \in Nat /\ head \in Fids
    BY <1>9, <1>10
  <2> QED BY <1>1, <1>6, <2>1, <2>2, <2>4, <2>5, <2>6
<1>11. CASE ~(Complete(head) /\ Due(head, t) /\ frames[head] # {})
  <2>1. Cleaned(last) /\ played' = played
    BY <1>3, <1>11
  <2>2. frame_ts' \in Nat
    <3>1. CASE Complete(head) /\ Due(head, t)
      BY <1>3, <1>9, <3>1
    <3>2. CASE ~(Complete(head) /\ Due(head, t)) /\ Complete(head) /\ Skips(head, t, space)
      <4>1. frame_ts' = SlotTs(head) - space
        BY <1>3, <3>2
      <4>2. SlotTs(head) > t + Max({SkipAhead, 2 * space})
        BY <3>2 DEF Skips
      <4>3. 2 * space \in Nat
        BY <1>4
      <4>4. Max({SkipAhead, 2 * space}) \in Nat /\ Max({SkipAhead, 2 * space}) >= 2 * space
        BY <1>4, <4>3, MaxPair
      <4>5. SlotTs(head) \in Nat
        BY <1>9, <3>2
      <4> HIDE DEF head, t
      <4> DEFINE x == SlotTs(head)
                 y == Max({SkipAhead, 2 * space})
      <4>6. x \in Nat /\ y \in Nat /\ y >= 2 * space /\ x > t + y
        BY <4>2, <4>4, <4>5
      <4> HIDE DEF x, y
      <4>7. x - space \in Nat
        BY <1>4, <1>8, <4>6
      <4> QED BY <4>1, <4>7 DEF x
    <3>3. CASE ~(Complete(head) /\ Due(head, t)) /\ ~(Complete(head) /\ Skips(head, t, space))
      <4>1. frame_ts' = t
        BY <1>3, <3>3
      <4> QED BY <1>8, <4>1
    <3> QED BY <3>1, <3>2, <3>3
  <2>3. last = min_fid \/ (last + 1 \in Fids /\ IsKey(last + 1) /\ last + 1 < max_fid)
    BY <1>5
  <2> HIDE DEF last
  <2> QED BY <1>1, <1>5, <1>6, <2>1, <2>2, <2>3
<1> QED BY <1>10, <1>11

\* Emptying the slots up to frame m.
LEMMA CleanedFacts ==
    ASSUME ReceiverInv, NEW m \in Fids \union {0}, Cleaned(m), min_fid <= m
    PROVE  /\ min_fid' = m
           /\ frames' \in [Fids -> SUBSET Pids] /\ \A g \in Fids : frames'[g] \subseteq frames[g]
           /\ play_frame_ts' \in Nat /\ min_seq' \in Nat
           /\ \A q \in Pids : q <= min_seq' => FrameOf(q) <= m
<1> DEFINE held == {g \in (min_fid + 1) .. m : frames[g] # {}}
           top  == Max(held)
<1>1. /\ frames \in [Fids -> SUBSET Pids] /\ min_seq \in Nat /\ play_frame_ts \in Nat
      /\ min_fid \in Nat /\ m \in Nat
  BY Types, FrameIds DEF ReceiverInv, TypeOK
<1>2. /\ frames' = [g \in Fids |-> IF g \in held THEN {} ELSE frames[g]]
      /\ min_fid' = m
      /\ min_seq' = IF held = {} THEN min_seq ELSE Frames[top].last
      /\ play_frame_ts' = IF held = {} THEN play_frame_ts ELSE Ts(top)
  BY DEF Cleaned
<1>3. held \in SUBSET (0 .. m)
  BY <1>1
<1>4. held # {} => top \in held
  <2> HAVE held # {}
  <2> HIDE DEF held
  <2> QED BY <1>1, <1>3, MaxFact
<1>5. held # {} => top \in Fids /\ top <= m /\ top \in Nat
  <2> HAVE held # {}
  <2>1. top \in 1 .. m /\ m \in Fids
    BY <1>1, <1>4
  <2> HIDE DEF top
  <2> QED BY <1>1, <2>1, FrameIds
<1> HIDE DEF held, top
<1>6. frames' \in [Fids -> SUBSET Pids] /\ \A g \in Fids : frames'[g] \subseteq frames[g]
  BY <1>1, <1>2
<1>7. CASE held = {}
  <2>1. \A q \in Pids : q <= min_seq => FrameOf(q) <= m
    <3> TAKE q \in Pids
    <3> HAVE q <= min_seq
    <3>1. FrameOf(q) <= min_fid /\ FrameOf(q) \in Nat
      BY FrameOfPacket, FrameIds DEF ReceiverInv, MinSeqBehind
    <3> QED BY <1>1, <3>1
  <2> QED BY <1>1, <1>2, <1>6, <1>7, <2>1
<1>8. CASE held # {}
  <2>1. Frames[top].last \in Pids /\ FrameOf(Frames[top].last) = top
    BY <1>5, <1>8, FrameTypes, FrameOfUnique
  <2>2. min_seq' = Frames[top].last /\ min_seq' \in Nat /\ play_frame_ts' \in Nat
    BY <1>2, <1>5, <1>8, FrameTypes
  <2>3. \A q \in Pids : q <= min_seq' => FrameOf(q) <= m
    <3> TAKE q \in Pids
    <3> HAVE q <= min_seq'
    <3>1. FrameOf(q) <= top /\ FrameOf(q) \in Nat
      BY <2>1, <2>2, PacketOrder, FrameOfPacket, FrameIds
    <3> QED BY <1>1, <1>5, <1>8, <3>1
  <2> QED BY <1>2, <1>6, <2>2, <2>3
<1> QED BY <1>7, <1>8

LEMMA GetInv ==
    ASSUME ReceiverInv, Get
    PROVE  ReceiverInv'
<1>1. /\ frame_ts' \in Nat /\ playing' = TRUE /\ max_fid # 0
      /\ UNCHANGED <<base, max_seq, max_ts, loss, touched, max_fid, busy, slow, resets,
                     received, dropped>>
  BY GetFacts
<1>2. PICK m \in Fids \union {0} :
         /\ Cleaned(m) /\ min_fid <= m /\ m <= max_fid
         /\ \/ /\ played' = played
               /\ m = min_fid \/ (m + 1 \in Fids /\ IsKey(m + 1) /\ m + 1 < max_fid)
            \/ /\ played' = m /\ m \in Fids /\ m > played
               /\ IsKey(m) \/ m = played + 1
               /\ frames[m] = PacketsOf(m)
  BY GetFacts
<1>3. /\ min_fid' = m
      /\ frames' \in [Fids -> SUBSET Pids] /\ \A g \in Fids : frames'[g] \subseteq frames[g]
      /\ play_frame_ts' \in Nat /\ min_seq' \in Nat
      /\ \A q \in Pids : q <= min_seq' => FrameOf(q) <= m
  BY <1>2, CleanedFacts
<1>4. TypeOK /\ m \in Nat /\ min_fid \in Nat /\ max_fid \in Nat /\ max_seq \in Nat /\ played \in Nat
  BY Types, FrameIds DEF ReceiverInv
<1>5. \A q \in Pids : q \in Nat \ {0} /\ FrameOf(q) \in Nat \ {0} /\ FrameOf(q) \in Fids
  BY Pids1, FrameIds, FrameOfPacket
<1>6. played' \in Fids \union {0} /\ played' <= m
  <2>1. played <= min_fid /\ played \in Fids \union {0}
    BY <1>4 DEF ReceiverInv, NextDecodable, TypeOK
  <2> QED BY <1>2, <1>4, <2>1
<1>7. TypeOK'
  <2>1. \A g \in Fids : frames'[g] \subseteq PacketsOf(g)
    BY <1>3, <1>4 DEF TypeOK
  <2>2. playing' \in BOOLEAN /\ slow' \in BOOLEAN
    <3>1. slow \in BOOLEAN
      BY <1>4 DEF TypeOK
    <3> QED BY <1>1, <3>1, Zenon
  <2> QED BY <1>1, <1>3, <1>4, <1>6, <2>1, <2>2 DEF TypeOK
<1>8. Fresh'
  BY <1>1 DEF ReceiverInv, Fresh
<1>9. HeldArrived'
  BY <1>1, <1>3 DEF ReceiverInv, HeldArrived
<1>10. PositionSeen'
  <2>1. Frames[max_fid].first <= max_seq /\ max_fid \in Fids /\ Frames[max_fid].first \in Nat
    BY <1>1, <1>4, FrameTypes DEF ReceiverInv, PositionSeen, TypeOK
  <2>2. \A q \in Pids : FrameOf(q) <= m => q <= max_seq
    <3> SUFFICES ASSUME NEW q \in Pids, FrameOf(q) <= m PROVE q <= max_seq
      OBVIOUS
    <3>1. CASE FrameOf(q) <= min_fid
      BY <3>1 DEF ReceiverInv, PositionSeen
    <3>2. CASE FrameOf(q) < max_fid
      <4> DEFINE g == FrameOf(q)
      <4>1. g \in Fids /\ q \in PacketsOf(g) /\ Frames[g].last \in Nat
        BY FrameOfPacket, FrameTypes
      <4> HIDE DEF g
      <4>2. Frames[g].last < Frames[max_fid].first
        BY <2>1, <3>2, <4>1, FrameOrder DEF g
      <4>3. q <= Frames[g].last
        BY <4>1 DEF PacketsOf
      <4> QED BY <1>4, <1>5, <2>1, <4>1, <4>2, <4>3
    <3>3. CASE FrameOf(q) = max_fid /\ ~(FrameOf(q) <= min_fid)
      <4>1. m = max_fid
        BY <1>2, <1>4, <1>5, <3>3
      <4>2. frames[m] = PacketsOf(m) /\ m \in Fids
        BY <1>2, <1>4, <3>3, <4>1
      <4>3. q \in PacketsOf(m)
        BY <3>3, <4>1, FrameOfPacket
      <4>4. q \in received
        BY <4>2, <4>3 DEF ReceiverInv, HeldArrived
      <4> QED BY <4>4 DEF ReceiverInv, HeldArrived
    <3> QED BY <1>2, <1>4, <1>5, <3>1, <3>2, <3>3
  <2> QED BY <1>1, <1>2, <1>3, <2>1, <2>2 DEF PositionSeen
<1>11. MinSeqBehind'
  BY <1>3 DEF MinSeqBehind
<1>12. NextDecodable'
  <2>1. CASE played' = m
    BY <1>1, <1>3, <1>6, <2>1 DEF NextDecodable
  <2>2. CASE played' = played /\ m = min_fid
    BY <1>1, <1>3, <2>2 DEF ReceiverInv, NextDecodable
  <2>3. CASE m + 1 \in Fids /\ IsKey(m + 1)
    BY <1>1, <1>3, <1>6, <2>3 DEF NextDecodable
  <2> QED BY <1>2, <2>1, <2>2, <2>3
<1>13. LossIsMissing'
  BY <1>1 DEF ReceiverInv, LossIsMissing
<1>14. \A q \in Pids : FrameOf(q) > m => FrameOf(q) > min_fid
  BY <1>2, <1>4, <1>5
<1>15. NothingForgotten' /\ BaseIsSafe'
  BY <1>1, <1>3, <1>14 DEF ReceiverInv, NothingForgotten, BaseIsSafe
<1> QED BY <1>7, <1>8, <1>9, <1>10, <1>11, <1>12, <1>13, <1>15 DEF ReceiverInv

-----------------------------------------------------------------------------
(* The theorems *)

\* A step that changes neither the maps nor the ring.
LEMMA QuietInv ==
    ASSUME ReceiverInv, UNCHANGED <<losses, cache, clock, resets, history>>,
           busy' \in {"no", "put", "fec"}, slow' \in BOOLEAN
    PROVE  ReceiverInv'
<1>1. UNCHANGED <<base, max_seq, max_ts, loss, frames, touched, min_seq, min_fid, max_fid,
                  play_frame_ts, frame_ts, playing, resets, received, dropped, played>>
  BY DEF losses, cache, clock, history
<1>2. TypeOK'
  BY <1>1 DEF ReceiverInv, TypeOK
<1> QED BY <1>1, <1>2 DEF ReceiverInv, Fresh, HeldArrived, PositionSeen, MinSeqBehind,
              NextDecodable, LossIsMissing, NothingForgotten, BaseIsSafe

LEMMA ResetInv ==
    ASSUME ReceiverInv, Reset
    PROVE  ReceiverInv'
<1> USE DEF Reset
<1>1. \A q \in Pids : q \in Nat \ {0} /\ FrameOf(q) \in Nat \ {0}
  BY Pids1, FrameIds, FrameOfPacket
<1>2. TypeOK'
  <2>1. frames' \in [Fids -> SUBSET Pids] /\ \A f \in Fids : frames'[f] \subseteq PacketsOf(f)
    OBVIOUS
  <2>2. playing' \in BOOLEAN
    BY Zenon
  <2>3. resets \in Nat
    BY Types DEF ReceiverInv
  <2>4. touched \subseteq Fids /\ busy \in {"no", "put", "fec"} /\ slow \in BOOLEAN
    BY DEF ReceiverInv, TypeOK
  <2> QED BY <2>1, <2>2, <2>3, <2>4 DEF TypeOK
<1>3. Fresh' /\ HeldArrived'
  BY DEF Fresh, HeldArrived
<1>4. PositionSeen' /\ MinSeqBehind' /\ NextDecodable'
  BY <1>1 DEF PositionSeen, MinSeqBehind, NextDecodable
<1>5. LossIsMissing' /\ NothingForgotten' /\ BaseIsSafe'
  BY <1>1 DEF LossIsMissing, NothingForgotten, BaseIsSafe
<1> QED BY <1>2, <1>3, <1>4, <1>5 DEF ReceiverInv

LEMMA StepInv == ReceiverInv /\ [Next]_vars => ReceiverInv'
<1> SUFFICES ASSUME ReceiverInv, [Next]_vars PROVE ReceiverInv'
  OBVIOUS
<1>1. busy \in {"no", "put", "fec"} /\ slow \in BOOLEAN
  BY DEF ReceiverInv, TypeOK
<1>2. ASSUME NEW p \in Pids, Put(p) PROVE ReceiverInv'
  BY <1>2, TakeInInv DEF Put
<1>3. ASSUME NEW p \in Pids, Recover(p) PROVE ReceiverInv'
  BY <1>1, <1>3, TakeInInv DEF Recover
<1>4. CASE PutFec
  BY <1>1, <1>4, QuietInv DEF PutFec
<1>5. CASE EndsQuietly
  BY <1>1, <1>5, QuietInv DEF EndsQuietly
<1>6. CASE PutEnds \/ Timer
  BY <1>6, AcknowledgeInv DEF PutEnds, Timer
<1>7. CASE Get
  BY <1>7, GetInv
<1>8. CASE Reset
  BY <1>8, ResetInv
<1>9. CASE RttChanges
  <2>1. slow' \in BOOLEAN
    BY <1>9, ReceiverAssumption DEF RttChanges
  <2> QED BY <1>1, <1>9, <2>1, QuietInv DEF RttChanges
<1>10. CASE UNCHANGED vars
  BY <1>1, <1>10, QuietInv DEF vars, losses, cache, clock, history
<1> QED BY <1>2, <1>3, <1>4, <1>5, <1>6, <1>7, <1>8, <1>9, <1>10 DEF Next

\* The invariant holds in every state the receiver can be in.
THEOREM ReceiverConsistent == Spec => []ReceiverInv
BY InitInv, StepInv, PTL DEF Spec

\* Every state of the receiver is well typed.
THEOREM TypeCorrect == Spec => []TypeOK
<1>1. ReceiverInv => TypeOK
  BY DEF ReceiverInv
<1> QED BY <1>1, ReceiverConsistent, PTL

\* Nothing is asked for again that has arrived (sim_receiver_update_loss).
THEOREM LossTruthful == Spec => []LossIsMissing
<1>1. ReceiverInv => LossIsMissing
  BY DEF ReceiverInv
<1> QED BY <1>1, ReceiverConsistent, PTL

\* No gap below the latest packet is lost from sight (sim_receiver_update_loss,
\* video_real_update_base, real_video_clean_frame).
THEOREM GapsKnown == Spec => []NothingForgotten
<1>1. ReceiverInv => NothingForgotten
  BY DEF ReceiverInv
<1> QED BY <1>1, ReceiverConsistent, PTL

\* The base never covers a packet that is still waited for, so that the sender
\* may forget what is below it (video_real_update_base).
THEOREM BaseSafe == Spec => []BaseIsSafe
<1>1. ReceiverInv => BaseIsSafe
  BY DEF ReceiverInv
<1> QED BY <1>1, ReceiverConsistent, PTL

\* What the player may see of a step: packets arrive, a frame is shown, the
\* call starts again, or nothing.
LEMMA StepPlays ==
    ReceiverInv /\ [Next]_vars
        => [Playback!Arrive \/ Playback!Play \/ Playback!Restart]_(Playback!playbackVars)
<1> SUFFICES ASSUME ReceiverInv, [Next]_vars
             PROVE  \/ Playback!Arrive \/ Playback!Play \/ Playback!Restart
                    \/ UNCHANGED <<received, played>>
  BY DEF Playback!playbackVars
<1>1. ASSUME NEW p \in Pids, TakeIn(p) PROVE Playback!Arrive
  <2>1. played' = played
    BY <1>1 DEF TakeIn
  <2>2. CASE Stores(p)
    <3>1. received' = received \union {p} /\ {p} \in SUBSET Pids
      BY <1>1, <2>2 DEF TakeIn, Store
    <3> QED BY <2>1, <3>1 DEF Playback!Arrive, Pids
  <2>3. CASE ~Stores(p)
    <3>1. received' = received \union {} /\ {} \in SUBSET Pids
      BY <1>1, <2>3 DEF TakeIn
    <3> QED BY <2>1, <3>1 DEF Playback!Arrive, Pids
  <2> QED BY <2>2, <2>3
<1>2. CASE \E p \in Pids : Put(p) \/ Recover(p)
  BY <1>1, <1>2 DEF Put, Recover
<1>3. CASE Get
  <2>1. received' = received
    BY <1>3, GetFacts
  <2>2. PICK m \in Fids \union {0} :
           \/ played' = played
           \/ /\ played' = m /\ m \in Fids /\ m > played
              /\ IsKey(m) \/ m = played + 1
              /\ frames[m] = PacketsOf(m)
    BY <1>3, GetFacts
  <2>3. CASE played' = played
    BY <2>1, <2>3
  <2>4. CASE /\ played' = m /\ m \in Fids /\ m > played
             /\ IsKey(m) \/ m = played + 1
             /\ frames[m] = PacketsOf(m)
    <3>1. PacketsOf(m) \subseteq received
      BY <2>4 DEF ReceiverInv, HeldArrived
    <3>2. Playback!Play
      BY <2>1, <2>4, <3>1 DEF Playback!Play
    <3> QED BY <3>2
  <2> QED BY <2>2, <2>3, <2>4
<1>4. CASE Reset
  BY <1>4 DEF Reset, Playback!Restart
<1>5. CASE PutFec \/ PutEnds \/ EndsQuietly \/ Timer \/ RttChanges \/ UNCHANGED vars
  BY <1>5 DEF PutFec, PutEnds, EndsQuietly, Timer, RttChanges, Acknowledge, history, vars
<1> QED BY <1>2, <1>3, <1>4, <1>5 DEF Next

\* Frames come out whole, in order and decodable, whatever is lost, repaired,
\* given up or started again (real_video_cache_get, evict_gop_frame).
THEOREM ReceiverImplementsPlayback == Spec => ImplementsPlayback
<1>1. Init => Playback!PlaybackInit
  BY DEF Init, Playback!PlaybackInit
<1>2. Spec => []ReceiverInv
  BY ReceiverConsistent
<1> QED BY <1>1, <1>2, StepPlays, PTL DEF Spec, ImplementsPlayback, Playback!PlaybackPromise
=============================================================================
