---------------------------- MODULE Pacer_proofs ----------------------------
(***************************************************************************)
(* Machine-checked proofs about the pacer, for every value of its          *)
(* constants: the queue's structure, the packet it answers with, the rate  *)
(* it keeps, and that it implements PacerSpec.                             *)
(***************************************************************************)
EXTENDS Pacer, FiniteSetTheorems, SequenceTheorems, WellFoundedInduction, TLAPS

\* A nonempty set of naturals has a least element: the library says so for a
\* predicate, which is no use to a first-order prover.
LEMMA LeastNat ==
    ASSUME NEW T \in SUBSET Nat, T # {}
    PROVE  \E x \in T : \A y \in T : x <= y
<1> DEFINE Less == {ss \in Nat \X Nat : ss[1] < ss[2]}
<1>1. IsWellFoundedOn(Less, Nat)
  BY NatLessThanWellFounded DEF OpToRel
<1>2. PICK x \in T : \A y \in T : ~(<<y, x>> \in Less)
  <2> HIDE DEF Less
  <2> QED BY <1>1, WFMin
<1>3. \A y \in T : ~(y < x)
  BY <1>2
<1> QED BY <1>3

\* What Front answers when a packet waits: the waiting one of the smallest id.
LEMMA FrontIsLeast ==
    ASSUME NEW c, DOMAIN c \subseteq Nat, Unsent(c) # {}
    PROVE  /\ Front(c) \in Unsent(c)
           /\ \A t \in Unsent(c) : Front(c) <= t
<1>1. Unsent(c) \in SUBSET Nat
  BY DEF Unsent
<1>2. \E s \in Unsent(c) : \A t \in Unsent(c) : s <= t
  BY <1>1, LeastNat
<1> QED BY <1>2 DEF Front

\* SentPrefix counts the sent packets at the head: all of them are sent, and
\* the next one, if any, is not.
LEMMA SentPrefixIsMaximal ==
    ASSUME NEW S, NEW c, NEW l \in Seq(S)
    PROVE  /\ SentPrefix(c, l) \in 0 .. Len(l)
           /\ \A i \in 1 .. SentPrefix(c, l) : c[l[i]].sent
           /\ SentPrefix(c, l) < Len(l) => ~c[l[SentPrefix(c, l) + 1]].sent
<1> DEFINE Live == {i \in 1 .. Len(l) : ~c[l[i]].sent}
<1>1. Len(l) \in Nat
  BY LenProperties
<1>2. CASE Live = {}
  <2>1. \A i \in 1 .. Len(l) : c[l[i]].sent
    BY <1>2
  <2> QED BY <1>1, <2>1 DEF SentPrefix
<1>3. CASE Live # {}
  <2>1. Live \in SUBSET Nat
    BY <1>1
  <2>2. PICK i \in Live : \A j \in Live : i <= j
    <3> HIDE DEF Live
    <3> QED BY <1>3, <2>1, LeastNat
  <2> DEFINE P(k) == ~c[l[k]].sent /\ \A j \in 1 .. (k - 1) : c[l[j]].sent
  <2>3. i \in 1 .. Len(l) /\ P(i)
    BY <1>1, <2>2
  <2> DEFINE k == CHOOSE m \in 1 .. Len(l) : P(m)
  <2>4. k \in 1 .. Len(l) /\ P(k)
    <3> HIDE DEF P
    <3> QED BY <2>3
  <2>5. SentPrefix(c, l) = k - 1
    <3>1. ~(\A m \in 1 .. Len(l) : c[l[m]].sent)
      BY <2>3
    <3> QED BY <3>1 DEF SentPrefix
  <2> HIDE DEF k
  <2> QED BY <1>1, <2>4, <2>5
<1> QED BY <1>2, <1>3

-----------------------------------------------------------------------------
(* The structure of the queue *)

\* A map the queue may hold: the kept packets, with any of them marked sent.
MapOver(c) ==
    /\ DOMAIN c = DOMAIN cache
    /\ c \in [DOMAIN c -> [que_ts : Nat, sent : BOOLEAN]]
    /\ \A s \in DOMAIN c : c[s].que_ts = cache[s].que_ts

\* pacer_queue_final keeps the structure, restores the unsent head and drops
\* no packet that waits.
LEMMA FinalStep ==
    ASSUME QueueInv, NEW c, MapOver(c), NEW t \in Nat, Final(c, t), now' = now
    PROVE  /\ list' \in Seq(Seqs)
           /\ DOMAIN cache' \subseteq Seqs
           /\ cache' \in [DOMAIN cache' -> [que_ts : Nat, sent : BOOLEAN]]
           /\ total_size' \in Nat
           /\ oldest_ts' \in Nat \union {-1}
           /\ ListMatchesCache'
           /\ HeadUnsent'
           /\ ArrivalOrder'
           /\ list' = << >> => oldest_ts' = -1
           /\ list' # << >> => oldest_ts' = cache'[list'[1]].que_ts
           /\ Unsent(cache') = Unsent(c)
<1> DEFINE n    == SentPrefix(c, list)
           kept == SubSeq(list, n + 1, Len(list))
           gone == {list[i] : i \in 1 .. n}
           left == [s \in DOMAIN c \ gone |-> c[s]]
<1>1. list \in Seq(Seqs) /\ Len(list) \in Nat
  BY LenProperties DEF QueueInv, TypeOK
<1>2. /\ n \in 0 .. Len(list)
      /\ \A i \in 1 .. n : c[list[i]].sent
      /\ n < Len(list) => ~c[list[n + 1]].sent
  BY <1>1, SentPrefixIsMaximal
<1>3. /\ list' = kept
      /\ cache' = IF kept = << >> THEN << >> ELSE left
      /\ total_size' = IF kept = << >> THEN 0 ELSE t
      /\ oldest_ts' = IF kept = << >> THEN -1 ELSE c[kept[1]].que_ts
  BY DEF Final
<1> HIDE DEF n
<1>4. /\ kept \in Seq(Seqs)
      /\ Len(kept) = Len(list) - n
      /\ \A i \in 1 .. Len(kept) : kept[i] = list[n + i]
  <2>1. \A i \in (n + 1) .. Len(list) : list[i] \in Seqs
    BY <1>1, <1>2, ElementOfSeq
  <2> QED BY <1>1, <1>2, <2>1, SubSeqProperties
<1>5. kept = << >> <=> n = Len(list)
  <2>1. kept = << >> <=> Len(kept) = 0
    BY <1>4, EmptySeq
  <2> QED BY <1>1, <1>2, <1>4, <2>1
<1>6. /\ \A i \in 1 .. Len(list) : list[i] \in DOMAIN c
      /\ \A s \in DOMAIN c : \E i \in 1 .. Len(list) : list[i] = s
      /\ \A i, j \in 1 .. Len(list) : list[i] = list[j] => i = j
  BY DEF QueueInv, ListMatchesCache, MapOver
<1> HIDE DEF kept
<1>7. DOMAIN left = {kept[i] : i \in 1 .. Len(kept)}
  <2>1. ASSUME NEW s \in DOMAIN left PROVE \E i \in 1 .. Len(kept) : kept[i] = s
    <3>1. PICK i \in 1 .. Len(list) : list[i] = s
      BY <1>6
    <3>2. ~(i \in 1 .. n)
      BY <3>1
    <3>3. i - n \in 1 .. Len(kept) /\ kept[i - n] = s
      BY <1>1, <1>2, <1>4, <3>1, <3>2
    <3> QED BY <3>3
  <2>2. ASSUME NEW i \in 1 .. Len(kept) PROVE kept[i] \in DOMAIN left
    <3>1. n + i \in 1 .. Len(list) /\ kept[i] = list[n + i]
      BY <1>1, <1>2, <1>4
    <3>2. ASSUME NEW j \in 1 .. n, list[j] = list[n + i] PROVE FALSE
      <4>1. j \in 1 .. Len(list) /\ j # n + i
        BY <1>1, <1>2
      <4> QED BY <1>6, <3>1, <3>2, <4>1
    <3> QED BY <1>6, <3>1, <3>2
  <2> QED BY <2>1, <2>2
<1>8. CASE kept = << >>
  <2>1. \A s \in DOMAIN c : c[s].sent
    BY <1>2, <1>5, <1>6, <1>8
  <2>2. list' = << >> /\ cache' = << >> /\ total_size' = 0 /\ oldest_ts' = -1
    BY <1>3, <1>8
  <2>3. DOMAIN cache' = {} /\ Len(list') = 0
    BY <2>2
  <2>4. Unsent(cache') = Unsent(c)
    BY <2>1, <2>3 DEF Unsent
  <2>5. cache' \in [DOMAIN cache' -> [que_ts : Nat, sent : BOOLEAN]]
    BY <2>2, <2>3
  <2> QED BY <1>4, <2>2, <2>3, <2>4, <2>5, <1>3 DEF ListMatchesCache, HeadUnsent, ArrivalOrder
<1>9. CASE kept # << >>
  <2>1. list' = kept /\ cache' = left /\ total_size' = t /\ oldest_ts' = c[kept[1]].que_ts
    BY <1>3, <1>9
  <2>2. /\ 1 \in 1 .. Len(kept)
        /\ n < Len(list)
        /\ kept[1] = list[n + 1]
    BY <1>1, <1>2, <1>4, <1>5, <1>9
  <2>3. DOMAIN left \subseteq DOMAIN c /\ \A s \in DOMAIN left : left[s] = c[s]
    OBVIOUS
  <2>4. /\ DOMAIN cache' \subseteq Seqs
        /\ cache' \in [DOMAIN cache' -> [que_ts : Nat, sent : BOOLEAN]]
    BY <2>1, <2>3 DEF MapOver, QueueInv, TypeOK
  <2>5. kept[1] \in DOMAIN left
    BY <1>7, <2>2
  <2>6. oldest_ts' \in Nat /\ oldest_ts' = cache'[list'[1]].que_ts
    BY <2>1, <2>3, <2>5 DEF MapOver
  <2>7. ListMatchesCache'
    <3>1. \A i \in 1 .. Len(kept) : kept[i] \in DOMAIN left
      BY <1>7
    <3>2. \A s \in DOMAIN left : \E i \in 1 .. Len(kept) : kept[i] = s
      BY <1>7
    <3>3. ASSUME NEW i \in 1 .. Len(kept), NEW j \in 1 .. Len(kept), kept[i] = kept[j]
          PROVE  i = j
      <4>1. n + i \in 1 .. Len(list) /\ n + j \in 1 .. Len(list)
        BY <1>1, <1>2, <1>4
      <4>2. list[n + i] = list[n + j]
        BY <1>4, <3>3
      <4>3. n + i = n + j
        BY <1>6, <4>1, <4>2
      <4> QED BY <1>2, <4>3
    <3> QED BY <2>1, <3>1, <3>2, <3>3 DEF ListMatchesCache
  <2>8. HeadUnsent'
    BY <1>2, <2>1, <2>2, <2>3, <2>5 DEF HeadUnsent
  <2>9. ArrivalOrder'
    <3>1. ASSUME NEW i \in 1 .. Len(kept), NEW j \in 1 .. Len(kept), i <= j
          PROVE  left[kept[i]].que_ts <= left[kept[j]].que_ts
      <4>1. n + i \in 1 .. Len(list) /\ n + j \in 1 .. Len(list) /\ n + i <= n + j
        BY <1>1, <1>2, <1>4, <3>1
      <4>2. cache[list[n + i]].que_ts <= cache[list[n + j]].que_ts
        BY <4>1 DEF QueueInv, ArrivalOrder
      <4>3. kept[i] \in DOMAIN left /\ kept[j] \in DOMAIN left
        BY <1>7
      <4> QED BY <1>4, <2>3, <4>2, <4>3 DEF MapOver
    <3>2. \A s \in DOMAIN left : left[s].que_ts <= now
      BY <2>3 DEF MapOver, QueueInv, ArrivalOrder
    <3> QED BY <2>1, <3>1, <3>2 DEF ArrivalOrder
  <2>10. Unsent(cache') = Unsent(c)
    <3>1. ASSUME NEW s \in Unsent(c) PROVE s \in DOMAIN left
      <4>1. s \in DOMAIN c /\ ~c[s].sent
        BY DEF Unsent
      <4>2. ~(s \in gone)
        BY <1>2, <4>1
      <4> QED BY <4>1, <4>2
    <3> QED BY <2>1, <2>3, <3>1 DEF Unsent
  <2>11. list' # << >> /\ list' \in Seq(Seqs) /\ total_size' \in Nat
    BY <1>4, <1>9, <2>1
  <2> QED BY <2>4, <2>6, <2>7, <2>8, <2>9, <2>10, <2>11
<1> QED BY <1>8, <1>9

\* A kept packet means one that waits, and it is what the loop transmits next.
LEMMA FrontWaits ==
    ASSUME QueueInv, DOMAIN cache # {}
    PROVE  /\ Front(cache) \in DOMAIN cache
           /\ Front(cache) \in Unsent(cache)
           /\ \A t \in Unsent(cache) : Front(cache) <= t
<1>1. list # << >>
  <2>1. list = << >> => Len(list) = 0
    BY EmptySeq
  <2> QED BY <2>1 DEF QueueInv, ListMatchesCache
<1>2. Len(list) \in Nat \ {0}
  BY <1>1, EmptySeq DEF QueueInv, TypeOK
<1>3. list[1] \in Unsent(cache)
  BY <1>1, <1>2 DEF QueueInv, ListMatchesCache, HeadUnsent, Unsent
<1>4. DOMAIN cache \subseteq Nat
  BY SizesAssumption DEF QueueInv, TypeOK
<1> QED BY <1>3, <1>4, FrontIsLeast DEF Unsent

\* Refill computes a budget from naturals only.
LEMMA RefillType ==
    ASSUME NEW rate \in Nat, NEW elapsed \in Nat, QueueInv, Refill(rate, elapsed)
    PROVE  max_bytes' \in Nat /\ remaining' \in Int /\ lead' \in Int
<1>1. WindowMs * rate \in Nat /\ rate * elapsed \in Nat
  BY RatesAssumption
<1>2. (WindowMs * rate) \div 8 \in Nat /\ (rate * elapsed) \div 8 \in Nat
  BY <1>1
<1> DEFINE max   == (WindowMs * rate) \div 8
           bytes == (rate * elapsed) \div 8
           carry == MinOf(MaxOf(-max, remaining), max)
<1>3. /\ max_bytes' = max
      /\ remaining' = MinOf(IF carry < 0 THEN carry + bytes ELSE bytes, max)
      /\ lead' = lead - bytes
  BY DEF Refill
<1>4. max \in Nat /\ bytes \in Nat /\ remaining \in Int /\ lead \in Int
  BY <1>2 DEF QueueInv, TypeOK
<1> HIDE DEF max, bytes
<1>5. carry \in Int
  BY <1>4 DEF MinOf, MaxOf
<1> HIDE DEF carry
<1> QED BY <1>3, <1>4, <1>5 DEF MinOf

\* The rate the queue asks for is a natural number: no division by zero.
LEMMA QueueTargetType ==
    ASSUME QueueInv
    PROVE  QueueTarget \in Nat
<1> DEFINE space == IF oldest_ts # -1 /\ now > oldest_ts
                    THEN IF now - oldest_ts >= MaxQueMs
                         THEN OverdueMs ELSE MaxQueMs - (now - oldest_ts)
                    ELSE MaxQueMs - 1
<1>1. space \in Nat \ {0}
  <2>1. MaxQueMs \in Nat /\ MaxQueMs > 1 /\ OverdueMs \in Nat \ {0}
    BY RatesAssumption
  <2>2. now \in Nat /\ oldest_ts \in Int
    BY DEF QueueInv, TypeOK
  <2> QED BY <2>1, <2>2
<1>2. total_size * 8 \in Nat
  BY DEF QueueInv, TypeOK
<1>3. QueueTarget = IF cache # << >> /\ total_size > 0 THEN (total_size * 8) \div space ELSE 0
  BY DEF QueueTarget
<1> HIDE DEF space
<1>4. (total_size * 8) \div space \in Nat
  BY <1>1, <1>2
<1> QED BY <1>3, <1>4

\* The queue's books agree in every state (pacer_queue.c:52-127).
THEOREM QueueConsistent == Spec => []QueueInv
<1>1. Init => QueueInv
  <2> SUFFICES ASSUME Init PROVE QueueInv
    OBVIOUS
  <2>1. list = << >> /\ cache = << >> /\ Len(list) = 0 /\ DOMAIN cache = {}
    BY EmptySeq DEF Init
  <2>2. MinRateKbps * PaceFactor \in Nat
    BY RatesAssumption
  <2>3. TypeOK
    <3>1. cache \in [DOMAIN cache -> [que_ts : Nat, sent : BOOLEAN]]
      BY <2>1
    <3>2. list \in Seq(Seqs)
      BY <2>1, EmptySeq
    <3> QED BY <2>1, <2>2, <3>1, <3>2 DEF Init, TypeOK
  <2> QED BY <2>1, <2>3 DEF Init, QueueInv, ListMatchesCache, HeadUnsent, ArrivalOrder
<1>2. QueueInv /\ [Next]_vars => QueueInv'
  <2> SUFFICES ASSUME QueueInv, [Next]_vars PROVE QueueInv'
    OBVIOUS
  <2> USE SizesAssumption
  <2>1. ASSUME NEW s \in Seqs, Insert(s) PROVE QueueInv'
    <3>1. Push(s) /\ UNCHANGED <<pacing_kbps, max_bytes, remaining, last_update_ts, phase,
                                 last, now, lead>>
      BY <2>1 DEF Insert
    <3>2. SizeOf[s] \in Nat /\ Len(list) \in Nat
      BY LenProperties DEF QueueInv, TypeOK
    <3>3. CASE s \notin DOMAIN cache
      <4> DEFINE new == [t \in DOMAIN cache \union {s} |->
                           IF t = s THEN [que_ts |-> now, sent |-> FALSE] ELSE cache[t]]
      <4>1. /\ cache' = new
            /\ list' = Append(list, s)
            /\ total_size' = total_size + SizeOf[s]
            /\ oldest_ts' = IF oldest_ts = -1 \/ oldest_ts > now THEN now ELSE oldest_ts
        BY <3>1, <3>3 DEF Push
      <4>2. /\ list' \in Seq(Seqs)
            /\ Len(list') = Len(list) + 1
            /\ \A i \in 1 .. Len(list) : list'[i] = list[i]
            /\ list'[Len(list) + 1] = s
            /\ list' # << >>
        <5>1. list \in Seq(Seqs)
          BY DEF QueueInv, TypeOK
        <5>2. /\ list' \in Seq(Seqs)
              /\ Len(list') = Len(list) + 1
              /\ \A i \in 1 .. Len(list) : list'[i] = list[i]
              /\ list'[Len(list) + 1] = s
          BY <4>1, <5>1, AppendProperties
        <5>3. list' # << >>
          BY <3>2, <5>2, EmptySeq
        <5> QED BY <5>2, <5>3
      <4>3. /\ DOMAIN new = DOMAIN cache \union {s}
            /\ new[s].que_ts = now
            /\ ~new[s].sent
            /\ \A t \in DOMAIN cache : new[t] = cache[t]
            /\ new \in [DOMAIN new -> [que_ts : Nat, sent : BOOLEAN]]
        BY <3>3 DEF QueueInv, TypeOK
      <4> HIDE DEF new
      <4>4. ListMatchesCache'
        <5> USE <3>2 DEF ListMatchesCache, QueueInv
        <5>1. ASSUME NEW i \in 1 .. Len(list') PROVE list'[i] \in DOMAIN cache'
          <6>1. CASE i \in 1 .. Len(list)
            BY <4>1, <4>2, <4>3, <6>1
          <6>2. CASE i = Len(list) + 1
            BY <4>1, <4>2, <4>3, <6>2
          <6> QED BY <4>2, <6>1, <6>2
        <5>2. \A t \in DOMAIN cache' : \E i \in 1 .. Len(list') : list'[i] = t
          <6>1. ASSUME NEW t \in DOMAIN cache PROVE \E i \in 1 .. Len(list') : list'[i] = t
            <7>1. PICK i \in 1 .. Len(list) : list[i] = t
              OBVIOUS
            <7>2. i \in 1 .. Len(list') /\ list'[i] = t
              BY <4>2, <7>1
            <7> QED BY <7>2
          <6>2. Len(list) + 1 \in 1 .. Len(list')
            BY <4>2
          <6> QED BY <4>1, <4>2, <4>3, <6>1, <6>2
        <5>3. ASSUME NEW i \in 1 .. Len(list'), NEW j \in 1 .. Len(list'), list'[i] = list'[j]
              PROVE  i = j
          <6>1. \A k \in 1 .. Len(list) : list'[k] \in DOMAIN cache /\ list'[k] # s
            BY <3>3, <4>2
          <6>2. \A k \in 1 .. Len(list') : k \in 1 .. Len(list) \/ k = Len(list) + 1
            BY <4>2
          <6> QED BY <4>2, <5>3, <6>1, <6>2
        <5> QED BY <5>1, <5>2, <5>3
      <4>5. \A i \in 1 .. Len(list) : list[i] \in DOMAIN cache /\ list'[i] = list[i]
        BY <4>2 DEF QueueInv, ListMatchesCache
      <4>6. HeadUnsent'
        <5>1. CASE list = << >>
          BY <4>1, <4>2, <4>3, <5>1, EmptySeq DEF HeadUnsent
        <5>2. CASE list # << >>
          <6>1. 1 \in 1 .. Len(list)
            BY <5>2, EmptySeq DEF QueueInv, TypeOK
          <6> QED BY <4>1, <4>2, <4>3, <4>5, <5>2, <6>1 DEF HeadUnsent, QueueInv
        <5> QED BY <5>1, <5>2
      <4>7. ArrivalOrder'
        <5>1. ASSUME NEW i \in 1 .. Len(list'), NEW j \in 1 .. Len(list'), i <= j
              PROVE  new[list'[i]].que_ts <= new[list'[j]].que_ts
          <6>1. CASE j = Len(list) + 1
            <7>1. CASE i = j
              BY <3>1, <4>2, <4>3, <6>1, <7>1 DEF QueueInv, TypeOK
            <7>2. CASE i # j
              <8>1. i \in 1 .. Len(list)
                BY <3>2, <4>2, <5>1, <6>1, <7>2
              <8> QED BY <4>2, <4>3, <4>5, <6>1, <8>1 DEF QueueInv, ArrivalOrder
            <7> QED BY <7>1, <7>2
          <6>2. CASE j # Len(list) + 1
            <7>1. i \in 1 .. Len(list) /\ j \in 1 .. Len(list)
              BY <3>2, <4>2, <5>1, <6>2
            <7> QED BY SMTT(30), <4>3, <4>5, <5>1, <7>1 DEF QueueInv, ArrivalOrder
          <6> QED BY <6>1, <6>2
        <5>2. \A t \in DOMAIN new : new[t].que_ts <= now
          BY <4>3 DEF QueueInv, ArrivalOrder, TypeOK
        <5> QED BY <3>1, <4>1, <5>1, <5>2 DEF ArrivalOrder
      <4>8. oldest_ts' = new[list'[1]].que_ts /\ oldest_ts' \in Nat
        <5>1. CASE list = << >>
          BY <4>1, <4>2, <4>3, <5>1, EmptySeq DEF QueueInv, TypeOK
        <5>2. CASE list # << >>
          <6>1. 1 \in 1 .. Len(list)
            BY <5>2, EmptySeq DEF QueueInv, TypeOK
          <6>2. cache[list[1]].que_ts <= now /\ cache[list[1]].que_ts \in Nat
            BY <4>5, <6>1 DEF QueueInv, ArrivalOrder, TypeOK
          <6>3. oldest_ts = cache[list[1]].que_ts /\ now \in Nat
            BY <5>2 DEF QueueInv, TypeOK
          <6>4. oldest_ts' = oldest_ts
            BY <4>1, <6>2, <6>3
          <6>5. new[list'[1]] = cache[list[1]]
            BY <4>3, <4>5, <6>1
          <6> QED BY <6>2, <6>3, <6>4, <6>5
        <5> QED BY <5>1, <5>2
      <4>9. TypeOK'
        <5>1. DOMAIN cache' \subseteq Seqs
          BY <4>1, <4>3 DEF QueueInv, TypeOK
        <5>2. cache' \in [DOMAIN cache' -> [que_ts : Nat, sent : BOOLEAN]]
          BY <4>1, <4>3
        <5>3. total_size' \in Nat
          BY SMTT(30), <3>2, <4>1 DEF QueueInv, TypeOK
        <5> QED BY <3>1, <4>1, <4>2, <4>8, <5>1, <5>2, <5>3 DEF QueueInv, TypeOK
      <4> QED BY <4>1, <4>2, <4>4, <4>6, <4>7, <4>8, <4>9 DEF QueueInv
    <3>4. CASE s \in DOMAIN cache
      <4>1. /\ list' = list
            /\ total_size' \in Nat
            /\ DOMAIN cache' = DOMAIN cache
            /\ cache' \in [DOMAIN cache' -> [que_ts : Nat, sent : BOOLEAN]]
            /\ \A t \in DOMAIN cache : /\ cache'[t].que_ts = cache[t].que_ts
                                       /\ cache'[t].sent => cache[t].sent
        <5> USE <3>1, <3>2, <3>4 DEF Push
        <5>1. list' = list
          OBVIOUS
        <5>2. total_size' \in Nat
          BY DEF QueueInv, TypeOK
        <5>3. cache \in [DOMAIN cache -> [que_ts : Nat, sent : BOOLEAN]]
          BY DEF QueueInv, TypeOK
        <5>4. cache' = [cache EXCEPT ![s].sent = FALSE] \/ cache' = cache
          OBVIOUS
        <5> HIDE DEF Push
        <5>5. DOMAIN cache' = DOMAIN cache
          BY <5>3, <5>4
        <5>6. cache' \in [DOMAIN cache -> [que_ts : Nat, sent : BOOLEAN]]
          BY <5>3, <5>4
        <5>7. \A t \in DOMAIN cache : /\ cache'[t].que_ts = cache[t].que_ts
                                      /\ cache'[t].sent => cache[t].sent
          BY <5>3, <5>4
        <5> QED BY <5>1, <5>2, <5>5, <5>6, <5>7
      <4>2. list # << >> /\ 1 \in 1 .. Len(list) /\ list[1] \in DOMAIN cache
        <5>1. list \in Seq(Seqs) /\ ListMatchesCache
          BY DEF QueueInv, TypeOK
        <5>2. PICK i \in 1 .. Len(list) : list[i] = s
          BY <3>4, <5>1 DEF ListMatchesCache
        <5>3. Len(list) \in Nat
          BY <5>1, LenProperties
        <5>4. 1 \in 1 .. Len(list) /\ Len(list) # 0
          BY <5>2, <5>3
        <5>5. list[1] \in DOMAIN cache
          BY <5>1, <5>4 DEF ListMatchesCache
        <5>6. list # << >>
          BY <5>1, <5>4, EmptySeq
        <5> QED BY <5>4, <5>5, <5>6
      <4>3. oldest_ts' = oldest_ts
        <5>1. oldest_ts \in Nat /\ oldest_ts <= now
          BY <4>2 DEF QueueInv, TypeOK, ArrivalOrder
        <5> QED BY SMTT(30), <3>1, <5>1 DEF Push, QueueInv, TypeOK
      <4>4. TypeOK'
        BY <3>1, <4>1, <4>3 DEF QueueInv, TypeOK
      <4>5. ListMatchesCache'
        BY <4>1 DEF QueueInv, ListMatchesCache
      <4>6. HeadUnsent'
        BY <4>1, <4>2 DEF QueueInv, HeadUnsent
      <4>7. ArrivalOrder'
        BY <3>1, <4>1 DEF QueueInv, ArrivalOrder, ListMatchesCache
      <4> QED BY <4>1, <4>2, <4>3, <4>4, <4>5, <4>6, <4>7 DEF QueueInv
    <3> QED BY <3>3, <3>4
  <2>2. ASSUME NEW e \in Estimates, SetEstimate(e) PROVE QueueInv'
    <3>1. MaxOf(e, MinRateKbps) * PaceFactor \in Nat
      BY RatesAssumption DEF MaxOf
    <3> QED BY <2>2, <3>1 DEF SetEstimate, queueVars, QueueInv, TypeOK, ListMatchesCache,
                              HeadUnsent, ArrivalOrder
  <2>3. CASE TransmitBegin
    <3> DEFINE rate    == MaxOf(pacing_kbps, IF total_size > 0 THEN QueueTarget ELSE 0)
               elapsed == MinOf(now - last_update_ts, MaxIntervalMs)
    <3>1. rate \in Nat /\ elapsed \in Nat
      <4>1. /\ now \in Nat /\ last_update_ts \in Nat /\ pacing_kbps \in Nat
            /\ QueueTarget \in Nat
            /\ MaxIntervalMs \in Nat /\ MinPacketLimitMs \in Nat
            /\ now - last_update_ts >= MinPacketLimitMs
        BY <2>3, QueueTargetType, RatesAssumption DEF TransmitBegin, QueueInv, TypeOK
      <4> QED BY <4>1 DEF MaxOf, MinOf
    <3>2. Refill(rate, elapsed)
      BY <2>3 DEF TransmitBegin
    <3> HIDE DEF rate, elapsed
    <3>3. max_bytes' \in Nat /\ remaining' \in Int /\ lead' \in Int
      BY <3>1, <3>2, RefillType
    <3>4. phase' \in {"idle", "sending"} /\ UNCHANGED <<queueVars, pacing_kbps,
                     last_update_ts, last, now>>
      BY <2>3 DEF TransmitBegin
    <3> QED BY <3>3, <3>4 DEF queueVars, QueueInv, TypeOK, ListMatchesCache,
                              HeadUnsent, ArrivalOrder
  <2>4. CASE TransmitPacket
    <3> DEFINE s == Front(cache)
               c == [cache EXCEPT ![s].sent = TRUE]
               t == IF total_size >= SizeOf[s] THEN total_size - SizeOf[s] ELSE 0
    <3>1. s \in DOMAIN cache
      BY <2>4, FrontWaits DEF TransmitPacket
    <3>2. /\ Final(c, t)
          /\ last' = s
          /\ lead' = lead + SizeOf[s]
          /\ UseBudget(SizeOf[s])
          /\ UNCHANGED <<pacing_kbps, max_bytes, last_update_ts, phase, now>>
      BY <2>4 DEF TransmitPacket, Sent
    <3> HIDE DEF s
    <3>3. SizeOf[s] \in Nat /\ s \in Seqs /\ t \in Nat
      BY SMTT(30), <3>1 DEF QueueInv, TypeOK
    <3>4. MapOver(c)
      BY <3>1 DEF MapOver, QueueInv, TypeOK
    <3>5. remaining' \in Int
      BY SMTT(30), <3>2, <3>3 DEF UseBudget, MaxOf, QueueInv, TypeOK
    <3> HIDE DEF c, t
    <3>6. /\ list' \in Seq(Seqs)
          /\ DOMAIN cache' \subseteq Seqs
          /\ cache' \in [DOMAIN cache' -> [que_ts : Nat, sent : BOOLEAN]]
          /\ total_size' \in Nat
          /\ oldest_ts' \in Nat \union {-1}
          /\ ListMatchesCache'
          /\ HeadUnsent'
          /\ ArrivalOrder'
          /\ list' = << >> => oldest_ts' = -1
          /\ list' # << >> => oldest_ts' = cache'[list'[1]].que_ts
      BY <3>2, <3>3, <3>4, FinalStep
    <3>7. TypeOK'
      <4>1. lead' \in Int
        BY SMTT(30), <3>2, <3>3 DEF QueueInv, TypeOK
      <4>2. last' \in Seqs
        BY <3>2, <3>3
      <4> QED BY <3>2, <3>5, <3>6, <4>1, <4>2 DEF QueueInv, TypeOK
    <3> QED BY <3>6, <3>7 DEF QueueInv
  <2>5. CASE TransmitEnd
    BY <2>5 DEF MaxOf, TransmitEnd, queueVars, budgetVars, QueueInv, TypeOK,
                ListMatchesCache, HeadUnsent, ArrivalOrder
  <2>6. CASE Tick
    BY SMTT(30), <2>6 DEF Tick, queueVars, budgetVars, QueueInv, TypeOK,
                ListMatchesCache, HeadUnsent, ArrivalOrder
  <2>7. CASE UNCHANGED vars
    BY <2>7 DEF vars, QueueInv, TypeOK, ListMatchesCache, HeadUnsent, ArrivalOrder
  <2> QED BY <2>1, <2>2, <2>3, <2>4, <2>5, <2>6, <2>7 DEF Next
<1> QED BY <1>1, <1>2, PTL DEF Spec

\* Every variable keeps its type, for any packets, sizes and rates.
THEOREM TypeCorrect == Spec => []TypeOK
<1>1. QueueInv => TypeOK
  BY DEF QueueInv
<1> QED BY <1>1, QueueConsistent, PTL

\* Map and list hold the same packets, each once: popping the list frees
\* every packet exactly once (pacer_queue_final, pacer_queue.c:107-116).
THEOREM ListConsistent == Spec => []ListMatchesCache
<1>1. QueueInv => ListMatchesCache
  BY DEF QueueInv
<1> QED BY <1>1, QueueConsistent, PTL

\* The oldest kept packet always waits, so pacer_queue_front never answers
\* with a packet already transmitted (pacer_queue.c:89-98).
THEOREM HeadAlwaysUnsent == Spec => []HeadUnsent
<1>1. QueueInv => HeadUnsent
  BY DEF QueueInv
<1> QED BY <1>1, QueueConsistent, PTL

\* oldest_ts is the arrival of the oldest kept packet (pacer_queue.c:74, 118-127).
THEOREM OldestCorrect == Spec => []OldestIsFirstArrival
<1>1. QueueInv => OldestIsFirstArrival
  <2> SUFFICES ASSUME QueueInv PROVE OldestIsFirstArrival
    OBVIOUS
  <2>1. ASSUME NEW s \in DOMAIN cache
        PROVE  oldest_ts <= cache[s].que_ts /\ cache[s].que_ts <= now
    <3>1. PICK i \in 1 .. Len(list) : list[i] = s
      BY DEF QueueInv, ListMatchesCache
    <3>2. list # << >> /\ Len(list) \in Nat /\ 1 \in 1 .. Len(list) /\ 1 <= i
      BY <3>1, EmptySeq DEF QueueInv, TypeOK
    <3> QED BY <3>1, <3>2 DEF QueueInv, ArrivalOrder
  <2> QED BY <2>1 DEF OldestIsFirstArrival, QueueInv
<1> QED BY <1>1, QueueConsistent, PTL

-----------------------------------------------------------------------------
(* Sums over finite sets.  SumFunctionOnSet(F, S) takes an arbitrary element  *)
(* of S, adds its value and goes on with the rest; the lemmas say that this  *)
(* is a sum: the order does not matter.                                      *)

First(s) == CHOOSE x \in s : TRUE

\* g is the partial sums of F on the sets of D.
SumsOn(F, D, g) == g = [s \in D |-> IF s = {} THEN 0 ELSE F[First(s)] + g[s \ {First(s)}]]

\* The partial sums up to each size exist, hence those on all subsets.
LEMMA SumsExist ==
    ASSUME NEW F, NEW S, IsFiniteSet(S)
    PROVE  \E g : SumsOn(F, SUBSET S, g)
<1> DEFINE D(n) == {s \in SUBSET S : Cardinality(s) <= n}
           Bad == {n \in Nat : ~\E g : SumsOn(F, D(n), g)}
<1>1. \A s \in SUBSET S : IsFiniteSet(s) /\ Cardinality(s) \in Nat
  BY FS_Subset, FS_CardinalityType
<1>2. \A s \in SUBSET S : s # {} => /\ First(s) \in s
                                    /\ s \ {First(s)} \in SUBSET S
                                    /\ Cardinality(s \ {First(s)}) = Cardinality(s) - 1
  <2> SUFFICES ASSUME NEW s \in SUBSET S, s # {}
               PROVE  /\ First(s) \in s
                      /\ s \ {First(s)} \in SUBSET S
                      /\ Cardinality(s \ {First(s)}) = Cardinality(s) - 1
    OBVIOUS
  <2>1. First(s) \in s
    BY DEF First
  <2> QED BY <1>1, <2>1, FS_RemoveElement
<1>3. ASSUME Bad # {} PROVE FALSE
  <2>1. PICK n \in Bad : \A m \in Bad : n <= m
    <3>1. Bad \in SUBSET Nat
      OBVIOUS
    <3> HIDE DEF Bad
    <3> QED BY <1>3, <3>1, LeastNat
  <2>2. n \in Nat /\ ~\E g : SumsOn(F, D(n), g)
    BY <2>1
  <2>3. CASE n = 0
    <3> DEFINE g == [s \in D(n) |-> 0]
    <3>1. \A s \in D(n) : s = {}
      <4> SUFFICES ASSUME NEW s \in D(n) PROVE s = {}
        OBVIOUS
      <4>1. IsFiniteSet(s) /\ Cardinality(s) \in Nat /\ Cardinality(s) <= 0
        BY <1>1, <2>3
      <4> QED BY <4>1, FS_EmptySet
    <3>2. g = [s \in D(n) |-> IF s = {} THEN 0 ELSE F[First(s)] + g[s \ {First(s)}]]
      <4> HIDE DEF D
      <4> QED BY <3>1
    <3>3. SumsOn(F, D(n), g)
      <4> HIDE DEF g, D
      <4> QED BY <3>2 DEF SumsOn
    <3> HIDE DEF g, D
    <3> QED BY <2>2, <3>3
  <2>4. CASE n # 0
    <3>1. n - 1 \in Nat /\ n - 1 \notin Bad
      <4>1. n - 1 \in Nat /\ ~(n <= n - 1)
        BY <2>2, <2>4
      <4> HIDE DEF Bad
      <4> QED BY <2>1, <4>1
    <3>2. PICK g : SumsOn(F, D(n - 1), g)
      BY <3>1
    <3> DEFINE h == [s \in D(n) |-> IF s = {} THEN 0 ELSE F[First(s)] + g[s \ {First(s)}]]
    <3>3. \A s \in D(n) : s # {} => s \ {First(s)} \in D(n - 1) /\ s \ {First(s)} \in D(n)
      BY <1>1, <1>2, <2>2
    <3>4. \A s \in D(n - 1) : g[s] = IF s = {} THEN 0 ELSE F[First(s)] + g[s \ {First(s)}]
      <4> HIDE DEF D
      <4> QED BY <3>2 DEF SumsOn
    <3>5. \A s \in D(n) : s # {} => h[s \ {First(s)}] = g[s \ {First(s)}]
      <4> HIDE DEF D
      <4> QED BY <3>3, <3>4
    <3>6. h = [s \in D(n) |-> IF s = {} THEN 0 ELSE F[First(s)] + h[s \ {First(s)}]]
      <4> HIDE DEF D
      <4> QED BY <3>5
    <3>7. SumsOn(F, D(n), h)
      <4> HIDE DEF h, D
      <4> QED BY <3>6 DEF SumsOn
    <3> HIDE DEF h, D
    <3> QED BY <2>2, <3>7
  <2> QED BY <2>3, <2>4
<1>4. Cardinality(S) \in Nat /\ D(Cardinality(S)) = SUBSET S
  BY FS_Subset, FS_CardinalityType
<1>5. \E g : SumsOn(F, D(Cardinality(S)), g)
  BY <1>3, <1>4
<1> QED BY <1>4, <1>5

\* Partial sums do not depend on the set they were begun for.
LEMMA SumsAgree ==
    ASSUME NEW F, NEW S, NEW T \in SUBSET S, NEW g, NEW h, IsFiniteSet(S),
           SumsOn(F, SUBSET S, g), SumsOn(F, SUBSET T, h)
    PROVE  g[T] = h[T]
<1> DEFINE Bad == {s \in SUBSET T : g[s] # h[s]}
           Sizes == {Cardinality(s) : s \in Bad}
<1>1. \A s \in SUBSET T : IsFiniteSet(s) /\ Cardinality(s) \in Nat
  BY FS_Subset, FS_CardinalityType
<1>2. ASSUME Bad # {} PROVE FALSE
  <2>1. Sizes \in SUBSET Nat /\ Sizes # {}
    BY <1>1, <1>2
  <2>2. PICK n \in Sizes : \A m \in Sizes : n <= m
    <3> HIDE DEF Sizes
    <3> QED BY <2>1, LeastNat
  <2>3. PICK s \in Bad : n = Cardinality(s)
    BY <2>2
  <2> DEFINE r == s \ {First(s)}
  <2>4. s \in SUBSET T /\ s \in SUBSET S /\ g[s] # h[s]
    BY <2>3
  <2>5. /\ g[s] = IF s = {} THEN 0 ELSE F[First(s)] + g[r]
        /\ h[s] = IF s = {} THEN 0 ELSE F[First(s)] + h[r]
    BY <2>4 DEF SumsOn
  <2>6. s # {} /\ g[r] # h[r]
    BY <2>4, <2>5
  <2>7. First(s) \in s
    BY <2>6 DEF First
  <2>8. r \in Bad /\ Cardinality(r) = n - 1
    BY <1>1, <2>3, <2>4, <2>6, <2>7, FS_RemoveElement
  <2>9. n \in Nat /\ n - 1 \in Sizes
    BY <2>1, <2>2, <2>8
  <2> QED BY <2>2, <2>9
<1>3. T \in SUBSET T
  OBVIOUS
<1> QED BY <1>2, <1>3

\* What the community module's fold is, step by step.
LEMMA SumUnfolds ==
    ASSUME NEW F, NEW S, IsFiniteSet(S)
    PROVE  /\ SumFunctionOnSet(F, {}) = 0
           /\ S # {} => SumFunctionOnSet(F, S)
                          = F[First(S)] + SumFunctionOnSet(F, S \ {First(S)})
<1> DEFINE Iter(X) == CHOOSE g : SumsOn(F, SUBSET X, g)
<1>1. \A X : SumFunctionOnSet(F, X) = Iter(X)[X]
  BY DEF SumFunctionOnSet, FoldFunctionOnSet, MapThenFoldSet, First, SumsOn
<1>2. ASSUME NEW X, IsFiniteSet(X) PROVE SumsOn(F, SUBSET X, Iter(X))
  <2>1. \E g : SumsOn(F, SUBSET X, g)
    BY <1>2, SumsExist
  <2> QED BY <2>1
<1> HIDE DEF Iter
<1>3. SumFunctionOnSet(F, {}) = 0
  BY <1>1, <1>2, FS_EmptySet DEF SumsOn
<1>4. ASSUME S # {} PROVE SumFunctionOnSet(F, S)
                            = F[First(S)] + SumFunctionOnSet(F, S \ {First(S)})
  <2> DEFINE T == S \ {First(S)}
  <2>1. IsFiniteSet(T) /\ T \in SUBSET S
    BY FS_Subset
  <2>2. SumsOn(F, SUBSET S, Iter(S)) /\ SumsOn(F, SUBSET T, Iter(T))
    <3> HIDE DEF T
    <3> QED BY <1>2, <2>1
  <2>3. Iter(S)[T] = Iter(T)[T]
    <3>1. ASSUME NEW X \in SUBSET S, NEW g, NEW h, SumsOn(F, SUBSET S, g), SumsOn(F, SUBSET X, h)
          PROVE  g[X] = h[X]
      BY <3>1, SumsAgree
    <3> HIDE DEF T
    <3> QED BY <2>1, <2>2, <3>1
  <2>4. Iter(S)[S] = F[First(S)] + Iter(S)[T]
    BY <1>4, <2>2 DEF SumsOn
  <2> HIDE DEF T
  <2> QED BY <1>1, <2>3, <2>4 DEF T
<1> QED BY <1>3, <1>4

\* A sum of integers is an integer, a sum of naturals a natural.
LEMMA SumType ==
    ASSUME NEW F, NEW S, IsFiniteSet(S)
    PROVE  /\ (\A x \in S : F[x] \in Int) => SumFunctionOnSet(F, S) \in Int
           /\ (\A x \in S : F[x] \in Nat) => SumFunctionOnSet(F, S) \in Nat
<1> SUFFICES ASSUME NEW N \in {Int, Nat}, \A x \in S : F[x] \in N
             PROVE  SumFunctionOnSet(F, S) \in N
  OBVIOUS
<1> DEFINE Bad == {s \in SUBSET S : SumFunctionOnSet(F, s) \notin N}
           Sizes == {Cardinality(s) : s \in Bad}
<1>1. \A s \in SUBSET S : IsFiniteSet(s) /\ Cardinality(s) \in Nat
  BY FS_Subset, FS_CardinalityType
<1>2. ASSUME Bad # {} PROVE FALSE
  <2>1. Sizes \in SUBSET Nat /\ Sizes # {}
    BY <1>1, <1>2
  <2>2. PICK n \in Sizes : \A m \in Sizes : n <= m
    <3> HIDE DEF Sizes
    <3> QED BY <2>1, LeastNat
  <2>3. PICK s \in Bad : n = Cardinality(s)
    BY <2>2
  <2> DEFINE r == s \ {First(s)}
  <2>4. s \in SUBSET S /\ SumFunctionOnSet(F, s) \notin N /\ IsFiniteSet(s)
    BY <1>1, <2>3
  <2>5. s # {}
    <3>1. SumFunctionOnSet(F, {}) = 0
      BY SumUnfolds
    <3>2. 0 \in N
      OBVIOUS
    <3> QED BY <2>4, <3>1, <3>2
  <2>6. First(s) \in s /\ SumFunctionOnSet(F, s) = F[First(s)] + SumFunctionOnSet(F, r)
    BY <2>4, <2>5, SumUnfolds DEF First
  <2>7. F[First(s)] \in N
    BY <2>4, <2>6
  <2>8. r \in Bad /\ Cardinality(r) = n - 1
    <3>1. SumFunctionOnSet(F, r) \notin N
      <4> HIDE DEF r
      <4> QED BY <2>4, <2>6, <2>7
    <3> QED BY <1>1, <2>3, <2>4, <2>6, <3>1, FS_RemoveElement
  <2>9. n \in Nat /\ n - 1 \in Sizes
    BY <2>1, <2>2, <2>8
  <2> QED BY <2>2, <2>9
<1> QED BY <1>2

\* Any element may be taken first.
LEMMA SumRemove ==
    ASSUME NEW F, NEW S, IsFiniteSet(S), \A x \in S : F[x] \in Int, NEW a \in S
    PROVE  SumFunctionOnSet(F, S) = F[a] + SumFunctionOnSet(F, S \ {a})
<1> DEFINE Sum(s) == SumFunctionOnSet(F, s)
           Bad == {s \in SUBSET S : \E x \in s : Sum(s) # F[x] + Sum(s \ {x})}
           Sizes == {Cardinality(s) : s \in Bad}
<1>1. \A s \in SUBSET S : IsFiniteSet(s) /\ Cardinality(s) \in Nat
  BY FS_Subset, FS_CardinalityType
<1>2. \A s \in SUBSET S : Sum(s) \in Int
  BY <1>1, SumType
<1>3. ASSUME Bad # {} PROVE FALSE
  <2>1. Sizes \in SUBSET Nat /\ Sizes # {}
    BY <1>1, <1>3
  <2>2. PICK n \in Sizes : \A m \in Sizes : n <= m
    <3> HIDE DEF Sizes
    <3> QED BY <2>1, LeastNat
  <2>3. PICK s \in Bad : n = Cardinality(s)
    BY <2>2
  <2>4. PICK x \in s : Sum(s) # F[x] + Sum(s \ {x})
    BY <2>3
  <2> DEFINE y == First(s)
  <2>5. /\ s \in SUBSET S /\ s # {} /\ IsFiniteSet(s) /\ y \in s
        /\ Sum(s) = F[y] + Sum(s \ {y})
    BY <1>1, <2>3, <2>4, SumUnfolds DEF First
  <2> HIDE DEF Sum, y
  <2>6. x # y
    BY <2>4, <2>5
  <2>7. ASSUME NEW z \in s PROVE s \ {z} \in SUBSET S /\ s \ {z} \notin Bad
    <3>1. Cardinality(s \ {z}) = n - 1 /\ n \in Nat
      BY <1>1, <2>3, <2>5, FS_RemoveElement
    <3>2. n - 1 \notin Sizes
      <4> HIDE DEF Sizes
      <4> QED BY <2>1, <2>2, <3>1
    <3> QED BY <2>5, <3>1, <3>2
  <2>8. /\ Sum(s \ {y}) = F[x] + Sum((s \ {y}) \ {x})
        /\ Sum(s \ {x}) = F[y] + Sum((s \ {x}) \ {y})
    BY <2>5, <2>6, <2>7
  <2>9. (s \ {y}) \ {x} = (s \ {x}) \ {y}
    OBVIOUS
  <2>10. /\ F[x] \in Int /\ F[y] \in Int /\ Sum((s \ {x}) \ {y}) \in Int
    <3>1. (s \ {x}) \ {y} \in SUBSET S /\ x \in S /\ y \in S
      BY <2>5
    <3> QED BY <1>2, <3>1
  <2> DEFINE rest == Sum((s \ {x}) \ {y})
             fx == F[x]
             fy == F[y]
  <2>11. /\ Sum(s) = fy + (fx + rest) /\ Sum(s \ {x}) = fy + rest
         /\ fx \in Int /\ fy \in Int /\ rest \in Int /\ Sum(s) # fx + Sum(s \ {x})
    BY <2>4, <2>5, <2>8, <2>9, <2>10
  <2> HIDE DEF rest, fx, fy
  <2> QED BY <2>11
<1> QED BY <1>3

\* A new element adds its value.
LEMMA SumAdd ==
    ASSUME NEW F, NEW S, IsFiniteSet(S), NEW a, a \notin S,
           \A x \in S \union {a} : F[x] \in Int
    PROVE  SumFunctionOnSet(F, S \union {a}) = SumFunctionOnSet(F, S) + F[a]
<1> DEFINE T == S \union {a}
<1>1. IsFiniteSet(T) /\ T \ {a} = S /\ a \in T
  BY FS_AddElement
<1>2. SumFunctionOnSet(F, T) = F[a] + SumFunctionOnSet(F, T \ {a})
  <2> HIDE DEF T
  <2> QED BY <1>1, SumRemove DEF T
<1>3. SumFunctionOnSet(F, S) \in Int /\ F[a] \in Int
  BY SumType
<1> DEFINE sum == SumFunctionOnSet(F, S)
           fa == F[a]
<1>4. SumFunctionOnSet(F, T) = fa + sum /\ sum \in Int /\ fa \in Int
  BY <1>1, <1>2, <1>3
<1> HIDE DEF sum, fa
<1>5. SumFunctionOnSet(F, T) = sum + fa
  BY <1>4
<1> QED BY <1>5 DEF sum, fa

-----------------------------------------------------------------------------
(* The byte count *)

\* The packets that wait are finitely many, and each has a size.
LEMMA WaitingFinite ==
    ASSUME QueueInv
    PROVE  /\ IsFiniteSet(Unsent(cache))
           /\ \A s \in Unsent(cache) : SizeOf[s] \in Nat
<1>1. list \in Seq(Seqs) /\ Len(list) \in Nat
  BY LenProperties DEF QueueInv, TypeOK
<1> DEFINE f == [i \in 1 .. Len(list) |-> list[i]]
<1>2. f \in Surjection(1 .. Len(list), DOMAIN cache)
  BY DEF Surjection, QueueInv, ListMatchesCache
<1>3. IsFiniteSet(DOMAIN cache)
  BY <1>1, <1>2, FS_NatSurjection DEF ExistsSurjection
<1>4. Unsent(cache) \in SUBSET DOMAIN cache
  BY DEF Unsent
<1>5. \A s \in Unsent(cache) : SizeOf[s] \in Nat
  BY SizesAssumption DEF SizesAssumption, Unsent, QueueInv, TypeOK
<1> QED BY <1>3, <1>4, <1>5, FS_Subset

\* pacer_queue_push counts a packet exactly when it begins to wait.
LEMMA PushCounts ==
    ASSUME QueueInv, BytesExact, NEW s \in Seqs, Push(s)
    PROVE  BytesExact'
<1> DEFINE waiting == Unsent(cache)
<1>1. SizeOf[s] \in Nat /\ total_size \in Nat
  BY SizesAssumption DEF SizesAssumption, QueueInv, TypeOK
<1>2. CASE s \in waiting
  <2>1. UNCHANGED <<cache, total_size>>
    BY <1>2 DEF Push, Unsent
  <2> QED BY <2>1 DEF BytesExact
<1>3. CASE s \notin waiting
  <2>1. total_size' = total_size + SizeOf[s]
    BY <1>3 DEF Push, Unsent
  <2>2. Unsent(cache') = waiting \union {s}
    <3>1. \/ cache' = [t \in DOMAIN cache \union {s} |->
                        IF t = s THEN [que_ts |-> now, sent |-> FALSE] ELSE cache[t]]
          \/ s \in DOMAIN cache /\ cache' = [cache EXCEPT ![s].sent = FALSE]
      BY <1>3 DEF Push, Unsent
    <3>2. cache \in [DOMAIN cache -> [que_ts : Nat, sent : BOOLEAN]]
      BY DEF QueueInv, TypeOK
    <3>3. /\ DOMAIN cache' = DOMAIN cache \union {s} /\ ~cache'[s].sent
          /\ \A t \in DOMAIN cache : t # s => cache'[t] = cache[t]
      BY <3>1, <3>2
    <3> QED BY <3>3 DEF Unsent
  <2>3. SumFunctionOnSet(SizeOf, waiting \union {s}) = SumFunctionOnSet(SizeOf, waiting) + SizeOf[s]
    <3>1. IsFiniteSet(waiting) /\ \A t \in waiting \union {s} : SizeOf[t] \in Int
      BY <1>1, WaitingFinite
    <3> HIDE DEF waiting
    <3> QED BY <1>3, <3>1, SumAdd
  <2> QED BY <2>1, <2>2, <2>3 DEF BytesExact
<1> QED BY <1>2, <1>3

\* pacer_queue_sent takes off what it transmitted, and the reset of an empty
\* queue takes off nothing that waits.
LEMMA TransmitCounts ==
    ASSUME QueueInv, BytesExact, TransmitPacket
    PROVE  BytesExact'
<1> DEFINE s == Front(cache)
           c == [cache EXCEPT ![s].sent = TRUE]
           t == IF total_size >= SizeOf[s] THEN total_size - SizeOf[s] ELSE 0
           rest == Unsent(cache) \ {s}
           sum == SumFunctionOnSet(SizeOf, rest)
<1>1. s \in DOMAIN cache /\ s \in Unsent(cache)
  BY FrontWaits DEF TransmitPacket
<1>2. Final(c, t) /\ now' = now
  BY DEF TransmitPacket, Sent
<1>3. SizeOf[s] \in Nat /\ total_size \in Nat
  BY <1>1, WaitingFinite DEF QueueInv, TypeOK
<1>4. total_size = SizeOf[s] + sum /\ sum \in Nat
  <2>1. IsFiniteSet(rest) /\ \A x \in rest : SizeOf[x] \in Nat
    BY WaitingFinite, FS_Subset
  <2>2. sum \in Nat
    <3> HIDE DEF rest
    <3> QED BY <2>1, SumType
  <2>3. SumFunctionOnSet(SizeOf, Unsent(cache)) = SizeOf[s] + SumFunctionOnSet(SizeOf, Unsent(cache) \ {s})
    <3> DEFINE waiting == Unsent(cache)
    <3>1. IsFiniteSet(waiting) /\ s \in waiting /\ \A x \in waiting : SizeOf[x] \in Int
      BY <1>1, WaitingFinite
    <3> HIDE DEF waiting, s
    <3> QED BY <3>1, SumRemove DEF waiting
  <2> QED BY <2>2, <2>3 DEF BytesExact
<1>5. MapOver(c) /\ Unsent(c) = rest
  BY <1>1 DEF MapOver, Unsent, QueueInv, TypeOK
<1> HIDE DEF sum
<1>6. t = sum
  BY <1>3, <1>4
<1> HIDE DEF c, t
<1>7. Unsent(cache') = Unsent(c)
  BY <1>2, <1>4, <1>5, <1>6, FinalStep
<1>8. CASE cache' = << >>
  <2>1. rest = {}
    BY <1>5, <1>7, <1>8 DEF Unsent
  <2>2. sum = 0
    BY <2>1, SumUnfolds, FS_EmptySet DEF sum
  <2>3. total_size' \in {0, t}
    BY <1>2 DEF Final
  <2> QED BY <1>5, <1>6, <1>7, <2>2, <2>3 DEF BytesExact, sum
<1>9. CASE cache' # << >>
  <2>1. total_size' = t
    BY <1>2, <1>9 DEF Final
  <2> QED BY <1>5, <1>6, <1>7, <2>1 DEF BytesExact, sum
<1> QED BY <1>8, <1>9

\* total_size is exactly the bytes of the packets that wait (pacer_queue.c:52-127),
\* through every retransmission and every reset of an empty queue.
THEOREM BytesCounted == Spec => []BytesExact
<1>1. Init => BytesExact
  <2> SUFFICES ASSUME Init PROVE BytesExact
    OBVIOUS
  <2>1. Unsent(cache) = {}
    BY DEF Init, Unsent
  <2> QED BY <2>1, SumUnfolds, FS_EmptySet DEF Init, BytesExact
<1>2. QueueInv /\ BytesExact /\ [Next]_vars => BytesExact'
  <2> SUFFICES ASSUME QueueInv, BytesExact, [Next]_vars PROVE BytesExact'
    OBVIOUS
  <2>1. ASSUME NEW s \in Seqs, Insert(s) PROVE BytesExact'
    BY <2>1, PushCounts DEF Insert
  <2>2. ASSUME ~TransmitPacket, ~(\E s \in Seqs : Insert(s)) PROVE BytesExact'
    <3>1. UNCHANGED <<cache, total_size>>
      BY <2>2 DEF Next, SetEstimate, TransmitBegin, TransmitEnd, Tick, queueVars, vars
    <3> QED BY <3>1 DEF BytesExact
  <2> QED BY <2>1, <2>2, TransmitCounts
<1> QED BY <1>1, <1>2, QueueConsistent, PTL DEF Spec

-----------------------------------------------------------------------------
(* The rate *)

\* What was sent beyond the grants is a debt of the budget, which stays below
\* one packet: inside the loop whatever remains is still granted and not sent;
\* between two runs a rest is forgotten, so that a lead of 0 goes with it.
BudgetInv ==
    /\ lead <= IF phase = "sending" THEN -remaining ELSE MaxOf(0, -remaining)
    /\ remaining > -MaxSize
    /\ pacing_kbps >= MinRateKbps * PaceFactor
    /\ phase = "sending" => max_bytes >= MaxSize

\* At any rate the pacer uses, one window's budget holds the largest packet.
LEMMA WindowBound ==
    ASSUME NEW rate \in Nat, rate >= MinRateKbps * PaceFactor
    PROVE  (WindowMs * rate) \div 8 >= MaxSize
<1> DEFINE floor == MinRateKbps * PaceFactor
<1>1. floor \in Nat /\ WindowMs \in Nat /\ MaxSize \in Nat
  BY RatesAssumption, SizesAssumption
<1>2. WindowMs * floor >= 8 * MaxSize
  BY WindowHoldsPacket
<1> HIDE DEF floor
<1>3. \A a, b, c \in Nat : b >= c => a * b >= a * c
  OBVIOUS
<1>4. rate >= floor
  BY DEF floor
<1>5. WindowMs * rate >= WindowMs * floor
  BY <1>1, <1>3, <1>4
<1>6. WindowMs * rate \in Nat /\ WindowMs * floor \in Nat
  BY <1>1
<1> DEFINE w == WindowMs * rate
<1>7. w \in Nat /\ w >= 8 * MaxSize
  BY <1>1, <1>2, <1>5, <1>6
<1> HIDE DEF w
<1>8. w \div 8 >= MaxSize
  BY <1>1, <1>7
<1> QED BY <1>8 DEF w

LEMMA BudgetInvInductive == Spec => []BudgetInv
<1>1. Init => BudgetInv
  BY SizesAssumption, RatesAssumption DEF Init, BudgetInv, MaxOf
<1>2. QueueInv /\ BudgetInv /\ [Next]_vars => BudgetInv'
  <2> SUFFICES ASSUME QueueInv, BudgetInv, [Next]_vars PROVE BudgetInv'
    OBVIOUS
  <2>0. /\ lead \in Int /\ remaining \in Int /\ max_bytes \in Nat
        /\ pacing_kbps \in Nat /\ MaxSize \in Nat \ {0} /\ now \in Nat /\ last_update_ts \in Nat
    BY SizesAssumption DEF QueueInv, TypeOK
  <2>1. ASSUME NEW s \in Seqs, Insert(s) PROVE BudgetInv'
    BY <2>1 DEF Insert, BudgetInv
  <2>2. ASSUME NEW e \in Estimates, SetEstimate(e) PROVE BudgetInv'
    <3>1. \A a, b, c \in Nat : b >= c => b * a >= c * a
      OBVIOUS
    <3>2. MaxOf(e, MinRateKbps) \in Nat /\ MaxOf(e, MinRateKbps) >= MinRateKbps
      BY RatesAssumption DEF MaxOf
    <3>3. MaxOf(e, MinRateKbps) * PaceFactor >= MinRateKbps * PaceFactor
      BY <3>1, <3>2, RatesAssumption
    <3> QED BY <2>2, <3>3 DEF SetEstimate, BudgetInv
  <2>3. CASE TransmitBegin
    <3> DEFINE rate    == MaxOf(pacing_kbps, IF total_size > 0 THEN QueueTarget ELSE 0)
               elapsed == MinOf(now - last_update_ts, MaxIntervalMs)
               max     == (WindowMs * rate) \div 8
               bytes   == (rate * elapsed) \div 8
               carry   == MinOf(MaxOf(-max, remaining), max)
    <3>1. rate \in Nat /\ rate >= pacing_kbps
      BY <2>0, QueueTargetType DEF MaxOf
    <3>2. elapsed \in Nat
      BY <2>0, <2>3, RatesAssumption DEF TransmitBegin, MinOf
    <3>3. /\ max_bytes' = max
          /\ remaining' = MinOf(IF carry < 0 THEN carry + bytes ELSE bytes, max)
          /\ lead' = lead - bytes
      BY <2>3 DEF TransmitBegin, Refill
    <3>4. phase = "idle" /\ phase' = "sending" /\ pacing_kbps' = pacing_kbps
      BY <2>3 DEF TransmitBegin
    <3> HIDE DEF rate, elapsed
    <3>5. rate >= MinRateKbps * PaceFactor
      <4>1. MinRateKbps * PaceFactor \in Nat
        BY RatesAssumption
      <4> QED BY <2>0, <3>1, <4>1 DEF BudgetInv
    <3>6. max >= MaxSize
      BY <3>1, <3>5, WindowBound
    <3>7. max \in Int /\ bytes \in Nat
      <4>1. WindowMs * rate \in Nat /\ rate * elapsed \in Nat
        BY <3>1, <3>2, RatesAssumption
      <4> QED BY <4>1
    <3> HIDE DEF max, bytes
    <3>8. carry \in Int /\ carry <= remaining /\ carry > -MaxSize
      BY <2>0, <3>6, <3>7 DEF MinOf, MaxOf, BudgetInv
    <3>9. carry < 0 => remaining <= carry
      BY <2>0, <3>6, <3>7 DEF MinOf, MaxOf, BudgetInv
    <3>12. carry >= 0 => remaining >= 0
      BY <3>8, <2>0
    <3>13. lead <= MaxOf(0, -remaining)
      BY <3>4 DEF BudgetInv
    <3> HIDE DEF carry
    <3>10. remaining' > -MaxSize
      BY <2>0, <3>3, <3>6, <3>7, <3>8 DEF MinOf
    <3>11. lead' <= -remaining'
      <4>1. CASE carry < 0
        BY <2>0, <3>3, <3>7, <3>8, <3>9, <3>13, <4>1 DEF MinOf, MaxOf
      <4>2. CASE ~(carry < 0)
        BY <2>0, <3>3, <3>7, <3>8, <3>12, <3>13, <4>2 DEF MinOf, MaxOf
      <4> QED BY <4>1, <4>2
    <3> QED BY <3>3, <3>4, <3>6, <3>10, <3>11 DEF BudgetInv
  <2>4. CASE TransmitPacket
    <3> DEFINE s == Front(cache)
    <3>1. s \in DOMAIN cache
      BY <2>4, FrontWaits DEF TransmitPacket
    <3>2. /\ lead' = lead + SizeOf[s]
          /\ remaining' = MaxOf(-max_bytes, remaining - SizeOf[s])
          /\ remaining > 0
          /\ phase = "sending"
          /\ UNCHANGED <<pacing_kbps, max_bytes, phase>>
      BY <2>4 DEF TransmitPacket, UseBudget
    <3> HIDE DEF s
    <3>3. SizeOf[s] \in 1 .. MaxSize
      BY <3>1, SizesAssumption DEF QueueInv, TypeOK
    <3>4. remaining' = remaining - SizeOf[s]
      BY <2>0, <3>2, <3>3 DEF MaxOf, BudgetInv
    <3> QED BY <2>0, <3>2, <3>3, <3>4 DEF BudgetInv
  <2>5. CASE TransmitEnd
    BY <2>0, <2>5 DEF TransmitEnd, queueVars, budgetVars, BudgetInv, MaxOf
  <2>6. CASE Tick
    BY <2>6 DEF Tick, queueVars, budgetVars, BudgetInv
  <2>7. CASE UNCHANGED vars
    BY <2>7 DEF vars, BudgetInv
  <2> QED BY <2>1, <2>2, <2>3, <2>4, <2>5, <2>6, <2>7 DEF Next
<1> QED BY <1>1, <1>2, QueueConsistent, PTL DEF Spec

\* Whatever the estimates, the sizes and the moments packets are handed over,
\* and however long the pacer had nothing to send: over any stretch of time
\* that begins between two runs of its loop it sends less than one packet more
\* than the rate grants in it (pace_send and interval_budget.c).
THEOREM RateKept == Spec => []RateBound
<1>1. QueueInv /\ BudgetInv => RateBound
  BY SizesAssumption DEF QueueInv, TypeOK, BudgetInv, RateBound, MaxOf
<1> QED BY <1>1, QueueConsistent, BudgetInvInductive, PTL

-----------------------------------------------------------------------------
(* Refinement *)

\* The lazily cleaned queue implements the plain set of waiting packets: every
\* hand-over is transmitted at most once per hand-over, none is lost, and the
\* smallest id goes first (pacer_queue.h:42).
THEOREM PacerImplementsPromise == Spec => ImplementsPromise
<1>1. Init => Promise!SpecInit
  <2> SUFFICES ASSUME Init PROVE Promise!SpecInit
    OBVIOUS
  <2>1. DOMAIN cache = {}
    BY DEF Init
  <2> QED BY <2>1 DEF Init, Promise!SpecInit, Unsent
<1>2. QueueInv /\ [Next]_vars => [Promise!SpecNext]_(Promise!specVars)
  <2> SUFFICES ASSUME QueueInv, [Next]_vars
               PROVE  \/ Promise!SpecNext
                      \/ UNCHANGED <<Unsent(cache), last>>
    BY DEF Promise!specVars
  <2>1. ASSUME NEW s \in Seqs, Insert(s) PROVE Promise!SpecNext
    <3>1. Push(s) /\ last' = last
      BY <2>1 DEF Insert
    <3>2. Unsent(cache)' = Unsent(cache) \union {s}
      <4>1. CASE s \notin DOMAIN cache
        BY <3>1, <4>1 DEF Push, Unsent
      <4>2. CASE s \in DOMAIN cache /\ cache[s].sent
        <5>1. cache' = [cache EXCEPT ![s].sent = FALSE]
          BY <3>1, <4>2 DEF Push
        <5>2. cache \in [DOMAIN cache -> [que_ts : Nat, sent : BOOLEAN]]
          BY DEF QueueInv, TypeOK
        <5>3. /\ DOMAIN cache' = DOMAIN cache
              /\ ~cache'[s].sent
              /\ \A t \in DOMAIN cache : t # s => cache'[t] = cache[t]
          BY <4>2, <5>1, <5>2
        <5> QED BY <4>2, <5>3 DEF Unsent
      <4>3. CASE s \in DOMAIN cache /\ ~cache[s].sent
        BY <3>1, <4>3 DEF Push, Unsent
      <4> QED BY <4>1, <4>2, <4>3
    <3> QED BY <3>1, <3>2 DEF Promise!SpecNext, Promise!Submit
  <2>2. ASSUME NEW e \in Estimates, SetEstimate(e) PROVE UNCHANGED <<Unsent(cache), last>>
    BY <2>2 DEF SetEstimate, queueVars, Unsent
  <2>3. CASE TransmitBegin
    BY <2>3 DEF TransmitBegin, queueVars, Unsent
  <2>4. CASE TransmitPacket
    <3> DEFINE s == Front(cache)
               c == [cache EXCEPT ![s].sent = TRUE]
               t == IF total_size >= SizeOf[s] THEN total_size - SizeOf[s] ELSE 0
    <3>1. /\ s \in DOMAIN cache
          /\ s \in Unsent(cache)
          /\ \A u \in Unsent(cache) : s <= u
      BY <2>4, FrontWaits DEF TransmitPacket
    <3>2. Final(c, t) /\ last' = s /\ now' = now
      BY <2>4 DEF TransmitPacket, Sent
    <3> HIDE DEF s
    <3>3. t \in Nat
      <4>1. SizeOf[s] \in Nat /\ total_size \in Nat
        BY <3>1, SizesAssumption DEF QueueInv, TypeOK
      <4> QED BY <4>1
    <3>4. MapOver(c)
      BY <3>1 DEF MapOver, QueueInv, TypeOK
    <3>5. Unsent(c) = Unsent(cache) \ {s}
      <4>1. cache \in [DOMAIN cache -> [que_ts : Nat, sent : BOOLEAN]]
        BY DEF QueueInv, TypeOK
      <4>2. /\ DOMAIN c = DOMAIN cache
            /\ c[s].sent
            /\ \A u \in DOMAIN cache : u # s => c[u] = cache[u]
        BY <3>1, <4>1
      <4> QED BY <4>2 DEF Unsent
    <3> HIDE DEF c, t
    <3>6. Unsent(cache') = Unsent(c)
      BY <3>2, <3>3, <3>4, FinalStep
    <3>7. Unsent(cache)' = Unsent(cache')
      BY DEF Unsent
    <3>8. Promise!Transmit
      BY <3>1, <3>2, <3>5, <3>6, <3>7 DEF Promise!Transmit
    <3> QED BY <3>8 DEF Promise!SpecNext
  <2>5. CASE TransmitEnd
    BY <2>5 DEF TransmitEnd, queueVars, Unsent
  <2>6. CASE Tick
    BY <2>6 DEF Tick, queueVars, Unsent
  <2>7. CASE UNCHANGED vars
    BY <2>7 DEF vars, Unsent
  <2> QED BY <2>1, <2>2, <2>3, <2>4, <2>5, <2>6, <2>7 DEF Next
<1> QED BY <1>1, <1>2, QueueConsistent, PTL DEF Spec, ImplementsPromise, Promise!PacerPromise

=============================================================================
