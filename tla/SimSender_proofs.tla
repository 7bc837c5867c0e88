-------------------------- MODULE SimSender_proofs --------------------------
(***************************************************************************)
(* Machine-checked proofs about the video sender, for every value of its   *)
(* constants: the caches never point to a freed segment, and FEC packets   *)
(* are only ever computed from segments that still exist.                  *)
(***************************************************************************)
EXTENDS SimSender, SequenceTheorems, TLAPS

\* Adding an entry to a cache, and removing some, as functions.
LEMMA CacheOps ==
    ASSUME NEW f, NEW x, NEW v, NEW gone
    PROVE  /\ DOMAIN With(f, x, v) = DOMAIN f \union {x}
           /\ With(f, x, v)[x] = v
           /\ \A y \in DOMAIN f \ {x} : With(f, x, v)[y] = f[y]
           /\ DOMAIN Without(f, gone) = DOMAIN f \ gone
           /\ \A y \in DOMAIN f \ gone : Without(f, gone)[y] = f[y]
BY DEF With, Without

LEMMA InitInv == Init => PointersInv
<1> SUFFICES ASSUME Init PROVE PointersInv
  OBVIOUS
<1> USE DEF Init
<1>1. TypeOK
  <2>1. << >> \in Seq(1 .. send_seed) /\ DOMAIN << >> = {}
    OBVIOUS
  <2> QED BY <2>1 DEF TypeOK
<1>2. TimesOrdered
  BY DEF TimesOrdered
<1>3. AckPointsAlive
  BY DEF AckPointsAlive
<1>4. WindowAlive
  BY SenderAssumption DEF WindowAlive, SenderAssumption
<1> QED BY <1>1, <1>2, <1>3, <1>4 DEF PointersInv

LEMMA PutFrameStep ==
    ASSUME PointersInv, NEW n \in 1 .. MaxFrame, PutFrame(n) PROVE PointersInv'
<1> USE DEF PointersInv, PutFrame, caches, flex, env
<1>0. MaxFrame \in Nat /\ WindowReset \in Nat
  BY SenderAssumption DEF SenderAssumption
<1>1. TypeOK'
  BY SMTT(30), <1>0 DEF TypeOK
<1>2. TimesOrdered'
  BY SMTT(30), <1>0 DEF TimesOrdered, TypeOK
<1>3. AckPointsAlive'
  BY DEF AckPointsAlive
<1>4. WindowAlive'
  <2>1. CASE first_ts # -1
    BY <2>1 DEF WindowAlive
  <2>2. CASE first_ts = -1
    <3>1. DOMAIN segs = {}
      BY <2>2 DEF TimesOrdered
    <3>2. fec_ts + WindowReset < now \/ \A i \in 1 .. Len(window) : FALSE
      BY <3>1 DEF WindowAlive
    <3> QED BY <3>2 DEF WindowAlive
  <2> QED BY <2>1, <2>2
<1> QED BY <1>1, <1>2, <1>3, <1>4

\* What the window looks like once the next segment is in it: every pointer is
\* to a segment that exists.
LEMMA NextWindowAlive ==
    ASSUME PointersInv, PutSegment
    PROVE  LET W == WindowWith(send_seed + 1)
           IN  /\ W \in Seq(1 .. (send_seed + 1))
               /\ \A i \in 1 .. Len(W) :
                     W[i] \in DOMAIN segs' /\ segs'[W[i]].ts + first_ts >= WindowStart
<1> DEFINE s == send_seed + 1
<1> DEFINE W == WindowWith(s)
<1> DEFINE Good(i) == W[i] \in DOMAIN segs' /\ segs'[W[i]].ts + first_ts >= WindowStart
<1> DEFINE g == [pid |-> pid_seed + 1, ts |-> now - first_ts, send_ts |-> 0]
<1>0. WindowReset \in Nat /\ now \in Nat /\ fec_ts \in Nat /\ send_seed \in Nat
      /\ first_ts \in Nat \union {-1} /\ first_ts <= now
  BY SenderAssumption DEF SenderAssumption, PointersInv, TypeOK, TimesOrdered
<1>1. segs' = With(segs, s, g)
  BY DEF PutSegment
<1>2. s \notin DOMAIN segs
  BY <1>0 DEF PointersInv, TypeOK
<1> HIDE DEF g
<1>3. /\ DOMAIN segs' = DOMAIN segs \union {s}
      /\ segs'[s] = g
      /\ \A t \in DOMAIN segs : segs'[t] = segs[t]
  BY <1>1, <1>2 DEF With
<1>4. g.ts + first_ts = now
  BY <1>0 DEF g
<1>5. window \in Seq(1 .. s)
  <2>1. window \in Seq(1 .. send_seed)
    BY DEF PointersInv, TypeOK
  <2>2. 1 .. send_seed \subseteq 1 .. s
    BY <1>0
  <2> QED BY <2>1, <2>2, SeqMonotonic
<1>6. CASE Stale
  <2>1. W = <<s>> /\ WindowStart = now
    BY <1>6 DEF WindowWith, WindowStart
  <2>2. <<s>> \in Seq(1 .. s) /\ Len(<<s>>) = 1 /\ <<s>>[1] = s
    BY <1>0
  <2>3. W \in Seq(1 .. s) /\ Len(W) = 1 /\ W[1] = s
    BY <2>1, <2>2, Zenon
  <2>4. ASSUME NEW i \in 1 .. Len(W) PROVE Good(i)
    <3> HIDE DEF W
    <3>1. i = 1
      BY <2>3
    <3> QED BY <2>1, <2>3, <3>1, <1>0, <1>3, <1>4
  <2> QED BY <2>3, <2>4
<1>7. CASE ~Stale
  <2>1. W = Append(window, s)
    BY <1>7 DEF WindowWith
  <2>2. /\ Append(window, s) \in Seq(1 .. s)
        /\ Len(Append(window, s)) = Len(window) + 1
        /\ \A j \in 1 .. Len(window) : Append(window, s)[j] = window[j]
        /\ Append(window, s)[Len(window) + 1] = s
    BY <1>5, <1>0, AppendProperties
  <2>3. Len(window) \in Nat
    BY <1>5, LenProperties
  <2>4. WindowStart \in Nat /\ WindowStart <= now
    BY <1>0, <1>7 DEF WindowStart, PointersInv, WindowAlive
  <2>5. ASSUME NEW i \in 1 .. Len(W) PROVE Good(i)
    <3>1. CASE i = Len(window) + 1
      BY <2>1, <2>2, <2>4, <3>1, <1>0, <1>3, <1>4
    <3>2. CASE i # Len(window) + 1
      <4>1. i \in 1 .. Len(window)
        BY <2>1, <2>2, <2>3, <3>2
      <4>2. fec_ts # 0
        BY <4>1, <2>3 DEF PointersInv, WindowAlive
      <4>3. ~(fec_ts + WindowReset < now) /\ WindowStart = fec_ts
        BY <4>2, <1>7 DEF Stale, WindowStart
      <4>4. window[i] \in DOMAIN segs /\ segs[window[i]].ts + first_ts >= fec_ts
        BY <4>1, <4>3 DEF PointersInv, WindowAlive
      <4>5. W[i] = window[i]
        BY <4>1, <2>1, <2>2
      <4>6. segs'[window[i]] = segs[window[i]] /\ window[i] \in DOMAIN segs'
        BY <4>4, <1>3
      <4> HIDE DEF W
      <4> QED BY <4>3, <4>4, <4>5, <4>6
    <3> QED BY <3>1, <3>2
  <2> QED BY <2>1, <2>2, <2>5
<1> QED BY <1>6, <1>7

LEMMA PutSegmentStep == ASSUME PointersInv, PutSegment PROVE PointersInv'
<1> DEFINE s == send_seed + 1
<1> DEFINE p == pid_seed + 1
<1> DEFINE g == [pid |-> p, ts |-> now - first_ts, send_ts |-> 0]
<1> DEFINE w == WindowWith(s)
<1>0. /\ WindowReset \in Nat /\ MaxFecs \in Nat /\ now \in Nat /\ fec_ts \in Nat
      /\ send_seed \in Nat /\ pid_seed \in Nat /\ left \in Nat /\ base_id \in Nat
      /\ first_ts \in Nat /\ first_ts <= now
  BY SenderAssumption
     DEF SenderAssumption, PointersInv, TypeOK, TimesOrdered, PutSegment
<1>1. s \notin DOMAIN segs /\ p \notin DOMAIN ack_cache
  BY <1>0 DEF PointersInv, TypeOK
<1>2. /\ segs' = With(segs, s, g) /\ ack_cache' = With(ack_cache, p, s)
      /\ pid_seed' = p /\ left' = left - 1
      /\ UNCHANGED <<base, first_ts, now, top, done, cleaned>>
  BY DEF PutSegment, env
<1>3. g \in Segment /\ g.pid = p /\ g.ts + first_ts = now
  BY <1>0 DEF Segment
<1> HIDE DEF g
<1>4. /\ DOMAIN segs' = DOMAIN segs \union {s} /\ segs'[s] = g
      /\ \A t \in DOMAIN segs : segs'[t] = segs[t]
  BY <1>1, <1>2 DEF With
<1>5. /\ DOMAIN ack_cache' = DOMAIN ack_cache \union {p} /\ ack_cache'[p] = s
      /\ \A q \in DOMAIN ack_cache : ack_cache'[q] = ack_cache[q]
  BY <1>1, <1>2 DEF With
<1>6. segs' \in [DOMAIN segs' -> Segment]
  <2>1. segs' = [t \in DOMAIN segs' |-> segs'[t]]
    BY <1>2, <1>4 DEF With
  <2>2. \A t \in DOMAIN segs' : segs'[t] \in Segment
    BY <1>3, <1>4 DEF PointersInv, TypeOK
  <2> QED BY <2>1, <2>2
\* The three ways the window and the FEC packets may go.
<1> DEFINE Booked ==
              /\ send_seed' \in Nat /\ send_seed' >= s
              /\ DOMAIN fecs' \subseteq 1 .. send_seed' /\ fecs' \in [DOMAIN fecs' -> Nat]
              /\ waiting' \subseteq 1 .. send_seed'
              /\ base_id' \in Nat
              /\ \/ UNCHANGED <<window, fec_ts>>
                 \/ window' = << >> /\ fec_ts' = 0
                 \/ window' = w /\ fec_ts' = WindowStart
<1>7. Booked
  <2>0. /\ DOMAIN fecs \subseteq 1 .. send_seed /\ fecs \in [DOMAIN fecs -> Nat]
        /\ waiting \subseteq 1 .. send_seed
    BY DEF PointersInv, TypeOK
  <2>1. CASE UNCHANGED <<fecs, flex>> /\ send_seed' = s /\ waiting' = waiting \union {s}
    BY <2>0, <2>1, <1>0 DEF flex
  <2>2. CASE KeepWindow(s, w)
    <3>1. base_id' \in Nat
      BY <2>2, <1>0 DEF KeepWindow, WindowBase
    <3> QED BY <2>0, <2>2, <3>1, <1>0 DEF KeepWindow
  <2>3. ASSUME NEW k \in FecCounts(w), CloseWindow(s, w, k)
        PROVE  Booked
    <3>0. k \in Nat
      BY <1>0 DEF FecCounts
    <3>1. /\ send_seed' = s + k /\ window' = << >> /\ fec_ts' = 0 /\ base_id' = 0
          /\ waiting' = waiting \union {s} \union ((s + 1) .. (s + k))
          /\ fecs' = [f \in DOMAIN fecs \union ((s + 1) .. (s + k)) |->
                         IF f \in (s + 1) .. (s + k) THEN now - first_ts ELSE fecs[f]]
      BY <2>3 DEF CloseWindow
    <3>2. waiting' \subseteq 1 .. send_seed' /\ send_seed' \in Nat /\ send_seed' >= s
      BY <3>0, <3>1, <2>0, <1>0
    <3>3. DOMAIN fecs' \subseteq 1 .. send_seed'
      BY <3>0, <3>1, <2>0, <1>0
    <3>4. fecs' \in [DOMAIN fecs' -> Nat]
      <4>1. now - first_ts \in Nat
        BY <1>0
      <4> QED BY <4>1, <3>1, <2>0
    <3> QED BY <3>1, <3>2, <3>3, <3>4, <1>0
  <2> QED BY <2>1, <2>2, <2>3 DEF PutSegment
<1>8. window \in Seq(1 .. send_seed')
  <2>1. window \in Seq(1 .. send_seed) /\ 1 .. send_seed \subseteq 1 .. send_seed'
    BY SMTT(30), <1>0, <1>7 DEF PointersInv, TypeOK
  <2> QED BY <2>1, SeqMonotonic
<1>9. /\ w \in Seq(1 .. s)
      /\ \A i \in 1 .. Len(w) :
            w[i] \in DOMAIN segs' /\ segs'[w[i]].ts + first_ts >= WindowStart
  BY NextWindowAlive
<1> HIDE DEF w
<1>10. TypeOK'
  <2>1. DOMAIN segs' \subseteq 1 .. send_seed'
    BY SMTT(30), <1>0, <1>4, <1>7 DEF PointersInv, TypeOK
  <2>2. DOMAIN ack_cache' \subseteq 1 .. pid_seed' /\ ack_cache' \in [DOMAIN ack_cache' -> 1 .. send_seed']
    <3>1. ack_cache' = [q \in DOMAIN ack_cache' |-> ack_cache'[q]]
      BY <1>2, <1>5 DEF With
    <3>2. \A q \in DOMAIN ack_cache' : ack_cache'[q] \in 1 .. send_seed'
      BY SMTT(30), <1>0, <1>5, <1>7 DEF PointersInv, TypeOK
    <3>3. DOMAIN ack_cache \subseteq 1 .. pid_seed /\ pid_seed \in Nat
      BY DEF PointersInv, TypeOK
    <3>4. DOMAIN ack_cache' = DOMAIN ack_cache \union {p} /\ pid_seed' = pid_seed + 1
      BY <1>2, <1>5
    <3>5. DOMAIN ack_cache' \subseteq 1 .. pid_seed'
      BY <3>3, <3>4
    <3> QED BY <3>1, <3>2, <3>5
  <2>3. window' \in Seq(1 .. send_seed')
    <3>1. << >> \in Seq(1 .. send_seed')
      OBVIOUS
    <3>2. 1 .. s \subseteq 1 .. send_seed'
      BY <1>0, <1>7
    <3>3. w \in Seq(1 .. send_seed')
      BY <1>9, <3>2, SeqMonotonic
    <3> QED BY <3>1, <3>3, <1>7, <1>8
  <2>4. fec_ts' \in Nat /\ left' \in Nat
    <3>1. WindowStart \in Nat
      BY <1>0 DEF WindowStart
    <3>2. left > 0
      BY DEF PutSegment
    <3> QED BY SMTT(30), <3>1, <3>2, <1>0, <1>2, <1>7
  <2>5. done' \subseteq 1 .. pid_seed'
    <3>1. done \subseteq 1 .. pid_seed /\ pid_seed \in Nat
      BY DEF PointersInv, TypeOK
    <3>2. done' = done /\ pid_seed' \in Nat /\ pid_seed <= pid_seed'
      BY <1>0, <1>2
    <3> QED BY <3>1, <3>2
  <2>7. {base', pid_seed', send_seed', fec_ts', base_id', left', now', top', cleaned'} \subseteq Nat
    BY SMTT(30), <1>0, <1>2, <1>7, <2>4 DEF PointersInv, TypeOK
  <2>8. first_ts' \in Nat \union {-1} /\ waiting' \subseteq 1 .. send_seed'
    BY <1>0, <1>2, <1>7
  <2>9. DOMAIN fecs' \subseteq 1 .. send_seed' /\ fecs' \in [DOMAIN fecs' -> Nat]
    BY <1>7
  <2> HIDE DEF Booked
  <2> QED BY <1>6, <2>1, <2>2, <2>3, <2>5, <2>7, <2>8, <2>9, Zenon DEF TypeOK
<1>11. TimesOrdered'
  <2>1. \A t \in DOMAIN segs' : segs'[t].ts + first_ts' <= now' /\ segs'[t].pid <= pid_seed'
    <3> SUFFICES ASSUME NEW t \in DOMAIN segs'
                 PROVE  segs'[t].ts + first_ts' <= now' /\ segs'[t].pid <= pid_seed'
      OBVIOUS
    <3>1. CASE t = s
      BY <3>1, <1>0, <1>2, <1>3, <1>4
    <3>2. CASE t \in DOMAIN segs
      <4>1. segs[t].pid \in Nat
        BY <3>2 DEF PointersInv, TypeOK, Segment
      <4> QED BY <4>1, <3>2, <1>0, <1>2, <1>4 DEF PointersInv, TimesOrdered
    <3> QED BY <3>1, <3>2, <1>4
  <2>2. top' <= pid_seed'
    BY <1>0, <1>2 DEF PointersInv, TypeOK, TimesOrdered
  <2> QED BY <1>0, <1>2, <2>1, <2>2 DEF PointersInv, TimesOrdered
<1>12. AckPointsAlive'
  BY <1>1, <1>3, <1>4, <1>5 DEF PointersInv, AckPointsAlive
<1>13. WindowAlive'
  <2>1. CASE UNCHANGED <<window, fec_ts>>
    BY <2>1, <1>2, <1>4 DEF PointersInv, WindowAlive
  <2>2. CASE window' = << >> /\ fec_ts' = 0
    BY <2>2, <1>0, <1>2 DEF WindowAlive
  <2>3. CASE window' = w /\ fec_ts' = WindowStart
    <3>1. WindowStart # 0 /\ WindowStart <= now
      BY <1>0 DEF PointersInv, TimesOrdered, WindowAlive, WindowStart
    <3> QED BY <3>1, <2>3, <1>2, <1>9 DEF WindowAlive
  <2> QED BY <1>7, <2>1, <2>2, <2>3
<1> QED BY <1>10, <1>11, <1>12, <1>13 DEF PointersInv

LEMMA TransmitStep == ASSUME PointersInv, Transmit PROVE PointersInv'
<1> DEFINE s == Next1(waiting)
<1>0. now \in Nat /\ first_ts \in Nat \union {-1} /\ first_ts <= now
  BY DEF PointersInv, TypeOK, TimesOrdered
<1>1. /\ waiting' = waiting \ {s}
      /\ UNCHANGED <<ack_cache, base, pid_seed, send_seed, first_ts, window, fec_ts, base_id,
                     left, now, done, cleaned>>
  BY DEF Transmit, seeds, flex
<1>2. \/ s \in DOMAIN segs /\ segs' = With(segs, s, SegSentAt(s))
         /\ top' = (IF segs[s].pid > top THEN segs[s].pid ELSE top) /\ fecs' = fecs
      \/ s \in DOMAIN fecs /\ fecs' = With(fecs, s, now - first_ts) /\ segs' = segs /\ top' = top
      \/ UNCHANGED <<segs, fecs, top>>
  BY DEF Transmit
<1> HIDE DEF s
\* A segment sent keeps its packet id and its timestamp.
<1>3. /\ DOMAIN segs' = DOMAIN segs
      /\ segs' \in [DOMAIN segs' -> Segment]
      /\ \A t \in DOMAIN segs : segs'[t].pid = segs[t].pid /\ segs'[t].ts = segs[t].ts
  <2>0. segs \in [DOMAIN segs -> Segment]
    BY DEF PointersInv, TypeOK
  <2>1. CASE s \in DOMAIN segs /\ segs' = With(segs, s, SegSentAt(s))
    <3>1. segs[s] \in Segment /\ segs[s].ts + first_ts <= now
      BY <2>0, <2>1 DEF PointersInv, TimesOrdered
    <3>2. /\ SegSentAt(s) \in Segment
          /\ SegSentAt(s).pid = segs[s].pid /\ SegSentAt(s).ts = segs[s].ts
      BY <3>1, <1>0 DEF SegSentAt, Segment
    <3> HIDE DEF SegSentAt
    <3> QED BY <2>0, <2>1, <3>2 DEF With
  <2>2. CASE segs' = segs
    BY <2>0, <2>2
  <2> QED BY <1>2, <2>1, <2>2
<1>4. DOMAIN fecs' = DOMAIN fecs /\ fecs' \in [DOMAIN fecs' -> Nat]
  <2>1. fecs \in [DOMAIN fecs -> Nat] /\ now - first_ts \in Nat
    BY <1>0 DEF PointersInv, TypeOK
  <2> QED BY <2>1, <1>2 DEF With
<1>5. top' \in Nat /\ top' <= pid_seed
  <2>1. top \in Nat /\ top <= pid_seed /\ pid_seed \in Nat
    BY DEF PointersInv, TypeOK, TimesOrdered
  <2>2. \A t \in DOMAIN segs : segs[t].pid \in Nat /\ segs[t].pid <= pid_seed
    BY DEF PointersInv, TypeOK, TimesOrdered, Segment
  <2> QED BY <2>1, <2>2, <1>2
<1>6. TypeOK'
  <2>2. waiting' \subseteq 1 .. send_seed'
    BY <1>1 DEF PointersInv, TypeOK
  <2>3. {base', pid_seed', send_seed', fec_ts', base_id', left', now', top', cleaned'} \subseteq Nat
    BY <1>1, <1>5 DEF PointersInv, TypeOK
  <2>4. DOMAIN segs' \subseteq 1 .. send_seed' /\ DOMAIN fecs' \subseteq 1 .. send_seed'
    BY <1>1, <1>3, <1>4 DEF PointersInv, TypeOK
  <2>5. /\ DOMAIN ack_cache' \subseteq 1 .. pid_seed'
        /\ ack_cache' \in [DOMAIN ack_cache' -> 1 .. send_seed']
        /\ first_ts' \in Nat \union {-1} /\ window' \in Seq(1 .. send_seed')
        /\ done' \subseteq 1 .. pid_seed'
    BY <1>1 DEF PointersInv, TypeOK
  <2> QED BY <1>3, <1>4, <2>2, <2>3, <2>4, <2>5, Zenon DEF TypeOK
<1>7. TimesOrdered'
  BY <1>1, <1>3, <1>5 DEF PointersInv, TimesOrdered
<1>8. AckPointsAlive'
  BY <1>1, <1>3 DEF PointersInv, AckPointsAlive
<1>9. WindowAlive'
  BY <1>1, <1>3 DEF PointersInv, WindowAlive
<1> QED BY <1>6, <1>7, <1>8, <1>9 DEF PointersInv

\* What reports and key frame requests have in common: of the caches they only
\* ever shorten ack_cache.
LEMMA TrimStep ==
    ASSUME PointersInv, NEW gone, ack_cache' = Without(ack_cache, gone),
           base' \in Nat, cleaned' \in Nat,
           waiting' \subseteq 1 .. send_seed,
           UNCHANGED <<segs, fecs, seeds, flex, left, now, env>>
    PROVE  PointersInv'
<1>1. UNCHANGED <<segs, fecs, pid_seed, send_seed, first_ts, window, fec_ts, base_id, left,
                  now, top, done>>
  BY DEF seeds, flex, env
<1>2. /\ DOMAIN ack_cache' = DOMAIN ack_cache \ gone
      /\ ack_cache' = [p \in DOMAIN ack_cache' |-> ack_cache[p]]
      /\ \A p \in DOMAIN ack_cache' : ack_cache'[p] = ack_cache[p]
  BY DEF Without
<1>3. TypeOK'
  <2>1. /\ DOMAIN ack_cache' \subseteq 1 .. pid_seed'
        /\ ack_cache' \in [DOMAIN ack_cache' -> 1 .. send_seed']
    BY <1>1, <1>2 DEF PointersInv, TypeOK
  <2>2. {base', pid_seed', send_seed', fec_ts', base_id', left', now', top', cleaned'} \subseteq Nat
    BY <1>1 DEF PointersInv, TypeOK
  <2>3. /\ DOMAIN segs' \subseteq 1 .. send_seed' /\ segs' \in [DOMAIN segs' -> Segment]
        /\ DOMAIN fecs' \subseteq 1 .. send_seed' /\ fecs' \in [DOMAIN fecs' -> Nat]
        /\ first_ts' \in Nat \union {-1} /\ window' \in Seq(1 .. send_seed')
        /\ done' \subseteq 1 .. pid_seed' /\ waiting' \subseteq 1 .. send_seed'
    BY <1>1 DEF PointersInv, TypeOK
  <2> QED BY <2>1, <2>2, <2>3, Zenon DEF TypeOK
<1>4. TimesOrdered'
  BY <1>1 DEF PointersInv, TimesOrdered
<1>5. AckPointsAlive'
  BY <1>1, <1>2 DEF PointersInv, AckPointsAlive
<1>6. WindowAlive'
  BY <1>1 DEF PointersInv, WindowAlive
<1> QED BY <1>3, <1>4, <1>5, <1>6 DEF PointersInv

LEMMA BasesNat == ASSUME PointersInv, NEW b \in Bases PROVE Raised(b) \in Nat
<1>1. base \in Nat /\ top \in Nat
  BY DEF PointersInv, TypeOK
<1>3. b \in Nat
  BY <1>1 DEF Bases
<1> QED BY <1>1, <1>3 DEF Raised

LEMMA AckStep ==
    ASSUME PointersInv, NEW b \in Bases, NEW got, NEW received, NEW missing,
           Ack(b, got, received, missing)
    PROVE  PointersInv'
<1> DEFINE gone == NoLongerNeeded(b) \union received
<1> DEFINE a == Without(ack_cache, gone)
<1> DEFINE again == {a[p] : p \in Resend(missing, a, Raised(b))}
<1>1. ack_cache' = Without(ack_cache, gone) /\ base' = Raised(b)
      /\ waiting' = waiting \union again
      /\ UNCHANGED <<segs, fecs, seeds, flex, left, now, env, cleaned>>
  BY DEF Ack
<1>3. base' \in Nat
  BY <1>1, BasesNat
<1>4. cleaned' \in Nat
  BY <1>1 DEF PointersInv, TypeOK
<1>5. again \subseteq 1 .. send_seed
  <2> SUFFICES ASSUME NEW p \in DOMAIN a PROVE a[p] \in 1 .. send_seed
    BY DEF Resend
  <2> QED BY DEF Without, PointersInv, TypeOK
<1>6. waiting' \subseteq 1 .. send_seed
  BY <1>1, <1>5 DEF PointersInv, TypeOK
<1> QED BY <1>1, <1>3, <1>4, <1>6, TrimStep

LEMMA EvictStep == ASSUME PointersInv, Evict PROVE PointersInv'
<1> DEFINE old == Leading(segs, {s \in DOMAIN segs : segs[s].ts + first_ts + SegKeep <= now})
<1> DEFINE oldFecs == Leading(fecs, {f \in DOMAIN fecs : fecs[f] + first_ts + FecKeep < now})
<1>1. /\ segs' = Without(segs, old)
      /\ ack_cache' = Without(ack_cache, Forgotten(old))
      /\ fecs' = Without(fecs, oldFecs)
      /\ UNCHANGED <<base, pid_seed, send_seed, first_ts, window, fec_ts, base_id, left,
                     waiting, now, top, done, cleaned>>
  BY DEF Evict, seeds, flex, env
<1>2. \A s \in old : s \in DOMAIN segs /\ segs[s].ts + first_ts + SegKeep <= now
  <2>1. \A s \in old : s \in DOMAIN segs /\ (s <= s => segs[s].ts + first_ts + SegKeep <= now)
    BY DEF Leading
  <2>2. \A s \in DOMAIN segs : s <= s
    BY DEF PointersInv, TypeOK
  <2> QED BY <2>1, <2>2
<1>3. \A q \in DOMAIN ack_cache : ack_cache[q] \in old => q \in Forgotten(old)
  BY DEF PointersInv, AckPointsAlive, Forgotten
<1> HIDE DEF old, oldFecs
<1>4. /\ DOMAIN segs' = DOMAIN segs \ old
      /\ segs' = [t \in DOMAIN segs' |-> segs[t]]
      /\ \A t \in DOMAIN segs' : segs'[t] = segs[t]
  BY <1>1 DEF Without
<1>5. /\ DOMAIN ack_cache' = DOMAIN ack_cache \ Forgotten(old)
      /\ ack_cache' = [q \in DOMAIN ack_cache' |-> ack_cache[q]]
      /\ \A q \in DOMAIN ack_cache' : ack_cache'[q] = ack_cache[q]
  BY <1>1 DEF Without
<1>6. TypeOK'
  <2>1. /\ DOMAIN segs' \subseteq 1 .. send_seed' /\ segs' \in [DOMAIN segs' -> Segment]
    BY <1>1, <1>4 DEF PointersInv, TypeOK
  <2>2. /\ DOMAIN ack_cache' \subseteq 1 .. pid_seed'
        /\ ack_cache' \in [DOMAIN ack_cache' -> 1 .. send_seed']
    BY <1>1, <1>5 DEF PointersInv, TypeOK
  <2>3. DOMAIN fecs' \subseteq 1 .. send_seed' /\ fecs' \in [DOMAIN fecs' -> Nat]
    BY <1>1 DEF Without, PointersInv, TypeOK
  <2>5. {base', pid_seed', send_seed', fec_ts', base_id', left', now', top', cleaned'} \subseteq Nat
    BY <1>1 DEF PointersInv, TypeOK
  <2>6. /\ first_ts' \in Nat \union {-1} /\ window' \in Seq(1 .. send_seed')
        /\ done' \subseteq 1 .. pid_seed' /\ waiting' \subseteq 1 .. send_seed'
    BY <1>1 DEF PointersInv, TypeOK
  <2> QED BY <2>1, <2>2, <2>3, <2>5, <2>6, Zenon DEF TypeOK
<1>7. TimesOrdered'
  BY <1>1, <1>4 DEF PointersInv, TimesOrdered
\* An entry that stays does not point to a segment that goes, because the
\* segment takes the entry of its packet id along.
<1>8. AckPointsAlive'
  BY <1>3, <1>4, <1>5 DEF PointersInv, AckPointsAlive
\* A window with a pointer to a segment that goes is older than SegKeep.
<1>9. WindowAlive'
  <2>0. /\ WindowReset \in Nat /\ SegKeep \in Nat /\ WindowReset < SegKeep
        /\ now \in Nat /\ fec_ts \in Nat /\ first_ts \in Int
    <3>1. WindowReset \in Nat /\ SegKeep \in Nat /\ WindowReset < SegKeep
      BY SenderAssumption DEF SenderAssumption
    <3>2. now \in Nat /\ fec_ts \in Nat /\ first_ts \in Nat \union {-1}
      BY DEF PointersInv, TypeOK
    <3> QED BY <3>1, <3>2
  <2>1. CASE \A i \in 1 .. Len(window) : window[i] \notin old
    BY <2>1, <1>1, <1>4 DEF PointersInv, WindowAlive
  <2>2. ASSUME NEW i \in 1 .. Len(window), window[i] \in old
        PROVE  fec_ts + WindowReset < now
    <3>1. CASE segs[window[i]].ts + first_ts >= fec_ts
      <4>1. segs[window[i]].ts \in Nat /\ segs[window[i]].ts + first_ts + SegKeep <= now
        BY <2>2, <1>2 DEF PointersInv, TypeOK, Segment
      <4> QED BY <3>1, <4>1, <2>0
    <3>2. CASE ~(segs[window[i]].ts + first_ts >= fec_ts)
      BY <3>2 DEF PointersInv, WindowAlive
    <3> QED BY <3>1, <3>2
  <2>3. CASE fec_ts + WindowReset < now
    BY <2>3, <1>1 DEF PointersInv, WindowAlive
  <2> QED BY <2>1, <2>2, <2>3
<1> QED BY <1>6, <1>7, <1>8, <1>9 DEF PointersInv
LEMMA TickStep == ASSUME PointersInv, Tick PROVE PointersInv'
<1>0. WindowReset \in Nat
  BY SenderAssumption DEF SenderAssumption
<1>1. /\ now' = now + 1
      /\ UNCHANGED <<segs, ack_cache, fecs, base, pid_seed, send_seed, first_ts, window,
                     fec_ts, base_id, left, waiting, top, done, cleaned>>
  BY DEF Tick, caches, seeds, flex, env
<1>2. now \in Nat /\ fec_ts \in Nat /\ first_ts \in Nat \union {-1}
  BY DEF PointersInv, TypeOK
<1>3. TypeOK'
  <2>1. now' \in Nat
    BY <1>1, <1>2
  <2> QED BY <1>1, <2>1 DEF PointersInv, TypeOK
<1>4. TimesOrdered'
  <2>1. \A s \in DOMAIN segs : segs[s].ts \in Nat
    BY DEF PointersInv, TypeOK, Segment
  <2> QED BY <1>1, <1>2, <2>1 DEF PointersInv, TimesOrdered
<1>5. AckPointsAlive'
  BY <1>1 DEF PointersInv, AckPointsAlive
<1>6. WindowAlive'
  BY <1>0, <1>1, <1>2 DEF PointersInv, WindowAlive
<1> QED BY <1>3, <1>4, <1>5, <1>6 DEF PointersInv

LEMMA OtherSteps ==
    ASSUME PointersInv
    PROVE  /\ \A p \in 1 .. top : Settle(p) => PointersInv'
           /\ \A b \in Bases : Feedback(b) => PointersInv'
           /\ CleanAckCache => PointersInv'
           /\ UNCHANGED vars => PointersInv'
<1>1. ASSUME NEW p \in 1 .. top, Settle(p) PROVE PointersInv'
  <2>1. /\ done' = done \union {p}
        /\ UNCHANGED <<segs, ack_cache, fecs, base, pid_seed, send_seed, first_ts, window,
                       fec_ts, base_id, left, waiting, now, top, cleaned>>
    BY <1>1 DEF Settle, caches, seeds, flex
  <2>2. done' \subseteq 1 .. pid_seed'
    <3>1. done \subseteq 1 .. pid_seed /\ top <= pid_seed /\ {top, pid_seed} \subseteq Nat
      BY DEF PointersInv, TypeOK, TimesOrdered
    <3> QED BY <2>1, <3>1
  <2>3. TypeOK'
    BY <2>1, <2>2 DEF PointersInv, TypeOK
  <2> QED BY <2>1, <2>3 DEF PointersInv, TimesOrdered, AckPointsAlive, WindowAlive
<1>2. ASSUME NEW b \in Bases, Feedback(b) PROVE PointersInv'
  <2>1. base' \in Nat
    BY <1>2, BasesNat DEF Feedback
  <2>2. cleaned' \in Nat /\ waiting' \subseteq 1 .. send_seed
    BY <1>2 DEF Feedback, PointersInv, TypeOK
  <2>4. /\ ack_cache' = Without(ack_cache, NoLongerNeeded(b))
        /\ UNCHANGED <<segs, fecs, seeds, flex, left, now, env>>
    BY <1>2 DEF Feedback
  <2> QED BY <2>1, <2>2, <2>4, TrimStep
<1>3. ASSUME CleanAckCache PROVE PointersInv'
  <2>1. ack_cache' = Without(ack_cache, DOMAIN ack_cache)
    BY <1>3 DEF CleanAckCache, Without
  <2>2. base' \in Nat /\ cleaned' \in Nat /\ waiting' \subseteq 1 .. send_seed
    BY <1>3 DEF CleanAckCache, PointersInv, TypeOK
  <2>4. UNCHANGED <<segs, fecs, seeds, flex, left, now, env>>
    BY <1>3 DEF CleanAckCache
  <2> QED BY <2>1, <2>2, <2>4, TrimStep
<1>4. ASSUME UNCHANGED vars PROVE PointersInv'
  BY <1>4 DEF vars, PointersInv, TypeOK, TimesOrdered, AckPointsAlive, WindowAlive
<1> QED BY <1>1, <1>2, <1>3, <1>4

LEMMA AckAnyStep == ASSUME PointersInv, AckAny PROVE PointersInv'
<1>1. PICK b \in Bases, got \in done :
         \/ Ack(b, got, {}, {})
         \/ \E p \in done : p > b /\ Ack(b, got, {p}, {})
         \/ \E p \in 1 .. top : p > b /\ Ack(b, got, {}, {p})
  BY DEF AckAny
<1>2. \E received, missing : Ack(b, got, received, missing)
  BY <1>1
<1> QED BY <1>2, AckStep

LEMMA StepInv == ASSUME PointersInv, [Next]_vars PROVE PointersInv'
BY PutFrameStep, PutSegmentStep, TransmitStep, AckAnyStep, EvictStep, TickStep, OtherSteps
   DEF Next

LEMMA PointersConsistent == Spec => []PointersInv
BY InitInv, StepInv, PTL DEF Spec

-----------------------------------------------------------------------------
(* The numbers *)

LEMMA InitNumbers == Init => NumbersInv
<1> SUFFICES ASSUME Init PROVE NumbersInv
  OBVIOUS
<1>1. DOMAIN segs = {} /\ window = << >> /\ Len(window) = 0 /\ base = 0
  BY DEF Init
<1> QED BY <1>1 DEF NumbersInv, Numbered, RepairPossible, WindowConsecutive, BaseIsContiguous

\* What the numbers rest on: the ids are natural numbers.
LEMMA NumberTypes ==
    ASSUME PointersInv
    PROVE  /\ {base, pid_seed, send_seed, base_id, cleaned, now, fec_ts} \subseteq Nat
           /\ DOMAIN segs \subseteq 1 .. send_seed
           /\ \A s \in DOMAIN segs : segs[s].pid \in Nat /\ segs[s].pid <= pid_seed
           /\ DOMAIN ack_cache \subseteq 1 .. pid_seed
           /\ window \in Seq(1 .. send_seed) /\ Len(window) \in Nat
           /\ \A i \in 1 .. Len(window) : window[i] \in 1 .. send_seed
BY SMTT(30), LenProperties, ElementOfSeq DEF PointersInv, TypeOK, TimesOrdered, Segment

\* A step that leaves the segments' numbers and the window alone.
LEMMA QuietNumbers ==
    ASSUME NumbersInv,
           DOMAIN segs' \subseteq DOMAIN segs,
           \A s \in DOMAIN segs' : segs'[s].pid = segs[s].pid,
           UNCHANGED <<pid_seed, window, base_id>>
    PROVE  Numbered' /\ WindowConsecutive'
BY DEF NumbersInv, Numbered, WindowConsecutive

\* Reports take only what the receiver has from ack_cache.
LEMMA TrimNumbers ==
    ASSUME PointersInv, NumbersInv, NEW b \in Bases, NEW received \in SUBSET done,
           ack_cache' = Without(ack_cache, NoLongerNeeded(b) \union received),
           base' = Raised(b),
           UNCHANGED <<segs, seeds, flex, env, cleaned>>
    PROVE  NumbersInv'
<1>1. UNCHANGED <<segs, pid_seed, window, base_id, done, cleaned>>
  BY DEF seeds, flex, env
<1>2. 1 .. b \subseteq done
  BY DEF Bases
<1>3. Numbered' /\ WindowConsecutive'
  BY <1>1, QuietNumbers
<1>4. NoLongerNeeded(b) \subseteq done
  <2>1. \A p \in NoLongerNeeded(b) : p \in 1 .. pid_seed /\ p <= b
    BY NumberTypes DEF NoLongerNeeded
  <2>2. b \in Nat /\ pid_seed \in Nat
    BY NumberTypes DEF Bases, PointersInv, TypeOK
  <2> QED BY <1>2, <2>1, <2>2
<1>5. DOMAIN ack_cache' = DOMAIN ack_cache \ (NoLongerNeeded(b) \union received)
  BY DEF Without
<1>6. RepairPossible'
  BY <1>1, <1>4, <1>5 DEF NumbersInv, RepairPossible
<1>7. BaseIsContiguous'
  BY <1>1, <1>2 DEF Raised, NumbersInv, BaseIsContiguous
<1> QED BY <1>3, <1>6, <1>7 DEF NumbersInv

LEMMA PutSegmentNumbers ==
    ASSUME PointersInv, NumbersInv, PutSegment PROVE NumbersInv'
<1> DEFINE s == send_seed + 1
<1> DEFINE p == pid_seed + 1
<1> DEFINE w == WindowWith(s)
<1> DEFINE g == [pid |-> p, ts |-> now - first_ts, send_ts |-> 0]
<1>0. /\ {base, pid_seed, send_seed, base_id, cleaned} \subseteq Nat
      /\ DOMAIN segs \subseteq 1 .. send_seed
      /\ \A t \in DOMAIN segs : segs[t].pid \in Nat /\ segs[t].pid <= pid_seed
      /\ window \in Seq(1 .. send_seed) /\ Len(window) \in Nat
      /\ \A i \in 1 .. Len(window) : window[i] \in 1 .. send_seed
  BY NumberTypes
<1>1. /\ segs' = With(segs, s, g) /\ ack_cache' = With(ack_cache, p, s)
      /\ pid_seed' = p /\ UNCHANGED <<base, done, cleaned>>
  BY DEF PutSegment, env
<1>2. g.pid = p
  OBVIOUS
<1> HIDE DEF g
<1>3. /\ DOMAIN segs' = DOMAIN segs \union {s} /\ segs'[s] = g
      /\ \A t \in DOMAIN segs : segs'[t] = segs[t]
      /\ DOMAIN ack_cache' = DOMAIN ack_cache \union {p}
  <2>1. s \notin DOMAIN segs
    BY <1>0
  <2> QED BY <1>1, <2>1 DEF With
<1>4. /\ \A t, u \in DOMAIN segs' : t < u => segs'[t].pid < segs'[u].pid
      /\ \A t \in DOMAIN segs' : segs'[t].pid # 0
  <2>1. ASSUME NEW t \in DOMAIN segs', NEW u \in DOMAIN segs', t < u
        PROVE  segs'[t].pid < segs'[u].pid
    <3>1. CASE u = s
      BY <3>1, <2>1, <1>0, <1>2, <1>3
    <3>2. CASE u # s
      BY <3>2, <2>1, <1>0, <1>3 DEF NumbersInv, Numbered
    <3> QED BY <3>1, <3>2
  <2>2. ASSUME NEW t \in DOMAIN segs' PROVE segs'[t].pid # 0
    BY <2>2, <1>0, <1>2, <1>3 DEF NumbersInv, Numbered
  <2> QED BY <2>1, <2>2
\* The window once the segment is in it.
<1>5. \/ window' = << >>
      \/ window' = w /\ base_id' = WindowBase(p) /\ UseFec
      \/ UNCHANGED <<window, base_id>> /\ ~UseFec
  BY DEF PutSegment, CloseWindow, KeepWindow, flex
<1>6. /\ w # << >> => WindowBase(p) # 0 /\ WindowBase(p) + Len(w) = p + 1
      /\ \A i \in 1 .. Len(w) : w[i] \in DOMAIN segs' => segs'[w[i]].pid = WindowBase(p) + i - 1
  <2>1. CASE Stale \/ window = << >>
    <3>1. WindowBase(p) = p
      BY <2>1 DEF WindowBase
    <3>2. w = <<s>>
      <4>1. CASE Stale
        BY <4>1 DEF WindowWith
      <4>2. CASE ~Stale /\ window = << >>
        <5>1. Append(<< >>, s) = <<s>>
          OBVIOUS
        <5> QED BY <4>2, <5>1 DEF WindowWith
      <4> QED BY <2>1, <4>1, <4>2
    <3>3. Len(<<s>>) = 1 /\ <<s>>[1] = s
      OBVIOUS
    <3>4. Len(w) = 1 /\ w[1] = s
      BY <3>2, <3>3, Zenon
    <3> HIDE DEF w
    <3>5. \A i \in 1 .. Len(w) : i = 1
      BY <3>4
    <3>6. segs'[s].pid = p /\ p + 1 - 1 = p
      BY <1>0, <1>2, <1>3
    <3>7. p # 0 /\ p + 1 = p + Len(w) /\ p = p + 1 - 1
      BY <1>0, <3>4
    <3> QED BY <3>1, <3>4, <3>5, <3>6, <3>7
  <2>2. CASE ~Stale /\ window # << >>
    <3>1. base_id # 0 /\ base_id + Len(window) = pid_seed + 1
      BY <2>2 DEF NumbersInv, Numbered
    <3>2. Len(window) > 0
      BY <2>2, <1>0
    <3>3. WindowBase(p) = base_id
      BY <2>2, <3>1, <3>2, <1>0 DEF WindowBase
    <3>4. w = Append(window, s)
      BY <2>2 DEF WindowWith
    <3>5. /\ Len(w) = Len(window) + 1 /\ w[Len(window) + 1] = s
          /\ \A j \in 1 .. Len(window) : w[j] = window[j]
      <4>1. /\ Len(Append(window, s)) = Len(window) + 1
            /\ Append(window, s)[Len(window) + 1] = s
            /\ \A j \in 1 .. Len(window) : Append(window, s)[j] = window[j]
        <5>1. window \in Seq(Nat) /\ s \in Nat
          BY <1>0, SeqMonotonic
        <5> QED BY <5>1, AppendProperties
      <4> QED BY <3>4, <4>1, Zenon
    <3> HIDE DEF w
    <3>6. ASSUME NEW i \in 1 .. Len(w), w[i] \in DOMAIN segs'
          PROVE  segs'[w[i]].pid = base_id + i - 1
      <4>1. CASE i = Len(window) + 1
        BY <4>1, <3>1, <3>5, <1>0, <1>2, <1>3
      <4>2. CASE i # Len(window) + 1
        <5>0. i \in 1 .. (Len(window) + 1) /\ Len(window) \in Nat
          BY <3>5, <1>0
        <5>1. i \in 1 .. Len(window)
          BY <4>2, <5>0
        <5>2. w[i] = window[i] /\ window[i] \in 1 .. send_seed
          BY <5>1, <3>5, <1>0
        <5>3. w[i] \in DOMAIN segs \union {s}
          BY <3>6, <1>3
        <5>4. window[i] \in DOMAIN segs
          BY <5>2, <5>3, <1>0
        <5> QED BY <5>1, <5>2, <5>4, <1>3 DEF NumbersInv, WindowConsecutive
      <4> QED BY <4>1, <4>2
    <3>7. base_id + Len(w) = p + 1
      BY <3>1, <3>5, <1>0
    <3> QED BY <3>1, <3>3, <3>6, <3>7
  <2> QED BY <2>1, <2>2
<1> HIDE DEF w
<1>7. Numbered' /\ WindowConsecutive'
  <2>1. CASE window' = << >>
    <3>1. Len(window') = 0
      BY <2>1
    <3> QED BY <1>4, <2>1, <3>1 DEF Numbered, WindowConsecutive
  <2>2. CASE window' = w /\ base_id' = WindowBase(p) /\ UseFec
    BY <1>1, <1>4, <1>6, <2>2 DEF Numbered, WindowConsecutive
  <2>3. CASE UNCHANGED <<window, base_id>> /\ ~UseFec
    <3>1. window = << >> /\ window' = << >>
      BY <2>3 DEF NumbersInv, Numbered
    <3>2. Len(window') = 0
      BY <3>1
    <3> QED BY <1>4, <3>1, <3>2 DEF Numbered, WindowConsecutive
  <2> QED BY <1>5, <2>1, <2>2, <2>3
<1>8. RepairPossible'
  BY <1>1, <1>2, <1>3 DEF NumbersInv, RepairPossible
<1>9. BaseIsContiguous'
  BY <1>1 DEF NumbersInv, BaseIsContiguous
<1> QED BY <1>7, <1>8, <1>9 DEF NumbersInv

\* A segment that goes takes its own packet's entry along, and no other: no two
\* segments have the same packet id.
LEMMA EvictNumbers == ASSUME PointersInv, NumbersInv, Evict PROVE NumbersInv'
<1> DEFINE old == Leading(segs, {s \in DOMAIN segs : segs[s].ts + first_ts + SegKeep <= now})
<1>1. /\ segs' = Without(segs, old)
      /\ ack_cache' = Without(ack_cache, Forgotten(old))
      /\ UNCHANGED <<base, pid_seed, window, base_id, done, cleaned>>
  BY DEF Evict, seeds, flex, env
<1>2. old \subseteq DOMAIN segs
  BY DEF Leading
<1> HIDE DEF old
<1>3. /\ DOMAIN segs' = DOMAIN segs \ old
      /\ \A s \in DOMAIN segs' : segs'[s] = segs[s]
      /\ DOMAIN ack_cache' = DOMAIN ack_cache \ Forgotten(old)
  BY <1>1 DEF Without
<1>4. Numbered' /\ WindowConsecutive'
  BY <1>1, <1>3, QuietNumbers
<1>5. ASSUME NEW s \in DOMAIN segs' PROVE segs[s].pid \notin Forgotten(old)
  <2> SUFFICES ASSUME NEW t \in old, segs[t].pid = segs[s].pid PROVE FALSE
    BY DEF Forgotten
  <2>1. t \in DOMAIN segs /\ s \in DOMAIN segs /\ s # t
    BY <1>2, <1>3
  <2>2. s \in Nat /\ t \in Nat /\ segs[s].pid \in Nat /\ segs[t].pid \in Nat
    BY <2>1, NumberTypes
  <2>3. s < t \/ t < s
    BY <2>1, <2>2
  <2>4. segs[s].pid < segs[t].pid \/ segs[t].pid < segs[s].pid
    BY <2>1, <2>3 DEF NumbersInv, Numbered
  <2> QED BY <2>2, <2>4
<1>6. RepairPossible'
  BY <1>1, <1>3, <1>5 DEF NumbersInv, RepairPossible
<1> QED BY <1>1, <1>4, <1>6 DEF NumbersInv, BaseIsContiguous

LEMMA TransmitNumbers == ASSUME PointersInv, NumbersInv, Transmit PROVE NumbersInv'
<1>1. UNCHANGED <<ack_cache, base, pid_seed, window, base_id, done, cleaned>>
  BY DEF Transmit, seeds, flex
<1>2. DOMAIN segs' = DOMAIN segs /\ \A s \in DOMAIN segs : segs'[s].pid = segs[s].pid
  <2> DEFINE n == Next1(waiting)
  <2>1. segs' = segs \/ (n \in DOMAIN segs /\ segs' = With(segs, n, SegSentAt(n)))
    BY DEF Transmit
  <2>2. n \in DOMAIN segs => SegSentAt(n).pid = segs[n].pid
    <3>1. n \in DOMAIN segs => segs[n] \in [pid : Nat, ts : Nat, send_ts : Nat]
      BY DEF PointersInv, TypeOK, Segment
    <3> QED BY <3>1 DEF SegSentAt
  <2> HIDE DEF n
  <2> QED BY <2>1, <2>2 DEF With
<1>3. Numbered' /\ WindowConsecutive'
  BY <1>1, <1>2, QuietNumbers
<1> QED BY <1>1, <1>2, <1>3 DEF NumbersInv, RepairPossible, BaseIsContiguous

LEMMA CleanNumbers == ASSUME PointersInv, NumbersInv, CleanAckCache PROVE NumbersInv'
<1>1. UNCHANGED <<segs, base, pid_seed, window, base_id, done>> /\ cleaned' = pid_seed
  BY DEF CleanAckCache, seeds, flex, env
<1>2. Numbered' /\ WindowConsecutive'
  BY <1>1, QuietNumbers
<1>3. RepairPossible'
  BY <1>1, NumberTypes DEF RepairPossible
<1> QED BY <1>1, <1>2, <1>3 DEF NumbersInv, BaseIsContiguous

LEMMA StepNumbers == ASSUME PointersInv, NumbersInv, [Next]_vars PROVE NumbersInv'
<1>1. ASSUME NEW n \in 1 .. MaxFrame, PutFrame(n) PROVE NumbersInv'
  BY <1>1 DEF PutFrame, caches, flex, env, NumbersInv, Numbered, RepairPossible,
              WindowConsecutive, BaseIsContiguous
<1>2. ASSUME NEW p \in 1 .. top, Settle(p) PROVE NumbersInv'
  BY <1>2 DEF Settle, caches, seeds, flex, NumbersInv, Numbered, RepairPossible,
              WindowConsecutive, BaseIsContiguous
<1>3. ASSUME AckAny PROVE NumbersInv'
  <2>1. PICK b \in Bases, received \in SUBSET done :
           \E got, missing : Ack(b, got, received, missing)
    <3>1. PICK b \in Bases, got \in done :
             \/ Ack(b, got, {}, {})
             \/ \E p \in done : Ack(b, got, {p}, {})
             \/ \E p \in 1 .. top : Ack(b, got, {}, {p})
      BY <1>3 DEF AckAny
    <3>2. {} \in SUBSET done /\ \A p \in done : {p} \in SUBSET done
      OBVIOUS
    <3> QED BY <3>1, <3>2
  <2>2. /\ ack_cache' = Without(ack_cache, NoLongerNeeded(b) \union received)
        /\ base' = Raised(b) /\ UNCHANGED <<segs, seeds, flex, env, cleaned>>
    BY <2>1 DEF Ack
  <2> QED BY <2>2, TrimNumbers
<1>4. ASSUME NEW b \in Bases, Feedback(b) PROVE NumbersInv'
  <2>1. NoLongerNeeded(b) = NoLongerNeeded(b) \union {} /\ {} \in SUBSET done
    OBVIOUS
  <2>2. /\ ack_cache' = Without(ack_cache, NoLongerNeeded(b) \union {})
        /\ base' = Raised(b) /\ UNCHANGED <<segs, seeds, flex, env, cleaned>>
    BY <1>4, <2>1 DEF Feedback
  <2> QED BY <2>1, <2>2, TrimNumbers
<1>5. ASSUME Tick \/ UNCHANGED vars PROVE NumbersInv'
  BY <1>5 DEF Tick, vars, caches, seeds, flex, env, NumbersInv, Numbered, RepairPossible,
              WindowConsecutive, BaseIsContiguous
<1> QED BY <1>1, <1>2, <1>3, <1>4, <1>5, PutSegmentNumbers, EvictNumbers, TransmitNumbers,
           CleanNumbers DEF Next

-----------------------------------------------------------------------------
(* The theorems *)

\* The sender's books agree in every state: types, order of times, pointers,
\* numbers, what can still be repaired and the base.
THEOREM SenderConsistent == Spec => []SenderInv
<1>1. Init => NumbersInv
  BY InitNumbers
<1>2. PointersInv /\ NumbersInv /\ [Next]_vars => NumbersInv'
  BY StepNumbers
<1>3. PointersInv /\ NumbersInv => SenderInv
  BY DEF SenderInv
<1> QED BY <1>1, <1>2, <1>3, PointersConsistent, PTL DEF Spec

\* Every variable of the sender keeps its type: in particular a segment's
\* relative times never go below zero (unsigned fields of the packet), and the
\* caches and the pacer hold only ids that were handed out.
THEOREM TypeCorrect == Spec => []TypeOK
<1>1. PointersInv => TypeOK
  BY DEF PointersInv
<1> QED BY <1>1, PointersConsistent, PTL

\* sim_sender_ack reads through the pointers of ack_cache (sim_sender.c:425):
\* the segment is never one that sim_sender_evict_cache freed.
THEOREM AckPointersAlive == Spec => []AckPointsAlive
<1>1. PointersInv => AckPointsAlive
  BY DEF PointersInv
<1> QED BY <1>1, PointersConsistent, PTL

\* flex_fec_sender_update computes FEC packets from segments that still exist,
\* because a window with a pointer to an evicted segment is so old that the
\* next segment starts it anew, before anything reads it.
THEOREM FecFromLiveSegments == Spec => FecFromLive
<1> DEFINE Made == DOMAIN fecs' \ DOMAIN fecs # {}
<1> DEFINE Alive == LET w == WindowWith(send_seed + 1)
                    IN  \A i \in 1 .. Len(w) : w[i] \in DOMAIN segs'
<1>1. ASSUME PointersInv, [Next]_vars PROVE [Made => Alive]_vars
  <2>1. ASSUME PutSegment PROVE Alive
    BY <1>1, <2>1, NextWindowAlive
  <2>2. ASSUME Transmit PROVE ~Made
    BY <2>2 DEF Transmit, With
  <2>3. ASSUME Evict PROVE ~Made
    BY <2>3 DEF Evict, Without
  <2>4. ASSUME NEW b, NEW got, NEW received, NEW missing, Ack(b, got, received, missing)
        PROVE  ~Made
    BY <2>4 DEF Ack
  <2>5. ASSUME AckAny PROVE ~Made
    BY <2>4, <2>5 DEF AckAny
  <2>6. ASSUME NEW n, PutFrame(n) PROVE ~Made
    BY <2>6 DEF PutFrame, caches
  <2>7. ASSUME NEW p, Settle(p) PROVE ~Made
    BY <2>7 DEF Settle, caches
  <2>8. ASSUME NEW b, Feedback(b) PROVE ~Made
    BY <2>8 DEF Feedback
  <2>9. ASSUME CleanAckCache \/ Tick PROVE ~Made
    BY <2>9 DEF CleanAckCache, Tick, caches
  <2> HIDE DEF Made, Alive
  <2> QED BY <1>1, <2>1, <2>2, <2>3, <2>5, <2>6, <2>7, <2>8, <2>9 DEF Next
<1>2. Spec => [][Made => Alive]_vars
  BY <1>1, PointersConsistent, PTL DEF Spec
<1> QED BY <1>2 DEF FecFromLive
=============================================================================
