--------------------------- MODULE SenderCc_proofs ---------------------------
(***************************************************************************)
(* Proofs about congestion control at the sender, for any limits, times,   *)
(* reports and samples.  The operators come first, from the bottom up: the *)
(* rate controller, the detector's walk along the samples of a message,    *)
(* the history of the last second, the estimate from losses.  CcInv is     *)
(* what the actions keep; each also keeps what may change in one step.     *)
(***************************************************************************)
EXTENDS SenderCc, SequenceTheorems, WellFoundedInduction, TLAPS

\* A nonempty set of naturals has a least element: the library says so for a
\* predicate, which is no use to a first-order prover.
LEMMA LeastNat ==
    ASSUME NEW T \in SUBSET Nat, T # {}
    PROVE  \E x \in T : \A y \in T : x <= y
<1> DEFINE Less == {ss \in Nat \X Nat : ss[1] < ss[2]}
<1>1. IsWellFoundedOn(Less, Nat)
  BY NatLessThanWellFounded DEF OpToRel
<1>2. PICK x \in T : \A y \in T : ~(<<y, x>> \in Less)
  <2> HIDE DEF Less
  <2> QED BY <1>1, WFMin
<1>3. \A y \in T : ~(y < x)
  BY <1>2
<1> QED BY <1>3

-----------------------------------------------------------------------------
(* Arithmetic and caps *)

\* What cap_bitrate_to_threshold returns is within the limits, and above an
\* estimate or the rate it was given only if the least rate is.
LEMMA CappedIs ==
    ASSUME NEW e \in Estimations, e.min_conf <= e.max_conf, NEW rate \in Int
    PROVE  \E c \in e.min_conf .. e.max_conf :
              /\ Capped(e, rate) = [e EXCEPT !.curr = c]
              /\ c <= Greater(rate, e.min_conf)
              /\ \A limit \in {e.remb, e.delay_base} \ {0} : c <= Greater(limit, e.min_conf)
<1> DEFINE b1 == IF e.remb > 0 THEN Lesser(rate, e.remb) ELSE rate
           b2 == IF e.delay_base > 0 THEN Lesser(b1, e.delay_base) ELSE b1
           c  == Greater(Lesser(b2, e.max_conf), e.min_conf)
<1>1. e.remb \in Nat /\ e.delay_base \in Nat /\ e.min_conf \in Nat /\ e.max_conf \in Nat
  BY DEF Estimations
<1>2. Capped(e, rate) = [e EXCEPT !.curr = c]
  BY DEF Capped
<1>3. /\ c \in e.min_conf .. e.max_conf
      /\ c <= Greater(rate, e.min_conf)
      /\ \A limit \in {e.remb, e.delay_base} \ {0} : c <= Greater(limit, e.min_conf)
  BY <1>1 DEF Lesser, Greater
<1> HIDE DEF c
<1> QED BY <1>2, <1>3

\* A part of a rate is a natural number.
LEMMA TimesType ==
    ASSUME NEW g \in Nat \X (Nat \ {0}), NEW x \in Nat
    PROVE  Times(g, x) \in Nat
<1> DEFINE n == g[1] * x
           m == g[2]
<1>1. n \in Nat /\ m \in Nat /\ m > 0
  OBVIOUS
<1> HIDE DEF n, m
<1>2. n \div m \in Nat
  BY <1>1
<1> QED BY <1>2 DEF Times, n, m

-----------------------------------------------------------------------------
(* The rate controller *)

\* A controller that has a start rate, between two updates.
AimdFits(a) ==
    /\ a \in Controls /\ a.inited /\ a.state # "decrease"
    /\ a.curr \in a.min .. a.max
    /\ a.region = "near_max" => a.avg >= 0

\* clamp_bitrate stays within the limits and does not raise what is not raised.
LEMMA ClampIs ==
    ASSUME NEW a \in Controls, a.min <= a.max, NEW rate \in Int, NEW incoming \in Nat
    PROVE  /\ Clamp(a, rate, incoming) \in a.min .. a.max
           /\ rate <= a.curr /\ a.min <= a.curr => Clamp(a, rate, incoming) <= a.curr
<1> DEFINE seen == (3 * incoming) \div 2 + ClampSlack
           near == IF rate > a.curr /\ rate > seen THEN Greater(a.curr, seen) ELSE rate
<1>1. seen \in Int
  <2>1. (3 * incoming) \div 2 \in Int
    OBVIOUS
  <2> QED BY <2>1, AimdAssumption
<1>2. Clamp(a, rate, incoming) = Lesser(Greater(near, a.min), a.max)
  BY DEF Clamp
<1> HIDE DEF seen
<1> QED BY <1>1, <1>2 DEF Controls, Lesser, Greater

\* What is added to the rate is a number, whatever the rate and the times.
LEMMA IncreaseType ==
    ASSUME NEW a \in Controls, NEW ts \in Nat
    PROVE  Increase(a, ts) \in Int
<1>1. a.curr \in Nat /\ a.rtt \in Nat /\ a.changed \in Int
  BY DEF Controls
<1>2. NearMaxIncRate(a) \in Int
  <2> DEFINE frame   == a.curr \div FrameRate
             packets == Greater(1, (frame + PacketBits - 1) \div PacketBits)
             scaled  == frame * GrowthMs
             pause   == packets * 2 * (a.rtt + DetectMs)
  <2>1. FrameRate \in Nat \ {0} /\ PacketBits \in Nat \ {0} /\ DetectMs \in Nat \ {0}
        /\ GrowthMs \in Nat \ {0} /\ NearMaxStep \in Nat \ {0}
    BY AimdAssumption
  <2>2. frame \in Nat
    BY <1>1, <2>1
  <2>3. packets \in Nat \ {0}
    <3> HIDE DEF frame
    <3>1. frame + PacketBits - 1 \in Nat
      BY <2>1, <2>2
    <3>2. (frame + PacketBits - 1) \div PacketBits \in Int
      <4> DEFINE n == frame + PacketBits - 1
      <4>1. n \in Nat
        BY <3>1
      <4> HIDE DEF n
      <4>2. n \div PacketBits \in Int
        BY <4>1, <2>1
      <4> QED BY <4>2 DEF n
    <3> QED BY <3>2 DEF Greater
  <2>4. scaled \in Nat /\ pause \in Nat \ {0}
    <3> HIDE DEF frame, packets
    <3>1. a.rtt + DetectMs \in Nat \ {0} /\ packets * 2 \in Nat \ {0}
      BY <1>1, <2>1, <2>3
    <3>2. \A x, y \in Nat \ {0} : x * y \in Nat \ {0}
      OBVIOUS
    <3> QED BY <2>1, <2>2, <3>1, <3>2
  <2>5. NearMaxIncRate(a) = Greater(NearMaxStep, scaled \div pause)
    BY DEF NearMaxIncRate
  <2> HIDE DEF scaled, pause
  <2>6. scaled \div pause \in Int
    BY <2>4
  <2> QED BY <2>1, <2>5, <2>6 DEF Greater
<1>3. CASE a.region = "near_max"
  <2> DEFINE n == (ts - a.changed) * NearMaxIncRate(a)
  <2>1. n \in Int
    BY <1>1, <1>2
  <2>2. Increase(a, ts) = n \div GrowthMs
    BY <1>3 DEF Increase
  <2> HIDE DEF n
  <2> QED BY <2>1, <2>2, AimdAssumption
<1>4. CASE a.region # "near_max"
  <2> DEFINE n == Times(Growth, a.curr) * Lesser(ts - a.changed, GrowthMs)
  <2>1. n \in Int
    <3>1. Times(Growth, a.curr) \in Nat
      BY <1>1, AimdAssumption, TimesType
    <3>2. Lesser(ts - a.changed, GrowthMs) \in Int
      BY <1>1, AimdAssumption DEF Lesser
    <3> QED BY <3>1, <3>2
  <2>2. Increase(a, ts) = Greater(RateStep, n \div GrowthMs)
    BY <1>4 DEF Increase
  <2> HIDE DEF n
  <2>3. n \div GrowthMs \in Int
    BY <2>1, AimdAssumption
  <2> QED BY <2>2, <2>3, AimdAssumption DEF Greater
<1> QED BY <1>3, <1>4

\* A decrease never raises the rate: what is more than the rate is cut to it.
LEMMA DecreasedKeeps ==
    ASSUME NEW a \in Controls, a.min <= a.curr, a.curr <= a.max,
           a.region = "near_max" => a.avg >= 0,
           NEW incoming \in Nat, NEW spread \in Nat, NEW ts \in Nat
    PROVE  /\ AimdFits(Decreased(a, incoming, spread, ts))
           /\ Decreased(a, incoming, spread, ts).curr <= a.curr
           /\ Decreased(a, incoming, spread, ts).min = a.min
           /\ Decreased(a, incoming, spread, ts).max = a.max
<1> DEFINE rate == Times(Beta, incoming)
           cut  == IF a.region # "unknown" THEN Times(Beta, a.avg) ELSE rate
           kept == IF a.avg # -1 /\ incoming < a.avg - spread THEN -1 ELSE a.avg
           avg  == IF kept = -1 THEN incoming ELSE (19 * kept + incoming) \div 20
           to   == IF rate > a.curr THEN Lesser(cut, a.curr) ELSE rate
           curr == Clamp(a, to, incoming)
<1>1. /\ a.curr \in Nat /\ a.min \in Nat /\ a.max \in Nat /\ a.avg \in Nat \cup {-1}
      /\ a.region \in {"near_max", "unknown"}
  BY DEF Controls
<1>2. rate \in Nat
  BY TimesType, AimdAssumption
<1>3. cut \in Nat
  <2>1. CASE a.region # "unknown"
    <3>1. a.avg \in Nat
      BY <1>1, <2>1
    <3> QED BY <2>1, <3>1, TimesType, AimdAssumption
  <2>2. CASE a.region = "unknown"
    BY <2>2, <1>2
  <2> QED BY <2>1, <2>2
<1>4. avg \in Nat
  <2>1. CASE kept = -1
    BY <2>1
  <2>2. CASE kept # -1
    <3>1. kept \in Nat
      BY <1>1, <2>2
    <3> HIDE DEF kept
    <3>2. (19 * kept + incoming) \div 20 \in Nat
      BY <3>1
    <3> QED BY <2>2, <3>2
  <2> QED BY <2>1, <2>2
<1>5. to \in Int /\ to <= a.curr
  <2> HIDE DEF rate, cut
  <2> QED BY <1>1, <1>2, <1>3 DEF Lesser
<1>6. curr \in a.min .. a.max /\ curr <= a.curr
  <2> HIDE DEF to
  <2> QED BY <1>1, <1>5, ClampIs
<1>7. Decreased(a, incoming, spread, ts) =
        [a EXCEPT !.region = "near_max", !.inited = TRUE, !.state = "hold", !.changed = ts,
                  !.avg = avg, !.curr = curr]
  BY DEF Decreased
<1> HIDE DEF avg, curr
<1> DEFINE r == Decreased(a, incoming, spread, ts)
<1>8. /\ r \in Controls
      /\ r.curr = curr /\ r.avg = avg /\ r.inited /\ r.state = "hold"
      /\ r.min = a.min /\ r.max = a.max
  <2> DEFINE r1 == [a EXCEPT !.region = "near_max", !.inited = TRUE, !.state = "hold"]
             r2 == [r1 EXCEPT !.changed = ts, !.avg = avg, !.curr = curr]
  <2>1. curr \in Nat
    BY <1>1, <1>6
  <2>2. r1 \in Controls /\ r1.inited /\ r1.state = "hold" /\ r1.min = a.min /\ r1.max = a.max
    BY DEF Controls
  <2>3. r = r2
    BY <1>7
  <2> HIDE DEF r1, r
  <2> QED BY <1>4, <2>1, <2>2, <2>3 DEF Controls
<1> HIDE DEF r
<1>9. AimdFits(r)
  BY <1>1, <1>4, <1>6, <1>8 DEF AimdFits
<1> QED BY <1>6, <1>8, <1>9 DEF r

\* An increase ends within the limits, and what it forgets it forgets wholly.
LEMMA IncreasedKeeps ==
    ASSUME NEW a \in Controls, a.min <= a.curr, a.curr <= a.max, a.inited,
           a.state # "decrease", a.region = "near_max" => a.avg >= 0,
           NEW incoming \in Nat, NEW spread \in Nat, NEW ts \in Nat
    PROVE  /\ AimdFits(Increased(a, incoming, spread, ts))
           /\ Increased(a, incoming, spread, ts).min = a.min
           /\ Increased(a, incoming, spread, ts).max = a.max
<1> DEFINE freed == IF a.avg >= 0 /\ incoming > a.avg + spread
                    THEN [a EXCEPT !.region = "unknown", !.avg = -1] ELSE a
           to    == a.curr + Increase(freed, ts)
           curr  == Clamp(a, to, incoming)
<1>1. /\ freed \in Controls /\ freed.inited /\ freed.state # "decrease"
      /\ freed.min = a.min /\ freed.max = a.max
      /\ freed.region = "near_max" => freed.avg >= 0
  BY DEF Controls
<1>2. a.min \in Nat /\ a.max \in Nat /\ a.curr \in Nat
  BY DEF Controls
<1>3. to \in Int
  <2> HIDE DEF freed
  <2> QED BY <1>1, <1>2, IncreaseType
<1>4. curr \in a.min .. a.max
  <2> HIDE DEF to
  <2> QED BY <1>2, <1>3, ClampIs
<1>5. Increased(a, incoming, spread, ts) = [freed EXCEPT !.changed = ts, !.curr = curr]
  BY DEF Increased
<1> HIDE DEF freed, curr
<1> DEFINE r == Increased(a, incoming, spread, ts)
<1>6. /\ r \in Controls
      /\ r.curr = curr /\ r.avg = freed.avg /\ r.inited /\ r.state = freed.state
      /\ r.min = a.min /\ r.max = a.max /\ r.region = freed.region
  <2>1. curr \in Nat
    BY <1>2, <1>4
  <2> QED BY <1>1, <1>5, <2>1 DEF Controls
<1> HIDE DEF r
<1>7. AimdFits(r)
  BY <1>1, <1>4, <1>6 DEF AimdFits
<1> QED BY <1>6, <1>7 DEF r

\* An update keeps the controller together, and one while the path is overused
\* does not raise its rate.
LEMMA AimdUpdateKeeps ==
    ASSUME NEW a, AimdFits(a), NEW verdict \in Verdicts, NEW seen \in Nat, NEW spread \in Nat,
           NEW ts \in Nat
    PROVE  /\ AimdFits(AimdUpdate(a, verdict, seen, spread, ts))
           /\ verdict = "overusing" => AimdUpdate(a, verdict, seen, spread, ts).curr <= a.curr
<1> DEFINE incoming == IF seen = 0 THEN a.curr ELSE seen
           b        == ChangeState(a, verdict, ts)
           r        == AimdUpdate(a, verdict, seen, spread, ts)
<1>1. /\ a \in Controls /\ a.curr \in Nat /\ a.min \in Nat /\ a.max \in Nat /\ incoming \in Nat
      /\ a.min <= a.curr /\ a.curr <= a.max
  BY DEF AimdFits, Controls
<1>2. /\ b \in Controls /\ b.inited /\ b.region = a.region /\ b.avg = a.avg
      /\ b.curr = a.curr /\ b.min = a.min /\ b.max = a.max
      /\ b.state = "decrease" <=> verdict = "overusing"
  BY DEF AimdFits, Controls, ChangeState, Verdicts
<1>3. r = CASE b.state = "hold"     -> [b EXCEPT !.curr = Clamp(b, @, incoming)]
            [] b.state = "increase" -> Increased(b, incoming, spread, ts)
            [] b.state = "decrease" -> Decreased(b, incoming, spread, ts)
  BY DEF AimdUpdate, ChangeBitrate, AimdFits
<1> HIDE DEF incoming, b, r
<1>4. b.region = "near_max" => b.avg >= 0
  BY <1>2 DEF AimdFits
<1>5. CASE b.state = "hold"
  <2> DEFINE curr == Clamp(b, b.curr, incoming)
  <2>1. curr \in b.min .. b.max
    BY <1>1, <1>2, ClampIs
  <2>2. r = [b EXCEPT !.curr = curr]
    BY <1>3, <1>5
  <2> HIDE DEF curr
  <2> QED BY <1>1, <1>2, <1>4, <1>5, <2>1, <2>2 DEF AimdFits, Controls, r
<1>6. CASE b.state = "increase"
  <2>1. r = Increased(b, incoming, spread, ts)
    BY <1>3, <1>6
  <2>2. AimdFits(Increased(b, incoming, spread, ts))
    BY <1>1, <1>2, <1>4, <1>6, IncreasedKeeps
  <2> QED BY <1>2, <1>6, <2>1, <2>2 DEF r
<1>7. CASE b.state = "decrease"
  <2>1. r = Decreased(b, incoming, spread, ts)
    BY <1>3, <1>7
  <2>2. /\ AimdFits(Decreased(b, incoming, spread, ts))
        /\ Decreased(b, incoming, spread, ts).curr <= b.curr
    BY <1>1, <1>2, <1>4, DecreasedKeeps
  <2> QED BY <1>2, <2>1, <2>2 DEF r
<1> QED BY <1>2, <1>5, <1>6, <1>7 DEF Controls

\* The delay part of a message, with and without a rate that is acknowledged.
LEMMA DelayUpdateKeeps ==
    ASSUME NEW a, AimdFits(a), NEW verdict \in Verdicts, NEW rate \in Nat, NEW spread \in Nat,
           NEW ts \in Nat
    PROVE  /\ AimdFits(DelayUpdate(a, verdict, rate, spread, ts))
           /\ verdict = "overusing" => DelayUpdate(a, verdict, rate, spread, ts).curr <= a.curr
<1> DEFINE part == (a.curr * 3) \div 4
           curr == Clamp(a, part, part)
           r    == SetEstimate(a, part, ts)
<1>1. /\ a \in Controls /\ a.curr \in Nat /\ a.min \in Nat /\ a.max \in Nat
      /\ a.min <= a.curr /\ a.curr <= a.max
  BY DEF AimdFits, Controls
<1>2. part \in Nat /\ part <= a.curr
  BY <1>1
<1>3. curr \in a.min .. a.max /\ curr <= a.curr
  <2> HIDE DEF part
  <2> QED BY <1>1, <1>2, ClampIs
<1>4. r = [a EXCEPT !.inited = TRUE, !.curr = curr, !.changed = ts]
  BY DEF SetEstimate
<1>5. AimdFits(r) /\ r.curr <= a.curr
  <2> HIDE DEF curr, r
  <2>1. curr \in Nat
    BY <1>1, <1>3
  <2>2. /\ r \in Controls /\ r.curr = curr /\ r.inited /\ r.state = a.state
        /\ r.min = a.min /\ r.max = a.max /\ r.region = a.region /\ r.avg = a.avg
    BY <1>1, <1>4, <2>1 DEF Controls
  <2> QED BY <1>1, <1>3, <2>2 DEF AimdFits
<1>6. DelayUpdate(a, verdict, rate, spread, ts) \in
         {AimdUpdate(a, verdict, rate, spread, ts), r, a}
  BY DEF DelayUpdate
<1>7. LET u == AimdUpdate(a, verdict, rate, spread, ts)
      IN  AimdFits(u) /\ (verdict = "overusing" => u.curr <= a.curr)
  BY AimdUpdateKeeps
<1>8. AimdFits(a) /\ a.curr <= a.curr
  BY <1>1
<1> HIDE DEF r
<1> QED BY <1>5, <1>6, <1>7, <1>8

\* New limits put the rate at their start, whatever it was.
LEMMA AimdWithBitratesFits ==
    ASSUME NEW a \in Controls, a.state # "decrease", a.region = "near_max" => a.avg >= 0,
           NEW l \in Limits
    PROVE  AimdFits(AimdWithBitrates(a, l))
<1> DEFINE r1 == SetMinRate(a, l.min)
           r2 == SetMaxRate(r1, l.max)
           r3 == SetStart(r2, l.start)
<1>1. l.min \in Nat /\ l.max \in Nat /\ l.start \in Nat /\ l.min <= l.start /\ l.start <= l.max
  BY SenderCcAssumption
<1>2. r1 \in Controls /\ r1.min = l.min /\ r1.state = a.state /\ r1.region = a.region /\ r1.avg = a.avg
  BY <1>1 DEF Controls, SetMinRate, Greater
<1>3. /\ r2 \in Controls /\ r2.min = l.min /\ r2.max = l.max
      /\ r2.state = a.state /\ r2.region = a.region /\ r2.avg = a.avg
  <2> HIDE DEF r1
  <2> QED BY <1>1, <1>2 DEF Controls, SetMaxRate, Lesser
<1>4. AimdFits(r3)
  <2> HIDE DEF r2
  <2>1. r3 = [r2 EXCEPT !.curr = l.start, !.inited = TRUE]
    BY DEF SetStart
  <2> HIDE DEF r3
  <2>2. /\ r3 \in Controls /\ r3.curr = l.start /\ r3.inited /\ r3.state = a.state
        /\ r3.min = l.min /\ r3.max = l.max /\ r3.region = a.region /\ r3.avg = a.avg
    BY <1>1, <1>3, <2>1 DEF Controls
  <2> QED BY <1>1, <2>2 DEF AimdFits
<1> QED BY <1>4 DEF AimdWithBitrates

-----------------------------------------------------------------------------
(* The detector *)

SampleSet == [trend : {"above", "below", "within"}, rising : BOOLEAN, delta : Nat]

\* The state of the walk along the samples of a message.
DetectionFits(e) ==
    /\ e.d \in Detectors /\ e.above \in 0 .. 2
    /\ e.d.counter <= e.above
    /\ e.d.state = "overusing" => e.above = 2

\* One sample: overuse is found only at the second in a row above the threshold.
LEMMA SampledKeeps ==
    ASSUME NEW e, DetectionFits(e), NEW raw \in SampleSet
    PROVE  DetectionFits(Sampled(e, raw))
<1> DEFINE d == e.d
           s == IF d.deltas + 1 < TrendWindow THEN [raw EXCEPT !.trend = "within"] ELSE raw
           time    == IF d.time = -1 THEN s.delta \div 2 ELSE d.time + s.delta
           counter == Lesser(d.counter + 1, 2)
           deltas  == Lesser(d.deltas + 1, DeltasKept)
           streak  == IF d.deltas = 0 THEN e.above
                      ELSE IF s.trend = "above" THEN Lesser(e.above + 1, 2) ELSE 0
           r == Detect(d, s)
<1>1. /\ d.time \in -1 .. OveruseMs + 1 /\ d.counter \in 0 .. 2 /\ d.deltas \in 0 .. DeltasKept
      /\ d.state \in Verdicts /\ e.above \in 0 .. 2 /\ d.counter <= e.above
      /\ d.state = "overusing" => e.above = 2
  BY DEF DetectionFits, Detectors
<1>2. s.delta \in Nat /\ s.delta \div 2 \in Nat
  <2>1. s.delta \in Nat
    BY DEF SampleSet
  <2> HIDE DEF s
  <2> QED BY <2>1
<1>3. OveruseMs \in Nat /\ DeltasKept \in Nat /\ DeltasKept >= 2
  BY AimdAssumption
<1>4. Sampled(e, raw) = [d |-> r, above |-> streak]
  BY DEF Sampled
<1>5. time \in Nat
  <2> HIDE DEF s
  <2> QED BY <1>1, <1>2
<1>6. Lesser(time, OveruseMs + 1) \in -1 .. OveruseMs + 1
  <2> HIDE DEF time
  <2> QED BY <1>3, <1>5 DEF Lesser
<1>7. /\ counter \in 1 .. 2 /\ (counter > 1 => d.counter >= 1) /\ counter <= Lesser(e.above + 1, 2)
      /\ deltas \in 1 .. DeltasKept /\ (deltas < 2 <=> d.deltas = 0)
      /\ streak \in 0 .. 2
  BY <1>1, <1>3 DEF Lesser
<1>8. d \in Detectors
  BY DEF DetectionFits
<1>9. r = IF deltas < 2 THEN [d EXCEPT !.deltas = deltas]
          ELSE IF s.trend = "above"
               THEN IF time > OveruseMs /\ counter > 1 /\ s.rising
                    THEN [state |-> "overusing", time |-> 0, counter |-> 0, deltas |-> deltas]
                    ELSE [d EXCEPT !.time = Lesser(time, OveruseMs + 1), !.counter = counter,
                                   !.deltas = deltas]
               ELSE [state |-> IF s.trend = "below" THEN "underusing" ELSE "normal",
                     time |-> -1, counter |-> 0, deltas |-> deltas]
  BY DEF Detect
<1>10. streak = IF d.deltas = 0 THEN e.above
                ELSE IF s.trend = "above" THEN Lesser(e.above + 1, 2) ELSE 0
  OBVIOUS
<1> HIDE DEF d, s, time, counter, deltas, streak, r
<1>11. CASE deltas < 2
  BY <1>1, <1>4, <1>7, <1>8, <1>9, <1>10, <1>11, <1>3 DEF Detectors, DetectionFits
<1>12. CASE deltas >= 2 /\ s.trend = "above" /\ time > OveruseMs /\ counter > 1 /\ s.rising
  <2>1. streak = 2
    BY <1>1, <1>7, <1>10, <1>12 DEF Lesser
  <2>2. r = [state |-> "overusing", time |-> 0, counter |-> 0, deltas |-> deltas]
    BY <1>7, <1>9, <1>12
  <2>3. r \in Detectors /\ r.state = "overusing" /\ r.counter = 0
    BY <1>3, <1>7, <2>2 DEF Detectors, Verdicts
  <2> QED BY <1>4, <2>1, <2>3 DEF DetectionFits
<1>13. CASE deltas >= 2 /\ s.trend = "above" /\ ~(time > OveruseMs /\ counter > 1 /\ s.rising)
  <2> DEFINE t == Lesser(time, OveruseMs + 1)
  <2>1. r = [d EXCEPT !.time = t, !.counter = counter, !.deltas = deltas]
    BY <1>7, <1>9, <1>13
  <2>2. t \in -1 .. OveruseMs + 1 /\ counter \in 0 .. 2 /\ deltas \in 0 .. DeltasKept
    BY <1>3, <1>6, <1>7
  <2> HIDE DEF t
  <2>3. r \in Detectors /\ r.state = d.state /\ r.counter = counter
    BY <1>8, <2>1, <2>2 DEF Detectors
  <2>4. streak = Lesser(e.above + 1, 2) /\ (e.above = 2 => streak = 2)
    BY <1>1, <1>7, <1>10, <1>13 DEF Lesser
  <2> QED BY <1>1, <1>4, <1>7, <2>3, <2>4 DEF DetectionFits
<1>14. CASE deltas >= 2 /\ s.trend # "above"
  <2>1. r = [state |-> IF s.trend = "below" THEN "underusing" ELSE "normal",
             time |-> -1, counter |-> 0, deltas |-> deltas]
    BY <1>7, <1>9, <1>14
  <2>2. r \in Detectors /\ r.state # "overusing" /\ r.counter = 0
    BY <1>3, <1>7, <2>1 DEF Detectors, Verdicts
  <2> QED BY <1>4, <1>7, <2>2 DEF DetectionFits
<1> QED BY <1>7, <1>11, <1>12, <1>13, <1>14

\* The walk of Detected from e along the first n samples.
Walk(e, samples, n, g) ==
    g = [i \in 0 .. n |-> IF i = 0 THEN e ELSE Sampled(g[i - 1], samples[i])]

\* The recursive function of Detected exists, by the least length it would not.
LEMMA WalkExists ==
    ASSUME NEW e, NEW samples, NEW n \in Nat
    PROVE  \E g : Walk(e, samples, n, g)
<1> DEFINE Bad == {k \in Nat : ~\E g : Walk(e, samples, k, g)}
<1>1. ASSUME Bad # {} PROVE FALSE
  <2>1. PICK k \in Bad : \A m \in Bad : k <= m
    <3>1. Bad \in SUBSET Nat
      OBVIOUS
    <3> HIDE DEF Bad
    <3> QED BY <1>1, <3>1, LeastNat
  <2>2. k \in Nat /\ ~\E g : Walk(e, samples, k, g)
    BY <2>1
  <2>3. CASE k = 0
    <3> DEFINE g == [i \in 0 .. 0 |-> e]
    <3>1. g = [i \in 0 .. 0 |-> IF i = 0 THEN e ELSE Sampled(g[i - 1], samples[i])]
      OBVIOUS
    <3>2. Walk(e, samples, k, g)
      <4> HIDE DEF g
      <4> QED BY <2>3, <3>1 DEF Walk
    <3> QED BY <2>2, <3>2
  <2>4. CASE k # 0
    <3>1. k - 1 \in Nat /\ k - 1 \notin Bad
      <4>1. k - 1 \in Nat /\ ~(k <= k - 1)
        BY <2>2, <2>4
      <4> HIDE DEF Bad
      <4> QED BY <2>1, <4>1
    <3>2. PICK g : Walk(e, samples, k - 1, g)
      BY <3>1
    <3> DEFINE h == [i \in 0 .. k |-> IF i = 0 THEN e ELSE Sampled(g[i - 1], samples[i])]
    <3>3. \A i \in 0 .. k - 1 : g[i] = IF i = 0 THEN e ELSE Sampled(g[i - 1], samples[i])
      BY <3>2 DEF Walk
    <3>4. \A i \in 0 .. k : i # 0 => i - 1 \in 0 .. k /\ h[i - 1] = g[i - 1]
      BY <2>2, <3>3
    <3>5. h = [i \in 0 .. k |-> IF i = 0 THEN e ELSE Sampled(h[i - 1], samples[i])]
      <4>1. \A i \in 0 .. k : h[i] = IF i = 0 THEN e ELSE Sampled(h[i - 1], samples[i])
        BY <3>4
      <4> QED BY <4>1
    <3>6. Walk(e, samples, k, h)
      <4> HIDE DEF h
      <4> QED BY <3>5 DEF Walk
    <3> QED BY <2>2, <3>6
  <2> QED BY <2>3, <2>4
<1> QED BY <1>1

\* What the walk keeps, by the first sample after which it would be lost.
LEMMA WalkKeeps ==
    ASSUME NEW e, DetectionFits(e), NEW samples \in Seq(SampleSet), NEW g,
           Walk(e, samples, Len(samples), g)
    PROVE  DetectionFits(g[Len(samples)])
<1> DEFINE n == Len(samples)
           Bad == {i \in 0 .. n : ~DetectionFits(g[i])}
<1>1. n \in Nat
  OBVIOUS
<1>2. \A i \in 0 .. n : g[i] = IF i = 0 THEN e ELSE Sampled(g[i - 1], samples[i])
  BY DEF Walk
<1>3. ASSUME Bad # {} PROVE FALSE
  <2>1. PICK k \in Bad : \A m \in Bad : k <= m
    <3>1. Bad \in SUBSET Nat
      BY <1>1
    <3> HIDE DEF Bad
    <3> QED BY <1>3, <3>1, LeastNat
  <2>2. k \in 0 .. n /\ ~DetectionFits(g[k])
    BY <2>1
  <2>3. k # 0
    BY <1>1, <1>2, <2>2
  <2>4. k - 1 \in 0 .. n /\ k - 1 \notin Bad
    <3>1. k - 1 \in 0 .. n /\ ~(k <= k - 1)
      BY <1>1, <2>2, <2>3
    <3> HIDE DEF Bad
    <3> QED BY <2>1, <3>1
  <2>5. DetectionFits(g[k - 1]) /\ samples[k] \in SampleSet
    BY <1>1, <2>2, <2>3, <2>4
  <2>6. g[k] = Sampled(g[k - 1], samples[k])
    BY <1>2, <2>2, <2>3
  <2> QED BY <2>2, <2>5, <2>6, SampledKeeps
<1>4. n \in 0 .. n
  BY <1>1
<1> QED BY <1>3, <1>4

\* A message leaves the detector as consistent as it found it.
LEMMA DetectedKeeps ==
    ASSUME DetectionFits([d |-> detector, above |-> above]), NEW samples \in Samples,
           NEW ts \in Nat
    PROVE  DetectionFits(Detected(samples, ts))
<1> DEFINE fresh == IF seen_ts = -1 \/ ts > seen_ts + GapMs
                    THEN [detector EXCEPT !.deltas = 0] ELSE detector
           e == [d |-> fresh, above |-> above]
           g == CHOOSE g : Walk(e, samples, Len(samples), g)
<1>1. Detected(samples, ts) = g[Len(samples)]
  BY DEF Detected, Walk
<1>2. DetectionFits(e)
  <2>1. detector \in Detectors /\ DeltasKept \in Nat
    BY AimdAssumption DEF DetectionFits
  <2>2. /\ fresh \in Detectors /\ fresh.counter = detector.counter
        /\ fresh.state = detector.state
    BY <2>1 DEF Detectors
  <2> HIDE DEF fresh
  <2> QED BY <2>2 DEF DetectionFits
<1>3. samples \in Seq(SampleSet) /\ Len(samples) \in Nat
  BY SenderCcAssumption DEF SampleSet
<1> HIDE DEF e
<1>4. Walk(e, samples, Len(samples), g)
  <2>1. \E h : Walk(e, samples, Len(samples), h)
    BY <1>3, WalkExists
  <2> QED BY <2>1
<1> HIDE DEF g
<1> QED BY <1>1, <1>2, <1>3, <1>4, WalkKeeps

-----------------------------------------------------------------------------
(* The history of the last second's rates *)

Entry == [ts : Nat, rate : Nat]

Rising(h) == \A i, j \in 1 .. Len(h) : i < j => h[i].rate < h[j].rate

\* The history holds a rate that is not above m's, at least as new.
Covers(h, m) == \E i \in 1 .. Len(h) : h[i].ts >= m.ts /\ h[i].rate <= m.rate

\* Both walks of sender_estimation_update_history end.
LEMMA WalksEnd ==
    ASSUME NEW n \in Nat, NEW Old \in SUBSET Nat, NEW High \in SUBSET Nat
    PROVE  /\ \E first \in 1 .. n + 1 :
                 (\A j \in 1 .. first - 1 : j \in Old) /\ (first <= n => first \notin Old)
           /\ \A first \in 1 .. n + 1 : \E final \in first - 1 .. n :
                 (\A j \in final + 1 .. n : j \in High) /\ (final >= first => final \notin High)
<1>1. \E first \in 1 .. n + 1 :
         (\A j \in 1 .. first - 1 : j \in Old) /\ (first <= n => first \notin Old)
  <2> DEFINE Ends == {i \in 1 .. n + 1 : i <= n => i \notin Old}
  <2>1. PICK first \in Ends : \A i \in Ends : first <= i
    <3>1. n + 1 \in Ends /\ Ends \in SUBSET Nat
      OBVIOUS
    <3> HIDE DEF Ends
    <3> QED BY <3>1, LeastNat
  <2>2. ASSUME NEW j \in 1 .. first - 1, j \notin Old PROVE FALSE
    <3>1. j \in Ends /\ ~(first <= j)
      BY <2>1, <2>2
    <3> QED BY <2>1, <3>1
  <2> QED BY <2>1, <2>2
<1>2. ASSUME NEW first \in 1 .. n + 1
      PROVE  \E final \in first - 1 .. n :
                 (\A j \in final + 1 .. n : j \in High) /\ (final >= first => final \notin High)
  <2> DEFINE Ends == {k \in 0 .. n - first + 1 : n - k >= first => n - k \notin High}
  <2>1. PICK k \in Ends : \A i \in Ends : k <= i
    <3>1. n - first + 1 \in Ends /\ Ends \in SUBSET Nat
      OBVIOUS
    <3> HIDE DEF Ends
    <3> QED BY <3>1, LeastNat
  <2> DEFINE final == n - k
  <2>2. ASSUME NEW j \in final + 1 .. n, j \notin High PROVE FALSE
    <3>1. n - j \in Ends /\ ~(k <= n - j)
      BY <2>1, <2>2
    <3> QED BY <2>1, <3>1
  <2>3. final \in first - 1 .. n /\ (final >= first => final \notin High)
    BY <2>1
  <2> HIDE DEF final
  <2> QED BY <2>2, <2>3
<1> QED BY <1>1, <1>2

\* The new history rises, holds the rate of now and covers every rate of the last
\* second that the old one covered.
LEMMA HistoryUpdated ==
    ASSUME NEW e \in Estimations, NEW ts \in Nat, Rising(e.history),
           \A i \in 1 .. Len(e.history) : e.history[i].ts <= ts
    PROVE  LET r == UpdateHistory(e, ts)
               h == r.history
           IN  /\ r = [e EXCEPT !.history = h]
               /\ h \in Seq(Entry) /\ h # << >> /\ Rising(h)
               /\ \A i \in 1 .. Len(h) : h[i].ts <= ts
               /\ Covers(h, [ts |-> ts, rate |-> e.curr])
               /\ \A m \in Entry : m.ts + IncreaseMs >= ts /\ Covers(e.history, m) => Covers(h, m)
<1> DEFINE k == e.history
           n == Len(k)
           Old  == {i \in 1 .. n : k[i].ts + IncreaseMs < ts}
           High == {i \in 1 .. n : k[i].rate >= e.curr}
           first == CHOOSE i \in 1 .. n + 1 :
                       (\A j \in 1 .. i - 1 : k[j].ts + IncreaseMs < ts)
                       /\ (i <= n => ~(k[i].ts + IncreaseMs < ts))
           final == CHOOSE i \in first - 1 .. n :
                       (\A j \in i + 1 .. n : k[j].rate >= e.curr)
                       /\ (i >= first => ~(k[i].rate >= e.curr))
           now1 == [ts |-> ts, rate |-> e.curr]
           kept == SubSeq(k, first, final)
           h == Append(kept, now1)
<1>1. k \in Seq(Entry) /\ n \in Nat /\ e.curr \in Nat /\ IncreaseMs \in Nat
  BY EstimationAssumption DEF Estimations, Entry
<1>1a. \A i \in 1 .. n : k[i] \in Entry
  BY <1>1
<1>2. UpdateHistory(e, ts) = [e EXCEPT !.history = h]
  BY DEF UpdateHistory
<1>3. /\ first \in 1 .. n + 1
      /\ \A j \in 1 .. first - 1 : k[j].ts + IncreaseMs < ts
      /\ first <= n => ~(k[first].ts + IncreaseMs < ts)
  <2>1. \E f \in 1 .. n + 1 :
           (\A j \in 1 .. f - 1 : j \in Old) /\ (f <= n => f \notin Old)
    <3>1. Old \in SUBSET Nat /\ High \in SUBSET Nat
      OBVIOUS
    <3> HIDE DEF Old, High
    <3> QED BY <1>1, <3>1, WalksEnd
  <2>2. \E f \in 1 .. n + 1 : (\A j \in 1 .. f - 1 : k[j].ts + IncreaseMs < ts)
                              /\ (f <= n => ~(k[f].ts + IncreaseMs < ts))
    BY <2>1
  <2> HIDE DEF k, n
  <2> QED BY <2>2
<1> HIDE DEF first
<1>4. /\ final \in first - 1 .. n
      /\ \A j \in final + 1 .. n : k[j].rate >= e.curr
      /\ final >= first => ~(k[final].rate >= e.curr)
  <2>1. \E f \in first - 1 .. n :
           (\A j \in f + 1 .. n : j \in High) /\ (f >= first => f \notin High)
    <3>1. Old \in SUBSET Nat /\ High \in SUBSET Nat
      OBVIOUS
    <3> HIDE DEF Old, High, k, n
    <3>2. \A f \in 1 .. n + 1 : \E l \in f - 1 .. n :
             (\A j \in l + 1 .. n : j \in High) /\ (l >= f => l \notin High)
      BY <1>1, <3>1, WalksEnd
    <3> QED BY <1>3, <3>2
  <2>2. \E f \in first - 1 .. n : (\A j \in f + 1 .. n : k[j].rate >= e.curr)
                                  /\ (f >= first => ~(k[f].rate >= e.curr))
    BY <1>1, <1>3, <2>1
  <2> HIDE DEF k, n
  <2> QED BY <2>2
<1> HIDE DEF final
<1>5. /\ kept \in Seq(Entry) /\ Len(kept) = final - first + 1
      /\ \A i \in 1 .. final - first + 1 : kept[i] = k[first + i - 1]
  <2> HIDE DEF k
  <2> QED BY <1>1, <1>3, <1>4, SubSeqProperties
<1>6. now1 \in Entry /\ now1.ts = ts /\ now1.rate = e.curr
  BY <1>1 DEF Entry
<1> HIDE DEF kept, now1
<1> DEFINE len == final - first + 1
<1>7. len \in Nat
  BY <1>1, <1>3, <1>4
<1>8. /\ h \in Seq(Entry) /\ Len(h) = len + 1 /\ h[len + 1] = now1
      /\ \A i \in 1 .. len : h[i] = k[first + i - 1]
  BY <1>5, <1>6, <1>7, AppendProperties
<1> HIDE DEF h
<1>9. Rising(k) /\ \A i \in 1 .. n : k[i].ts <= ts
  OBVIOUS
<1> HIDE DEF k, n, len
<1>10. \A i \in 1 .. len : first + i - 1 \in 1 .. n /\ first + i - 1 <= final
  BY <1>1, <1>3, <1>4, <1>7 DEF len
<1>11. \A i \in 1 .. n : k[i] \in Entry /\ k[i].rate \in Nat /\ k[i].ts \in Nat
  BY <1>1a DEF Entry
<1>12. \A i \in 1 .. len : h[i].rate < e.curr
  <2> SUFFICES ASSUME NEW i \in 1 .. len PROVE h[i].rate < e.curr
    OBVIOUS
  <2>1. final \in 1 .. n /\ final >= first
    BY <1>1, <1>3, <1>4, <1>7 DEF len
  <2>2. k[final].rate < e.curr
    BY <1>1, <1>4, <1>11, <2>1
  <2>3. k[first + i - 1].rate <= k[final].rate
    <3>1. first + i - 1 \in 1 .. n /\ first + i - 1 <= final /\ Len(k) = n
      BY <1>10 DEF n
    <3>2. CASE first + i - 1 = final
      BY <1>11, <2>1, <3>2
    <3>3. CASE first + i - 1 < final
      BY <1>9, <1>11, <2>1, <3>1, <3>3 DEF Rising
    <3> QED BY <1>1, <1>3, <1>4, <1>7, <3>1, <3>2, <3>3
  <2> QED BY <1>1, <1>8, <1>10, <1>11, <2>1, <2>2, <2>3
<1>13. Rising(h)
  <2> SUFFICES ASSUME NEW i \in 1 .. len + 1, NEW j \in 1 .. len + 1, i < j
               PROVE  h[i].rate < h[j].rate
    BY <1>8 DEF Rising
  <2>1. i \in 1 .. len
    BY <1>7
  <2>2. CASE j = len + 1
    BY <1>6, <1>8, <1>12, <2>1, <2>2
  <2>3. CASE j # len + 1
    <3>1. j \in 1 .. len
      BY <1>7, <2>3
    <3>2. first + i - 1 \in 1 .. n /\ first + j - 1 \in 1 .. n /\ first + i - 1 < first + j - 1
      BY <1>1, <1>3, <1>7, <1>10, <2>1, <3>1
    <3> QED BY <1>8, <1>9, <2>1, <3>1, <3>2 DEF Rising, n
  <2> QED BY <2>2, <2>3
<1>14. \A i \in 1 .. len + 1 : h[i].ts <= ts
  <2> SUFFICES ASSUME NEW i \in 1 .. len + 1 PROVE h[i].ts <= ts
    OBVIOUS
  <2>1. CASE i = len + 1
    BY <1>6, <1>8, <2>1
  <2>2. CASE i # len + 1
    <3>1. i \in 1 .. len
      BY <1>7, <2>2
    <3> QED BY <1>8, <1>9, <1>10, <3>1
  <2> QED BY <2>1, <2>2
<1>15. len + 1 \in 1 .. Len(h)
  BY <1>7, <1>8
<1>16. Covers(h, now1)
  BY <1>1, <1>6, <1>8, <1>15 DEF Covers
<1>17. ASSUME NEW m \in Entry, m.ts + IncreaseMs >= ts, Covers(k, m) PROVE Covers(h, m)
  <2>1. PICK i \in 1 .. n : k[i].ts >= m.ts /\ k[i].rate <= m.rate
    BY <1>17 DEF Covers, n
  <2>2. m.ts \in Nat /\ m.rate \in Nat
    BY DEF Entry
  <2>3. i >= first
    BY <1>1, <1>3, <1>11, <1>17, <2>1, <2>2
  <2>4. CASE i <= final
    <3>1. i - first + 1 \in 1 .. len /\ first + (i - first + 1) - 1 = i
      BY <1>1, <1>3, <1>4, <2>3, <2>4 DEF len
    <3>2. h[i - first + 1] = k[i] /\ i - first + 1 \in 1 .. Len(h)
      BY <1>7, <1>8, <3>1
    <3> QED BY <2>1, <3>2 DEF Covers
  <2>5. CASE i > final
    <3>1. i \in final + 1 .. n
      BY <1>1, <1>3, <1>4, <2>5
    <3>2. e.curr <= m.rate
      BY <1>1, <1>4, <1>11, <2>1, <2>2, <3>1
    <3>3. ts >= m.ts
      BY <1>9, <1>11, <2>1, <2>2
    <3> QED BY <1>6, <1>8, <1>15, <3>2, <3>3 DEF Covers
  <2> QED BY <1>1, <1>3, <1>4, <2>4, <2>5
<1>18. /\ UpdateHistory(e, ts).history = h
       /\ UpdateHistory(e, ts) = [e EXCEPT !.history = UpdateHistory(e, ts).history]
  BY <1>2 DEF Estimations
<1>19. h # << >> /\ Len(h) = len + 1
  BY <1>8, <1>15
<1> QED BY <1>6, <1>8, <1>13, <1>14, <1>16, <1>17, <1>18, <1>19 DEF k, now1

-----------------------------------------------------------------------------
(* The estimate from losses *)

\* The rate is within the limits and exceeds no estimate, unless they are below
\* the least rate allowed.
Limited(e) ==
    /\ e.curr \in e.min_conf .. e.max_conf
    /\ \A limit \in {e.remb, e.delay_base} \ {0} : e.curr <= Greater(limit, e.min_conf)

\* Capping changes the rate alone, and puts it within its bounds.
LEMMA CappedKeeps ==
    ASSUME NEW e \in Estimations, e.min_conf <= e.max_conf, NEW rate \in Int
    PROVE  /\ Capped(e, rate) \in Estimations
           /\ Limited(Capped(e, rate))
           /\ Capped(e, rate) = [e EXCEPT !.curr = Capped(e, rate).curr]
           /\ Capped(e, rate).curr <= Greater(rate, e.min_conf)
<1>1. PICK c \in e.min_conf .. e.max_conf :
              /\ Capped(e, rate) = [e EXCEPT !.curr = c]
              /\ c <= Greater(rate, e.min_conf)
              /\ \A limit \in {e.remb, e.delay_base} \ {0} : c <= Greater(limit, e.min_conf)
  BY CappedIs
<1> DEFINE r == Capped(e, rate)
<1>2. c \in Nat /\ e.min_conf \in Nat /\ e.max_conf \in Nat
  BY DEF Estimations
<1>3. r = [e EXCEPT !.curr = c]
  BY <1>1
<1> HIDE DEF r
<1>4. /\ r \in Estimations /\ r.curr = c /\ r.min_conf = e.min_conf /\ r.max_conf = e.max_conf
      /\ r.remb = e.remb /\ r.delay_base = e.delay_base
  BY <1>2, <1>3 DEF Estimations
<1> QED BY <1>1, <1>3, <1>4 DEF Limited, r

\* Capping a rate again raises nothing: the rate was above the least one before.
LEMMA CappedAgain ==
    ASSUME NEW e \in Estimations, e.curr \in e.min_conf .. e.max_conf
    PROVE  Capped(e, e.curr).curr <= e.curr
<1>1. e.curr \in Nat /\ e.min_conf \in Nat /\ e.max_conf \in Nat
  BY DEF Estimations
<1> DEFINE c == Capped(e, e.curr).curr
<1>2. Capped(e, e.curr) \in Estimations /\ c <= Greater(e.curr, e.min_conf)
  BY <1>1, CappedKeeps
<1>3. c \in Nat
  BY <1>2 DEF Estimations
<1> HIDE DEF c
<1>4. Greater(e.curr, e.min_conf) = e.curr
  BY <1>1 DEF Greater
<1> QED BY <1>1, <1>2, <1>3, <1>4 DEF c

\* An estimate that new limits, reports and updates leave behind.
EstimateFits(e, ts) ==
    /\ e \in Estimations /\ Limited(e)
    /\ e.lost <= LossUnit * e.expected /\ e.expected < LimitPackets
    /\ Rising(e.history) /\ \A i \in 1 .. Len(e.history) : e.history[i].ts <= ts
    /\ e.last_decrease <= ts /\ e.last_report <= ts
    /\ ~e.decreased => e.last_report = -1 \/ e.last_report >= e.last_decrease
    /\ e.first_report = -1 => e.last_report = -1

\* Growth has a rate to start from: after an update the history is not empty.
LEMMA GrownType ==
    ASSUME NEW ts \in Nat, NEW e, EstimateFits(e, ts)
    PROVE  Grown(UpdateHistory(e, ts)) \in Nat
<1> DEFINE h == UpdateHistory(e, ts)
           least == h.history[1]
<1>1. h.history \in Seq(Entry) /\ h.history # << >>
  BY HistoryUpdated DEF EstimateFits
<1> HIDE DEF h
<1>2. least \in Entry
  BY <1>1
<1> HIDE DEF least
<1>3. least.rate \in Nat
  BY <1>2 DEF Entry
<1> USE DEF least
<1>4. Times(Growth, h.history[1].rate) \in Nat
  BY <1>3, TimesType, AimdAssumption
<1> QED BY <1>3, <1>4, AimdAssumption DEF Grown, h

\* What an update of estimate e makes of it, as far as the properties ask: what
\* it reports stays, a cut is paid for, and growth starts from the least rate.
Updated(r, e, ts) ==
    /\ r.min_conf = e.min_conf /\ r.max_conf = e.max_conf
    /\ r.last_report = e.last_report /\ r.first_report = e.first_report
    /\ \/ r.decreased = e.decreased /\ r.last_decrease = e.last_decrease
       \/ /\ ~e.decreased /\ r.decreased /\ r.last_decrease = ts
          /\ ts >= e.last_decrease + DecreaseMs /\ e.last_report # -1
    /\ \/ IsStartPhase(e, ts) /\ r.history = <<[ts |-> ts, rate |-> e.curr]>>
       \/ r.history = UpdateHistory(e, ts).history
    /\ r.curr > e.curr /\ r.last_decrease = e.last_decrease =>
          IsStartPhase(e, ts) \/ r.curr <= Grown(UpdateHistory(e, ts))

\* x is what an update makes of estimate e before its new rate is capped.
Prepared(x, e, ts) ==
    /\ x \in Estimations
    /\ x.min_conf = e.min_conf /\ x.max_conf = e.max_conf
    /\ x.remb = e.remb /\ x.delay_base = e.delay_base
    /\ x.last_report = e.last_report /\ x.first_report = e.first_report
    /\ \/ x.lost = e.lost /\ x.expected = e.expected
       \/ x.lost = 0 /\ x.expected = 0
    /\ \/ x.decreased = e.decreased /\ x.last_decrease = e.last_decrease
       \/ /\ ~e.decreased /\ x.decreased /\ x.last_decrease = ts
          /\ ts >= e.last_decrease + DecreaseMs /\ e.last_report # -1
    /\ \/ IsStartPhase(e, ts) /\ x.history = <<[ts |-> ts, rate |-> e.curr]>>
       \/ x.history = UpdateHistory(e, ts).history

\* Each path of an update ends in a cap, at a rate the path could justify.
LEMMA PreparedEnds ==
    ASSUME NEW ts \in Nat, NEW e, EstimateFits(e, ts), NEW x, Prepared(x, e, ts),
           NEW rate \in Int,
           \/ rate <= e.curr \/ IsStartPhase(e, ts) \/ x.last_decrease # e.last_decrease
           \/ rate <= Grown(UpdateHistory(e, ts))
    PROVE  LET r == Capped(x, rate)
           IN  EstimateFits(r, ts) /\ Updated(r, e, ts)
<1> DEFINE r == Capped(x, rate)
           h == UpdateHistory(e, ts)
<1>1. /\ e \in Estimations /\ e.min_conf <= e.max_conf /\ e.min_conf <= e.curr
      /\ e.min_conf \in Nat /\ e.max_conf \in Nat /\ e.curr \in Nat /\ e.expected \in Nat
      /\ e.last_decrease \in Nat /\ e.last_report \in Nat \cup {-1}
  BY DEF EstimateFits, Limited, Estimations
<1>2. x \in Estimations /\ x.min_conf <= x.max_conf
  BY <1>1 DEF Prepared
<1>3. /\ r \in Estimations /\ Limited(r) /\ r = [x EXCEPT !.curr = r.curr]
      /\ r.curr <= Greater(rate, x.min_conf) /\ r.curr \in Int
  <2>1. /\ r \in Estimations /\ Limited(r) /\ r = [x EXCEPT !.curr = r.curr]
        /\ r.curr <= Greater(rate, x.min_conf)
    BY <1>2, CappedKeeps
  <2> HIDE DEF r
  <2> QED BY <2>1 DEF Estimations
<1> HIDE DEF r, h
<1>4. /\ r.min_conf = x.min_conf /\ r.max_conf = x.max_conf
      /\ r.lost = x.lost /\ r.expected = x.expected /\ r.history = x.history
      /\ r.decreased = x.decreased /\ r.last_decrease = x.last_decrease
      /\ r.last_report = x.last_report /\ r.first_report = x.first_report
  BY <1>2, <1>3 DEF Estimations
<1>5. x.history = h.history \/ x.history = <<[ts |-> ts, rate |-> e.curr]>>
  BY DEF Prepared, h
<1>6. Rising(x.history) /\ \A i \in 1 .. Len(x.history) : x.history[i].ts <= ts
  <2>1. CASE x.history = h.history
    <3>1. Rising(h.history) /\ \A i \in 1 .. Len(h.history) : h.history[i].ts <= ts
      BY <1>1, HistoryUpdated DEF EstimateFits, h
    <3> QED BY <2>1, <3>1
  <2>2. CASE x.history = <<[ts |-> ts, rate |-> e.curr]>>
    BY <2>2 DEF Rising
  <2> QED BY <1>5, <2>1, <2>2
<1>7. x.lost <= LossUnit * x.expected /\ x.expected < LimitPackets
  <2>1. CASE x.lost = e.lost /\ x.expected = e.expected
    BY <2>1 DEF EstimateFits
  <2>2. CASE x.lost = 0 /\ x.expected = 0
    BY <2>2, EstimationAssumption
  <2> QED BY <2>1, <2>2 DEF Prepared
<1>8. /\ x.last_decrease <= ts /\ x.last_report <= ts
      /\ ~x.decreased => x.last_report = -1 \/ x.last_report >= x.last_decrease
      /\ x.first_report = -1 => x.last_report = -1
  BY <1>1 DEF Prepared, EstimateFits
<1>9. EstimateFits(r, ts)
  BY <1>3, <1>4, <1>6, <1>7, <1>8 DEF EstimateFits
<1>10. r.curr > e.curr /\ r.last_decrease = e.last_decrease =>
          IsStartPhase(e, ts) \/ r.curr <= Grown(h)
  <2> SUFFICES ASSUME r.curr > e.curr, r.last_decrease = e.last_decrease,
                      ~IsStartPhase(e, ts)
               PROVE  r.curr <= Grown(h)
    OBVIOUS
  <2>1. r.curr <= Greater(rate, e.min_conf)
    BY <1>3 DEF Prepared
  <2>2. r.curr <= rate
    BY <1>1, <1>3, <2>1 DEF Greater
  <2>3. rate <= Grown(h)
    BY <1>1, <1>3, <1>4, <2>2 DEF h
  <2>4. Grown(h) \in Int
    BY GrownType, <1>1 DEF EstimateFits, h
  <2> QED BY <1>3, <2>2, <2>3, <2>4
<1>11. Updated(r, e, ts)
  BY <1>4, <1>10 DEF Updated, Prepared, h
<1> QED BY <1>9, <1>11 DEF r

\* Whatever path an update takes, it ends in cap_bitrate_to_threshold.
LEMMA EstimationUpdateKeeps ==
    ASSUME NEW ts \in Nat, NEW e, EstimateFits(e, ts), NEW acked0 \in Nat, NEW flat \in BOOLEAN
    PROVE  LET r == EstimationUpdate(e, ts, acked0, flat)
           IN  EstimateFits(r, ts) /\ Updated(r, e, ts)
<1> DEFINE Ends(r) == EstimateFits(r, ts) /\ Updated(r, e, ts)
           h == UpdateHistory(e, ts)
<1>1. /\ e \in Estimations /\ e.curr \in Nat /\ e.remb \in Nat /\ e.delay_base \in Nat
      /\ e.last_decrease \in Nat /\ e.last_rtt \in Nat /\ e.last_loss \in 0 .. LossUnit
  BY DEF EstimateFits, Estimations
<1>2. h \in Estimations /\ h = [e EXCEPT !.history = h.history]
  <2>1. h = [e EXCEPT !.history = h.history] /\ h.history \in Seq(Entry)
    BY <1>1, HistoryUpdated DEF EstimateFits
  <2> HIDE DEF h
  <2> QED BY <1>1, <2>1 DEF Estimations, Entry
<1>3. Grown(h) \in Nat
  BY GrownType
<1>4. h.history = UpdateHistory(e, ts).history
  OBVIOUS
<1>5. ASSUME NEW x, Prepared(x, e, ts), NEW rate \in Int,
             \/ rate <= e.curr \/ IsStartPhase(e, ts) \/ x.last_decrease # e.last_decrease
             \/ rate <= Grown(h)
      PROVE  Ends(Capped(x, rate))
  BY <1>5, PreparedEnds
<1> DEFINE best == Greater(e.delay_base, Greater(e.remb, e.curr))
           jump == [e EXCEPT !.history = <<[ts |-> ts, rate |-> e.curr]>>]
<1>6. EstimationUpdate(e, ts, acked0, flat) =
         IF e.last_loss = 0 /\ IsStartPhase(e, ts) /\ best # e.curr
         THEN Capped(jump, best)
         ELSE IF e.last_report = -1 THEN Capped(h, h.curr)
         ELSE IF ts - e.last_report < ReportMs THEN OnLosses(h, ts, acked0, flat)
         ELSE OnSilence(h, ts)
  BY DEF EstimationUpdate
<1> HIDE DEF Ends, h
<1>7. /\ Prepared(h, e, ts) /\ h.curr = e.curr
      /\ h.decreased = e.decreased /\ h.last_decrease = e.last_decrease
      /\ h.last_rtt = e.last_rtt /\ h.last_loss = e.last_loss
  BY <1>1, <1>2, <1>4 DEF Prepared, Estimations
<1>8. Ends(Capped(h, h.curr))
  BY <1>1, <1>5, <1>7
<1>9. ASSUME IsStartPhase(e, ts) PROVE Ends(Capped(jump, best))
  <2>1. best \in Int
    BY <1>1 DEF Greater
  <2>2. /\ jump \in Estimations /\ jump.history = <<[ts |-> ts, rate |-> e.curr]>>
        /\ jump.min_conf = e.min_conf /\ jump.max_conf = e.max_conf
        /\ jump.remb = e.remb /\ jump.delay_base = e.delay_base
        /\ jump.last_report = e.last_report /\ jump.first_report = e.first_report
        /\ jump.lost = e.lost /\ jump.expected = e.expected
        /\ jump.decreased = e.decreased /\ jump.last_decrease = e.last_decrease
    <3> DEFINE k == <<[ts |-> ts, rate |-> e.curr]>>
    <3>1. k \in Seq([ts : Nat, rate : Nat])
      BY <1>1
    <3>2. jump = [e EXCEPT !.history = k]
      OBVIOUS
    <3> HIDE DEF k, jump
    <3>3. /\ jump \in Estimations /\ jump.history = k
          /\ jump.min_conf = e.min_conf /\ jump.max_conf = e.max_conf
          /\ jump.remb = e.remb /\ jump.delay_base = e.delay_base
          /\ jump.last_report = e.last_report /\ jump.first_report = e.first_report
          /\ jump.lost = e.lost /\ jump.expected = e.expected
          /\ jump.decreased = e.decreased /\ jump.last_decrease = e.last_decrease
      BY <1>1, <3>1, <3>2 DEF Estimations
    <3> QED BY <3>3 DEF k
  <2> HIDE DEF jump, best
  <2>3. Prepared(jump, e, ts)
    BY <1>9, <2>2 DEF Prepared
  <2> QED BY <1>5, <1>9, <2>1, <2>3
<1> HIDE DEF jump, best
<1>10. ASSUME e.last_report # -1 PROVE Ends(OnLosses(h, ts, acked0, flat))
  <2> DEFINE n   == h.curr * (2 * LossUnit - h.last_loss)
             cut == Greater(n \div (2 * LossUnit), acked0)
             x   == [h EXCEPT !.last_decrease = ts, !.decreased = TRUE]
             low == \/ SlopeIsFlat(h, flat) /\ h.last_loss > LowLoss /\ h.state # "overusing"
                    \/ h.last_loss < LowLoss
  <2>1. OnLosses(h, ts, acked0, flat) =
           IF low THEN Capped(h, Grown(h))
           ELSE IF h.last_loss >= HighLoss /\ MayCut(h, ts) THEN Capped(x, cut)
           ELSE Capped(h, h.curr)
    BY DEF OnLosses
  <2>2. Ends(Capped(h, Grown(h)))
    BY <1>3, <1>5, <1>7
  <2>3. ASSUME MayCut(h, ts) PROVE Ends(Capped(x, cut))
    <3>1. cut \in Int
      <4>1. n \in Int /\ 2 * LossUnit \in Nat /\ 2 * LossUnit > 0
        BY <1>1, <1>7, EstimationAssumption
      <4> HIDE DEF n
      <4>2. n \div (2 * LossUnit) \in Int
        BY <4>1
      <4> QED BY <4>2 DEF Greater
    <3>2. ~e.decreased /\ ts >= e.last_decrease + DecreaseMs /\ DecreaseMs \in Nat \ {0}
      BY <1>1, <1>7, <2>3, EstimationAssumption DEF MayCut
    <3>3. /\ x \in Estimations /\ x.history = h.history
          /\ x.min_conf = h.min_conf /\ x.max_conf = h.max_conf
          /\ x.remb = h.remb /\ x.delay_base = h.delay_base
          /\ x.last_report = h.last_report /\ x.first_report = h.first_report
          /\ x.lost = h.lost /\ x.expected = h.expected
          /\ x.decreased /\ x.last_decrease = ts
      BY <1>2 DEF Estimations
    <3> HIDE DEF x, cut
    <3>4. Prepared(x, e, ts)
      BY <1>7, <1>10, <3>2, <3>3 DEF Prepared
    <3>5. x.last_decrease # e.last_decrease
      BY <1>1, <3>2, <3>3
    <3> QED BY <1>5, <3>1, <3>4, <3>5
  <2> HIDE DEF x, cut, low
  <2> QED BY <1>8, <2>1, <2>2, <2>3
<1>11. Ends(OnSilence(h, ts))
  <2> DEFINE x    == [h EXCEPT !.lost = 0, !.expected = 0, !.last_timeout = ts]
             part == (h.curr * 4) \div 5
  <2>1. OnSilence(h, ts) \in {Capped(x, part), Capped(h, h.curr)}
    BY DEF OnSilence
  <2>2. part \in Int /\ part <= e.curr
    BY <1>1, <1>7
  <2>3. /\ x \in Estimations /\ x.history = h.history
        /\ x.min_conf = h.min_conf /\ x.max_conf = h.max_conf
        /\ x.remb = h.remb /\ x.delay_base = h.delay_base
        /\ x.last_report = h.last_report /\ x.first_report = h.first_report
        /\ x.lost = 0 /\ x.expected = 0
        /\ x.decreased = h.decreased /\ x.last_decrease = h.last_decrease
    BY <1>2 DEF Estimations
  <2> HIDE DEF x, part
  <2>4. Prepared(x, e, ts)
    BY <1>7, <2>3 DEF Prepared
  <2>5. Ends(Capped(x, part))
    BY <1>5, <2>2, <2>4
  <2> QED BY <1>8, <2>1, <2>5
<1> QED BY <1>6, <1>8, <1>9, <1>10, <1>11 DEF Ends

\* The share of losses that are at most all is one.
LEMMA ShareBounded ==
    ASSUME NEW n \in Nat, NEW d \in Nat, d > 0, NEW u \in Nat, n <= u * d
    PROVE  n \div d \in 0 .. u
<1> DEFINE q == n \div d
           r == n % d
<1>1. q \in Int /\ r \in 0 .. d - 1 /\ n = d * q + r
  OBVIOUS
<1> HIDE DEF q, r
<1>2. q >= 0
  BY <1>1
<1>3. ASSUME q > u PROVE FALSE
  <2>1. d * q >= d * (u + 1)
    BY <1>1, <1>3
  <2>2. d * (u + 1) = u * d + d
    OBVIOUS
  <2> QED BY <1>1, <2>1, <2>2
<1> QED BY <1>1, <1>2, <1>3 DEF q

\* Estimate s is what a report at ts makes of e before it is spoken of.
Heard(s, e, ts) ==
    /\ EstimateFits(s, ts)
    /\ s.curr = e.curr /\ s.history = e.history /\ s.last_decrease = e.last_decrease
    /\ s.first_report = IF e.first_report = -1 THEN ts ELSE e.first_report

\* A report is only taken note of, or settled and followed by an update.
LEMMA UpdateBlockKeeps ==
    ASSUME NEW ts \in Nat, NEW e, EstimateFits(e, ts), NEW loss \in 0 .. LossUnit,
           NEW rtt \in Nat, NEW packets \in Nat, NEW acked0 \in Nat, NEW flat \in BOOLEAN
    PROVE  LET r == UpdateBlock(e, loss, rtt, packets, ts, acked0, flat)
           IN  \/ Heard(r, e, ts)
               \/ \E s : /\ Heard(s, e, ts) /\ s.last_report = ts
                         /\ EstimateFits(r, ts) /\ Updated(r, s, ts)
<1> DEFINE lost     == e.lost + loss * packets
           expected == e.expected + packets
           rtt1     == IF rtt > 0 THEN rtt ELSE e.last_rtt
           first    == IF e.first_report = -1 THEN ts ELSE e.first_report
           reports  == IF e.last_report = -1 THEN 0 ELSE Lesser(e.reports + 1, SlopeReports + 1)
           heard    == [e EXCEPT !.last_feedback = ts, !.first_report = first,
                                 !.last_rtt = rtt1, !.lost = lost, !.expected = expected]
           share    == lost \div expected
           settled  == [heard EXCEPT !.decreased = FALSE, !.last_loss = share, !.lost = 0,
                                     !.expected = 0, !.last_report = ts, !.reports = reports]
<1>1. /\ e \in Estimations /\ e.lost \in Nat /\ e.expected \in Nat /\ e.last_rtt \in Nat
      /\ e.first_report \in Nat \cup {-1} /\ e.reports \in Nat
      /\ e.lost <= LossUnit * e.expected /\ e.expected < LimitPackets
      /\ LossUnit \in Nat /\ LimitPackets \in Nat \ {0} /\ SlopeReports \in Nat
  BY EstimationAssumption DEF EstimateFits, Estimations
<1>2. /\ lost \in Nat /\ expected \in Nat /\ lost <= LossUnit * expected
  <2>1. loss * packets <= LossUnit * packets /\ loss * packets \in Nat
    BY <1>1
  <2>2. LossUnit * (e.expected + packets) = LossUnit * e.expected + LossUnit * packets
    BY <1>1
  <2>3. LossUnit * packets \in Nat /\ LossUnit * e.expected \in Nat
    BY <1>1
  <2> QED BY <1>1, <2>1, <2>2, <2>3
<1>3. rtt1 \in Nat /\ first \in Nat /\ reports \in Nat
  BY <1>1 DEF Lesser
<1>4. UpdateBlock(e, loss, rtt, packets, ts, acked0, flat) =
         IF heard.expected < LimitPackets THEN heard
         ELSE EstimationUpdate(settled, ts, acked0, flat)
  BY <1>1 DEF UpdateBlock, Estimations
<1> HIDE DEF lost, expected, rtt1, first, reports
<1>5. /\ heard \in Estimations /\ heard.lost = lost /\ heard.expected = expected
      /\ heard.first_report = first /\ heard.last_report = e.last_report
      /\ heard.curr = e.curr /\ heard.history = e.history
      /\ heard.last_decrease = e.last_decrease /\ heard.decreased = e.decreased
      /\ heard.min_conf = e.min_conf /\ heard.max_conf = e.max_conf
      /\ heard.remb = e.remb /\ heard.delay_base = e.delay_base
  BY <1>1, <1>2, <1>3 DEF Estimations
<1> HIDE DEF heard
<1>6. first = IF e.first_report = -1 THEN ts ELSE e.first_report
  BY DEF first
<1>7. CASE heard.expected < LimitPackets
  <2>1. first = -1 => e.last_report = -1
    BY <1>6
  <2>2. EstimateFits(heard, ts)
    BY <1>1, <1>2, <1>5, <1>7, <2>1 DEF EstimateFits, Limited
  <2>3. Heard(heard, e, ts)
    BY <1>5, <1>6, <2>2 DEF Heard
  <2> QED BY <1>4, <1>7, <2>3
<1>8. CASE ~(heard.expected < LimitPackets)
  <2>1. expected > 0
    BY <1>1, <1>2, <1>5, <1>8
  <2>2. share \in 0 .. LossUnit
    BY <1>1, <1>2, <2>1, ShareBounded
  <2> HIDE DEF share
  <2>3. /\ settled \in Estimations /\ settled.lost = 0 /\ settled.expected = 0
        /\ settled.first_report = first /\ settled.last_report = ts
        /\ settled.curr = e.curr /\ settled.history = e.history
        /\ settled.last_decrease = e.last_decrease /\ ~settled.decreased
        /\ settled.min_conf = e.min_conf /\ settled.max_conf = e.max_conf
        /\ settled.remb = e.remb /\ settled.delay_base = e.delay_base
    BY <1>3, <1>5, <2>2 DEF Estimations
  <2> HIDE DEF settled
  <2>4. EstimateFits(settled, ts)
    <3>1. settled.last_report >= settled.last_decrease /\ first # -1
      BY <1>3, <2>3 DEF EstimateFits
    <3> QED BY <1>1, <2>3, <3>1 DEF EstimateFits, Limited
  <2>5. Heard(settled, e, ts)
    BY <1>6, <2>3, <2>4 DEF Heard
  <2>6. LET r == EstimationUpdate(settled, ts, acked0, flat)
        IN  EstimateFits(r, ts) /\ Updated(r, settled, ts)
    BY <2>4, EstimationUpdateKeeps
  <2> QED BY <1>4, <1>8, <2>3, <2>5, <2>6
<1> QED BY <1>7, <1>8

\* The receiver's and the delay's estimates never raise the rate and leave what
\* the reports and the updates left.
Eased(r, e, ts) ==
    /\ EstimateFits(r, ts)
    /\ r.curr <= e.curr /\ r.history = e.history
    /\ r.last_decrease = e.last_decrease /\ r.first_report = e.first_report
    /\ r.last_report = e.last_report

\* A cap after new bounds never raises the rate.
LEMMA EasedBy ==
    ASSUME NEW ts \in Nat, NEW e, EstimateFits(e, ts), NEW x \in Estimations,
           x.curr = e.curr, x.min_conf = e.min_conf, x.max_conf = e.max_conf,
           x.history = e.history, x.last_decrease = e.last_decrease,
           x.first_report = e.first_report, x.last_report = e.last_report,
           x.decreased = e.decreased, x.lost = e.lost, x.expected = e.expected
    PROVE  Eased(Capped(x, e.curr), e, ts)
<1> DEFINE r == Capped(x, e.curr)
<1>1. e.curr \in e.min_conf .. e.max_conf /\ e.curr \in Nat /\ e.min_conf \in Nat /\ e.max_conf \in Nat
  BY DEF EstimateFits, Limited, Estimations
<1>2. r \in Estimations /\ Limited(r) /\ r = [x EXCEPT !.curr = r.curr]
  BY <1>1, CappedKeeps
<1>3. r.curr <= e.curr
  BY <1>1, CappedAgain
<1> HIDE DEF r
<1>4. /\ r.history = e.history /\ r.last_decrease = e.last_decrease
      /\ r.first_report = e.first_report /\ r.last_report = e.last_report
      /\ r.decreased = e.decreased /\ r.lost = e.lost /\ r.expected = e.expected
  BY <1>2 DEF Estimations
<1> QED BY <1>2, <1>3, <1>4 DEF Eased, EstimateFits, r

\* sender_estimation_update_remb raises nothing.
LEMMA UpdateRembEases ==
    ASSUME NEW ts \in Nat, NEW e, EstimateFits(e, ts), NEW rate \in Nat
    PROVE  Eased(UpdateRemb(e, rate), e, ts)
<1> DEFINE x == [e EXCEPT !.remb = rate]
<1>1. e \in Estimations
  BY DEF EstimateFits
<1>2. /\ x \in Estimations /\ x.curr = e.curr /\ x.min_conf = e.min_conf
      /\ x.max_conf = e.max_conf /\ x.history = e.history
      /\ x.last_decrease = e.last_decrease /\ x.first_report = e.first_report
      /\ x.last_report = e.last_report /\ x.decreased = e.decreased
      /\ x.lost = e.lost /\ x.expected = e.expected
  BY <1>1 DEF Estimations
<1>3. UpdateRemb(e, rate) = Capped(x, e.curr)
  BY DEF UpdateRemb
<1> HIDE DEF x
<1> QED BY <1>2, <1>3, EasedBy

\* sender_estimation_update_delay_base raises nothing.
LEMMA UpdateDelayBaseEases ==
    ASSUME NEW ts \in Nat, NEW e, EstimateFits(e, ts), NEW rate \in Nat, NEW verdict \in Verdicts
    PROVE  Eased(UpdateDelayBase(e, rate, verdict), e, ts)
<1> DEFINE x == [e EXCEPT !.delay_base = rate, !.state = verdict]
<1>1. e \in Estimations
  BY DEF EstimateFits
<1>2. /\ x \in Estimations /\ x.curr = e.curr /\ x.min_conf = e.min_conf
      /\ x.max_conf = e.max_conf /\ x.history = e.history
      /\ x.last_decrease = e.last_decrease /\ x.first_report = e.first_report
      /\ x.last_report = e.last_report /\ x.decreased = e.decreased
      /\ x.lost = e.lost /\ x.expected = e.expected
  BY <1>1 DEF Estimations
<1>3. UpdateDelayBase(e, rate, verdict) = Capped(x, e.curr)
  BY DEF UpdateDelayBase
<1> HIDE DEF x
<1> QED BY <1>2, <1>3, EasedBy

\* New limits need no estimate within the old ones.
Accounted(e, ts) ==
    /\ e \in Estimations
    /\ e.lost <= LossUnit * e.expected /\ e.expected < LimitPackets
    /\ e.last_decrease <= ts /\ e.last_report <= ts
    /\ ~e.decreased => e.last_report = -1 \/ e.last_report >= e.last_decrease
    /\ e.first_report = -1 => e.last_report = -1

\* New limits leave a consistent estimate with a new history.
LEMMA BitratesSet ==
    ASSUME NEW ts \in Nat, NEW e, Accounted(e, ts), NEW l \in Limits
    PROVE  LET r == SetSendBitrate(SetMinMax(e, l.min, l.max), l.start)
           IN  EstimateFits(r, ts) /\ r.last_decrease = e.last_decrease
<1> DEFINE floor == Greater(e.min_conf, l.min)
           ceil  == Greater(floor, l.max)
           x == [e EXCEPT !.min_conf = floor, !.max_conf = ceil]
           c == Capped(x, l.start)
           r == [c EXCEPT !.history = << >>]
<1>1. /\ e \in Estimations /\ e.min_conf \in Nat
      /\ l.min \in Nat /\ l.max \in Nat /\ l.start \in Nat
  BY SenderCcAssumption DEF Accounted, Estimations
<1>2. floor \in Nat /\ ceil \in Nat /\ floor <= ceil
  BY <1>1 DEF Greater
<1>3. SetSendBitrate(SetMinMax(e, l.min, l.max), l.start) = r
  BY DEF SetSendBitrate, SetMinMax
<1> HIDE DEF floor, ceil
<1>4. /\ x \in Estimations /\ x.min_conf = floor /\ x.max_conf = ceil
      /\ x.last_decrease = e.last_decrease /\ x.first_report = e.first_report
      /\ x.last_report = e.last_report /\ x.decreased = e.decreased
      /\ x.lost = e.lost /\ x.expected = e.expected
  BY <1>1, <1>2 DEF Estimations
<1> HIDE DEF x
<1>5. c \in Estimations /\ Limited(c) /\ c = [x EXCEPT !.curr = c.curr]
  BY <1>1, <1>2, <1>4, CappedKeeps
<1> HIDE DEF c
<1>6. /\ c.last_decrease = e.last_decrease /\ c.first_report = e.first_report
      /\ c.last_report = e.last_report /\ c.decreased = e.decreased
      /\ c.lost = e.lost /\ c.expected = e.expected
  BY <1>4, <1>5 DEF Estimations
<1>7. << >> \in Seq([ts : Nat, rate : Nat])
  OBVIOUS
<1>8. /\ r \in Estimations /\ r.history = << >> /\ r.curr = c.curr
      /\ r.min_conf = c.min_conf /\ r.max_conf = c.max_conf
      /\ r.remb = c.remb /\ r.delay_base = c.delay_base
      /\ r.last_decrease = c.last_decrease /\ r.first_report = c.first_report
      /\ r.last_report = c.last_report /\ r.decreased = c.decreased
      /\ r.lost = c.lost /\ r.expected = c.expected
  BY <1>5, <1>7 DEF Estimations
<1> HIDE DEF r
<1>9. Limited(r)
  BY <1>5, <1>8 DEF Limited
<1>10. Rising(r.history) /\ \A i \in 1 .. Len(r.history) : r.history[i].ts <= ts
  BY <1>8 DEF Rising
<1>11. EstimateFits(r, ts)
  BY <1>6, <1>8, <1>9, <1>10 DEF EstimateFits, Accounted
<1> QED BY <1>3, <1>6, <1>8, <1>11

-----------------------------------------------------------------------------
(* The rates that growth starts from *)

\* More of a rate is no less.
LEMMA TimesMonotone ==
    ASSUME NEW g \in Nat \X (Nat \ {0}), NEW x \in Nat, NEW y \in Nat, x <= y
    PROVE  Times(g, x) <= Times(g, y)
<1> DEFINE a == g[1]
           d == g[2]
           m == a * x
           n == a * y
           p == m \div d
           q == n \div d
<1>1. a \in Nat /\ d \in Nat \ {0} /\ Times(g, x) = p /\ Times(g, y) = q
  BY DEF Times
<1> HIDE DEF a, d
<1>2. m \in Nat /\ n \in Nat /\ m <= n
  BY <1>1
<1> HIDE DEF m, n
<1>3. /\ p \in Int /\ m = d * p + (m % d) /\ m % d \in 0 .. d - 1
      /\ q \in Int /\ n = d * q + (n % d) /\ n % d \in 0 .. d - 1
  BY <1>1, <1>2
<1> HIDE DEF p, q
<1>4. ASSUME p > q PROVE FALSE
  <2>1. d * p >= d * (q + 1)
    BY <1>1, <1>3, <1>4
  <2>2. d * (q + 1) = d * q + d
    BY <1>1, <1>3
  <2> QED BY <1>1, <1>2, <1>3, <2>1, <2>2
<1> QED BY <1>1, <1>3, <1>4

\* The rates p of the last second: none at the start, each covered by the history.
Remembered(p, e, ts) ==
    /\ p # {} => ~IsStartPhase(e, ts)
    /\ \A m \in p : m \in Entry /\ Covers(e.history, m)

\* What growth from m may reach at most.
Bound(m) == m.rate + Times(Growth, m.rate) + RateStep

\* The first rate of a rising history is below all that it covers.
LEMMA GrownFromLeast ==
    ASSUME NEW ts \in Nat, NEW e, EstimateFits(e, ts), NEW m \in Entry,
           Covers(UpdateHistory(e, ts).history, m)
    PROVE  Grown(UpdateHistory(e, ts)) <= Bound(m) /\ Bound(m) \in Nat
<1> DEFINE h == UpdateHistory(e, ts)
           k == h.history
           least == k[1].rate
<1>1. k \in Seq(Entry) /\ k # << >> /\ Rising(k)
  BY HistoryUpdated DEF EstimateFits
<1>2. Grown(h) = least + Times(Growth, least) + RateStep
  BY DEF Grown
<1> HIDE DEF h
<1> HIDE DEF k
<1>3. PICK i \in 1 .. Len(k) : k[i].rate <= m.rate
  BY DEF Covers, k, h
<1>4. k[1] \in Entry /\ k[i] \in Entry
  BY <1>1
<1>5. k[1].rate \in Nat /\ k[i].rate \in Nat /\ m.rate \in Nat
  BY <1>4 DEF Entry
<1>6. least <= k[i].rate
  <2>1. CASE i = 1
    BY <1>5, <2>1
  <2>2. CASE i # 1
    <3>1. 1 \in 1 .. Len(k) /\ 1 < i
      BY <1>1, <2>2
    <3> QED BY <1>1, <1>5, <3>1 DEF Rising
  <2> QED BY <2>1, <2>2
<1>7. least \in Nat /\ least <= m.rate
  BY <1>3, <1>5, <1>6
<1> HIDE DEF least
<1>8. Times(Growth, least) <= Times(Growth, m.rate)
  BY <1>5, <1>7, TimesMonotone, AimdAssumption
<1>9. Times(Growth, least) \in Nat /\ Times(Growth, m.rate) \in Nat
  BY <1>5, <1>7, TimesType, AimdAssumption
<1> DEFINE g == Times(Growth, least)
           b == Times(Growth, m.rate)
<1>10. g \in Nat /\ b \in Nat /\ g <= b /\ RateStep \in Nat
  BY <1>8, <1>9, AimdAssumption
<1>11. Grown(h) = least + g + RateStep /\ Bound(m) = m.rate + b + RateStep
  BY <1>2 DEF Bound
<1> HIDE DEF g, b
<1>12. least + g + RateStep <= m.rate + b + RateStep /\ m.rate + b + RateStep \in Nat
  <2>1. \A v, w, x, y, z \in Nat : v <= w /\ x <= y => v + x + z <= w + y + z /\ w + y + z \in Nat
    OBVIOUS
  <2>2. least \in Nat /\ m.rate \in Nat /\ least <= m.rate
    BY <1>5, <1>7
  <2> QED BY <1>10, <2>1, <2>2
<1> QED BY <1>11, <1>12 DEF h

\* An update covers the rates remembered after it, and grows from the least.
LEMMA RememberKeeps ==
    ASSUME NEW ts \in Nat, NEW e, EstimateFits(e, ts), NEW r, EstimateFits(r, ts),
           Updated(r, e, ts), NEW p, Remembered(p, e, ts), NEW q,
           \/ q = IF IsStartPhase(e, ts) THEN {}
                  ELSE {m \in p : m.ts + IncreaseMs >= ts} \union {[ts |-> ts, rate |-> e.curr]}
           \/ q = p /\ r.history = e.history
    PROVE  /\ Remembered(q, r, ts)
           /\ r.curr > e.curr /\ r.last_decrease = e.last_decrease =>
                \A m \in q : r.curr <= Bound(m)
<1> DEFINE h == UpdateHistory(e, ts)
           now1 == [ts |-> ts, rate |-> e.curr]
<1>1. IsStartPhase(r, ts) <=> IsStartPhase(e, ts)
  BY DEF IsStartPhase, Updated
<1>2. CASE IsStartPhase(e, ts)
  <2>1. q = {}
    BY <1>2 DEF Remembered
  <2> QED BY <2>1 DEF Remembered
<1>3. CASE ~IsStartPhase(e, ts)
  <2>1. r.history = h.history
    BY <1>3 DEF Updated
  <2>2. now1 \in Entry
    BY DEF EstimateFits, Estimations, Entry
  <2>3. \A m \in q : m \in Entry /\ Covers(r.history, m)
    <3>1. CASE q = p /\ r.history = e.history
      BY <3>1 DEF Remembered
    <3>2. CASE q = {m \in p : m.ts + IncreaseMs >= ts} \union {now1}
      <4> SUFFICES ASSUME NEW m \in q PROVE m \in Entry /\ Covers(r.history, m)
        OBVIOUS
      <4>1. CASE m = now1
        <5>1. Covers(h.history, now1)
          BY HistoryUpdated DEF EstimateFits
        <5> QED BY <2>1, <2>2, <4>1, <5>1
      <4>2. CASE m # now1
        <5>1. m \in p /\ m.ts + IncreaseMs >= ts
          BY <3>2, <4>2
        <5>2. m \in Entry /\ Covers(e.history, m)
          BY <5>1 DEF Remembered
        <5>3. Covers(h.history, m)
          BY <5>1, <5>2, HistoryUpdated DEF EstimateFits
        <5> QED BY <2>1, <5>2, <5>3
      <4> QED BY <4>1, <4>2
    <3> QED BY <1>3, <3>1, <3>2
  <2>4. Remembered(q, r, ts)
    BY <1>1, <1>3, <2>3 DEF Remembered
  <2>5. ASSUME r.curr > e.curr, r.last_decrease = e.last_decrease, NEW m \in q
        PROVE  r.curr <= Bound(m)
    <3>1. r.curr <= Grown(h) /\ r.curr \in Nat
      BY <1>3, <2>5 DEF Updated, EstimateFits, Estimations
    <3>2. Grown(h) <= Bound(m) /\ Bound(m) \in Nat /\ Grown(h) \in Nat
      BY <2>1, <2>3, GrownFromLeast, GrownType
    <3> HIDE DEF h
    <3> QED BY <3>1, <3>2
  <2> QED BY <2>4, <2>5
<1> QED BY <1>2, <1>3

-----------------------------------------------------------------------------
(* What the controller tells *)

Told == [rate : Nat, loss : 0 .. LossUnit, rtt : Nat]
Controllers == [est : Estimations, last : Told, notify_ts : Nat, paced : Nat]

\* From s to t nothing is told, or what t knows is what the pacer works with.
Tells(t, s, ts) ==
    /\ t \in Controllers
    /\ \/ t.last = s.last /\ t.notify_ts = s.notify_ts /\ t.paced = s.paced
       \/ t.notify_ts = ts /\ t.paced = t.last.rate

\* Notifications in a row are as one.
LEMMA TellsOn ==
    ASSUME NEW ts, NEW s, NEW t, Tells(t, s, ts), NEW u, Tells(u, t, ts)
    PROVE  Tells(u, s, ts)
BY DEF Tells

\* What a notification leaves behind.
LEMMA TellTells ==
    ASSUME NEW ts \in Nat, NEW s \in Controllers, NEW e \in Estimations
    PROVE  LET t == [s EXCEPT !.est = e]
               u == Tell(t, ts)
           IN  /\ t \in Controllers /\ t.est = e /\ t.last = s.last
               /\ t.notify_ts = s.notify_ts /\ t.paced = s.paced
               /\ u \in Controllers /\ u.est = e /\ u.notify_ts = ts /\ u.paced = u.last.rate
<1> DEFINE t == [s EXCEPT !.est = e]
           u == Tell(t, ts)
           p == Report(e)
<1>1. p \in Told
  BY DEF Report, Told, Estimations, Greater
<1>2. /\ t \in Controllers /\ t.est = e /\ t.last = s.last
      /\ t.notify_ts = s.notify_ts /\ t.paced = s.paced
  BY DEF Controllers
<1>3. u = [t EXCEPT !.last = p, !.notify_ts = ts, !.paced = p.rate]
  BY <1>2 DEF Tell
<1> HIDE DEF t, u, p
<1>4. p.rate \in Nat
  BY <1>1 DEF Told
<1>5. u \in Controllers /\ u.est = e /\ u.last = p /\ u.notify_ts = ts /\ u.paced = p.rate
  BY <1>1, <1>2, <1>3, <1>4 DEF Controllers
<1> QED BY <1>2, <1>5 DEF t, u

\* maybe_trigger_network_changed tells at once or has nothing to tell.
LEMMA ChangedTells ==
    ASSUME NEW ts \in Nat, NEW s \in Controllers, NEW e \in Estimations
    PROVE  Tells(Changed(s, e, ts), s, ts) /\ Changed(s, e, ts).est = e
<1> DEFINE t == [s EXCEPT !.est = e]
           u == Tell(t, ts)
<1>1. /\ t \in Controllers /\ t.est = e /\ t.last = s.last
      /\ t.notify_ts = s.notify_ts /\ t.paced = s.paced
      /\ u \in Controllers /\ u.est = e /\ u.notify_ts = ts /\ u.paced = u.last.rate
  BY TellTells
<1>2. Changed(s, e, ts) = t \/ Changed(s, e, ts) = u
  BY DEF Changed
<1> HIDE DEF t, u
<1> QED BY <1>1, <1>2 DEF Tells

\* After a heartbeat the last notification is not older than NotifyMs.
LEMMA HeartbeatTellsInTime ==
    ASSUME NEW ts \in Nat, NEW s \in Controllers, s.notify_ts <= ts, NEW e \in Estimations
    PROVE  LET t == HeartbeatTells(s, e, ts)
           IN  Tells(t, s, ts) /\ t.est = e /\ ts < t.notify_ts + NotifyMs
<1> DEFINE t0 == [s EXCEPT !.est = e]
           u  == Tell(t0, ts)
           t  == HeartbeatTells(s, e, ts)
<1>1. /\ t0 \in Controllers /\ t0.est = e /\ t0.last = s.last
      /\ t0.notify_ts = s.notify_ts /\ t0.paced = s.paced
      /\ u \in Controllers /\ u.est = e /\ u.notify_ts = ts /\ u.paced = u.last.rate
  BY TellTells
<1>2. s.notify_ts \in Nat
  BY DEF Controllers
<1>3. t = IF Report(e) # s.last \/ s.notify_ts + NotifyMs <= ts THEN u ELSE t0
  BY DEF HeartbeatTells
<1>4. NotifyMs \in Nat \ {0}
  BY SenderCcAssumption
<1> HIDE DEF t0, u, t
<1> QED BY <1>1, <1>2, <1>3, <1>4 DEF Tells, t

-----------------------------------------------------------------------------
(* The invariant *)

\* A notification comes with every change and at the latest after NotifyMs; a
\* rate of the pacer's own is never older than the last limits.
InTime ==
    /\ now < update_ts + HeartbeatMs
    /\ update_ts < notify_ts + NotifyMs
    /\ notify_ts <= now /\ update_ts <= now /\ set_ts <= now
    /\ paced # last.rate => notify_ts <= set_ts

CcInv ==
    /\ {now, notify_ts, update_ts, set_ts, paced, acked, messages, changes} \subseteq Nat
    /\ seen_ts \in Nat \cup {-1}
    /\ last \in Told
    /\ EstimateFits(est, now)
    /\ AimdFits(aimd)
    /\ DetectionFits([d |-> detector, above |-> above])
    /\ InTime
    /\ Remembered(past, est, now)

\* The controller between two calls.
LEMMA ControllerNow == ASSUME CcInv PROVE Controller \in Controllers
BY DEF CcInv, Controllers, Controller, EstimateFits

\* What the parts of a message do to the estimate, its cuts, its growth and the
\* notifications.
ReportsEnd ==
    /\ EstimateFits(est', now) /\ Remembered(past', est', now)
    /\ last' \in Told /\ {notify_ts', paced'} \subseteq Nat
    /\ \/ last' = last /\ notify_ts' = notify_ts /\ paced' = paced
       \/ notify_ts' = now /\ paced' = last'.rate
    /\ est'.last_decrease # est.last_decrease =>
         /\ est'.last_report >= est.last_decrease
         /\ est'.last_decrease >= est.last_decrease + DecreaseMs
    /\ est'.curr > est.curr /\ est'.last_decrease = est.last_decrease =>
         \A m \in past' : est'.curr <= Bound(m)

\* The receiver's estimate and the losses of a message, one after the other.
LEMMA ReportsKeep ==
    ASSUME CcInv, NEW s, Tells(s, Controller, now), Eased(s.est, est, now),
           acked' \in Nat, NEW msg \in Messages, NEW flat \in BOOLEAN,
           Reports(s, msg, flat)
    PROVE  ReportsEnd
<1> DEFINE r == RembPart(s, msg, now)
           t == LossPart(r, msg, acked', flat, now)
<1>1. /\ now \in Nat /\ aimd.rtt \in Nat /\ EstimateFits(est, now) /\ Remembered(past, est, now)
      /\ msg.remb \in Nat /\ msg.loss \in 0 .. LossUnit /\ msg.packets \in Nat
      /\ Controller.last = last /\ Controller.notify_ts = notify_ts /\ Controller.paced = paced
  BY SenderCcAssumption DEF CcInv, AimdFits, Controls, Controller
<1>2. Becomes(t) /\ IF t.est.history = r.est.history THEN past' = past ELSE Remember(r.est, now)
  BY DEF Reports
<1>3. Tells(r, s, now) /\ Eased(r.est, est, now)
  <2>1. CASE msg.remb = 0
    BY <2>1 DEF RembPart, Tells
  <2>2. CASE msg.remb # 0
    <3> DEFINE e == UpdateRemb(s.est, msg.remb)
    <3>1. r = Changed(s, e, now)
      BY <2>2 DEF RembPart
    <3>2. EstimateFits(s.est, now)
      BY DEF Eased
    <3>3. Eased(e, s.est, now)
      BY <1>1, <3>2, UpdateRembEases
    <3> HIDE DEF e
    <3>4. e \in Estimations /\ s \in Controllers
      BY <3>3 DEF Eased, EstimateFits, Tells
    <3>5. Tells(Changed(s, e, now), s, now) /\ Changed(s, e, now).est = e
      BY <1>1, <3>4, ChangedTells
    <3>6. Eased(e, est, now)
      <4>1. e.curr \in Nat /\ s.est.curr \in Nat /\ est.curr \in Nat
        BY <1>1, <3>2, <3>3 DEF Eased, EstimateFits, Estimations
      <4> QED BY <3>3, <4>1 DEF Eased
    <3> QED BY <3>1, <3>5, <3>6
  <2> QED BY <2>1, <2>2
<1> DEFINE e == r.est
<1> HIDE DEF r, t
<1>4. EstimateFits(e, now) /\ e \in Estimations /\ Remembered(past, e, now)
      /\ e.curr <= est.curr /\ e.last_decrease = est.last_decrease
      /\ e.curr \in Nat /\ est.curr \in Nat /\ e.last_decrease \in Nat
  BY <1>1, <1>3 DEF Eased, EstimateFits, Remembered, Estimations, IsStartPhase
<1>5. Tells(t, s, now)
      /\ \/ t.est = e
         \/ Heard(t.est, e, now)
         \/ \E x : /\ Heard(x, e, now)
                   /\ EstimateFits(t.est, now) /\ Updated(t.est, x, now)
  <2>1. CASE msg.packets = 0
    <3>1. t = r
      BY <2>1 DEF LossPart, t
    <3> QED BY <1>3, <3>1, TellsOn
  <2>2. CASE msg.packets # 0
    <3> DEFINE b == UpdateBlock(e, msg.loss, aimd.rtt, msg.packets, now, acked', flat)
    <3>1. t = Changed(r, b, now)
      BY <2>2 DEF LossPart, t
    <3>2. \/ Heard(b, e, now)
          \/ \E x : /\ Heard(x, e, now) /\ x.last_report = now
                    /\ EstimateFits(b, now) /\ Updated(b, x, now)
      BY <1>1, <1>4, UpdateBlockKeeps
    <3> HIDE DEF b
    <3>3. b \in Estimations /\ r \in Controllers
      BY <1>3, <3>2 DEF Heard, EstimateFits, Tells
    <3>4. Tells(Changed(r, b, now), r, now) /\ Changed(r, b, now).est = b
      BY <1>1, <3>3, ChangedTells
    <3>5. Tells(t, s, now)
      BY <1>3, <3>1, <3>4, TellsOn
    <3> QED BY <3>1, <3>2, <3>4, <3>5
  <2> QED BY <2>1, <2>2
<1>6. /\ est' = t.est /\ last' = t.last /\ notify_ts' = t.notify_ts /\ paced' = t.paced
  BY <1>2 DEF Becomes
<1>7. /\ last' \in Told /\ {notify_ts', paced'} \subseteq Nat
      /\ \/ last' = last /\ notify_ts' = notify_ts /\ paced' = paced
         \/ notify_ts' = now /\ paced' = last'.rate
  <2>1. Tells(t, Controller, now)
    BY <1>5, TellsOn
  <2> QED BY <1>1, <1>6, <2>1 DEF Tells, Controllers
<1>8. CASE t.est = e
  <2>1. past' = past
    BY <1>2, <1>8
  <2> QED BY <1>4, <1>6, <1>7, <1>8, <2>1 DEF ReportsEnd
<1>9. CASE Heard(t.est, e, now)
  <2>1. past' = past
    BY <1>2, <1>9 DEF Heard
  <2>2. Remembered(past, t.est, now)
    BY <1>4, <1>9 DEF Heard, Remembered, IsStartPhase
  <2> QED BY <1>4, <1>6, <1>7, <1>9, <2>1, <2>2 DEF ReportsEnd, Heard
<1>10. ASSUME NEW x, Heard(x, e, now), EstimateFits(t.est, now), Updated(t.est, x, now)
       PROVE  ReportsEnd
  <2>1. IsStartPhase(x, now) <=> IsStartPhase(e, now)
    BY <1>1, <1>10, EstimationAssumption DEF Heard, IsStartPhase
  <2>2. Remembered(past, x, now)
    BY <1>4, <1>10, <2>1 DEF Heard, Remembered
  <2>3. \/ past' = IF IsStartPhase(x, now) THEN {}
                   ELSE {m \in past : m.ts + IncreaseMs >= now}
                           \union {[ts |-> now, rate |-> x.curr]}
        \/ past' = past /\ t.est.history = x.history
    BY <1>2, <1>10, <2>1 DEF Remember, Heard
  <2>4. EstimateFits(x, now)
    BY <1>10 DEF Heard
  <2>5. \A q : (\/ q = IF IsStartPhase(x, now) THEN {}
                     ELSE {m \in past : m.ts + IncreaseMs >= now}
                             \union {[ts |-> now, rate |-> x.curr]}
                \/ q = past /\ t.est.history = x.history)
               => /\ Remembered(q, t.est, now)
                  /\ t.est.curr > x.curr /\ t.est.last_decrease = x.last_decrease =>
                        \A m \in q : t.est.curr <= Bound(m)
    BY <1>1, <1>10, <2>2, <2>4, RememberKeeps
  <2>6. /\ Remembered(past', t.est, now)
        /\ t.est.curr > x.curr /\ t.est.last_decrease = x.last_decrease =>
              \A m \in past' : t.est.curr <= Bound(m)
    BY <2>3, <2>5
  <2>7. x.curr = e.curr /\ x.last_decrease = e.last_decrease
    BY <1>10 DEF Heard
  <2>8. t.est.curr \in Nat
    BY <1>10 DEF EstimateFits, Estimations
  <2>9. est'.curr > est.curr /\ est'.last_decrease = est.last_decrease =>
          \A m \in past' : est'.curr <= Bound(m)
    BY <1>4, <1>6, <2>6, <2>7, <2>8
  <2>10. est'.last_decrease # est.last_decrease =>
          /\ est'.last_report >= est.last_decrease
          /\ est'.last_decrease >= est.last_decrease + DecreaseMs
    BY <1>4, <1>6, <1>10, <2>4, <2>7 DEF Updated, EstimateFits
  <2> QED BY <1>6, <1>7, <1>10, <2>6, <2>9, <2>10 DEF ReportsEnd
<1> QED BY <1>5, <1>8, <1>9, <1>10

-----------------------------------------------------------------------------
(* Each action keeps the invariant and what may change in one step *)

CutPaid ==
    est'.last_decrease # est.last_decrease =>
         /\ est'.last_report >= est.last_decrease
         /\ est'.last_decrease >= est.last_decrease + DecreaseMs

GrowthBounded ==
    est'.curr > est.curr /\ est'.last_decrease = est.last_decrease =>
         \A m \in past' : est'.curr <= m.rate + Times(Growth, m.rate) + RateStep

NoRaise ==
    messages' # messages /\ detector'.state = "overusing" => aimd'.curr <= aimd.curr

StepKeeps == CcInv' /\ CutPaid /\ GrowthBounded /\ NoRaise

\* Time passes over an estimate.
LEMMA EstimateLasts ==
    ASSUME NEW ts \in Nat, NEW later \in Nat, ts <= later, NEW e, EstimateFits(e, ts)
    PROVE  EstimateFits(e, later)
           /\ \A p : Remembered(p, e, ts) => Remembered(p, e, later)
<1>1. e.last_decrease \in Nat /\ e.last_report \in Int /\ e.history \in Seq(Entry)
      /\ e.first_report \in Int
  BY DEF EstimateFits, Estimations, Entry
<1>2. \A i \in 1 .. Len(e.history) : e.history[i].ts \in Nat
  <2> SUFFICES ASSUME NEW i \in 1 .. Len(e.history) PROVE e.history[i].ts \in Nat
    OBVIOUS
  <2>1. e.history[i] \in Entry
    BY <1>1
  <2> QED BY <2>1 DEF Entry
<1>3. EstimateFits(e, later)
  BY <1>1, <1>2 DEF EstimateFits
<1>4. ~IsStartPhase(e, ts) => ~IsStartPhase(e, later)
  BY <1>1, EstimationAssumption DEF IsStartPhase
<1> QED BY <1>3, <1>4 DEF Remembered

\* New limits.
LEMMA SetBitratesKeeps ==
    ASSUME CcInv, NEW l \in Limits, SetBitrates(l)
    PROVE  StepKeeps
<1> DEFINE e == SetSendBitrate(SetMinMax(est, l.min, l.max), l.start)
           t == Changed(Controller, e, now)
           start == Greater(l.start, l.min)
<1>1. /\ now \in Nat /\ EstimateFits(est, now) /\ AimdFits(aimd)
      /\ Controller.last = last /\ Controller.notify_ts = notify_ts /\ Controller.paced = paced
      /\ Controller.est = est
  BY DEF CcInv, Controller
<1>2. EstimateFits(e, now) /\ e.last_decrease = est.last_decrease
  <2>1. Accounted(est, now)
    BY <1>1 DEF Accounted, EstimateFits
  <2> QED BY <1>1, <2>1, BitratesSet
<1> HIDE DEF e
<1>3. Tells(t, Controller, now) /\ t.est = e
  <2>1. e \in Estimations
    BY <1>2 DEF EstimateFits
  <2> QED BY <1>1, <2>1, ControllerNow, ChangedTells
<1>4. l.start \in Nat /\ start \in Nat
  BY SenderCcAssumption DEF Greater
<1>5. /\ now' = now /\ update_ts' = update_ts /\ set_ts' = now /\ past' = {}
      /\ est' = e /\ last' = t.last /\ notify_ts' = t.notify_ts /\ paced' = start
      /\ detector' = detector /\ above' = above /\ messages' = messages
      /\ seen_ts' = seen_ts /\ acked' = acked /\ changes' = changes + 1
      /\ aimd' = AimdWithBitrates(aimd, l)
  <2> DEFINE s == WithBitrates(Controller, l, now)
  <2>1. Becomes(s) /\ now' = now /\ update_ts' = update_ts /\ set_ts' = now /\ past' = {}
        /\ detector' = detector /\ above' = above /\ messages' = messages
        /\ seen_ts' = seen_ts /\ acked' = acked /\ changes' = changes + 1
        /\ aimd' = AimdWithBitrates(aimd, l)
    BY DEF SetBitrates
  <2>2. s = [t EXCEPT !.paced = start]
    BY <1>1 DEF WithBitrates, e
  <2> HIDE DEF s, t, start
  <2>3. s.est = t.est /\ s.last = t.last /\ s.notify_ts = t.notify_ts /\ s.paced = start
    BY <1>3, <2>2 DEF Tells, Controllers
  <2> QED BY <1>3, <2>1, <2>3 DEF Becomes
<1>6. AimdFits(aimd')
  BY <1>1, <1>5, AimdWithBitratesFits DEF AimdFits
<1> HIDE DEF t, start
<1>7. /\ last' \in Told /\ notify_ts' \in Nat /\ notify_ts' <= now
      /\ update_ts < notify_ts' + NotifyMs
  <2>1. /\ notify_ts \in Nat /\ update_ts \in Nat /\ notify_ts <= now /\ update_ts <= now
        /\ update_ts < notify_ts + NotifyMs
    BY DEF CcInv, InTime
  <2>2. NotifyMs \in Nat /\ NotifyMs > 0
    BY SenderCcAssumption
  <2>3. t \in Controllers /\ (t.notify_ts = notify_ts \/ t.notify_ts = now)
    BY <1>1, <1>3 DEF Tells
  <2>4. t.last \in Told /\ t.notify_ts \in Nat
    BY <2>3 DEF Controllers
  <2> QED BY <1>1, <1>5, <2>1, <2>2, <2>3, <2>4
<1>8. InTime'
  BY <1>5, <1>7, <1>1 DEF InTime, CcInv
<1>9. Remembered(past', est', now')
  BY <1>5 DEF Remembered
<1>10. CcInv'
  BY <1>1, <1>2, <1>4, <1>5, <1>6, <1>7, <1>8, <1>9 DEF CcInv
<1> QED BY <1>2, <1>5, <1>10 DEF StepKeeps, CutPaid, GrowthBounded, NoRaise

\* A new round trip time.
LEMMA UpdateRttKeeps ==
    ASSUME CcInv, NEW r \in Rtts, UpdateRtt(r)
    PROVE  StepKeeps
<1>1. r \in Nat
  BY SenderCcAssumption
<1>2. /\ UNCHANGED <<now, est, last, notify_ts, update_ts, paced, detector, seen_ts, acked,
                     above, past, set_ts, messages>>
      /\ changes' = changes + 1 /\ aimd' = [aimd EXCEPT !.rtt = r]
  BY DEF UpdateRtt, control
<1>3. AimdFits(aimd')
  <2>1. aimd \in Controls
    BY DEF CcInv, AimdFits
  <2>2. /\ aimd' \in Controls /\ aimd'.inited = aimd.inited /\ aimd'.state = aimd.state
        /\ aimd'.curr = aimd.curr /\ aimd'.min = aimd.min /\ aimd'.max = aimd.max
        /\ aimd'.region = aimd.region /\ aimd'.avg = aimd.avg
    BY <1>1, <1>2, <2>1 DEF Controls
  <2> QED BY <2>2 DEF CcInv, AimdFits
<1>4. CcInv'
  BY <1>2, <1>3 DEF CcInv, InTime
<1>5. est.curr \in Nat
  BY DEF CcInv, EstimateFits, Estimations
<1> QED BY <1>2, <1>4, <1>5 DEF StepKeeps, CutPaid, GrowthBounded, NoRaise

\* A heartbeat, too early or in time.
LEMMA HeartbeatKeeps ==
    ASSUME CcInv, NEW d \in Delays, NEW flat \in BOOLEAN, Heartbeat(d, flat)
    PROVE  StepKeeps
<1> DEFINE e == EstimationUpdate(est, now', acked, flat)
           t == HeartbeatTells(Controller, e, now')
<1>1. /\ now \in Nat /\ acked \in Nat /\ now' \in Nat /\ now <= now'
      /\ EstimateFits(est, now) /\ Remembered(past, est, now)
      /\ update_ts \in Nat /\ notify_ts \in Nat /\ set_ts \in Nat
      /\ HeartbeatMs \in Nat \ {0} /\ NotifyMs \in Nat \ {0}
  <2>1. /\ now \in Nat /\ acked \in Nat /\ EstimateFits(est, now) /\ Remembered(past, est, now)
        /\ update_ts \in Nat /\ notify_ts \in Nat /\ set_ts \in Nat
    BY DEF CcInv
  <2>2. d \in Nat /\ HeartbeatMs \in Nat \ {0} /\ NotifyMs \in Nat \ {0}
    BY SenderCcAssumption
  <2>3. now' = now + d
    BY DEF Heartbeat
  <2> QED BY <2>1, <2>2, <2>3
<1>2. EstimateFits(est, now') /\ Remembered(past, est, now')
  BY <1>1, EstimateLasts
<1>3. UNCHANGED <<aimd, detector, seen_ts, acked, above, set_ts, messages, changes>>
  BY DEF Heartbeat, delay
<1>4. est.curr \in Nat
  BY <1>1 DEF EstimateFits, Estimations
<1>5. CASE now' < update_ts + HeartbeatMs
  <2>1. UNCHANGED <<est, last, notify_ts, update_ts, paced, past>>
    BY <1>5 DEF Heartbeat, control
  <2>2. InTime'
    BY <1>1, <1>3, <1>5, <2>1 DEF CcInv, InTime
  <2>3. CcInv'
    BY <1>1, <1>2, <1>3, <2>1, <2>2 DEF CcInv
  <2> QED BY <1>3, <1>4, <2>1, <2>3 DEF StepKeeps, CutPaid, GrowthBounded, NoRaise
<1>6. CASE ~(now' < update_ts + HeartbeatMs)
  <2>1. update_ts' = now' /\ Becomes(t) /\ Remember(est, now')
    BY <1>6 DEF Heartbeat
  <2>2. EstimateFits(e, now') /\ Updated(e, est, now')
    BY <1>1, <1>2, EstimationUpdateKeeps
  <2> HIDE DEF e
  <2>3. Tells(t, Controller, now') /\ t.est = e /\ now' < t.notify_ts + NotifyMs
    <3>1. e \in Estimations
      BY <2>2 DEF EstimateFits
    <3>2. Controller.notify_ts <= now'
      BY <1>1 DEF Controller, CcInv, InTime
    <3> QED BY <1>1, <3>1, <3>2, ControllerNow, HeartbeatTellsInTime
  <2> HIDE DEF t
  <2>4. est' = e /\ last' = t.last /\ notify_ts' = t.notify_ts /\ paced' = t.paced
    BY <2>1, <2>3 DEF Becomes
  <2>5. Controller.last = last /\ Controller.notify_ts = notify_ts /\ Controller.paced = paced
    BY DEF Controller
  <2>6. /\ last' \in Told /\ notify_ts' \in Nat /\ paced' \in Nat
        /\ \/ last' = last /\ notify_ts' = notify_ts /\ paced' = paced
           \/ notify_ts' = now' /\ paced' = last'.rate
    BY <2>3, <2>4, <2>5 DEF Tells, Controllers
  <2>7. InTime'
    BY <1>1, <1>3, <2>1, <2>3, <2>4, <2>6 DEF CcInv, InTime
  <2>8. \A q : q = (IF IsStartPhase(est, now') THEN {}
                    ELSE {m \in past : m.ts + IncreaseMs >= now'}
                            \union {[ts |-> now', rate |-> est.curr]})
               => /\ Remembered(q, e, now')
                  /\ e.curr > est.curr /\ e.last_decrease = est.last_decrease =>
                        \A m \in q : e.curr <= Bound(m)
    BY <1>1, <1>2, <2>2, RememberKeeps
  <2>9. /\ Remembered(past', e, now')
        /\ e.curr > est.curr /\ e.last_decrease = est.last_decrease =>
              \A m \in past' : e.curr <= Bound(m)
    BY <2>1, <2>8 DEF Remember
  <2>10. CcInv'
    BY <1>1, <1>3, <2>1, <2>2, <2>4, <2>6, <2>7, <2>9 DEF CcInv
  <2>11. CutPaid
    BY <1>1, <2>2, <2>4 DEF CutPaid, Updated, EstimateFits
  <2>12. GrowthBounded
    BY <2>4, <2>9 DEF GrowthBounded, Bound
  <2> QED BY <1>3, <2>10, <2>11, <2>12 DEF StepKeeps, NoRaise
<1> QED BY <1>5, <1>6

\* A notification within a message comes now, or all stays as it was told.
LEMMA NotifiedLater ==
    ASSUME CcInv, ReportsEnd, UNCHANGED <<now, update_ts, set_ts>>
    PROVE  InTime'
<1>1. /\ now \in Nat /\ update_ts \in Nat /\ notify_ts \in Nat /\ set_ts \in Nat
      /\ NotifyMs \in Nat \ {0} /\ InTime
  BY SenderCcAssumption DEF CcInv
<1>2. CASE last' = last /\ notify_ts' = notify_ts /\ paced' = paced
  BY <1>1, <1>2 DEF InTime
<1>3. CASE notify_ts' = now /\ paced' = last'.rate
  BY <1>1, <1>3 DEF InTime
<1> QED BY <1>2, <1>3 DEF ReportsEnd

\* Feedback without arrivals.
LEMMA ReportOnlyKeeps ==
    ASSUME CcInv, NEW msg \in Messages, NEW flat \in BOOLEAN, ReportOnly(msg, flat)
    PROVE  StepKeeps
<1>1. /\ messages' = messages + 1
      /\ UNCHANGED <<aimd, detector, seen_ts, acked, above, now, update_ts, set_ts, changes>>
      /\ Reports(Controller, msg, flat)
  BY DEF ReportOnly, Reports, delay
<1>2. ReportsEnd
  <2>1. EstimateFits(est, now) /\ acked' \in Nat /\ est.curr \in Nat
    BY <1>1 DEF CcInv, EstimateFits, Estimations
  <2>2. Eased(Controller.est, est, now)
    BY <2>1 DEF Eased, Controller
  <2>3. Tells(Controller, Controller, now)
    BY ControllerNow DEF Tells
  <2> QED BY <1>1, <2>1, <2>2, <2>3, ReportsKeep
<1>3. CcInv'
  <2>1. InTime'
    BY <1>1, <1>2, NotifiedLater
  <2> QED BY <1>1, <1>2, <2>1 DEF CcInv, ReportsEnd
<1>4. CutPaid /\ GrowthBounded
  BY <1>2 DEF ReportsEnd, CutPaid, GrowthBounded, Bound
<1>5. aimd'.curr <= aimd.curr
  BY <1>1 DEF CcInv, AimdFits, Controls
<1> QED BY <1>3, <1>4, <1>5 DEF StepKeeps, NoRaise

\* Feedback with arrivals: delays first, then the parts of the message.
LEMMA FeedbackKeeps ==
    ASSUME CcInv, NEW msg \in Messages, NEW samples \in Samples, NEW rate \in Rates,
           NEW spread \in SpreadsNow, NEW flat \in BOOLEAN,
           Feedback(msg, samples, rate, spread, flat)
    PROVE  StepKeeps
<1> DEFINE found   == Detected(samples, now)
           verdict == found.d.state
           a       == DelayUpdate(aimd, verdict, rate, spread, now)
           s       == DelayPart(Controller, a, verdict, rate, now)
           e       == UpdateDelayBase(est, a.curr, verdict)
<1>1. /\ messages' = messages + 1
      /\ detector' = found.d /\ above' = found.above /\ aimd' = a
      /\ seen_ts' = now /\ acked' = rate
      /\ UNCHANGED <<now, update_ts, set_ts, changes>>
      /\ Reports(s, msg, flat)
  BY DEF Feedback, Reports
<1>2. now \in Nat /\ rate \in Nat /\ spread \in Nat /\ AimdFits(aimd) /\ EstimateFits(est, now)
  <2>1. now \in Nat /\ AimdFits(aimd) /\ EstimateFits(est, now)
    BY DEF CcInv
  <2>2. rate \in Nat
    BY SenderCcAssumption
  <2>3. spread \in {0} \/ spread \in Spreads
    BY DEF SpreadsNow
  <2>4. spread \in Nat
    BY <2>3, SenderCcAssumption
  <2> QED BY <2>1, <2>2, <2>4
<1>3. DetectionFits(found)
  BY <1>2, DetectedKeeps DEF CcInv
<1> HIDE DEF found
<1>4. verdict \in Verdicts /\ DetectionFits([d |-> detector', above |-> above'])
  BY <1>1, <1>3 DEF DetectionFits, Detectors
<1>5. AimdFits(a) /\ (verdict = "overusing" => a.curr <= aimd.curr)
  <2> HIDE DEF verdict
  <2> QED BY <1>2, <1>4, DelayUpdateKeeps
<1>6. verdict = detector'.state
  BY <1>1
<1> HIDE DEF a, verdict
<1>7. Tells(s, Controller, now) /\ Eased(s.est, est, now)
  <2>1. Controller \in Controllers /\ Controller.est = est
    BY ControllerNow DEF Controller
  <2>2. s = Controller \/ s = Changed(Controller, e, now)
    BY <2>1 DEF DelayPart
  <2>3. Eased(e, est, now)
    <3>1. a.curr \in Nat
      BY <1>5 DEF AimdFits, Controls
    <3> QED BY <1>2, <1>4, <3>1, UpdateDelayBaseEases
  <2> HIDE DEF s, e
  <2>4. e \in Estimations
    BY <2>3 DEF Eased, EstimateFits
  <2>5. Tells(Changed(Controller, e, now), Controller, now) /\ Changed(Controller, e, now).est = e
    BY <1>2, <2>1, <2>4, ChangedTells
  <2>6. Tells(Controller, Controller, now) /\ Eased(Controller.est, est, now)
    <3>1. est.curr \in Nat
      BY <1>2 DEF EstimateFits, Estimations
    <3> QED BY <1>2, <2>1, <3>1 DEF Tells, Eased
  <2> QED BY <2>2, <2>3, <2>5, <2>6
<1> HIDE DEF s
<1>8. ReportsEnd
  BY <1>1, <1>2, <1>7, ReportsKeep
<1>9. CcInv'
  <2>1. InTime'
    BY <1>1, <1>8, NotifiedLater
  <2> QED BY <1>1, <1>2, <1>4, <1>5, <1>8, <2>1 DEF CcInv, ReportsEnd
<1>10. CutPaid /\ GrowthBounded
  BY <1>8 DEF ReportsEnd, CutPaid, GrowthBounded, Bound
<1> QED BY <1>1, <1>5, <1>6, <1>9, <1>10 DEF StepKeeps, NoRaise

-----------------------------------------------------------------------------
(* The theorems *)

\* The sender as it is created, after its first limits.
LEMMA InitKeeps == ASSUME Init PROVE CcInv
<1> DEFINE new == NewEstimation(FloorRate, CeilRate)
           created == [est |-> new, notify_ts |-> StartTime,
                       last |-> [rate |-> 0, loss |-> 0, rtt |-> 0], paced |-> 0]
           fresh == NewAimd(DelayCeil, FloorRate, DefaultRtt)
<1>1. PICK l \in Limits :
         LET s == WithBitrates(created, l, StartTime)
         IN  /\ now = StartTime /\ update_ts = StartTime /\ set_ts = StartTime
             /\ est = s.est /\ last = s.last /\ notify_ts = s.notify_ts /\ paced = s.paced
             /\ aimd = AimdWithBitrates(fresh, l)
             /\ detector = NewDetector
             /\ seen_ts = -1 /\ acked = 0 /\ above = 0
             /\ past = {} /\ messages = 0 /\ changes = 0
  BY DEF Init
<1> DEFINE e == SetSendBitrate(SetMinMax(new, l.min, l.max), l.start)
           t == Changed(created, e, StartTime)
           start == Greater(l.start, l.min)
           s == WithBitrates(created, l, StartTime)
<1>2. /\ StartTime \in Nat /\ l.start \in Nat /\ l.min \in Nat
      /\ FloorRate \in Nat /\ CeilRate \in Nat /\ DelayCeil \in Nat /\ DefaultRtt \in Nat
      /\ HeartbeatMs \in Nat \ {0} /\ NotifyMs \in Nat \ {0}
      /\ LossUnit \in Nat \ {0} /\ LimitPackets \in Nat \ {0}
  BY SenderCcAssumption, EstimationAssumption
<1>3. Accounted(new, StartTime) /\ new \in Estimations
  <2>1. << >> \in Seq([ts : Nat, rate : Nat])
    OBVIOUS
  <2>2. new \in Estimations
    BY <1>2, <2>1 DEF NewEstimation, Estimations, Verdicts
  <2> QED BY <1>2, <2>2 DEF Accounted, NewEstimation
<1>4. created \in Controllers
  <2> HIDE DEF new
  <2> QED BY <1>2, <1>3 DEF Controllers, Told
<1> HIDE DEF new
<1>5. EstimateFits(e, StartTime)
  BY <1>2, <1>3, BitratesSet
<1>6. /\ created.est = new
      /\ now = StartTime /\ update_ts = StartTime /\ set_ts = StartTime
      /\ est = s.est /\ last = s.last /\ notify_ts = s.notify_ts /\ paced = s.paced
  BY <1>1
<1>7. s = [t EXCEPT !.paced = start]
  BY <1>6 DEF WithBitrates
<1> HIDE DEF created, e, s
<1>8. Tells(t, created, StartTime) /\ t.est = e
  <2>1. e \in Estimations
    BY <1>5 DEF EstimateFits
  <2>2. StartTime \in Nat
    BY <1>2
  <2> QED BY <1>4, <2>1, <2>2, ChangedTells
<1>9. start \in Nat
  BY <1>2 DEF Greater
<1>10. s.est = e /\ s.last = t.last /\ s.notify_ts = t.notify_ts /\ s.paced = start
  <2> HIDE DEF t, start
  <2> QED BY <1>7, <1>8 DEF Tells, Controllers
<1>11. t.last \in Told /\ t.notify_ts = StartTime
  <2> HIDE DEF t
  <2>1. created.notify_ts = StartTime
    BY DEF created
  <2> QED BY <1>8, <2>1 DEF Tells, Controllers
<1>12. AimdFits(aimd)
  <2>1. fresh \in Controls /\ fresh.state # "decrease" /\ fresh.region # "near_max"
    BY <1>2 DEF NewAimd, Controls
  <2> HIDE DEF fresh
  <2> QED BY <1>1, <2>1, AimdWithBitratesFits
<1>13. DetectionFits([d |-> detector, above |-> above])
  BY <1>1, AimdAssumption DEF DetectionFits, NewDetector, Detectors, Verdicts
<1> HIDE DEF t, start
<1>14. InTime
  BY <1>2, <1>6, <1>10, <1>11 DEF InTime
<1>15. Remembered(past, est, now)
  BY <1>1 DEF Remembered
<1>16. seen_ts = -1 /\ acked = 0 /\ messages = 0 /\ changes = 0
  BY <1>1
<1> QED BY <1>2, <1>5, <1>6, <1>9, <1>10, <1>11, <1>12, <1>13, <1>14, <1>15, <1>16 DEF CcInv

\* Every action, one by one.
LEMMA StepsKeep == ASSUME CcInv, Next PROVE StepKeeps
<1>1. FlatNow \subseteq BOOLEAN
  BY DEF FlatNow
<1> QED BY <1>1, SetBitratesKeeps, UpdateRttKeeps, HeartbeatKeeps, ReportOnlyKeeps,
          FeedbackKeeps DEF Next

\* The invariant holds in every state.
LEMMA InvKept == Spec => []CcInv
<1>1. CcInv /\ UNCHANGED vars => CcInv'
  BY DEF vars, control, delay, CcInv, InTime
<1>2. CcInv /\ [Next]_vars => CcInv'
  BY <1>1, StepsKeep DEF StepKeeps
<1> QED BY InitKeeps, <1>2, PTL DEF Spec

\* The state of each part, the limits on the rates and the accounts of losses are
\* consistent in every state, whatever was reported and set before.
THEOREM RatesConsistent == Spec => []RatesAgree
<1>1. ASSUME CcInv PROVE RatesAgree
  <2>1. /\ est \in Estimations /\ Limited(est) /\ est.expected < LimitPackets /\ LossesFit
    BY <1>1 DEF CcInv, EstimateFits, LossesFit
  <2>2. detector \in Detectors /\ above \in 0 .. 2
    BY <1>1 DEF CcInv, DetectionFits
  <2>3. past \subseteq [ts : Nat, rate : Nat]
    BY <1>1 DEF CcInv, Remembered, Entry
  <2>4. TypeOK
    BY <1>1, <2>1, <2>2, <2>3 DEF TypeOK, CcInv, AimdFits, Told
  <2> QED BY <1>1, <2>1, <2>4
        DEF RatesAgree, RateCapped, NearMaxHasAverage, CcInv, AimdFits, Limited
<1> QED BY <1>1, InvKept, PTL

\* The pacer's own rate is put right within NotifyMs and a heartbeat of the
\* limits that set it.
THEOREM PacerIsTold == Spec => []PacerFollows
<1>1. ASSUME CcInv PROVE PacerFollows
  <2>1. /\ now \in Nat /\ update_ts \in Nat /\ notify_ts \in Nat /\ set_ts \in Nat
        /\ NotifyMs \in Nat /\ HeartbeatMs \in Nat
    BY <1>1, SenderCcAssumption DEF CcInv
  <2> QED BY <1>1, <2>1 DEF PacerFollows, CcInv, InTime
<1> QED BY <1>1, InvKept, PTL

\* The path is overused only after two samples above the threshold in a row.
THEOREM OveruseIsLasting == Spec => []OveruseLasts
<1>1. CcInv => OveruseLasts
  BY DEF CcInv, DetectionFits, OveruseLasts
<1> QED BY <1>1, InvKept, PTL

\* No feedback on an overused path raises what the delay allows.
THEOREM OveruseRaisesNothing == Spec => OveruseNeverRaises
<1>1. CcInv /\ [Next]_vars => [NoRaise]_vars
  BY StepsKeep DEF StepKeeps
<1> QED BY <1>1, InvKept, PTL DEF Spec, OveruseNeverRaises, NoRaise

\* Each cut for losses is paid for by a report and a pause of its own.
THEOREM LossesCutOnce == Spec => LossCutsOnce
<1>1. CcInv /\ [Next]_vars => [CutPaid]_vars
  BY StepsKeep DEF StepKeeps
<1> QED BY <1>1, InvKept, PTL DEF Spec, LossCutsOnce, CutPaid

\* Past the start, the rate grows from the least of the last second only.
THEOREM GrowthIsBounded == Spec => GrowsFromLeast
<1>1. CcInv /\ [Next]_vars => [GrowthBounded]_vars
  BY StepsKeep DEF StepKeeps
<1> QED BY <1>1, InvKept, PTL DEF Spec, GrowsFromLeast, GrowthBounded
=============================================================================
