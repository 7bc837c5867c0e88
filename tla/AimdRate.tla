------------------------------ MODULE AimdRate ------------------------------
(***************************************************************************)
(* The rate controller that both ends share, additive increase and         *)
(* multiplicative decrease: estimator/aimd_rate_control.c as operators on  *)
(* its state, and the states of estimator/overuse_detector.c that drive    *)
(* it.                                                                     *)
(*                                                                         *)
(* Rates are integers.  The power in the growth over a part of a second is *)
(* taken as linear.  The variance of the observed maximum only decides how *)
(* far from it a rate must be to contradict it: that distance, spread, is  *)
(* an input.  Of the filters before the detector only their verdict is     *)
(* kept: whether the trend lies above, below or within the threshold and   *)
(* whether it rose.                                                        *)
(***************************************************************************)
EXTENDS Integers, FiniteSets

CONSTANTS
    Beta,           \* 0.85 as a fraction <<numerator, denominator>>
    Growth,         \* 0.08, the growth in a GrowthMs
    GrowthMs,       \* 1000
    RateStep,       \* 1000: the least increase, in bit/s
    NearMaxStep,    \* 8000: the least increase in a GrowthMs near the maximum
    FrameRate,      \* 30 frames a second
    PacketBits,     \* kDefaultPacketSize = 8000
    DetectMs,       \* 100: how late overuse is noticed
    ClampSlack,     \* 10000: how far a rate may pass half as much again as is seen
    ReduceMs,       \* <<10, 200>>: limits of the pause between two decreases
    InitialMs,      \* k_initialization_ts = 5000
    OveruseMs,      \* kOverUsingTimeThreshold = 20
    DeltasKept      \* up to where the filters' deltas are counted

ASSUME AimdAssumption ==
    /\ {GrowthMs, RateStep, NearMaxStep, InitialMs, OveruseMs} \subseteq Nat \ {0}
    /\ {FrameRate, PacketBits, DetectMs} \subseteq Nat \ {0} /\ DeltasKept \in Nat \ {0, 1}
    /\ ClampSlack \in Nat
    /\ ReduceMs[1] \in 1 .. ReduceMs[2]
    /\ {Beta, Growth} \subseteq Nat \X (Nat \ {0})
    /\ Beta[1] < Beta[2]

Lesser(a, b)  == IF a <= b THEN a ELSE b
Greater(a, b) == IF a >= b THEN a ELSE b
Times(g, x)   == (g[1] * x) \div g[2]

-----------------------------------------------------------------------------
(* overuse_detector.c *)

Verdicts  == {"normal", "underusing", "overusing"}
Detectors == [state : Verdicts, time : -1 .. OveruseMs + 1, counter : 0 .. 2,
              deltas : 0 .. DeltasKept]

\* overuse_create, with the count of deltas the filter in front keeps.
NewDetector == [state |-> "normal", time |-> -1, counter |-> 0, deltas |-> 0]

DetectWithoutCounter(d, s) ==
    LET time == IF d.time = -1 THEN s.delta \div 2 ELSE d.time + s.delta
    IN  IF d.deltas = 0 THEN [d EXCEPT !.deltas = 1]
        ELSE IF s.trend = "above"
             THEN IF time > OveruseMs /\ s.rising
                  THEN [state |-> "overusing", time |-> 0, counter |-> 0, deltas |-> Lesser(d.deltas + 1, DeltasKept)]
                  ELSE [d EXCEPT !.time = Lesser(time, OveruseMs + 1), !.deltas = Lesser(@ + 1, DeltasKept)]
             ELSE [state |-> IF s.trend = "below" THEN "underusing" ELSE "normal",
                   time |-> -1, counter |-> 0, deltas |-> Lesser(d.deltas + 1, DeltasKept)]

\* overuse_detect on a sample [trend, rising, delta]: the first delta decides
\* nothing, and a trend above the threshold has to last.
Detect(d, s) ==
    LET time    == IF d.time = -1 THEN s.delta \div 2 ELSE d.time + s.delta
        counter == Lesser(d.counter + 1, 2)
        deltas  == Lesser(d.deltas + 1, DeltasKept)
    IN  IF deltas < 2 THEN [d EXCEPT !.deltas = deltas]
        ELSE IF s.trend = "above"
             THEN IF time > OveruseMs /\ counter > 1 /\ s.rising
                  THEN [state |-> "overusing", time |-> 0, counter |-> 0, deltas |-> deltas]
                  ELSE [d EXCEPT !.time = Lesser(time, OveruseMs + 1), !.counter = counter,
                                 !.deltas = deltas]
             ELSE [state |-> IF s.trend = "below" THEN "underusing" ELSE "normal",
                   time |-> -1, counter |-> 0, deltas |-> deltas]

-----------------------------------------------------------------------------
(* aimd_rate_control.c *)

Controls == [min : Nat, max : Nat, curr : Nat, avg : Nat \cup {-1},
             state : {"hold", "increase", "decrease"}, region : {"near_max", "unknown"},
             changed : Nat \cup {-1}, first : Nat \cup {-1}, inited : BOOLEAN, rtt : Nat]

\* aimd_create: avg is avg_max_bitrate_kbps, changed time_last_bitrate_change,
\* first time_first_incoming_estimate; -1 says there is none.
NewAimd(max, min, rtt) ==
    [min |-> min, max |-> max, curr |-> 0, avg |-> -1, state |-> "hold",
     region |-> "unknown", changed |-> -1, first |-> -1, inited |-> FALSE, rtt |-> rtt]

SetStart(a, rate)   == [a EXCEPT !.curr = rate, !.inited = TRUE]
SetMinRate(a, rate) == [a EXCEPT !.min = rate, !.curr = Greater(rate, @)]
SetMaxRate(a, rate) == [a EXCEPT !.max = rate, !.curr = Lesser(rate, @)]

\* aimd_time_reduce_further
TimeToReduce(a, incoming, ts) ==
    \/ ts - a.changed >= Greater(Lesser(ReduceMs[2], a.rtt), ReduceMs[1])
    \/ a.inited /\ a.curr \div 2 > incoming

\* clamp_bitrate: never far above what is seen to arrive.
Clamp(a, rate, incoming) ==
    LET seen == (3 * incoming) \div 2 + ClampSlack
    IN  Lesser(Greater(IF rate > a.curr /\ rate > seen THEN Greater(a.curr, seen) ELSE rate,
                       a.min), a.max)

SetEstimate(a, rate, ts) ==
    [a EXCEPT !.inited = TRUE, !.curr = Clamp(a, rate, rate), !.changed = ts]

\* aimd_get_near_max_inc_rate: a packet of the average size per response time.
NearMaxIncRate(a) ==
    LET frame   == a.curr \div FrameRate
        packets == Greater(1, (frame + PacketBits - 1) \div PacketBits)
    IN  Greater(NearMaxStep, (frame * GrowthMs) \div (packets * 2 * (a.rtt + DetectMs)))

\* multiplicative_rate_increase and additive_rate_increase
Increase(a, ts) ==
    IF a.region = "near_max" THEN ((ts - a.changed) * NearMaxIncRate(a)) \div GrowthMs
    ELSE Greater(RateStep, (Times(Growth, a.curr) * Lesser(ts - a.changed, GrowthMs)) \div GrowthMs)

\* aimd_change_state
ChangeState(a, verdict, ts) ==
    CASE verdict = "normal" /\ a.state = "hold" -> [a EXCEPT !.state = "increase", !.changed = ts]
      [] verdict = "overusing"  -> [a EXCEPT !.state = "decrease"]
      [] verdict = "underusing" -> [a EXCEPT !.state = "hold"]
      [] OTHER -> a

\* The case of increase: a rate well above the maximum seen so far forgets it.
Increased(a, incoming, spread, ts) ==
    LET freed == IF a.avg >= 0 /\ incoming > a.avg + spread
                 THEN [a EXCEPT !.region = "unknown", !.avg = -1] ELSE a
    IN  [freed EXCEPT !.changed = ts, !.curr = Clamp(a, a.curr + Increase(freed, ts), incoming)]

DecreasedUnchecked(a, incoming, spread, ts) ==
    LET kept == IF a.avg # -1 /\ incoming < a.avg - spread THEN -1 ELSE a.avg
    IN  [a EXCEPT !.region = "near_max", !.inited = TRUE, !.state = "hold", !.changed = ts,
                  !.avg = IF kept = -1 THEN incoming ELSE (19 * kept + incoming) \div 20,
                  !.curr = Clamp(a, Times(Beta, incoming), incoming)]

\* The case of decrease, with update_max_bitrate_estimate: to 85% of what
\* arrives, or of the maximum if more arrives than is sent, and never upwards.
Decreased(a, incoming, spread, ts) ==
    LET rate == Times(Beta, incoming)
        cut  == IF a.region # "unknown" THEN Times(Beta, a.avg) ELSE rate
        kept == IF a.avg # -1 /\ incoming < a.avg - spread THEN -1 ELSE a.avg
    IN  [a EXCEPT !.region = "near_max", !.inited = TRUE, !.state = "hold", !.changed = ts,
                  !.avg = IF kept = -1 THEN incoming ELSE (19 * kept + incoming) \div 20,
                  !.curr = Clamp(a, IF rate > @ THEN Lesser(cut, @) ELSE rate, incoming)]

\* aimd_change_bitrate
ChangeBitrate(a, verdict, seen, spread, ts) ==
    LET incoming == IF seen = 0 THEN a.curr ELSE seen
        b        == ChangeState(a, verdict, ts)
    IN  IF ~a.inited /\ verdict # "overusing" THEN a
        ELSE CASE b.state = "hold"     -> [b EXCEPT !.curr = Clamp(b, @, incoming)]
               [] b.state = "increase" -> Increased(b, incoming, spread, ts)
               [] b.state = "decrease" -> Decreased(b, incoming, spread, ts)

\* aimd_update: without a start rate, the rate seen after InitialMs is the first.
AimdUpdate(a, verdict, incoming, spread, ts) ==
    LET begun == IF a.inited \/ incoming = 0 THEN a
                 ELSE IF a.first < 0 THEN [a EXCEPT !.first = ts]
                 ELSE IF ts - a.first > InitialMs THEN [a EXCEPT !.curr = incoming, !.inited = TRUE]
                 ELSE a
    IN  ChangeBitrate(begun, verdict, incoming, spread, ts)
=============================================================================
