------------------------------ MODULE SenderCc ------------------------------
(***************************************************************************)
(* Congestion control at the sender (cc/sender_congestion_controller.c):   *)
(* the estimate from delays (estimator/delay_base_bwe.c over AimdRate) and *)
(* the estimate from losses (SenderEstimation), joined and passed on by    *)
(* estimator/bitrate_controller.c to the pacer and to the application.     *)
(*                                                                         *)
(* Every entry point and the heartbeat run under the session mutex.  A     *)
(* feedback message is taken after cc_feedback_adapter.c found packets in  *)
(* it; one whose packets are all unknown changes nothing.  What inter-     *)
(* arrival groups, trend line and acknowledged rate make of the packets is *)
(* an input: the samples of the detector and the new rate.  Packets older  *)
(* than the estimator do not exist, so its long_feedback_delay branch is   *)
(* left out, and so is a reserved bitrate, which nothing sets.             *)
(***************************************************************************)
EXTENDS SenderEstimation

CONSTANTS
    Limits,         \* the [min, start, max] bitrates an application sets
    FloorRate,      \* k_min_bitrate_bps = 10000
    CeilRate,       \* 1500000, the maximum before the limits are set
    DelayCeil,      \* k_max_bitrate = 12800000 of delay_base_bwe.c
    HeartbeatMs,    \* 100 between two updates
    NotifyMs,       \* k_normal_notify_timer = 2000
    GapMs,          \* k_timestamp_ms = 2000: silence that resets the trend line
    TrendWindow,    \* k_trendline_window_size = 20: no slope on fewer deltas
    DefaultRtt,     \* 200
    Messages,       \* [remb, loss, packets] of feedback; 0 remb, 0 packets: no such part
    Samples,        \* sequences of samples the packets of a message may give
    Rates,          \* acknowledged rates; 0: none known yet
    Spreads,        \* distances that contradict an observed maximum
    Rtts,           \* round trip times measured
    Delays,         \* by how much the clock moves
    StartTime,      \* the clock when the sender is created
    MaxTime,        \* bound of the clock
    MaxMessages,    \* bound of the feedback messages
    MaxChanges      \* bound of the changes of limits and round trip time

ASSUME SenderCcAssumption ==
    /\ Limits \subseteq [min : Nat, start : Nat, max : Nat]
    /\ \A l \in Limits : l.min <= l.start /\ l.start <= l.max
    /\ {FloorRate, CeilRate, HeartbeatMs, NotifyMs, GapMs, TrendWindow} \subseteq Nat \ {0}
    /\ DeltasKept >= TrendWindow
    /\ {DelayCeil, DefaultRtt, StartTime, MaxTime, MaxMessages, MaxChanges} \subseteq Nat
    /\ Messages \subseteq [remb : Nat, loss : 0 .. LossUnit, packets : Nat]
    /\ \A samples \in Samples :
          samples \in Seq([trend : {"above", "below", "within"}, rising : BOOLEAN, delta : Nat])
    /\ Rates \cup Spreads \cup Rtts \cup Delays \subseteq Nat

VARIABLES
    now,        \* GET_SYS_MS
    est,        \* bitrate_controller's sender_estimation_t
    last,       \* what it reported last: [rate, loss, rtt]
    notify_ts,
    update_ts,  \* last_bitrate_update_ts
    paced,      \* the estimate the pacer works with
    aimd,       \* delay_base_bwe's rate_control
    detector,
    seen_ts,    \* last_seen_ms
    acked,      \* ack_estimator_bitrate_bps, 0: none yet
    above,      \* history: samples above the threshold in a row, up to two
    past,       \* history: the rates of the last second's updates
    set_ts,     \* history: when the limits were set last
    messages,
    changes

control == <<est, last, notify_ts, update_ts, paced>>
delay   == <<aimd, detector, seen_ts, acked, above>>
vars    == <<now, control, delay, past, set_ts, messages, changes>>

TypeOK ==
    /\ {now, notify_ts, update_ts, set_ts, paced, acked, messages, changes} \subseteq Nat
    /\ est \in Estimations /\ est.expected < LimitPackets
    /\ last \in [rate : Nat, loss : 0 .. LossUnit, rtt : Nat]
    /\ aimd \in Controls /\ aimd.inited
    /\ aimd.state # "decrease"  \* it is over with its update
    /\ detector \in Detectors
    /\ seen_ts \in Nat \cup {-1} /\ above \in 0 .. 2
    /\ past \subseteq [ts : Nat, rate : Nat]

-----------------------------------------------------------------------------
(* bitrate_controller.c *)

\* bitrate_controller_get_parameter
Report(e) == [rate |-> Greater(e.curr, e.min_conf), loss |-> e.last_loss, rtt |-> e.last_rtt]

\* sender_cc_on_change_bitrate on what changed: s is [est, last, notify_ts, paced].
Tell(s, ts) ==
    [s EXCEPT !.last = Report(s.est), !.notify_ts = ts, !.paced = Report(s.est).rate]

\* maybe_trigger_network_changed after the estimate became e.
Changed(s, e, ts) ==
    LET t == [s EXCEPT !.est = e] IN IF Report(e) = s.last THEN t ELSE Tell(t, ts)

Controller == [est |-> est, last |-> last, notify_ts |-> notify_ts, paced |-> paced]

Becomes(s) ==
    /\ est' = s.est /\ last' = s.last
    /\ notify_ts' = s.notify_ts /\ paced' = s.paced

\* The history of the last second's rates; a start-up jump or new limits begin
\* it anew.
Remember(e, ts) ==
    past' = IF IsStartPhase(e, ts) THEN {}
            ELSE {m \in past : m.ts + IncreaseMs >= ts} \union {[ts |-> ts, rate |-> e.curr]}

-----------------------------------------------------------------------------
(* Calls *)

\* sender_cc_set_bitrates: the pacer takes the start rate whatever the
\* controller made of it.
WithBitrates(s, l, ts) ==
    [Changed(s, SetSendBitrate(SetMinMax(s.est, l.min, l.max), l.start), ts)
        EXCEPT !.paced = Greater(l.start, l.min)]

AimdWithBitrates(a, l) == SetStart(SetMaxRate(SetMinRate(a, l.min), l.max), l.start)

\* sender_cc_create and the first set_bitrates, in one handler of the session.
Init ==
    LET created == [est |-> NewEstimation(FloorRate, CeilRate), notify_ts |-> StartTime,
                    last |-> [rate |-> 0, loss |-> 0, rtt |-> 0], paced |-> 0]
    IN  \E l \in Limits :
           LET s == WithBitrates(created, l, StartTime)
           IN  /\ now = StartTime /\ update_ts = StartTime /\ set_ts = StartTime
               /\ est = s.est /\ last = s.last /\ notify_ts = s.notify_ts /\ paced = s.paced
               /\ aimd = AimdWithBitrates(NewAimd(DelayCeil, FloorRate, DefaultRtt), l)
               /\ detector = NewDetector
               /\ seen_ts = -1 /\ acked = 0 /\ above = 0
               /\ past = {} /\ messages = 0 /\ changes = 0

SetBitrates(l) ==
    /\ changes < MaxChanges
    /\ changes' = changes + 1
    /\ Becomes(WithBitrates(Controller, l, now))
    /\ aimd' = AimdWithBitrates(aimd, l)
    /\ past' = {} /\ set_ts' = now
    /\ UNCHANGED <<now, update_ts, detector, seen_ts, acked, above, messages>>

\* sender_cc_update_rtt: the rtt of the controller only comes with a report.
UpdateRtt(r) ==
    /\ aimd.rtt # r
    /\ changes < MaxChanges
    /\ changes' = changes + 1
    /\ aimd' = [aimd EXCEPT !.rtt = r]
    /\ UNCHANGED <<now, control, detector, seen_ts, acked, above, past, set_ts, messages>>

HeartbeatTellsChanges(s, e, ts) == Changed(s, e, ts)

\* bitrate_controller_heartbeat tells what changed, and everything every NotifyMs.
HeartbeatTells(s, e, ts) ==
    LET t == [s EXCEPT !.est = e]
    IN  IF Report(e) # s.last \/ s.notify_ts + NotifyMs <= ts THEN Tell(t, ts) ELSE t

\* sender_cc_heartbeat, after the clock moved by d.
Heartbeat(d, flat) ==
    /\ now + d <= MaxTime
    /\ now' = now + d
    /\ IF now' < update_ts + HeartbeatMs
       THEN UNCHANGED <<control, past>>
       ELSE /\ update_ts' = now'
            /\ Becomes(HeartbeatTells(Controller, EstimationUpdate(est, now', acked, flat), now'))
            /\ Remember(est, now')
    /\ UNCHANGED <<delay, set_ts, messages, changes>>

-----------------------------------------------------------------------------
(* Feedback *)

\* One sample: e is the detector and the count of those above the threshold.
Sampled(e, raw) ==
    LET s == IF e.d.deltas + 1 < TrendWindow THEN [raw EXCEPT !.trend = "within"] ELSE raw
    IN  [d |-> Detect(e.d, s),
         above |-> IF e.d.deltas = 0 THEN e.above
                   ELSE IF s.trend = "above" THEN Lesser(e.above + 1, 2) ELSE 0]

\* delay_bwe_process: the samples of a message, on a trend line that is new
\* after a silence and flat until its window is full; and how many in a row
\* were above the threshold, not counting the one that decides nothing.
Detected(samples, ts) ==
    LET fresh == IF seen_ts = -1 \/ ts > seen_ts + GapMs
                 THEN [detector EXCEPT !.deltas = 0] ELSE detector
        after[i \in 0 .. Len(samples)] ==
            IF i = 0 THEN [d |-> fresh, above |-> above]
            ELSE Sampled(after[i - 1], samples[i])
    IN  after[Len(samples)]

\* delay_bwe_maybe_update: while the path is overused only in due time.
DelayUpdate(a, verdict, rate, spread, ts) ==
    IF verdict # "overusing" \/ (rate > 0 /\ TimeToReduce(a, rate, ts))
    THEN AimdUpdate(a, verdict, rate, spread, ts)
    ELSE IF rate = 0 /\ TimeToReduce(a, a.curr \div 2 - 1, ts)
         THEN SetEstimate(a, (a.curr * 3) \div 4, ts)
         ELSE a

\* What the parts of a message change, each with its own notification.  A
\* result of the delay part counts if it changed, or was a cut without a rate.
DelayPart(s, a, verdict, rate, ts) ==
    IF a.curr = aimd.curr /\ ~(verdict = "overusing" /\ rate = 0) THEN s
    ELSE Changed(s, UpdateDelayBase(s.est, a.curr, verdict), ts)
RembPart(s, msg, ts) ==
    IF msg.remb = 0 THEN s ELSE Changed(s, UpdateRemb(s.est, msg.remb), ts)
LossPart(s, msg, rate, flat, ts) ==
    IF msg.packets = 0 THEN s
    ELSE Changed(s, UpdateBlock(s.est, msg.loss, aimd.rtt, msg.packets, ts, rate, flat), ts)

\* The receiver's estimate and the losses, after what the packets said.
Reports(s, msg, flat) ==
    LET r == RembPart(s, msg, now)
        t == LossPart(r, msg, acked', flat, now)
    IN  /\ Becomes(t)
        /\ IF t.est.history = r.est.history THEN UNCHANGED past ELSE Remember(r.est, now)
        /\ UNCHANGED <<now, update_ts, set_ts, changes>>

\* sender_on_feedback with a list of arrivals, of which some were known ...
Feedback(msg, samples, rate, spread, flat) ==
    LET found == Detected(samples, now)
        a     == DelayUpdate(aimd, found.d.state, rate, spread, now)
    IN  /\ messages < MaxMessages /\ messages' = messages + 1
        /\ acked > 0 => rate > 0
        /\ detector' = found.d /\ above' = found.above /\ aimd' = a
        /\ seen_ts' = now /\ acked' = rate
        /\ Reports(DelayPart(Controller, a, found.d.state, rate, now), msg, flat)

\* ... and without one.
ReportOnly(msg, flat) ==
    /\ messages < MaxMessages /\ messages' = messages + 1
    /\ UNCHANGED delay
    /\ Reports(Controller, msg, flat)

\* The inputs that tell anything apart: a distance to a maximum if there is one,
\* the slope of the losses once enough of them are known.
SpreadsNow == IF aimd.avg < 0 THEN {0} ELSE Spreads
FlatNow    == IF est.reports < SlopeReports THEN {TRUE} ELSE BOOLEAN

Next ==
    \/ \E l \in Limits : SetBitrates(l)
    \/ \E r \in Rtts : UpdateRtt(r)
    \/ \E d \in Delays, flat \in FlatNow : Heartbeat(d, flat)
    \/ \E msg \in Messages, flat \in FlatNow : ReportOnly(msg, flat)
    \/ \E msg \in Messages, samples \in Samples, rate \in Rates, spread \in SpreadsNow,
          flat \in FlatNow :
           Feedback(msg, samples, rate, spread, flat)

Spec == Init /\ [][Next]_vars

-----------------------------------------------------------------------------
(* Properties *)

\* Whatever the order of reports, silences, receiver's and delay's estimates
\* and new limits, the rate in use is within the limits and exceeds none of the
\* estimates unless the least rate allowed does (sender_bandwidth_estimator.c:
\* 203-219 at the end of every path).
RateCapped ==
    /\ est.curr \in est.min_conf .. est.max_conf
    /\ \A limit \in {est.remb, est.delay_base} \ {0} : est.curr <= Greater(limit, est.min_conf)
    /\ aimd.curr \in aimd.min .. aimd.max

\* The pacer sends at the rate the application knows.  New limits give it their
\* start rate behind the controller's back; within two seconds and a heartbeat
\* a notification puts it right (sender_congestion_controller.c:185-189,
\* bitrate_controller.c:124-141).
PacerFollows == paced # last.rate => now < set_ts + NotifyMs + HeartbeatMs

\* Near the maximum there is a maximum: a decrease never computes with the -1
\* that stands for none (aimd_rate_control.c:216, 224-233).
NearMaxHasAverage == aimd.region = "near_max" => aimd.avg >= 0

\* The losses put together are at most all of what was reported, so that their
\* share is one (sender_bandwidth_estimator.c:131-144).
LossesFit == est.lost <= LossUnit * est.expected

\* The rates, the limits, the losses and the detector fit together, whatever was
\* reported.
RatesAgree == TypeOK /\ RateCapped /\ NearMaxHasAverage /\ LossesFit

\* One late group of packets is no overuse, however late: the path counts as
\* overused only after two samples in a row above the threshold, not counting
\* those of an unfilled trend line (overuse_detector.c:68-86).
OveruseLasts == detector.state = "overusing" => above = 2

\* While the path is overused no feedback raises the rate allowed by delay,
\* even if more is seen to arrive than is sent (aimd_rate_control.c:213-220).
OveruseNeverRaises ==
    [][messages' # messages /\ detector'.state = "overusing" => aimd'.curr <= aimd.curr]_vars

\* Between two cuts for losses lie a pause and a new report: a loss is paid for
\* once (sender_bandwidth_estimator.c:276-280).
LossCutsOnce ==
    [][est'.last_decrease # est.last_decrease =>
         /\ est'.last_report >= est.last_decrease
         /\ est'.last_decrease >= est.last_decrease + DecreaseMs]_vars

\* Past the start, growth on low losses is at most 8% and a step above every
\* rate of the last second, however many reports and heartbeats fall into it
\* (sender_bandwidth_estimator.c:164-201, 259-268).
GrowsFromLeast ==
    [][est'.curr > est.curr /\ est'.last_decrease = est.last_decrease =>
         \A m \in past' : est'.curr <= m.rate + Times(Growth, m.rate) + RateStep]_vars
=============================================================================
