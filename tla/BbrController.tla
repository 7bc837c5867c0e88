--------------------------- MODULE BbrController ---------------------------
(***************************************************************************)
(* The BBR congestion controller as operators on its state: the packet     *)
(* sampler (bbr/bbr_bandwidth_sample.c), the round trip times              *)
(* (bbr/bbr_rtt_stats.c) and the controller (bbr/bbr_controller.c).        *)
(*                                                                         *)
(* The configuration is the one bbr_set_default_config leaves: no branch   *)
(* it switches off is modelled.  The clock counts milliseconds, rates are  *)
(* bytes per millisecond, gains are fractions <<numerator, denominator>>.  *)
(* The points of the sampler are keyed by packet number; the ring of 1024  *)
(* slots that stores them is larger than anything in flight here.          *)
(***************************************************************************)
EXTENDS WindowedFilter

CONSTANTS
    MinWindow,        \* min_congestion_window, bytes
    InitialWindow,    \* initial_congestion_window
    MaxWindow,        \* max_congestion_window
    MaxPacketSize,    \* kMaxPacketSize = 1452
    MaxSegmentSize,   \* kMaxSegmentSize = 1460
    InitialRtt,       \* kInitialRttMs = 100
    MinRttFloor,      \* the literal 5 of bbr_update_bandwidth_and_min_rtt
    MinRttExpiry,     \* kMinRttExpiry = 10000
    ProbeRttMs,       \* kProbeRttTimeMs = 200
    StartupRounds,    \* num_startup_rtts = 3
    CycleLength       \* kGainCycleLength = 8

ASSUME WindowsAssumption ==
    /\ MinWindow \in Nat \ {0}
    /\ InitialWindow \in MinWindow .. MaxWindow
    /\ MaxWindow \in Nat
    /\ {MaxPacketSize, MaxSegmentSize} \subseteq Nat \ {0}

ASSUME TimesAssumption ==
    /\ {InitialRtt, MinRttFloor, MinRttExpiry, ProbeRttMs} \subseteq Nat \ {0}
    /\ StartupRounds \in Nat \ {0}
    /\ CycleLength \in Nat \ {0, 1, 2}

Lesser(a, b)  == IF a <= b THEN a ELSE b
Greater(a, b) == IF a >= b THEN a ELSE b

One       == <<1, 1>>
HighGain  == <<277, 100>>      \* kHighGain
DrainGain == <<100, 277>>      \* kDrainGain
Times(g, x) == (g[1] * x) \div g[2]

-----------------------------------------------------------------------------
(* bbr_bandwidth_sample.c *)

NewSampler ==
    [total_data_sent |-> 0, total_data_acked |-> 0, sent_at_last_ack |-> 0,
     last_ack_sent_ts |-> -1, last_ack_ts |-> -1, last_sent |-> 0,
     is_app_limited |-> FALSE, end_of_app_limited |-> 0,
     start_pos |-> -1, index |-> -1, points |-> << >>]

\* A packet sent while nothing is in flight restarts the measured interval.
Restarted(s, ts) ==
    [s EXCEPT !.last_ack_ts = ts, !.last_ack_sent_ts = ts, !.sent_at_last_ack = s.total_data_sent]

Point(s, ts, size) ==
    [send_ts |-> ts, size |-> size, total_sent |-> s.total_data_sent,
     acked_before |-> s.total_data_acked, sent_at_last_ack |-> s.sent_at_last_ack,
     last_ack_ts |-> s.last_ack_ts, last_ack_sent_ts |-> s.last_ack_sent_ts,
     is_app_limited |-> s.is_app_limited]

AddPoint(s, ts, number, size) ==
    IF number <= s.start_pos THEN s
    ELSE [s EXCEPT !.start_pos = IF @ = -1 THEN number ELSE @,
                   !.index = number,
                   !.points = [n \in DOMAIN @ \union {number} |->
                                 IF n = number THEN Point(s, ts, size) ELSE @[n]]]

SamplerSent(s, ts, number, size, in_flight) ==
    LET counted == [s EXCEPT !.last_sent = number, !.total_data_sent = @ + size]
        begun   == IF in_flight <= 0 THEN Restarted(counted, ts) ELSE counted
    IN  AddPoint(begun, ts, number, size)

\* sampler_remove_point: the point is ignored from now on; the first one also
\* lets the window move by one.
RemovePoint(s, number) ==
    IF s.start_pos > number \/ s.index < number THEN s
    ELSE [s EXCEPT !.points = [n \in DOMAIN @ \ {number} |-> @[n]],
                   !.start_pos = IF @ = number /\ s.index > number THEN @ + 1 ELSE @]

NoSample == [bandwidth |-> 0, rtt |-> 0, is_app_limited |-> FALSE]

\* The rate of the interval a point closes: what was acknowledged since the
\* point was made, never faster than it was sent.  Acknowledgements one or
\* two milliseconds apart give no sample.
SampleOf(p, acked, ack_ts) ==
    LET send_rate == IF p.send_ts > p.last_ack_sent_ts
                     THEN (p.total_sent - p.sent_at_last_ack) \div (p.send_ts - p.last_ack_sent_ts)
                     ELSE 2147483647
        gap       == ack_ts - p.last_ack_ts
        sample(d) == [bandwidth |-> Lesser((acked - p.acked_before) \div d, send_rate),
                      rtt |-> ack_ts - p.send_ts, is_app_limited |-> p.is_app_limited]
    IN  IF p.last_ack_ts = -1 \/ p.last_ack_sent_ts = -1 THEN NoSample
        ELSE IF gap > 2 THEN sample(gap)
        ELSE IF gap = 0 THEN sample(2)
        ELSE NoSample

\* sampler_on_packet_acked that forgets to drop the point.
SamplerAckedKeepsPoint(s, ack_ts, number) ==
    IF number \notin DOMAIN s.points THEN [smp |-> s, sample |-> NoSample]
    ELSE LET p     == s.points[number]
             acked == s.total_data_acked + p.size
             after == [s EXCEPT !.total_data_acked = acked, !.sent_at_last_ack = p.total_sent,
                                !.last_ack_ts = ack_ts, !.last_ack_sent_ts = p.send_ts,
                                !.is_app_limited = @ /\ number <= s.end_of_app_limited]
         IN  [smp |-> after, sample |-> SampleOf(p, acked, ack_ts)]

\* sampler_on_packet_acked: a point counts once, then it is ignored.
SamplerAcked(s, ack_ts, number) ==
    IF number \notin DOMAIN s.points THEN [smp |-> s, sample |-> NoSample]
    ELSE LET p     == s.points[number]
             acked == s.total_data_acked + p.size
             after == [s EXCEPT !.total_data_acked = acked, !.sent_at_last_ack = p.total_sent,
                                !.last_ack_ts = ack_ts, !.last_ack_sent_ts = p.send_ts,
                                !.is_app_limited = @ /\ number <= s.end_of_app_limited]
         IN  [smp |-> RemovePoint(after, number), sample |-> SampleOf(p, acked, ack_ts)]

SamplerAppLimited(s) == [s EXCEPT !.is_app_limited = TRUE, !.end_of_app_limited = s.last_sent]

SamplerRemoveOld(s, least) ==
    LET first == Greater(s.start_pos, Lesser(least, s.index))
    IN  [s EXCEPT !.start_pos = first, !.points = [n \in {m \in DOMAIN @ : m >= first} |-> @[n]]]

-----------------------------------------------------------------------------
(* bbr_rtt_stats.c *)

\* The smoothed time is an integer: seven eighths of the old, one of the new.
Smoothed(srtt, delta) ==
    IF srtt = 0 THEN Greater(1, delta) ELSE (7 * srtt + Greater(1, delta)) \div 8

RttUpdate(c, delta) ==
    IF delta < 0 THEN c
    ELSE [c EXCEPT !.rtt_min = IF @ = 0 \/ @ > delta THEN Greater(delta, 1) ELSE @,
                   !.srtt = Smoothed(@, delta)]

-----------------------------------------------------------------------------
(* bbr_controller.c: what the state says *)

GetMinRtt(c) == IF c.min_rtt = 0 THEN InitialRtt ELSE c.min_rtt

Bandwidth(c) == FilterBest(c.max_bandwidth)

\* bbr_get_target_congestion_window: the bytes the path holds, times a gain.
TargetWindow(c, gain) ==
    LET window == Times(gain, GetMinRtt(c) * Bandwidth(c))
    IN  Greater(IF window <= 0 THEN Times(gain, InitialWindow) ELSE window, MinWindow)

ProbeRttWindow(c) == TargetWindow(c, <<3, 4>>)

InRecovery(c) == c.recovery_state # "NOT_IN_RECOVERY"

\* bbr_get_congestion_window: what may be in flight now.
CongestionWindow(c) ==
    IF c.mode = "PROBE_RTT" THEN ProbeRttWindow(c)
    ELSE IF InRecovery(c) THEN Lesser(c.congestion_window, c.recovery_window)
    ELSE c.congestion_window

\* bbr_get_pacing_gain: a cycle probes first, drains second, then cruises.
PacingGain(offset) ==
    IF offset = 0 THEN <<5, 4>> ELSE IF offset = 1 THEN <<3, 4>> ELSE One

\* rand() % (kGainCycleLength - 1) never lets a cycle begin with draining.
CycleStarts == {0} \union 2 .. CycleLength - 1

-----------------------------------------------------------------------------
(* bbr_controller.c: the modes *)

EnterStartup(c) ==
    [c EXCEPT !.mode = "STARTUP", !.pacing_gain = HighGain, !.congestion_window_gain = HighGain]

EnterProbeBandwidth(c, ts, offset) ==
    [c EXCEPT !.mode = "PROBE_BW", !.congestion_window_gain = <<2, 1>>,
              !.cycle_current_offset = offset, !.last_cycle_start = ts,
              !.pacing_gain = PacingGain(offset)]

\* bbr_create and bbr_reset.
NewController ==
    [mode |-> "STARTUP", pacing_gain |-> HighGain, congestion_window_gain |-> HighGain,
     last_sent_packet |-> 0, round_trip_count |-> 0, current_round_trip_end |-> 0,
     max_bandwidth |-> FilterReset(0, 0), max_ack_height |-> FilterReset(0, 0),
     measured |-> {Estimate(0, 0)},
     epoch_start |-> -1, epoch_bytes |-> 0,
     min_rtt |-> 0, min_rtt_ts |-> 0, rtt_min |-> 0, srtt |-> InitialRtt,
     congestion_window |-> InitialWindow, recovery_window |-> MaxWindow, pacing_rate |-> 0,
     cycle_current_offset |-> 0, last_cycle_start |-> 0,
     is_at_full_bandwidth |-> FALSE, rounds_without_gain |-> 0, bandwidth_at_last_round |-> 0,
     exiting_quiescence |-> FALSE, exit_probe_rtt_at |-> -1, probe_rtt_round_passed |-> FALSE,
     last_sample_is_app_limited |-> FALSE,
     recovery_state |-> "NOT_IN_RECOVERY", end_recovery_at |-> -1,
     smp |-> NewSampler]

\* bbr_on_send_packet.
OnSendPacket(c, ts, number, size, in_flight) ==
    [c EXCEPT !.last_sent_packet = number,
              !.exiting_quiescence = @ \/ (in_flight = 0 /\ c.smp.is_app_limited),
              !.epoch_start = IF @ = -1 THEN ts ELSE @,
              !.smp = SamplerSent(@, ts, number, size, in_flight)]

\* bbr_update_round_trip_counter: a packet sent after the round began is back.
RoundStarts(c, last_acked) == last_acked > c.current_round_trip_end

CountRound(c, last_acked) ==
    IF RoundStarts(c, last_acked)
    THEN [c EXCEPT !.round_trip_count = @ + 1, !.current_round_trip_end = c.last_sent_packet]
    ELSE c

\* One more acknowledged packet: the sampler after it, its sample, and the
\* least round trip time so far (-1: none was measured).
SampleNext(acc, p) ==
    LET r == SamplerAcked(acc.smp, p.recv_time, p.seq)
    IN  [smp |-> r.smp, sample |-> r.sample,
         rtt |-> IF r.sample.rtt <= 0 THEN acc.rtt
                 ELSE IF acc.rtt = -1 THEN r.sample.rtt ELSE Lesser(acc.rtt, r.sample.rtt)]

\* The samples of one feedback in order.
Sampled(c, acked) ==
    LET upto[i \in 0 .. Len(acked)] ==
          IF i = 0 THEN [smp |-> c.smp, sample |-> NoSample, rtt |-> -1]
          ELSE SampleNext(upto[i - 1], acked[i])
    IN  upto[Len(acked)]

MinRttExpired(c, ts) == c.min_rtt > 0 /\ ts > c.min_rtt_ts + MinRttExpiry

\* bbr_update_bandwidth_and_min_rtt on r, what Sampled gives.  The field
\* measured is a history: the estimates the filter of max_bandwidth was given.
Measured(c, ts, r) ==
    LET seen == [c EXCEPT !.smp = r.smp, !.last_sample_is_app_limited = r.sample.is_app_limited]
        rate == r.sample.bandwidth
        rated == IF r.sample.is_app_limited /\ rate <= Bandwidth(c) THEN seen
                 ELSE [seen EXCEPT !.max_bandwidth = FilterUpdate(@, rate, c.round_trip_count),
                                   !.measured = @ \union {Estimate(rate, c.round_trip_count)}]
    IN  IF r.rtt = -1 THEN seen
        ELSE IF MinRttExpired(c, ts) \/ r.rtt < c.min_rtt \/ c.min_rtt <= 0
             THEN [rated EXCEPT !.min_rtt = Greater(MinRttFloor, r.rtt), !.min_rtt_ts = ts]
             ELSE rated

UpdateBandwidthAndMinRtt(c, ts, acked) == Measured(c, ts, Sampled(c, acked))

\* bbr_update_recovery_state.  The case of conservation falls through to the
\* one of growth, so a recovery may also end before it has grown.
UpdateRecoveryState(c, last_acked, losses, round_start) ==
    LET marked == IF losses THEN [c EXCEPT !.end_recovery_at = last_acked] ELSE c
        grown  == IF round_start THEN [marked EXCEPT !.recovery_state = "GROWTH"] ELSE marked
    IN  IF ~InRecovery(c)
        THEN IF losses
             THEN [marked EXCEPT !.recovery_state = "CONSERVATION", !.recovery_window = 0,
                                 !.current_round_trip_end = last_acked]
             ELSE c
        ELSE IF ~losses /\ c.end_recovery_at < last_acked
             THEN [grown EXCEPT !.recovery_state = "NOT_IN_RECOVERY"]
             ELSE grown

\* bbr_update_ack_aggregation_bytes: what arrives above the estimated rate.
\* had is what was acknowledged before the feedback.
UpdateAckAggregation(c, ts, had) ==
    LET acked    == c.smp.total_data_acked - had
        expected == Bandwidth(c) * (ts - c.epoch_start)
        bytes    == c.epoch_bytes + acked
    IN  IF c.epoch_start = -1 \/ Bandwidth(c) <= 0 THEN c
        ELSE IF c.epoch_bytes <= expected
             THEN [c EXCEPT !.epoch_bytes = acked, !.epoch_start = ts]
             ELSE [c EXCEPT !.epoch_bytes = bytes,
                            !.max_ack_height = FilterUpdate(@, bytes - expected, c.round_trip_count)]

\* bbr_update_gain_cycle_phase: a phase lasts a round trip; probing goes on
\* until the window is full or something is lost, draining ends once it is not.
UpdateGainCycle(c, ts, prior_in_flight, losses) ==
    LET probing  == c.pacing_gain = <<5, 4>>
        draining == c.pacing_gain = <<3, 4>>
        next     == (c.cycle_current_offset + 1) % CycleLength
    IN  IF c.mode # "PROBE_BW" THEN c
        ELSE IF \/ draining /\ prior_in_flight < TargetWindow(c, One)
                \/ /\ ts - c.last_cycle_start > GetMinRtt(c)
                   /\ ~(probing /\ ~losses /\ prior_in_flight < TargetWindow(c, c.pacing_gain))
             THEN [c EXCEPT !.cycle_current_offset = next, !.last_cycle_start = ts,
                            !.pacing_gain = PacingGain(next)]
             ELSE c

\* bbr_check_if_full_bandwidth_reached, at the start of a round.
CheckFullBandwidth(c, round_start) ==
    IF ~round_start \/ c.is_at_full_bandwidth \/ c.last_sample_is_app_limited THEN c
    ELSE IF Times(<<5, 4>>, c.bandwidth_at_last_round) <= Bandwidth(c)
         THEN [c EXCEPT !.bandwidth_at_last_round = Bandwidth(c), !.rounds_without_gain = 0]
         ELSE [c EXCEPT !.rounds_without_gain = @ + 1,
                        !.is_at_full_bandwidth =
                            c.rounds_without_gain + 1 >= StartupRounds \/ InRecovery(c)]

\* bbr_maybe_exit_startup_or_drain.
ExitStartupOrDrain(c, ts, in_flight, offset) ==
    LET drained == IF c.mode = "STARTUP" /\ c.is_at_full_bandwidth
                   THEN [c EXCEPT !.mode = "DRAIN", !.pacing_gain = DrainGain,
                                  !.congestion_window_gain = DrainGain]
                   ELSE c
    IN  IF drained.mode = "DRAIN" /\ in_flight <= TargetWindow(drained, One)
        THEN EnterProbeBandwidth(drained, ts, offset)
        ELSE drained

\* The measurement is over: back to where the controller came from.
LeaveProbeRtt(c, ts, offset) ==
    LET fresh == [c EXCEPT !.min_rtt_ts = ts]
    IN  IF c.is_at_full_bandwidth THEN EnterProbeBandwidth(fresh, ts, offset) ELSE EnterStartup(fresh)

\* In PROBE_RTT: first the data in flight has to fall, then it is kept low
\* for ProbeRttMs and for a round.
StayInProbeRtt(c, ts, in_flight, round_start, offset) ==
    LET limited == [c EXCEPT !.smp = SamplerAppLimited(@)]
        passed  == [limited EXCEPT !.probe_rtt_round_passed = @ \/ round_start]
    IN  IF c.exit_probe_rtt_at < 0
        THEN IF in_flight < ProbeRttWindow(c) + MaxPacketSize
             THEN [limited EXCEPT !.exit_probe_rtt_at = ts + ProbeRttMs,
                                  !.probe_rtt_round_passed = FALSE]
             ELSE limited
        ELSE IF ts >= c.exit_probe_rtt_at /\ passed.probe_rtt_round_passed
             THEN LeaveProbeRtt(passed, ts, offset)
             ELSE passed

\* bbr_maybe_enter_or_exit_probe_rtt.
EnterOrExitProbeRtt(c, ts, in_flight, round_start, expired, offset) ==
    LET entered == IF expired /\ ~c.exiting_quiescence /\ c.mode # "PROBE_RTT"
                   THEN [c EXCEPT !.mode = "PROBE_RTT", !.pacing_gain = One, !.exit_probe_rtt_at = -1]
                   ELSE c
        stayed  == IF entered.mode = "PROBE_RTT"
                   THEN StayInProbeRtt(entered, ts, in_flight, round_start, offset)
                   ELSE entered
    IN  [stayed EXCEPT !.exiting_quiescence = FALSE]

\* bbr_calculate_pacing_rate.
CalculatePacingRate(c) ==
    LET target == Times(c.pacing_gain, Bandwidth(c))
    IN  IF Bandwidth(c) <= 0 THEN c
        ELSE [c EXCEPT !.pacing_rate =
                IF c.is_at_full_bandwidth THEN Greater(target, CongestionWindow(c) \div c.srtt)
                ELSE IF @ = 0 /\ c.rtt_min > 0 THEN InitialWindow \div c.rtt_min
                ELSE Greater(@, target)]

\* bbr_calculate_congestion_window.
CalculateCongestionWindow(c, acked) ==
    LET target == TargetWindow(c, c.congestion_window_gain)
                    + IF c.is_at_full_bandwidth THEN FilterBest(c.max_ack_height) ELSE 0
        window == IF c.is_at_full_bandwidth THEN Lesser(target, c.congestion_window + acked)
                  ELSE IF c.congestion_window < target \/ c.smp.total_data_acked < InitialWindow
                       THEN c.congestion_window + acked
                       ELSE c.congestion_window
    IN  IF c.mode = "PROBE_RTT" THEN c
        ELSE [c EXCEPT !.congestion_window = Lesser(Greater(window, MinWindow), MaxWindow)]

CalculateRecoveryWindowUnfloored(c, acked, lost, in_flight) ==
    LET reduced == (IF c.recovery_window >= lost THEN c.recovery_window - lost ELSE MaxSegmentSize)
    IN  IF ~InRecovery(c) THEN c
        ELSE [c EXCEPT !.recovery_window =
                IF @ = 0 THEN in_flight + acked ELSE Greater(reduced, in_flight + acked)]

\* bbr_calculate_recovery_window.  Its branch of medium growth compares the
\* window with the state's number and never applies.
CalculateRecoveryWindow(c, acked, lost, in_flight) ==
    LET reduced == (IF c.recovery_window >= lost THEN c.recovery_window - lost ELSE MaxSegmentSize)
                     + IF c.recovery_state = "GROWTH" THEN acked ELSE 0
    IN  IF ~InRecovery(c) THEN c
        ELSE [c EXCEPT !.recovery_window =
                Greater(MinWindow, IF @ = 0 THEN in_flight + acked
                                   ELSE Greater(reduced, in_flight + acked))]

-----------------------------------------------------------------------------
(* bbr_on_feedback *)

IsLost(p) == p.recv_time <= 0

\* bbr_feedback_get_loss and bbr_feedback_get_received.
Chosen(packets, lost) ==
    LET upto[i \in 0 .. Len(packets)] ==
          IF i = 0 THEN << >>
          ELSE IF IsLost(packets[i]) = lost THEN Append(upto[i - 1], packets[i]) ELSE upto[i - 1]
    IN  upto[Len(packets)]

Received(packets) == Chosen(packets, FALSE)
Lost(packets)     == Chosen(packets, TRUE)

Bytes(packets) ==
    LET upto[i \in 0 .. Len(packets)] == IF i = 0 THEN 0 ELSE upto[i - 1] + packets[i].size
    IN  upto[Len(packets)]

Discarded(s, lost) ==
    LET upto[i \in 0 .. Len(lost)] == IF i = 0 THEN s ELSE RemovePoint(upto[i - 1], lost[i].seq)
    IN  upto[Len(lost)]

DiscardLost(c, lost) == [c EXCEPT !.smp = Discarded(@, lost)]

\* What the acknowledged packets of a feedback change, before the modes.
Acknowledged(c, fb, acked, losses) ==
    LET last  == acked[Len(acked)].seq
        round == RoundStarts(c, last)
    IN  IF acked = << >> THEN c
        ELSE UpdateAckAggregation(
               UpdateRecoveryState(UpdateBandwidthAndMinRtt(CountRound(c, last), fb.time, acked),
                                   last, losses, round),
               fb.time, c.smp.total_data_acked)

Modes(c, fb, losses, round, expired, offset) ==
    EnterOrExitProbeRtt(
      ExitStartupOrDrain(
        CheckFullBandwidth(UpdateGainCycle(c, fb.time, fb.prior_in_flight, losses), round),
        fb.time, fb.in_flight, offset),
      fb.time, fb.in_flight, round, expired, offset)

\* The pacing rate and the windows; what lies before the last packet goes.
Resized(c, fb, acked, lost, had) ==
    LET bytes == c.smp.total_data_acked - had
        sized == CalculateRecoveryWindow(CalculateCongestionWindow(CalculatePacingRate(c), bytes),
                                         bytes, Bytes(lost), fb.in_flight)
    IN  IF acked = << >> THEN sized
        ELSE [sized EXCEPT !.smp = SamplerRemoveOld(@, acked[Len(acked)].seq)]

\* The feedback on what is left once the lost packets are discarded.
Judged(c, fb, acked, lost, offset) ==
    LET losses  == lost # << >>
        round   == acked # << >> /\ RoundStarts(c, acked[Len(acked)].seq)
        expired == acked # << >> /\ MinRttExpired(c, fb.time) /\ Sampled(c, acked).rtt # -1
    IN  Resized(Modes(Acknowledged(c, fb, acked, losses), fb, losses, round, expired, offset),
                fb, acked, lost, c.smp.total_data_acked)

\* A feedback is [time, packets, prior_in_flight, in_flight]; offset is the
\* draw of rand(), used should the gain cycle begin.
OnFeedback(before, fb, offset) ==
    LET last == fb.packets[Len(fb.packets)]
    IN  Judged(DiscardLost(RttUpdate(before, last.recv_time - last.send_time), Lost(fb.packets)),
               fb, Received(fb.packets), Lost(fb.packets), offset)
=============================================================================
