-------------------------- MODULE SenderEstimation --------------------------
(***************************************************************************)
(* The sender's estimate from losses, capped by what the receiver and the  *)
(* delay allow: estimator/sender_bandwidth_estimator.c as operators on its *)
(* state.                                                                  *)
(*                                                                         *)
(* fraction_loss is a share of LossUnit.  Of the slope of the losses, an   *)
(* average over twenty reports, only the two stages are kept that do not   *)
(* depend on it: flat before the second report, steep until ten more; from *)
(* there on it is an input.  The ring of 128 minima is never full: what it *)
(* holds is at most a second old and an update lies 100 ms or, with        *)
(* reports, twenty packets after the last.                                 *)
(***************************************************************************)
EXTENDS AimdRate, Sequences

CONSTANTS
    LossUnit,       \* 256
    LowLoss,        \* k_low_loss_threshold = 2%, in LossUnits
    HighLoss,       \* k_high_loss_threshold = 10%
    LimitPackets,   \* k_limit_num_packets = 20
    IncreaseMs,     \* k_bwe_increase_interval_ms = 1000
    StartMs,        \* k_start_phase_ms = 2000
    ReportMs,       \* k_feelback_interval_ms / 1.2 = 4167
    FeedbackLostMs, \* k_feelback_timeout_intervals * k_feelback_interval_ms = 15000
    TimeoutMs,      \* k_timeout_interval_ms = 1000
    DecreaseMs,     \* k_bwe_decrease_interval_ms = 300
    SlopeReports    \* 10: reports before the slope is looked at

ASSUME EstimationAssumption ==
    /\ LossUnit \in Nat \ {0}
    /\ LowLoss \in 0 .. HighLoss /\ HighLoss \in 0 .. LossUnit
    /\ {LimitPackets, IncreaseMs, StartMs, ReportMs, FeedbackLostMs} \subseteq Nat \ {0}
    /\ {TimeoutMs, DecreaseMs, SlopeReports} \subseteq Nat \ {0}

Estimations ==
    [curr : Nat, min_conf : Nat, max_conf : Nat, remb : Nat, delay_base : Nat,
     state : Verdicts, last_feedback : Nat \cup {-1}, last_report : Nat \cup {-1},
     last_timeout : Nat \cup {-1}, first_report : Nat \cup {-1}, last_decrease : Nat,
     last_rtt : Nat, last_loss : 0 .. LossUnit, decreased : BOOLEAN, lost : Nat,
     expected : Nat, reports : Nat, history : Seq([ts : Nat, rate : Nat])]

\* sender_estimation_create.  history is the ring of minima, oldest first.
NewEstimation(min, max) ==
    [curr |-> 0, min_conf |-> min, max_conf |-> max, remb |-> 0, delay_base |-> 0,
     state |-> "normal", last_feedback |-> -1, last_report |-> -1, last_timeout |-> -1,
     first_report |-> -1, last_decrease |-> 0, last_rtt |-> 0, last_loss |-> 0,
     decreased |-> FALSE, lost |-> 0, expected |-> 0, reports |-> 0, history |-> << >>]

CappedByLimitsOnly(e, rate) ==
    [e EXCEPT !.curr = Greater(Lesser(rate, e.max_conf), e.min_conf)]

\* cap_bitrate_to_threshold: the receiver's and the delay's estimates bound it
\* once they are known, the configured minimum above all.
Capped(e, rate) ==
    LET below(limit, r) == IF limit > 0 THEN Lesser(r, limit) ELSE r
    IN  [e EXCEPT !.curr =
           Greater(Lesser(below(e.delay_base, below(e.remb, rate)), e.max_conf), e.min_conf)]

\* sender_estimation_set_minmax_bitrate: the minimum is never lowered again.
SetMinMax(e, min, max) ==
    LET floor == Greater(e.min_conf, min)
    IN  [e EXCEPT !.min_conf = floor, !.max_conf = Greater(floor, max)]

SetSendBitrate(e, rate) == [Capped(e, rate) EXCEPT !.history = << >>]

UpdateRemb(e, rate) == Capped([e EXCEPT !.remb = rate], e.curr)

UpdateDelayBase(e, rate, state) ==
    Capped([e EXCEPT !.delay_base = rate, !.state = state], e.curr)

IsStartPhase(e, ts) == e.first_report = -1 \/ ts < e.first_report + StartMs

UpdateHistoryToLatest(e, ts) == [e EXCEPT !.history = <<[ts |-> ts, rate |-> e.curr]>>]

\* sender_estimation_update_history: minima of the last second, rising.  What is
\* too old goes from the front, what is not below the new rate from the back.
UpdateHistory(e, ts) ==
    LET h == e.history
        old(i)  == h[i].ts + IncreaseMs < ts
        high(i) == h[i].rate >= e.curr
        first   == CHOOSE i \in 1 .. Len(h) + 1 :
                       (\A j \in 1 .. i - 1 : old(j)) /\ (i <= Len(h) => ~old(i))
        last    == CHOOSE i \in first - 1 .. Len(h) :
                       (\A j \in i + 1 .. Len(h) : high(j)) /\ (i >= first => ~high(i))
    IN  [e EXCEPT !.history = Append(SubSeq(h, first, last), [ts |-> ts, rate |-> e.curr])]

\* 8% and a little more than the least rate of the last second
Grown(e) == LET least == e.history[1].rate IN least + Times(Growth, least) + RateStep

\* slope < 0.8: flat says it from SlopeReports on.
SlopeIsFlat(e, flat) == e.reports = 0 \/ (e.reports > SlopeReports /\ flat)

MayCutAgain(e, ts) == ts >= e.last_decrease + DecreaseMs + e.last_rtt

\* A loss of a tenth and more cuts the rate once for each report and pause.
MayCut(e, ts) == ~e.decreased /\ ts >= e.last_decrease + DecreaseMs + e.last_rtt

\* The decision on losses, while a report is recent.
OnLosses(e, ts, acked, flat) ==
    LET cut == Greater((e.curr * (2 * LossUnit - e.last_loss)) \div (2 * LossUnit), acked)
    IN  IF \/ SlopeIsFlat(e, flat) /\ e.last_loss > LowLoss /\ e.state # "overusing"
           \/ e.last_loss < LowLoss
        THEN Capped(e, Grown(e))
        ELSE IF e.last_loss >= HighLoss /\ MayCut(e, ts)
             THEN Capped([e EXCEPT !.last_decrease = ts, !.decreased = TRUE], cut)
             ELSE Capped(e, e.curr)

\* Without feedback the rate falls by a fifth now and then.
OnSilence(e, ts) ==
    IF /\ ts - e.last_feedback > FeedbackLostMs
       /\ e.last_timeout = -1 \/ ts > e.last_timeout + TimeoutMs
    THEN Capped([e EXCEPT !.lost = 0, !.expected = 0, !.last_timeout = ts], (e.curr * 4) \div 5)
    ELSE Capped(e, e.curr)

\* sender_estimation_update.  At the start, without loss, the greatest of the
\* estimates is taken at once.
EstimationUpdate(e, ts, acked, flat) ==
    LET best == Greater(e.delay_base, Greater(e.remb, e.curr))
        h    == UpdateHistory(e, ts)
    IN  IF e.last_loss = 0 /\ IsStartPhase(e, ts) /\ best # e.curr
        THEN Capped([e EXCEPT !.history = <<[ts |-> ts, rate |-> e.curr]>>], best)
        ELSE IF e.last_report = -1 THEN Capped(h, h.curr)
        ELSE IF ts - e.last_report < ReportMs THEN OnLosses(h, ts, acked, flat)
        ELSE OnSilence(h, ts)

\* sender_estimation_update_block: reports are put together until they speak
\* of LimitPackets packets.  The slope is computed from the second report on.
UpdateBlock(e, loss, rtt, packets, ts, acked, flat) ==
    LET heard   == [e EXCEPT !.last_feedback = ts,
                             !.first_report = IF @ = -1 THEN ts ELSE @,
                             !.last_rtt = IF rtt > 0 THEN rtt ELSE @,
                             !.lost = @ + loss * packets, !.expected = @ + packets]
        settled == [heard EXCEPT !.decreased = FALSE, !.last_loss = heard.lost \div heard.expected,
                                 !.lost = 0, !.expected = 0, !.last_report = ts,
                                 !.reports = IF e.last_report = -1 THEN 0
                                             ELSE Lesser(@ + 1, SlopeReports + 1)]
    IN  IF heard.expected < LimitPackets THEN heard
        ELSE EstimationUpdate(settled, ts, acked, flat)
=============================================================================
