-------------------------------- MODULE Bbr --------------------------------
(***************************************************************************)
(* Congestion control with BBR, both ends: the sender (bbr/bbr_sender.c    *)
(* over bbr_feedback_adpater.c, sender_history.c and the controller of     *)
(* BbrController) and the receiver (bbr/bbr_receiver.c), with a network    *)
(* between them that delays, loses, duplicates and reorders both the       *)
(* packets and the feedback messages.                                      *)
(*                                                                         *)
(* The sender's entry points and its heartbeat run under the session       *)
(* mutex.  bbr_pacer.c may let a packet go at any heartbeat: here a packet *)
(* is sent at any time.  The share of packets lost that a message carries  *)
(* only reaches the application; it is left out.                           *)
(***************************************************************************)
EXTENDS BbrController, SenderHistory

CONSTANTS
    PacketSize,     \* bytes of every packet
    Limits,         \* the [min, start, max] bitrates an application sets
    RateUnit,       \* 8000: bit/s in one byte/ms
    BitrateStep,    \* 4 * 8000, the least step up of the target
    HeartbeatMs,    \* k_bbr_heartbeat_timer = 30
    FeedbackMs,     \* BBR_FEEDBACK_WINDOW = 10
    FeedbackFull,   \* BBR_FEEDBACK_THROLD = 16
    FeedbackMin,    \* the literal 2: no feedback on so few packets
    MaxSamples,     \* MAX_BBR_FEELBACK_COUNT = 128
    DeltaSpace,     \* 65536: delta_ts of a sample is a uint16_t
    Delays,         \* by how much the clock moves, ms
    MaxTime,        \* bound of the clock
    MaxPackets,     \* bound of the packets sent
    MaxInFlight,    \* bound of the packets and messages under way
    MaxFaults       \* bound of losses, duplicates and changes of the limits

ASSUME BbrAssumption ==
    /\ {PacketSize, RateUnit, HeartbeatMs, FeedbackMs, FeedbackFull, DeltaSpace} \subseteq Nat \ {0}
    /\ MaxSamples \in Nat \ {0, 1}
    /\ {FeedbackMin, BitrateStep, MaxTime, MaxPackets, MaxInFlight, MaxFaults} \subseteq Nat
    /\ Delays \subseteq Nat
    /\ Limits \subseteq [min : Nat, start : Nat, max : Nat]
    /\ \A l \in Limits : l.min <= l.start /\ l.start <= l.max /\ l.min >= RateUnit
    /\ \E l \in Limits : \A k \in Limits : l.max >= k.max
    /\ MaxPackets < Half

SQ == INSTANCE SequencesExt

VARIABLES
    now,        \* GET_SYS_MS, both ends
    hist,       \* the sender's history
    bbr,        \* the controller
    limits,     \* min_bitrate and max_bitrate of the sender
    constraint, \* the controller's own limits, set when it was created
    target,     \* target_bitrate
    told,       \* last_bitrate_bps, what the application knows (0: nothing)
    notify_ts,
    sent,       \* transport_seq_seed: packets sent so far, the number of the next
    data,       \* packets in the network
    cache,      \* receiver: packets not yet reported -> arrival time
    feedback_ts,
    acks,       \* feedback messages in the network, in the order sent
    arrived,    \* history: packets that reached the receiver
    faults

senderVars   == <<hist, bbr, limits, constraint, target, told, notify_ts>>
receiverVars == <<cache, feedback_ts, arrived>>
vars == <<now, senderVars, sent, data, receiverVars, acks, faults>>

TypeOK ==
    /\ bbr.mode \in {"STARTUP", "DRAIN", "PROBE_BW", "PROBE_RTT"}
    /\ bbr.recovery_state \in {"NOT_IN_RECOVERY", "CONSERVATION", "GROWTH"}
    /\ bbr.srtt \in Nat \ {0}
    /\ {bbr.min_rtt, bbr.pacing_rate, bbr.round_trip_count, Bandwidth(bbr)} \subseteq Nat
    /\ bbr.cycle_current_offset \in 0 .. CycleLength - 1
    /\ DOMAIN bbr.smp.points \subseteq 0 .. sent - 1
    /\ hist.outstanding_bytes \in Nat
    /\ DOMAIN hist.l \subseteq 0 .. sent - 1
    /\ {target, told} \subseteq Nat
    /\ DOMAIN cache \subseteq arrived

\* bbr_sender_create and the first bbr_sender_set_bitrates, bbr_receive_create.
Init ==
    /\ now = 1
    /\ hist = NewHistory
    /\ bbr = NewController
    /\ limits = CHOOSE l \in Limits : \A k \in Limits : l.max >= k.max
    /\ constraint = limits
    /\ target = limits.start
    /\ told = 0
    /\ notify_ts = -1
    /\ sent = 0
    /\ data = {}
    /\ cache = << >>
    /\ feedback_ts = -1
    /\ acks = << >>
    /\ arrived = {}
    /\ faults = 0

-----------------------------------------------------------------------------
(* The sender *)

Within(low, x, high) == Greater(low, Lesser(high, x))

\* bbr_create_rate_upate with the window as it was before recovery or the
\* round trip probe shrank it.
RateUpdateUnshrunk(c) ==
    [window |-> c.congestion_window, rtt |-> c.srtt,
     target_rate |-> Within(constraint.min \div RateUnit, CongestionWindow(c) \div c.srtt,
                            constraint.max \div RateUnit)]

\* bbr_create_rate_upate: the window to keep and the round trip it is for.
RateUpdate(c) ==
    [window |-> CongestionWindow(c), rtt |-> c.srtt,
     target_rate |-> Within(constraint.min \div RateUnit, CongestionWindow(c) \div c.srtt,
                            constraint.max \div RateUnit)]

\* The target falls by a tenth when the window overflows and grows while a
\* tenth of it is free.
Target(info, outstanding) ==
    Within(limits.min,
           IF outstanding > info.window THEN (target * 9) \div 10
           ELSE IF 10 * outstanding < 9 * info.window THEN target + Greater(target \div 16, BitrateStep)
           ELSE target,
           limits.max)

\* bbr_on_network_invalidation: at most every HeartbeatMs.
Invalidate(c, h, ts) ==
    IF notify_ts + HeartbeatMs < ts
    THEN /\ target' = Target(RateUpdate(c), h.outstanding_bytes)
         /\ told' = target'
         /\ notify_ts' = ts
    ELSE UNCHANGED <<target, told, notify_ts>>

\* bbr_sender_heartbeat, after the clock moved by d.
Heartbeat(d) ==
    /\ now + d <= MaxTime
    /\ now' = now + d
    /\ Invalidate(bbr, hist, now')
    /\ UNCHANGED <<hist, bbr, limits, constraint, sent, data, receiverVars, acks, faults>>

\* bbr_sender_set_bitrates once the controller exists: only the sender's own
\* limits change.
SetBitrates(l) ==
    /\ l # limits
    /\ faults < MaxFaults
    /\ faults' = faults + 1
    /\ limits' = l
    /\ target' = l.start
    /\ UNCHANGED <<now, hist, bbr, constraint, told, notify_ts, sent, data, receiverVars, acks>>

\* bbr_sender_send_packet: the controller learns what was in flight before.
SendPacket ==
    /\ sent < MaxPackets
    /\ Cardinality(data) + Cardinality(DOMAIN cache) + Len(acks) < MaxInFlight
    /\ sent' = sent + 1
    /\ hist' = HistoryAdd(hist, sent % SeqSpace, PacketSize, now)
    /\ bbr' = OnSendPacket(bbr, now, sent, PacketSize, hist.outstanding_bytes)
    /\ data' = data \union {sent}
    /\ UNCHANGED <<now, limits, constraint, target, told, notify_ts, receiverVars, acks, faults>>

Info(key, record, recv_time) ==
    [seq |-> key, recv_time |-> recv_time, send_time |-> record.ts, size |-> record.size]

\* sender_history_get on a number, adding what is found to the feedback; one
\* entry short of MaxSamples the list starts anew.
Looked(acc, raw, seq, recv_time) ==
    LET got  == HistoryGet(acc.h, raw, FALSE)
        more == Append(acc.packets, Info(seq, got.h.l[got.key], recv_time))
    IN  [h |-> got.h,
         packets |-> IF ~got.found THEN acc.packets
                     ELSE IF Len(more) >= MaxSamples - 1 THEN << >> ELSE more]

\* A number of a message's range: reported with a delay, or lost.  A lost
\* packet is passed on with the 16 bits of its number.
Asked(acc, msg, raw, ts) ==
    LET reports == {i \in DOMAIN msg : msg[i].seq = raw}
    IN  IF reports = {} THEN Looked(acc, raw, raw, -1)
        ELSE Looked(acc, raw, Unwrap(acc.h.last_value, raw),
                    ts - msg[CHOOSE i \in reports : TRUE].delta)

\* bbr_feedback_on_feedback: every number from the first sample of a message
\* to the last.
Adapted(msg, ts) ==
    LET first == msg[1].seq
        span  == (msg[Len(msg)].seq - first) % SeqSpace
        upto[n \in 0 .. span + 1] ==
          IF n = 0 THEN [h |-> hist, packets |-> << >>]
          ELSE Asked(upto[n - 1], msg, (first + n - 1) % SeqSpace, ts)
    IN  upto[span + 1]

FeedbackOf(msg) ==
    LET read == Adapted(msg, now)
    IN  [time |-> now, packets |-> read.packets,
         prior_in_flight |-> hist.outstanding_bytes, in_flight |-> read.h.outstanding_bytes,
         h |-> read.h]

Taken(fb, offset) ==
    /\ hist' = fb.h
    /\ IF fb.packets = << >>
       THEN UNCHANGED <<bbr, target, told, notify_ts>>
       ELSE /\ bbr' = OnFeedback(bbr, fb, offset)
            /\ Invalidate(bbr', fb.h, now)

\* bbr_sender_on_feedback; a message may come again later.
ReceiveFeedback(i, again, offset) ==
    /\ faults + again <= MaxFaults
    /\ faults' = faults + again
    /\ acks' = IF again = 1 THEN acks ELSE SQ!RemoveAt(acks, i)
    /\ Taken(FeedbackOf(acks[i]), offset)
    /\ UNCHANGED <<now, limits, constraint, sent, data, receiverVars>>

-----------------------------------------------------------------------------
(* The receiver *)

Sample(c, k, ts) == [seq |-> k % SeqSpace, delta |-> (ts - c[k]) % DeltaSpace]

\* The next packet goes into the message begun at start, unless that would
\* span MaxSamples numbers: then it begins another.
Batched(acc, c, k, ts) ==
    IF acc.start + MaxSamples - 1 > k
    THEN [start |-> acc.start,
          out |-> [acc.out EXCEPT ![Len(acc.out)] = Append(@, Sample(c, k, ts))]]
    ELSE [start |-> k, out |-> Append(acc.out, <<Sample(c, k, ts)>>)]

\* The messages that report the packets of a cache, by their numbers.
Batches(c, ts) ==
    LET keys  == DOMAIN c
        first == CHOOSE k \in keys : \A j \in keys : k <= j
        last  == CHOOSE k \in keys : \A j \in keys : j <= k
        upto[n \in 0 .. last + 1] ==      \* the numbers below n
          IF n = 0 THEN [start |-> first, out |-> << << >> >>]
          ELSE IF n - 1 \in keys THEN Batched(upto[n - 1], c, n - 1, ts) ELSE upto[n - 1]
    IN  upto[last + 1].out

\* bbr_receive_on_received.  A packet reported before is no longer in the
\* cache: its duplicate is reported again.
Receive(s, c) ==
    IF \/ Cardinality(DOMAIN c) >= FeedbackFull
       \/ Cardinality(DOMAIN c) > FeedbackMin /\ now > feedback_ts + FeedbackMs
    THEN /\ feedback_ts' = now
         /\ acks' = acks \o Batches(c, now)
         /\ cache' = << >>
    ELSE /\ cache' = c
         /\ UNCHANGED <<feedback_ts, acks>>

Deliver(s, again) ==
    /\ s \in data
    /\ faults + again <= MaxFaults
    /\ faults' = faults + again
    /\ data' = IF again = 1 THEN data ELSE data \ {s}
    /\ arrived' = arrived \union {s}
    /\ IF s \in DOMAIN cache
       THEN UNCHANGED <<cache, feedback_ts, acks>>
       ELSE Receive(s, [k \in DOMAIN cache \union {s} |-> IF k = s THEN now ELSE cache[k]])
    /\ UNCHANGED <<now, senderVars, sent>>

Lose(s) ==
    /\ s \in data
    /\ faults < MaxFaults
    /\ faults' = faults + 1
    /\ data' = data \ {s}
    /\ UNCHANGED <<now, senderVars, sent, receiverVars, acks>>

LoseFeedback(i) ==
    /\ faults < MaxFaults
    /\ faults' = faults + 1
    /\ acks' = SQ!RemoveAt(acks, i)
    /\ UNCHANGED <<now, senderVars, sent, data, receiverVars>>

Next ==
    \/ \E d \in Delays : Heartbeat(d)
    \/ \E l \in Limits : SetBitrates(l)
    \/ SendPacket
    \/ \E s \in data, again \in {0, 1} : Deliver(s, again)
    \/ \E s \in data : Lose(s)
    \/ \E i \in DOMAIN acks, again \in {0, 1}, offset \in CycleStarts : ReceiveFeedback(i, again, offset)
    \/ \E i \in DOMAIN acks : LoseFeedback(i)

Spec == Init /\ [][Next]_vars

-----------------------------------------------------------------------------
(* Properties *)

\* The bytes in flight, from which the window's filling and every BBR mode is
\* judged, never fall short of the packets behind the last report, whatever was
\* lost, repeated or forgotten by age, and exceed them by the two packets at
\* most that the start of the numbers leaves behind (sender_history.c:47-94).
InFlightBounded == hist.outstanding_bytes - OnTheWay(hist) \in 0 .. 2 * PacketSize

\* A packet is counted as acknowledged once, and only if it arrived, however
\* often its arrival is reported: otherwise the bandwidth would be overrated
\* (bbr_bandwidth_sample.c:184-197, 225-243).
AckedOnce ==
    LET s == bbr.smp
        pending == BytesOf(s.points, DOMAIN s.points)
    IN  /\ s.total_data_acked <= PacketSize * Cardinality(arrived)
        /\ s.total_data_acked + pending <= s.total_data_sent

\* In every mode and all through a recovery the window lets at least the
\* minimal one out, so that a connection is never choked for good, and no more
\* than the largest (bbr_controller.c:350-362, 756-811).
SendableWindow ==
    /\ CongestionWindow(bbr) >= MinWindow
    /\ bbr.congestion_window \in MinWindow .. MaxWindow

\* The modes and the verdict on the bandwidth agree however they were reached,
\* through PROBE_RTT too: start-up only while the path is not full, draining
\* and cycling only once it is, each with its own gain (bbr_controller.c:586-665).
ModesFollowBandwidth ==
    /\ bbr.mode = "STARTUP" => ~bbr.is_at_full_bandwidth /\ bbr.pacing_gain = HighGain
    /\ bbr.mode = "DRAIN" => bbr.is_at_full_bandwidth /\ bbr.pacing_gain = DrainGain
    /\ bbr.mode = "PROBE_BW" => /\ bbr.is_at_full_bandwidth
                                /\ bbr.pacing_gain = PacingGain(bbr.cycle_current_offset)

\* The controller's state fits together, whatever was reported.
ControllerInv == TypeOK /\ SendableWindow /\ ModesFollowBandwidth

\* The bandwidth in use, and the two estimates that stand ready to replace it,
\* were all measured; nothing measured in a later round is above them; and when
\* the latest measurement came, the best was still inside the window of round
\* trips: the filter promotes its second and third best in time, though it keeps
\* no more of the past (windowed_filter.c:54-99, bbr_controller.c:521-527).
\* (Rounds that measure nothing, or only application-limited samples below the
\* best, do not reach the filter: the best then stays in use however old it is.)
BandwidthIsRecent ==
    \A e \in bbr.measured :
        /\ ~Outdated(bbr.max_bandwidth[1], e.ts)
        /\ \A k \in 1 .. 3 :
              /\ bbr.max_bandwidth[k] \in bbr.measured
              /\ e.ts > bbr.max_bandwidth[k].ts => e.sample <= bbr.max_bandwidth[k].sample

\* The bitrate the application is told follows what is really under way,
\* though it is judged by a running count of bytes and a window that losses,
\* recovery and the round trip probe shrink between two messages: it rises only
\* while a tenth of the window is free, falls while the window overflows, and
\* keeps the limits set last (bbr_sender.c:60-119, 190-209).
RateFollowsWindow ==
    [][notify_ts' # notify_ts =>
         LET flying == OnTheWay(hist')
             window == CongestionWindow(bbr')
         IN  /\ target' \in limits.min .. limits.max
             /\ target' > target => 10 * flying < 9 * window
             /\ flying > window => target' < target \/ target' = limits.min]_vars
=============================================================================
