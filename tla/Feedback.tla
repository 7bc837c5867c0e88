------------------------------ MODULE Feedback ------------------------------
(***************************************************************************)
(* From the packets that arrive to the report the sender works with, for   *)
(* the transports gcc (cc/receiver_congestion_controller.c and             *)
(* estimator/cc_feedback_adapter.c) and remb (remb/), chosen at the start  *)
(* as in cc/razor_api.c, over a network that loses, doubles and reorders   *)
(* packets and loses and reorders reports.                                 *)
(*                                                                         *)
(* Every handler runs under the mutex of its session.  The receiver's own  *)
(* bitrate estimator gets nothing: the sender sets remb on every segment   *)
(* (sim_transport/sim_sender.c:347), so it never has an estimate.  What    *)
(* the sender's control makes of a report is SenderCc's.                   *)
(***************************************************************************)
EXTENDS SenderHistory, LossStat, EstimatorProxy, RembRate

CONSTANTS
    Transports,     \* {"gcc", "remb"}
    Sizes,          \* bytes of a packet
    Limits,         \* the [min, start, max] bitrates an application sets
    Rtts,           \* round trip times measured
    RembEvery,      \* remb_time_event = 200
    StrayLosses,    \* shares an unset field of a message may hold
    Delays,         \* by how much the clock moves from one timer to the next
    StartTime,      \* the clock when the call starts
    MaxTime,        \* bound of the clock
    MaxPackets,     \* bound of the packets sent, for each transport
    NetCap,         \* bound of the packets on their way, likewise
    BackCap,        \* bound of the reports on their way, likewise
    MaxFaults       \* bound of losses, copies, packets let out for nothing, new
                    \* limits and round trip times, likewise

ASSUME FeedbackAssumption ==
    /\ \A l \in Limits : l.min <= l.max
    /\ StrayLosses \subseteq 0 .. 255 /\ StartTime >= WndSize

LOCAL SO == INSTANCE SequencesExt

VARIABLES
    now,        \* GET_SYS_MS
    transport,  \* the congestion type both ends were created with
    sent,       \* what was sent: a sequence of [size, ts], the number first - 1
    unsent,     \* history: what the pacer let out and sim_send_packet did not send
    hist,       \* gcc sender: the adapter's history
    packets,    \* gcc sender: the packets of the last report, sorted
    remb,       \* remb sender
    proxy,      \* gcc receiver
    loss,       \* receiver of either transport
    rate,       \* remb receiver
    told_ts,    \* remb receiver: feedback_ts
    net,        \* packets on their way: numbers
    back,       \* reports on their way
    heard,      \* history: what arrived, [id, ts, copy]
    told,       \* history: the numbers put into reports
    fed,        \* history: how often a number was given to the estimator
    forgotten,  \* history: the last number the loss statistics dropped
    late,       \* history: a packet arrived that belongs before it
    faults

released == <<sent, unsent>>
sender   == <<hist, packets, remb, fed>>
receiver == <<proxy, loss, rate, told_ts, heard, told, forgotten, late>>
vars     == <<now, transport, released, sender, receiver, net, back, faults>>

Numbers   == 0 .. MaxPackets[transport] - 1
Next16    == Len(sent)                       \* transport_seq_seed
NoLoss    == [known |-> FALSE, num |-> 0, fraction_loss |-> 0]
Last(keys) == CHOOSE k \in keys : \A j \in keys : j <= k

-----------------------------------------------------------------------------
\* razor_sender_create and the first bitrates
SenderCreated ==
    /\ hist = NewHistory /\ packets = << >>
    /\ remb = RembBitrates(NewRemb, CHOOSE l \in Limits : \A k \in Limits : l.max >= k.max)
    /\ fed = [i \in Numbers |-> 0]

\* razor_receiver_create
ReceiverCreated ==
    /\ proxy = NewProxy /\ loss = NewLossStat /\ rate = NewRate /\ told_ts = StartTime
    /\ heard = {} /\ told = {} /\ forgotten = -1 /\ late = FALSE

Init ==
    /\ now = StartTime /\ transport \in Transports
    /\ SenderCreated /\ ReceiverCreated
    /\ sent = << >> /\ unsent = << >> /\ net = {} /\ back = {} /\ faults = 0

\* Bound: what the 16 bits must tell apart lies within half of their range.
WithinHalf ==
    LET meant  == UNION {{m.samples[i].id : i \in DOMAIN m.samples} : m \in back}
        latest == IF transport = "gcc"
                  THEN {hist.last_value, proxy.last_value, loss.last_value, proxy.wnd_start_seq}
                  ELSE {loss.last_value}
    IN  \A k \in net \union meant \union latest : Next16 - k < Half

\* cc_feedback_add_packet
GccSent(size) == hist' = HistoryAdd(hist, Next16 % SeqSpace, size, now) /\ UNCHANGED remb

\* remb_sender_update_rate: what the pacer lets out (bbr_pacer_send)
RembSent(size) == remb' = [remb EXCEPT !.rate = RateUpdate(@, size, now)] /\ UNCHANGED hist

\* A packet leaves (sim_send_packet), and the transport takes note of it.
Send(size) ==
    /\ Next16 < MaxPackets[transport] /\ Cardinality(net) < NetCap[transport] /\ WithinHalf
    /\ sent' = Append(sent, [size |-> size, ts |-> now])
    /\ net' = net \union {Next16}
    /\ IF transport = "gcc" THEN GccSent(size) ELSE RembSent(size)
    /\ UNCHANGED <<now, transport, unsent, packets, fed, receiver, back, faults>>

\* The pacer lets out what is in no cache of the sender any more: nothing is
\* sent, and the remb transport counts it all the same.
SendNothing(size) ==
    /\ transport = "remb" /\ faults < MaxFaults[transport]
    /\ faults' = faults + 1
    /\ unsent' = Append(unsent, [size |-> size, ts |-> now])
    /\ RembSent(size)
    /\ UNCHANGED <<now, transport, sent, packets, fed, receiver, net, back>>

Lose(id) ==
    /\ id \in net /\ faults < MaxFaults[transport]
    /\ faults' = faults + 1
    /\ net' = net \ {id}
    /\ UNCHANGED <<now, transport, released, sender, receiver, back>>

Copies(id) == Cardinality({h \in heard : h.id = id})

\* receiver_cc_on_received, remb_receive_on_received
GccArrive(id)  == proxy' = ProxyIncoming(proxy, id % SeqSpace, now) /\ UNCHANGED rate
RembArrive(id) == rate' = RateUpdate(rate, sent[id + 1].size, now) /\ UNCHANGED proxy

\* The numbers dropped by statistics which had those in keys.
DroppedOf(keys, list) == Last((keys \ DOMAIN list) \union {forgotten})

\* A packet arrives; the network may still hold another copy of it.
Arrive(id, again) ==
    /\ id \in net
    /\ faults + again <= MaxFaults[transport]
    /\ faults' = faults + again
    /\ net' = IF again = 1 THEN net ELSE net \ {id}
    /\ loss' = LossIncoming(loss, id % SeqSpace, now)
    /\ IF transport = "gcc" THEN GccArrive(id) ELSE RembArrive(id)
    /\ heard' = heard \union {[id |-> id, ts |-> now, copy |-> Copies(id)]}
    /\ late' = (late \/ id <= forgotten)
    /\ forgotten' = DroppedOf(DOMAIN loss.list \union {id}, loss'.list)
    /\ UNCHANGED <<now, transport, released, sender, told_ts, told, back>>

\* receiver_cc_heartbeat at the time ts.  A sample carries, unseen by the code,
\* the number it is about.
GccTells(report, counts, ids) ==
    LET msg == [remb |-> 0, loss |-> [counts EXCEPT !.s = NewLossStat],
                samples |-> [i \in DOMAIN report.samples |->
                    [seq |-> report.samples[i].seq, ts |-> report.samples[i].ts, id |-> ids[i]]]]
    IN  /\ proxy' = report.p /\ loss' = counts.s
        /\ forgotten' = DroppedOf(DOMAIN loss.list, counts.s.list)
        /\ told' = told \union {msg.samples[i].id : i \in DOMAIN msg.samples}
        /\ back' = IF report.samples # << >> \/ counts.known THEN back \union {msg} ELSE back
        /\ UNCHANGED <<rate, told_ts>>

GccHeartbeat(ts) ==
    GccTells(ProxyHeartbeat(proxy, ts), LossCalculate(loss, ts),
             SO!SetToSortSeq(Unreported(proxy), <))

\* remb_receive_heartbeat: nothing is told until a rate is known.  The flags of
\* the message are not cleared: the part on losses may be sent unset.
Shares(counts) ==
    IF counts.known THEN {[counts EXCEPT !.s = NewLossStat]}
    ELSE {NoLoss} \union {[NoLoss EXCEPT !.known = TRUE, !.fraction_loss = f] : f \in StrayLosses}

RembTells(bitrate, counts, ts) ==
    IF bitrate <= 0 THEN UNCHANGED <<loss, forgotten, told_ts, back>>
    ELSE /\ loss' = counts.s /\ forgotten' = DroppedOf(DOMAIN loss.list, counts.s.list)
         /\ told_ts' = ts
         /\ \E share \in Shares(counts) :
              back' = back \union {[remb |-> bitrate, loss |-> share, samples |-> << >>]}

RembHeartbeat(ts) ==
    /\ IF told_ts + RembEvery > ts THEN UNCHANGED <<rate, loss, forgotten, told_ts, back>>
       ELSE /\ rate' = RateErase(rate, ts)
            /\ RembTells(RateValue(rate', ts), LossCalculate(loss, ts), ts)
    /\ UNCHANGED <<proxy, told>>

\* The clock moves and the session's timer runs at the receiver.
Heartbeat(d) ==
    /\ now + d <= MaxTime
    /\ now' = now + d
    /\ IF transport = "gcc" THEN GccHeartbeat(now') ELSE RembHeartbeat(now')
    /\ Cardinality(back') <= BackCap[transport]
    /\ UNCHANGED <<transport, released, sender, heard, late, net, faults>>

LoseReport(m) ==
    /\ m \in back /\ faults < MaxFaults[transport]
    /\ faults' = faults + 1
    /\ back' = back \ {m}
    /\ UNCHANGED <<now, transport, released, sender, receiver, net>>

\* cc_feedback_on_feedback: the packets of a report that are still known, by
\* arrival and sending.
Known(m) ==
    LET ask(e, s) ==
            LET got == HistoryGet(e.h, s.seq, TRUE)
                row == [number |-> got.key, id |-> s.id, arrival |-> s.ts,
                        ts |-> e.h.l[got.key].ts, size |-> e.h.l[got.key].size]
            IN  [h |-> got.h, rows |-> IF got.found THEN e.rows \union {row} ELSE e.rows]
    IN  SO!FoldLeft(ask, [h |-> hist, rows |-> {}], m.samples)

Sooner(a, b) ==
    \/ a.arrival < b.arrival
    \/ a.arrival = b.arrival /\ a.ts < b.ts
    \/ a.arrival = b.arrival /\ a.ts = b.ts /\ a.number < b.number

GccFeedback(m) ==
    LET known == Known(m)
    IN  /\ hist' = known.h
        /\ packets' = SO!SetToSortSeq(known.rows, Sooner)
        /\ fed' = [i \in Numbers |-> fed[i] + Cardinality({r \in known.rows : r.number = i})]
        /\ UNCHANGED remb

\* remb_sender_on_feedback
RembReport(m) == remb' = RembFeedback(remb, m, now) /\ UNCHANGED <<hist, packets, fed>>

ReportArrives(m) ==
    /\ m \in back
    /\ back' = back \ {m}
    /\ IF transport = "gcc" THEN GccFeedback(m) ELSE RembReport(m)
    /\ UNCHANGED <<now, transport, released, receiver, net, faults>>

\* remb_sender_heartbeat, besides the pacer's part.
RembSenderHeartbeat ==
    /\ transport = "remb"
    /\ remb' = [remb EXCEPT !.rate = RateErase(@, now)]
    /\ UNCHANGED <<now, transport, released, hist, packets, fed, receiver, net, back, faults>>

UpdateRtt(r) ==
    /\ transport = "remb" /\ faults < MaxFaults[transport]
    /\ faults' = faults + 1
    /\ remb' = RembRtt(remb, r)
    /\ UNCHANGED <<now, transport, released, hist, packets, fed, receiver, net, back>>

SetBitrates(l) ==
    /\ transport = "remb" /\ faults < MaxFaults[transport]
    /\ faults' = faults + 1
    /\ remb' = RembBitrates(remb, l)
    /\ UNCHANGED <<now, transport, released, hist, packets, fed, receiver, net, back>>

Next ==
    \/ \E size \in Sizes : Send(size) \/ SendNothing(size)
    \/ \E id \in net : Lose(id)
    \/ \E id \in net, again \in {0, 1} : Arrive(id, again)
    \/ \E d \in Delays : Heartbeat(d)
    \/ RembSenderHeartbeat
    \/ \E m \in back : LoseReport(m) \/ ReportArrives(m)
    \/ \E r \in Rtts : UpdateRtt(r)
    \/ \E l \in Limits : SetBitrates(l)

Spec == Init /\ [][Next]_vars

-----------------------------------------------------------------------------
(* Properties *)

Arrivals(id) == {h \in heard : h.id = id}

\* The estimator of the sender learns of a packet once, with its own send time
\* and size and a time at which it did arrive, however reports and packets were
\* lost, doubled, reordered and repeated after a late packet.  A time is known
\* up to the 16 bits it is sent in, which a silence of a minute between two
\* packets of one report exceeds (cc_feedback_adapter.c:74-82,
\* sender_history.c:63-94, estimator_common.c:31, 62).
SamplesGenuine ==
    /\ \A i \in DOMAIN packets :
          LET r == packets[i]
          IN  /\ r.number = r.id
              /\ r.ts = sent[r.id + 1].ts /\ r.size = sent[r.id + 1].size
              /\ \E h \in Arrivals(r.id) : r.arrival <= h.ts /\ (h.ts - r.arrival) % TsSpace = 0
    /\ \A i \in Numbers : fed[i] <= 1

\* Whatever arrives gets into a report unless it has waited for BackMs: the start
\* of the next report never moves past a packet not told, not for packets that
\* come late nor where one report cannot hold all (remote_estimator_proxy.c:
\* 65-82, 106-127).
NoneSkipped ==
    transport = "gcc" =>
        \A h \in heard :
            \/ h.id \in told
            \/ h.id \in DOMAIN proxy.arrival_times /\ h.id >= proxy.wnd_start_seq
            \/ /\ h.id \notin DOMAIN proxy.arrival_times
               /\ \E g \in Arrivals(h.id) : now >= g.ts + BackMs

\* The share reported as lost is that of the packets which never came, among
\* those from the first one remembered to the last, in spite of copies and of
\* the eviction by age and number.  Not so once a packet comes that belongs
\* before the ones dropped: then those count as lost (cc_loss_stat.c:32-81).
LossesReal ==
    LET c      == LossCalculate(loss, now)
        span   == SkipFirst(c.s.list) .. Last({h.id : h \in heard})
        missed == {i \in span : Arrivals(i) = {}}
    IN  c.known /\ ~late =>
            /\ c.num = Cardinality(span)
            /\ c.fraction_loss = (255 * Cardinality(missed)) \div c.num

\* Of a ring of buckets each holds the bytes of its own millisecond, wherever
\* silences and late calls moved its start, and their sum is the one the rate
\* is computed from (rate_stat.c:51-104).
RingExact(r, BytesAt(_)) ==
    LET at(i) == r.buckets[(r.oldest_index + i) % WndSize].sum
    IN  /\ r.oldest_ts # -1 => \A i \in 0 .. WndSize - 1 : at(i) = BytesAt(r.oldest_ts + i)
        /\ r.accumulated_count = SumOf(r, 0 .. WndSize - 1)
        /\ r.sample_num = SampleOf(r, 0 .. WndSize - 1)

HeardAt(t) == SO!FoldSet(LAMBDA h, n : IF h.ts = t THEN n + sent[h.id + 1].size ELSE n, 0, heard)
SentAt(t) == SO!FoldLeft(LAMBDA n, p : IF p.ts = t THEN n + p.size ELSE n, 0, sent \o unsent)

\* Both rates of the remb transport are exact, the sender's for what its pacer
\* lets out (bbr_pacer.c:124-128), and its target stays within the
\* limits and is what the pacer works with, through reports in any order, unset
\* fields, round trip times and new limits (remb_sender.c:86-179).
RembInv ==
    transport = "remb" =>
        /\ RingExact(rate, HeardAt) /\ RingExact(remb.rate, SentAt)
        /\ remb.target \in remb.min .. remb.max
        /\ remb.paced = remb.target
=============================================================================
