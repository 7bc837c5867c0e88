# Verification of LMP

LMP is a one-way live video transport over UDP: a sender reads frames, cuts them
into segments, protects them with FEC, paces them out at an estimated rate and
repeats what the receiver misses; a receiver reorders, repairs and plays them.
This directory holds TLA+ models of that code, the TLC configurations that check
them on small instances, and TLAPS proofs of some of their properties for every
value of the constants.

## 1. The system

Every endpoint runs one session thread (`sim_session_loop_event`), which polls the
socket for 5 ms, handles what came and runs the heartbeat; the application's own
threads call into the session, and everything that touches its state takes the
session mutex. Notifications to the application are called from the session thread
with the mutex held.

    application (core/): EchoManager, read thread, play thread
        | sim_connect / sim_disconnect / sim_send_video / sim_recv_video   ^ notify_cb
        v                                                                  |
    session (sim_session.c) ---- CONNECT, PING, DISCONNECT ... ---- the peer's session
        |                                |
    sender (sim_sender.c)            receiver (sim_receiver.c)
        | FEC window (flex_fec_sender)   | FEC recovery (sim_fec.c, flex_fec_receiver.c)
        | congestion control (cc/, estimator/, bbr/, remb/) on both sides
        | pacer (pacing/)
        v
    su_udp_send

| Component | State it keeps | Operations | What makes it correct |
|---|---|---|---|
| pacer (`pacing/`) | map and list of packets, byte count, oldest time, byte budget, rate | insert, set estimate, try transmit | both structures hold the same packets; counts exact; least id first; never ahead of the rate |
| session (`sim_session.c`) | state, call ids, resend counter and clock, interrupt flag, sender, receiver | connect, disconnect, one handler per message, two timers | what belongs to a call ends with it and with no other; the application is told; calls and hang-ups end; a dead peer is noticed |
| sender (`sim_sender.c`) | segments, FEC packets, acknowledgement cache, base, numberings | put a frame, send callback, ack, feedback, key frame request, eviction | no pointer outlives its segment; what is missing stays repairable; times and bases mean what the protocol says |
| FEC window (`flex_fec_sender.c`) | pointers to segments, age, base id | add, over, update | consecutive packets, all alive, when FEC is computed |
| receiver (`sim_receiver.c`) | loss map, base and highest packet, ring of frames, play clock | put, get, acknowledge, timer, key frame request | every gap is tracked until repaired or given up; frames come out in order and whole |
| FEC receiver (`sim_fec.c`, `flex_fec_receiver.c`) | segments kept, windows by fec id, recovered segments | put FEC, put segment, evict | a recovered segment is the lost one; no pointer outlives its segment |
| application (`core/EchoManager.cpp`, `BaseThread.cpp`, read and play threads) | its own call state, running flags, reader, player | connect, disconnect, notifications | agrees with the session in the end; threads stop before what they use goes |
| delay and loss estimation (`estimator/`), REMB (`remb/`), controller (`cc/`) | packet groups, detector state, rate state, histories, windows | feedback, heartbeat | histories count each packet once; windows forget what is old; the estimate stays in its bounds |
| BBR (`bbr/`) | mode, round, gains, windows, packet samples | ack, loss, heartbeat | mode changes follow the rounds; bytes in flight exact |
| common (`common/`) | skip list, unwrapper, streams | insert, remove, search, wrap | an ordered map; an unbounded counter |

Hard behaviours: four threads and callbacks under a mutex; messages of an earlier
call arriving in a later one; two timers that share a counter; pointers from one
cache into another with eviction by age; two numberings of the same packets; lazy
removal in the pacer; reordering, loss and recovery at the receiver; 16-bit
numbers that wrap. `PROJECT.json` lists each hazard at its line.

## 2. What is modelled

Modules that only hold operators on a part's state (`Unwrapper`, `SenderHistory`,
`WindowedFilter`, ...) are composed by the module that has the variables and the
actions; an `MC` module and its `.cfg` make an instance of it.

    PacerSpec  <- Pacer                          (refinement)
    PlaybackSpec <- SimReceiver                  (refinement)
    SimSession    SimSender    FlexFec    AppThreads
    WindowedFilter - BbrController -+
    Unwrapper - SenderHistory ------+- Bbr
                      |
                      +- Feedback -- LossStat, EstimatorProxy, RembRate - RateStat
                                     (on Skiplist, Unwrapper)
    AimdRate - SenderEstimation - SenderCc
    Crc32, BinStream - SimProto

### Pacer: `PacerSpec`, `Pacer`

`PacerSpec` is the promise: a set of ids that wait, of which the least leaves next.
`Pacer` is the code. `cache` is the skip list (id to arrival time and sent mark),
`list` the list in order of arrival, `total_size` and `oldest_ts` the cached
figures. `Push`, `Front`, `Final` and `Sent` are the functions of `pacer_queue.c`;
`Insert`, `SetEstimate`, and `TransmitBegin`, `TransmitPacket`, `TransmitEnd` (the
part before the loop of `pace_try_transmit`, one round of it, and its end) those of
`pace_sender.c`; `Refill` and `UseBudget` those of `interval_budget.c`. While
`phase` is "sending" no other action is enabled, because the session mutex is held.
The padding budget, the application-limited detector and `first_sent_ts` do not
act on the queue and are left out. `lead` is a history: the most that any stretch of time up
to now has sent beyond what the rate granted in it, which is what `RateBound` bounds. A
count from the start would not do, since it would credit the pacer with rates it had no
use for and must not save up.

### Session: `SimSession`

Two endpoints and the network between them. `ep[p]` is `sim_session_t` reduced to its
control fields (`scid`, `rcid`, `resend`, `interrupt`, `fir_seq`, whether a sender or a
receiver exists, and the receiver's `fir_seq` as `rfir`); `age` is the time since
`commad_ts`, in ping periods. `net[p]` is the set of messages on their way to `p`; taking
one may leave a copy (in the networks of `Repeating`), so that messages are reordered and
repeated. `network` says whether messages may be lost, and is "down" once the network failed
for good. A network that loses holds up to `NetCap` signals and `KeepaliveCap` other
messages, and loses what comes beyond; one that loses nothing has no such bound. `TimedOut`
is when either timer has run out of tries. `app` is what the application was told. There is
one action per handler, user call and branch of the timers. Call ids are fresh numbers: two
calls to `rand()` giving the same id are not considered. The receiver's and the sender's own
state are in other modules; here media messages are only a sign of life, which PING and PONG
already are.

### Sender: `SimSender`

`segs`, `ack_cache` and `fecs` are the three skip lists, pointers written as send ids;
`window`, `fec_ts`, `base_id` the FEC window; `waiting` the pacer, as `PacerSpec` promises
it. `PutFrame` and `PutSegment` are `sim_sender_put` and one round of its loop (while `left`
is positive nothing else runs), with `flex_fec_sender_add_segment`, `sim_sender_fec` and the
decision of `flex_fec_sender_update` inside; `Transmit` is `sim_send_packet`; `Ack`,
`Feedback`, `CleanAckCache` and `Evict` are the functions of those names. How many FEC
packets a window gives depends on the loss rate and is a choice within `FecCounts`. The
receiver is reduced to `video_real_update_base`: `done` are the packets it has or gave up on
(`Settle`), and `Bases` the bases it may have computed from them, late reports included.
`fec_id` and 16-bit wraps are left out.

### Receiver: `PlaybackSpec`, `SimReceiver`

`PlaybackSpec` is the promise to the player: whole frames, never backwards, each of
which follows the one before or is a key frame. `SimReceiver` is the code. The
stream is a constant (`Frames`), and the network brings any packet of it, in any
order, any number of times; that covers the sender, whose repetitions are in
`SimSender`. `base`, `max_seq`, `loss` are the sequence state, `frames` the ring with
the packets each slot holds, `touched` the slots that still carry the id of a frame
(`real_video_clean_frame` does not erase it), `min_fid`, `min_seq`, `play_frame_ts`
the position of play-out and `frame_ts` the play clock. `Put` is
`sim_receiver_internal_put` inside `sim_receiver_put`; `Recover` is the same for a
packet that FEC gave back, and `busy` holds everything else off until the call ends
(`PutEnds` with an acknowledgement, `EndsQuietly` without). Which packets FEC gives
back is open: any packet of the stream. `Get` is one poll of the player, with the
start of the clock, eviction up to a key frame, the skip of a pause and the
hand-over; `Timer`, `Reset`, `RttChanges` the other entry points. `received`,
`dropped` and `played` are histories.

Left out: the packets an acknowledgement lists, and which of the missing it asks for
(both depend on clocks); the moments of key frame requests; how `wait_timer` and
`frame_timer` adapt (their values come from `Spaces`, `EvictDelays` and the constant
`FrameTimer`); wrap-around of 32-bit ids and times; and a stream longer than the ring
of 1024 frames, hence `real_video_evict_frame`, which does nothing on a shorter one.
The player's buffer is large enough for every frame (the application's hold 1024000 bytes,
`core/VideoPlayThread.cpp:19`): in one that is not, `Get` hands over nothing and forgets the
frame all the same. `real_video_cache_discard`, `real_video_cache_evict_discard` and
`real_video_check_fir` have no caller.

### Forward error correction: `FlexFec`

From a closed window of segments to the segments rebuilt from it. `Shape` is the
matrix `flex_fec_sender_num_packets` lays a window out in, `Packets` what
`flex_fec_sender_update` xors into each FEC packet, written as the set of the packet
ids in it, so that xor is the symmetric difference. On the receiver's side `segs` is
`segs_cache`, `flexes` the open windows with the segments they point to and the FEC
packets they have, `rebuilt` the list `recover_packets`. `ReceiveSegment`,
`ReceiveFec`, `Recover` (one round of `sim_receiver_recover`), `Evict` and `Reset`
are the entry points; a packet rebuilt goes through the receiver again and may
complete further lines. A segment goes by the time it was put at, a FEC packet by the time
the pacer lets it out, when `sim_send_packet` stamps it again (`Sendings`); so a window of
the receiver may be up to `MaxSpan + MaxWait` younger than its oldest segment. `MaxWait` is
the delay the pacer is set to keep (300 ms, `sim_sender.c:203`), with 2000 ms for the window
itself, against 3000 ms of `EvictDelay`: a FEC packet held for a second and more would open
a window that outlives its cached segments. A window that is given up for its age leaves
segments that carry the `fec_id` of the next one and lie before its `base_id` (`first`,
`base`, `Labelled`). Left out: the sizes and padding inside the xor, and the wrap of
`fec_id`, after which the eviction walk stops at the newest windows.

### Application: `AppThreads`

Four threads: the main thread in `connect`, `disconnect` or `finish`, the session
thread that runs handlers and notifications with the session mutex held, and the two
workers. A handler is one step except where it waits: `BaseThread::stop` polls a
flag for up to two seconds, and a notification that calls it keeps the mutex
meanwhile (`handler`, `MutexFree`). `run_flag` is `m_run_flag`, request and answer in
one; `pc` the place of each thread a worker object created; `object` the reader and
player, `deleted` those that are gone. What the session does next (the peer
connects, answers, hangs up, gives up) is a choice. A read error in the middle of a
file, a call that fails and `pthread_join` on a detached thread change nothing here
and are left out. `overlap` is a history: the workers that were started while they
still had a thread, or while `stop()` waited for one; of those `ObjectOutlivesUse`
claims nothing (section 5).

### Sender's congestion control: `AimdRate`, `SenderEstimation`, `SenderCc`

`AimdRate` holds the states of `overuse_detector.c` and the rate controller of
`aimd_rate_control.c`; `SenderEstimation` is `sender_bandwidth_estimator.c`;
`SenderCc` joins them as `delay_base_bwe.c`, `bitrate_controller.c` and
`sender_congestion_controller.c` do: `Feedback` and `ReportOnly` (with and without a
list of arrivals), `Heartbeat`, `SetBitrates`, `UpdateRtt`. `paced` is the rate the
pacer works with, `last` the copy that decides what is told. `above`, `past` and `set_ts`
are histories: the samples above the threshold in a row, the rates of the last second,
and when the limits were set; `PacerFollows` counts from `set_ts`, because notifications
that come anyway would otherwise hide a pacer that is not put right. The grouping of
arrivals, the trend line and the acknowledged rate are floating-point filters; what
they yield is an input (`Samples`, `Rates`, `Spreads`). Factors are fractions and
results rounded down. Branches that cannot be taken are left out: the long feedback
delay, and the reserved bitrate, which nothing sets.

### Feedback and histories: `Unwrapper`, `Skiplist`, `SenderHistory`, `LossStat`, `EstimatorProxy`, `RateStat`, `RembRate`, `Feedback`

Both ends of the transports gcc and remb. `Feedback` has the clock, the packets and reports
on their way and both ends' state; the operators of the others are the functions of the
files they are named after. `Send` takes note of a packet, `Arrive` of its arrival,
`Heartbeat` moves the clock together with the receiver's timer and may send a report,
`ReportArrives` gives it to the sender. `SendNothing` is a packet the pacer lets out after
the sender's caches forgot it: nothing is sent, and remb counts it all the same. `heard`,
`told`, `fed`, `forgotten`, `late` and `unsent` are histories. `WithinHalf` keeps what the
network holds back within half of the number space, as 16 bits can tell no more apart.

### BBR: `WindowedFilter`, `BbrController`, `Bbr`

`BbrController` is `bbr_bandwidth_sample.c`, `bbr_rtt_stats.c` and
`bbr_controller.c` as operators on one record; `OnFeedback` is `bbr_on_feedback` with
all its calls in their order. `Bbr` adds the sender, the receiver and the feedback
adapter, with packets and feedback messages in a network that loses, repeats and
reorders. `Receive` reports at the tenth millisecond or the sixteenth packet,
`ReceiveFeedback` is `bbr_sender_on_feedback`. Configuration branches that
`bbr_set_default_config` switches off are left out, and so are the pacer of BBR (a
packet may leave at any time) and the loss-rate filter, whose figure is only
displayed. The ring of 1024 packet points is a function on packet numbers. `measured` is a
history: what the bandwidth filter was given.

### Messages: `Crc32`, `BinStream`, `SimProto`

Every message byte by byte, because the question is whether bytes written by one end are
read alike at the other. `Crc32` computes the checksum with the table of the source, words
as sets of bits. `BinStream` is a stream with its used length, its read position and a
capacity that doubles; bytes behind the used ones stay, as in the code. A 64-bit time is the
pair of its halves, as TLC's numbers have 32 bits. In `SimProto`, `Encode` is
`sim_encode_msg`, `Process` is `sim_session_process` up to the handler; `Damage` alters a
byte under way, `Cut` drops the end. Encoding keeps one bit of `ftype`, makes of `remb` 0 or
255 and does not carry `send_id`; `Meant` says so. Data whose length does not fit is taken
for no data, its length consumed (`mach_data_read`); only a FEC packet is refused for it
(`ReadFec`).

## 3. The runs

All runs bound the clock or the number of events; the bounds are constants with
"bound" in their comment.

| Run | Shows | Bounds |
|---|---|---|
| `pacer` | queue consistent, byte count exact, no stretch of time a packet ahead of its rate, implements `PacerSpec` | 3 ids of sizes 3, 1, 3; clock to 7; 3 rates. Three ids give every order of arrival against id with a sent packet in between; sizes that differ expose wrong counts |
| `session` | both endpoints call: creation and end match the call, the application is told, an old DISCONNECT ends nothing | 2 calls, 2 messages on their way in all, a signal sent again once, 2 pings, 1 key frame request; endpoints interchangeable (symmetry) |
| `session_live` | a call attempt ends unless its endpoint serves the peer's call, a dead peer is noticed, a hang-up ends if nothing is lost | 1 call on top of one that is over or of the peer's call, which is up; a signal sent at most once more, 2 pings, frames dropped after the second; reliable or lossy without copies, 1 signal under way when lossy; may fail for good; fair |
| `sender` | pointers alive, repair possible, base contiguous, FEC window sound | 3 segments, frames of 1 or 2, windows of 2, clock to 4 with eviction after 3 |
| `receiver` | no gap is lost, the base is safe, frames come out as `PlaybackSpec` promises, play-out reaches the end | 4 frames and 5 packets in two groups, a first frame of two packets, a pause at the end; clock to 6, one repeated CONNECT; fair. The jump that empties the map, a link too slow to repair, eviction and the wrapped start of the clock all happen |
| `fec` | what is rebuilt is one lost segment, windows and cache agree, nothing that can be rebuilt is left, no window outlives its time | 5 segments in windows of 1 to 4: a matrix, rows of two and one, one row, no FEC; a window abandoned with one segment; FEC packets held up to the bound; gaps on both sides of the eviction time |
| `app` | a new call can be made in the end, flags, objects and threads agree, players live as long as they are used, no wait lasts for ever | 3 calls made, 1 received, 2 threads per worker; fair |
| `app_restart` | the defect below | 2 calls, 1 player |
| `gcc` | the rate keeps its caps, the pacer follows, overuse never raises it, losses cut once, growth starts from the least | 2 messages with or without delay samples, losses and remb, any of the limits first and 1 change of them, clock from 10 to 22, heartbeats 2 or 4 apart; the timers are shortened with their order kept (`OveruseMs` is in the milliseconds of the samples), so that silence, the loss timeout, notifications and the start phase all happen |
| `feedback` | samples genuine, no arrival left out, losses real, rates exact and targets in the limits | gcc: 7 packets and a number space of 6, so that the number wraps, 2 packets and 2 reports under way, 1 fault; remb: 3 packets, 1 under way, 3 faults, a packet counted and not sent among them; times sent wrap at 3 |
| `bbr` | bytes in flight and acknowledged exact, windows open, modes by bandwidth, no outdated maximum after a measurement, the rate told rises and falls with what is really under way | 4 packets, 3 under way, 1 fault, clock to 121 in steps of 30; past the first tick at most 2 packets, arrivals not yet reported and messages at a time (`FewUnderWay`): all four modes, recovery and the expiry of the round trip minimum happen |
| `wire` | what arrives whole is read as meant, anything else is refused | every kind of message with fields at 255/256 and 65535/65536, two in a row through streams of 16 bytes that must grow; one datagram cut anywhere, or one byte of a datagram of up to 14 bytes set to 0, 1, 128 or 255 |

Timeouts are scaled down with their order kept, though near ones may fall together; where an
order matters to a proof or a property, an assumption names it (`SenderAssumption`,
`FecAssumption`, `AimdAssumption`, ...). One or two retries stand for 10 and 40, and in the
liveness run one for the slow timer and two for the fast: a further one would only repeat
the last. That run starts from two states of the session after its first call (`AtRest`,
`OtherCallUp`), so that one more call is enough. Deadlock is checked for the pacer, the
sender, the receiver and FEC. The other systems may really come to rest: both endpoints idle
with no calls left, an application that made its calls, a clock at its bound with nothing
under way.

Fairness. In the session the thread polls and runs its heartbeat forever and time
passes: weak fairness of `Heartbeat(p)` and `Tick(p)`. A message that is sent again
and again arrives now and then: strong fairness of receiving each kind of signal.
Nothing is assumed of users, of loss, or of key frame requests. The networks of the liveness
run deliver a datagram once: one that repeats an old datagram without end would keep an
endpoint waiting for ever, as every message counts as a sign of life. What copies do is the
question of the `session` run, and late messages occur in both. In the receiver,
`FairSpec` assumes that a packet which is asked for, or still to come, arrives in the
end (the sender repeats what is asked for, and goes on), that the session thread runs
`Timer` and the player polls `Get`; strong, since a call under way holds the mutex now
and then. `Drains` excuses what the code gave up on purpose, after a jump of the
timestamps or on a slow link, and a call that starts anew. In `AppThreads` every
thread runs on, and whoever waits for the mutex gets it now and then (strong fairness
of the main thread and of each worker's thread), as operating-system mutexes give in
practice.

## 4. The proofs

Of ten systems that are model-checked, eight have every safety invariant and action
property of their passing runs proved (pacer, sender, receiver, session, FEC,
application, rate control, BBR), for every value of the constants that satisfies the named
assumptions. The assumptions say what type a constant has, that the streams are streams,
that there are two endpoints, and which timeout is the longer, and, for BBR, that the run stays
within half of the number space; nothing is assumed of
what the network, the users or the other threads do. Each component has its inductive
invariant, a lemma per action that keeps it, and theorems that follow.

The provers cannot apply the library's induction theorems, which take an operator.
`LeastNat`, that a nonempty set of naturals has a least element, carries every induction
instead: the modules that need one derive their own form of it, for a set of numbers
(`Induct`), a walk up to a bound (`Climb`), or the existence of a recursive function
on `0 .. n` (`WalkExists`).

`Pacer_proofs`, from the three named assumptions of `Pacer`. The queue's invariant says
that the list has no repetition, lists exactly the ids of the map, has the arrival times
in order, starts with an unsent packet when it is not empty, and that `oldest_ts` is its
first arrival time. `HeadUnsent` alone is not inductive: `Final` pops while the head is
sent, and that it stops at a packet rather than at nothing, with both structures still
equal, needs all of it. `BytesExact` adds that `total_size` is the sum over the unsent
ids: every insertion and every transmission changes that set by one id. `RateBound`
rests on a bound that relates `lead` to the budget left: what a stretch is ahead of its rate
is at most the debt, whatever rest was discarded before; and on the assumption that a window at the floor rate holds the largest packet. The
refinement theorem shows that `Push` is `Submit` and `TransmitPacket` is `Transmit` of
the unsent ids, everything else a stutter.

`SimSender_proofs`, from `SenderAssumption`. `SenderInv` has two halves. Of pointers:
`ack_cache` points to segments that are alive; times are in order; and every pointer of
the FEC window is alive and younger than the window, or the window is too old to be used
again. The argument is about two clocks: a segment leaves the cache when it is `SegKeep`
old, the window is started anew when it is `WindowReset` old, and a window is never
younger than the segments in it, so that `WindowReset < SegKeep` (2000 ms against 6000
ms) makes the window stale before its first pointer dangles. Of numbers: packet ids and
send ids were handed out in order, the window holds consecutive ids from its base, every
segment still cached that the receiver misses and that follows the last key frame
request is still in `ack_cache`, so that it can be repaired (`RepairPossible`), and the
base is never above what the receiver has (`BaseIsContiguous`).

`SimReceiver_proofs`, from `StreamAssumption` and `ReceiverAssumption`, for every
stream. `ReceiverInv` joins the types and the three safety invariants with five facts
that they need. `HeldArrived`: what the ring holds has arrived, so that a full slot at
the head is a whole frame, and nothing arrived past `max_seq`. `PositionSeen`: play-out
never passes the latest packet, so that a refused packet lies below `max_seq` and
`NothingForgotten` survives it. `MinSeqBehind`: `min_seq` is a packet of a frame behind
play-out, so that what `video_real_update_base` strikes from the map is not needed any
more. `NextDecodable`: the frame at the head is a key frame or follows the last one
handed over; eviction keeps it because it stops right before a key frame that is in the
ring. `Fresh`: before the first key frame everything is empty. `BaseIsSafe` then
follows: the base lies below the least of the missing, and every gap above is known. The
refinement theorem shows that `Put` and `Recover` arrive, `Get` plays or stutters, and
`Reset` restarts.

`SimSession_proofs`, from `SessionAssumption`, for any number of calls, retries and
messages under way. `SessionInv` joins four facts on the two endpoints. A sender exists
only while its call does. Frames are dropped only in silence. Every receiver has an
application that plays it. And the signals fit: ids in the network were handed out, and
no DISCONNECT that is under way carries the id of the call its receiver now makes. The
last is what a late or repeated DISCONNECT cannot break: ids are never used twice, and
an endpoint sends DISCONNECT only for a call it has left. `PlayingIsTold` and
`LiveCallKeepsReceiver` look at each action that removes a receiver.

`AppThreads_proofs`, from `AppAssumption`, for any number of calls and threads.
`ObjectsAgree` relates the main thread's place, the session thread's handler, the
application's own state and flags, and the threads of each worker. `CallsAgree` says
which pairs of places of the two threads exist, from which `CanCallAgain` follows.
`WorkersFit` is about a worker that was never started over a thread: it has one thread
at most; when the flag is up in a wait, that thread is gone; and when its object is
deleted, the flag is down and the thread cannot reach a use without seeing it. That
invariant failed to be inductive in one place, a start during the wait of `stop()`: the
defect of `finish()` in section 5, found by the proof.

`FlexFec_proofs`, from `FecAssumption`, for any stream and windows of 1 to 100 segments
(`sim_sender.c:370` closes one of 100 at once). Three layers. Arithmetic: division with
remainder, and that the matrix covers the window, so that `LinesFit` holds: what the sender
xors into a FEC packet is what the receiver computes for that line from the window's size, a
short last row and its columns included. Windows: they are disjoint ranges of the stream, in
order of id and time. Then three invariants that hold only together: `CachesAgree`, that a
window's segments are exactly those of its range in the cache; `RebuiltIsGenuine`, that a
line with one hole yields that packet; and `NothingMissed`. `NothingMissed` needs
`WindowSeesCache`, since a FEC packet that comes after the segments must find them all, and
`RebuiltIsGenuine`, since rebuilt packets enter the cache. That eviction by age never takes
a segment from under an open window rests on `MaxSpan + MaxWait < EvictDelay`.
`NoneOutlivesTimer`: the walk stops at the first window in time, and those behind it are not
older.

`SenderCc_proofs`, from the assumptions of `AimdRate`, `SenderEstimation` and
`SenderCc`. The operators come first, bottom up: what `Clamp`, `Increased`, `Decreased`
and `AimdUpdate` do to a rate in its limits, what one sample and then a whole message
does to the detector (its recursion by a least counterexample), what the two walks over
the ring of minima leave in it. `CcInv` joins what each part keeps. `EstimateFits`: the
rate is capped, the losses are at most what was expected, the ring of minima rises in
rate, and unless `decreased` is set no report lies before the last cut. `AimdFits`: the
rate is in its limits, and near the maximum there is a maximum. `DetectionFits`: the
detector never counts more samples than there were above the threshold. `InTime`: when
the next heartbeat and notification are due, from which `PacerFollows` follows.
`Remembered`: the ring of minima covers every rate of the last second, so that its first
entry bounds the growth (`GrowsFromLeast`).

`Bbr_proofs`, from the assumptions of `Unwrapper`, `BbrController` and `Bbr`, with packets
lost, repeated and reordered in any way. `MaxPackets < Half` restricts model and theorems to
the first half of the number space: there 16 bits tell the packet and every unwrapped number
is exact; what goes wrong later is in section 5. Every loop of the code, over a message,
over the packets lost, over the numbers dropped, is a recursive function, and `WalkStays`
carries what one step keeps over the whole walk. `BbrInv` joins the types with three facts,
each of them kept by every operator in the order in which the code calls them. `HistFits`:
the count of outstanding bytes is the sum of the packets after the last one reported on plus
an excess of none, one or two packets, the first ones sent, which nothing ever takes off.
From it `InFlightBounded` follows. `ControllerFits` holds the sampler (`SamplerFits`:
acknowledged bytes are at most those of the packets that arrived and have no point any more,
so that a report repeated or out of date counts nothing twice, hence `AckedOnce`), the
filters in their order, the modes with the gains and the verdict on bandwidth that belong to
them (`ModesAgree`), and the windows between the least and the largest; the recovery window
is zero before the first recovery, and at least the least one whenever it is in use.
`FilterKnows`: of all that was measured, nothing newer than one of the three estimates of
the bandwidth is above it, and the best was inside the window when the latest measurement
came; that its second and third best can always take its place needs both, and gives
`BandwidthIsRecent`. And every message on its way is one the receiver may write
(`Messages`), so that what it reports arrived. `RateFollowsWindow` compares two states;
`RateStep` states it of a step, and each action is shown to keep the invariant and it
(`StepFits`).

Model-checked only:

- Liveness (`Drains`, `ConnectEnds`, `DeadPeerDetected`, `HangupEnds`, `WaitsEnd`): out
  of the prover's reach.
- Feedback and the histories (`SamplesGenuine`, `NoneSkipped`, `LossesReal`, `RembInv`):
  the unwrapped numbers, the ring of the loss statistics and the proxy's map are walked over
  many times within one step, and the statements are about times that wrap at several places.
  The part they share with BBR, `SenderHistory` and `Unwrapper`, is proved about there.
- The wire. The byte streams and checksums of `SimProto` are recursions over data, which
  `DecodesAsSent` and `DamageRefused` are about.

## 5. What the models say about the code

One disagreement has a run of its own. `app_restart`: a worker that stops answers by
raising `m_run_flag`, nothing lowers it, and the next `start()` takes the thread for
running (`core/BaseThread.cpp:25`). The second call of an application is connected
and sends nothing, though `core/EchoManager.cpp:213` says that the connection starts
the transfer thread. The properties of the `app` run hold with this defect.

Others were met while modelling. The models contain them; the properties are stated so
that they hold with them, and no run is about them:

- Session. A delayed CONNECT_ACK of an earlier call connects the next one, since the handler
  does not look at the id (`sim_session.c:396`). A CONNECT that is lost is not repeated while
  the endpoint serves a call of the peer: its pings reset `commad_ts`, the answers reset
  `resend` (597, 661, 718-759), and it stays connecting as long as that call lasts;
  `ConnectEnds` excepts it. A repeated CONNECT restarts the receiver's key frame numbers, and
  its next requests are dropped as old (547). A DISCONNECT that is lost is not repeated while
  pings are answered, because the ping timer keeps resetting `commad_ts` and answers keep
  resetting `resend`: `HangupEnds` is stated for a network that loses nothing. DISCONNECT_ACK
  resets the session together with the receiver of the opposite call and tells no one:
  `PlayingIsTold` exempts it.
- Sender. The round trip time is looked up by packet id among send ids (`sim_sender.c:438`).
  Feedback of an earlier call may move the base past every packet (454). The guard against
  sending a packet twice in a row leaves out the segment's timestamp (427).
- Receiver. Giving up a frame of which nothing arrived sets the play clock to zero
  (`sim_receiver.c:89`, `SlotTs`), so that the key frame play-out jumped to waits for the
  clock to come back.
- Application. `connect()` writes `state_` after `sim_connect` returned
  (`EchoManager.cpp:75`); when the answer came before, the application stays in connecting
  while its call is up. `finish()` looks only at `m_connected` (`EchoManager.cpp:44`), which a
  call being made leaves as the one before set it. While `finish()` waits for the read thread,
  the answer to the new call may create a reader and start the thread again; `finish()` then
  deletes the new reader, which the new thread uses, and clears `m_reading`. Likewise
  `start()` lets a second thread begin when the flag is down and the first has not seen it
  (`BaseThread.cpp:22-55`). `overlap` marks the workers this happened to, and
  `ObjectOutlivesUse` exempts them.
- Congestion control. A loss of ten percent or more may raise the rate, because the cut takes
  the larger of the reduced and the acknowledged rate
  (`sender_bandwidth_estimator.c:280-282`). `rbe_create` passes `aimd_create` its arguments
  swapped. A message whose packets are all unknown drops its remb and loss parts too. The
  first loss report counts as noise. The lowest limit only ever rises.
- Feedback. `estimator_common.c:31` says the difference of two times cannot exceed 65535,
  because only 500 ms are kept; but one or two arrivals followed by more than 65 s of silence
  are not removed, and 16 bits wrap. The proxy ignores packets more than 32767 beyond its
  start, a first number above 32766 among them (`remote_estimator_proxy.c:62`). A packet that
  belongs before the ones dropped makes received packets count as lost (`cc_loss_stat.c`);
  `LossesReal` exempts it. `remb_sender_update_rtt` subtracts the slot it has just filled, so
  that its sum is the last difference (`remb_sender.c:97-99`). `remb_receive_heartbeat` adds
  to a flag it never set (`remb_receiver.c:57`), hence `StrayLosses`.
- BBR. The first packets stay outstanding for ever (`sender_history.c:72-73`, 85). Reordered
  or repeated packets look lost to the next batch (`bbr_feedback_adpater.c:91-103`) and start
  a recovery. A packet lost between the last sample of one message and the first of the next
  is never noticed. Lost packets keep the 16 bits of their number (94), so that after a wrap
  their points stay. The controller keeps the limits it was created with. Rounds that measure
  nothing, or only application-limited samples below the best, pass without the filter
  (`bbr_controller.c:394`, 521-527), and a maximum the window has left stays in use:
  `BandwidthIsRecent` speaks of the moments at which there is a measurement.
- Messages. Counts are capped when decoding only; feedback too large for a message is not sent
  (`sim_receiver.c:462`).

## 6. Not modelled

- Nothing depends on them: the application-limited detector (its result is never read),
  the send-rate limiter (no caller; `RateStat` is the same ring), the logger, the receiver's
  own bitrate estimator (`sim_sender.c:347` sets remb on every segment, so that no packet
  reaches `remote_bitrate_estimator.c`), the loss-rate filter of BBR.
- Floating-point filters: `inter_arrival.c`, `trendline.c`, `kalman_filter.c`. What they
  yield is an input of `SenderCc`.
- Input and output: video files and codecs, the platform layer, the program's entry, the
  relay of the tests.
- Plain data structures whose content is only speed or layout: the levels of the skip list,
  the linked list, the hex dump.
- In modelled parts: `sim_session_set_bitrates` reads `s->sender` without the mutex, but the
  application calls it once, before any call; the division of the rate between video and FEC;
  destruction of session, sender and receiver, which happens when no thread is left; receivers
  whose ring is shorter than the stream; 32-bit wraps; the pacer of BBR.
