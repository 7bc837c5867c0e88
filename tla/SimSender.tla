----------------------------- MODULE SimSender -----------------------------
(***************************************************************************)
(* The video sender: sim_transport/sim_sender.c with the FEC window of     *)
(* sim_transport/fec/flex_fec_sender.c.                                    *)
(*                                                                         *)
(* A segment has two numbers: packet_id counts segments, send_id counts    *)
(* segments and FEC packets together.  segs_cache owns the segments, by    *)
(* send_id; ack_cache (by packet_id) and the FEC window point into it.     *)
(* The pacer is its abstract promise: it keeps the send ids handed over    *)
(* and hands back the least one (PacerSpec).                               *)
(*                                                                         *)
(* Every entry point runs under the session mutex.  sim_sender_put is one  *)
(* action per segment, with the others waiting.  The receiver appears only *)
(* as what it may report: the packets it has or gave up on.                *)
(***************************************************************************)
EXTENDS Integers, Sequences, FiniteSets

CONSTANTS
    UseFec,        \* sender->flex != NULL
    FecBatch,      \* segments that complete a window (6)
    FecFull,       \* segments at which a window is closed inside a frame (100)
    RepairWindow,  \* FEC_REPAIR_WINDOW, 500 ms
    WindowReset,   \* FEC_REPAIR_WINDOW * 4
    FecKeep,       \* MAX_CACHE_DELAY / 3, 2000 ms
    SegKeep,       \* MAX_CACHE_DELAY, 6000 ms
    NackMaxAge,    \* CACHE_MAX_DELAY, 1500 ms
    ResendGap,     \* between two transmissions, 30 to 200 ms
    MaxFrame,      \* bound: segments of a frame
    MaxPackets,    \* bound: segments in a behaviour
    MaxFecs,       \* bound: FEC packets of a window
    MaxTime        \* bound of the clock

ASSUME SenderAssumption ==
    /\ UseFec \in BOOLEAN
    /\ FecBatch \in Nat \ {0} /\ FecFull \in Nat /\ FecFull >= FecBatch
    /\ {RepairWindow, WindowReset, FecKeep, SegKeep, NackMaxAge, ResendGap} \subseteq Nat
    /\ WindowReset < SegKeep
    /\ {MaxFrame, MaxPackets, MaxFecs, MaxTime} \subseteq Nat

VARIABLES
    segs,       \* segs_cache: send id -> segment
    ack_cache,  \* packet id -> send id of the segment pointed to
    fecs,       \* fecs_cache: send id -> send_ts
    base,       \* base_packet_id
    pid_seed,   \* packet_id_seed
    send_seed,  \* send_id_seed
    first_ts,   \* -1 before the first frame
    window,     \* flex->segs, pointers as send ids
    fec_ts,     \* flex->fec_ts, 0 when the window is closed
    base_id,    \* flex->base_id
    left,       \* segments sim_sender_put has still to cut; 0 outside it
    waiting,    \* send ids in the pacer
    now,        \* GET_SYS_MS
    top,        \* environment: highest packet id ever transmitted
    done,       \* environment: packet ids the receiver has or gave up on
    cleaned     \* history: packet_id_seed at the latest key frame request

caches == <<segs, ack_cache, fecs>>
seeds  == <<pid_seed, send_seed, first_ts>>
flex   == <<window, fec_ts, base_id>>
env    == <<top, done>>
vars   == <<segs, ack_cache, fecs, base, pid_seed, send_seed, first_ts, window, fec_ts,
            base_id, left, waiting, now, top, done, cleaned>>

Segment == [pid : Nat, ts : Nat, send_ts : Nat]

TypeOK ==
    /\ DOMAIN segs \subseteq 1 .. send_seed /\ segs \in [DOMAIN segs -> Segment]
    /\ DOMAIN ack_cache \subseteq 1 .. pid_seed
    /\ ack_cache \in [DOMAIN ack_cache -> 1 .. send_seed]
    /\ DOMAIN fecs \subseteq 1 .. send_seed /\ fecs \in [DOMAIN fecs -> Nat]
    /\ {base, pid_seed, send_seed, fec_ts, base_id, left, now, top, cleaned} \subseteq Nat
    /\ first_ts \in Nat \union {-1}
    /\ window \in Seq(1 .. send_seed)
    /\ waiting \subseteq 1 .. send_seed
    /\ done \subseteq 1 .. pid_seed

\* sim_sender_create
Init ==
    /\ segs = << >> /\ ack_cache = << >> /\ fecs = << >>
    /\ base = 0 /\ pid_seed = 0 /\ send_seed = 0 /\ first_ts = -1
    /\ window = << >> /\ fec_ts = 0 /\ base_id = 0
    /\ left = 0 /\ waiting = {} /\ now = 1
    /\ top = 0 /\ done = {} /\ cleaned = 0

Without(f, gone) == [x \in DOMAIN f \ gone |-> f[x]]
With(f, x, v) == [y \in DOMAIN f \union {x} |-> IF y = x THEN v ELSE f[y]]

-----------------------------------------------------------------------------
(* Putting a frame *)

\* sim_sender_put up to its loop; sim_split_frame makes n segments.
PutFrame(n) ==
    /\ left = 0
    /\ pid_seed + n <= MaxPackets
    /\ left' = n
    /\ first_ts' = IF first_ts = -1 THEN now ELSE first_ts
    /\ UNCHANGED <<caches, base, pid_seed, send_seed, flex, waiting, now, env, cleaned>>

WindowNeverTimesOut(s) == Append(window, s)

Stale == fec_ts # 0 /\ fec_ts + WindowReset < now

\* flex_fec_sender_add_segment: the window once segment s is in it; a window
\* left open for too long is started anew.
WindowWith(s) == IF Stale THEN <<s>> ELSE Append(window, s)

WindowStart == IF fec_ts = 0 \/ Stale THEN now ELSE fec_ts

\* first_ is 1 exactly while the window is empty.
WindowBase(p) == IF window # << >> /\ ~Stale /\ base_id < p THEN base_id ELSE p

\* flex_fec_sender_over
WindowOver(w) == WindowStart + RepairWindow < now \/ Len(w) >= FecBatch

\* How many FEC packets flex_fec_sender_update may make of a window: none when
\* it would have a single column.
FecCounts(w) == IF Len(w) < 2 THEN {0} ELSE 0 .. MaxFecs

\* sim_sender_fec after segment s: nothing yet, or the window is closed and k
\* FEC packets get the send ids after s.
CloseWindow(s, w, k) ==
    LET new == (s + 1) .. (s + k)
    IN  /\ fecs' = [f \in DOMAIN fecs \union new |->
                        IF f \in new THEN now - first_ts ELSE fecs[f]]
        /\ send_seed' = s + k
        /\ waiting' = waiting \union {s} \union new
        /\ window' = << >> /\ fec_ts' = 0 /\ base_id' = 0

KeepWindow(s, w) ==
    /\ window' = w /\ fec_ts' = WindowStart /\ base_id' = WindowBase(pid_seed + 1)
    /\ send_seed' = s
    /\ waiting' = waiting \union {s}
    /\ UNCHANGED fecs

\* One round of the loop of sim_sender_put.
PutSegment ==
    LET s == send_seed + 1
        p == pid_seed + 1
        w == WindowWith(s)
        checked == Len(w) >= FecFull \/ left = 1
    IN  /\ left > 0
        /\ left' = left - 1
        /\ pid_seed' = p
        /\ segs' = With(segs, s, [pid |-> p, ts |-> now - first_ts, send_ts |-> 0])
        /\ ack_cache' = With(ack_cache, p, s)
        /\ IF ~UseFec
           THEN /\ send_seed' = s
                /\ waiting' = waiting \union {s}
                /\ UNCHANGED <<fecs, flex>>
           ELSE IF checked /\ WindowOver(w)
                THEN \E k \in FecCounts(w) : CloseWindow(s, w, k)
                ELSE KeepWindow(s, w)
        /\ UNCHANGED <<base, first_ts, now, env, cleaned>>

-----------------------------------------------------------------------------
(* Transmission: sim_send_packet, called by the pacer *)

Next1(W) == CHOOSE s \in W : \A t \in W : s <= t

\* send_ts is relative to the frame's timestamp.
SegSentAt(s) == [segs[s] EXCEPT !.send_ts = now - first_ts - segs[s].ts]

\* A segment or FEC packet evicted in the meantime is skipped.
Transmit ==
    /\ left = 0
    /\ waiting # {}
    /\ LET s == Next1(waiting)
       IN  /\ waiting' = waiting \ {s}
           /\ \/ /\ s \in DOMAIN segs
                 /\ segs' = With(segs, s, SegSentAt(s))
                 /\ top' = IF segs[s].pid > top THEN segs[s].pid ELSE top
                 /\ UNCHANGED fecs
              \/ /\ s \in DOMAIN fecs
                 /\ fecs' = With(fecs, s, now - first_ts)
                 /\ UNCHANGED <<segs, top>>
              \/ /\ s \notin DOMAIN segs \union DOMAIN fecs
                 /\ UNCHANGED <<segs, fecs, top>>
    /\ UNCHANGED <<ack_cache, base, seeds, flex, left, now, done, cleaned>>

\* The receiver gets packet p, rebuilds it, or gives it up: p is no longer in the
\* way of the base it reports (video_real_update_base).
Settle(p) ==
    /\ p \notin done
    /\ done' = done \union {p}
    /\ UNCHANGED <<caches, base, seeds, flex, left, waiting, now, top, cleaned>>

-----------------------------------------------------------------------------
(* Reports of the receiver *)

\* The bases a report may carry, delayed ones included: video_real_update_base
\* stops short of the first packet still missed.
Bases == {b \in 0 .. top : 1 .. b \subseteq done}

NoLongerNeededOffByOne(b) == {p \in DOMAIN ack_cache : p <= b + 1}

\* sim_sender_update_base: what leaves ack_cache when the base gets to b.
NoLongerNeeded(b) == IF b > base THEN {p \in DOMAIN ack_cache : p <= b} ELSE {}

Raised(b) == IF b > base THEN b ELSE base

\* The nacked packets sim_sender_ack queues again, found in the cache a: not
\* just sent, not too old.  The code compares send_ts + first_ts with the
\* clock, without the segment's timestamp.
Resend(nacked, a, b) ==
    {p \in nacked \intersect DOMAIN a :
        LET g == segs[a[p]]
        IN  /\ p > b
            /\ g.send_ts + first_ts + ResendGap <= now
            /\ g.ts + first_ts + NackMaxAge >= now}

\* sim_sender_ack for a report with base b, latest packet got, and lists of
\* packets received and missing.  The RTT it measures is left out.  With an RTT
\* above CACHE_MAX_DELAY nothing is queued again, as if nothing were missing.
Ack(b, got, received, missing) ==
    LET a == Without(ack_cache, NoLongerNeeded(b) \union received)
        r == Raised(b)
    IN  /\ left = 0
        /\ b <= pid_seed /\ got <= pid_seed
        /\ base' = r
        /\ ack_cache' = a
        /\ waiting' = waiting \union {a[p] : p \in Resend(missing, a, r)}
        /\ UNCHANGED <<segs, fecs, seeds, flex, left, now, env, cleaned>>

\* The lists hold packets above the base that the receiver knows of.  Their
\* entries are handled one by one, so that reports with at most one entry, in
\* a row, have every effect.
AckAny ==
    \E b \in Bases, got \in done :
        \/ Ack(b, got, {}, {})
        \/ \E p \in done : p > b /\ Ack(b, got, {p}, {})
        \/ \E p \in 1 .. top : p > b /\ Ack(b, got, {}, {p})

\* sim_sender_feedback: unlike sim_sender_ack it takes any base.
Feedback(b) ==
    /\ left = 0
    /\ base' = Raised(b)
    /\ ack_cache' = Without(ack_cache, NoLongerNeeded(b))
    /\ UNCHANGED <<segs, fecs, seeds, flex, left, waiting, now, env, cleaned>>

\* sim_clean_ack_cache, on a key frame request.
CleanAckCache ==
    /\ left = 0
    /\ ack_cache' = << >>
    /\ cleaned' = pid_seed
    /\ UNCHANGED <<segs, fecs, base, seeds, flex, left, waiting, now, env>>

-----------------------------------------------------------------------------
(* The timer *)

\* The entries of a cache that a walk from the first key on removes.
Leading(f, expired) == {s \in DOMAIN f : \A t \in DOMAIN f : t <= s => t \in expired}

\* packet ids that leave ack_cache with the segments gone.
Forgotten(gone) == {segs[s].pid : s \in gone}

\* sim_sender_evict_cache, by sim_sender_timer.
Evict ==
    LET old == Leading(segs, {s \in DOMAIN segs : segs[s].ts + first_ts + SegKeep <= now})
        oldFecs == Leading(fecs, {f \in DOMAIN fecs : fecs[f] + first_ts + FecKeep < now})
    IN  /\ left = 0
        /\ old # {} \/ oldFecs # {}
        /\ segs' = Without(segs, old)
        /\ ack_cache' = Without(ack_cache, Forgotten(old))
        /\ fecs' = Without(fecs, oldFecs)
        /\ UNCHANGED <<base, seeds, flex, left, waiting, now, env, cleaned>>

Tick ==
    /\ left = 0
    /\ now < MaxTime
    /\ now' = now + 1
    /\ UNCHANGED <<caches, base, seeds, flex, left, waiting, env, cleaned>>

Next ==
    \/ \E n \in 1 .. MaxFrame : PutFrame(n)
    \/ PutSegment
    \/ Transmit
    \/ \E p \in 1 .. top : Settle(p)
    \/ AckAny
    \/ \E b \in Bases : Feedback(b)
    \/ CleanAckCache
    \/ Evict
    \/ Tick

Spec == Init /\ [][Next]_vars

-----------------------------------------------------------------------------
(* Properties *)

\* ack_cache never points to a segment that segs_cache freed, and finds the
\* segment by its own packet id (sim_sender.c:425 reads through it).
AckPointsAlive ==
    \A p \in DOMAIN ack_cache :
        ack_cache[p] \in DOMAIN segs /\ segs[ack_cache[p]].pid = p

\* A packet the receiver still misses can be sent again as long as it is
\* cached: no report, however late or repeated, takes it from ack_cache, only
\* a key frame request or its age does.
RepairPossible ==
    \A s \in DOMAIN segs :
        segs[s].pid \notin done /\ segs[s].pid > cleaned => segs[s].pid \in DOMAIN ack_cache

\* The FEC window holds consecutive packets from base_id on
\* (flex_fec_sender.c:48), across frames, evictions and time-outs, so that the
\* receiver finds the packet of row r and column c at base_id + r * col + c.
WindowConsecutive ==
    \A i \in 1 .. Len(window) :
        window[i] \in DOMAIN segs => segs[window[i]].pid = base_id + i - 1

\* FEC packets are computed from segments that are still there: the window
\* keeps pointers to segments the cache may free while no frame comes.
FecFromLive ==
    [][DOMAIN fecs' \ DOMAIN fecs # {}
          => LET w == WindowWith(send_seed + 1)
             IN  \A i \in 1 .. Len(w) : w[i] \in DOMAIN segs']_vars

\* "The largest packet id acknowledged as contiguous by the receiver"
\* (sim_proto.h:124): the base never passes a packet the receiver of this call
\* still waits for.
BaseIsContiguous == 1 .. base \subseteq done

\* Times are in order: nothing is stamped in the future, and no segment
\* exists before the first frame.
TimesOrdered ==
    /\ now # 0
    /\ first_ts <= now
    /\ left > 0 => first_ts # -1
    /\ first_ts = -1 => DOMAIN segs = {}
    /\ \A s \in DOMAIN segs : segs[s].ts + first_ts <= now /\ segs[s].pid <= pid_seed
    /\ top <= pid_seed

\* Every pointer of the FEC window is either too old to be used again, because
\* the next segment starts the window anew, or to a segment that exists and
\* came after the window was opened.
WindowAlive ==
    /\ fec_ts <= now
    /\ fec_ts = 0 => window = << >>
    /\ fec_ts + WindowReset < now
         \/ \A i \in 1 .. Len(window) :
               window[i] \in DOMAIN segs /\ segs[window[i]].ts + first_ts >= fec_ts

\* Segments are numbered in the order of their send ids, and the window ends
\* with the latest one.
Numbered ==
    /\ \A s, t \in DOMAIN segs : s < t => segs[s].pid < segs[t].pid
    /\ \A s \in DOMAIN segs : segs[s].pid # 0
    /\ window # << >> => UseFec /\ base_id # 0 /\ base_id + Len(window) = pid_seed + 1

PointersInv == TypeOK /\ TimesOrdered /\ AckPointsAlive /\ WindowAlive
NumbersInv  == Numbered /\ RepairPossible /\ WindowConsecutive /\ BaseIsContiguous

\* The sender's books agree in every state: the invariant the proofs rest on.
SenderInv == PointersInv /\ NumbersInv
=============================================================================
