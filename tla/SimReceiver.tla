---------------------------- MODULE SimReceiver ----------------------------
(***************************************************************************)
(* The video receiver: sim_transport/sim_receiver.c, that is the map of    *)
(* missing packets, the base and the acknowledgement on one side, the ring *)
(* of frames and the play clock on the other.                              *)
(*                                                                         *)
(* The stream is a constant: consecutive packets in consecutive frames.    *)
(* The network brings any packet of it in any order, any number of times.  *)
(* The ring is longer than the stream, so that a slot is a frame; a slot   *)
(* keeps the id of its last frame after it is emptied ("touched").         *)
(*                                                                         *)
(* Entry points run under the session mutex.  sim_receiver_put and         *)
(* sim_receiver_put_fec are one action per packet they take in (the one    *)
(* received, then those FEC recovers), with the others waiting.            *)
(***************************************************************************)
EXTENDS Integers, Sequences, FiniteSetsExt

CONSTANTS
    Frames,         \* the stream: frame id -> [first, last, key, ts]
    LossJump,       \* 3000 ms of sim_receiver_update_loss
    EvictDelays,    \* MIN_EVICT_DELAY_MS .. MAX_EVICT_DELAY_MS, with wait_timer
    Spaces,         \* max(wait_timer, frame_timer), adapted to the RTT
    FrameTimer,     \* frame_timer, the time between two frames
    SkipAhead,      \* the 500 ms of real_video_cache_get
    Elapsed,        \* how far the play clock moves between two polls
    UseFec,         \* r->recover != NULL and fec_id > 0
    SlowLinks,      \* whether the RTT may reach CACHE_MAX_DELAY
    MaxClock,       \* bound of the play clock
    MaxResets       \* bound: repeated CONNECTs

Fids  == DOMAIN Frames
PacketsOf(f) == Frames[f].first .. Frames[f].last
Pids  == UNION {PacketsOf(f) : f \in Fids}
FrameOf(p) == CHOOSE f \in Fids : p \in PacketsOf(f)
IsKey(f)   == Frames[f].key
Ts(f)      == Frames[f].ts

\* sim_sender_put numbers packets and frames one by one, from 1, and stamps
\* each frame with the time since the first.
ASSUME StreamAssumption ==
    /\ Frames \in Seq([first : Nat \ {0}, last : Nat \ {0}, key : BOOLEAN, ts : Nat])
    /\ \A f \in Fids : Frames[f].first <= Frames[f].last
    /\ \A f, g \in Fids : f < g => /\ Frames[f].last < Frames[g].first
                                   /\ Frames[f].ts <= Frames[g].ts
    /\ \A p, q \in Pids : p .. q \subseteq Pids

ASSUME ReceiverAssumption ==
    /\ LossJump \in Nat /\ SkipAhead \in Nat /\ MaxClock \in Nat /\ MaxResets \in Nat
    /\ EvictDelays \subseteq Nat /\ Elapsed \subseteq Nat
    /\ FrameTimer \in Nat /\ Spaces \subseteq {n \in Nat : n >= FrameTimer}
    /\ UseFec \in BOOLEAN /\ SlowLinks \subseteq BOOLEAN

VARIABLES
    base,           \* base_seq
    max_seq,        \* 0 until the first key frame
    max_ts,
    loss,           \* the missing packets asked for, a skip list
    frames,         \* cache->frames: frame id -> packets held
    touched,        \* frames whose id is still written in their slot
    min_seq, min_fid, max_fid, play_frame_ts, frame_ts, playing,  \* cache
    busy,           \* "put" or "fec" inside these calls, else "no"
    slow,           \* s->rtt >= CACHE_MAX_DELAY
    resets,         \* CONNECTs repeated so far
    received,       \* history: packets taken in since the last reset
    dropped,        \* history: packets struck from the map of the missing
    played          \* history: the frame handed over last

losses  == <<base, max_seq, max_ts, loss>>
cache   == <<frames, touched, min_seq, min_fid, max_fid, play_frame_ts>>
clock   == <<frame_ts, playing>>
history == <<received, dropped, played>>
vars    == <<base, max_seq, max_ts, loss, frames, touched, min_seq, min_fid, max_fid,
             play_frame_ts, frame_ts, playing, busy, slow, resets, received, dropped, played>>

TypeOK ==
    /\ {base, max_seq, max_ts, min_seq, play_frame_ts, frame_ts, resets} \subseteq Nat
    /\ min_fid \in Fids \union {0} /\ max_fid \in Fids \union {0} /\ played \in Fids \union {0}
    /\ loss \subseteq Pids /\ received \subseteq Pids /\ dropped \subseteq Pids
    /\ frames \in [Fids -> SUBSET Pids] /\ \A f \in Fids : frames[f] \subseteq PacketsOf(f)
    /\ touched \subseteq Fids
    /\ busy \in {"no", "put", "fec"}
    /\ playing \in BOOLEAN /\ slow \in BOOLEAN

\* sim_receiver_create and sim_receiver_active
Init ==
    /\ base = 0 /\ max_seq = 0 /\ max_ts = 0 /\ loss = {}
    /\ frames = [f \in Fids |-> {}] /\ touched = {}
    /\ min_seq = 0 /\ min_fid = 0 /\ max_fid = 0 /\ play_frame_ts = 0
    /\ frame_ts = 0 /\ playing = FALSE
    /\ busy = "no" /\ slow = FALSE /\ resets = 0
    /\ received = {} /\ dropped = {} /\ played = 0

-----------------------------------------------------------------------------
(* Taking in a packet: sim_receiver_internal_put *)

\* Nothing is taken before a key frame, and nothing up to the base.
AcceptsNewest(p) == (max_seq # 0 \/ IsKey(FrameOf(p))) /\ p > max_seq

Accepts(p) == (max_seq # 0 \/ IsKey(FrameOf(p))) /\ p > base

\* The first packet starts the numbering right before its frame.
Start(p) == IF max_seq = 0 THEN Frames[FrameOf(p)].first - 1 ELSE max_seq

\* sim_receiver_update_loss: a jump of the timestamps or a slow link gives the
\* missing packets up; otherwise those skipped by p are missing now.
GivesUp(p) ==
    \/ (IF max_seq = 0 THEN Ts(FrameOf(p)) ELSE max_ts) + LossJump < Ts(FrameOf(p))
    \/ slow

SkippedAfterNext(p) == (Start(p) + 2) .. (p - 1)

Skipped(p) == (Start(p) + 1) .. (p - 1)

TrackLoss(p) ==
    IF GivesUp(p)
    THEN /\ loss' = {}
         /\ dropped' = (dropped \union loss \union Skipped(p)) \ {p}
    ELSE /\ loss' = (loss \ {p}) \union Skipped(p)
         /\ UNCHANGED dropped

\* real_video_cache_put: frames up to min_fid were played or skipped.
Stores(p) == FrameOf(p) > min_fid /\ p \notin frames[FrameOf(p)]

Store(p) ==
    LET f == FrameOf(p)
    IN  /\ frames' = [frames EXCEPT ![f] = @ \union {p}]
        /\ touched' = touched \union {f}
        /\ max_fid' = Max({max_fid, f})
        /\ min_fid' = IF max_fid = 0 THEN f - 1 ELSE min_fid
        /\ play_frame_ts' = IF max_fid = 0 THEN Ts(f) ELSE play_frame_ts
        /\ max_seq' = Max({Start(p), p})
        /\ max_ts' = Max({max_ts, Ts(f)})
        /\ received' = received \union {p}
        /\ UNCHANGED min_seq

TakeIn(p) ==
    /\ Accepts(p)
    /\ base' = IF max_seq = 0 THEN Start(p) ELSE base
    /\ TrackLoss(p)
    /\ IF Stores(p) THEN Store(p) ELSE UNCHANGED <<cache, max_seq, max_ts, received>>
    /\ UNCHANGED <<clock, slow, resets, played>>

\* sim_receiver_put: after the packet come those FEC recovers, then perhaps
\* an acknowledgement.  A packet that is not stored ends the call.
Put(p) ==
    /\ busy = "no"
    /\ TakeIn(p)
    /\ busy' = IF Stores(p) THEN "put" ELSE "no"

\* sim_receiver_put_fec, and sim_receiver_recover in both.
PutFec == UseFec /\ busy = "no" /\ busy' = "fec" /\ UNCHANGED <<losses, cache, clock, slow, resets, history>>

Recover(p) == UseFec /\ busy # "no" /\ TakeIn(p) /\ UNCHANGED busy

-----------------------------------------------------------------------------
(* Acknowledgement: video_real_ack *)

\* video_real_update_base: packets of frames played or skipped are not missing
\* any more; the base is right below the first one that is.
StillMissing == loss \ ((base + 1) .. min_seq)

BaseBelow(l) == IF l = {} THEN max_seq ELSE Min(l) - 1

\* Some of the missing are asked for again (which ones depends on the clock);
\* on a slow link they are all given up instead.
Acknowledge ==
    /\ base' = BaseBelow(StillMissing)
    /\ \E gives_up \in {FALSE, slow /\ StillMissing # {}} :
          /\ loss' = IF gives_up THEN {} ELSE StillMissing
          /\ dropped' = IF gives_up THEN dropped \union StillMissing ELSE dropped
    /\ busy' = "no"
    /\ UNCHANGED <<max_seq, max_ts, cache, clock, slow, resets, received, played>>

\* The call ends with an acknowledgement if 20 ms passed since the last one.
PutEnds == busy = "put" /\ Acknowledge

EndsQuietly ==
    /\ busy # "no" /\ busy' = "no"
    /\ UNCHANGED <<losses, cache, clock, slow, resets, history>>

\* sim_receiver_timer
Timer == busy = "no" /\ Acknowledge

-----------------------------------------------------------------------------
(* Playing: real_video_cache_get *)

\* A slot without packets counts as complete: seg_count = seg_number = 0.
Full(f) == frames[f] = {} \/ frames[f] = PacketsOf(f)

SlotTs(f) == IF frames[f] = {} THEN 0 ELSE Ts(f)

\* max_ts of the cache is that of its latest frame.
CacheMaxTs == Ts(max_fid)

\* real_video_cache_check_playing
CanStart(space) == max_fid > min_fid /\ CacheMaxTs >= play_frame_ts + space

\* The clock starts at the time of the frame at the head, by the frame interval;
\* a negative time wraps around to one that is past every frame.
StartClock ==
    LET t == CacheMaxTs - FrameTimer * (max_fid - min_fid - 1)
    IN  IF t < 0 THEN MaxClock ELSE t

\* real_video_cache_sync_timestamp
Moved == {Min({frame_ts + e, MaxClock}) : e \in Elapsed}

\* evict_gop_frame: the first key frame from the second frame on
GopFrames == {f \in (min_fid + 2) .. (max_fid - 1) : frames[f] # {}}

GopKeys == {f \in (min_fid + 2) .. (max_fid - 1) : IsKey(f) /\ frames[f] # {}}

Overdue(delay) == play_frame_ts + delay < CacheMaxTs

\* real_video_ready_ms > space: the complete frames at the head span more than
\* the buffering time.  The last one may be an empty slot of timestamp 0, and
\* the difference then wraps around.
ReadyAhead(space) ==
    \E f, g \in (min_fid + 1) .. max_fid :
        /\ f <= g /\ frames[f] # {} /\ Ts(f) > 0
        /\ \A h \in (min_fid + 1) .. g : Full(h)
        /\ g = max_fid \/ ~Full(g + 1)
        /\ \A h \in (min_fid + 1) .. (f - 1) : SlotTs(h) = 0
        /\ IF frames[g] = {} THEN Ts(f) > FrameTimer ELSE Ts(g) - Ts(f) + FrameTimer > space

\* The slots of the frames from min_fid + 1 to f are emptied
\* (real_video_clean_frame): the latest one that held packets moves min_seq.
Cleaned(f) ==
    LET held == {g \in (min_fid + 1) .. f : frames[g] # {}}
    IN  /\ frames' = [g \in Fids |-> IF g \in held THEN {} ELSE frames[g]]
        /\ min_fid' = f
        /\ min_seq' = IF held = {} THEN min_seq ELSE Frames[Max(held)].last
        /\ play_frame_ts' = IF held = {} THEN play_frame_ts ELSE Ts(Max(held))

\* Frames given up before the head is looked at.
Evicts(delay)    == min_fid # max_fid /\ Overdue(delay) /\ GopKeys # {}
GivenUpTo(delay) == IF Evicts(delay) THEN Min(GopKeys) - 1 ELSE min_fid

\* The frame f at the head, with the play clock at t, is handed over when its
\* time has come; the clock may skip a pause.  A slot emptied before counts as
\* complete and gives an empty frame.
Complete(f)       == min_fid # max_fid /\ f \in touched /\ Full(f)
Due(f, t)         == SlotTs(f) <= t
Skips(f, t, space) == SlotTs(f) > t + Max({SkipAhead, 2 * space}) /\ ReadyAhead(space)

\* sim_receiver_get: the call may start playing, give up frames that are
\* overdue for the next key frame, and hand over the frame at the head.  Where
\* the frame does not fit into the application's buffer, 0 bytes are handed over
\* and all the rest is the same: the frame is cleaned and the clock moves on.
Get ==
    /\ busy = "no"
    /\ \E space \in Spaces, delay \in EvictDelays :
        /\ playing \/ CanStart(space)
        /\ \E now \in IF playing THEN Moved ELSE {StartClock} :
           LET last == GivenUpTo(delay)
               head == last + 1
               t    == IF Evicts(delay) THEN SlotTs(last) ELSE now
           IN  IF Complete(head) /\ Due(head, t)
               THEN /\ frame_ts' = SlotTs(head)
                    /\ IF frames[head] = {} THEN Cleaned(last) /\ UNCHANGED played
                                            ELSE Cleaned(head) /\ played' = head
               ELSE /\ frame_ts' = IF Complete(head) /\ Skips(head, t, space)
                                   THEN SlotTs(head) - space ELSE t
                    /\ Cleaned(last) /\ UNCHANGED played
    /\ playing' = TRUE
    /\ UNCHANGED <<losses, touched, max_fid, busy, slow, resets, received, dropped>>

-----------------------------------------------------------------------------
(* The session *)

\* process_sim_connect for a receiver that exists: sim_receiver_reset and
\* sim_receiver_active.  play_frame_ts is written before its next use.
Reset ==
    /\ busy = "no" /\ resets < MaxResets
    /\ resets' = resets + 1
    /\ base' = 0 /\ max_seq' = 0 /\ max_ts' = 0 /\ loss' = {}
    /\ frames' = [f \in Fids |-> {}]
    /\ min_seq' = 0 /\ min_fid' = 0 /\ max_fid' = 0 /\ play_frame_ts' = 0
    /\ frame_ts' = 0 /\ playing' = FALSE
    /\ received' = {} /\ dropped' = {} /\ played' = 0
    /\ UNCHANGED <<touched, busy, slow>>

\* sim_session_calculate_rtt
RttChanges ==
    /\ busy = "no"
    /\ slow' \in SlowLinks \ {slow}
    /\ UNCHANGED <<losses, cache, clock, busy, resets, history>>

Next ==
    \/ \E p \in Pids : Put(p) \/ Recover(p)
    \/ PutFec \/ PutEnds \/ EndsQuietly
    \/ Timer \/ Get \/ Reset \/ RttChanges

Spec == Init /\ [][Next]_vars

-----------------------------------------------------------------------------
(* Properties *)

\* Nothing is asked for again that has arrived, by the network or by FEC, and
\* the map never reaches past the latest packet (sim_receiver_update_loss).
LossIsMissing == loss \intersect received = {} /\ \A p \in loss : p < max_seq

\* Every gap below the latest packet is known: a packet of a frame still to be
\* played has arrived, is asked for again or was given up on purpose with a
\* key frame request.
NothingForgotten ==
    \A p \in Pids : p <= max_seq /\ FrameOf(p) > min_fid => p \in received \union loss \union dropped

\* The base the sender learns, below which it may forget, never covers a packet
\* the receiver still waits for.
BaseIsSafe ==
    \A p \in Pids : p <= base /\ FrameOf(p) > min_fid => p \in received \union dropped

\* Before the first packet everything is empty.
Fresh ==
    /\ max_seq = 0 <=> max_fid = 0
    /\ max_fid = 0 => /\ base = 0 /\ min_fid = 0 /\ played = 0 /\ playing = FALSE
                      /\ received = {} /\ \A f \in Fids : frames[f] = {}

\* What the ring holds has arrived, and nothing arrived past max_seq.
HeldArrived ==
    /\ \A f \in Fids : frames[f] \subseteq received
    /\ \A p \in received : p <= max_seq

\* Frames behind the play position are numbered below max_seq.
PositionSeen ==
    /\ min_fid <= max_fid
    /\ max_fid # 0 => Frames[max_fid].first <= max_seq
    /\ \A p \in Pids : FrameOf(p) <= min_fid => p <= max_seq

\* min_seq is in a frame behind the play position.
MinSeqBehind == \A p \in Pids : p <= min_seq => FrameOf(p) <= min_fid

\* The next frame follows the one handed over last, or is a key frame.
NextDecodable ==
    /\ played <= min_fid
    /\ max_fid # 0 => \/ played = min_fid
                      \/ min_fid + 1 \in Fids /\ IsKey(min_fid + 1)

\* The receiver's books agree in every state: the invariant the proofs rest on.
ReceiverInv ==
    /\ TypeOK
    /\ Fresh /\ HeldArrived /\ PositionSeen /\ MinSeqBehind /\ NextDecodable
    /\ LossIsMissing /\ NothingForgotten /\ BaseIsSafe

Playback == INSTANCE PlaybackSpec

\* Frames are handed over whole, in order, and decodable (real_video_cache_get,
\* evict_gop_frame).
ImplementsPlayback == Playback!PlaybackPromise

\* The network brings what is asked for again and what comes next, the session
\* thread runs its timer, and the player polls.
Fairness ==
    /\ SF_vars(\E p \in Pids : Put(p) /\ (p \in loss \/ p > max_seq))
    /\ WF_vars(PutEnds \/ EndsQuietly)
    /\ SF_vars(Timer)
    /\ SF_vars(Get)

FairSpec == Spec /\ Fairness

\* If what is missing arrives in the end, playing never stalls: unless packets
\* were given up or the call starts anew, the stream is played to its last frame
\* and the base catches up, whatever was skipped and rebuilt.
Drains ==
    playing ~> \/ ~playing \/ dropped # {}
               \/ played = Len(Frames) /\ base = Frames[Len(Frames)].last
=============================================================================
