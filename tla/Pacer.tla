------------------------------- MODULE Pacer -------------------------------
(***************************************************************************)
(* The send pacer: pacing/pacer_queue.c (the queue), pacing/pace_sender.c  *)
(* (rate and transmit loop) and pacing/interval_budget.c (byte budget).    *)
(*                                                                         *)
(* The queue keeps every packet twice: in a map ordered by send id (cache, *)
(* a skip list that owns the memory) and in a list in order of arrival (l, *)
(* pointers into the cache).  A transmitted packet is only marked sent; it *)
(* leaves both when it gets to the head of the list.  A packet marked sent *)
(* but still kept can be handed over again, for a retransmission.          *)
(*                                                                         *)
(* All entry points run under the session mutex, so the transmit loop is   *)
(* modelled with one action per iteration while the others wait.           *)
(***************************************************************************)
EXTENDS Integers, Sequences, FiniteSets, Functions

CONSTANTS
    Seqs,             \* send ids
    SizeOf,           \* bytes of each packet, header included
    MaxSize,          \* the largest packet
    MinPacketLimitMs, \* k_min_packet_limit_ms = 5
    MaxIntervalMs,    \* k_max_interval_ms = 50
    WindowMs,         \* k_window_ms = 500
    MaxQueMs,         \* que->max_que_ms
    OverdueMs,        \* the literal 500 of pacer_queue_target_bitrate_kbps
    MinRateKbps,      \* min_sender_bitrate_kpbs = 400
    PaceFactor,       \* k_default_pace_factor = 3
    Estimates,        \* bandwidth estimates, in kbit/s
    MaxTime           \* bound of the clock, for TLC

ASSUME SizesAssumption ==
    /\ Seqs \subseteq Nat
    /\ MaxSize \in Nat \ {0}
    /\ SizeOf \in [Seqs -> 1 .. MaxSize]

ASSUME RatesAssumption ==
    /\ WindowMs \in Nat \ {0}
    /\ MinRateKbps \in Nat \ {0}
    /\ PaceFactor \in Nat \ {0}
    /\ Estimates \subseteq Nat
    /\ MinPacketLimitMs \in Nat \ {0}
    /\ MaxIntervalMs \in Nat \ {0}
    /\ MaxQueMs \in Nat \ {0, 1}
    /\ OverdueMs \in Nat \ {0}
    /\ MaxTime \in Nat

\* The budget of one window at the lowest rate holds the largest packet:
\* 500 ms * 1200 kbit/s = 75000 bytes against packets of at most 1100.
ASSUME WindowHoldsPacket == WindowMs * (MinRateKbps * PaceFactor) >= 8 * MaxSize

VARIABLES
    cache,            \* id -> [que_ts, sent], the skip list
    list,             \* ids in order of arrival, the list l
    total_size,       \* bytes accounted as waiting
    oldest_ts,        \* arrival of the oldest packet, -1 when empty
    pacing_kbps,      \* pacing_bitrate_kpbs
    max_bytes,        \* media_budget.max_bytes_in_budget
    remaining,        \* media_budget.bytes_remaining
    last_update_ts,
    phase,            \* "idle", or "sending" inside the loop of pace_try_transmit
    last,             \* id of the latest send_cb
    now,              \* GET_SYS_MS
    lead              \* history: see Refill

queueVars  == <<cache, list, total_size, oldest_ts>>
budgetVars == <<max_bytes, remaining>>
vars == <<cache, list, total_size, oldest_ts, pacing_kbps, max_bytes, remaining,
          last_update_ts, phase, last, now, lead>>

MinOf(a, b) == IF a <= b THEN a ELSE b
MaxOf(a, b) == IF a >= b THEN a ELSE b

Unsent(c) == {s \in DOMAIN c : ~c[s].sent}

TypeOK ==
    /\ DOMAIN cache \subseteq Seqs
    /\ cache \in [DOMAIN cache -> [que_ts : Nat, sent : BOOLEAN]]
    /\ list \in Seq(Seqs)
    /\ total_size \in Nat
    /\ oldest_ts \in Nat \union {-1}
    /\ pacing_kbps \in Nat
    /\ max_bytes \in Nat
    /\ remaining \in Int
    /\ last_update_ts \in Nat
    /\ phase \in {"idle", "sending"}
    /\ last \in Seqs \union {-1}
    /\ now \in Nat
    /\ lead \in Int

\* pace_create, followed at once by pace_set_bitrate_limits (its creator calls
\* it before any packet): no estimate yet, the floor rate, an empty budget.
Init ==
    /\ cache = << >>
    /\ list = << >>
    /\ total_size = 0
    /\ oldest_ts = -1
    /\ pacing_kbps = MinRateKbps * PaceFactor
    /\ max_bytes = 0
    /\ remaining = 0
    /\ last_update_ts = 0
    /\ phase = "idle"
    /\ last = -1
    /\ now = 0
    /\ lead = 0

-----------------------------------------------------------------------------
(* The queue *)

PushForgetsBytes(s) ==
    /\ \/ /\ s \notin DOMAIN cache
          /\ cache' = [t \in DOMAIN cache \union {s} |->
                          IF t = s THEN [que_ts |-> now, sent |-> FALSE] ELSE cache[t]]
          /\ list' = Append(list, s)
          /\ total_size' = total_size + SizeOf[s]
       \/ /\ s \in DOMAIN cache
          /\ cache' = [cache EXCEPT ![s].sent = FALSE]
          /\ UNCHANGED <<list, total_size>>
    /\ oldest_ts' = IF oldest_ts = -1 \/ oldest_ts > now THEN now ELSE oldest_ts

\* pacer_queue_push: a new packet joins map and list; one kept but sent
\* already is marked unsent again and counted again; one that waits stays.
Push(s) ==
    /\ \/ /\ s \notin DOMAIN cache
          /\ cache' = [t \in DOMAIN cache \union {s} |->
                          IF t = s THEN [que_ts |-> now, sent |-> FALSE] ELSE cache[t]]
          /\ list' = Append(list, s)
          /\ total_size' = total_size + SizeOf[s]
       \/ /\ s \in DOMAIN cache
          /\ cache[s].sent
          /\ cache' = [cache EXCEPT ![s].sent = FALSE]
          /\ total_size' = total_size + SizeOf[s]
          /\ UNCHANGED list
       \/ /\ s \in DOMAIN cache
          /\ ~cache[s].sent
          /\ UNCHANGED <<cache, list, total_size>>
    /\ oldest_ts' = IF oldest_ts = -1 \/ oldest_ts > now THEN now ELSE oldest_ts

FrontInArrivalOrder(c) == list[1]

\* pacer_queue_front: the first unsent packet in id order; were all of them
\* sent, the walk would end on the last packet.
Front(c) ==
    IF Unsent(c) # {}
    THEN CHOOSE s \in Unsent(c) : \A t \in Unsent(c) : s <= t
    ELSE CHOOSE s \in DOMAIN c : \A t \in DOMAIN c : s >= t

\* How many packets pacer_queue_final pops: the sent ones at the head.
SentPrefix(c, l) ==
    IF \A i \in 1 .. Len(l) : c[l[i]].sent
    THEN Len(l)
    ELSE (CHOOSE i \in 1 .. Len(l) :
             /\ ~c[l[i]].sent
             /\ \A j \in 1 .. (i - 1) : c[l[j]].sent) - 1

FinalPopsOne(c, t) ==
    LET n    == IF list # << >> /\ c[list[1]].sent THEN 1 ELSE 0
        kept == SubSeq(list, n + 1, Len(list))
        gone == {list[i] : i \in 1 .. n}
    IN  /\ list' = kept
        /\ cache' = [s \in DOMAIN c \ gone |-> c[s]]
        /\ total_size' = IF kept = << >> THEN 0 ELSE t
        /\ oldest_ts' = IF kept = << >> THEN -1 ELSE c[kept[1]].que_ts

\* pacer_queue_final on the map c and the byte count t: pop the sent head of
\* the list and free it; an empty list resets the queue, otherwise its head
\* gives the oldest time.
Final(c, t) ==
    LET n    == SentPrefix(c, list)
        kept == SubSeq(list, n + 1, Len(list))
        gone == {list[i] : i \in 1 .. n}
    IN  /\ list' = kept
        /\ cache' = IF kept = << >> THEN << >> ELSE [s \in DOMAIN c \ gone |-> c[s]]
        /\ total_size' = IF kept = << >> THEN 0 ELSE t
        /\ oldest_ts' = IF kept = << >> THEN -1 ELSE c[kept[1]].que_ts

\* pacer_queue_sent: mark, uncount (never below zero), clean up.
Sent(s) ==
    Final([cache EXCEPT ![s].sent = TRUE],
          IF total_size >= SizeOf[s] THEN total_size - SizeOf[s] ELSE 0)

\* pacer_queue_target_bitrate_kbps: the rate that empties the queue before
\* its oldest packet has waited max_que_ms.
QueueTarget ==
    LET waited == now - oldest_ts
        space  == IF oldest_ts # -1 /\ now > oldest_ts
                  THEN IF waited >= MaxQueMs THEN OverdueMs ELSE MaxQueMs - waited
                  ELSE MaxQueMs - 1
    IN  IF cache # << >> /\ total_size > 0 THEN (total_size * 8) \div space ELSE 0

-----------------------------------------------------------------------------
(* The pacer *)

\* pace_insert_packet
Insert(s) ==
    /\ phase = "idle"
    /\ Push(s)
    /\ UNCHANGED <<pacing_kbps, max_bytes, remaining, last_update_ts, phase, last, now, lead>>

\* pace_set_estimate_bitrate: never below the floor set by
\* pace_set_bitrate_limits, which ignores its argument.
SetEstimate(e) ==
    /\ phase = "idle"
    /\ pacing_kbps' = MaxOf(e, MinRateKbps) * PaceFactor
    /\ UNCHANGED <<queueVars, max_bytes, remaining, last_update_ts, phase, last, now, lead>>

RefillHoards(rate, elapsed) ==
    LET max   == (WindowMs * rate) \div 8
        bytes == (rate * elapsed) \div 8
        carry == MinOf(MaxOf(-max, remaining), max)
    IN  /\ max_bytes' = max
        /\ remaining' = MinOf(carry + bytes, max)
        /\ lead' = lead - bytes

\* The history lead: of all stretches of time that began between two runs of
\* the loop and last until now, the most bytes that any of them transmitted
\* beyond what the rate granted in it.  A grant lowers it, a packet raises it,
\* and when a run of the loop ends a new stretch may begin, with a lead of 0.

\* set_target_rate_kbps then increase_budget, with can_build_up_underuse # 0:
\* a debt is carried over, an unused rest is not.
Refill(rate, elapsed) ==
    LET max   == (WindowMs * rate) \div 8
        bytes == (rate * elapsed) \div 8
        carry == MinOf(MaxOf(-max, remaining), max)
    IN  /\ max_bytes' = max
        /\ remaining' = MinOf(IF carry < 0 THEN carry + bytes ELSE bytes, max)
        /\ lead' = lead - bytes

\* pace_try_transmit up to its loop; before the minimal interval it returns.
TransmitBegin ==
    /\ phase = "idle"
    /\ now - last_update_ts >= MinPacketLimitMs
    /\ phase' = "sending"
    /\ Refill(MaxOf(pacing_kbps, IF total_size > 0 THEN QueueTarget ELSE 0),
              MinOf(now - last_update_ts, MaxIntervalMs))
    /\ UNCHANGED <<queueVars, pacing_kbps, last_update_ts, last, now>>

\* use_budget
UseBudget(size) == remaining' = MaxOf(-max_bytes, remaining - size)

\* One iteration of the loop: pacer_queue_front, pace_send, pacer_queue_sent.
TransmitPacket ==
    /\ phase = "sending"
    /\ DOMAIN cache # {}
    /\ remaining > 0
    /\ LET s == Front(cache)
       IN  /\ last' = s
           /\ lead' = lead + SizeOf[s]
           /\ UseBudget(SizeOf[s])
           /\ Sent(s)
    /\ UNCHANGED <<pacing_kbps, max_bytes, last_update_ts, phase, now>>

\* The loop ends: the queue is empty or pace_send found no budget.
TransmitEnd ==
    /\ phase = "sending"
    /\ DOMAIN cache = {} \/ remaining <= 0
    /\ phase' = "idle"
    /\ last_update_ts' = now
    /\ lead' = MaxOf(0, lead)
    /\ UNCHANGED <<queueVars, pacing_kbps, budgetVars, last, now>>

Tick ==
    /\ phase = "idle"
    /\ now < MaxTime
    /\ now' = now + 1
    /\ UNCHANGED <<queueVars, pacing_kbps, budgetVars, last_update_ts, phase, last, lead>>

Next ==
    \/ \E s \in Seqs : Insert(s)
    \/ \E e \in Estimates : SetEstimate(e)
    \/ TransmitBegin
    \/ TransmitPacket
    \/ TransmitEnd
    \/ Tick

Spec == Init /\ [][Next]_vars

-----------------------------------------------------------------------------
(* Properties *)

\* The list never holds a pointer to a freed packet, nor a packet twice, and
\* no packet stays in the map that the list would never free: both hold the
\* same ids (pacer_queue.c:107-116 frees a packet when the list pops it).
ListMatchesCache ==
    /\ \A i \in 1 .. Len(list) : list[i] \in DOMAIN cache
    /\ \A s \in DOMAIN cache : \E i \in 1 .. Len(list) : list[i] = s
    /\ \A i, j \in 1 .. Len(list) : list[i] = list[j] => i = j

\* Whenever a packet is kept, the oldest one is unsent: so a nonempty queue
\* has a packet to transmit and pacer_queue_front never answers with a packet
\* that was transmitted already (pacer_queue.c:89-98).
HeadUnsent == list # << >> => ~cache[list[1]].sent

\* The oldest time is the arrival of the list's head, which no kept packet
\* precedes: what pace_queue_ms and the target rate are computed from.
OldestIsFirstArrival ==
    /\ list = << >> => oldest_ts = -1
    /\ list # << >> => oldest_ts = cache[list[1]].que_ts
    /\ \A s \in DOMAIN cache : oldest_ts <= cache[s].que_ts /\ cache[s].que_ts <= now

\* Packets were pushed in order of time.
ArrivalOrder ==
    /\ \A i, j \in 1 .. Len(list) : i <= j => cache[list[i]].que_ts <= cache[list[j]].que_ts
    /\ \A s \in DOMAIN cache : cache[s].que_ts <= now

\* The queue's books agree in every state, whatever is added, paced and dropped
\* (pacer_queue.c:52-127): the invariant the proofs rest on.
QueueInv ==
    /\ TypeOK
    /\ ListMatchesCache
    /\ HeadUnsent
    /\ ArrivalOrder
    /\ list = << >> => oldest_ts = -1
    /\ list # << >> => oldest_ts = cache[list[1]].que_ts

\* The byte count is exactly the bytes of the packets that wait, through
\* every retransmission: a drift would starve or overdrive the target rate.
BytesExact == total_size = SumFunctionOnSet(SizeOf, Unsent(cache))

\* However rates change, however long the queue was empty before and whenever
\* packets are handed over: over any stretch of time that begins between two
\* runs of the loop, less than one packet goes out beyond what the rate granted
\* in that stretch.  Budget left unused is not saved up for a burst, and a debt
\* is paid back (interval_budget.c:20-47, pace_sender.c:104).
RateBound == lead < MaxSize

\* The queue with its lazy removal implements the plain set of waiting ids.
Promise == INSTANCE PacerSpec WITH waiting <- Unsent(cache)
ImplementsPromise == Promise!PacerPromise
=============================================================================
