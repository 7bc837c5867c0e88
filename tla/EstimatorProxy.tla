--------------------------- MODULE EstimatorProxy ---------------------------
(***************************************************************************)
(* estimator/remote_estimator_proxy.c: the receiver's notes on what        *)
(* arrived and when, told to the sender in messages of several packets     *)
(* (estimator/estimator_common.c).                                         *)
(***************************************************************************)
EXTENDS Unwrapper, Skiplist, Sequences

CONSTANTS
    ReportEvery,    \* DEFAULT_PROXY_INTERVAL_TIME = 20; nothing ever changes it
    BackMs,         \* BACK_WINDOWS_MS = 500
    MaxIds,         \* MAX_IDS_NUM = 100
    MaxSamples,     \* MAX_FEELBACK_COUNT = 128
    AtOnce,         \* 30: so many numbers are reported without waiting
    TsSpace         \* 65536: a sample's time is 16 bits on top of the least one

ASSUME ProxyAssumption ==
    /\ {ReportEvery, BackMs, MaxIds, AtOnce} \subseteq Nat /\ TsSpace \in Nat \ {0}
    /\ MaxSamples \in Nat /\ MaxSamples > 2

LOCAL SX == INSTANCE SequencesExt

NewProxy == [hb_ts |-> -1, wnd_start_seq |-> -1, max_arrival_seq |-> -1,
             arrival_times |-> EmptyList, last_value |-> 0]

IncomingForward(p, seq, ts) ==
    LET sequence == Unwrap(p.last_value, seq)
    IN  [p EXCEPT !.last_value = sequence,
                  !.arrival_times = SkipInsert(@, sequence, ts),
                  !.wnd_start_seq = IF @ = -1 THEN seq ELSE @,
                  !.max_arrival_seq = IF sequence > @ THEN sequence ELSE @]

\* estimator_proxy_incoming.  Once all is reported, old notes from before the
\* packet go; a packet from before the start is reported with all after it.
ProxyIncoming(p, seq, ts) ==
    LET sequence == Unwrap(p.last_value, seq)
        old == {k \in DOMAIN p.arrival_times :
                   k < sequence /\ ts >= p.arrival_times[k] + BackMs}
        gone == IF p.max_arrival_seq <= p.wnd_start_seq THEN Earliest(old, MaxIds) ELSE {}
    IN  IF sequence > p.wnd_start_seq + Half - 1
        THEN [p EXCEPT !.last_value = sequence]
        ELSE [p EXCEPT !.last_value = sequence,
                       !.arrival_times = SkipInsert(SkipRemove(@, gone), sequence, ts),
                       !.wnd_start_seq = IF @ = -1 THEN seq
                                         ELSE IF sequence < @ THEN sequence ELSE @,
                       !.max_arrival_seq = IF sequence > @ THEN sequence ELSE @]

\* What proxy_bulid_feelback_packet puts into a message; three at least.
Unreported(p) ==
    Earliest({k \in DOMAIN p.arrival_times : k >= p.wnd_start_seq}, MaxSamples)

MayBuild(p) ==
    /\ ~(p.max_arrival_seq <= p.wnd_start_seq /\ Cardinality(DOMAIN p.arrival_times) > 2)
    /\ Cardinality(Unreported(p)) > 2

\* The samples in their order, as feedback_msg_decode gives them to the sender.
SamplesOf(p) ==
    LET times  == p.arrival_times
        min_ts == CHOOSE t \in {times[k] : k \in Unreported(p)} :
                      \A k \in Unreported(p) : t <= times[k]
        sample(k) == [seq |-> k % SeqSpace, ts |-> min_ts + ((times[k] - min_ts) % TsSpace)]
        keys   == SX!SetToSortSeq(Unreported(p), <)
    IN  [i \in DOMAIN keys |-> sample(keys[i])]

\* The start moves behind the last number told.
AfterBuild(p) ==
    [p EXCEPT !.wnd_start_seq = 1 + CHOOSE k \in Unreported(p) : \A j \in Unreported(p) : j <= k]

\* estimator_proxy_heartbeat: whether it is time, and the proxy after it.
ProxyDue(p, ts) ==
    ts >= p.hb_ts + ReportEvery \/ p.wnd_start_seq + AtOnce <= p.max_arrival_seq

ProxyHeartbeat(p, ts) ==
    IF ~ProxyDue(p, ts) THEN [p |-> p, samples |-> << >>]
    ELSE LET q == [p EXCEPT !.hb_ts = ts]
         IN  IF MayBuild(q) THEN [p |-> AfterBuild(q), samples |-> SamplesOf(q)]
                            ELSE [p |-> q, samples |-> << >>]
=============================================================================
