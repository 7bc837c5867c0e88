------------------------------ MODULE RateStat ------------------------------
(***************************************************************************)
(* estimator/rate_stat.c: bytes counted in a ring of one bucket per        *)
(* millisecond, and the rate over the whole ring.                          *)
(***************************************************************************)
EXTENDS Integers, FiniteSets

CONSTANTS
    WndSize,        \* wnd_size: 2000 buckets
    Scale           \* scale: 8000, bytes per millisecond to bit/s

ASSUME RateStatAssumption == WndSize \in Nat \ {0, 1} /\ Scale \in Nat \ {0}

LOCAL FS == INSTANCE FiniteSetsExt

NewRate == [buckets |-> [i \in 0 .. WndSize - 1 |-> [sum |-> 0, sample |-> 0]],
            accumulated_count |-> 0, sample_num |-> 0, oldest_index |-> 0, oldest_ts |-> -1]

\* The n buckets from the oldest on, their bytes and their samples.
Front(r, n)     == {(r.oldest_index + i) % WndSize : i \in 0 .. n - 1}
SumOf(r, at)    == FS!FoldSet(LAMBDA i, s : s + r.buckets[i].sum, 0, at)
SampleOf(r, at) == FS!FoldSet(LAMBDA i, s : s + r.buckets[i].sample, 0, at)

\* How many buckets leave when start is to be the oldest time: the walk ends
\* early when no sample is left.
Leaving(r, start) ==
    CHOOSE n \in 0 .. start - r.oldest_ts :
        /\ n = start - r.oldest_ts \/ SampleOf(r, Front(r, n)) = r.sample_num
        /\ \A m \in 0 .. n - 1 : SampleOf(r, Front(r, m)) < r.sample_num

EraseToStart(r, now) ==
    LET start == now - WndSize + 1
    IN  IF r.oldest_ts = -1 \/ start <= r.oldest_ts THEN r ELSE [r EXCEPT !.oldest_ts = start]

\* rate_stat_erase
RateErase(r, now) ==
    LET start == now - WndSize + 1
        n     == Leaving(r, start)
        out   == Front(r, n)
    IN  IF r.oldest_ts = -1 \/ start <= r.oldest_ts THEN r
        ELSE [buckets |-> [i \in DOMAIN r.buckets |->
                              IF i \in out THEN [sum |-> 0, sample |-> 0] ELSE r.buckets[i]],
              accumulated_count |-> r.accumulated_count - SumOf(r, out),
              sample_num |-> r.sample_num - SampleOf(r, out),
              oldest_index |-> (r.oldest_index + n) % WndSize,
              oldest_ts |-> start]

\* rate_stat_update
RateUpdate(r, count, now) ==
    LET kept  == RateErase(r, now)
        start == IF kept.oldest_ts = -1 THEN now ELSE kept.oldest_ts
        index == (kept.oldest_index + now - start) % WndSize
    IN  IF r.oldest_ts > now THEN r
        ELSE [kept EXCEPT !.oldest_ts = start, !.sample_num = @ + 1,
                          !.buckets[index] = [sum |-> @.sum + count, sample |-> @.sample + 1],
                          !.accumulated_count = @ + count]

\* rate_stat_rate on what rate_stat_erase left: none before the ring was once
\* full.
RateValue(r, now) ==
    LET active == now - r.oldest_ts + 1
    IN  IF r.sample_num = 0 \/ active <= 1 \/ active < WndSize THEN -1
        ELSE (2 * r.accumulated_count * Scale + WndSize) \div (2 * WndSize)
=============================================================================
