------------------------------ MODULE LossStat ------------------------------
(***************************************************************************)
(* estimator/cc_loss_stat.c: the packets that arrived of late, by their    *)
(* unwrapped number, and the share missing between the first and the last. *)
(***************************************************************************)
EXTENDS Unwrapper, Skiplist

CONSTANTS
    LossMs,         \* k_loss_statistics_window_ms = 4000
    LossPackets,    \* k_max_statistics_window_number = 200
    LossAtLeast     \* 100: no share is told of fewer packets

ASSUME LossStatAssumption == LossMs \in Nat /\ LossAtLeast \in 1 .. LossPackets

NewLossStat == [max_id |-> -1, list |-> EmptyList, last_value |-> 0]

\* loss_evict_oldest: from the front, while there are too many or the first
\* one is too old.
LossEvict(l, ts) ==
    LET first(k) == {j \in DOMAIN l : j <= k}
        from(k)  == {j \in DOMAIN l : j >= k}
    IN  SkipRemove(l, {k \in DOMAIN l :
            \A j \in first(k) : Cardinality(from(j)) > LossPackets \/ l[j] + LossMs < ts})

\* loss_statistics_incoming
LossIncoming(s, seq, ts) ==
    LET id == Unwrap(s.last_value, seq)
    IN  [max_id     |-> IF s.max_id < id THEN id ELSE s.max_id,
         last_value |-> id,
         list       |-> LossEvict(SkipInsert(s.list, id, ts), ts)]

\* loss_statistics_calculate, with the statistics after it.
LossCalculate(s, ts) ==
    LET kept     == LossEvict(s.list, ts)
        count    == Cardinality(DOMAIN kept)
        distance == s.max_id - SkipFirst(kept) + 1
        known    == count >= LossAtLeast
    IN  [s     |-> [s EXCEPT !.list = kept],
         known |-> known,
         num   |-> IF known THEN distance ELSE 0,
         fraction_loss |->
             IF known /\ distance > count THEN ((distance - count) * 255) \div distance ELSE 0]
=============================================================================
