--------------------------- MODULE SenderHistory ---------------------------
(***************************************************************************)
(* estimator/sender_history.c: the packets sent during the last HistoryMs, *)
(* by unwrapped number, and the bytes of those the other end has not yet   *)
(* reported on.  A report on one packet accounts for all before it.        *)
(***************************************************************************)
EXTENDS Unwrapper, FiniteSets

CONSTANT HistoryMs     \* k_history_cache_ms = 2000

ASSUME HistoryAssumption == HistoryMs \in Nat

FX == INSTANCE FiniteSetsExt

NewHistory == [l |-> << >>, outstanding_bytes |-> 0, last_ack_seq_num |-> 0, last_value |-> 0]

BytesOf(l, keys) == FX!FoldSet(LAMBDA k, n : n + l[k].size, 0, keys)

\* The packets at the front of the map that are too old for the one sent at ts.
TooOld(l, ts) ==
    {k \in DOMAIN l : \A j \in DOMAIN l : j <= k => l[j].ts + HistoryMs < ts}

ForgetKeepsBytes(h, keys) ==
    LET pending == {k \in keys : k > h.last_ack_seq_num}
    IN  [h EXCEPT !.l = [k \in DOMAIN @ \ keys |-> @[k]],
                  !.last_ack_seq_num = IF pending = {} THEN @ ELSE FX!Max(pending)]

\* Those packets go; the ones never reported on are no longer outstanding.
Forget(h, keys) ==
    LET pending == {k \in keys : k > h.last_ack_seq_num}
    IN  [h EXCEPT !.l = [k \in DOMAIN @ \ keys |-> @[k]],
                  !.outstanding_bytes = @ - BytesOf(h.l, pending),
                  !.last_ack_seq_num = IF pending = {} THEN @ ELSE FX!Max(pending)]

\* sender_history_add.  The numbers start at 0, which last_ack_seq_num = 0
\* cannot tell from a report on it: the first packet, and the second if the
\* third is sent before a report, stay outstanding for ever.
HistoryAdd(h, seq, size, ts) ==
    LET kept == Forget(h, TooOld(h.l, ts))
        key  == Unwrap(kept.last_value, seq)
    IN  [kept EXCEPT !.last_value = key,
                     !.l = [k \in DOMAIN @ \union {key} |->
                              IF k = key THEN [size |-> size, ts |-> ts] ELSE @[k]],
                     !.outstanding_bytes = @ + size,
                     !.last_ack_seq_num = IF @ = 0 /\ seq > 0 THEN seq - 1 ELSE @]

HistoryGetKeeps(h, seq, remove) ==
    LET key    == Unwrap(h.last_value, seq)
        passed == {k \in DOMAIN h.l : h.last_ack_seq_num < k /\ k <= key}
    IN  [key |-> key, found |-> key \in DOMAIN h.l,
         h |-> [h EXCEPT !.last_value = key, !.outstanding_bytes = @ - BytesOf(h.l, passed),
                         !.last_ack_seq_num = IF key > @ THEN key ELSE @]]

\* sender_history_get: the number asked for, whether it is still kept, and
\* the history after it.  Asking for it already counts everything up to it.
HistoryGet(h, seq, remove) ==
    LET key    == Unwrap(h.last_value, seq)
        passed == {k \in DOMAIN h.l : h.last_ack_seq_num < k /\ k <= key}
        drop   == IF remove THEN {key} ELSE {}
    IN  [key |-> key,
         found |-> key \in DOMAIN h.l,
         h |-> [h EXCEPT !.last_value = key,
                         !.outstanding_bytes = @ - BytesOf(h.l, passed),
                         !.last_ack_seq_num = IF key > @ THEN key ELSE @,
                         !.l = [k \in DOMAIN @ \ drop |-> @[k]]]]

\* The bytes of the packets after the last one reported on.
OnTheWay(h) == BytesOf(h.l, {k \in DOMAIN h.l : k > h.last_ack_seq_num})
=============================================================================
