------------------------------ MODULE RembRate ------------------------------
(***************************************************************************)
(* remb/remb_sender.c: the sending rate that follows the rate the receiver *)
(* sees (REMB) and the drift of the round trip time, as operators on the   *)
(* state of the sender.                                                    *)
(*                                                                         *)
(* The ring of the last differences of the round trip time is kept as the  *)
(* code keeps it: it takes away the slot it filled last, so that acc is    *)
(* the last difference and not their sum over the ring.  slope.slope is    *)
(* read by nobody and left out.                                            *)
(***************************************************************************)
EXTENDS RateStat

CONSTANTS
    DelayWnd,       \* DELAY_WND_SIZE = 20
    DriftMs,        \* 50: the difference that counts as a growing queue
    CalmMs,         \* 20: the one up to which the rate may grow
    SlowRttMs,      \* 1500
    CalmLoss,       \* 52: a fifth of the packets, in 255ths
    StepRates       \* <<32000, 400000>>: least and greatest growth

ASSUME RembAssumption ==
    /\ DelayWnd \in Nat \ {0} /\ {DriftMs, CalmMs, SlowRttMs, CalmLoss} \subseteq Nat
    /\ StepRates[1] <= StepRates[2]

LOCAL Less(a, b) == IF a <= b THEN a ELSE b
LOCAL More(a, b) == IF a >= b THEN a ELSE b

\* remb_sender_create; paced is what the pacer works with.
NewRemb == [target |-> 0, max |-> 0, min |-> 0, loss |-> 0, paced |-> 0, rate |-> NewRate,
            frags |-> [i \in 0 .. DelayWnd - 1 |-> 0], index |-> 0, acc |-> 0,
            var_rtt |-> 0, prev_rtt |-> 0]

\* The limits, and sender_remb_on_change_bitrate.
Tell(s, target) ==
    LET within == Less(s.max, More(s.min, target))
    IN  [s EXCEPT !.target = within, !.paced = within]

\* remb_sender_set_bitrates
RembBitrates(s, l) ==
    LET start == Less(More(l.start, l.min), l.max)
    IN  [s EXCEPT !.target = start, !.paced = start, !.max = l.max, !.min = l.min]

\* remb_sender_update_rtt
RembRtt(s, rtt) ==
    LET delta == rtt - s.prev_rtt
        size  == IF delta < 0 THEN -delta ELSE delta
        at    == (s.index + 1) % DelayWnd
        t     == [s EXCEPT !.acc = @ - s.frags[s.index % DelayWnd] + delta,
                           !.index = @ + 1, !.frags[at] = delta,
                           !.var_rtt = (size + @ * 3) \div 4, !.prev_rtt = rtt]
    IN  IF s.prev_rtt = 0 THEN [s EXCEPT !.var_rtt = rtt, !.prev_rtt = rtt]
        ELSE IF t.acc > More(DriftMs, t.var_rtt) THEN Tell(t, (t.target * 7) \div 8)
        ELSE t

\* What a REMB makes of the target before the limits, sent the rate in use.
Followed(s, remb, sent) ==
    LET drifts == s.acc > Less(DriftMs, s.var_rtt)
        target == IF 10000 * remb > 14142 * sent \/ drifts THEN Less(s.target, remb)
                  ELSE IF s.prev_rtt < SlowRttMs THEN More(s.target, remb)
                  ELSE remb
        calm   == s.loss < CalmLoss /\ s.acc <= CalmMs /\ s.prev_rtt < SlowRttMs
    IN  CASE drifts -> (target * 7) \div 8
          [] ~drifts /\ calm /\ target < 2 * remb ->
                target + More(StepRates[1], Less(StepRates[2], target \div 32))
          [] OTHER -> target

\* remb_sender_on_feedback on a message [remb, loss]; 0 remb: none in it.
RembFeedback(s, msg, now) ==
    LET kept == [s EXCEPT !.rate = RateErase(@, now),
                          !.loss = IF msg.loss.known THEN msg.loss.fraction_loss ELSE @]
    IN  IF msg.remb = 0 THEN kept
        ELSE Tell(kept, Followed(kept, msg.remb, RateValue(kept.rate, now)))
=============================================================================
