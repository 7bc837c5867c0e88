--------------------------- MODULE WindowedFilter ---------------------------
(***************************************************************************)
(* bbr/windowed_filter.c: the largest of the samples of a sliding window,  *)
(* kept as three estimates, best first, each no older than the one before  *)
(* it.  The clock of the window is whatever the caller counts, here the    *)
(* round trips of the connection.                                          *)
(***************************************************************************)
EXTENDS Integers, Sequences

CONSTANT FilterWindow      \* wnd_size: kBandwidthWindowSize = 10 round trips

ASSUME FilterWindowAssumption == FilterWindow \in Nat \ {0}

Estimate(v, t) == [sample |-> v, ts |-> t]

\* wnd_filter_reset: one sample stands for all three.
FilterReset(v, t) == <<Estimate(v, t), Estimate(v, t), Estimate(v, t)>>

FilterBest(f) == f[1].sample

PlacedThird(f, s) == IF s.sample >= f[3].sample THEN <<f[1], f[2], s>> ELSE f

\* The new sample pushes out the second and the third best it is not below.
Placed(f, s) ==
    IF s.sample >= f[2].sample THEN <<f[1], s, s>>
    ELSE IF s.sample >= f[3].sample THEN <<f[1], f[2], s>>
    ELSE f

Outdated(e, t) == t - e.ts > FilterWindow

\* The best has left the window: the others move up, twice if needed.
Promoted(f, s) ==
    LET up == <<f[2], f[3], s>>
    IN  IF Outdated(up[1], s.ts) THEN <<up[2], up[3], up[3]>> ELSE up

\* A best that repeats itself is renewed at the places behind it, so that
\* they will not leave the window together with it.
Renewed(f, s) ==
    LET second == IF f[1].sample = f[2].sample /\ s.ts - f[2].ts > FilterWindow \div 4
                  THEN <<f[1], s, s>> ELSE f
    IN  IF second[2].sample = second[3].sample /\ s.ts - second[3].ts > FilterWindow \div 2
        THEN <<second[1], second[2], s>> ELSE second

\* wnd_filter_update with max_val_func.
FilterUpdate(f, v, t) ==
    LET s == Estimate(v, t)
    IN  IF f[1].sample = 0 \/ v >= f[1].sample \/ Outdated(f[3], t)
        THEN FilterReset(v, t)
        ELSE IF Outdated(Placed(f, s)[1], t)
             THEN Promoted(Placed(f, s), s)
             ELSE Renewed(Placed(f, s), s)

\* Best first, and the further back an estimate stands the newer it is.
FilterOrdered(f) ==
    /\ f[1].sample >= f[2].sample /\ f[2].sample >= f[3].sample
    /\ f[1].ts <= f[2].ts /\ f[2].ts <= f[3].ts
=============================================================================
