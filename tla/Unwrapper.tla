----------------------------- MODULE Unwrapper -----------------------------
(***************************************************************************)
(* common/cf_unwrapper.c: a counter that wraps at SeqSpace is followed     *)
(* through its wraps, by the distance to the value seen last.              *)
(***************************************************************************)
EXTENDS Integers

CONSTANT SeqSpace      \* values of the wrapped counter: 65536 for 16 bits

ASSUME SeqSpaceAssumption == SeqSpace \in Nat \ {0, 1} /\ SeqSpace % 2 = 0

Half == SeqSpace \div 2

\* IS_NEWER: at most half the space ahead of prev; at exactly half, the
\* larger number counts as the newer one.
IsNewer(val, prev) ==
    IF val - prev = Half THEN TRUE
    ELSE val # prev /\ (val - prev) % SeqSpace < Half

UnwrapForwardOnly(last, val) ==
    LET delta == val - (last % SeqSpace)
    IN  last + IF delta < 0 THEN delta + SeqSpace ELSE delta

\* wrap16_update: the unwrapped value, which also becomes the new last.
Unwrap(last, val) ==
    LET delta == val - (last % SeqSpace)
    IN  last + IF IsNewer(val, last % SeqSpace)
               THEN IF delta < 0 THEN delta + SeqSpace ELSE delta
               ELSE IF delta > 0 /\ last + delta - SeqSpace >= 0 THEN delta - SeqSpace ELSE delta
=============================================================================
