------------------------------- MODULE MCBbr -------------------------------
(* An instance of BBR for TLC. *)
EXTENDS Bbr

MCLimits == {[min |-> 8, start |-> 16, max |-> 80], [min |-> 40, start |-> 40, max |-> 48]}

\* Three packets or messages under way at the start, two later.
FewUnderWay ==
    now > 1 => Cardinality(data) + Cardinality(DOMAIN cache) + Len(acks) <= 2
=============================================================================
