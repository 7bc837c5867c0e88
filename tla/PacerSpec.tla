----------------------------- MODULE PacerSpec -----------------------------
(***************************************************************************)
(* What the pacer promises its users, whatever its queue looks like: a     *)
(* packet handed over waits in a set, and the packets leave it one at a    *)
(* time, the smallest send id first ("take the packet of the smallest seq  *)
(* in the queue, send in order", pacer_queue.h:42).  Every hand-over gives *)
(* one transmission and no packet is lost.                                 *)
(***************************************************************************)
EXTENDS Integers

CONSTANT Seqs       \* send ids the transport hands to the pacer

VARIABLES waiting,  \* the ids handed over and not transmitted yet
          last      \* the id transmitted last, -1 before the first

specVars == <<waiting, last>>

SpecInit == waiting = {} /\ last = -1

\* The transport hands over a packet; one that waits already is not doubled.
Submit(s) == waiting' = waiting \union {s} /\ UNCHANGED last

\* The smallest waiting id goes to the network.
Transmit ==
    \E s \in waiting :
        /\ \A t \in waiting : s <= t
        /\ waiting' = waiting \ {s}
        /\ last' = s

SpecNext == Transmit \/ \E s \in Seqs : Submit(s)

PacerPromise == SpecInit /\ [][SpecNext]_specVars
=============================================================================
