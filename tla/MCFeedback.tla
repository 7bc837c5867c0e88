----------------------------- MODULE MCFeedback -----------------------------
(***************************************************************************)
(* An instance of Feedback: 6 numbers before the counter wraps, times in   *)
(* units of a heartbeat, rates in units of ten kbit/s.                     *)
(***************************************************************************)
EXTENDS Feedback

MCLimits == {[min |-> 4, start |-> 40, max |-> 60], [min |-> 10, start |-> 20, max |-> 20]}
MCSteps  == <<3, 6>>
MCPackets == [gcc |-> 7, remb |-> 3]
MCNet     == [gcc |-> 2, remb |-> 1]
MCBack    == [gcc |-> 2, remb |-> 1]
MCFaults  == [gcc |-> 1, remb |-> 3]
=============================================================================
