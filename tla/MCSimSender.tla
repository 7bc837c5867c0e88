---------------------------- MODULE MCSimSender ----------------------------
(* Instances of the video sender for TLC. *)
EXTENDS SimSender
=============================================================================
