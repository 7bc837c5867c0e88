---------------------------- MODULE MCAppThreads ----------------------------
(* Instances of the application's threads for TLC. *)
EXTENDS AppThreads
=============================================================================
