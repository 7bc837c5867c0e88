--------------------------- MODULE MCSimReceiver ---------------------------
(* Instances of the video receiver for TLC. *)
EXTENDS SimReceiver

Frame(first, last, key, ts) == [first |-> first, last |-> last, key |-> key, ts |-> ts]

\* Two groups of pictures, then a pause.
Stream == << Frame(1, 2, TRUE, 0), Frame(3, 3, FALSE, 1), Frame(4, 4, TRUE, 2),
             Frame(5, 5, FALSE, 5) >>
=============================================================================
