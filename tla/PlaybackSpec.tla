---------------------------- MODULE PlaybackSpec ----------------------------
(***************************************************************************)
(* What the receiver promises the player: a frame is handed over whole,    *)
(* never twice and never backwards, and, whatever was skipped before it,   *)
(* it can be decoded: it follows the frame shown last or is a key frame.   *)
(* Only a new start of the call (a CONNECT) begins again.                  *)
(***************************************************************************)
EXTENDS Integers

CONSTANTS
    Fids,           \* frame ids
    PacketsOf(_),   \* the packets of a frame
    IsKey(_)        \* the frame can be decoded by itself

VARIABLES
    received,       \* packets taken in since the start
    played          \* the frame shown last, 0 before the first

playbackVars == <<received, played>>

PlaybackInit == received = {} /\ played = 0

Arrive == \E ps \in SUBSET UNION {PacketsOf(f) : f \in Fids} :
              received' = received \union ps /\ UNCHANGED played

Play ==
    \E f \in Fids :
        /\ f > played
        /\ IsKey(f) \/ f = played + 1
        /\ PacketsOf(f) \subseteq received
        /\ played' = f
        /\ UNCHANGED received

Restart == received' = {} /\ played' = 0

PlaybackPromise == PlaybackInit /\ [][Arrive \/ Play \/ Restart]_playbackVars
=============================================================================
