----------------------------- MODULE AppThreads -----------------------------
(***************************************************************************)
(* The application around a session: core/EchoManager.cpp, BaseThread.cpp, *)
(* VideoReadThread.cpp and VideoPlayThread.cpp over sim_external.c.        *)
(*                                                                         *)
(* Four threads.  The main thread calls connect, disconnect and finish.    *)
(* The session thread runs the handlers and timers of SimSession with      *)
(* s->mutex held, the notifications to the application among them.  The    *)
(* two workers send and play frames and take the mutex for each.  A        *)
(* handler is one step, except where it waits: BaseThread::stop polls a    *)
(* flag for up to two seconds, under the mutex when a notification calls   *)
(* it.  What the network does is a choice of the session's next event.     *)
(*                                                                         *)
(* Readers and players are numbered as they are created; 0 is NULL.        *)
(***************************************************************************)
EXTENDS Integers, FiniteSets

CONSTANTS
    MaxReaders,  \* bound: calls of this application that get connected
    MaxPlayers,  \* bound: calls it receives
    MaxThreads   \* bound: threads one worker object creates

ASSUME AppAssumption == {MaxReaders, MaxPlayers, MaxThreads} \subseteq Nat

Workers == {"read", "play"}

VARIABLES
    session,  \* s->state, and whether it has a sender and a receiver
    handler,  \* what the session thread does: "loop", or what it was handling
              \* when OnStopPlay called stop()
    main,     \* where the main thread is in a call
    state_,   \* EchoManager::state_
    flags,    \* m_connected, m_reading, m_playing
    object,   \* m_viReader and m_viPlayer, by worker
    made,     \* how many readers and players were created
    deleted,  \* and which were deleted
    target,   \* _reader of the read thread, _player of the play thread
    run_flag, \* m_run_flag of each worker
    pc,       \* worker -> thread -> where it is in run()
    overlap   \* history: workers started while they had a thread, or while stop()
              \* waited for one

vars == <<session, handler, main, state_, flags, object, made, deleted, target, run_flag,
          pc, overlap>>

app     == <<state_, flags, object, made, deleted>>
workers == <<target, run_flag, pc, overlap>>

NoCall == [state |-> "idle", sender |-> FALSE, receiver |-> FALSE]

Alive(w) == {t \in 1 .. MaxThreads : pc[w][t] \in {"check", "lock", "use"}}

TypeOK ==
    /\ session \in [state : {"idle", "connecting", "connected", "disconnected"},
                    sender : BOOLEAN, receiver : BOOLEAN]
    /\ handler \in {"loop", "disconnect", "connect_notify", "disconnect_notify", "timeout"}
    /\ main \in {"idle", "connecting", "stopping", "leaving", "hanging", "waiting", "polling"}
    /\ state_ \in {"inited", "connecting", "connected", "disconnect"}
    /\ flags \in [connected : BOOLEAN, reading : BOOLEAN, playing : BOOLEAN]
    /\ made \in [Workers -> Nat]
    /\ object \in [Workers -> Nat] /\ target \in [Workers -> Nat]
    /\ deleted \in [Workers -> SUBSET Nat]
    /\ \A w \in Workers :
           /\ {object[w], target[w]} \subseteq 0 .. made[w]
           /\ deleted[w] \subseteq 1 .. made[w]
    /\ run_flag \in [Workers -> BOOLEAN]
    /\ pc \in [Workers -> [1 .. MaxThreads -> {"none", "check", "lock", "use", "ended"}]]
    /\ overlap \subseteq Workers

\* After EchoManager::init
Init ==
    /\ session = NoCall
    /\ handler = "loop" /\ main = "idle" /\ state_ = "inited"
    /\ flags = [connected |-> FALSE, reading |-> FALSE, playing |-> FALSE]
    /\ object = [w \in Workers |-> 0] /\ made = [w \in Workers |-> 0]
    /\ deleted = [w \in Workers |-> {}] /\ target = [w \in Workers |-> 0]
    /\ run_flag = [w \in Workers |-> FALSE]
    /\ pc = [w \in Workers |-> [t \in 1 .. MaxThreads |-> "none"]]
    /\ overlap = {}

\* s->mutex is free: no notification waits in it.
MutexFree == handler = "loop"

-----------------------------------------------------------------------------
(* BaseThread *)

\* A new reader or player n for worker w, and BaseThread::start: with the flag
\* up, start takes the thread for running and creates none.
StartWorker(w, n) ==
    LET stopping == IF w = "read" THEN main = "stopping" ELSE handler # "loop"
    IN
    /\ target' = [target EXCEPT ![w] = n]
    /\ IF run_flag[w]
       THEN UNCHANGED <<run_flag, pc, overlap>>
       ELSE \E t \in 1 .. MaxThreads :
                /\ pc[w][t] = "none" /\ \A u \in 1 .. t - 1 : pc[w][u] # "none"
                /\ run_flag' = [run_flag EXCEPT ![w] = TRUE]
                /\ pc' = [pc EXCEPT ![w][t] = "check"]
                /\ overlap' = overlap \union (IF Alive(w) = {} /\ ~stopping THEN {} ELSE {w})

\* stop() ends when a thread answered by raising the flag, or after two
\* seconds.  Every loop of a worker takes less than that, so that time runs
\* out only on a thread that waits for the mutex, or on none at all.
TimedOut(w) == \A t \in Alive(w) : pc[w][t] = "lock" /\ ~MutexFree

StopEndsAtOnce(w) == TRUE

StopEndsOnAnswer(w) == run_flag[w]

StopEnds(w) == run_flag[w] \/ TimedOut(w)

-----------------------------------------------------------------------------
(* Notifications *)

\* OnConnectSucc
OnConnectSucc ==
    LET n == made["read"] + 1
    IN  /\ n <= MaxReaders
        /\ made' = [made EXCEPT !["read"] = n]
        /\ object' = [object EXCEPT !["read"] = n]
        /\ StartWorker("read", n)
        /\ flags' = [flags EXCEPT !.connected = TRUE, !.reading = TRUE]

\* OnStartPlay: a player that was there is forgotten, not closed.
OnStartPlay ==
    LET n == made["play"] + 1
    IN  /\ n <= MaxPlayers
        /\ made' = [made EXCEPT !["play"] = n]
        /\ object' = [object EXCEPT !["play"] = n]
        /\ StartWorker("play", n)
        /\ flags' = [flags EXCEPT !.playing = TRUE]

\* on_notify for what ends a call, or fails to begin it.
OnEnd(type) ==
    state_' = IF type = "connect_notify" \/ (type = "timeout" /\ state_ # "inited")
                 \/ (type = "disconnect_notify" /\ state_ = "disconnect")
              THEN "inited" ELSE state_

ResetKeepsState(type) == UNCHANGED session

\* sim_session_reset, then the notification (none for a DISCONNECT of the
\* peer, which ends its own call only).
Reset(type) ==
    session' = IF type = "disconnect" THEN [session EXCEPT !.receiver = FALSE]
               ELSE NoCall

EndOfCall(type) == Reset(type) /\ OnEnd(type)

-----------------------------------------------------------------------------
(* The session thread *)

\* process_sim_connect creates a receiver.
PeerConnects ==
    /\ MutexFree
    /\ ~session.receiver
    /\ session' = [session EXCEPT !.receiver = TRUE]
    /\ OnStartPlay
    /\ UNCHANGED <<handler, main, state_, deleted>>

\* process_sim_connect_ack
Answered ==
    /\ MutexFree
    /\ session.state = "connecting"
    /\ session' = [session EXCEPT !.state = "connected", !.sender = TRUE]
    /\ state_' = IF state_ = "connecting" THEN "connected" ELSE state_
    /\ OnConnectSucc
    /\ UNCHANGED <<handler, main, deleted>>

\* process_sim_disconnect_ack: with a receiver too, which no one is told of.
HungUp ==
    /\ MutexFree
    /\ session.state = "disconnected"
    /\ EndOfCall("disconnect_notify")
    /\ UNCHANGED <<handler, main, flags, object, made, deleted, workers>>

\* The two timers give up after ten seconds, each with its notification.
GivesUp(type) ==
    \/ type = "connect_notify" /\ session.state = "connecting"
    \/ type = "disconnect_notify" /\ session.state = "disconnected"
    \/ type = "timeout" /\ (session.sender \/ session.receiver)

\* The end of OnStopPlay
ClosePlayer ==
    /\ deleted' = [deleted EXCEPT !["play"] = @ \union ({object["play"]} \ {0})]
    /\ object' = [object EXCEPT !["play"] = 0]
    /\ flags' = [flags EXCEPT !.playing = FALSE]

\* A call ends by a message of the peer or by a timer.  With a receiver OnStopPlay
\* runs first: if there is a player it stops the play thread, and waits.
Ending(type) ==
    /\ MutexFree
    /\ IF type = "disconnect" THEN session.receiver
       ELSE GivesUp(type) /\ main # "connecting"  \* connect returns within ten seconds
    /\ \/ /\ session.receiver /\ flags.playing /\ run_flag["play"]
          /\ run_flag' = [run_flag EXCEPT !["play"] = FALSE]
          /\ handler' = type
          /\ UNCHANGED <<session, app>>
       \/ /\ session.receiver /\ flags.playing /\ ~run_flag["play"]
          /\ ClosePlayer
          /\ EndOfCall(type)
          /\ UNCHANGED <<handler, run_flag, made>>
       \/ /\ ~(session.receiver /\ flags.playing)
          /\ EndOfCall(type)
          /\ UNCHANGED <<handler, run_flag, flags, object, made, deleted>>
    /\ UNCHANGED <<main, target, pc, overlap>>

\* The rest of OnStopPlay and of the handler that called it.
PlayStopped ==
    /\ handler # "loop"
    /\ StopEnds("play")
    /\ ClosePlayer
    /\ EndOfCall(handler)
    /\ handler' = "loop"
    /\ UNCHANGED <<main, made, workers>>

-----------------------------------------------------------------------------
(* The main thread *)

\* EchoManager::connect up to the return of sim_connect; it fails, and leaves
\* state_ alone, while the session is not idle.
Connect ==
    /\ main = "idle" /\ state_ = "inited"
    /\ MutexFree
    /\ session.state = "idle"
    /\ made["read"] < MaxReaders
    /\ session' = [session EXCEPT !.state = "connecting"]
    /\ main' = "connecting"
    /\ UNCHANGED <<handler, app, workers>>

\* Only now it says so: the answer may have come.
ConnectReturns ==
    /\ main = "connecting"
    /\ state_' = "connecting"
    /\ main' = "idle"
    /\ UNCHANGED <<session, handler, flags, object, made, deleted, workers>>

\* EchoManager::finish; without a call it does nothing.
Finish ==
    /\ main = "idle" /\ flags.connected
    /\ run_flag' = [run_flag EXCEPT !["read"] = @ /\ ~flags.reading]
    /\ main' = IF flags.reading THEN "stopping" ELSE "leaving"
    /\ UNCHANGED <<session, handler, app, target, pc, overlap>>

ReadStopped ==
    /\ main = "stopping"
    /\ StopEnds("read")
    /\ deleted' = [deleted EXCEPT !["read"] = @ \union ({object["read"]} \ {0})]
    /\ object' = [object EXCEPT !["read"] = 0]
    /\ flags' = [flags EXCEPT !.reading = FALSE]
    /\ main' = "leaving"
    /\ UNCHANGED <<session, handler, state_, made, workers>>

\* EchoManager::disconnect on its own.
Disconnect ==
    /\ main = "idle" /\ state_ \in {"connecting", "connected"}
    /\ main' = "leaving"
    /\ UNCHANGED <<session, handler, app, workers>>

\* disconnect() looks at state_, which the session thread may change at once.
Leave ==
    /\ main = "leaving" /\ state_ \in {"connecting", "connected"}
    /\ main' = "hanging"
    /\ UNCHANGED <<session, handler, app, workers>>

\* sim_disconnect, which fails without a call that is on.
HangUp ==
    /\ main = "hanging"
    /\ MutexFree
    /\ session' = [session EXCEPT !.state =
                      IF @ \in {"connecting", "connected"} THEN "disconnected" ELSE @]
    /\ main' = "waiting"
    /\ UNCHANGED <<handler, app, workers>>

\* Only after it returned is state_ set, and then polled for the notification.
WaitBegins ==
    /\ main = "waiting"
    /\ state_' = "disconnect"
    /\ main' = "polling"
    /\ UNCHANGED <<session, handler, flags, object, made, deleted, workers>>

WaitEndsAsItWas ==
    /\ \/ main = "polling"
       \/ main = "leaving" /\ state_ \notin {"connecting", "connected"}
    /\ flags' = [flags EXCEPT !.connected = FALSE]
    /\ main' = "idle"
    /\ UNCHANGED <<session, handler, state_, object, made, deleted, workers>>

\* The wait ends on the notification or after two seconds, and either way state_
\* is inited.
WaitEnds ==
    /\ \/ main = "polling"
       \/ main = "leaving" /\ state_ \notin {"connecting", "connected"}
    /\ state_' = "inited"
    /\ flags' = [flags EXCEPT !.connected = FALSE]
    /\ main' = "idle"
    /\ UNCHANGED <<session, handler, object, made, deleted, workers>>

-----------------------------------------------------------------------------
(* The workers: VideoReadThread::run and VideoPlayThread::run *)

\* Inside the loop a reader reads and then sends; a player receives, and plays
\* what it got.
FirstStep(w) == IF w = "read" THEN "use" ELSE "lock"

\* The thread ends and answers by raising the flag.
Exits(w, t) ==
    /\ pc[w][t] = "check"
    /\ ~run_flag[w]
    /\ run_flag' = [run_flag EXCEPT ![w] = TRUE]
    /\ pc' = [pc EXCEPT ![w][t] = "ended"]
    /\ UNCHANGED <<session, handler, main, app, target, overlap>>

Goes(w, t, place) ==
    /\ pc' = [pc EXCEPT ![w][t] = place]
    /\ UNCHANGED <<session, handler, main, app, target, run_flag, overlap>>

\* sim_recv_video gives a frame only while there is a receiver, and may give
\* none; a reader may have no frame to send.
Works(w, t) ==
    \/ pc[w][t] = "check" /\ run_flag[w] /\ Goes(w, t, FirstStep(w))
    \/ pc[w][t] = "use" /\ w = "read" /\ \E place \in {"lock", "check"} : Goes(w, t, place)
    \/ pc[w][t] = "use" /\ w = "play" /\ Goes(w, t, "check")
    \/ pc[w][t] = "lock" /\ MutexFree /\ Goes(w, t, "check")
    \/ pc[w][t] = "lock" /\ MutexFree /\ w = "play" /\ session.receiver /\ Goes(w, t, "use")

WorkerStep(w, t) == Exits(w, t) \/ Works(w, t)

-----------------------------------------------------------------------------

MainStep == ConnectReturns \/ ReadStopped \/ Leave \/ HangUp \/ WaitBegins \/ WaitEnds

Next ==
    \/ PeerConnects \/ Answered \/ HungUp \/ PlayStopped
    \/ \E type \in {"disconnect", "connect_notify", "disconnect_notify", "timeout"} :
           Ending(type)
    \/ Connect \/ Finish \/ Disconnect
    \/ MainStep
    \/ \E w \in Workers, t \in 1 .. MaxThreads : WorkerStep(w, t)

Spec == Init /\ [][Next]_vars

\* Every thread runs on, and whoever waits for the mutex gets it now and then.
FairSpec ==
    /\ Spec
    /\ WF_vars(PlayStopped)
    /\ SF_vars(MainStep)
    /\ \A w \in Workers, t \in 1 .. MaxThreads : SF_vars(WorkerStep(w, t))

-----------------------------------------------------------------------------
(* Properties *)

\* Whatever order the calls of the main thread and the notifications come in,
\* when both rest and the session is idle a new call can be made: state_, which
\* both threads write without a lock (EchoManager.cpp:75, 88, 109), is inited.
CanCallAgain ==
    main = "idle" /\ session.state = "idle" /\ MutexFree => state_ = "inited"

\* A session with a receiver has a player to show it: none is closed, and no
\* flag is cleared, by the end of an earlier call.
ReceiverHasPlayer ==
    session.receiver => flags.playing /\ object["play"] \notin deleted["play"] \union {0}

\* What the application thinks of its call: while the session has none, or is
\* hanging up, state_ is inited unless the main thread is on its way to say so;
\* only the call itself may end while connect returns, by its peer.
CallsAgree ==
    /\ main = "connecting" => /\ session.state \in {"connecting", "connected"}
                              /\ handler \in {"loop", "disconnect"}
    /\ session.state \in {"idle", "disconnected"} /\ main \notin {"waiting", "polling"}
           => state_ = "inited"
    /\ handler = "disconnect_notify" => session.state = "disconnected"
    /\ handler # "loop" => session.receiver

\* m_run_flag is up as long as a worker's object is shown and nobody stops it,
\* so that stop() waits for the thread before the object is deleted; and the
\* object a worker holds is the one its thread was given.
FlagsUp ==
    /\ flags.reading /\ main # "stopping" => run_flag["read"]
    /\ flags.playing /\ handler = "loop" => run_flag["play"]
    /\ \A w \in Workers : object[w] \in {0, target[w]}

\* A worker that was never started over another has one thread at most; stop()
\* finds its flag up only when that thread has ended; and where the object it
\* was given is gone the thread is on its way out, past its last use.
WorkersFit ==
    \A w \in Workers \ overlap :
        /\ \A t, u \in Alive(w) : t = u
        /\ run_flag[w] /\ (IF w = "read" THEN main = "stopping" ELSE handler # "loop")
               => Alive(w) = {}
        /\ target[w] \in deleted[w] /\ Alive(w) # {}
               => ~run_flag[w] /\ \A t \in Alive(w) : pc[w][t] \in {"lock", "check"}

\* The objects, the flags, the threads and the session fit together: an
\* invariant that every step preserves by itself.
ObjectsAgree ==
    /\ TypeOK
    /\ ReceiverHasPlayer
    /\ CallsAgree
    /\ FlagsUp
    /\ WorkersFit

\* A worker reads or plays only with an object that still exists, although the
\* other threads delete it when stop() gives up waiting (EchoManager.cpp:273),
\* as long as start() never met a thread that was alive or being stopped.
ObjectOutlivesUse ==
    \A w \in Workers, t \in 1 .. MaxThreads :
        pc[w][t] = "use" /\ w \notin overlap => target[w] \notin deleted[w]

\* A notification that waits for the play thread, which waits for the mutex the
\* notification holds, comes to an end, and so does every call of the main
\* thread (sim_session.c:335, BaseThread.cpp:50).
NotificationReturns == handler # "loop" ~> handler = "loop"
CallReturns == main # "idle" ~> main = "idle"
WaitsEnd == NotificationReturns /\ CallReturns

\* "After the connection succeeded start the transfer thread"
\* (EchoManager.cpp:213): a connected application has a thread that sends.
ConnectedSends ==
    session.state = "connected" /\ flags.reading /\ main = "idle" => Alive("read") # {}
=============================================================================
