-------------------------- MODULE AppThreads_proofs --------------------------
(***************************************************************************)
(* Machine-checked proofs about the application's threads, for any number  *)
(* of calls, players and threads: a new call can be made when all rests,   *)
(* and what a worker uses still exists.                                    *)
(*                                                                         *)
(* ObjectsAgree is inductive.  Its first four parts are about the session  *)
(* and the main thread, WorkersFit about the threads themselves; a lemma   *)
(* per action shows that it leaves them all.                               *)
(***************************************************************************)
EXTENDS AppThreads, TLAPS

Threads == 1 .. MaxThreads
Places == {"none", "check", "lock", "use", "ended"}
Types == {"disconnect", "connect_notify", "disconnect_notify", "timeout"}

\* stop() waits for a thread of worker w.
Stopping(w) == IF w = "read" THEN main = "stopping" ELSE handler # "loop"

LEMMA Numbers == MaxReaders \in Nat /\ MaxPlayers \in Nat /\ MaxThreads \in Nat
BY AppAssumption DEF AppAssumption

\* BaseThread::start leaves the threads and their flags fitting.
LEMMA StartStep ==
    ASSUME ObjectsAgree, NEW w \in Workers, StartWorker(w, made[w] + 1),
           made' = [made EXCEPT ![w] = made[w] + 1],
           object' = [object EXCEPT ![w] = made[w] + 1],
           deleted' = deleted, main' = main, handler' = handler
    PROVE  /\ made' \in [Workers -> Nat] /\ object' \in [Workers -> Nat]
           /\ target' \in [Workers -> Nat] /\ deleted' \in [Workers -> SUBSET Nat]
           /\ \A x \in Workers : /\ {object'[x], target'[x]} \subseteq 0 .. made'[x]
                                 /\ deleted'[x] \subseteq 1 .. made'[x]
                                 /\ object'[x] \in {0, target'[x]}
                                 /\ run_flag[x] => run_flag'[x]
           /\ run_flag' \in [Workers -> BOOLEAN] /\ run_flag'[w]
           /\ pc' \in [Workers -> [Threads -> Places]]
           /\ overlap' \subseteq Workers
           /\ object'[w] \notin deleted'[w] \union {0}
           /\ WorkersFit'
<1> DEFINE n == made[w] + 1
<1>1. /\ made \in [Workers -> Nat] /\ object \in [Workers -> Nat]
      /\ target \in [Workers -> Nat] /\ deleted \in [Workers -> SUBSET Nat]
      /\ run_flag \in [Workers -> BOOLEAN] /\ pc \in [Workers -> [Threads -> Places]]
      /\ overlap \subseteq Workers
      /\ \A x \in Workers : /\ {object[x], target[x]} \subseteq 0 .. made[x]
                            /\ deleted[x] \subseteq 1 .. made[x]
                            /\ object[x] \in {0, target[x]}
  BY DEF ObjectsAgree, TypeOK, FlagsUp, Threads, Places
<1>2. n \in Nat /\ n # 0 /\ n \in 0 .. n /\ n \notin deleted[w] /\ target' = [target EXCEPT ![w] = n]
  BY <1>1 DEF StartWorker
<1>3. /\ made' \in [Workers -> Nat] /\ object' \in [Workers -> Nat]
      /\ target' \in [Workers -> Nat] /\ deleted' \in [Workers -> SUBSET Nat]
      /\ object'[w] = n /\ target'[w] = n /\ made'[w] = n
      /\ \A x \in Workers \ {w} : object'[x] = object[x] /\ target'[x] = target[x] /\ made'[x] = made[x]
  BY <1>1, <1>2
<1>4. \A x \in Workers : /\ {object'[x], target'[x]} \subseteq 0 .. made'[x]
                         /\ deleted'[x] \subseteq 1 .. made'[x]
                         /\ object'[x] \in {0, target'[x]}
  BY <1>1, <1>2, <1>3
<1>5. /\ run_flag' \in [Workers -> BOOLEAN] /\ run_flag'[w] /\ pc' \in [Workers -> [Threads -> Places]]
      /\ \A x \in Workers : run_flag[x] => run_flag'[x]
      /\ overlap' \subseteq Workers
  <2>1. CASE run_flag[w]
    BY <1>1, <2>1 DEF StartWorker
  <2>2. CASE ~run_flag[w]
    <3>1. /\ run_flag' = [run_flag EXCEPT ![w] = TRUE]
          /\ \E t \in Threads : pc' = [pc EXCEPT ![w][t] = "check"]
          /\ overlap' \in {overlap, overlap \union {w}}
      BY <2>2 DEF StartWorker, Threads
    <3>2. pc' \in [Workers -> [Threads -> Places]]
      BY <1>1, <3>1 DEF Places
    <3> QED BY <1>1, <3>1, <3>2
  <2> QED BY <2>1, <2>2
<1>6. ASSUME NEW x \in Workers \ overlap'
      PROVE  /\ \A t, u \in Alive(x)' : t = u
             /\ run_flag'[x] /\ Stopping(x)' => Alive(x)' = {}
             /\ target'[x] \in deleted'[x] /\ Alive(x)' # {}
                  => ~run_flag'[x] /\ \A t \in Alive(x)' : pc'[x][t] \in {"lock", "check"}
  <2>1. x \notin overlap
    BY <1>6 DEF StartWorker
  <2>2. /\ \A t, u \in Alive(x) : t = u
        /\ run_flag[x] /\ Stopping(x) => Alive(x) = {}
        /\ target[x] \in deleted[x] /\ Alive(x) # {}
             => ~run_flag[x] /\ \A t \in Alive(x) : pc[x][t] \in {"lock", "check"}
    BY <2>1 DEF ObjectsAgree, WorkersFit, Stopping
  <2>3. Stopping(x)' = Stopping(x)
    BY DEF Stopping
  <2>4. CASE x # w
    <3>1. run_flag'[x] = run_flag[x] /\ pc'[x] = pc[x] /\ target'[x] = target[x]
      BY <1>1, <1>3, <2>4 DEF StartWorker
    <3>2. Alive(x)' = Alive(x)
      BY <3>1 DEF Alive
    <3> QED BY <2>2, <2>3, <3>1, <3>2
  <2>5. CASE x = w /\ run_flag[w]
    <3>1. pc' = pc /\ run_flag' = run_flag
      BY <2>5 DEF StartWorker
    <3>2. Alive(x)' = Alive(x)
      BY <3>1 DEF Alive
    <3> QED BY <1>2, <1>3, <2>2, <2>3, <2>5, <3>1, <3>2
  <2>6. CASE x = w /\ ~run_flag[w]
    <3>1. PICK t \in Threads : pc' = [pc EXCEPT ![w][t] = "check"]
      BY <2>6 DEF StartWorker, Threads
    <3>2. Alive(w) = {} /\ ~Stopping(w)
      BY <1>6, <2>6 DEF StartWorker, Stopping
    <3>3. Alive(w)' \subseteq {t}
      BY <1>1, <3>1, <3>2 DEF Alive, Threads
    <3> QED BY <1>2, <1>3, <2>3, <2>6, <3>2, <3>3
  <2> QED BY <2>4, <2>5, <2>6
<1>7. WorkersFit'
  BY <1>6 DEF WorkersFit, Stopping
<1> QED BY <1>2, <1>3, <1>4, <1>5, <1>7

\* Where no thread, flag or object changes, what fits goes on to fit as long as
\* nobody begins to wait for a worker.
LEMMA RestStep ==
    ASSUME ObjectsAgree, UNCHANGED <<flags, object, made, deleted, workers>>,
           \A w \in Workers : Stopping(w)' => Stopping(w)
    PROVE  WorkersFit' /\ (FlagsUp' <=> /\ flags.reading /\ main' # "stopping" => run_flag["read"]
                                        /\ flags.playing /\ handler' = "loop" => run_flag["play"])
<1>1. \A w \in Workers : Alive(w)' = Alive(w)
  BY DEF workers, Alive
<1> QED BY <1>1 DEF workers, ObjectsAgree, WorkersFit, FlagsUp, Stopping

-----------------------------------------------------------------------------
(* The session thread *)

LEMMA PeerConnectsStep == ASSUME ObjectsAgree, PeerConnects PROVE ObjectsAgree'
<1>1. /\ StartWorker("play", made["play"] + 1)
      /\ made' = [made EXCEPT !["play"] = made["play"] + 1]
      /\ object' = [object EXCEPT !["play"] = made["play"] + 1]
      /\ deleted' = deleted /\ main' = main /\ handler' = handler /\ state_' = state_
      /\ flags' = [flags EXCEPT !.playing = TRUE]
      /\ session' = [session EXCEPT !.receiver = TRUE] /\ handler = "loop"
  BY DEF PeerConnects, OnStartPlay, MutexFree
<1>2. "play" \in Workers /\ "read" \in Workers
  BY DEF Workers
<1>3. /\ made' \in [Workers -> Nat] /\ object' \in [Workers -> Nat]
      /\ target' \in [Workers -> Nat] /\ deleted' \in [Workers -> SUBSET Nat]
      /\ \A x \in Workers : /\ {object'[x], target'[x]} \subseteq 0 .. made'[x]
                            /\ deleted'[x] \subseteq 1 .. made'[x]
                            /\ object'[x] \in {0, target'[x]}
                            /\ run_flag[x] => run_flag'[x]
      /\ run_flag' \in [Workers -> BOOLEAN] /\ run_flag'["play"]
      /\ pc' \in [Workers -> [Threads -> Places]]
      /\ overlap' \subseteq Workers
      /\ object'["play"] \notin deleted'["play"] \union {0}
      /\ WorkersFit'
  BY <1>1, <1>2, StartStep
<1>4. /\ session' \in [state : {"idle", "connecting", "connected", "disconnected"},
                       sender : BOOLEAN, receiver : BOOLEAN]
      /\ session'.state = session.state /\ session'.receiver
      /\ flags' \in [connected : BOOLEAN, reading : BOOLEAN, playing : BOOLEAN]
      /\ flags'.playing /\ flags'.reading = flags.reading
  BY <1>1 DEF ObjectsAgree, TypeOK
<1>5. TypeOK'
  BY <1>1, <1>3, <1>4 DEF ObjectsAgree, TypeOK, Threads, Places
<1>6. ReceiverHasPlayer' /\ FlagsUp'
  BY <1>1, <1>2, <1>3, <1>4 DEF ObjectsAgree, ReceiverHasPlayer, FlagsUp
<1>7. CallsAgree'
  BY <1>1, <1>4 DEF ObjectsAgree, CallsAgree
<1> QED BY <1>3, <1>5, <1>6, <1>7 DEF ObjectsAgree

LEMMA AnsweredStep == ASSUME ObjectsAgree, Answered PROVE ObjectsAgree'
<1>1. /\ StartWorker("read", made["read"] + 1)
      /\ made' = [made EXCEPT !["read"] = made["read"] + 1]
      /\ object' = [object EXCEPT !["read"] = made["read"] + 1]
      /\ deleted' = deleted /\ main' = main /\ handler' = handler
      /\ state_' = IF state_ = "connecting" THEN "connected" ELSE state_
      /\ flags' = [flags EXCEPT !.connected = TRUE, !.reading = TRUE]
      /\ session' = [session EXCEPT !.state = "connected", !.sender = TRUE] /\ handler = "loop"
  BY DEF Answered, OnConnectSucc, MutexFree
<1>2. "play" \in Workers /\ "read" \in Workers
  BY DEF Workers
<1>3. /\ made' \in [Workers -> Nat] /\ object' \in [Workers -> Nat]
      /\ target' \in [Workers -> Nat] /\ deleted' \in [Workers -> SUBSET Nat]
      /\ \A x \in Workers : /\ {object'[x], target'[x]} \subseteq 0 .. made'[x]
                            /\ deleted'[x] \subseteq 1 .. made'[x]
                            /\ object'[x] \in {0, target'[x]}
                            /\ run_flag[x] => run_flag'[x]
      /\ run_flag' \in [Workers -> BOOLEAN] /\ run_flag'["read"]
      /\ pc' \in [Workers -> [Threads -> Places]]
      /\ overlap' \subseteq Workers
      /\ WorkersFit'
  BY <1>1, <1>2, StartStep
<1>4. /\ session' \in [state : {"idle", "connecting", "connected", "disconnected"},
                       sender : BOOLEAN, receiver : BOOLEAN]
      /\ session'.state = "connected" /\ session'.receiver = session.receiver
      /\ flags' \in [connected : BOOLEAN, reading : BOOLEAN, playing : BOOLEAN]
      /\ flags'.reading /\ flags'.playing = flags.playing
      /\ state_' \in {"inited", "connecting", "connected", "disconnect"}
  BY <1>1 DEF ObjectsAgree, TypeOK
<1>5. object'["play"] = object["play"]
  BY <1>1, <1>2 DEF ObjectsAgree, TypeOK
<1>6. TypeOK'
  BY <1>1, <1>3, <1>4 DEF ObjectsAgree, TypeOK, Threads, Places
<1>7. ReceiverHasPlayer' /\ FlagsUp'
  BY <1>1, <1>2, <1>3, <1>4, <1>5 DEF ObjectsAgree, ReceiverHasPlayer, FlagsUp
<1>8. CallsAgree'
  BY <1>1, <1>4 DEF ObjectsAgree, CallsAgree
<1> QED BY <1>3, <1>6, <1>7, <1>8 DEF ObjectsAgree

\* sim_session_reset and on_notify at the end of a call of the given sort.
LEMMA EndStep ==
    ASSUME TypeOK, CallsAgree, NEW type \in Types, EndOfCall(type),
           main = "connecting" => type = "disconnect",
           type = "disconnect_notify" => session.state = "disconnected"
    PROVE  /\ session' \in [state : {"idle", "connecting", "connected", "disconnected"},
                            sender : BOOLEAN, receiver : BOOLEAN]
           /\ ~session'.receiver
           /\ state_' \in {"inited", "connecting", "connected", "disconnect"}
           /\ main = "connecting" => session'.state \in {"connecting", "connected"}
           /\ session'.state \in {"idle", "disconnected"} /\ main \notin {"waiting", "polling"}
                  => state_' = "inited"
<1>1. CASE type = "disconnect"
  BY <1>1 DEF EndOfCall, Reset, OnEnd, TypeOK, CallsAgree
<1>2. CASE type # "disconnect"
  BY <1>2 DEF EndOfCall, Reset, OnEnd, TypeOK, CallsAgree, NoCall, Types
<1> QED BY <1>1, <1>2

\* A message or a timer ends a call when there is no thread to wait for.
LEMMA HungUpStep == ASSUME ObjectsAgree, HungUp PROVE ObjectsAgree'
<1>1. /\ EndOfCall("disconnect_notify") /\ session.state = "disconnected" /\ handler = "loop"
      /\ UNCHANGED <<handler, main, flags, object, made, deleted, workers>>
  BY DEF HungUp, MutexFree
<1>2. main # "connecting"
  BY <1>1 DEF ObjectsAgree, CallsAgree
<1>3. /\ session' \in [state : {"idle", "connecting", "connected", "disconnected"},
                       sender : BOOLEAN, receiver : BOOLEAN]
      /\ ~session'.receiver
      /\ state_' \in {"inited", "connecting", "connected", "disconnect"}
      /\ session'.state \in {"idle", "disconnected"} /\ main \notin {"waiting", "polling"}
             => state_' = "inited"
  BY <1>1, <1>2, EndStep DEF ObjectsAgree, Types
<1>4. WorkersFit' /\ FlagsUp'
  BY <1>1, RestStep DEF Stopping, ObjectsAgree, FlagsUp
<1>5. TypeOK'
  BY <1>1, <1>3 DEF ObjectsAgree, TypeOK, workers
<1>6. ReceiverHasPlayer' /\ CallsAgree'
  BY <1>1, <1>2, <1>3 DEF ReceiverHasPlayer, CallsAgree
<1> QED BY <1>4, <1>5, <1>6 DEF ObjectsAgree

LEMMA EndingStep ==
    ASSUME ObjectsAgree, NEW type \in Types, Ending(type) PROVE ObjectsAgree'
<1>1. /\ handler = "loop" /\ UNCHANGED <<main, target, pc, overlap>> /\ type # "loop"
      /\ type = "disconnect" => session.receiver
      /\ type # "disconnect" => main # "connecting"
      /\ type = "disconnect_notify" => session.state = "disconnected"
  BY DEF Ending, MutexFree, GivesUp, Types
<1>2. "play" \in Workers /\ "read" \in Workers
  BY DEF Workers
<1>3. CASE /\ session.receiver /\ flags.playing
           /\ run_flag' = [run_flag EXCEPT !["play"] = FALSE]
           /\ handler' = type
           /\ UNCHANGED <<session, app>>
  <2>1. /\ run_flag \in [Workers -> BOOLEAN] /\ run_flag' \in [Workers -> BOOLEAN]
        /\ ~run_flag'["play"] /\ run_flag'["read"] = run_flag["read"]
    BY <1>2, <1>3 DEF ObjectsAgree, TypeOK
  <2>2. TypeOK'
    BY <1>1, <1>3, <2>1 DEF ObjectsAgree, TypeOK, app, Types
  <2>3. ReceiverHasPlayer' /\ CallsAgree' /\ FlagsUp'
    BY <1>1, <1>3, <2>1 DEF ObjectsAgree, ReceiverHasPlayer, CallsAgree, FlagsUp, app
  <2>4. \A w \in Workers : Alive(w)' = Alive(w)
    BY <1>1 DEF Alive
  <2>5. WorkersFit'
    BY <1>1, <1>3, <2>1, <2>4 DEF ObjectsAgree, WorkersFit, Workers, app
  <2> QED BY <2>2, <2>3, <2>5 DEF ObjectsAgree
<1>4. CASE session.receiver /\ flags.playing /\ ~run_flag["play"]
  BY <1>1, <1>4 DEF ObjectsAgree, FlagsUp
<1>5. CASE /\ ~(session.receiver /\ flags.playing) /\ EndOfCall(type)
           /\ UNCHANGED <<handler, run_flag, flags, object, made, deleted>>
  <2>1. ~session.receiver /\ type # "disconnect"
    BY <1>1, <1>5 DEF ObjectsAgree, ReceiverHasPlayer
  <2>2. /\ session' \in [state : {"idle", "connecting", "connected", "disconnected"},
                         sender : BOOLEAN, receiver : BOOLEAN]
        /\ ~session'.receiver
        /\ state_' \in {"inited", "connecting", "connected", "disconnect"}
        /\ session'.state \in {"idle", "disconnected"} /\ main \notin {"waiting", "polling"}
               => state_' = "inited"
    BY <1>1, <1>5, <2>1, EndStep DEF ObjectsAgree
  <2>3. UNCHANGED <<flags, object, made, deleted, workers, main, handler>>
    BY <1>1, <1>5 DEF workers
  <2>4. WorkersFit' /\ FlagsUp'
    BY <2>3, RestStep DEF Stopping, ObjectsAgree, FlagsUp
  <2>5. TypeOK'
    BY <2>2, <2>3 DEF ObjectsAgree, TypeOK, workers
  <2>6. ReceiverHasPlayer' /\ CallsAgree'
    BY <1>1, <2>1, <2>2, <2>3 DEF ReceiverHasPlayer, CallsAgree
  <2> QED BY <2>4, <2>5, <2>6 DEF ObjectsAgree
<1> QED BY <1>3, <1>4, <1>5 DEF Ending

\* OnStopPlay returns, by an answer or because the thread waits for the mutex:
\* either way the player that is deleted is not in use.
LEMMA PlayStoppedStep == ASSUME ObjectsAgree, PlayStopped PROVE ObjectsAgree'
<1>1. /\ handler # "loop" /\ StopEnds("play") /\ EndOfCall(handler) /\ handler' = "loop"
      /\ UNCHANGED <<main, made, workers>>
      /\ deleted' = [deleted EXCEPT !["play"] = deleted["play"] \union ({object["play"]} \ {0})]
      /\ object' = [object EXCEPT !["play"] = 0]
      /\ flags' = [flags EXCEPT !.playing = FALSE]
  BY DEF PlayStopped, ClosePlayer
<1>2. "play" \in Workers /\ "read" \in Workers
  BY DEF Workers
<1>3. handler \in Types
  BY <1>1 DEF ObjectsAgree, TypeOK, Types
<1>4. /\ session' \in [state : {"idle", "connecting", "connected", "disconnected"},
                       sender : BOOLEAN, receiver : BOOLEAN]
      /\ ~session'.receiver
      /\ state_' \in {"inited", "connecting", "connected", "disconnect"}
      /\ main = "connecting" => session'.state \in {"connecting", "connected"}
      /\ session'.state \in {"idle", "disconnected"} /\ main \notin {"waiting", "polling"}
             => state_' = "inited"
  BY <1>1, <1>3, EndStep DEF ObjectsAgree, CallsAgree
<1>5. /\ object \in [Workers -> Nat] /\ deleted \in [Workers -> SUBSET Nat] /\ made \in [Workers -> Nat]
      /\ \A w \in Workers : /\ {object[w], target[w]} \subseteq 0 .. made[w]
                            /\ deleted[w] \subseteq 1 .. made[w]
                            /\ object[w] \in {0, target[w]}
  BY DEF ObjectsAgree, TypeOK, FlagsUp
<1>6. /\ object' \in [Workers -> Nat] /\ deleted' \in [Workers -> SUBSET Nat]
      /\ object'["play"] = 0 /\ object'["read"] = object["read"]
      /\ deleted'["play"] = deleted["play"] \union ({object["play"]} \ {0})
      /\ deleted'["read"] = deleted["read"]
  BY <1>1, <1>2, <1>5
<1>7. \A w \in Workers : /\ {object'[w], target'[w]} \subseteq 0 .. made'[w]
                         /\ deleted'[w] \subseteq 1 .. made'[w]
                         /\ object'[w] \in {0, target'[w]}
  <2>1. \A w \in Workers : made'[w] = made[w] /\ target'[w] = target[w]
    BY <1>1 DEF workers
  <2>2. {0, object["play"]} \subseteq 0 .. made["play"]
    BY <1>2, <1>5
  <2> QED BY <1>5, <1>6, <2>1, <2>2 DEF Workers
<1>8. /\ flags' \in [connected : BOOLEAN, reading : BOOLEAN, playing : BOOLEAN]
      /\ ~flags'.playing /\ flags'.reading = flags.reading
  BY <1>1 DEF ObjectsAgree, TypeOK
<1>9. TypeOK'
  BY <1>1, <1>4, <1>6, <1>7, <1>8 DEF ObjectsAgree, TypeOK, workers
<1>10. ReceiverHasPlayer' /\ CallsAgree'
  BY <1>1, <1>4 DEF ReceiverHasPlayer, CallsAgree
<1>11. FlagsUp'
  BY <1>1, <1>7, <1>8 DEF ObjectsAgree, FlagsUp, workers
<1>12. \A w \in Workers : Alive(w)' = Alive(w)
  BY <1>1 DEF Alive, workers
<1>13. "play" \notin overlap /\ Alive("play") # {}
         => ~run_flag["play"] /\ \A t \in Alive("play") : pc["play"][t] = "lock"
  BY <1>1, <1>2 DEF ObjectsAgree, WorkersFit, StopEnds, TimedOut
<1>14. WorkersFit'
  <2>1. ASSUME NEW w \in Workers \ overlap'
        PROVE  /\ \A t, u \in Alive(w)' : t = u
               /\ run_flag'[w] /\ (IF w = "read" THEN main' = "stopping" ELSE handler' # "loop")
                    => Alive(w)' = {}
               /\ target'[w] \in deleted'[w] /\ Alive(w)' # {}
                    => ~run_flag'[w] /\ \A t \in Alive(w)' : pc'[w][t] \in {"lock", "check"}
    <3>1. w \in Workers \ overlap
      BY <1>1 DEF workers
    <3>2. /\ \A t, u \in Alive(w) : t = u
          /\ run_flag[w] /\ (IF w = "read" THEN main = "stopping" ELSE handler # "loop")
               => Alive(w) = {}
          /\ target[w] \in deleted[w] /\ Alive(w) # {}
               => ~run_flag[w] /\ \A t \in Alive(w) : pc[w][t] \in {"lock", "check"}
      BY <3>1 DEF ObjectsAgree, WorkersFit
    <3>3. run_flag' = run_flag /\ pc' = pc /\ target' = target
      BY <1>1 DEF workers
    <3>4. CASE w = "read"
      BY <1>1, <1>6, <1>12, <3>2, <3>3, <3>4
    <3>5. CASE w = "play"
      BY <1>1, <1>12, <1>13, <3>1, <3>2, <3>3, <3>5
    <3> QED BY <3>4, <3>5 DEF Workers
  <2> QED BY <2>1 DEF WorkersFit
<1> QED BY <1>9, <1>10, <1>11, <1>14 DEF ObjectsAgree

-----------------------------------------------------------------------------
(* The main thread *)

\* The calls of the main thread up to where they wait: none stops a worker.
LEMMA CallStep ==
    ASSUME ObjectsAgree, \/ Connect \/ ConnectReturns \/ Disconnect \/ Leave \/ HangUp
                         \/ WaitBegins \/ WaitEnds
    PROVE  ObjectsAgree'
<1>1. /\ UNCHANGED <<handler, object, made, deleted, workers>>
      /\ flags' \in {flags, [flags EXCEPT !.connected = FALSE]}
      /\ main' \in {"idle", "connecting", "leaving", "hanging", "waiting", "polling"}
      /\ main # "stopping"
      /\ state_' \in {state_, "inited", "connecting", "disconnect"}
  BY DEF Connect, ConnectReturns, Disconnect, Leave, HangUp, WaitBegins, WaitEnds, app
<1>2. /\ session' \in [state : {"idle", "connecting", "connected", "disconnected"},
                       sender : BOOLEAN, receiver : BOOLEAN]
      /\ session'.receiver = session.receiver
  BY DEF Connect, ConnectReturns, Disconnect, Leave, HangUp, WaitBegins, WaitEnds, ObjectsAgree, TypeOK
<1>3. /\ flags' \in [connected : BOOLEAN, reading : BOOLEAN, playing : BOOLEAN]
      /\ flags'.playing = flags.playing /\ flags'.reading = flags.reading
  BY <1>1 DEF ObjectsAgree, TypeOK
<1>4. TypeOK'
  BY <1>1, <1>2, <1>3 DEF ObjectsAgree, TypeOK, workers
<1>5. ReceiverHasPlayer'
  BY <1>1, <1>2, <1>3 DEF ObjectsAgree, ReceiverHasPlayer
<1>6. \A w \in Workers : Alive(w)' = Alive(w)
  BY <1>1 DEF workers, Alive
<1>7. WorkersFit'
  BY <1>1, <1>6 DEF workers, ObjectsAgree, WorkersFit
<1>8. FlagsUp'
  BY <1>1, <1>3 DEF workers, ObjectsAgree, FlagsUp
<1>9. CallsAgree'
  BY <1>1, <1>2 DEF Connect, ConnectReturns, Disconnect, Leave, HangUp, WaitBegins, WaitEnds,
                    ObjectsAgree, TypeOK, CallsAgree, MutexFree, app
<1> QED BY <1>4, <1>5, <1>7, <1>8, <1>9 DEF ObjectsAgree

\* finish() asks the reader's thread to stop: its flag was up.
LEMMA FinishStep == ASSUME ObjectsAgree, Finish PROVE ObjectsAgree'
<1>1. /\ main = "idle" /\ UNCHANGED <<session, handler, app, target, pc, overlap>>
      /\ run_flag' = [run_flag EXCEPT !["read"] = run_flag["read"] /\ ~flags.reading]
      /\ main' = IF flags.reading THEN "stopping" ELSE "leaving"
  BY DEF Finish, ObjectsAgree, TypeOK, Workers
<1>2. "play" \in Workers /\ "read" \in Workers /\ run_flag \in [Workers -> BOOLEAN]
  BY DEF Workers, ObjectsAgree, TypeOK
<1>3. CASE ~flags.reading
  <2>1. run_flag' = run_flag
    BY <1>1, <1>2, <1>3
  <2>2. UNCHANGED <<flags, object, made, deleted, workers>> /\ main' = "leaving"
    BY <1>1, <1>3, <2>1 DEF app, workers
  <2>3. WorkersFit' /\ FlagsUp'
    BY <1>1, <1>3, <2>2, RestStep DEF Stopping, ObjectsAgree, FlagsUp
  <2>4. TypeOK'
    <3>1. UNCHANGED <<session, handler, state_, flags, object, made, deleted, target, run_flag, pc,
                      overlap>>
      BY <1>1, <2>1 DEF app
    <3> QED BY <2>2, <3>1 DEF ObjectsAgree, TypeOK
  <2>5. ReceiverHasPlayer' /\ CallsAgree'
    BY <1>1, <2>2 DEF ObjectsAgree, ReceiverHasPlayer, CallsAgree, app
  <2> QED BY <2>3, <2>4, <2>5 DEF ObjectsAgree
<1>4. CASE flags.reading
  <2>1. /\ run_flag' = [run_flag EXCEPT !["read"] = FALSE]
        /\ run_flag' \in [Workers -> BOOLEAN]
        /\ ~run_flag'["read"] /\ run_flag'["play"] = run_flag["play"] /\ main' = "stopping"
    BY <1>1, <1>2, <1>4
  <2>2. TypeOK'
    BY <1>1, <2>1 DEF ObjectsAgree, TypeOK, app
  <2>3. ReceiverHasPlayer' /\ CallsAgree' /\ FlagsUp'
    BY <1>1, <2>1 DEF ObjectsAgree, ReceiverHasPlayer, CallsAgree, FlagsUp, app
  <2>4. \A w \in Workers : Alive(w)' = Alive(w)
    BY <1>1 DEF Alive
  <2>5. WorkersFit'
    BY <1>1, <2>1, <2>4 DEF ObjectsAgree, WorkersFit, Workers, app
  <2> QED BY <2>2, <2>3, <2>5 DEF ObjectsAgree
<1> QED BY <1>3, <1>4

\* stop() returns, by an answer or because the thread waits for the mutex, and
\* the reader is deleted: unless one was started meanwhile, none uses it.
LEMMA ReadStoppedStep == ASSUME ObjectsAgree, ReadStopped PROVE ObjectsAgree'
<1>1. /\ main = "stopping" /\ main' = "leaving" /\ StopEnds("read")
      /\ UNCHANGED <<session, handler, state_, made, workers>>
      /\ deleted' = [deleted EXCEPT !["read"] = deleted["read"] \union ({object["read"]} \ {0})]
      /\ object' = [object EXCEPT !["read"] = 0]
      /\ flags' = [flags EXCEPT !.reading = FALSE]
  BY DEF ReadStopped
<1>2. "play" \in Workers /\ "read" \in Workers
  BY DEF Workers
<1>3. /\ object \in [Workers -> Nat] /\ deleted \in [Workers -> SUBSET Nat] /\ made \in [Workers -> Nat]
      /\ \A w \in Workers : /\ {object[w], target[w]} \subseteq 0 .. made[w]
                            /\ deleted[w] \subseteq 1 .. made[w]
                            /\ object[w] \in {0, target[w]}
  BY DEF ObjectsAgree, TypeOK, FlagsUp
<1>4. /\ object' \in [Workers -> Nat] /\ deleted' \in [Workers -> SUBSET Nat]
      /\ object'["read"] = 0 /\ object'["play"] = object["play"]
      /\ deleted'["read"] = deleted["read"] \union ({object["read"]} \ {0})
      /\ deleted'["play"] = deleted["play"]
  BY <1>1, <1>2, <1>3
<1>5. \A w \in Workers : /\ {object'[w], target'[w]} \subseteq 0 .. made'[w]
                         /\ deleted'[w] \subseteq 1 .. made'[w]
                         /\ object'[w] \in {0, target'[w]}
  <2>1. \A w \in Workers : made'[w] = made[w] /\ target'[w] = target[w]
    BY <1>1 DEF workers
  <2>2. {0, object["read"]} \subseteq 0 .. made["read"]
    BY <1>2, <1>3
  <2> QED BY <1>3, <1>4, <2>1, <2>2 DEF Workers
<1>6. /\ flags' \in [connected : BOOLEAN, reading : BOOLEAN, playing : BOOLEAN]
      /\ ~flags'.reading /\ flags'.playing = flags.playing
  BY <1>1 DEF ObjectsAgree, TypeOK
<1>7. TypeOK'
  BY <1>1, <1>4, <1>5, <1>6 DEF ObjectsAgree, TypeOK, workers
<1>8. ReceiverHasPlayer' /\ CallsAgree'
  BY <1>1, <1>4, <1>6 DEF ObjectsAgree, ReceiverHasPlayer, CallsAgree
<1>9. FlagsUp'
  BY <1>1, <1>5, <1>6 DEF ObjectsAgree, FlagsUp, workers
<1>10. \A w \in Workers : Alive(w)' = Alive(w)
  BY <1>1 DEF Alive, workers
<1>11. "read" \notin overlap /\ Alive("read") # {}
         => ~run_flag["read"] /\ \A t \in Alive("read") : pc["read"][t] = "lock"
  BY <1>1, <1>2 DEF ObjectsAgree, WorkersFit, StopEnds, TimedOut
<1>12. WorkersFit'
  <2>1. ASSUME NEW w \in Workers \ overlap'
        PROVE  /\ \A t, u \in Alive(w)' : t = u
               /\ run_flag'[w] /\ (IF w = "read" THEN main' = "stopping" ELSE handler' # "loop")
                    => Alive(w)' = {}
               /\ target'[w] \in deleted'[w] /\ Alive(w)' # {}
                    => ~run_flag'[w] /\ \A t \in Alive(w)' : pc'[w][t] \in {"lock", "check"}
    <3>1. w \in Workers \ overlap
      BY <1>1 DEF workers
    <3>2. /\ \A t, u \in Alive(w) : t = u
          /\ run_flag[w] /\ (IF w = "read" THEN main = "stopping" ELSE handler # "loop")
               => Alive(w) = {}
          /\ target[w] \in deleted[w] /\ Alive(w) # {}
               => ~run_flag[w] /\ \A t \in Alive(w) : pc[w][t] \in {"lock", "check"}
      BY <3>1 DEF ObjectsAgree, WorkersFit
    <3>3. run_flag' = run_flag /\ pc' = pc /\ target' = target
      BY <1>1 DEF workers
    <3>4. CASE w = "read"
      BY <1>1, <1>10, <1>11, <3>1, <3>2, <3>3, <3>4
    <3>5. CASE w = "play"
      BY <1>1, <1>4, <1>10, <3>2, <3>3, <3>5
    <3> QED BY <3>4, <3>5 DEF Workers
  <2> QED BY <2>1 DEF WorkersFit
<1> QED BY <1>7, <1>8, <1>9, <1>12 DEF ObjectsAgree

-----------------------------------------------------------------------------
(* The workers *)

\* A step of thread t of worker w: the others, the objects and the session are
\* left alone.
LEMMA ThreadStep ==
    ASSUME ObjectsAgree, NEW w \in Workers, NEW t \in Threads, NEW place \in Places,
           t \in Alive(w), pc' = [pc EXCEPT ![w][t] = place],
           run_flag' \in {run_flag, [run_flag EXCEPT ![w] = TRUE]},
           UNCHANGED <<session, handler, main, app, target, overlap>>,
           w \notin overlap =>
               /\ place = "use" => target[w] \notin deleted[w]
               /\ run_flag' # run_flag => place = "ended"
               /\ place \in {"check", "lock", "use", "ended"}
    PROVE  ObjectsAgree'
<1>1. /\ run_flag \in [Workers -> BOOLEAN] /\ pc \in [Workers -> [Threads -> Places]]
  BY DEF ObjectsAgree, TypeOK, Threads, Places
<1>2. /\ run_flag' \in [Workers -> BOOLEAN] /\ pc' \in [Workers -> [Threads -> Places]]
      /\ \A x \in Workers : run_flag[x] => run_flag'[x]
      /\ \A x \in Workers : x # w => run_flag'[x] = run_flag[x] /\ pc'[x] = pc[x]
      /\ pc'[w] = [pc[w] EXCEPT ![t] = place]
  BY <1>1
<1>3. TypeOK'
  BY <1>2 DEF ObjectsAgree, TypeOK, app, Threads, Places
<1>4. ReceiverHasPlayer' /\ CallsAgree'
  BY DEF ObjectsAgree, ReceiverHasPlayer, CallsAgree, app
<1>5. FlagsUp'
  BY <1>2 DEF ObjectsAgree, FlagsUp, app, Workers
<1>6. ASSUME NEW x \in Workers \ overlap'
      PROVE  /\ \A a, b \in Alive(x)' : a = b
             /\ run_flag'[x] /\ Stopping(x)' => Alive(x)' = {}
             /\ target'[x] \in deleted'[x] /\ Alive(x)' # {}
                  => ~run_flag'[x] /\ \A a \in Alive(x)' : pc'[x][a] \in {"lock", "check"}
  <2>1. x \in Workers \ overlap /\ Stopping(x)' = Stopping(x)
        /\ target' = target /\ deleted' = deleted
    BY DEF Stopping, app
  <2>2. /\ \A a, b \in Alive(x) : a = b
        /\ run_flag[x] /\ Stopping(x) => Alive(x) = {}
        /\ target[x] \in deleted[x] /\ Alive(x) # {}
             => ~run_flag[x] /\ \A a \in Alive(x) : pc[x][a] \in {"lock", "check"}
    BY <2>1 DEF ObjectsAgree, WorkersFit, Stopping
  <2>3. CASE x # w
    <3>1. Alive(x)' = Alive(x)
      BY <1>2, <2>3 DEF Alive
    <3> QED BY <1>2, <2>1, <2>2, <2>3, <3>1
  <2>4. CASE x = w
    <3>1. Alive(w) = {t}
      BY <2>2, <2>4
    <3>2. \A a \in Threads : a # t => pc'[w][a] = pc[w][a]
      BY <1>1, <1>2
    <3>3. pc'[w][t] = place
      BY <1>1, <1>2
    <3>4. Alive(w)' \subseteq {t} /\ (t \in Alive(w)' => place \in {"check", "lock", "use"})
      BY <3>1, <3>2, <3>3 DEF Alive, Threads
    <3>5. CASE run_flag' = run_flag
      BY <2>1, <2>2, <2>4, <3>1, <3>3, <3>4, <3>5
    <3>6. CASE run_flag' # run_flag
      BY <2>1, <2>4, <3>4, <3>6
    <3> QED BY <3>5, <3>6
  <2> QED BY <2>3, <2>4
<1>7. WorkersFit'
  BY <1>6 DEF WorkersFit, Stopping
<1> QED BY <1>3, <1>4, <1>5, <1>7 DEF ObjectsAgree

LEMMA WorkerStepKeeps ==
    ASSUME ObjectsAgree, NEW w \in Workers, NEW t \in Threads, WorkerStep(w, t)
    PROVE  ObjectsAgree'
<1>1. w \notin overlap => (target[w] \in deleted[w] /\ Alive(w) # {} => ~run_flag[w])
  BY DEF ObjectsAgree, WorkersFit
<1>2. /\ t \in Alive(w)
      /\ UNCHANGED <<session, handler, main, app, target, overlap>>
  BY DEF WorkerStep, Exits, Works, Goes, Alive, Threads
<1>3. CASE Exits(w, t)
  <2>1. pc' = [pc EXCEPT ![w][t] = "ended"] /\ run_flag' = [run_flag EXCEPT ![w] = TRUE]
    BY <1>3 DEF Exits
  <2> QED BY <1>2, <2>1, ThreadStep DEF Places
<1>4. CASE Works(w, t)
  <2>1. PICK place \in {"check", "lock", "use"} :
          /\ Goes(w, t, place)
          /\ place = "use" => \/ run_flag[w]
                              \/ w = "play" /\ session.receiver
    BY <1>4 DEF Works, FirstStep
  <2>2. pc' = [pc EXCEPT ![w][t] = place] /\ run_flag' = run_flag
    BY <2>1 DEF Goes
  <2>3. w = "play" /\ session.receiver => target[w] \notin deleted[w]
    BY DEF ObjectsAgree, ReceiverHasPlayer, FlagsUp
  <2>4. w \notin overlap /\ place = "use" => target[w] \notin deleted[w]
    BY <1>1, <1>2, <2>1, <2>3
  <2>5. place \in Places
    BY DEF Places
  <2> QED BY <1>2, <2>2, <2>4, <2>5, ThreadStep
<1> QED BY <1>3, <1>4 DEF WorkerStep

-----------------------------------------------------------------------------
(* The theorems *)

LEMMA AppStep == ASSUME ObjectsAgree, [Next]_vars PROVE ObjectsAgree'
<1>1. CASE \E type \in Types : Ending(type)
  BY <1>1, EndingStep
<1>2. CASE \E w \in Workers, t \in Threads : WorkerStep(w, t)
  BY <1>2, WorkerStepKeeps
<1>3. CASE UNCHANGED vars
  <2>1. \A w \in Workers : Alive(w)' = Alive(w)
    BY <1>3 DEF vars, Alive
  <2> QED BY <1>3, <2>1 DEF vars, ObjectsAgree, TypeOK, ReceiverHasPlayer, CallsAgree, FlagsUp,
                            WorkersFit
<1> QED BY <1>1, <1>2, <1>3, PeerConnectsStep, AnsweredStep, HungUpStep, PlayStoppedStep,
           CallStep, FinishStep, ReadStoppedStep DEF Next, MainStep, Types, Threads

\* EchoManager and BaseThread: the session, the application's own call state,
\* its flags, its objects and the threads that use them fit together, whatever
\* order calls, notifications and the threads' steps come in.
THEOREM AppConsistent == Spec => []ObjectsAgree
<1>1. Init => ObjectsAgree
  <2> SUFFICES ASSUME Init PROVE ObjectsAgree
    OBVIOUS
  <2>1. TypeOK
    BY DEF Init, TypeOK, NoCall
  <2>2. \A w \in Workers : Alive(w) = {}
    BY DEF Init, Alive
  <2> QED BY <2>1, <2>2 DEF Init, NoCall, ObjectsAgree, ReceiverHasPlayer, CallsAgree, FlagsUp,
                            WorkersFit
<1>2. ObjectsAgree /\ [Next]_vars => ObjectsAgree'
  BY AppStep
<1> QED BY <1>1, <1>2, PTL DEF Spec

\* EchoManager.cpp:75, 88, 109: although both threads write state_ without a
\* lock, it is inited when both rest without a call.
THEOREM NewCallPossible == Spec => []CanCallAgain
<1>1. ObjectsAgree => CanCallAgain
  BY DEF ObjectsAgree, CallsAgree, CanCallAgain
<1> QED BY <1>1, AppConsistent, PTL

\* EchoManager.cpp:273: a worker whose start() never met a thread that was
\* alive or being stopped uses only what still exists.
THEOREM UsedObjectsExist == Spec => []ObjectOutlivesUse
<1>1. ObjectsAgree => ObjectOutlivesUse
  <2> SUFFICES ASSUME ObjectsAgree, NEW w \in Workers, NEW t \in Threads,
                      pc[w][t] = "use", w \notin overlap, target[w] \in deleted[w]
               PROVE  FALSE
    BY DEF ObjectOutlivesUse, Threads
  <2>1. t \in Alive(w)
    BY DEF Alive, Threads
  <2> QED BY <2>1 DEF ObjectsAgree, WorkersFit
<1> QED BY <1>1, AppConsistent, PTL
=============================================================================
