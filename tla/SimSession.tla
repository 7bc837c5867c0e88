---------------------------- MODULE SimSession ----------------------------
(***************************************************************************)
(* The session layer, sim_transport/sim_session.c: two endpoints that call *)
(* each other over UDP.  A call is one-way: the endpoint that connects     *)
(* owns a sender, the endpoint that is connected to owns a receiver, and   *)
(* an endpoint may be both at once, in two calls.                          *)
(*                                                                         *)
(* Every handler, timer and user call runs under s->mutex: one action      *)
(* each.  The network loses, duplicates and reorders.  Media messages act  *)
(* on the sender and the receiver only; for the session they are what any  *)
(* message is, a sign of life.                                             *)
(***************************************************************************)
EXTENDS Integers, FiniteSets

CONSTANTS
    Peers,           \* the two endpoints
    Callers,         \* those whose application calls sim_connect
    MaxCalls,        \* bound: calls made in a behaviour
    MaxFir,          \* bound: key frame requests one receiver makes
    NetCap,          \* bound: signalling messages a lossy network holds
    KeepaliveCap,    \* bound: the other messages it holds
    Networks,        \* the networks considered: "reliable" or "lossy"
    Repeating,       \* those of them that may deliver a datagram more than once
    MayFail,         \* a lossy network may fail for good
    ConnectTick,     \* TICK_DELAY_MS, in units of the ping period (4)
    PingTick,        \* TICK_DELAY_MS / 4 (1)
    ConnectTries,    \* resends allowed at the slow period: 10000 / 1000
    PingTries,       \* and at the fast one: 10000 / 250
    InterruptAfter   \* unanswered pings before net_interrupt (12)

ASSUME SessionAssumption ==
    /\ IsFiniteSet(Peers) /\ Cardinality(Peers) = 2
    /\ Callers \subseteq Peers
    /\ {MaxCalls, MaxFir} \subseteq Nat
    /\ Networks \subseteq {"reliable", "lossy"} /\ Repeating \subseteq Networks
    /\ MayFail \in BOOLEAN
    /\ {NetCap, KeepaliveCap, PingTick, ConnectTries, PingTries, InterruptAfter} \subseteq Nat \ {0}
    /\ ConnectTick \in Nat /\ ConnectTick > PingTick

VARIABLES
    ep,         \* endpoint -> its sim_session_t
    net,        \* endpoint -> messages on their way to it
    calls,      \* call ids drawn so far
    app,        \* history: what notify_cb has told each application
    network     \* what the network does to messages; "down" once it failed for good

vars == <<ep, net, calls, app, network>>

Other(p) == CHOOSE q \in Peers : q # p

\* sim_session_create, and every field of the control state after
\* sim_session_reset.  0 stands for a call id that was never sent.
Fresh == [state |-> "idle", scid |-> 0, rcid |-> 0, resend |-> 0, age |-> 0,
          interrupt |-> "normal", fir_seq |-> 0,
          sender |-> FALSE, receiver |-> FALSE, rfir |-> 0]

Types == {"CONNECT", "CONNECT_ACK", "DISCONNECT", "DISCONNECT_ACK", "PING", "PONG", "FIR"}
Msg(type, id) == [type |-> type, id |-> id]
MsgSet == [type : Types, id : 0 .. (MaxCalls + MaxFir)]

EpSet == [state : {"idle", "connecting", "connected", "disconnected"},
          scid : 0 .. MaxCalls, rcid : 0 .. MaxCalls,
          resend : 0 .. (PingTries + ConnectTries), age : 0 .. ConnectTick,
          interrupt : {"normal", "interrupt", "recover"}, fir_seq : 0 .. MaxFir,
          sender : BOOLEAN, receiver : BOOLEAN, rfir : 0 .. MaxFir]

TypeOK ==
    /\ ep \in [Peers -> EpSet]
    /\ net \in [Peers -> SUBSET MsgSet]
    /\ calls \in 0 .. MaxCalls
    /\ app \in [Peers -> [call : {"down", "up"}, playing : BOOLEAN]]
    /\ network \in {"reliable", "lossy", "down"}

Init ==
    /\ ep = [p \in Peers |-> Fresh]
    /\ net = [p \in Peers |-> {}]
    /\ calls = 0
    /\ app = [p \in Peers |-> [call |-> "down", playing |-> FALSE]]
    /\ network \in Networks

-----------------------------------------------------------------------------
(* Messages *)

IsKeepalive(m) == m.type \in {"PING", "PONG", "FIR"}

\* Too many messages of m's sort are on their way (keep-alives never crowd out
\* the messages that set up and end calls).
Crowded(boxes, m) ==
    LET alike(p) == Cardinality({n \in boxes[p] : IsKeepalive(n) = IsKeepalive(m)})
    IN  \E p \in Peers :
            alike(p) + alike(Other(p)) >= IF IsKeepalive(m) THEN KeepaliveCap ELSE NetCap

\* su_udp_send to q: the datagram is on its way, or lost: by a network that is
\* down, or by one that is not reliable when too many are on their way.
Posted(boxes, q, m) ==
    IF network = "down" \/ (network = "lossy" /\ m \notin boxes[q] /\ Crowded(boxes, m))
    THEN boxes
    ELSE [boxes EXCEPT ![q] = @ \union {m}]

\* p sends m and receives nothing.
Post(p, m) == net' = Posted(net, Other(p), m)

\* The network once p has m: without it, or with a duplicate still on its way.
Without(p, m) ==
    {[net EXCEPT ![p] = @ \ {m}]} \union IF network \in Repeating THEN {net} ELSE {}

\* p takes m from the network.
Take(p, m) == m \in net[p] /\ net' \in Without(p, m)

\* p takes m and answers r at once.
TakeAndReply(p, m, r) ==
    m \in net[p] /\ \E boxes \in Without(p, m) : net' = Posted(boxes, Other(p), r)

SeenKeepsInterrupt(e) == [e EXCEPT !.resend = 0]

\* The head of sim_session_process, for any valid message: the peer lives.
Seen(e) == [e EXCEPT !.resend = 0,
                     !.interrupt = IF @ = "interrupt" THEN "recover" ELSE @]

-----------------------------------------------------------------------------
(* User calls *)

\* sim_session_connect
Connect(p) ==
    /\ p \in Callers
    /\ ep[p].state = "idle"
    /\ calls < MaxCalls
    /\ calls' = calls + 1
    /\ ep' = [ep EXCEPT ![p].state = "connecting", ![p].scid = calls', ![p].fir_seq = 0,
                        ![p].resend = 1, ![p].age = 0]
    /\ Post(p, Msg("CONNECT", calls'))
    /\ UNCHANGED <<app, network>>

\* sim_session_disconnect
Disconnect(p) ==
    /\ ep[p].state \in {"connecting", "connected"}
    /\ ep' = [ep EXCEPT ![p].state = "disconnected", ![p].resend = 1, ![p].age = 0]
    /\ Post(p, Msg("DISCONNECT", ep[p].scid))
    /\ UNCHANGED <<calls, app, network>>

-----------------------------------------------------------------------------
(* Handlers: sim_session_process and process_sim_* *)

\* process_sim_connect: the receiver is created, or reset when there is one.
RecvConnect(p) ==
    \E m \in net[p] :
        /\ m.type = "CONNECT"
        /\ ep' = [ep EXCEPT ![p] = [Seen(@) EXCEPT !.receiver = TRUE, !.rfir = 0,
                                                   !.rcid = m.id, !.age = 0]]
        /\ app' = [app EXCEPT ![p].playing = IF ep[p].receiver THEN @ ELSE TRUE]
        /\ TakeAndReply(p, m, Msg("CONNECT_ACK", m.id))
        /\ UNCHANGED <<calls, network>>

\* process_sim_connect_ack: the id in the message is not looked at, and its
\* result is 0, the only one ever sent.
RecvConnectAck(p) ==
    \E m \in net[p] :
        /\ m.type = "CONNECT_ACK"
        /\ IF ep[p].state = "connecting"
           THEN /\ ep' = [ep EXCEPT ![p] = [Seen(@) EXCEPT !.state = "connected",
                                                           !.sender = TRUE,
                                                           !.interrupt = "recover"]]
                /\ app' = [app EXCEPT ![p].call = "up"]
           ELSE ep' = [ep EXCEPT ![p] = Seen(@)] /\ UNCHANGED app
        /\ Take(p, m)
        /\ UNCHANGED <<calls, network>>

HangsUp(e, m) == e.receiver

\* Whether a DISCONNECT ends the call the receiver serves.
EndsReceiver(e, m) == e.rcid = m.id /\ e.receiver

AnswersOwnCallOnly(p) ==
    \E m \in net[p] :
        /\ m.type = "DISCONNECT"
        /\ IF EndsReceiver(ep[p], m)
           THEN /\ ep' = [ep EXCEPT ![p] = [Seen(@) EXCEPT !.receiver = FALSE, !.rfir = 0]]
                /\ app' = [app EXCEPT ![p].playing = FALSE]
                /\ TakeAndReply(p, m, Msg("DISCONNECT_ACK", m.id))
           ELSE ep' = [ep EXCEPT ![p] = Seen(@)] /\ UNCHANGED app /\ Take(p, m)
        /\ UNCHANGED <<calls, network>>

\* process_sim_disconnect: always answered.
RecvDisconnect(p) ==
    \E m \in net[p] :
        /\ m.type = "DISCONNECT"
        /\ IF EndsReceiver(ep[p], m)
           THEN /\ ep' = [ep EXCEPT ![p] = [Seen(@) EXCEPT !.receiver = FALSE, !.rfir = 0]]
                /\ app' = [app EXCEPT ![p].playing = FALSE]
           ELSE ep' = [ep EXCEPT ![p] = Seen(@)] /\ UNCHANGED app
        /\ TakeAndReply(p, m, Msg("DISCONNECT_ACK", m.id))
        /\ UNCHANGED <<calls, network>>

\* process_sim_disconnect_ack: the whole session is reset, its receiver too.
RecvDisconnectAck(p) ==
    \E m \in net[p] :
        /\ m.type = "DISCONNECT_ACK"
        /\ IF ep[p].state = "disconnected"
           THEN /\ ep' = [ep EXCEPT ![p] = Fresh]
                /\ app' = [app EXCEPT ![p].call = "down"]
           ELSE ep' = [ep EXCEPT ![p] = Seen(@)] /\ UNCHANGED app
        /\ Take(p, m)
        /\ UNCHANGED <<calls, network>>

\* process_sim_ping and process_sim_pong, in any state.
RecvPing(p) ==
    /\ ep' = [ep EXCEPT ![p] = Seen(@)]
    /\ TakeAndReply(p, Msg("PING", 0), Msg("PONG", 0))
    /\ UNCHANGED <<calls, app, network>>

RecvPong(p) ==
    /\ ep' = [ep EXCEPT ![p] = Seen(@)]
    /\ Take(p, Msg("PONG", 0))
    /\ UNCHANGED <<calls, app, network>>

\* sim_receiver_send_fir, when the receiver misses a key frame.
SendFir(p) ==
    /\ ep[p].receiver
    /\ ep[p].rfir < MaxFir
    /\ ep' = [ep EXCEPT ![p].rfir = @ + 1]
    /\ Post(p, Msg("FIR", ep[p].rfir + 1))
    /\ UNCHANGED <<calls, app, network>>

\* process_sim_fir: only a number above those seen asks for a key frame.
RecvFir(p) ==
    \E m \in net[p] :
        /\ m.type = "FIR"
        /\ ep' = [ep EXCEPT ![p] = [Seen(@) EXCEPT !.fir_seq = IF ep[p].fir_seq < m.id
                                                               THEN m.id ELSE ep[p].fir_seq]]
        /\ Take(p, m)
        /\ UNCHANGED <<calls, app, network>>

-----------------------------------------------------------------------------
(* Timers: sim_session_heartbeat and sim_session_state_timer *)

Signalling(e) == e.state \in {"connecting", "disconnected"}
SlowDue(e) == Signalling(e) /\ e.age >= ConnectTick
FastDue(e) == (e.sender \/ e.receiver) /\ e.age >= PingTick /\ ~SlowDue(e)

RepeatUncounted(p) ==
    /\ SlowDue(ep[p])
    /\ ep[p].resend < ConnectTries
    /\ ep' = [ep EXCEPT ![p].age = 0]
    /\ Post(p, Msg(IF ep[p].state = "connecting" THEN "CONNECT" ELSE "DISCONNECT", ep[p].scid))
    /\ UNCHANGED <<calls, app, network>>

\* The slow timer repeats CONNECT or DISCONNECT.
RepeatSignal(p) ==
    /\ SlowDue(ep[p])
    /\ ep[p].resend < ConnectTries
    /\ ep' = [ep EXCEPT ![p].age = 0, ![p].resend = @ + 1]
    /\ Post(p, Msg(IF ep[p].state = "connecting" THEN "CONNECT" ELSE "DISCONNECT", ep[p].scid))
    /\ UNCHANGED <<calls, app, network>>

PingUncounted(p) ==
    /\ FastDue(ep[p])
    /\ ep[p].resend < PingTries
    /\ ep' = [ep EXCEPT ![p].age = 0]
    /\ Post(p, Msg("PING", 0))
    /\ UNCHANGED <<calls, app, network>>

\* sim_session_send_ping, by the fast timer; it shares commad_ts (age) and
\* resend with the slow one.
Ping(p) ==
    /\ FastDue(ep[p])
    /\ ep[p].resend < PingTries
    /\ ep' = [ep EXCEPT ![p].age = 0, ![p].resend = @ + 1,
                        ![p].interrupt = IF ep[p].resend + 1 > InterruptAfter
                                         THEN "interrupt" ELSE @]
    /\ Post(p, Msg("PING", 0))
    /\ UNCHANGED <<calls, app, network>>

\* One of the timers has run out of tries.
TimedOut(e) ==
    \/ SlowDue(e) /\ e.resend >= ConnectTries
    \/ FastDue(e) /\ e.resend >= PingTries

GiveUpSilently(p) ==
    /\ TimedOut(ep[p])
    /\ ep' = [ep EXCEPT ![p] = Fresh]
    /\ app' = [app EXCEPT ![p].call = "down"]
    /\ UNCHANGED <<net, calls, network>>

\* Either timer after 10 seconds without a sign of life: stop_play for a
\* receiver, then sim_session_reset, then the failure is told.
GiveUp(p) ==
    /\ TimedOut(ep[p])
    /\ ep' = [ep EXCEPT ![p] = Fresh]
    /\ app' = [app EXCEPT ![p] = [call |-> "down",
                                  playing |-> IF ep[p].receiver THEN FALSE ELSE @.playing]]
    /\ UNCHANGED <<net, calls, network>>

Heartbeat(p) == RepeatSignal(p) \/ Ping(p) \/ GiveUp(p)

\* A ping period passes on p's clock; age matters only while a timer runs.  A
\* heartbeat may come late, when a callback held the session thread.
Tick(p) ==
    /\ Signalling(ep[p]) \/ ep[p].sender \/ ep[p].receiver
    /\ ep[p].age < ConnectTick
    /\ ep' = [ep EXCEPT ![p].age = @ + 1]
    /\ UNCHANGED <<net, calls, app, network>>

-----------------------------------------------------------------------------
(* The network *)

Lose(p) ==
    /\ network = "lossy"
    /\ \E m \in net[p] :
           net' = [net EXCEPT ![p] = @ \ {m}]
    /\ UNCHANGED <<ep, calls, app, network>>

\* From now on nothing gets through.
Cut ==
    /\ MayFail /\ network = "lossy"
    /\ network' = "down"
    /\ net' = [p \in Peers |-> {}]
    /\ UNCHANGED <<ep, calls, app>>

Receive(p) ==
    \/ RecvConnect(p)
    \/ RecvConnectAck(p)
    \/ RecvDisconnect(p)
    \/ RecvDisconnectAck(p)
    \/ RecvPing(p)
    \/ RecvPong(p)
    \/ RecvFir(p)

Next ==
    \/ \E p \in Peers : Connect(p)
    \/ \E p \in Peers : Disconnect(p)
    \/ \E p \in Peers : SendFir(p)
    \/ \E p \in Peers : Receive(p)
    \/ \E p \in Peers : Heartbeat(p)
    \/ \E p \in Peers : Tick(p)
    \/ \E p \in Peers : Lose(p)
    \/ Cut

Spec == Init /\ [][Next]_vars

\* The session thread polls the socket and runs the heartbeat forever, time
\* passes, and a signal repeated forever gets through now and then.
Fairness ==
    /\ \A p \in Peers : WF_vars(Tick(p)) /\ WF_vars(Heartbeat(p))
    /\ SF_vars(\E p \in Peers : RecvConnect(p))
    /\ SF_vars(\E p \in Peers : RecvConnectAck(p))
    /\ SF_vars(\E p \in Peers : RecvDisconnect(p))
    /\ SF_vars(\E p \in Peers : RecvDisconnectAck(p))

FairSpec == Spec /\ Fairness

-----------------------------------------------------------------------------
(* Safety *)

\* A sender exists only while its call does, and a connected session has one:
\* sim_session_send_video never meets a sender of an earlier call.
SenderBelongsToCall ==
    \A p \in Peers :
        /\ ep[p].sender => ep[p].state \in {"connected", "disconnected"}
        /\ ep[p].state = "connected" => ep[p].sender
        /\ (app[p].call = "up") = ep[p].sender

\* A receiver always has a listener, and no receiver goes away behind the
\* application's back, except by the application's own hang-up, whose answer
\* resets the whole session (process_sim_disconnect_ack).
PlayingIsTold ==
    [][\A p \in Peers :
          /\ ep'[p].receiver => app'[p].playing
          /\ ep[p].receiver /\ ~ep'[p].receiver
               => ~app'[p].playing \/ ep[p].state = "disconnected"]_vars

\* No late or repeated DISCONNECT of an older call takes the receiver from a
\* call that is up on both sides: only the receiving side's own hang-up does, or
\* its timer after all its tries went without a sign of life
\* (sim_session.c:438-468, 746-758).
LiveCallKeepsReceiver ==
    [][\A p \in Peers :
          LET q == Other(p)
          IN  /\ ep[p].state = "connected"
              /\ ep[q].receiver
              /\ ep[q].rcid = ep[p].scid
              /\ ~ep'[q].receiver
              => \/ ep[q].state = "disconnected"
                 \/ TimedOut(ep[q]) /\ ep'[q] = Fresh]_vars

\* sim_session_send_video drops frames only while the peer is silent: a
\* connected session that counts as interrupted has missed its pings since
\* the last message, so an interruption never outlives the silence.
FramesDroppedInSilence ==
    \A p \in Peers :
        ep[p].state = "connected" /\ ep[p].interrupt = "interrupt"
            => ep[p].resend > InterruptAfter

\* A receiver has a listener in every state, not only when it is created.
ReceiverIsPlayed == \A p \in Peers : ep[p].receiver => app[p].playing

\* The signals on their way: an endpoint that is in a call has not hung up on
\* it, so that no DISCONNECT of that call is under way, and no id is ahead of
\* the calls made, so that a new call is in no signal yet.
SignalsFit ==
    \A p \in Peers :
        /\ ep[p].scid <= calls
        /\ \A m \in net[p] :
              /\ m.type \in {"CONNECT", "DISCONNECT"} => m.id <= calls
              /\ m.type = "FIR" => m.id <= MaxFir
              /\ m.type = "DISCONNECT" /\ ep[Other(p)].state \in {"connecting", "connected"}
                    => m.id # ep[Other(p)].scid

\* What an endpoint keeps fits together and fits what is under way, between
\* any two handlers: an invariant that every step preserves by itself.
SessionInv ==
    /\ TypeOK
    /\ SenderBelongsToCall
    /\ FramesDroppedInSilence
    /\ ReceiverIsPlayed
    /\ SignalsFit

-----------------------------------------------------------------------------
(* Liveness *)

\* A call being made gets somewhere: connected, abandoned, or given up, unless
\* the endpoint serves the peer's own call.  (While it does, its pings set back
\* commad_ts, so that the slow timer never repeats a CONNECT that was lost, and
\* the answers to them keep the failure from being counted: sim_session.c:597,
\* 661, 718-759.)
ConnectEnds ==
    \A p \in Callers :
        ep[p].state = "connecting" ~> ep[p].state # "connecting" \/ ep[p].receiver

\* A hang-up ends when the network loses nothing, whatever the timers repeat,
\* whatever crosses and whatever comes late.  (When it loses DISCONNECT or the answer, and the peer's pings go
\* on, nothing repeats it: the two timers share commad_ts.)
HangupEnds ==
    \A p \in Callers :
        network = "reliable" /\ ep[p].state = "disconnected" ~> ep[p].state = "idle"

\* When the peer is gone for good, the session comes back to idle by itself
\* and lets go of its sender and its receiver.
DeadPeerDetected ==
    \A p \in Peers :
        network = "down" ~> (ep[p].state = "idle" /\ ~ep[p].sender /\ ~ep[p].receiver)
=============================================================================
