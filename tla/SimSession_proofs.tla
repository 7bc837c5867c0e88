-------------------------- MODULE SimSession_proofs --------------------------
(***************************************************************************)
(* Machine-checked proofs about the session layer, for any number of calls *)
(* and any network: its invariant, what a receiver's application is told,  *)
(* and that a call that is up keeps its receiver.                          *)
(*                                                                         *)
(* Every step is one of endpoint p.  It changes p's own state, takes at    *)
(* most one message from p and posts at most one to the other.  EndpointFits *)
(* and MessageFits say what the step must leave, EndpointStep that this is *)
(* enough for both endpoints and all that is under way.                    *)
(***************************************************************************)
EXTENDS SimSession, FiniteSetTheorems, TLAPS

AppSet == [call : {"down", "up"}, playing : BOOLEAN]

InCall(e) == e.state \in {"connecting", "connected"}

\* What the state e of an endpoint and the knowledge a of its application owe
\* to each other.
EndpointFits(e, a) ==
    /\ e \in EpSet /\ a \in AppSet
    /\ e.sender => e.state \in {"connected", "disconnected"}
    /\ e.state = "connected" => e.sender
    /\ (a.call = "up") = e.sender
    /\ e.state = "connected" /\ e.interrupt = "interrupt" => e.resend > InterruptAfter
    /\ e.receiver => a.playing

\* What a message posted by the endpoint in state e owes to it when n calls
\* were made.
MessageFits(m, e, n) ==
    /\ m \in MsgSet
    /\ m.type \in {"CONNECT", "DISCONNECT"} => m.id <= n
    /\ m.type = "FIR" => m.id <= MaxFir
    /\ m.type = "DISCONNECT" /\ InCall(e) => m.id # e.scid

\* There are two endpoints: the other one's other one is oneself.
LEMMA TwoPeers ==
    ASSUME NEW p \in Peers
    PROVE  /\ Other(p) \in Peers /\ Other(p) # p
           /\ \A q \in Peers : q = p \/ q = Other(p)
           /\ Other(Other(p)) = p
<1>1. IsFiniteSet(Peers) /\ Cardinality(Peers) = 2
  BY SessionAssumption DEF SessionAssumption
<1>2. IsFiniteSet(Peers \ {p}) /\ Cardinality(Peers \ {p}) = 1
  BY <1>1, FS_RemoveElement
<1>3. PICK x : Peers \ {p} = {x}
  BY <1>2, FS_Singleton
<1>4. x \in Peers /\ x # p /\ \A q \in Peers : q = p \/ q = x
  BY <1>3
<1>5. Other(p) = x
  BY <1>4 DEF Other
<1>6. Other(x) = p
  BY <1>4 DEF Other
<1> QED BY <1>4, <1>5, <1>6

\* The invariant, seen from one endpoint.
LEMMA SessionInvAt ==
    ASSUME SessionInv, NEW p \in Peers
    PROVE  /\ EndpointFits(ep[p], app[p])
           /\ ep[p].scid <= calls
           /\ net[p] \subseteq MsgSet
           /\ \A m \in net[p] : MessageFits(m, ep[Other(p)], calls)
<1>1. EndpointFits(ep[p], app[p])
  BY DEF SessionInv, TypeOK, SenderBelongsToCall, FramesDroppedInSilence, ReceiverIsPlayed,
         EndpointFits, AppSet
<1>2. net[p] \subseteq MsgSet
  BY DEF SessionInv, TypeOK
<1>3. \A m \in net[p] : MessageFits(m, ep[Other(p)], calls)
  BY <1>2 DEF SessionInv, SignalsFit, MessageFits, InCall
<1> QED BY <1>1, <1>2, <1>3 DEF SessionInv, SignalsFit

-----------------------------------------------------------------------------
(* Messages *)

\* su_udp_send: the message joins what is under way to the other endpoint, or
\* is lost.
LEMMA Posts ==
    ASSUME NEW boxes \in [Peers -> SUBSET MsgSet], NEW q \in Peers, NEW m \in MsgSet
    PROVE  /\ Posted(boxes, q, m) \in [Peers -> SUBSET MsgSet]
           /\ Posted(boxes, q, m)[q] \subseteq boxes[q] \union {m}
           /\ \A p \in Peers \ {q} : Posted(boxes, q, m)[p] = boxes[p]
<1>1. \/ Posted(boxes, q, m) = boxes
      \/ Posted(boxes, q, m) = [boxes EXCEPT ![q] = boxes[q] \union {m}]
  BY DEF Posted
<1> QED BY <1>1

LEMMA Posting ==
    ASSUME SessionInv, NEW p \in Peers, NEW m \in MsgSet, Post(p, m)
    PROVE  /\ net' \in [Peers -> SUBSET MsgSet]
           /\ net'[p] \subseteq net[p]
           /\ net'[Other(p)] \subseteq net[Other(p)] \union {m}
<1>1. net \in [Peers -> SUBSET MsgSet] /\ Other(p) \in Peers /\ p \in Peers \ {Other(p)}
  BY TwoPeers DEF SessionInv, TypeOK
<1>2. net' = Posted(net, Other(p), m)
  BY DEF Post
<1> QED BY <1>1, <1>2, Posts

\* What is left of the network once a message is taken is part of what was.
LEMMA Leaving ==
    ASSUME SessionInv, NEW p \in Peers, NEW m, NEW boxes \in Without(p, m)
    PROVE  /\ boxes \in [Peers -> SUBSET MsgSet]
           /\ \A q \in Peers : boxes[q] \subseteq net[q]
<1>1. net \in [Peers -> SUBSET MsgSet]
  BY DEF SessionInv, TypeOK
<1>2. boxes = net \/ boxes = [net EXCEPT ![p] = net[p] \ {m}]
  BY DEF Without
<1> QED BY <1>1, <1>2

\* Taking a message posts nothing.
LEMMA Taking ==
    ASSUME SessionInv, NEW p \in Peers, NEW m, Take(p, m)
    PROVE  /\ net' \in [Peers -> SUBSET MsgSet]
           /\ net'[p] \subseteq net[p]
           /\ net'[Other(p)] \subseteq net[Other(p)]
<1>1. Other(p) \in Peers /\ net' \in Without(p, m)
  BY TwoPeers DEF Take
<1> QED BY <1>1, Leaving

LEMMA Replying ==
    ASSUME SessionInv, NEW p \in Peers, NEW m, NEW r \in MsgSet, TakeAndReply(p, m, r)
    PROVE  /\ net' \in [Peers -> SUBSET MsgSet]
           /\ net'[p] \subseteq net[p]
           /\ net'[Other(p)] \subseteq net[Other(p)] \union {r}
<1>1. Other(p) \in Peers /\ p \in Peers \ {Other(p)}
  BY TwoPeers
<1>2. PICK boxes \in Without(p, m) : net' = Posted(boxes, Other(p), r)
  BY DEF TakeAndReply
<1>3. /\ boxes \in [Peers -> SUBSET MsgSet]
      /\ boxes[p] \subseteq net[p] /\ boxes[Other(p)] \subseteq net[Other(p)]
  BY <1>1, Leaving
<1>4. /\ net' \in [Peers -> SUBSET MsgSet]
      /\ net'[Other(p)] \subseteq boxes[Other(p)] \union {r}
      /\ net'[p] = boxes[p]
  BY <1>1, <1>2, <1>3, Posts
<1> QED BY <1>3, <1>4

-----------------------------------------------------------------------------
(* The invariant *)

\* A step of p that leaves p and what it posts fitting leaves everything so:
\* a call the endpoint is in after the step is new, or it was in it before.
LEMMA EndpointStep ==
    ASSUME SessionInv, NEW p \in Peers, NEW new,
           ep' = [ep EXCEPT ![p] = ep'[p]],
           app' = [app EXCEPT ![p] = app'[p]],
           EndpointFits(ep'[p], app'[p]),
           calls' \in 0 .. MaxCalls, calls <= calls', ep'[p].scid <= calls',
           InCall(ep'[p]) => ep'[p].scid > calls \/ (ep'[p].scid = ep[p].scid /\ InCall(ep[p])),
           net' \in [Peers -> SUBSET MsgSet],
           net'[p] \subseteq net[p],
           net'[Other(p)] \subseteq net[Other(p)] \union new,
           \A m \in new : MessageFits(m, ep'[p], calls'),
           network' = network
    PROVE  SessionInv'
<1> DEFINE q == Other(p)
<1>1. q \in Peers /\ q # p /\ Other(q) = p /\ \A r \in Peers : r = p \/ r = q
  BY TwoPeers
<1>2. /\ ep \in [Peers -> EpSet] /\ app \in [Peers -> AppSet]
      /\ calls \in 0 .. MaxCalls /\ MaxCalls \in Nat
  BY SessionAssumption DEF SessionAssumption, SessionInv, TypeOK, AppSet
<1>3. ep'[q] = ep[q] /\ app'[q] = app[q]
  BY <1>1, <1>2
<1>4. ep' \in [Peers -> EpSet] /\ app' \in [Peers -> AppSet]
  BY <1>2 DEF EndpointFits
<1>5. \A r \in Peers : EndpointFits(ep'[r], app'[r]) /\ ep'[r].scid <= calls'
  <2>1. EndpointFits(ep[q], app[q]) /\ ep[q].scid <= calls
    BY <1>1, SessionInvAt
  <2>2. ep[q].scid <= calls'
    BY <1>1, <1>2, <2>1 DEF EpSet
  <2> QED BY <1>1, <1>3, <2>1, <2>2
<1>6. \A m \in net'[p] : MessageFits(m, ep'[q], calls')
  <2>1. \A m \in net[p] : MessageFits(m, ep[q], calls)
    BY SessionInvAt
  <2>2. \A m \in MsgSet : m.id <= calls => m.id <= calls'
    BY <1>2 DEF MsgSet
  <2> QED BY <1>3, <2>1, <2>2 DEF MessageFits
<1>7. \A m \in net'[q] : MessageFits(m, ep'[p], calls')
  <2>1. ASSUME NEW m \in net[q] PROVE MessageFits(m, ep'[p], calls')
    <3>1. MessageFits(m, ep[p], calls)
      BY <1>1, SessionInvAt
    <3>2. m.id \in Int
      BY <3>1, <1>2, SessionAssumption DEF MessageFits, MsgSet, SessionAssumption
    <3>3. m.id <= calls => m.id <= calls'
      BY <1>2, <3>2
    <3>4. ASSUME m.type = "DISCONNECT", InCall(ep'[p]), m.id = ep'[p].scid PROVE FALSE
      <4>1. m.id <= calls
        BY <3>1, <3>4 DEF MessageFits
      <4>2. CASE ep'[p].scid > calls
        BY <1>2, <3>2, <3>4, <4>1, <4>2
      <4>3. CASE ep'[p].scid = ep[p].scid /\ InCall(ep[p])
        BY <3>1, <3>4, <4>3 DEF MessageFits
      <4> QED BY <3>4, <4>2, <4>3
    <3> QED BY <3>1, <3>3, <3>4 DEF MessageFits
  <2> QED BY <2>1
<1>8. TypeOK'
  BY <1>2, <1>4 DEF SessionInv, TypeOK, AppSet
<1>9. SenderBelongsToCall' /\ FramesDroppedInSilence' /\ ReceiverIsPlayed'
  BY <1>5 DEF EndpointFits, SenderBelongsToCall, FramesDroppedInSilence, ReceiverIsPlayed
<1>10. SignalsFit'
  <2>1. ASSUME NEW r \in Peers PROVE \A m \in net'[r] : MessageFits(m, ep'[Other(r)], calls')
    <3>1. CASE r = p
      BY <1>6, <3>1
    <3>2. CASE r = q
      BY <1>1, <1>7, <3>2
    <3> QED BY <1>1, <3>1, <3>2
  <2> QED BY <1>5, <2>1 DEF SignalsFit, MessageFits, InCall
<1> QED BY <1>8, <1>9, <1>10 DEF SessionInv

\* What the constants are, in the form the steps need.
LEMMA SessionConstants ==
    /\ MaxCalls \in Nat /\ MaxFir \in Nat
    /\ PingTick \in Nat /\ ConnectTick \in Nat /\ PingTick < ConnectTick /\ 0 < ConnectTick
    /\ PingTries \in Nat \ {0} /\ ConnectTries \in Nat \ {0} /\ InterruptAfter \in Nat \ {0}
BY SessionAssumption DEF SessionAssumption

Resends == 0 .. (PingTries + ConnectTries)

\* The fields of an endpoint are set one by one.
LEMMA EpSetUpdates ==
    ASSUME NEW e \in EpSet
    PROVE  /\ \A x \in {"idle", "connecting", "connected", "disconnected"} :
                 [e EXCEPT !.state = x] \in EpSet
           /\ \A x \in 0 .. MaxCalls : [e EXCEPT !.scid = x] \in EpSet
           /\ \A x \in 0 .. MaxCalls : [e EXCEPT !.rcid = x] \in EpSet
           /\ \A x \in Resends : [e EXCEPT !.resend = x] \in EpSet
           /\ \A x \in 0 .. ConnectTick : [e EXCEPT !.age = x] \in EpSet
           /\ \A x \in {"normal", "interrupt", "recover"} : [e EXCEPT !.interrupt = x] \in EpSet
           /\ \A x \in BOOLEAN : [e EXCEPT !.sender = x] \in EpSet
           /\ \A x \in BOOLEAN : [e EXCEPT !.receiver = x] \in EpSet
           /\ \A x \in 0 .. MaxFir : [e EXCEPT !.fir_seq = x] \in EpSet
           /\ \A x \in 0 .. MaxFir : [e EXCEPT !.rfir = x] \in EpSet
BY DEF EpSet, Resends

LEMMA FirstValues == 0 \in 0 .. MaxCalls /\ 0 \in 0 .. MaxFir /\ 0 \in 0 .. ConnectTick
BY SessionConstants

LEMMA ResendValues == 0 \in Resends /\ 1 \in Resends
                      /\ \A n \in 0 .. PingTries : n \in Resends
                      /\ \A k \in 0 .. ConnectTries : k \in Resends
BY SessionConstants DEF Resends

\* A message that does not change the session leaves the endpoint fitting.
LEMMA SeenFits ==
    ASSUME NEW e \in EpSet, NEW a, EndpointFits(e, a)
    PROVE  /\ Seen(e) \in EpSet
           /\ EndpointFits(Seen(e), a)
           /\ Seen(e).scid = e.scid /\ Seen(e).rcid = e.rcid /\ Seen(e).state = e.state
           /\ Seen(e).receiver = e.receiver /\ Seen(e).sender = e.sender
           /\ Seen(e).interrupt \in {"normal", "recover"}
           /\ Seen(e).fir_seq = e.fir_seq /\ Seen(e).rfir = e.rfir
           /\ Seen(e).age = e.age /\ Seen(e).resend = 0
<1>1. Seen(e) \in EpSet
  <2> DEFINE i == IF e.interrupt = "interrupt" THEN "recover" ELSE e.interrupt
             e1 == [e EXCEPT !.resend = 0]
  <2>1. i \in {"normal", "interrupt", "recover"}
    BY DEF EpSet
  <2>2. e1 \in EpSet
    BY EpSetUpdates, ResendValues
  <2>3. [e1 EXCEPT !.interrupt = i] \in EpSet
    <3> HIDE DEF e1, i
    <3> QED BY <2>1, <2>2, EpSetUpdates
  <2>4. Seen(e) = [e1 EXCEPT !.interrupt = i]
    BY DEF Seen
  <2> QED BY <2>3, <2>4
<1> QED BY <1>1 DEF Seen, EpSet, EndpointFits

\* The same for a step of p as a whole: it is Seen that p's state goes through
\* and nothing else, so whatever it takes and answers, everything still fits.
LEMMA SeenStep ==
    ASSUME SessionInv, NEW p \in Peers, NEW new,
           ep' = [ep EXCEPT ![p] = Seen(ep[p])],
           UNCHANGED <<calls, app, network>>,
           net' \in [Peers -> SUBSET MsgSet],
           net'[p] \subseteq net[p],
           net'[Other(p)] \subseteq net[Other(p)] \union new,
           \A m \in new : m \in MsgSet /\ m.type \notin {"CONNECT", "DISCONNECT", "FIR"}
    PROVE  SessionInv'
<1>1. EndpointFits(ep[p], app[p]) /\ ep[p].scid <= calls /\ ep[p] \in EpSet
  BY SessionInvAt DEF EndpointFits
<1>2. ep \in [Peers -> EpSet] /\ app \in [Peers -> AppSet] /\ calls \in 0 .. MaxCalls
  BY DEF SessionInv, TypeOK, AppSet
<1>3. ep'[p] = Seen(ep[p]) /\ app' = [app EXCEPT ![p] = app'[p]] /\ app'[p] = app[p]
  BY <1>2
<1>4. EndpointFits(ep'[p], app'[p]) /\ ep'[p].scid = ep[p].scid /\ ep'[p].state = ep[p].state
  BY <1>1, <1>3, SeenFits
<1>5. \A m \in new : MessageFits(m, ep'[p], calls')
  BY DEF MessageFits
<1>6. ep' = [ep EXCEPT ![p] = ep'[p]]
  BY <1>2
<1>7. calls' \in 0 .. MaxCalls /\ calls <= calls' /\ ep'[p].scid <= calls'
  BY <1>1, <1>2, <1>4, SessionConstants
<1>8. InCall(ep'[p]) => ep'[p].scid = ep[p].scid /\ InCall(ep[p])
  BY <1>4 DEF InCall
<1> QED BY ZenonT(40), <1>3, <1>4, <1>5, <1>6, <1>7, <1>8, EndpointStep

-----------------------------------------------------------------------------
(* One lemma per operation *)

LEMMA ConnectStep == ASSUME SessionInv, NEW p \in Peers, Connect(p) PROVE SessionInv'
<1> DEFINE m == Msg("CONNECT", calls')
<1>1. /\ ep \in [Peers -> EpSet] /\ app \in [Peers -> AppSet] /\ calls \in 0 .. MaxCalls
      /\ ep[p] \in EpSet /\ EndpointFits(ep[p], app[p])
  BY SessionInvAt DEF SessionInv, TypeOK, AppSet
<1>2. /\ calls' = calls + 1 /\ calls' \in 0 .. MaxCalls
      /\ ep[p].state = "idle" /\ app' = app /\ network' = network
  BY <1>1, SessionConstants DEF Connect
<1>3. ep'[p] = [ep[p] EXCEPT !.state = "connecting", !.scid = calls', !.fir_seq = 0,
                             !.resend = 1, !.age = 0]
  BY <1>1 DEF Connect
<1>4. /\ ep'[p] \in EpSet /\ ep'[p].scid = calls' /\ ep'[p].state = "connecting"
      /\ ep'[p].sender = ep[p].sender /\ ep'[p].receiver = ep[p].receiver
  <2> DEFINE e1 == [ep[p] EXCEPT !.state = "connecting"]
             e2 == [e1 EXCEPT !.scid = calls']
             e3 == [e2 EXCEPT !.fir_seq = 0]
             e4 == [e3 EXCEPT !.resend = 1]
             e5 == [e4 EXCEPT !.age = 0]
  <2>1. e1 \in EpSet
    BY <1>1, EpSetUpdates
  <2>2. e2 \in EpSet
    BY <1>2, <2>1, EpSetUpdates
  <2>3. e3 \in EpSet
    BY <2>2, EpSetUpdates, FirstValues
  <2>4. e4 \in EpSet
    BY <2>3, EpSetUpdates, ResendValues
  <2>5. e5 \in EpSet
    BY <2>4, EpSetUpdates, FirstValues
  <2>6. ep'[p] = e5
    BY <1>3
  <2> QED BY <1>1, <1>3, <2>5, <2>6 DEF EpSet
<1>5. EndpointFits(ep'[p], app'[p])
  BY <1>1, <1>2, <1>4 DEF EndpointFits
<1>6. m \in MsgSet /\ m.type = "CONNECT" /\ m.id = calls'
  BY <1>2, SessionConstants DEF Msg, MsgSet, Types
<1>7. MessageFits(m, ep'[p], calls')
  BY <1>2, <1>6 DEF MessageFits
<1>8. Post(p, m)
  BY DEF Connect
<1>9. /\ net' \in [Peers -> SUBSET MsgSet] /\ net'[p] \subseteq net[p]
      /\ net'[Other(p)] \subseteq net[Other(p)] \union {m}
  <2> HIDE DEF m
  <2> QED BY <1>6, <1>8, Posting
<1>10. ep' = [ep EXCEPT ![p] = ep'[p]] /\ app' = [app EXCEPT ![p] = app'[p]]
  BY <1>1, <1>2 DEF Connect
<1> HIDE DEF m
<1>11. calls <= calls' /\ ep'[p].scid <= calls' /\ ep'[p].scid > calls
  BY <1>1, <1>2, <1>4
<1>12. \A x \in {m} : MessageFits(x, ep'[p], calls')
  BY <1>7
<1> QED BY ZenonT(40), <1>2, <1>5, <1>9, <1>10, <1>11, <1>12, EndpointStep

\* What p posts of its own accord while its call lasts or ends.
LEMMA PostStep ==
    ASSUME SessionInv, NEW p \in Peers, NEW m,
           ep' = [ep EXCEPT ![p] = ep'[p]], UNCHANGED <<calls, app, network>>,
           EndpointFits(ep'[p], app[p]), ep'[p].scid = ep[p].scid,
           InCall(ep'[p]) => InCall(ep[p]),
           MessageFits(m, ep'[p], calls), Post(p, m)
    PROVE  SessionInv'
<1>1. app \in [Peers -> AppSet] /\ calls \in 0 .. MaxCalls /\ ep[p].scid <= calls
  BY SessionInvAt DEF SessionInv, TypeOK, AppSet
<1>2. /\ net' \in [Peers -> SUBSET MsgSet] /\ net'[p] \subseteq net[p]
      /\ net'[Other(p)] \subseteq net[Other(p)] \union {m}
  BY Posting DEF MessageFits
<1>3. app' = [app EXCEPT ![p] = app'[p]] /\ app'[p] = app[p]
  BY <1>1
<1>4. calls' \in 0 .. MaxCalls /\ calls <= calls' /\ ep'[p].scid <= calls'
  BY <1>1, SessionConstants
<1>5. \A x \in {m} : MessageFits(x, ep'[p], calls')
  BY <1>4
<1>6. EndpointFits(ep'[p], app'[p])
  BY <1>3
<1> QED BY ZenonT(40), <1>2, <1>3, <1>4, <1>5, <1>6, EndpointStep

LEMMA DisconnectStep == ASSUME SessionInv, NEW p \in Peers, Disconnect(p) PROVE SessionInv'
<1> DEFINE m == Msg("DISCONNECT", ep[p].scid)
<1>1. /\ ep \in [Peers -> EpSet] /\ ep[p] \in EpSet /\ EndpointFits(ep[p], app[p])
      /\ ep[p].scid <= calls
  BY SessionInvAt DEF SessionInv, TypeOK
<1>2. ep'[p] = [ep[p] EXCEPT !.state = "disconnected", !.resend = 1, !.age = 0]
  BY <1>1 DEF Disconnect
<1>3. /\ ep'[p] \in EpSet /\ ep'[p].scid = ep[p].scid /\ ep'[p].state = "disconnected"
      /\ ep'[p].sender = ep[p].sender /\ ep'[p].receiver = ep[p].receiver
  <2> DEFINE e1 == [ep[p] EXCEPT !.state = "disconnected"]
             e2 == [e1 EXCEPT !.resend = 1]
             e3 == [e2 EXCEPT !.age = 0]
  <2>1. e1 \in EpSet
    BY <1>1, EpSetUpdates
  <2>2. e2 \in EpSet
    BY <2>1, EpSetUpdates, ResendValues
  <2>3. e3 \in EpSet
    BY <2>2, EpSetUpdates, FirstValues
  <2>4. ep'[p] = e3
    BY <1>2
  <2> QED BY <1>1, <1>2, <2>3, <2>4 DEF EpSet
<1>4. EndpointFits(ep'[p], app[p])
  BY <1>1, <1>3 DEF EndpointFits
<1>5. MessageFits(m, ep'[p], calls)
  BY <1>1, <1>3, SessionConstants DEF MessageFits, InCall, Msg, MsgSet, Types, EpSet
<1>6. ~InCall(ep'[p])
  BY <1>3 DEF InCall
<1>7. ep' = [ep EXCEPT ![p] = ep'[p]] /\ UNCHANGED <<calls, app, network>> /\ Post(p, m)
  BY <1>1 DEF Disconnect
<1> HIDE DEF m
<1> QED BY <1>3, <1>4, <1>5, <1>6, <1>7, PostStep

\* A step of p that makes no call: what fits still has to be shown of p and of
\* what it posts only.
LEMMA HandlerStep ==
    ASSUME SessionInv, NEW p \in Peers, NEW new,
           ep' = [ep EXCEPT ![p] = ep'[p]], app' = [app EXCEPT ![p] = app'[p]],
           UNCHANGED <<calls, network>>,
           EndpointFits(ep'[p], app'[p]), ep'[p].scid \in {0, ep[p].scid},
           InCall(ep'[p]) => InCall(ep[p]) /\ ep'[p].scid = ep[p].scid,
           net' \in [Peers -> SUBSET MsgSet],
           net'[p] \subseteq net[p],
           net'[Other(p)] \subseteq net[Other(p)] \union new,
           \A m \in new : MessageFits(m, ep'[p], calls)
    PROVE  SessionInv'
<1>1. calls \in 0 .. MaxCalls /\ ep[p].scid <= calls
  BY SessionInvAt DEF SessionInv, TypeOK
<1>2. calls' \in 0 .. MaxCalls /\ calls <= calls' /\ ep'[p].scid <= calls'
  BY <1>1, SessionConstants
<1>3. \A m \in new : MessageFits(m, ep'[p], calls')
  OBVIOUS
<1> QED BY <1>2, <1>3, EndpointStep

\* A step of p that posts nothing.
LEMMA QuietStep ==
    ASSUME SessionInv, NEW p \in Peers, NEW m,
           ep' = [ep EXCEPT ![p] = ep'[p]], app' = [app EXCEPT ![p] = app'[p]],
           UNCHANGED <<calls, network>>,
           EndpointFits(ep'[p], app'[p]), ep'[p].scid \in {0, ep[p].scid},
           InCall(ep'[p]) => InCall(ep[p]) /\ ep'[p].scid = ep[p].scid,
           Take(p, m) \/ net' = net
    PROVE  SessionInv'
<1> DEFINE none == {}
<1>1. /\ net' \in [Peers -> SUBSET MsgSet] /\ net'[p] \subseteq net[p]
      /\ net'[Other(p)] \subseteq net[Other(p)] \union none
  <2>1. CASE Take(p, m)
    BY <2>1, Taking
  <2>2. CASE net' = net
    BY <2>2 DEF SessionInv, TypeOK
  <2> QED BY <2>1, <2>2
<1>2. \A x \in none : MessageFits(x, ep'[p], calls)
  OBVIOUS
<1> HIDE DEF none
<1> QED BY <1>1, <1>2, HandlerStep

LEMMA RecvConnectStep == ASSUME SessionInv, NEW p \in Peers, RecvConnect(p) PROVE SessionInv'
<1>1. /\ ep \in [Peers -> EpSet] /\ app \in [Peers -> AppSet]
      /\ ep[p] \in EpSet /\ EndpointFits(ep[p], app[p])
  BY SessionInvAt DEF SessionInv, TypeOK, AppSet
<1>2. PICK m \in net[p] :
        /\ m.type = "CONNECT"
        /\ ep' = [ep EXCEPT ![p] = [Seen(ep[p]) EXCEPT !.receiver = TRUE, !.rfir = 0,
                                                       !.rcid = m.id, !.age = 0]]
        /\ app' = [app EXCEPT ![p].playing = IF ep[p].receiver THEN app[p].playing ELSE TRUE]
        /\ TakeAndReply(p, m, Msg("CONNECT_ACK", m.id))
        /\ UNCHANGED <<calls, network>>
  BY <1>1 DEF RecvConnect
<1> DEFINE e == Seen(ep[p])
           r == Msg("CONNECT_ACK", m.id)
<1>3. m \in MsgSet /\ m.id \in 0 .. MaxCalls
  <2>1. m \in MsgSet /\ m.id <= calls /\ calls \in 0 .. MaxCalls
    BY <1>2, SessionInvAt DEF MessageFits, SessionInv, TypeOK
  <2> QED BY <2>1, SessionConstants DEF MsgSet
<1>4. /\ e \in EpSet /\ EndpointFits(e, app[p]) /\ e.scid = ep[p].scid /\ e.state = ep[p].state
      /\ e.sender = ep[p].sender /\ e.receiver = ep[p].receiver
      /\ e.interrupt # "interrupt"
  BY <1>1, SeenFits
<1>5. r \in MsgSet /\ r.type = "CONNECT_ACK"
  BY <1>3 DEF Msg, MsgSet, Types
<1>6. ep'[p] = [e EXCEPT !.receiver = TRUE, !.rfir = 0, !.rcid = m.id, !.age = 0]
  BY <1>1, <1>2
<1>7. ep' = [ep EXCEPT ![p] = ep'[p]]
  BY <1>1, <1>2
<1> HIDE DEF e, r
<1>8. /\ ep'[p] \in EpSet /\ ep'[p].scid = e.scid /\ ep'[p].state = e.state
      /\ ep'[p].sender = e.sender /\ ep'[p].interrupt = e.interrupt
  <2> DEFINE e1 == [e EXCEPT !.receiver = TRUE]
             e2 == [e1 EXCEPT !.rfir = 0]
             e3 == [e2 EXCEPT !.rcid = m.id]
             e4 == [e3 EXCEPT !.age = 0]
  <2>1. e1 \in EpSet
    BY <1>4, EpSetUpdates
  <2>2. e2 \in EpSet
    BY <2>1, EpSetUpdates, FirstValues
  <2>3. e3 \in EpSet
    BY <2>2, <1>3, EpSetUpdates
  <2>4. e4 \in EpSet
    BY <2>3, EpSetUpdates, FirstValues
  <2>5. ep'[p] = e4
    BY <1>6
  <2> QED BY <1>4, <1>6, <2>4, <2>5 DEF EpSet
<1>9. /\ app' = [app EXCEPT ![p] = app'[p]] /\ app'[p] \in AppSet
      /\ app'[p].call = app[p].call /\ app'[p].playing
  <2>1. app[p] \in AppSet /\ (ep[p].receiver => app[p].playing)
    BY <1>1 DEF EndpointFits
  <2> DEFINE b == IF ep[p].receiver THEN app[p].playing ELSE TRUE
  <2>2. b = TRUE
    BY <2>1 DEF AppSet
  <2>3. app'[p] = [app[p] EXCEPT !.playing = TRUE]
    BY <1>1, <1>2, <2>2
  <2>4. app' = [app EXCEPT ![p] = app'[p]]
    BY <1>1, <1>2
  <2> QED BY <2>1, <2>3, <2>4 DEF AppSet
<1>10. EndpointFits(ep'[p], app'[p])
  BY <1>4, <1>8, <1>9 DEF EndpointFits
<1> DEFINE answer == {r}
<1>11. /\ net' \in [Peers -> SUBSET MsgSet] /\ net'[p] \subseteq net[p]
       /\ net'[Other(p)] \subseteq net[Other(p)] \union answer
  BY <1>2, <1>5, Replying DEF r
<1>12. \A x \in answer : MessageFits(x, ep'[p], calls)
  BY <1>5 DEF MessageFits
<1> HIDE DEF answer
<1>13. /\ ep'[p].scid \in {0, ep[p].scid}
       /\ InCall(ep'[p]) => InCall(ep[p]) /\ ep'[p].scid = ep[p].scid
  BY <1>4, <1>8 DEF InCall
<1>14. UNCHANGED <<calls, network>>
  BY <1>2
<1> QED BY <1>7, <1>9, <1>10, <1>11, <1>12, <1>13, <1>14, HandlerStep

\* An answer or a keep-alive that only shows the peer lives.
LEMMA TakeSeenStep ==
    ASSUME SessionInv, NEW p \in Peers, NEW m, ep' = [ep EXCEPT ![p] = Seen(ep[p])],
           UNCHANGED <<calls, app, network>>, Take(p, m)
    PROVE  SessionInv'
<1> DEFINE none == {}
<1>1. /\ net' \in [Peers -> SUBSET MsgSet] /\ net'[p] \subseteq net[p]
      /\ net'[Other(p)] \subseteq net[Other(p)] \union none
  BY Taking
<1>2. \A x \in none : x \in MsgSet /\ x.type \notin {"CONNECT", "DISCONNECT", "FIR"}
  OBVIOUS
<1> HIDE DEF none
<1> QED BY <1>1, <1>2, SeenStep

LEMMA RecvConnectAckStep ==
    ASSUME SessionInv, NEW p \in Peers, RecvConnectAck(p) PROVE SessionInv'
<1>1. /\ ep \in [Peers -> EpSet] /\ app \in [Peers -> AppSet]
      /\ ep[p] \in EpSet /\ EndpointFits(ep[p], app[p])
  BY SessionInvAt DEF SessionInv, TypeOK, AppSet
<1>2. PICK m \in net[p] :
        /\ IF ep[p].state = "connecting"
           THEN /\ ep' = [ep EXCEPT ![p] = [Seen(ep[p]) EXCEPT !.state = "connected",
                                                               !.sender = TRUE,
                                                               !.interrupt = "recover"]]
                /\ app' = [app EXCEPT ![p].call = "up"]
           ELSE ep' = [ep EXCEPT ![p] = Seen(ep[p])] /\ UNCHANGED app
        /\ Take(p, m)
        /\ UNCHANGED <<calls, network>>
  BY <1>1 DEF RecvConnectAck
<1>3. CASE ep[p].state # "connecting"
  BY <1>2, <1>3, TakeSeenStep
<1>4. CASE ep[p].state = "connecting"
  <2> DEFINE e == Seen(ep[p])
  <2>1. /\ e \in EpSet /\ EndpointFits(e, app[p]) /\ e.scid = ep[p].scid
        /\ e.receiver = ep[p].receiver
    BY <1>1, SeenFits
  <2>2. /\ ep'[p] = [e EXCEPT !.state = "connected", !.sender = TRUE, !.interrupt = "recover"]
        /\ ep' = [ep EXCEPT ![p] = ep'[p]]
        /\ app'[p] = [app[p] EXCEPT !.call = "up"] /\ app' = [app EXCEPT ![p] = app'[p]]
    BY <1>1, <1>2, <1>4
  <2> HIDE DEF e
  <2>3. /\ ep'[p] \in EpSet /\ ep'[p].scid = e.scid /\ ep'[p].state = "connected"
        /\ ep'[p].sender = TRUE /\ ep'[p].interrupt = "recover" /\ ep'[p].receiver = e.receiver
    <3> DEFINE e1 == [e EXCEPT !.state = "connected"]
               e2 == [e1 EXCEPT !.sender = TRUE]
               e3 == [e2 EXCEPT !.interrupt = "recover"]
    <3>1. e1 \in EpSet
      BY <2>1, EpSetUpdates
    <3>2. e2 \in EpSet
      BY <3>1, EpSetUpdates
    <3>3. e3 \in EpSet
      BY <3>2, EpSetUpdates
    <3>4. ep'[p] = e3
      BY <2>2
    <3> QED BY <2>1, <2>2, <3>3, <3>4 DEF EpSet
  <2>4. app'[p] \in AppSet /\ app'[p].call = "up" /\ app'[p].playing = app[p].playing
    BY <1>1, <2>2 DEF AppSet
  <2>5. EndpointFits(ep'[p], app'[p])
    BY <2>1, <2>3, <2>4 DEF EndpointFits
  <2>6. ep'[p].scid = ep[p].scid /\ InCall(ep[p])
    BY <1>4, <2>1, <2>3 DEF InCall
  <2> QED BY <1>2, <2>2, <2>5, <2>6, QuietStep
<1> QED BY <1>3, <1>4

\* A step of p that answers a message with r.
LEMMA ReplyStep ==
    ASSUME SessionInv, NEW p \in Peers, NEW m, NEW r \in MsgSet,
           r.type \notin {"CONNECT", "DISCONNECT", "FIR"},
           ep' = [ep EXCEPT ![p] = ep'[p]], app' = [app EXCEPT ![p] = app'[p]],
           UNCHANGED <<calls, network>>,
           EndpointFits(ep'[p], app'[p]), ep'[p].scid \in {0, ep[p].scid},
           InCall(ep'[p]) => InCall(ep[p]) /\ ep'[p].scid = ep[p].scid,
           TakeAndReply(p, m, r)
    PROVE  SessionInv'
<1> DEFINE answer == {r}
<1>1. /\ net' \in [Peers -> SUBSET MsgSet] /\ net'[p] \subseteq net[p]
      /\ net'[Other(p)] \subseteq net[Other(p)] \union answer
  BY Replying
<1>2. \A x \in answer : MessageFits(x, ep'[p], calls)
  BY DEF MessageFits
<1> HIDE DEF answer
<1> QED BY <1>1, <1>2, HandlerStep

\* A sign of life in p's state, answered with r.
LEMMA ReplySeenStep ==
    ASSUME SessionInv, NEW p \in Peers, NEW m, NEW r \in MsgSet,
           r.type \notin {"CONNECT", "DISCONNECT", "FIR"},
           ep' = [ep EXCEPT ![p] = Seen(ep[p])], UNCHANGED <<calls, app, network>>,
           TakeAndReply(p, m, r)
    PROVE  SessionInv'
<1> DEFINE answer == {r}
<1>1. /\ net' \in [Peers -> SUBSET MsgSet] /\ net'[p] \subseteq net[p]
      /\ net'[Other(p)] \subseteq net[Other(p)] \union answer
  BY Replying
<1>2. \A x \in answer : x \in MsgSet /\ x.type \notin {"CONNECT", "DISCONNECT", "FIR"}
  OBVIOUS
<1> HIDE DEF answer
<1> QED BY <1>1, <1>2, SeenStep

LEMMA RecvDisconnectStep ==
    ASSUME SessionInv, NEW p \in Peers, RecvDisconnect(p) PROVE SessionInv'
<1>1. /\ ep \in [Peers -> EpSet] /\ app \in [Peers -> AppSet]
      /\ ep[p] \in EpSet /\ EndpointFits(ep[p], app[p])
  BY SessionInvAt DEF SessionInv, TypeOK, AppSet
<1>2. PICK m \in net[p] :
        /\ m.type = "DISCONNECT"
        /\ IF EndsReceiver(ep[p], m)
           THEN /\ ep' = [ep EXCEPT ![p] = [Seen(ep[p]) EXCEPT !.receiver = FALSE, !.rfir = 0]]
                /\ app' = [app EXCEPT ![p].playing = FALSE]
           ELSE ep' = [ep EXCEPT ![p] = Seen(ep[p])] /\ UNCHANGED app
        /\ TakeAndReply(p, m, Msg("DISCONNECT_ACK", m.id))
        /\ UNCHANGED <<calls, network>>
  BY <1>1 DEF RecvDisconnect
<1> DEFINE r == Msg("DISCONNECT_ACK", m.id)
<1>3. r \in MsgSet /\ r.type = "DISCONNECT_ACK"
  <2>1. m \in MsgSet
    BY <1>2, SessionInvAt
  <2> QED BY <2>1 DEF Msg, MsgSet, Types
<1>4. TakeAndReply(p, m, r) /\ UNCHANGED <<calls, network>>
  BY <1>2
<1> HIDE DEF r
<1>5. CASE ~EndsReceiver(ep[p], m)
  BY <1>2, <1>3, <1>4, <1>5, ReplySeenStep
<1>6. CASE EndsReceiver(ep[p], m)
  <2> DEFINE e == Seen(ep[p])
  <2>1. /\ e \in EpSet /\ EndpointFits(e, app[p]) /\ e.scid = ep[p].scid /\ e.state = ep[p].state
    BY <1>1, SeenFits
  <2>2. /\ ep'[p] = [e EXCEPT !.receiver = FALSE, !.rfir = 0]
        /\ ep' = [ep EXCEPT ![p] = ep'[p]]
        /\ app'[p] = [app[p] EXCEPT !.playing = FALSE] /\ app' = [app EXCEPT ![p] = app'[p]]
    BY <1>1, <1>2, <1>6
  <2> HIDE DEF e
  <2>3. /\ ep'[p] \in EpSet /\ ep'[p].scid = e.scid /\ ep'[p].state = e.state
        /\ ep'[p].sender = e.sender /\ ep'[p].interrupt = e.interrupt
        /\ ep'[p].resend = e.resend /\ ep'[p].receiver = FALSE
    <3> DEFINE e1 == [e EXCEPT !.receiver = FALSE]
               e2 == [e1 EXCEPT !.rfir = 0]
    <3>1. e1 \in EpSet
      BY <2>1, EpSetUpdates
    <3>2. e2 \in EpSet
      BY <3>1, EpSetUpdates, FirstValues
    <3>3. ep'[p] = e2
      BY <2>2
    <3> QED BY <2>1, <2>2, <3>2, <3>3 DEF EpSet
  <2>4. app'[p] \in AppSet /\ app'[p].call = app[p].call
    <3>1. app[p] \in AppSet
      BY <1>1
    <3> QED BY <2>2, <3>1 DEF AppSet
  <2>5. EndpointFits(ep'[p], app'[p])
    BY <2>1, <2>3, <2>4 DEF EndpointFits
  <2>6. /\ ep'[p].scid \in {0, ep[p].scid}
        /\ InCall(ep'[p]) => InCall(ep[p]) /\ ep'[p].scid = ep[p].scid
    BY <2>1, <2>3 DEF InCall
  <2> QED BY <1>3, <1>4, <2>2, <2>5, <2>6, ReplyStep
<1> QED BY <1>5, <1>6

\* sim_session_reset leaves an endpoint that owes nothing.
LEMMA FreshFits ==
    ASSUME NEW a \in AppSet, a.call = "down" PROVE EndpointFits(Fresh, a) /\ ~InCall(Fresh)
<1>1. Fresh \in EpSet
  BY SessionConstants DEF Fresh, EpSet
<1> QED BY <1>1 DEF Fresh, EndpointFits, InCall

LEMMA RecvDisconnectAckStep ==
    ASSUME SessionInv, NEW p \in Peers, RecvDisconnectAck(p) PROVE SessionInv'
<1>1. /\ ep \in [Peers -> EpSet] /\ app \in [Peers -> AppSet]
  BY DEF SessionInv, TypeOK, AppSet
<1>2. PICK m \in net[p] :
        /\ IF ep[p].state = "disconnected"
           THEN /\ ep' = [ep EXCEPT ![p] = Fresh]
                /\ app' = [app EXCEPT ![p].call = "down"]
           ELSE ep' = [ep EXCEPT ![p] = Seen(ep[p])] /\ UNCHANGED app
        /\ Take(p, m)
        /\ UNCHANGED <<calls, network>>
  BY <1>1 DEF RecvDisconnectAck
<1>3. CASE ep[p].state # "disconnected"
  BY <1>2, <1>3, TakeSeenStep
<1>4. CASE ep[p].state = "disconnected"
  <2>1. /\ ep'[p] = Fresh /\ ep' = [ep EXCEPT ![p] = ep'[p]]
        /\ app'[p] = [app[p] EXCEPT !.call = "down"] /\ app' = [app EXCEPT ![p] = app'[p]]
    BY <1>1, <1>2, <1>4
  <2>2. app'[p] \in AppSet /\ app'[p].call = "down"
    <3>1. app[p] \in AppSet
      BY <1>1
    <3> QED BY <2>1, <3>1 DEF AppSet
  <2>3. EndpointFits(ep'[p], app'[p]) /\ ~InCall(ep'[p])
    BY <2>1, <2>2, FreshFits
  <2>4. ep'[p].scid \in {0, ep[p].scid}
    BY <2>1 DEF Fresh
  <2> QED BY <1>2, <2>1, <2>3, <2>4, QuietStep
<1> QED BY <1>3, <1>4

LEMMA GiveUpStep == ASSUME SessionInv, NEW p \in Peers, GiveUp(p) PROVE SessionInv'
<1>1. ep \in [Peers -> EpSet] /\ app \in [Peers -> AppSet]
  BY DEF SessionInv, TypeOK, AppSet
<1> DEFINE b == IF ep[p].receiver THEN FALSE ELSE app[p].playing
<1>2. /\ ep'[p] = Fresh /\ ep' = [ep EXCEPT ![p] = ep'[p]]
      /\ app'[p] = [call |-> "down", playing |-> b]
      /\ app' = [app EXCEPT ![p] = app'[p]]
      /\ net' = net /\ UNCHANGED <<calls, network>>
  BY <1>1 DEF GiveUp
<1>3. app'[p] \in AppSet /\ app'[p].call = "down"
  <2>1. b \in BOOLEAN
    BY <1>1 DEF AppSet
  <2> HIDE DEF b
  <2> QED BY <1>2, <2>1 DEF AppSet
<1>4. EndpointFits(ep'[p], app'[p]) /\ ~InCall(ep'[p])
  BY <1>2, <1>3, FreshFits
<1>5. ep'[p].scid \in {0, ep[p].scid}
  BY <1>2 DEF Fresh
<1> HIDE DEF b
<1> QED BY <1>2, <1>4, <1>5, QuietStep

LEMMA RecvPingStep == ASSUME SessionInv, NEW p \in Peers, RecvPing(p) PROVE SessionInv'
<1> DEFINE r == Msg("PONG", 0)
<1>1. r \in MsgSet /\ r.type = "PONG"
  BY SessionConstants DEF Msg, MsgSet, Types
<1>2. ep' = [ep EXCEPT ![p] = Seen(ep[p])] /\ TakeAndReply(p, Msg("PING", 0), r)
  BY DEF RecvPing, SessionInv, TypeOK
<1>3. UNCHANGED <<calls, app, network>>
  BY DEF RecvPing
<1> HIDE DEF r
<1> QED BY <1>1, <1>2, <1>3, ReplySeenStep

LEMMA RecvPongStep == ASSUME SessionInv, NEW p \in Peers, RecvPong(p) PROVE SessionInv'
<1>1. ep' = [ep EXCEPT ![p] = Seen(ep[p])] /\ Take(p, Msg("PONG", 0))
  BY DEF RecvPong, SessionInv, TypeOK
<1>2. UNCHANGED <<calls, app, network>>
  BY DEF RecvPong
<1> QED BY <1>1, <1>2, TakeSeenStep

LEMMA RecvFirStep == ASSUME SessionInv, NEW p \in Peers, RecvFir(p) PROVE SessionInv'
<1>1. /\ ep \in [Peers -> EpSet] /\ app \in [Peers -> AppSet]
      /\ ep[p] \in EpSet /\ EndpointFits(ep[p], app[p])
  BY SessionInvAt DEF SessionInv, TypeOK, AppSet
<1> DEFINE e == Seen(ep[p])
<1>2. PICK m \in net[p] :
        /\ m.type = "FIR"
        /\ ep' = [ep EXCEPT ![p] = [Seen(ep[p]) EXCEPT !.fir_seq = IF ep[p].fir_seq < m.id
                                                                   THEN m.id ELSE ep[p].fir_seq]]
        /\ Take(p, m)
        /\ UNCHANGED <<calls, app, network>>
  BY <1>1 DEF RecvFir
<1> DEFINE f == IF ep[p].fir_seq < m.id THEN m.id ELSE ep[p].fir_seq
<1>3. /\ e \in EpSet /\ EndpointFits(e, app[p]) /\ e.scid = ep[p].scid /\ e.state = ep[p].state
  BY <1>1, SeenFits
<1>4. f \in 0 .. MaxFir
  <2>1. m \in MsgSet /\ m.id <= MaxFir
    BY <1>2, SessionInvAt DEF MessageFits
  <2>2. m.id \in 0 .. MaxFir
    BY <2>1, SessionConstants DEF MsgSet
  <2>3. ep[p].fir_seq \in 0 .. MaxFir
    BY <1>1 DEF EpSet
  <2> QED BY <2>2, <2>3
<1>5. ep'[p] = [e EXCEPT !.fir_seq = f] /\ ep' = [ep EXCEPT ![p] = ep'[p]]
  BY <1>1, <1>2
<1>6. app' = [app EXCEPT ![p] = app'[p]] /\ app'[p] = app[p]
  BY <1>1, <1>2
<1>7. UNCHANGED <<calls, network>> /\ Take(p, m)
  BY <1>2
<1> HIDE DEF f, e
<1>8. /\ ep'[p] \in EpSet /\ ep'[p].scid = e.scid /\ ep'[p].state = e.state
      /\ ep'[p].sender = e.sender /\ ep'[p].interrupt = e.interrupt
      /\ ep'[p].resend = e.resend /\ ep'[p].receiver = e.receiver
  <2>1. ep'[p] \in EpSet
    BY ZenonT(40), <1>3, <1>4, <1>5, EpSetUpdates
  <2> QED BY <1>3, <1>5, <2>1 DEF EpSet
<1>9. EndpointFits(ep'[p], app'[p])
  BY <1>3, <1>6, <1>8 DEF EndpointFits
<1>10. /\ ep'[p].scid \in {0, ep[p].scid}
       /\ InCall(ep'[p]) => InCall(ep[p]) /\ ep'[p].scid = ep[p].scid
  BY <1>3, <1>8 DEF InCall
<1> QED BY <1>5, <1>6, <1>7, <1>9, <1>10, QuietStep

LEMMA SendFirStep == ASSUME SessionInv, NEW p \in Peers, SendFir(p) PROVE SessionInv'
<1> DEFINE e == ep[p]
           m == Msg("FIR", ep[p].rfir + 1)
<1>1. /\ ep \in [Peers -> EpSet] /\ e \in EpSet /\ EndpointFits(e, app[p])
  BY SessionInvAt DEF SessionInv, TypeOK, AppSet
<1>2. e.rfir + 1 \in 0 .. MaxFir
  <2>1. e.rfir \in 0 .. MaxFir
    BY <1>1 DEF EpSet
  <2> QED BY <2>1, SessionConstants DEF SendFir
<1>3. ep'[p] = [e EXCEPT !.rfir = e.rfir + 1] /\ ep' = [ep EXCEPT ![p] = ep'[p]]
  BY <1>1 DEF SendFir
<1>4. /\ ep'[p] \in EpSet /\ ep'[p].scid = e.scid /\ ep'[p].state = e.state
      /\ ep'[p].sender = e.sender /\ ep'[p].interrupt = e.interrupt
      /\ ep'[p].resend = e.resend /\ ep'[p].receiver = e.receiver
  <2> DEFINE n == e.rfir + 1
  <2>1. n \in 0 .. MaxFir /\ ep'[p] = [e EXCEPT !.rfir = n]
    BY <1>2, <1>3
  <2> HIDE DEF n
  <2>2. ep'[p] \in EpSet
    BY ZenonT(40), <1>1, <2>1, EpSetUpdates
  <2> QED BY <1>1, <2>1, <2>2 DEF EpSet
<1>5. EndpointFits(ep'[p], app[p])
  BY <1>1, <1>4 DEF EndpointFits
<1>6. MessageFits(m, ep'[p], calls)
  <2>1. m.type = "FIR" /\ m.id = e.rfir + 1 /\ m.id <= MaxFir
    BY <1>2 DEF Msg
  <2>2. m \in MsgSet
    BY <1>2, SessionConstants DEF Msg, MsgSet, Types
  <2> HIDE DEF m
  <2> QED BY <2>1, <2>2 DEF MessageFits
<1>7. Post(p, m) /\ UNCHANGED <<calls, app, network>>
  BY DEF SendFir
<1> HIDE DEF m
<1>8. ep'[p].scid = ep[p].scid /\ (InCall(ep'[p]) => InCall(ep[p]))
  BY <1>4 DEF InCall
<1> QED BY <1>3, <1>5, <1>6, <1>7, <1>8, PostStep

LEMMA RepeatSignalStep == ASSUME SessionInv, NEW p \in Peers, RepeatSignal(p) PROVE SessionInv'
<1> DEFINE e == ep[p]
           m == Msg(IF e.state = "connecting" THEN "CONNECT" ELSE "DISCONNECT", e.scid)
<1>1. /\ ep \in [Peers -> EpSet] /\ e \in EpSet /\ EndpointFits(e, app[p]) /\ e.scid <= calls
      /\ e.state \in {"connecting", "disconnected"}
  BY SessionInvAt DEF SessionInv, TypeOK, RepeatSignal, SlowDue, Signalling
<1>2. ep'[p] = [e EXCEPT !.age = 0, !.resend = e.resend + 1] /\ ep' = [ep EXCEPT ![p] = ep'[p]]
  BY <1>1 DEF RepeatSignal
<1>3. /\ ep'[p] \in EpSet /\ ep'[p].scid = e.scid /\ ep'[p].state = e.state
      /\ ep'[p].sender = e.sender /\ ep'[p].receiver = e.receiver
  <2> DEFINE n == e.resend + 1
             e1 == [e EXCEPT !.age = 0]
             e2 == [e1 EXCEPT !.resend = n]
  <2>1. n \in Resends
    <3>1. e.resend \in Nat
      BY <1>1, SessionConstants DEF EpSet
    <3>2. n \in 0 .. ConnectTries
      BY <3>1, SessionConstants DEF RepeatSignal
    <3> QED BY <3>2, SessionConstants DEF Resends
  <2>2. e1 \in EpSet
    BY <1>1, EpSetUpdates, FirstValues
  <2>3. e2 \in EpSet
    <3> HIDE DEF n, e1
    <3> QED BY <2>1, <2>2, EpSetUpdates
  <2>4. ep'[p] = e2
    BY <1>2
  <2> QED BY <1>1, <1>2, <2>3, <2>4 DEF EpSet
<1>4. EndpointFits(ep'[p], app[p])
  BY <1>1, <1>3 DEF EndpointFits
<1>5. MessageFits(m, ep'[p], calls)
  <2>1. m.type \in {"CONNECT", "DISCONNECT"} /\ m.id = e.scid
        /\ (m.type = "DISCONNECT" => e.state = "disconnected")
    BY <1>1 DEF Msg
  <2>2. m \in MsgSet
    <3>1. e.scid \in 0 .. MaxCalls + MaxFir
      BY <1>1, SessionConstants DEF EpSet
    <3> QED BY <3>1 DEF Msg, MsgSet, Types
  <2> HIDE DEF m
  <2> QED BY <1>1, <1>3, <2>1, <2>2 DEF MessageFits, InCall
<1>6. Post(p, m) /\ UNCHANGED <<calls, app, network>>
  BY DEF RepeatSignal
<1> HIDE DEF m
<1>7. ep'[p].scid = ep[p].scid /\ (InCall(ep'[p]) => InCall(ep[p]))
  BY <1>3 DEF InCall
<1> QED BY <1>2, <1>4, <1>5, <1>6, <1>7, PostStep

LEMMA PingStep == ASSUME SessionInv, NEW p \in Peers, Ping(p) PROVE SessionInv'
<1> DEFINE e == ep[p]
           n == e.resend + 1
           i == IF n > InterruptAfter THEN "interrupt" ELSE e.interrupt
           m == Msg("PING", 0)
<1>1. ep \in [Peers -> EpSet] /\ e \in EpSet /\ EndpointFits(e, app[p])
  BY SessionInvAt DEF SessionInv, TypeOK
<1>2. /\ ep'[p] = [e EXCEPT !.age = 0, !.resend = n, !.interrupt = i]
      /\ ep' = [ep EXCEPT ![p] = ep'[p]]
  BY <1>1 DEF Ping
<1>3. /\ e.resend \in Nat /\ n \in Resends /\ i \in {"normal", "interrupt", "recover"}
  <2>1. e.resend \in Nat /\ e.interrupt \in {"normal", "interrupt", "recover"}
    BY <1>1, SessionConstants DEF EpSet
  <2>2. n \in 0 .. PingTries
    BY <2>1, SessionConstants DEF Ping
  <2>3. n \in Resends
    <3> HIDE DEF n
    <3> QED BY <2>2, ResendValues
  <2> QED BY <2>1, <2>3
<1>4. /\ ep'[p] \in EpSet /\ ep'[p].scid = e.scid /\ ep'[p].state = e.state
      /\ ep'[p].sender = e.sender /\ ep'[p].receiver = e.receiver
      /\ ep'[p].resend = n /\ ep'[p].interrupt = i
  <2> DEFINE e1 == [e EXCEPT !.age = 0]
             e2 == [e1 EXCEPT !.resend = n]
             e3 == [e2 EXCEPT !.interrupt = i]
  <2> HIDE DEF n, i
  <2>1. e1 \in EpSet
    BY <1>1, EpSetUpdates, FirstValues
  <2>2. e2 \in EpSet
    BY <1>3, <2>1, EpSetUpdates
  <2>3. e3 \in EpSet
    BY <1>3, <2>2, EpSetUpdates
  <2>4. ep'[p] = e3
    BY <1>2
  <2> QED BY <1>1, <1>2, <2>3, <2>4 DEF EpSet
<1>5. EndpointFits(ep'[p], app[p])
  <2>1. i = "interrupt" /\ e.state = "connected" => n > InterruptAfter
    BY <1>1, <1>3, SessionConstants DEF EndpointFits
  <2> HIDE DEF n, i
  <2> QED BY <1>1, <1>4, <2>1 DEF EndpointFits
<1>6. MessageFits(m, ep'[p], calls)
  BY SessionConstants DEF MessageFits, Msg, MsgSet, Types
<1>7. Post(p, m) /\ UNCHANGED <<calls, app, network>>
  BY DEF Ping
<1>8. ep'[p].scid = ep[p].scid /\ (InCall(ep'[p]) => InCall(ep[p]))
  BY <1>4 DEF InCall
<1> HIDE DEF m, n, i
<1> QED BY <1>2, <1>5, <1>6, <1>7, <1>8, PostStep

LEMMA TickStep == ASSUME SessionInv, NEW p \in Peers, Tick(p) PROVE SessionInv'
<1> DEFINE e == ep[p]
           n == e.age + 1
<1>1. /\ ep \in [Peers -> EpSet] /\ app \in [Peers -> AppSet]
      /\ e \in EpSet /\ EndpointFits(e, app[p])
  BY SessionInvAt DEF SessionInv, TypeOK, AppSet
<1>2. ep'[p] = [e EXCEPT !.age = n] /\ ep' = [ep EXCEPT ![p] = ep'[p]]
  BY <1>1 DEF Tick
<1>3. n \in 0 .. ConnectTick
  <2>1. e.age \in 0 .. ConnectTick
    BY <1>1 DEF EpSet
  <2> QED BY <2>1, SessionConstants DEF Tick
<1>4. /\ ep'[p] \in EpSet /\ ep'[p].scid = e.scid /\ ep'[p].state = e.state
      /\ ep'[p].sender = e.sender /\ ep'[p].interrupt = e.interrupt
      /\ ep'[p].resend = e.resend /\ ep'[p].receiver = e.receiver
  <2>1. n \in 0 .. ConnectTick /\ ep'[p] = [e EXCEPT !.age = n]
    BY <1>2, <1>3
  <2> HIDE DEF n
  <2>2. ep'[p] \in EpSet
    BY ZenonT(40), <1>1, <2>1, EpSetUpdates
  <2> QED BY <1>1, <2>1, <2>2 DEF EpSet
<1>5. app' = [app EXCEPT ![p] = app'[p]] /\ app'[p] = app[p]
  BY <1>1 DEF Tick
<1>6. EndpointFits(ep'[p], app'[p])
  BY <1>1, <1>4, <1>5 DEF EndpointFits
<1>7. /\ ep'[p].scid \in {0, ep[p].scid}
      /\ InCall(ep'[p]) => InCall(ep[p]) /\ ep'[p].scid = ep[p].scid
  BY <1>4 DEF InCall
<1>8. net' = net /\ UNCHANGED <<calls, network>>
  BY DEF Tick
<1> HIDE DEF n
<1> QED BY <1>2, <1>5, <1>6, <1>7, <1>8, QuietStep

\* The network only takes away.
LEMMA LoseStep == ASSUME SessionInv, NEW p \in Peers, Lose(p) PROVE SessionInv'
<1>1. PICK m \in net[p] : net' = [net EXCEPT ![p] = net[p] \ {m}]
  BY DEF Lose, SessionInv, TypeOK
<1>2. UNCHANGED <<ep, calls, app, network>> /\ net \in [Peers -> SUBSET MsgSet]
  BY DEF Lose, SessionInv, TypeOK
<1>3. net' \in [Peers -> SUBSET MsgSet] /\ \A q \in Peers : net'[q] \subseteq net[q]
  BY <1>1, <1>2
<1> QED BY <1>2, <1>3 DEF SessionInv, TypeOK, SenderBelongsToCall, FramesDroppedInSilence,
                          ReceiverIsPlayed, SignalsFit

LEMMA CutStep == ASSUME SessionInv, Cut PROVE SessionInv'
BY DEF Cut, SessionInv, TypeOK, SenderBelongsToCall, FramesDroppedInSilence,
       ReceiverIsPlayed, SignalsFit

-----------------------------------------------------------------------------
(* The theorems *)

\* Every step of the system, of whichever endpoint, preserves the invariant.
LEMMA SessionInvStep == ASSUME SessionInv, [Next]_vars PROVE SessionInv'
<1>1. CASE \E p \in Peers : Receive(p)
  <2>1. PICK p \in Peers : Receive(p)
    BY <1>1
  <2> QED BY <2>1, RecvConnectStep, RecvConnectAckStep, RecvDisconnectStep,
             RecvDisconnectAckStep, RecvPingStep, RecvPongStep, RecvFirStep DEF Receive
<1>2. CASE \E p \in Peers : Heartbeat(p)
  BY <1>2, RepeatSignalStep, PingStep, GiveUpStep DEF Heartbeat
<1>3. CASE UNCHANGED vars
  BY <1>3 DEF vars, SessionInv, TypeOK, SenderBelongsToCall, FramesDroppedInSilence,
              ReceiverIsPlayed, SignalsFit
<1> QED BY <1>1, <1>2, <1>3, ConnectStep, DisconnectStep, SendFirStep, TickStep, LoseStep,
           CutStep DEF Next

\* sim_session.c: what an endpoint keeps of its calls fits together, fits what
\* the application was told and fits the signals on their way, in every state
\* two endpoints get to: a sender exists only while its call does, frames are
\* dropped only in silence, every receiver is played, and no DISCONNECT of the
\* call an endpoint is in is under way.
THEOREM SessionConsistent == Spec => []SessionInv
<1>1. Init => SessionInv
  <2> SUFFICES ASSUME Init PROVE SessionInv
    OBVIOUS
  <2>1. Fresh \in EpSet
    BY SessionConstants DEF Fresh, EpSet
  <2>2. TypeOK
    BY <2>1, SessionAssumption, SessionConstants DEF SessionAssumption, Init, TypeOK
  <2>3. \A p \in Peers : /\ ep[p] = Fresh /\ net[p] = {} /\ app[p].call = "down"
                         /\ ep[p].state = "idle" /\ ~ep[p].sender /\ ~ep[p].receiver
    BY DEF Init, Fresh
  <2>4. SenderBelongsToCall /\ FramesDroppedInSilence /\ ReceiverIsPlayed
    BY <2>2, <2>3 DEF TypeOK, EpSet, SenderBelongsToCall, FramesDroppedInSilence, ReceiverIsPlayed
  <2>5. SignalsFit
    BY <2>3 DEF Init, Fresh, SignalsFit
  <2> QED BY <2>2, <2>4, <2>5 DEF SessionInv
<1>2. SessionInv /\ [Next]_vars => SessionInv'
  BY SessionInvStep
<1> QED BY <1>1, <1>2, PTL DEF Spec

\* The steps that take a receiver away: a DISCONNECT of the call it serves, the
\* end of the endpoint's own hang-up, and ten seconds of silence.
LEMMA LosingReceiver ==
    ASSUME SessionInv, [Next]_vars, NEW p \in Peers, ep[p].receiver, ~ep'[p].receiver
    PROVE  \/ /\ \E m \in net[p] : m.type = "DISCONNECT" /\ m.id = ep[p].rcid
              /\ ~app'[p].playing
           \/ ep[p].state = "disconnected"
           \/ GiveUp(p) /\ ~app'[p].playing
<1>1. /\ ep \in [Peers -> EpSet] /\ app \in [Peers -> AppSet]
      /\ \A x \in Peers : ep[x] \in EpSet /\ EndpointFits(ep[x], app[x])
  BY SessionInvAt DEF SessionInv, TypeOK, AppSet
<1>2. ASSUME NEW x \in Peers PROVE Seen(ep[x]) \in EpSet /\ Seen(ep[x]).receiver = ep[x].receiver
  BY <1>1, SeenFits
<1>3. ASSUME NEW x \in Peers, Connect(x) \/ Disconnect(x) \/ SendFir(x) \/ Tick(x)
      PROVE  FALSE
  BY <1>1, <1>3 DEF Connect, Disconnect, SendFir, Tick, EpSet
<1>4. ASSUME NEW x \in Peers, Lose(x) \/ Cut PROVE FALSE
  BY <1>4 DEF Lose, Cut
<1>5. ASSUME NEW x \in Peers, RepeatSignal(x) \/ Ping(x) PROVE FALSE
  BY <1>1, <1>5 DEF RepeatSignal, Ping, EpSet
<1>6. ASSUME NEW x \in Peers, GiveUp(x) PROVE x = p /\ ~app'[p].playing
  BY <1>1, <1>6 DEF GiveUp
<1>7. ASSUME NEW x \in Peers, RecvPing(x) \/ RecvPong(x) PROVE FALSE
  BY <1>1, <1>2, <1>7 DEF RecvPing, RecvPong
<1>8. ASSUME NEW x \in Peers, RecvFir(x) PROVE FALSE
  BY <1>1, <1>2, <1>8 DEF RecvFir, EpSet
<1>9. ASSUME NEW x \in Peers, RecvConnect(x) PROVE FALSE
  BY <1>1, <1>2, <1>9 DEF RecvConnect, EpSet
<1>10. ASSUME NEW x \in Peers, RecvConnectAck(x) PROVE FALSE
  <2>1. \/ ep' = [ep EXCEPT ![x] = Seen(ep[x])]
        \/ ep' = [ep EXCEPT ![x] = [Seen(ep[x]) EXCEPT !.state = "connected", !.sender = TRUE,
                                                       !.interrupt = "recover"]]
    BY <1>1, <1>10 DEF RecvConnectAck
  <2> DEFINE e == Seen(ep[x])
             e3 == [e EXCEPT !.state = "connected", !.sender = TRUE, !.interrupt = "recover"]
  <2>2. e \in EpSet /\ e.receiver = ep[x].receiver
    BY <1>2
  <2>3. e3.receiver = e.receiver
    <3> HIDE DEF e
    <3> QED BY <2>2 DEF EpSet
  <2>4. ep' = [ep EXCEPT ![x] = e] \/ ep' = [ep EXCEPT ![x] = e3]
    BY <2>1
  <2>5. ep'[x].receiver = e.receiver /\ \A y \in Peers : y # x => ep'[y] = ep[y]
    <3> HIDE DEF e, e3
    <3> QED BY <1>1, <2>3, <2>4
  <2> QED BY <1>2, <2>5
<1>11. ASSUME NEW x \in Peers, RecvDisconnect(x)
       PROVE  (\E m \in net[p] : m.type = "DISCONNECT" /\ m.id = ep[p].rcid) /\ ~app'[p].playing
  <2>1. PICK m \in net[x] :
          /\ m.type = "DISCONNECT"
          /\ IF EndsReceiver(ep[x], m)
             THEN /\ ep' = [ep EXCEPT ![x] = [Seen(ep[x]) EXCEPT !.receiver = FALSE, !.rfir = 0]]
                  /\ app' = [app EXCEPT ![x].playing = FALSE]
             ELSE ep' = [ep EXCEPT ![x] = Seen(ep[x])] /\ UNCHANGED app
    BY <1>1, <1>11 DEF RecvDisconnect
  <2>2. x = p
    BY <1>1, <2>1
  <2>3. EndsReceiver(ep[x], m)
    BY <1>1, <1>2, <2>1, <2>2
  <2>4. ~app'[p].playing
    <3>1. app'[p] = [app[p] EXCEPT !.playing = FALSE] /\ app[p] \in AppSet
      BY <1>1, <2>1, <2>2, <2>3
    <3> QED BY <3>1 DEF AppSet
  <2> QED BY <2>1, <2>2, <2>3, <2>4 DEF EndsReceiver
<1>12. ASSUME NEW x \in Peers, RecvDisconnectAck(x) PROVE ep[p].state = "disconnected"
  BY <1>1, <1>2, <1>12 DEF RecvDisconnectAck
<1> QED BY <1>3, <1>4, <1>5, <1>6, <1>7, <1>8, <1>9, <1>10, <1>11, <1>12
        DEF Next, Receive, Heartbeat, vars

\* notify_cb: an application that plays a call is told when its receiver goes,
\* unless it is hanging up itself.
THEOREM ReceiversEndKnown == Spec => PlayingIsTold
<1>1. ASSUME SessionInv, SessionInv', [Next]_vars, NEW p \in Peers
      PROVE  /\ ep'[p].receiver => app'[p].playing
             /\ ep[p].receiver /\ ~ep'[p].receiver
                  => ~app'[p].playing \/ ep[p].state = "disconnected"
  <2>1. ep'[p].receiver => app'[p].playing
    BY <1>1 DEF SessionInv, ReceiverIsPlayed
  <2> QED BY <1>1, <2>1, LosingReceiver
<1>2. ASSUME SessionInv, SessionInv', [Next]_vars
      PROVE  \A p \in Peers :
                /\ ep'[p].receiver => app'[p].playing
                /\ ep[p].receiver /\ ~ep'[p].receiver
                     => ~app'[p].playing \/ ep[p].state = "disconnected"
  BY <1>1, <1>2
<1> QED BY <1>2, SessionConsistent, PTL DEF Spec, PlayingIsTold

\* process_sim_disconnect: whatever is repeated, late or out of order, a call
\* that is up on both sides keeps its receiver until that side hangs up itself, or
\* its timer gives up after all its tries without a sign of life.
THEOREM LiveCallsKeepReceivers == Spec => LiveCallKeepsReceiver
<1>1. ASSUME SessionInv, [Next]_vars, NEW p \in Peers, NEW q, q = Other(p),
             ep[p].state = "connected", ep[q].receiver, ep[q].rcid = ep[p].scid,
             ~ep'[q].receiver
      PROVE  \/ ep[q].state = "disconnected"
             \/ TimedOut(ep[q]) /\ ep'[q] = Fresh
  <2>1. q \in Peers /\ Other(q) = p
    BY <1>1, TwoPeers
  <2>2. \A m \in net[q] : m.type = "DISCONNECT" => m.id # ep[p].scid
    BY <1>1, <2>1 DEF SessionInv, SignalsFit
  <2>3. ASSUME GiveUp(q) PROVE TimedOut(ep[q]) /\ ep'[q] = Fresh
    <3>1. ep \in [Peers -> EpSet]
      BY <1>1 DEF SessionInv, TypeOK
    <3> QED BY <2>1, <2>3, <3>1 DEF GiveUp
  <2> QED BY <1>1, <2>1, <2>2, <2>3, LosingReceiver
<1>2. ASSUME SessionInv, [Next]_vars
      PROVE  \A p \in Peers :
                LET q == Other(p)
                IN  /\ ep[p].state = "connected"
                    /\ ep[q].receiver
                    /\ ep[q].rcid = ep[p].scid
                    /\ ~ep'[q].receiver
                    => \/ ep[q].state = "disconnected"
                       \/ TimedOut(ep[q]) /\ ep'[q] = Fresh
  BY <1>1, <1>2
<1> QED BY <1>2, SessionConsistent, PTL DEF Spec, LiveCallKeepsReceiver
=============================================================================
