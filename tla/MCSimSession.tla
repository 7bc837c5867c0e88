--------------------------- MODULE MCSimSession ---------------------------
(* Instances of the session layer for TLC. *)
EXTENDS SimSession, TLC

\* The two endpoints are alike where both may call: sound for safety.
Alike == Permutations(Peers)

\* Bounds: no behaviour goes on from a state in which the network is full, so
\* that messages are lost by Lose alone, and the receiver asks for key frames
\* during the first call only.
FewOnTheWay ==
    LET keepalives(p) == Cardinality({m \in net[p] : IsKeepalive(m)})
    IN  \A p \in Peers :
            /\ Cardinality(net[p]) + Cardinality(net[Other(p)]) < NetCap
            /\ keepalives(p) + keepalives(Other(p)) < KeepaliveCap
            /\ calls > 1 => ep[p].rfir = 0 /\ ep[p].fir_seq = 0

-----------------------------------------------------------------------------
(* Where the liveness run starts: after a first call, from two of the states  *)
(* that a behaviour of Spec comes to, so that one more call is enough.        *)

\* The first call is over.
AtRest ==
    /\ ep = [p \in Peers |-> Fresh]
    /\ app = [p \in Peers |-> [call |-> "down", playing |-> FALSE]]
    /\ network \in Networks

\* The first call is up, made by the endpoint whose next call is not modelled:
\* the other one serves it, and may make a call of its own.
OtherCallUp ==
    /\ ep = [p \in Peers |-> IF p \in Callers
                             THEN [Fresh EXCEPT !.receiver = TRUE, !.rcid = 1]
                             ELSE [Fresh EXCEPT !.state = "connected", !.scid = 1,
                                                !.sender = TRUE, !.interrupt = "recover"]]
    /\ app = [p \in Peers |-> IF p \in Callers
                              THEN [call |-> "down", playing |-> TRUE]
                              ELSE [call |-> "up", playing |-> FALSE]]
    /\ network \in Networks \ {"reliable"}

LiveInit ==
    /\ calls = 1
    /\ net = [p \in Peers |-> {}]
    /\ AtRest \/ OtherCallUp

LiveSpec == LiveInit /\ [][Next]_vars /\ Fairness
=============================================================================
