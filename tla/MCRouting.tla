------------------------------ MODULE MCRouting ------------------------------
(* Instances of Routing for TLC.  Each run takes its own group of constants. *)
EXTENDS Routing, TLC

CONSTANTS
    r1, r2, r3,                 \* requests
    solo, duo,                  \* agents, some named for their strategy
    ring, window, quota, queue,
    p1, p2, p3,                 \* providers
    s1, s2,                     \* sessions
    k1, k2, k3, k4,             \* client keys
    m1, m2                      \* models

Symmetric == Permutations(Requests)

NoWindow == [a \in Agents |-> [p \in Providers |-> << >>]]
NoQuota == [a \in Agents |-> None]
EvenWeights == [a \in Agents |-> [p \in Providers |-> 1]]
NoLimits == {{}}

Open(agent) == [agent |-> agent, providers |-> {}, models |-> {}]

(* Ceilings, grants, single, failover and a pinned session.                  *)
CeilingClient ==
    (k1 :> Open(solo)) @@ (k2 :> [Open(solo) EXCEPT !.providers = {p2}]) @@
    (k3 :> [agent |-> duo, providers |-> {p2, p3}, models |-> {m1}]) @@
    (k4 :> Open(ring))
CeilingRoute == (solo :> <<p1, p2>>) @@ (duo :> <<p1, p2, p3>>) @@ (ring :> <<p1, p2>>)
CeilingStrategy == (solo :> "single") @@ (duo :> "failover") @@ (ring :> "roundrobin")
CeilingCalls ==
    {[key |-> k1, session |-> NoSession, model |-> m1],
     [key |-> k2, session |-> NoSession, model |-> m1],
     [key |-> k3, session |-> NoSession, model |-> m1],
     [key |-> k3, session |-> NoSession, model |-> m2],
     [key |-> k4, session |-> s1, model |-> m1],
     [key |-> None, session |-> NoSession, model |-> m1]}
CeilingLimits == {{}, {p1}, {p2}, {p1, p2}, {solo}, {k3}}

(* Every strategy that drains, with sessions of two turns and more, turns    *)
(* that name no session, and enough new ones to fill a round of the ring.    *)
TurnClient ==
    (k1 :> Open(ring)) @@ (k2 :> Open(window)) @@ (k3 :> Open(quota)) @@ (k4 :> Open(queue))
TurnRoute == [a \in Agents |-> <<p1, p2>>]
TurnStrategy ==
    (ring :> "roundrobin") @@ (window :> "timewindow") @@
    (quota :> "quota") @@ (queue :> "leastbusy")
TurnWeight == [a \in Agents |-> (p1 :> 4) @@ (p2 :> 2)]
TurnWindow == [a \in Agents |-> (p1 :> <<1, 1>>) @@ (p2 :> <<1, 0>>)]
TurnQuota == [a \in Agents |-> 1]
TurnCalls ==
    [key : {k1, k2, k3, k4}, session : {s1}, model : {m1}] \cup
    [key : {k1, k4}, session : {NoSession}, model : {m1}] \cup
    [key : {k1}, session : {s2}, model : {m1}]
=============================================================================
