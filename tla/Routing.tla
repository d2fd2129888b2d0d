------------------------------- MODULE Routing -------------------------------
(***************************************************************************)
(* One request through the gateway's data plane: attribution, the client    *)
(* key's contract, the ceilings, the strategy's choice of a head, the       *)
(* replay down the plan, and what each of these leaves in the state that    *)
(* requests share.                                                          *)
(* (server/data.rs handle, router/mod.rs, strategy/, limits/state.rs)       *)
(*                                                                          *)
(* Requests run on a multi-threaded runtime.  Each lock or atomic that they *)
(* share is one step here: the limits snapshot, the session table's lock,   *)
(* the ring's cursor, one gauge at a time, a usage query, the seat taken at *)
(* a candidate.  A decision a request makes from its own values alone is    *)
(* part of the step that gave it the last of them.                          *)
(*                                                                          *)
(* A plan is not kept as a list: it is its head and the set of usable       *)
(* candidates, because what follows the head is plain priority order.       *)
(***************************************************************************)
EXTENDS Integers, Sequences, FiniteSets, FiniteSetsExt

CONSTANTS
    Requests,   \* the requests of one behaviour: its bound
    Agents,
    Providers,
    Sessions,   \* session ids a request may name
    NoSession,  \* what a request that names none carries
    Keys,       \* client keys of the route table
    None,       \* no candidate
    Client,     \* key -> [agent, providers, models]: an empty list allows all
    Route,      \* agent -> its enabled candidates in priority order
    Strategy,   \* agent -> one of Strategies
    Weight,     \* agent -> candidate -> the binding's weight
    Window,     \* agent -> candidate -> <<start, end>>, or << >> for none
    QuotaLimit, \* agent -> the threshold of its quota strategy, in requests
    Calls,      \* what clients send: [key, session, model]
    Outcomes,   \* how an attempt may end, a subset of AllOutcomes
    LimitSets,  \* the evaluations the patrol may publish
    Day,        \* minutes of a day; 1 is a clock that stands still
    Serial      \* clients wait for one turn of a session before the next

Strategies == {"single", "failover", "roundrobin", "timewindow", "quota", "leastbusy"}

(* Strategies that drain: a session that was sent somewhere stays there.     *)
Sticky == {"roundrobin", "timewindow", "quota", "leastbusy"}

(* A whole body, a body that streams after its headers, a 4xx that is the    *)
(* request's own fault, a 408/429/5xx, and no answer at all (a 502 here).    *)
AllOutcomes == {"served", "streamed", "rejected", "failed", "unreachable"}

Retryable(how) == how \in {"failed", "unreachable"}

Slots == Agents \X (Sessions \cup {NoSession})

Candidates(a) == {Route[a][i] : i \in DOMAIN Route[a]}

ASSUME CallsAssumption ==
    \A c \in Calls : c.session \in Sessions \cup {NoSession}

ASSUME ClientAssumption == \A k \in Keys : Client[k].agent \in Agents

ASSUME RouteAssumption ==
    \A a \in Agents : Route[a] \in Seq(Providers) /\
        \A i, j \in DOMAIN Route[a] : Route[a][i] = Route[a][j] => i = j

ASSUME WeightAssumption ==
    \A a \in Agents : \A p \in Candidates(a) : Weight[a][p] \in Int

ASSUME OutcomesAssumption == Outcomes \subseteq AllOutcomes

ASSUME NoneAssumption == None \notin Providers

ASSUME RequestsAssumption == IsFiniteSet(Requests)

ASSUME DayAssumption == Day \in Nat \ {0}

VARIABLES
    req,        \* request -> how far it is and what it holds
    limits,     \* GatewayState.limits: the names over a ceiling
    pins,       \* StrategyEngine.sticky: slot -> candidate, or None
    cursor,     \* StrategyEngine.cursor: the ring position, one for all agents
    inflight,   \* StrategyEngine.inflight: agent -> candidate -> seats taken
    rows,       \* candidate -> usage rows of the day
    minute,     \* the user's clock, minute of the day
    turns,      \* history: the requests in the order they were resolved
    moved       \* history: request -> the seats of its agent that changed hands
                \* since it began to read the gauges

vars == <<req, limits, pins, cursor, inflight, rows, minute, turns, moved>>

shared == <<limits, pins, cursor, inflight, rows, minute, turns, moved>>

-----------------------------------------------------------------------------
(* Order and choice within a route.                                          *)

Before(a, p, q) ==
    \E i, j \in DOMAIN Route[a] : i < j /\ Route[a][i] = p /\ Route[a][j] = q

IsFirst(a, p, S) == p \in S /\ \A q \in S \ {p} : Before(a, p, q)

(* weight.max(1), and the ring the weights of S expand to after dividing by  *)
(* their gcd: q owns the Share(a, q, S) positions after those before it.     *)
Weighs(a, p) == IF Weight[a][p] < 1 THEN 1 ELSE Weight[a][p]

Gcd(a, S) ==
    Max({d \in 1..Max({Weighs(a, p) : p \in S}) : \A p \in S : Weighs(a, p) % d = 0})

Share(a, p, S) == Weighs(a, p) \div Gcd(a, S)

Shares(a, T, S) == MapThenSumSet(LAMBDA p : Share(a, p, S), T)

IsRingTurn(a, p, S, n) ==
    LET position == n % Shares(a, S, S)
        start == Shares(a, {q \in S : Before(a, q, p)}, S)
    IN  start <= position /\ position < start + Share(a, p, S)

(* in_window: a start after the end is a window over midnight.               *)
InWindow(now, w) ==
    /\ w # << >>
    /\ IF w[1] <= w[2] THEN w[1] <= now /\ now <= w[2]
                       ELSE w[1] <= now \/ now <= w[2]

-----------------------------------------------------------------------------
(* Attribution and ceilings, against one snapshot of the limits.             *)

Allows(list, name) == list = {} \/ name \in list

(* Fault: `single` pruned like every other strategy.                         *)
GrantedPruned(k) == {p \in Candidates(Client[k].agent) : Allows(Client[k].providers, p)}

(* route_without_disallowed_providers: `single` is never promoted.           *)
Granted(k) ==
    LET a == Client[k].agent
        own == IF Strategy[a] = "single"
               THEN {p \in Candidates(a) : IsFirst(a, p, Candidates(a))}
               ELSE Candidates(a)
    IN  {p \in own : Allows(Client[k].providers, p)}

(* plan's pruning: the granted candidates that are under their ceilings.     *)
Usable(k, over) == Granted(k) \ over

(* The first check that refuses the call, in the order the code makes them.  *)
Refusal(c, over) ==
    IF c.key \notin Keys                               THEN "unauthorized"
    ELSE IF c.key \in over                             THEN "client_over_limit"
    ELSE IF ~Allows(Client[c.key].models, c.model)     THEN "model_not_allowed"
    ELSE IF Candidates(Client[c.key].agent) = {}       THEN "no_provider_bound"
    ELSE IF Granted(c.key) = {}                        THEN "provider_not_allowed"
    ELSE IF Client[c.key].agent \in over               THEN "agent_over_limit"
    ELSE IF Usable(c.key, over) = {}                   THEN "provider_over_limit"
    ELSE "none"

-----------------------------------------------------------------------------
(* Requests.                                                                 *)

Unread == -1    \* a gauge this request has not read

Idle ==
    [pc |-> "idle", key |-> None, agent |-> None, session |-> NoSession,
     seen |-> {}, usable |-> {}, head |-> None, by |-> "none",
     gauges |-> [p \in Providers |-> Unread], asked |-> {}, at |-> None, answer |-> "none"]

Ended == {"refused", "unrouted", "answered", "gone"}

InProgress(r) == req[r].pc \notin Ended \cup {"idle"}

Slot(r) == <<req[r].agent, req[r].session>>

Drains(r) == req[r].session # NoSession \/ Strategy[req[r].agent] = "roundrobin"

Init ==
    /\ req = [r \in Requests |-> Idle]
    /\ limits \in LimitSets
    /\ pins = [s \in Slots |-> None]
    /\ cursor = 0
    /\ inflight = [a \in Agents |-> [p \in Providers |-> 0]]
    /\ rows = [p \in Providers |-> 0]
    /\ minute = 0
    /\ turns = << >>
    /\ moved = [r \in Requests |-> 0]

(* A client that is serial sends a turn when its session is otherwise quiet. *)
MaySend(c) ==
    Serial /\ c.key \in Keys /\ c.session # NoSession =>
        \A r \in Requests :
            ~(InProgress(r) /\ Slot(r) = <<Client[c.key].agent, c.session>>)

(* handle up to the plan: the limits snapshot, resolve_via_engine and the    *)
(* checks of plan.  What the strategy reads comes in later steps; `single`   *)
(* and `failover` read nothing more and are on the first usable candidate.   *)
Admit(r, c) ==
    LET a == Client[c.key].agent
        usable == Usable(c.key, limits)
        resolved == [req[r] EXCEPT !.key = c.key, !.agent = a, !.session = c.session,
                                   !.seen = limits, !.usable = usable]
    IN  /\ Refusal(c, limits) = "none"
        /\ turns' = Append(turns, r)
        /\ IF Strategy[a] \in Sticky
           THEN req' = [req EXCEPT ![r] = [resolved EXCEPT !.pc = "lookup"]]
           ELSE \E p \in usable :
                    /\ IsFirst(a, p, usable)
                    /\ req' = [req EXCEPT ![r] =
                          [resolved EXCEPT !.pc = "seat", !.head = p, !.by = "order"]]

Refuse(r, c) ==
    /\ Refusal(c, limits) # "none"
    /\ req' = [req EXCEPT ![r] =
          [@ EXCEPT !.pc = "refused", !.answer = Refusal(c, limits)]]
    /\ UNCHANGED turns

Resolve(r, c) ==
    /\ req[r].pc = "idle"
    /\ MaySend(c)
    /\ Admit(r, c) \/ Refuse(r, c)
    /\ UNCHANGED <<limits, pins, cursor, inflight, rows, minute, moved>>

(* Fault: the pin searched in the whole route.                               *)
LookupUnpruned(r) ==
    /\ req[r].pc = "lookup"
    /\ IF Drains(r) /\ pins[Slot(r)] # None
       THEN req' = [req EXCEPT ![r] =
                [@ EXCEPT !.pc = "seat", !.head = pins[Slot(r)], !.by = "pin",
                          !.usable = @ \cup {pins[Slot(r)]}]]
       ELSE req' = [req EXCEPT ![r].pc = "choose"]
    /\ UNCHANGED shared

(* Fault: only roundrobin asks the session table.                            *)
LookupRingOnly(r) ==
    /\ req[r].pc = "lookup"
    /\ IF Strategy[req[r].agent] = "roundrobin" /\ pins[Slot(r)] \in req[r].usable
       THEN req' = [req EXCEPT ![r] =
                [@ EXCEPT !.pc = "seat", !.head = pins[Slot(r)], !.by = "pin"]]
       ELSE req' = [req EXCEPT ![r].pc = "choose"]
    /\ UNCHANGED shared

(* pinned and drain: the session table under its lock, looked up in the      *)
(* pruned list.  A draining strategy does not ask it about "no session".     *)
Lookup(r) ==
    LET pin == pins[Slot(r)]
    IN  /\ req[r].pc = "lookup"
        /\ IF Drains(r) /\ pin \in req[r].usable
           THEN req' = [req EXCEPT ![r] =
                    [@ EXCEPT !.pc = "seat", !.head = pin, !.by = "pin"]]
           ELSE req' = [req EXCEPT ![r].pc = "choose"]
        /\ UNCHANGED shared

(* The head is decided; where the session was sent is recorded next.         *)
Settle(r, p, by) ==
    req' = [req EXCEPT ![r] = [@ EXCEPT !.pc = "assign", !.head = p, !.by = by]]

(* Fault: the cursor read and not advanced.                                  *)
ChooseWithoutAdvance(r) ==
    /\ req[r].pc = "choose"
    /\ Strategy[req[r].agent] = "roundrobin"
    /\ \E p \in req[r].usable :
          /\ IsRingTurn(req[r].agent, p, req[r].usable, cursor)
          /\ Settle(r, p, "ring")
    /\ UNCHANGED shared

(* weighted_next: the ring is read and advanced under the cursor's lock.     *)
ChooseFromRing(r) ==
    /\ req[r].pc = "choose"
    /\ Strategy[req[r].agent] = "roundrobin"
    /\ \E p \in req[r].usable :
          /\ IsRingTurn(req[r].agent, p, req[r].usable, cursor)
          /\ Settle(r, p, "ring")
    /\ cursor' = cursor + 1
    /\ UNCHANGED <<limits, pins, inflight, rows, minute, turns, moved>>

(* select_timewindow: the first candidate whose window is open, else the     *)
(* first candidate.                                                          *)
ChooseByWindow(r) ==
    LET a == req[r].agent
        open == {p \in req[r].usable : InWindow(minute, Window[a][p])}
    IN  /\ req[r].pc = "choose"
        /\ Strategy[a] = "timewindow"
        /\ \E p \in req[r].usable :
              /\ IsFirst(a, p, IF open = {} THEN req[r].usable ELSE open)
              /\ Settle(r, p, "window")
        /\ UNCHANGED shared

(* select_quota: the first usable candidate until the usage rows it has      *)
(* today reach the threshold, then the second one, if there is one.  Without *)
(* a valid threshold the first one serves.                                   *)
ChooseByQuota(r) ==
    LET a == req[r].agent
        usable == req[r].usable
    IN  /\ req[r].pc = "choose"
        /\ Strategy[a] = "quota"
        /\ \E first \in usable :
              /\ IsFirst(a, first, usable)
              /\ LET spent == QuotaLimit[a] # None /\ rows[first] >= QuotaLimit[a]
                 IN  IF spent /\ usable # {first}
                     THEN \E p \in usable \ {first} :
                              /\ IsFirst(a, p, usable \ {first})
                              /\ Settle(r, p, "quota")
                     ELSE Settle(r, first, "quota")
        /\ UNCHANGED shared

(* The quota's query fails, and the request with it.                         *)
QuotaUnread(r) ==
    /\ req[r].pc = "choose"
    /\ Strategy[req[r].agent] = "quota"
    /\ QuotaLimit[req[r].agent] # None
    /\ req' = [req EXCEPT ![r] = [@ EXCEPT !.pc = "unrouted", !.answer = "routing_error"]]
    /\ UNCHANGED shared

(* select_least_busy: the gauges are read one at a time, in priority order;  *)
(* the first of those that read least is the head.                           *)
ReadGauge(r) ==
    LET a == req[r].agent
        unread == {p \in req[r].usable : req[r].gauges[p] = Unread}
    IN  /\ req[r].pc = "choose"
        /\ Strategy[a] = "leastbusy"
        /\ \E p \in unread :
              /\ IsFirst(a, p, unread)
              /\ req' = [req EXCEPT ![r].gauges[p] = inflight[a][p]]
        /\ UNCHANGED shared

ChooseLeastBusy(r) ==
    LET a == req[r].agent
        usable == req[r].usable
        g == req[r].gauges
    IN  /\ req[r].pc = "choose"
        /\ Strategy[a] = "leastbusy"
        /\ \A p \in usable : g[p] # Unread
        /\ \E p \in usable :
              /\ IsFirst(a, p, {q \in usable : \A o \in usable : g[q] <= g[o]})
              /\ Settle(r, p, "queue")
        /\ UNCHANGED shared

(* assign and assign_drained: the session table under its lock again.        *)
Assign(r) ==
    /\ req[r].pc = "assign"
    /\ pins' = IF Drains(r) THEN [pins EXCEPT ![Slot(r)] = req[r].head] ELSE pins
    /\ req' = [req EXCEPT ![r].pc = "seat"]
    /\ UNCHANGED <<limits, cursor, inflight, rows, minute, turns, moved>>

(* Fault: the head is not taken out of the plan's tail.                      *)
IsNextWithHead(r, p) ==
    IF req[r].asked = {}
    THEN p = req[r].head
    ELSE IsFirst(req[r].agent, p, req[r].usable \ (req[r].asked \ {req[r].head}))

(* The next entry of the plan: its head, then the others in priority order.  *)
IsNext(r, p) ==
    IF req[r].asked = {}
    THEN p = req[r].head
    ELSE IsFirst(req[r].agent, p, req[r].usable \ (req[r].asked \cup {req[r].head}))

(* A gauge that was read is going to decide where the request begins.        *)
Deciding(r) ==
    /\ req[r].pc \in {"choose", "assign", "seat"} /\ req[r].asked = {}
    /\ \E p \in Providers : req[r].gauges[p] # Unread

(* A seat of r's agent changes hands.                                        *)
Stir(r) ==
    moved' = [q \in Requests |->
        IF Deciding(q) /\ req[q].agent = req[r].agent THEN moved[q] + 1 ELSE moved[q]]

(* inflight_guard, and the attempt it is held for.                           *)
TakeSeat(r) ==
    /\ req[r].pc = "seat"
    /\ \E p \in req[r].usable :
          /\ IsNext(r, p)
          /\ req' = [req EXCEPT ![r] =
                [@ EXCEPT !.pc = "calling", !.at = p,
                          !.asked = req[r].asked \cup {p}]]
          /\ inflight' = [inflight EXCEPT ![req[r].agent][p] = @ + 1]
    /\ Stir(r)
    /\ UNCHANGED <<limits, pins, cursor, rows, minute, turns>>

(* The guard's drop.                                                         *)
Release(r) ==
    /\ inflight' = [inflight EXCEPT ![req[r].agent][req[r].at] = @ - 1]
    /\ Stir(r)

(* record_sample: every buffered answer of an upstream leaves a usage row,   *)
(* whatever its status; a stream leaves it when it ends.                     *)
Meter(r, how) ==
    rows' = IF how \in {"unreachable", "streamed"} THEN rows
            ELSE [rows EXCEPT ![req[r].at] = @ + 1]

(* The attempt is over: its answer is the client's if this was the last      *)
(* candidate, if it is not one to replay, or if the plan is out of time.     *)
Answer(r, how, late) ==
    /\ req[r].pc = "calling"
    /\ Release(r)
    /\ Meter(r, how)
    /\ LET last == req[r].asked = req[r].usable
           replay == Retryable(how) /\ ~last
       IN  IF replay /\ ~late
           THEN req' = [req EXCEPT ![r].pc = "seat"]
           ELSE req' = [req EXCEPT ![r] =
                    [@ EXCEPT !.pc = IF how = "streamed" THEN "streaming" ELSE "answered",
                              !.answer = IF replay THEN "out_of_time" ELSE how]]
    /\ UNCHANGED <<limits, pins, cursor, minute, turns>>

(* The body of a streamed answer ends, or the client drops it.               *)
EndStream(r) ==
    /\ req[r].pc = "streaming"
    /\ rows' = [rows EXCEPT ![req[r].at] = @ + 1]
    /\ req' = [req EXCEPT ![r].pc = "answered"]
    /\ UNCHANGED <<limits, pins, cursor, inflight, minute, turns, moved>>

(* Fault: a seat given back by the return only, not by the drop.             *)
HangUpLeaks(r) ==
    /\ req[r].pc = "calling"
    /\ req' = [req EXCEPT ![r].pc = "gone"]
    /\ UNCHANGED shared

(* The client goes away during an attempt: the handler's future is dropped,  *)
(* and the guard with it.                                                    *)
HangUp(r) ==
    /\ req[r].pc = "calling"
    /\ Release(r)
    /\ req' = [req EXCEPT ![r].pc = "gone"]
    /\ UNCHANGED <<limits, pins, cursor, rows, minute, turns>>

(* A new evaluation of the ceilings is published (limits/patrol.rs).         *)
Publish(over) ==
    /\ limits' = over
    /\ UNCHANGED <<req, pins, cursor, inflight, rows, minute, turns, moved>>

(* The user's clock; a new day begins with no usage rows.                    *)
Tick ==
    /\ Day > 1
    /\ minute' = (minute + 1) % Day
    /\ rows' = IF minute' = 0 THEN [p \in Providers |-> 0] ELSE rows
    /\ UNCHANGED <<req, limits, pins, cursor, inflight, turns, moved>>

Choose(r) ==
    \/ ChooseFromRing(r)
    \/ ChooseByWindow(r)
    \/ ChooseByQuota(r)
    \/ QuotaUnread(r)
    \/ ReadGauge(r)
    \/ ChooseLeastBusy(r)

Respond(r) == \E how \in Outcomes, late \in BOOLEAN : Answer(r, how, late)

(* The steps a request takes by itself once it was resolved.                 *)
Proceed(r) ==
    \/ Lookup(r)
    \/ Choose(r)
    \/ Assign(r)
    \/ TakeSeat(r)
    \/ Respond(r)
    \/ EndStream(r)

Next ==
    \/ \E r \in Requests, c \in Calls : Resolve(r, c)
    \/ \E r \in Requests : Proceed(r)
    \/ \E r \in Requests : HangUp(r)
    \/ \E over \in LimitSets : Publish(over)
    \/ Tick

Spec == Init /\ [][Next]_vars

-----------------------------------------------------------------------------
(* Properties.                                                               *)

PCs == {"idle", "lookup", "choose", "assign", "seat", "calling", "streaming"} \cup Ended

Refusals ==
    {"unauthorized", "client_over_limit", "model_not_allowed", "no_provider_bound",
     "provider_not_allowed", "agent_over_limit", "provider_over_limit", "routing_error"}

Request ==
    [pc : PCs, key : Keys \cup {None}, agent : Agents \cup {None},
     session : Sessions \cup {NoSession}, seen : LimitSets \cup {{}},
     usable : SUBSET Providers, head : Providers \cup {None},
     by : {"none", "order", "pin", "ring", "window", "quota", "queue"},
     gauges : [Providers -> Nat \cup {Unread}],
     asked : SUBSET Providers, at : Providers \cup {None},
     answer : AllOutcomes \cup Refusals \cup {"none", "out_of_time"}]

(* The types of the requests and of what they share; a gauge, which is only  *)
(* ever added to and subtracted from, is never negative.                     *)
TypeOK ==
    /\ req \in [Requests -> Request]
    /\ limits \in LimitSets
    /\ pins \in [Slots -> Providers \cup {None}]
    /\ cursor \in Nat
    /\ inflight \in [Agents -> [Providers -> Nat]]
    /\ rows \in [Providers -> Nat]
    /\ minute \in 0..(Day - 1)
    /\ turns \in Seq(Requests)
    /\ moved \in [Requests -> Nat]

Calling(a, p) ==
    {r \in Requests : req[r].pc = "calling" /\ req[r].agent = a /\ req[r].at = p}

(* A gauge is the number of attempts that hold a seat, on every way out of   *)
(* an attempt: an answer, a replay, a spent budget, a client that hung up    *)
(* (least_busy.rs: "cannot leak a count that would skew every later choice").*)
GaugesCountSeats ==
    \A a \in Agents, p \in Providers : inflight[a][p] = Cardinality(Calling(a, p))

(* Whatever the strategy, the pins and the replay do, nobody is asked whom   *)
(* the client key was not granted or who was over a ceiling when the request *)
(* was resolved, and nobody at all for an agent or a key over its own.       *)
CeilingsHold ==
    \A r \in Requests : req[r].pc \in {"calling", "streaming"} =>
        /\ {req[r].at, req[r].agent, req[r].key} \cap req[r].seen = {}
        /\ Allows(Client[req[r].key].providers, req[r].at)

(* `single` is one provider on purpose: neither a ceiling, nor a grant list, *)
(* nor a failed attempt ever makes another candidate serve.                  *)
SingleIsNeverPromoted ==
    \A r \in Requests : req[r].at # None /\ Strategy[req[r].agent] = "single" =>
        /\ req[r].at = Route[req[r].agent][1]
        /\ req[r].asked = {req[r].at}

(* A replay never asks a candidate that already failed this request, and     *)
(* goes down the route's order once it is past the head.                     *)
ReplaysDownTheRoute ==
    [][\A r \in Requests : req[r].pc = "seat" /\ req'[r].pc = "calling" =>
          /\ req'[r].at \notin req[r].asked
          /\ \A p \in req[r].asked \ {req[r].head} : Before(req[r].agent, p, req'[r].at)
      ]_vars

(* Turn j is the next one of turn i's session that got as far as a head.     *)
Follows(i, j) ==
    LET decided == {k \in DOMAIN turns : Slot(turns[k]) = Slot(turns[i])
                                         /\ req[turns[k]].head # None}
    IN  /\ {i, j} \subseteq decided
        /\ i < j
        /\ ~\E k \in decided : i < k /\ k < j

(* "A conversation keeps its provider": while the provider of a turn is      *)
(* still usable, the next turn of the session is on it, wherever the ring,   *)
(* the clock, the quota or the queues have moved to.                         *)
KeepsProvider ==
    \A i, j \in DOMAIN turns :
        LET a == req[turns[i]].agent
        IN  /\ Follows(i, j)
            /\ Strategy[a] \in Sticky
            /\ req[turns[i]].session # NoSession
            /\ req[turns[i]].head \in req[turns[j]].usable
            => req[turns[j]].head = req[turns[i]].head

(* A whole round of the agent's ring, and a candidate's share of it.         *)
Round == [a \in Agents |-> Shares(a, Candidates(a), Candidates(a))]
Due == [a \in Agents |-> [p \in Candidates(a) |-> Share(a, p, Candidates(a))]]

(* New sessions of an agent are spread by weight: a candidate never gets     *)
(* less than its share of the rounds its ring has finished, nor more than    *)
(* its share of those it has begun.                                          *)
RingShare ==
    \A a \in Agents :
        LET fresh == {r \in Requests : req[r].agent = a /\ req[r].by = "ring"}
            new == Cardinality(fresh)
        IN  \A p \in Candidates(a) :
                LET picked == Cardinality({r \in fresh : req[r].head = p})
                IN  /\ (new \div Round[a]) * Due[a][p] <= picked
                    /\ picked <= ((new + Round[a] - 1) \div Round[a]) * Due[a][p]

(* Where least-busy is about to begin has no more attempts under way than    *)
(* any other candidate, but for the seats that changed hands since the       *)
(* request began to look: gauges are read one by one, then the choice is     *)
(* pinned, then the seat taken, and others come and go between any two of    *)
(* these (least_busy.rs:19: a count that leaked "would skew every later      *)
(* choice").                                                                 *)
PicksAShortQueue ==
    \A r \in Requests :
        LET waiting(p) == Cardinality(Calling(req[r].agent, p))
        IN  req[r].pc \in {"assign", "seat"} /\ req[r].by = "queue" /\ req[r].asked = {} =>
                \A p \in req[r].usable : waiting(req[r].head) <= waiting(p) + moved[r]
=============================================================================
