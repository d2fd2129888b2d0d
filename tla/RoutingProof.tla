---------------------------- MODULE RoutingProof ----------------------------
(***************************************************************************)
(* What holds of Routing for every set of agents, providers, keys, routes   *)
(* and calls: its types, that a gauge is the number of attempts under way,  *)
(* that no ceiling or grant is ever gone around, that replays go down the   *)
(* route, that a queue that is picked is short, that a conversation keeps   *)
(* its provider, and that the ring is shared by weight.                     *)
(***************************************************************************)
EXTENDS Routing, SharedLemmas

(* What a request that got past its refusals still remembers correctly: the  *)
(* candidates it may use are those its key was granted and its snapshot left *)
(* it, and whom it asks is one of them.                                      *)
Resolved(q) ==
    /\ q.key \in Keys
    /\ q.agent = Client[q.key].agent
    /\ q.usable = Usable(q.key, q.seen)
    /\ q.agent \notin q.seen
    /\ q.key \notin q.seen

Sound(q) ==
    /\ q.asked \subseteq q.usable
    /\ q.at # None => q.at \in q.asked
    /\ q.pc \in {"calling", "streaming"} => q.at # None
    /\ q.pc \in {"idle", "refused"} => q.at = None /\ q.asked = {}
    /\ q.pc \in {"assign", "seat", "calling"} => q.head # None
    /\ q.pc \notin {"idle", "refused"} => Resolved(q)

Remembers == \A r \in Requests : Sound(req[r])

IInv == TypeOK /\ Remembers /\ GaugesCountSeats

-----------------------------------------------------------------------------
LEMMA CallingFinite ==
  ASSUME NEW a, NEW p
  PROVE  /\ IsFiniteSet(Calling(a, p))
         /\ Cardinality(Calling(a, p)) \in Nat
  BY RequestsAssumption, FS_Subset, FS_CardinalityType DEF Calling

(* Whom a key may use is whom its agent is bound to.                         *)
LEMMA UsableAreProviders ==
  ASSUME NEW k \in Keys, NEW over
  PROVE  Usable(k, over) \subseteq Providers
<1>1. Client[k].agent \in Agents
  BY ClientAssumption
<1>2. Candidates(Client[k].agent) \subseteq Providers
  BY <1>1, RouteAssumption DEF Candidates
<1> QED
  BY <1>2 DEF Usable, Granted

(* A seat changes hands: who is deciding takes note of it.                   *)
LEMMA Stirred ==
  ASSUME TypeOK, NEW r, Stir(r)
  PROVE  /\ moved' \in [Requests -> Nat]
         /\ \A q \in Requests :
               /\ moved[q] <= moved'[q]
               /\ Deciding(q) /\ req[q].agent = req[r].agent => moved'[q] = moved[q] + 1
<1>1. moved \in [Requests -> Nat]
  BY DEF TypeOK
<1>2. ASSUME NEW q \in Requests
      PROVE  /\ moved'[q] \in {moved[q], moved[q] + 1}
             /\ Deciding(q) /\ req[q].agent = req[r].agent => moved'[q] = moved[q] + 1
  BY <1>1 DEF Stir
<1>3. moved' \in [Requests -> Nat]
  <2>1. DOMAIN moved' = Requests /\ moved' = [q \in Requests |-> moved'[q]]
    BY DEF Stir
  <2> QED
    BY <1>1, <1>2, <2>1
<1> QED
  BY <1>1, <1>2, <1>3

LEMMA InitIInv == Init => IInv
<1> SUFFICES ASSUME Init PROVE IInv
  OBVIOUS
<1>1. Idle \in Request
  BY DEF Idle, Request, PCs, Unread
<1>2. TypeOK
  BY <1>1, DayAssumption DEF Init, TypeOK
<1>3. Remembers
  BY DEF Init, Remembers, Sound, Idle
<1>4. \A a, p : Calling(a, p) = {}
  BY DEF Calling, Init, Idle
<1>5. GaugesCountSeats
  BY <1>4, FS_EmptySet DEF GaugesCountSeats, Init
<1> QED
  BY <1>2, <1>3, <1>5 DEF IInv

-----------------------------------------------------------------------------
(* Gauges.  A step that neither begins nor ends an attempt leaves them and   *)
(* the attempts alone; the others move one seat of one candidate.            *)

LEMMA SameSeats ==
  ASSUME TypeOK, GaugesCountSeats, inflight' = inflight,
         \A r \in Requests : /\ req'[r].pc = "calling" <=> req[r].pc = "calling"
                             /\ req[r].pc = "calling" =>
                                   /\ req'[r].agent = req[r].agent
                                   /\ req'[r].at = req[r].at
  PROVE  GaugesCountSeats'
<1>1. ASSUME NEW a, NEW p PROVE Calling(a, p)' = Calling(a, p)
  BY DEF Calling
<1> QED
  BY <1>1, Zenon DEF GaugesCountSeats

LEMMA SeatTaken ==
  ASSUME TypeOK, GaugesCountSeats, NEW r \in Requests,
         NEW a \in Agents, NEW p \in Providers,
         req[r].pc # "calling",
         NEW q, q.pc = "calling", q.agent = a, q.at = p,
         req' = [req EXCEPT ![r] = q],
         inflight' = [inflight EXCEPT ![a][p] = @ + 1]
  PROVE  GaugesCountSeats'
<1> SUFFICES ASSUME NEW b \in Agents, NEW o \in Providers
             PROVE  inflight'[b][o] = Cardinality(Calling(b, o)')
  BY DEF GaugesCountSeats
<1>1. CASE b = a /\ o = p
  <2>1. Calling(b, o)' = Calling(b, o) \cup {r}
    BY <1>1 DEF Calling, TypeOK
  <2>2. r \notin Calling(b, o)
    BY DEF Calling
  <2>3. Cardinality(Calling(b, o) \cup {r}) = Cardinality(Calling(b, o)) + 1
    BY <2>2, CallingFinite, FS_AddElement
  <2>4. inflight'[b][o] = inflight[b][o] + 1
    BY <1>1 DEF TypeOK
  <2> QED
    BY <2>1, <2>3, <2>4 DEF GaugesCountSeats
<1>2. CASE ~(b = a /\ o = p)
  <2>1. Calling(b, o)' = Calling(b, o)
    BY <1>2 DEF Calling, TypeOK
  <2>2. inflight'[b][o] = inflight[b][o]
    BY <1>2 DEF TypeOK
  <2> QED
    BY <2>1, <2>2 DEF GaugesCountSeats
<1> QED
  BY <1>1, <1>2

LEMMA SeatReleased ==
  ASSUME TypeOK, GaugesCountSeats, NEW r \in Requests,
         req[r].agent \in Agents, req[r].at \in Providers,
         req[r].pc = "calling",
         NEW q, q.pc # "calling",
         req' = [req EXCEPT ![r] = q],
         Release(r)
  PROVE  GaugesCountSeats' /\ inflight' \in [Agents -> [Providers -> Nat]]
<1> DEFINE a == req[r].agent
           p == req[r].at
<1>1. r \in Calling(a, p)
  BY DEF Calling
<1>2. inflight[a][p] \in Nat \ {0}
  <2>1. Cardinality(Calling(a, p)) # 0
    BY <1>1, CallingFinite, FS_EmptySet
  <2> QED
    BY <2>1 DEF GaugesCountSeats, TypeOK
<1>3. inflight' \in [Agents -> [Providers -> Nat]]
  <2>1. inflight[a][p] - 1 \in Nat
    BY <1>2
  <2> QED
    BY <2>1 DEF Release, TypeOK
<1>4. ASSUME NEW b \in Agents, NEW o \in Providers
      PROVE  inflight'[b][o] = Cardinality(Calling(b, o)')
  <2>1. CASE b = a /\ o = p
    <3>1. Calling(b, o)' = Calling(b, o) \ {r}
      BY <2>1 DEF Calling, TypeOK
    <3>2. Cardinality(Calling(b, o) \ {r}) = Cardinality(Calling(b, o)) - 1
      BY <1>1, <2>1, CallingFinite, FS_RemoveElement
    <3>3. inflight'[b][o] = inflight[b][o] - 1
      BY <2>1 DEF Release, TypeOK
    <3> QED
      BY <3>1, <3>2, <3>3 DEF GaugesCountSeats
  <2>2. CASE ~(b = a /\ o = p)
    <3>1. Calling(b, o)' = Calling(b, o)
      BY <2>2 DEF Calling, TypeOK
    <3>2. inflight'[b][o] = inflight[b][o]
      BY <2>2 DEF Release, TypeOK
    <3> QED
      BY <3>1, <3>2 DEF GaugesCountSeats
  <2> QED
    BY <2>1, <2>2
<1> QED
  BY <1>3, <1>4 DEF GaugesCountSeats

-----------------------------------------------------------------------------
(* Requests.  A step gives one request a new record.                         *)

LEMMA OneRecord ==
  ASSUME TypeOK, Remembers, NEW r \in Requests,
         NEW q \in Request, Sound(q), req' = [req EXCEPT ![r] = q]
  PROVE  req' \in [Requests -> Request] /\ Remembers'
  BY DEF TypeOK, Remembers

(* A step of a request that is outside an attempt before and after it.       *)
LEMMA Gathered ==
  ASSUME IInv, NEW r \in Requests, NEW q \in Request, Sound(q),
         req[r].pc # "calling", q.pc # "calling",
         req' = [req EXCEPT ![r] = q], inflight' = inflight,
         limits' \in LimitSets, pins' \in [Slots -> Providers \cup {None}],
         cursor' \in Nat, rows' \in [Providers -> Nat],
         minute' \in 0..(Day - 1), turns' \in Seq(Requests), moved' = moved
  PROVE  IInv'
<1>1. req' \in [Requests -> Request] /\ Remembers'
  BY OneRecord DEF IInv
<1>2. GaugesCountSeats'
  BY SameSeats DEF IInv, TypeOK
<1>3. TypeOK'
  BY <1>1 DEF IInv, TypeOK
<1> QED
  BY <1>1, <1>2, <1>3 DEF IInv

(* What a request that was resolved is: the facts its next steps rest on.    *)
LEMMA Facts ==
  ASSUME IInv, NEW r \in Requests, req[r].pc \notin {"idle", "refused"}
  PROVE  /\ req[r] \in Request
         /\ Sound(req[r])
         /\ req[r].agent \in Agents
         /\ req[r].usable \subseteq Providers
         /\ Slot(r) \in Slots
<1>1. req[r] \in Request /\ Sound(req[r])
  BY DEF IInv, TypeOK, Remembers
<1>2. req[r].agent \in Agents /\ req[r].usable \subseteq Providers
  BY <1>1, ClientAssumption, UsableAreProviders DEF Sound, Resolved
<1>3. req[r].session \in Sessions \cup {NoSession}
  BY <1>1 DEF Request
<1> QED
  BY <1>1, <1>2, <1>3 DEF Slot, Slots

LEMMA ResolveIInv ==
  ASSUME IInv, NEW r \in Requests, NEW c \in Calls, Resolve(r, c)
  PROVE  IInv'
<1> DEFINE a == Client[c.key].agent
           usable == Usable(c.key, limits)
           resolved == [req[r] EXCEPT !.key = c.key, !.agent = a, !.session = c.session,
                                      !.seen = limits, !.usable = usable]
<1>1. req[r] \in Request /\ Sound(req[r]) /\ req[r].pc = "idle"
  BY DEF IInv, TypeOK, Remembers, Resolve
<1>2. CASE Admit(r, c)
  <2>1. /\ c.key \in Keys
        /\ c.key \notin limits
        /\ a \notin limits
    BY <1>2, Zenon DEF Admit, Refusal
  <2>2. a \in Agents /\ usable \subseteq Providers
    BY <2>1, ClientAssumption, UsableAreProviders
  <2>3. limits \in LimitSets /\ c.session \in Sessions \cup {NoSession}
    BY CallsAssumption DEF IInv, TypeOK
  <2>4. req[r].at = None /\ req[r].asked = {}
    BY <1>1 DEF Sound
  <2>5. \E q \in Request : Sound(q) /\ q.pc # "calling" /\ req' = [req EXCEPT ![r] = q]
    <3>1. CASE Strategy[a] \in Sticky
      <4> DEFINE q == [resolved EXCEPT !.pc = "lookup"]
      <4>1. req' = [req EXCEPT ![r] = q]
        BY <1>2, <3>1 DEF Admit
      <4>2. q \in Request
        BY <1>1, <2>1, <2>2, <2>3, ZenonT(40) DEF Request, PCs
      <4>3. Sound(q)
        BY <1>1, <2>1, <2>4 DEF Sound, Resolved, Request
      <4> QED
        BY <1>1, <4>1, <4>2, <4>3 DEF Request
    <3>2. CASE Strategy[a] \notin Sticky
      <4>1. PICK p \in usable :
               req' = [req EXCEPT ![r] =
                         [resolved EXCEPT !.pc = "seat", !.head = p, !.by = "order"]]
        BY <1>2, <3>2 DEF Admit
      <4> DEFINE q == [resolved EXCEPT !.pc = "seat", !.head = p, !.by = "order"]
      <4>2. q \in Request
        BY <1>1, <2>1, <2>2, <2>3, ZenonT(40) DEF Request, PCs
      <4>3. Sound(q)
        BY <1>1, <2>1, <2>2, <2>4, NoneAssumption DEF Sound, Resolved, Request
      <4> QED
        BY <1>1, <4>1, <4>2, <4>3 DEF Request
    <3> QED
      BY <3>1, <3>2
  <2>6. turns' \in Seq(Requests)
    <3>1. turns' = Append(turns, r)
      BY <1>2, Zenon DEF Admit
    <3>2. turns \in Seq(Requests)
      BY DEF IInv, TypeOK
    <3> QED
      BY <3>1, <3>2
  <2>7. PICK q \in Request : Sound(q) /\ q.pc # "calling" /\ req' = [req EXCEPT ![r] = q]
    BY <2>5
  <2>8. UNCHANGED <<limits, pins, cursor, inflight, rows, minute, moved>>
    BY DEF Resolve
  <2> QED
    BY <1>1, <2>6, <2>7, <2>8, Gathered DEF IInv, TypeOK
<1>3. CASE Refuse(r, c)
  <2> DEFINE q == [req[r] EXCEPT !.pc = "refused", !.answer = Refusal(c, limits)]
  <2>1. Refusal(c, limits) \in Refusals
    BY <1>3 DEF Refuse, Refusal, Refusals
  <2>2. q \in Request
    BY <1>1, <2>1 DEF Request, PCs, Ended
  <2>3. Sound(q)
    BY <1>1 DEF Sound, Request
  <2>4. req' = [req EXCEPT ![r] = q]
    BY <1>3 DEF Refuse
  <2>5. turns' \in Seq(Requests)
    BY <1>3 DEF Refuse, IInv, TypeOK
  <2>6. q.pc # "calling"
    BY <1>1 DEF Request
  <2> QED
    BY <1>1, <2>2, <2>3, <2>4, <2>5, <2>6, Gathered DEF Resolve, IInv, TypeOK
<1> QED
  BY <1>2, <1>3 DEF Resolve

(* A step that gives a resolved request a new record, outside any attempt,   *)
(* and leaves what the ceilings rest on as it was.                           *)
LEMMA OutsideAttempts ==
  ASSUME IInv, NEW r \in Requests, req[r].pc \in {"lookup", "choose", "assign", "streaming"},
         NEW q \in Request,
         q.pc \in {"seat", "choose", "assign", "answered", "unrouted"},
         q.pc \in {"seat", "assign"} => q.head # None,
         q.key = req[r].key, q.agent = req[r].agent, q.seen = req[r].seen,
         q.usable = req[r].usable, q.asked = req[r].asked, q.at = req[r].at,
         req' = [req EXCEPT ![r] = q],
         inflight' = inflight, limits' = limits, minute' = minute, turns' = turns,
         moved' = moved,
         pins' \in [Slots -> Providers \cup {None}],
         cursor' \in Nat, rows' \in [Providers -> Nat]
  PROVE  IInv'
<1>1. Sound(q)
  BY Facts DEF Sound, Resolved
<1> QED
  BY <1>1, Gathered DEF IInv, TypeOK

LEMMA LookupIInv ==
  ASSUME IInv, NEW r \in Requests, Lookup(r)
  PROVE  IInv'
<1>1. req[r] \in Request /\ req[r].pc = "lookup" /\ req[r].usable \subseteq Providers
  BY Facts DEF Lookup
<1>2. UNCHANGED shared
  BY DEF Lookup
<1>3. CASE Drains(r) /\ pins[Slot(r)] \in req[r].usable
  <2> DEFINE q == [req[r] EXCEPT !.pc = "seat", !.head = pins[Slot(r)], !.by = "pin"]
  <2>1. req' = [req EXCEPT ![r] = q]
    BY <1>3 DEF Lookup
  <2>2. q \in Request /\ q.pc = "seat" /\ q.head # None
    BY <1>1, <1>3, NoneAssumption DEF Request, PCs
  <2>3. /\ q.key = req[r].key /\ q.agent = req[r].agent /\ q.seen = req[r].seen
        /\ q.usable = req[r].usable /\ q.asked = req[r].asked /\ q.at = req[r].at
    BY <1>1 DEF Request
  <2> HIDE DEF q
  <2> QED
    BY <1>1, <1>2, <2>1, <2>2, <2>3, OutsideAttempts DEF shared, IInv, TypeOK
<1>4. CASE ~(Drains(r) /\ pins[Slot(r)] \in req[r].usable)
  <2> DEFINE q == [req[r] EXCEPT !.pc = "choose"]
  <2>1. req' = [req EXCEPT ![r] = q]
    BY <1>4 DEF Lookup
  <2>2. q \in Request /\ q.pc = "choose"
    BY <1>1 DEF Request, PCs
  <2>3. /\ q.key = req[r].key /\ q.agent = req[r].agent /\ q.seen = req[r].seen
        /\ q.usable = req[r].usable /\ q.asked = req[r].asked /\ q.at = req[r].at
    BY <1>1 DEF Request
  <2> HIDE DEF q
  <2> QED
    BY <1>1, <1>2, <2>1, <2>2, <2>3, OutsideAttempts DEF shared, IInv, TypeOK
<1> QED
  BY <1>3, <1>4

(* However a strategy chooses, it settles on one of the usable candidates.   *)
LEMMA SettleIInv ==
  ASSUME IInv, NEW r \in Requests, req[r].pc = "choose",
         NEW p \in req[r].usable, NEW means \in {"ring", "window", "quota", "queue"},
         Settle(r, p, means), cursor' \in Nat,
         UNCHANGED <<limits, pins, inflight, rows, minute, turns, moved>>
  PROVE  IInv'
<1> DEFINE q == [req[r] EXCEPT !.pc = "assign", !.head = p, !.by = means]
<1>1. req[r] \in Request /\ req[r].usable \subseteq Providers
  BY Facts
<1>2. req' = [req EXCEPT ![r] = q]
  BY DEF Settle
<1>3. q \in Request /\ q.pc = "assign" /\ q.head # None
  <2>1. p \in Providers /\ p # None
    BY <1>1, NoneAssumption
  <2>2. "assign" \in PCs /\ means \in {"none", "order", "pin", "ring", "window", "quota", "queue"}
    BY DEF PCs
  <2>3. q \in Request
    BY <1>1, <2>1, <2>2 DEF Request
  <2>4. q.pc = "assign" /\ q.head = p
    BY <1>1 DEF Request
  <2> QED
    BY <2>1, <2>3, <2>4
<1>4. /\ q.key = req[r].key /\ q.agent = req[r].agent /\ q.seen = req[r].seen
      /\ q.usable = req[r].usable /\ q.asked = req[r].asked /\ q.at = req[r].at
  BY <1>1 DEF Request
<1> HIDE DEF q
<1> QED
  BY <1>1, <1>2, <1>3, <1>4, OutsideAttempts DEF IInv, TypeOK

LEMMA ChooseIInv ==
  ASSUME IInv, NEW r \in Requests, Choose(r)
  PROVE  IInv'
<1>1. CASE ChooseFromRing(r)
  BY <1>1, SettleIInv DEF ChooseFromRing, IInv, TypeOK
<1>2. CASE ChooseByWindow(r)
  BY <1>2, SettleIInv DEF ChooseByWindow, shared, IInv, TypeOK
<1>3. CASE ChooseByQuota(r)
  BY <1>3, SettleIInv DEF ChooseByQuota, shared, IInv, TypeOK
<1>4. CASE ChooseLeastBusy(r)
  BY <1>4, SettleIInv DEF ChooseLeastBusy, shared, IInv, TypeOK
<1>5. CASE ReadGauge(r)
  <2>1. PICK p \in req[r].usable :
           req' = [req EXCEPT ![r].gauges[p] = inflight[req[r].agent][p]]
    BY <1>5 DEF ReadGauge
  <2> DEFINE q == [req[r] EXCEPT !.gauges[p] = inflight[req[r].agent][p]]
  <2>2. req[r].pc = "choose" /\ UNCHANGED shared
    BY <1>5 DEF ReadGauge
  <2>3. /\ req[r] \in Request /\ req[r].agent \in Agents
        /\ req[r].usable \subseteq Providers
    BY <2>2, Facts
  <2>4. req' = [req EXCEPT ![r] = q]
    BY <2>1
  <2>5. inflight[req[r].agent][p] \in Nat
    BY <2>3 DEF IInv, TypeOK
  <2>6. q \in Request /\ q.pc = "choose"
    BY <2>2, <2>3, <2>5 DEF Request
  <2>7. /\ q.key = req[r].key /\ q.agent = req[r].agent /\ q.seen = req[r].seen
        /\ q.usable = req[r].usable /\ q.asked = req[r].asked /\ q.at = req[r].at
    BY <2>3 DEF Request
  <2> HIDE DEF q
  <2> QED
    BY <2>2, <2>4, <2>6, <2>7, OutsideAttempts DEF shared, IInv, TypeOK
<1>6. CASE QuotaUnread(r)
  <2> DEFINE q == [req[r] EXCEPT !.pc = "unrouted", !.answer = "routing_error"]
  <2>1. req[r].pc = "choose" /\ req' = [req EXCEPT ![r] = q] /\ UNCHANGED shared
    BY <1>6 DEF QuotaUnread
  <2>2. req[r] \in Request
    BY <2>1, Facts
  <2>3. q \in Request /\ q.pc = "unrouted"
    <3>1. "unrouted" \in PCs /\ "routing_error" \in Refusals
      BY DEF PCs, Ended, Refusals
    <3> QED
      BY <2>2, <3>1 DEF Request
  <2>4. /\ q.key = req[r].key /\ q.agent = req[r].agent /\ q.seen = req[r].seen
        /\ q.usable = req[r].usable /\ q.asked = req[r].asked /\ q.at = req[r].at
    BY <2>2 DEF Request
  <2> HIDE DEF q
  <2> QED
    BY <2>1, <2>3, <2>4, OutsideAttempts DEF shared, IInv, TypeOK
<1> QED
  BY <1>1, <1>2, <1>3, <1>4, <1>5, <1>6 DEF Choose

LEMMA AssignIInv ==
  ASSUME IInv, NEW r \in Requests, Assign(r)
  PROVE  IInv'
<1> DEFINE q == [req[r] EXCEPT !.pc = "seat"]
<1>1. req[r].pc = "assign"
  BY DEF Assign
<1>2. /\ req[r] \in Request /\ Sound(req[r]) /\ Slot(r) \in Slots
  BY <1>1, Facts
<1>3. req[r].head # None /\ req[r].head \in Providers
  BY <1>1, <1>2 DEF Sound, Request
<1>4. pins' \in [Slots -> Providers \cup {None}]
  BY <1>2, <1>3 DEF Assign, IInv, TypeOK
<1>5. req' = [req EXCEPT ![r] = q]
  BY DEF Assign
<1>6. q \in Request /\ q.pc = "seat" /\ q.head # None
  BY <1>2, <1>3 DEF Request, PCs
<1>7. /\ q.key = req[r].key /\ q.agent = req[r].agent /\ q.seen = req[r].seen
      /\ q.usable = req[r].usable /\ q.asked = req[r].asked /\ q.at = req[r].at
  BY <1>2 DEF Request
<1>8. UNCHANGED <<limits, cursor, inflight, rows, minute, turns, moved>>
  BY DEF Assign
<1> HIDE DEF q
<1> QED
  BY <1>1, <1>4, <1>5, <1>6, <1>7, <1>8, OutsideAttempts DEF IInv, TypeOK

LEMMA TakeSeatIInv ==
  ASSUME IInv, NEW r \in Requests, TakeSeat(r)
  PROVE  IInv'
<1>1. req[r].pc = "seat"
  BY DEF TakeSeat
<1>2. /\ req[r] \in Request /\ Sound(req[r])
      /\ req[r].agent \in Agents /\ req[r].usable \subseteq Providers
  BY <1>1, Facts
<1>3. PICK p \in req[r].usable :
         /\ req' = [req EXCEPT ![r] =
               [@ EXCEPT !.pc = "calling", !.at = p, !.asked = req[r].asked \cup {p}]]
         /\ inflight' = [inflight EXCEPT ![req[r].agent][p] = @ + 1]
  BY DEF TakeSeat
<1> DEFINE q == [req[r] EXCEPT !.pc = "calling", !.at = p, !.asked = req[r].asked \cup {p}]
<1>4. req' = [req EXCEPT ![r] = q]
  BY <1>3
<1>5. q \in Request /\ q.pc = "calling" /\ q.agent = req[r].agent /\ q.at = p
  BY <1>2, <1>3 DEF Request, PCs
<1>6. Sound(q)
  BY <1>1, <1>2, <1>3, NoneAssumption DEF Sound, Resolved, Request
<1> HIDE DEF q
<1>7. GaugesCountSeats'
  BY <1>1, <1>2, <1>3, <1>4, <1>5, SeatTaken DEF IInv
<1>8. req' \in [Requests -> Request] /\ Remembers'
  BY <1>4, <1>5, <1>6, OneRecord DEF IInv
<1>9. inflight' \in [Agents -> [Providers -> Nat]]
  BY <1>2, <1>3 DEF IInv, TypeOK
<1>10. UNCHANGED <<limits, pins, cursor, rows, minute, turns>> /\ Stir(r)
  BY DEF TakeSeat
<1>11. moved' \in [Requests -> Nat]
  BY <1>10, Stirred DEF IInv
<1> QED
  BY <1>7, <1>8, <1>9, <1>10, <1>11 DEF IInv, TypeOK

(* An attempt ends, and its seat is given back with it.                      *)
LEMMA AttemptEnds ==
  ASSUME IInv, NEW r \in Requests, req[r].pc = "calling", Release(r),
         NEW q \in Request, q.pc \in {"seat", "answered", "streaming", "gone"},
         q.key = req[r].key, q.agent = req[r].agent, q.seen = req[r].seen,
         q.usable = req[r].usable, q.asked = req[r].asked, q.at = req[r].at,
         q.pc = "seat" => q.head # None,
         req' = [req EXCEPT ![r] = q],
         UNCHANGED <<limits, pins, cursor, minute, turns>>,
         rows' \in [Providers -> Nat]
  PROVE  IInv'
<1>1. /\ Sound(req[r]) /\ req[r].agent \in Agents /\ req[r].usable \subseteq Providers
  BY Facts
<1>2. req[r].at \in Providers
  BY <1>1 DEF Sound
<1>3. Sound(q)
  BY <1>1 DEF Sound, Resolved
<1>4. GaugesCountSeats' /\ inflight' \in [Agents -> [Providers -> Nat]]
  BY <1>1, <1>2, SeatReleased DEF IInv
<1>5. req' \in [Requests -> Request] /\ Remembers'
  BY <1>3, OneRecord DEF IInv
<1>6. moved' \in [Requests -> Nat]
  BY Stirred DEF Release, IInv
<1> QED
  BY <1>4, <1>5, <1>6 DEF IInv, TypeOK

LEMMA AnswerIInv ==
  ASSUME IInv, NEW r \in Requests, NEW how \in Outcomes, NEW late \in BOOLEAN,
         Answer(r, how, late)
  PROVE  IInv'
<1>1. /\ req[r].pc = "calling" /\ Release(r) /\ Meter(r, how)
      /\ UNCHANGED <<limits, pins, cursor, minute, turns>>
  BY DEF Answer
<1>2. /\ req[r] \in Request /\ Sound(req[r]) /\ req[r].usable \subseteq Providers
  BY <1>1, Facts
<1>3. rows' \in [Providers -> Nat]
  <2>1. req[r].at \in Providers
    BY <1>1, <1>2 DEF Sound
  <2> QED
    BY <1>1, <2>1 DEF Meter, IInv, TypeOK
<1>4. how \in AllOutcomes
  BY OutcomesAssumption
<1> DEFINE replay == Retryable(how) /\ req[r].asked # req[r].usable
<1>5. CASE replay /\ ~late
  <2> DEFINE q == [req[r] EXCEPT !.pc = "seat"]
  <2>1. req' = [req EXCEPT ![r] = q]
    BY <1>5 DEF Answer
  <2>2. q \in Request /\ q.pc = "seat"
    BY <1>2 DEF Request, PCs
  <2>3. /\ q.key = req[r].key /\ q.agent = req[r].agent /\ q.seen = req[r].seen
        /\ q.usable = req[r].usable /\ q.asked = req[r].asked /\ q.at = req[r].at
        /\ q.head # None
    BY <1>1, <1>2 DEF Request, Sound
  <2> HIDE DEF q
  <2> QED
    BY <1>1, <1>3, <2>1, <2>2, <2>3, AttemptEnds
<1>6. CASE ~(replay /\ ~late)
  <2> DEFINE end == IF how = "streamed" THEN "streaming" ELSE "answered"
             said == IF replay THEN "out_of_time" ELSE how
             q == [req[r] EXCEPT !.pc = end, !.answer = said]
  <2>1. req' = [req EXCEPT ![r] = q]
    BY <1>6 DEF Answer
  <2>2. q \in Request /\ q.pc \in {"streaming", "answered"}
    <3>1. end \in {"streaming", "answered"}
      OBVIOUS
    <3>2. said \in AllOutcomes \cup Refusals \cup {"none", "out_of_time"}
      BY <1>4
    <3>3. {"streaming", "answered"} \subseteq PCs
      BY DEF PCs, Ended
    <3> HIDE DEF end, said
    <3>4. end \in PCs
      BY <3>1, <3>3
    <3>5. q \in Request
      BY <1>2, <3>2, <3>4 DEF Request
    <3>6. q.pc = end
      BY <1>2 DEF Request
    <3> QED
      BY <3>1, <3>5, <3>6
  <2>3. /\ q.key = req[r].key /\ q.agent = req[r].agent /\ q.seen = req[r].seen
        /\ q.usable = req[r].usable /\ q.asked = req[r].asked /\ q.at = req[r].at
    BY <1>2 DEF Request
  <2> HIDE DEF q
  <2> QED
    BY <1>1, <1>3, <2>1, <2>2, <2>3, AttemptEnds
<1> QED
  BY <1>5, <1>6

LEMMA HangUpIInv ==
  ASSUME IInv, NEW r \in Requests, HangUp(r)
  PROVE  IInv'
<1> DEFINE q == [req[r] EXCEPT !.pc = "gone"]
<1>1. /\ req[r].pc = "calling" /\ Release(r) /\ req' = [req EXCEPT ![r] = q]
      /\ UNCHANGED <<limits, pins, cursor, rows, minute, turns>>
  BY DEF HangUp
<1>2. req[r] \in Request
  BY <1>1, Facts
<1>3. q \in Request /\ q.pc = "gone"
  BY <1>2 DEF Request, PCs, Ended
<1>4. /\ q.key = req[r].key /\ q.agent = req[r].agent /\ q.seen = req[r].seen
      /\ q.usable = req[r].usable /\ q.asked = req[r].asked /\ q.at = req[r].at
  BY <1>2 DEF Request
<1>5. rows' \in [Providers -> Nat]
  BY <1>1 DEF IInv, TypeOK
<1> HIDE DEF q
<1> QED
  BY <1>1, <1>3, <1>4, <1>5, AttemptEnds

LEMMA EndStreamIInv ==
  ASSUME IInv, NEW r \in Requests, EndStream(r)
  PROVE  IInv'
<1> DEFINE q == [req[r] EXCEPT !.pc = "answered"]
<1>1. /\ req[r].pc = "streaming" /\ req' = [req EXCEPT ![r] = q]
      /\ UNCHANGED <<limits, pins, cursor, inflight, minute, turns, moved>>
      /\ rows' = [rows EXCEPT ![req[r].at] = @ + 1]
  BY DEF EndStream
<1>2. req[r] \in Request
  BY <1>1, Facts
<1>3. q \in Request /\ q.pc = "answered"
  BY <1>2 DEF Request, PCs, Ended
<1>4. /\ q.key = req[r].key /\ q.agent = req[r].agent /\ q.seen = req[r].seen
      /\ q.usable = req[r].usable /\ q.asked = req[r].asked /\ q.at = req[r].at
  BY <1>2 DEF Request
<1>5. rows' \in [Providers -> Nat]
  <2>1. req[r].at \in Providers
    BY <1>1, Facts DEF Sound
  <2> QED
    BY <1>1, <2>1 DEF IInv, TypeOK
<1> HIDE DEF q
<1> QED
  BY <1>1, <1>3, <1>4, <1>5, OutsideAttempts DEF IInv, TypeOK

-----------------------------------------------------------------------------
LEMMA NextIInv == IInv /\ [Next]_vars => IInv'
<1> SUFFICES ASSUME IInv, [Next]_vars PROVE IInv'
  OBVIOUS
<1>1. ASSUME NEW r \in Requests, NEW c \in Calls, Resolve(r, c) PROVE IInv'
  BY <1>1, ResolveIInv
<1>2. ASSUME NEW r \in Requests, Proceed(r) PROVE IInv'
  <2>1. CASE Lookup(r)
    BY <2>1, LookupIInv
  <2>2. CASE Choose(r)
    BY <2>2, ChooseIInv
  <2>3. CASE Assign(r)
    BY <2>3, AssignIInv
  <2>4. CASE TakeSeat(r)
    BY <2>4, TakeSeatIInv
  <2>5. CASE Respond(r)
    BY <2>5, AnswerIInv DEF Respond
  <2>6. CASE EndStream(r)
    BY <2>6, EndStreamIInv
  <2> QED
    BY <1>2, <2>1, <2>2, <2>3, <2>4, <2>5, <2>6 DEF Proceed
<1>3. ASSUME NEW r \in Requests, HangUp(r) PROVE IInv'
  BY <1>3, HangUpIInv
<1>4. ASSUME req' = req, inflight' = inflight, pins' = pins, cursor' = cursor,
             turns' = turns, moved' = moved, limits' \in LimitSets,
             rows' \in [Providers -> Nat],
             minute' \in 0..(Day - 1)
      PROVE  IInv'
  <2>1. GaugesCountSeats'
    BY <1>4, SameSeats DEF IInv
  <2> QED
    BY <1>4, <2>1 DEF IInv, TypeOK, Remembers
<1>5. ASSUME NEW over \in LimitSets, Publish(over) PROVE IInv'
  BY <1>4, <1>5 DEF Publish, IInv, TypeOK
<1>6. CASE Tick
  <2>1. minute' \in 0..(Day - 1)
    BY <1>6, DayAssumption DEF Tick, IInv, TypeOK
  <2>2. rows' \in [Providers -> Nat]
    BY <1>6 DEF Tick, IInv, TypeOK
  <2> QED
    BY <1>4, <1>6, <2>1, <2>2 DEF Tick, IInv, TypeOK
<1>7. CASE UNCHANGED vars
  BY <1>4, <1>7 DEF vars, IInv, TypeOK
<1> QED
  BY <1>1, <1>2, <1>3, <1>5, <1>6, <1>7 DEF Next

(* The inductive invariant: types, what each resolved request remembers of   *)
(* its key and its snapshot, and the gauges.                                 *)
THEOREM Invariance == Spec => []IInv
  BY InitIInv, NextIInv, PTL DEF Spec

(* The state is always of its types; no gauge is ever negative.              *)
THEOREM TypeCorrect == Spec => []TypeOK
  BY Invariance, PTL DEF IInv

(* inflight_guard: a gauge is the number of attempts under way, however each *)
(* of them ends.                                                             *)
THEOREM GaugesAreSeats == Spec => []GaugesCountSeats
  BY Invariance, PTL DEF IInv

(* No strategy, pin or replay asks a candidate the key was not granted or    *)
(* one over a ceiling of the request's snapshot.                             *)
THEOREM NobodyOverACeilingIsAsked == Spec => []CeilingsHold
<1>1. IInv => CeilingsHold
  <2> SUFFICES ASSUME IInv, NEW r \in Requests, req[r].pc \in {"calling", "streaming"}
               PROVE  /\ {req[r].at, req[r].agent, req[r].key} \cap req[r].seen = {}
                      /\ Allows(Client[req[r].key].providers, req[r].at)
    BY DEF CeilingsHold
  <2>1. Sound(req[r]) /\ Resolved(req[r])
    BY DEF IInv, Remembers, Sound
  <2>2. req[r].at \in Usable(req[r].key, req[r].seen)
    BY <2>1 DEF Sound, Resolved
  <2> QED
    BY <2>1, <2>2 DEF Resolved, Usable, Granted
<1> QED
  BY <1>1, Invariance, PTL

(* A `single` agent is served by the head of its route or by nobody.         *)
THEOREM SingleStaysSingle == Spec => []SingleIsNeverPromoted
<1>1. IInv => SingleIsNeverPromoted
  <2> SUFFICES ASSUME IInv, NEW r \in Requests, req[r].at # None,
                      Strategy[req[r].agent] = "single"
               PROVE  /\ req[r].at = Route[req[r].agent][1]
                      /\ req[r].asked = {req[r].at}
    BY DEF SingleIsNeverPromoted
  <2> DEFINE a == req[r].agent
  <2>1. Sound(req[r]) /\ Resolved(req[r]) /\ req[r].at \in req[r].usable
    BY DEF IInv, Remembers, Sound
  <2>2. a \in Agents
    BY <2>1, ClientAssumption DEF Resolved
  <2>3. ASSUME NEW p \in req[r].usable PROVE p = Route[a][1]
    <3>1. IsFirst(a, p, Candidates(a))
      BY <2>1, <2>3 DEF Resolved, Usable, Granted
    <3>2. PICK i \in DOMAIN Route[a] : p = Route[a][i]
      BY <3>1 DEF IsFirst, Candidates
    <3>3. Route[a] \in Seq(Providers)
      BY <2>2, RouteAssumption
    <3>4. 1 \in DOMAIN Route[a] /\ DOMAIN Route[a] = 1..Len(Route[a]) /\ Len(Route[a]) \in Nat
      BY <3>2, <3>3
    <3>5. Route[a][1] \in Candidates(a)
      BY <3>4 DEF Candidates
    <3>6. CASE p # Route[a][1]
      <4>1. PICK m, n \in DOMAIN Route[a] :
               m < n /\ Route[a][m] = p /\ Route[a][n] = Route[a][1]
        BY <3>1, <3>5, <3>6 DEF IsFirst, Before
      <4>2. n = 1
        BY <2>2, <3>4, <4>1, RouteAssumption
      <4> QED
        BY <3>4, <4>1, <4>2
    <3> QED
      BY <3>6
  <2> QED
    BY <2>1, <2>3 DEF Sound
<1> QED
  BY <1>1, Invariance, PTL

-----------------------------------------------------------------------------
(* The replay.  The candidates a request asked after its head precede in the *)
(* route whomever it has not asked yet.                                      *)
Orderly(q) ==
    /\ q.pc \in {"idle", "lookup", "choose", "assign"} => q.asked = {}
    /\ \A p \in q.asked \ {q.head} : \A o \in q.usable \ (q.asked \cup {q.head}) :
          Before(q.agent, p, o)

InOrder == \A r \in Requests : Orderly(req[r])

(* Request r, and no other, takes a step after which it is still in order.   *)
Moves(r) == \E q : Orderly(q) /\ req' = [req EXCEPT ![r] = q]

LEMMA Unasked ==
  ASSUME NEW q, q.asked = {}
  PROVE  Orderly(q)
  BY DEF Orderly

LEMMA BeforeTheSeat ==
  ASSUME IInv, InOrder, NEW r \in Requests,
         (\E c \in Calls : Resolve(r, c)) \/ Lookup(r) \/ Choose(r) \/ Assign(r)
  PROVE  Moves(r) /\ req[r].pc # "seat"
<1>1. req[r] \in Request /\ req[r].pc \in {"idle", "lookup", "choose", "assign"}
  BY Zenon DEF IInv, TypeOK, Resolve, Lookup, Choose, Assign, ChooseFromRing, ChooseByWindow,
               ChooseByQuota, QuotaUnread, ReadGauge, ChooseLeastBusy
<1>2. req[r].asked = {}
  BY <1>1 DEF InOrder, Orderly
<1>3. ASSUME NEW q, q.asked = req[r].asked, req' = [req EXCEPT ![r] = q]
      PROVE  Moves(r)
  BY <1>2, <1>3, Unasked, Zenon DEF Moves
<1> SUFFICES Moves(r)
  BY <1>1
<1>4. ASSUME NEW c \in Calls, Resolve(r, c) PROVE Moves(r)
  <2> DEFINE a == Client[c.key].agent
             resolved == [req[r] EXCEPT !.key = c.key, !.agent = a, !.session = c.session,
                                        !.seen = limits, !.usable = Usable(c.key, limits)]
  <2>1. CASE Admit(r, c)
    <3>1. CASE Strategy[a] \in Sticky
      <4> DEFINE q == [resolved EXCEPT !.pc = "lookup"]
      <4>1. req' = [req EXCEPT ![r] = q]
        BY <2>1, <3>1 DEF Admit
      <4>2. q.asked = req[r].asked /\ q.pc = "lookup"
        BY <1>1 DEF Request
      <4> HIDE DEF q
      <4> QED
        BY <1>3, <4>1, <4>2
    <3>2. CASE Strategy[a] \notin Sticky
      <4>1. PICK p : req' = [req EXCEPT ![r] =
                                [resolved EXCEPT !.pc = "seat", !.head = p, !.by = "order"]]
        BY <2>1, <3>2 DEF Admit
      <4> DEFINE q == [resolved EXCEPT !.pc = "seat", !.head = p, !.by = "order"]
      <4>2. q.asked = req[r].asked /\ q.pc = "seat"
        BY <1>1 DEF Request
      <4>3. req' = [req EXCEPT ![r] = q]
        BY <4>1
      <4> HIDE DEF q
      <4> QED
        BY <1>3, <4>2, <4>3
    <3> QED
      BY <3>1, <3>2
  <2>2. CASE Refuse(r, c)
    <3> DEFINE q == [req[r] EXCEPT !.pc = "refused", !.answer = Refusal(c, limits)]
    <3>1. req' = [req EXCEPT ![r] = q]
      BY <2>2, Zenon DEF Refuse
    <3>2. q.asked = req[r].asked /\ q.pc = "refused"
      BY <1>1 DEF Request
    <3> HIDE DEF q
    <3> QED
      BY <1>3, <3>1, <3>2
  <2> QED
    BY <1>1, <1>4, <2>1, <2>2 DEF Resolve
<1>5. CASE Lookup(r)
  <2>1. CASE req' = [req EXCEPT ![r].pc = "choose"]
    <3> DEFINE q == [req[r] EXCEPT !.pc = "choose"]
    <3>1. req' = [req EXCEPT ![r] = q]
      BY <2>1
    <3>2. q.asked = req[r].asked /\ q.pc = "choose"
      BY <1>1 DEF Request
    <3> HIDE DEF q
    <3> QED
      BY <1>3, <3>1, <3>2
  <2>2. CASE req' = [req EXCEPT ![r] =
                        [@ EXCEPT !.pc = "seat", !.head = pins[Slot(r)], !.by = "pin"]]
    <3> DEFINE q == [req[r] EXCEPT !.pc = "seat", !.head = pins[Slot(r)], !.by = "pin"]
    <3>1. req' = [req EXCEPT ![r] = q]
      BY <2>2
    <3>2. q.asked = req[r].asked /\ q.pc = "seat"
      BY <1>1 DEF Request
    <3> HIDE DEF q
    <3> QED
      BY <1>3, <3>1, <3>2
  <2> QED
    BY <1>5, <2>1, <2>2, Zenon DEF Lookup
<1>6. CASE Choose(r)
  <2>1. CASE \E p, by : Settle(r, p, by)
    <3>1. PICK p, by : req' = [req EXCEPT ![r] =
                                  [@ EXCEPT !.pc = "assign", !.head = p, !.by = by]]
      BY <2>1 DEF Settle
    <3> DEFINE q == [req[r] EXCEPT !.pc = "assign", !.head = p, !.by = by]
    <3>2. q.asked = req[r].asked /\ q.pc = "assign"
      BY <1>1 DEF Request
    <3>3. req' = [req EXCEPT ![r] = q]
      BY <3>1
    <3> HIDE DEF q
    <3> QED
      BY <1>3, <3>2, <3>3
  <2>2. CASE ReadGauge(r)
    <3>1. PICK p, n : req' = [req EXCEPT ![r].gauges[p] = n]
      BY <2>2, Zenon DEF ReadGauge
    <3> DEFINE q == [req[r] EXCEPT !.gauges[p] = n]
    <3>2. q.asked = req[r].asked /\ q.pc = req[r].pc
      BY <1>1 DEF Request
    <3>3. req' = [req EXCEPT ![r] = q]
      BY <3>1
    <3> HIDE DEF q
    <3> QED
      BY <1>1, <1>3, <3>2, <3>3
  <2>3. CASE QuotaUnread(r)
    <3> DEFINE q == [req[r] EXCEPT !.pc = "unrouted", !.answer = "routing_error"]
    <3>1. req' = [req EXCEPT ![r] = q]
      BY <2>3 DEF QuotaUnread
    <3>2. q.asked = req[r].asked
      BY <1>1 DEF Request
    <3> HIDE DEF q
    <3> QED
      BY <1>3, <3>1, <3>2
  <2>4. (\E p, by : Settle(r, p, by)) \/ ReadGauge(r) \/ QuotaUnread(r)
    BY <1>6, Zenon DEF Choose, ChooseFromRing, ChooseByWindow, ChooseByQuota, ChooseLeastBusy
  <2> QED
    BY <2>1, <2>2, <2>3, <2>4
<1>7. CASE Assign(r)
  <2> DEFINE q == [req[r] EXCEPT !.pc = "seat"]
  <2>1. req' = [req EXCEPT ![r] = q]
    BY <1>7 DEF Assign
  <2>2. q.asked = req[r].asked /\ q.pc = "seat"
    BY <1>1 DEF Request
  <2> HIDE DEF q
  <2> QED
    BY <1>3, <2>1, <2>2
<1> QED
  BY <1>4, <1>5, <1>6, <1>7

(* Whoever is asked next precedes those that are left.                       *)
LEMMA AtTheSeat ==
  ASSUME IInv, InOrder, NEW r \in Requests, TakeSeat(r)
  PROVE  Moves(r)
<1>1. req[r] \in Request /\ req[r].pc = "seat" /\ Orderly(req[r])
  BY DEF IInv, TypeOK, InOrder, TakeSeat
<1>2. PICK p \in req[r].usable :
         /\ IsNext(r, p)
         /\ req' = [req EXCEPT ![r] =
               [@ EXCEPT !.pc = "calling", !.at = p, !.asked = req[r].asked \cup {p}]]
  BY DEF TakeSeat
<1> DEFINE q == [req[r] EXCEPT !.pc = "calling", !.at = p, !.asked = req[r].asked \cup {p}]
           left == req[r].usable \ (req[r].asked \cup {req[r].head})
<1>3. req' = [req EXCEPT ![r] = q]
  BY <1>2
<1>4. /\ q.pc = "calling" /\ q.asked = req[r].asked \cup {p}
      /\ q.head = req[r].head /\ q.usable = req[r].usable /\ q.agent = req[r].agent
  BY <1>1 DEF Request
<1> HIDE DEF q
<1>5. p = req[r].head \/ \A o \in left \ {p} : Before(req[r].agent, p, o)
  BY <1>2, Zenon DEF IsNext, IsFirst
<1>6. \A a \in req[r].asked \ {req[r].head} : \A o \in left : Before(req[r].agent, a, o)
  BY <1>1, Zenon DEF Orderly
<1>7. \A a \in q.asked \ {q.head} : \A o \in q.usable \ (q.asked \cup {q.head}) :
         Before(q.agent, a, o)
  <2> SUFFICES ASSUME NEW a \in q.asked \ {q.head},
                      NEW o \in q.usable \ (q.asked \cup {q.head})
               PROVE  Before(q.agent, a, o)
    OBVIOUS
  <2>1. o \in left \ {p}
    BY <1>4
  <2>2. a = p \/ a \in req[r].asked \ {req[r].head}
    BY <1>4
  <2>3. CASE a = p
    BY <1>4, <1>5, <2>1, <2>3
  <2>4. CASE a \in req[r].asked \ {req[r].head}
    BY <1>4, <1>6, <2>1, <2>4
  <2> QED
    BY <2>2, <2>3, <2>4
<1>8. Orderly(q)
  BY <1>4, <1>7 DEF Orderly
<1> QED
  BY <1>3, <1>8 DEF Moves

(* However an attempt ends, that asks nobody.                                *)
LEMMA AfterTheSeat ==
  ASSUME IInv, InOrder, NEW r \in Requests, Respond(r) \/ HangUp(r) \/ EndStream(r)
  PROVE  Moves(r) /\ req[r].pc # "seat"
<1>1. req[r] \in Request /\ Orderly(req[r]) /\ req[r].pc \in {"calling", "streaming"}
  BY Zenon DEF IInv, TypeOK, InOrder, Respond, Answer, HangUp, EndStream
<1> SUFFICES Moves(r)
  BY <1>1
<1>2. ASSUME NEW q, q.asked = req[r].asked, q.head = req[r].head, q.usable = req[r].usable,
             q.agent = req[r].agent, q.pc \in {"seat", "gone", "answered", "streaming"},
             req' = [req EXCEPT ![r] = q]
      PROVE  Moves(r)
  <2>1. Orderly(q)
    BY <1>1, <1>2 DEF Orderly
  <2> QED
    BY <1>2, <2>1, Zenon DEF Moves
<1>3. CASE Respond(r)
  <2>1. PICK how \in Outcomes, late \in BOOLEAN : Answer(r, how, late)
    BY <1>3 DEF Respond
  <2> DEFINE replay == Retryable(how) /\ req[r].asked # req[r].usable
  <2>2. CASE replay /\ ~late
    <3> DEFINE q == [req[r] EXCEPT !.pc = "seat"]
    <3>1. req' = [req EXCEPT ![r] = q]
      BY <2>1, <2>2 DEF Answer
    <3>2. /\ q.asked = req[r].asked /\ q.head = req[r].head /\ q.usable = req[r].usable
          /\ q.agent = req[r].agent /\ q.pc = "seat"
      BY <1>1 DEF Request
    <3> HIDE DEF q
    <3> QED
      BY <1>2, <3>1, <3>2
  <2>3. CASE ~(replay /\ ~late)
    <3> DEFINE end == IF how = "streamed" THEN "streaming" ELSE "answered"
               said == IF replay THEN "out_of_time" ELSE how
               q == [req[r] EXCEPT !.pc = end, !.answer = said]
    <3>1. req' = [req EXCEPT ![r] = q]
      BY <2>1, <2>3 DEF Answer
    <3>2. end \in {"streaming", "answered"}
      OBVIOUS
    <3> HIDE DEF end, said
    <3>3. /\ q.asked = req[r].asked /\ q.head = req[r].head /\ q.usable = req[r].usable
          /\ q.agent = req[r].agent /\ q.pc = end
      BY <1>1 DEF Request
    <3> HIDE DEF q
    <3> QED
      BY <1>2, <3>1, <3>2, <3>3
  <2> QED
    BY <2>2, <2>3
<1>4. CASE HangUp(r)
  <2> DEFINE q == [req[r] EXCEPT !.pc = "gone"]
  <2>1. req' = [req EXCEPT ![r] = q]
    BY <1>4 DEF HangUp
  <2>2. /\ q.asked = req[r].asked /\ q.head = req[r].head /\ q.usable = req[r].usable
        /\ q.agent = req[r].agent /\ q.pc = "gone"
    BY <1>1 DEF Request
  <2> HIDE DEF q
  <2> QED
    BY <1>2, <2>1, <2>2
<1>5. CASE EndStream(r)
  <2> DEFINE q == [req[r] EXCEPT !.pc = "answered"]
  <2>1. req' = [req EXCEPT ![r] = q] /\ req[r].pc = "streaming"
    BY <1>5 DEF EndStream
  <2>2. /\ q.asked = req[r].asked /\ q.head = req[r].head /\ q.usable = req[r].usable
        /\ q.agent = req[r].agent /\ q.pc = "answered"
    BY <1>1 DEF Request
  <2> HIDE DEF q
  <2> QED
    BY <1>2, <2>1, <2>2
<1> QED
  BY <1>3, <1>4, <1>5

(* Every step leaves the requests alone or moves one of them, and only       *)
(* TakeSeat moves a request from its seat.                                   *)
LEMMA OneMoves ==
  ASSUME IInv, InOrder, [Next]_vars
  PROVE  \/ req' = req
         \/ \E r \in Requests : Moves(r) /\ (TakeSeat(r) \/ req[r].pc # "seat")
<1>1. CASE \E r \in Requests, c \in Calls : Resolve(r, c)
  BY <1>1, BeforeTheSeat, Zenon
<1>2. CASE \E r \in Requests : Proceed(r)
  <2>1. PICK r \in Requests : Proceed(r)
    BY <1>2
  <2>2. CASE Lookup(r) \/ Choose(r) \/ Assign(r)
    BY <2>2, BeforeTheSeat, Zenon
  <2>3. CASE TakeSeat(r)
    BY <2>3, AtTheSeat, Zenon
  <2>4. CASE Respond(r) \/ EndStream(r)
    BY <2>4, AfterTheSeat, Zenon
  <2> QED
    BY <2>1, <2>2, <2>3, <2>4, Zenon DEF Proceed
<1>3. CASE \E r \in Requests : HangUp(r)
  BY <1>3, AfterTheSeat, Zenon
<1>4. CASE (\E over \in LimitSets : Publish(over)) \/ Tick \/ UNCHANGED vars
  BY <1>4, Zenon DEF Publish, Tick, vars
<1> QED
  BY <1>1, <1>2, <1>3, <1>4, Zenon DEF Next

LEMMA OrderKept == IInv /\ InOrder /\ [Next]_vars => InOrder'
<1> SUFFICES ASSUME IInv, InOrder, [Next]_vars PROVE InOrder'
  OBVIOUS
<1>1. CASE req' = req
  BY <1>1 DEF InOrder
<1>2. ASSUME NEW r \in Requests, NEW q, Orderly(q), req' = [req EXCEPT ![r] = q]
      PROVE  InOrder'
  <2> SUFFICES ASSUME NEW s \in Requests PROVE Orderly(req'[s])
    BY Zenon DEF InOrder
  <2>1. req \in [Requests -> Request]
    BY DEF IInv, TypeOK
  <2>2. req'[s] = q \/ req'[s] = req[s]
    BY <1>2, <2>1
  <2> QED
    BY <1>2, <2>2, Zenon DEF InOrder
<1> QED
  BY <1>1, <1>2, OneMoves, Zenon DEF Moves

LEMMA InitInOrder == Init => InOrder
  BY DEF Init, Idle, InOrder, Orderly

LEMMA OrderHolds == Spec => [](IInv /\ InOrder)
<1>1. Init => IInv /\ InOrder
  BY InitIInv, InitInOrder
<1>2. IInv /\ InOrder /\ [Next]_vars => IInv' /\ InOrder'
  BY NextIInv, OrderKept
<1> QED
  BY <1>1, <1>2, PTL DEF Spec

(* A replay asks nobody twice, and past its head it goes down the route.     *)
THEOREM ReplayGoesDown == Spec => ReplaysDownTheRoute
<1> DEFINE Down(r) == req[r].pc = "seat" /\ req'[r].pc = "calling" =>
                         /\ req'[r].at \notin req[r].asked
                         /\ \A p \in req[r].asked \ {req[r].head} :
                               Before(req[r].agent, p, req'[r].at)
           Step == \A r \in Requests : Down(r)
<1>1. IInv /\ InOrder /\ [Next]_vars => [Step]_vars
  <2> SUFFICES ASSUME IInv, InOrder, [Next]_vars, NEW s \in Requests,
                      req[s].pc = "seat", req'[s].pc = "calling"
               PROVE  /\ req'[s].at \notin req[s].asked
                      /\ \A p \in req[s].asked \ {req[s].head} :
                            Before(req[s].agent, p, req'[s].at)
    BY Zenon
  <2>1. req \in [Requests -> Request]
    BY DEF IInv, TypeOK
  <2>2. PICK r \in Requests : Moves(r) /\ (TakeSeat(r) \/ req[r].pc # "seat")
    BY OneMoves
  <2>3. s = r
    <3>1. PICK q : req' = [req EXCEPT ![r] = q]
      BY <2>2 DEF Moves
    <3> QED
      BY <2>1, <3>1
  <2>4. PICK p \in req[s].usable :
           /\ IsNext(s, p)
           /\ req' = [req EXCEPT ![s] =
                 [@ EXCEPT !.pc = "calling", !.at = p, !.asked = req[s].asked \cup {p}]]
    BY <2>2, <2>3 DEF TakeSeat
  <2>5. req'[s].at = p
    BY <2>1, <2>4 DEF Request
  <2>6. CASE req[s].asked = {}
    BY <2>6
  <2>7. CASE req[s].asked # {}
    <3>1. p \in req[s].usable \ (req[s].asked \cup {req[s].head})
      BY <2>4, <2>7, Zenon DEF IsNext, IsFirst
    <3>2. \A a \in req[s].asked \ {req[s].head} : Before(req[s].agent, a, p)
      BY <3>1, Zenon DEF InOrder, Orderly
    <3> QED
      BY <2>5, <3>1, <3>2
  <2> QED
    BY <2>6, <2>7
<1>2. [][Next]_vars /\ [](IInv /\ InOrder) => [][Step]_vars
  BY <1>1, PTL
<1>3. Spec => [][Step]_vars
  BY <1>2, OrderHolds, PTL DEF Spec
<1> QED
  BY <1>3 DEF ReplaysDownTheRoute

-----------------------------------------------------------------------------
(* Short queues.  While a request weighs the candidates of its agent, what   *)
(* it has read of their gauges is off by no more than the seats that changed *)
(* hands since, and so is the difference between any two of them.            *)
Close(g, w, m) ==
    \A p, o \in Providers : g[p] # Unread /\ g[o] # Unread =>
        /\ w[p] - g[p] <= m /\ g[p] - w[p] <= m
        /\ p # o => (w[p] - g[p]) + (g[o] - w[o]) <= m

Blank(g) == \A p \in Providers : g[p] = Unread

Weighing(q) == q.pc \in {"choose", "assign", "seat"} /\ q.asked = {}

(* The head that the queues gave is the one that was read the shortest.      *)
ReadShortest(q) ==
    /\ q.head \in q.usable
    /\ \A p \in q.usable : q.gauges[p] # Unread /\ q.gauges[q.head] <= q.gauges[p]

Watched(q, w, m) ==
    /\ q.pc \in {"idle", "lookup"} => Blank(q.gauges)
    /\ q.pc \in {"idle", "lookup", "choose"} => q.by # "queue"
    /\ Weighing(q) => Close(q.gauges, w, m)
    /\ Weighing(q) /\ q.by = "queue" => ReadShortest(q)

AllWatched == \A r \in Requests : Watched(req[r], inflight[req[r].agent], moved[r])

LEMMA BlankIsClose ==
  ASSUME NEW g, NEW w, NEW m, Blank(g)
  PROVE  Close(g, w, m)
  BY DEF Blank, Close

(* The requests that do not step.                                            *)
SeatMoves(r) ==
    /\ Stir(r) /\ req[r].agent \in Agents
    /\ \E p \in Providers :
          \/ inflight' = [inflight EXCEPT ![req[r].agent][p] = @ + 1]
          \/ inflight' = [inflight EXCEPT ![req[r].agent][p] = @ - 1]

LEMMA OthersAreWatched ==
  ASSUME IInv, TypeOK', AllWatched, NEW r, NEW s \in Requests, req'[s] = req[s],
         UNCHANGED <<inflight, moved>> \/ SeatMoves(r)
  PROVE  Watched(req[s], inflight'[req[s].agent], moved'[s])
<1>1. Watched(req[s], inflight[req[s].agent], moved[s])
  BY DEF AllWatched
<1>2. CASE UNCHANGED <<inflight, moved>>
  BY <1>1, <1>2
<1>3. CASE SeatMoves(r)
  <2> SUFFICES ASSUME Weighing(req[s])
               PROVE  Close(req[s].gauges, inflight'[req[s].agent], moved'[s])
    BY <1>1, Zenon DEF Watched
  <2> DEFINE a == req[s].agent
             g == req[s].gauges
  <2>1. Close(g, inflight[a], moved[s])
    BY <1>1 DEF Watched
  <2>2. CASE Blank(g)
    BY <2>2, BlankIsClose
  <2>3. CASE ~Blank(g)
    <3>1. a \in Agents /\ req[s] \in Request
      BY Facts DEF Weighing
    <3>2. g \in [Providers -> Nat \cup {Unread}]
      BY <3>1 DEF Request
    <3>3. /\ inflight[a] \in [Providers -> Nat] /\ inflight'[a] \in [Providers -> Nat]
          /\ moved[s] \in Nat /\ moved'[s] \in Nat
          /\ inflight \in [Agents -> [Providers -> Nat]]
      BY <3>1 DEF IInv, TypeOK
    <3>4. Deciding(s)
      BY <2>3 DEF Deciding, Weighing, Blank
    <3>5. CASE a = req[r].agent
      <4>1. moved'[s] = moved[s] + 1
        BY <1>3, <3>4, <3>5, Stirred DEF SeatMoves, IInv
      <4>2. PICK p \in Providers :
               \/ inflight' = [inflight EXCEPT ![a][p] = @ + 1]
               \/ inflight' = [inflight EXCEPT ![a][p] = @ - 1]
        BY <1>3, <3>5 DEF SeatMoves
      <4>3. inflight'[a][p] = inflight[a][p] + 1 \/ inflight'[a][p] = inflight[a][p] - 1
        BY <3>1, <3>3, <4>2
      <4>4. \A o \in Providers : o # p => inflight'[a][o] = inflight[a][o]
        BY <3>1, <3>3, <4>2
      <4>5. ASSUME NEW x \in Providers, NEW y \in Providers, g[x] # Unread, g[y] # Unread
            PROVE  /\ inflight'[a][x] - g[x] <= moved'[s] /\ g[x] - inflight'[a][x] <= moved'[s]
                   /\ x # y => (inflight'[a][x] - g[x]) + (g[y] - inflight'[a][y]) <= moved'[s]
        <5>1. /\ inflight[a][x] - g[x] <= moved[s] /\ g[x] - inflight[a][x] <= moved[s]
              /\ x # y => (inflight[a][x] - g[x]) + (g[y] - inflight[a][y]) <= moved[s]
          BY <2>1, <4>5 DEF Close
        <5>2. /\ g[x] \in Nat /\ g[y] \in Nat
              /\ inflight[a][x] \in Nat /\ inflight[a][y] \in Nat
          BY <3>2, <3>3, <4>5 DEF Unread
        <5>3. /\ \/ inflight'[a][x] = inflight[a][x]
                 \/ x = p /\ inflight'[a][x] = inflight[a][x] + 1
                 \/ x = p /\ inflight'[a][x] = inflight[a][x] - 1
              /\ \/ inflight'[a][y] = inflight[a][y]
                 \/ y = p /\ inflight'[a][y] = inflight[a][y] + 1
                 \/ y = p /\ inflight'[a][y] = inflight[a][y] - 1
          BY <4>3, <4>4
        <5> QED
          BY <3>3, <4>1, <5>1, <5>2, <5>3
      <4> QED
        BY <4>5 DEF Close
    <3>6. CASE a # req[r].agent
      <4>1. inflight'[a] = inflight[a]
        BY <1>3, <3>1, <3>3, <3>6 DEF SeatMoves
      <4>2. moved[s] <= moved'[s]
        BY <1>3, Stirred DEF SeatMoves, IInv
      <4>3. ASSUME NEW x \in Providers, NEW y \in Providers, g[x] # Unread, g[y] # Unread
            PROVE  /\ inflight'[a][x] - g[x] <= moved'[s] /\ g[x] - inflight'[a][x] <= moved'[s]
                   /\ x # y => (inflight'[a][x] - g[x]) + (g[y] - inflight'[a][y]) <= moved'[s]
        <5>1. /\ inflight[a][x] - g[x] <= moved[s] /\ g[x] - inflight[a][x] <= moved[s]
              /\ x # y => (inflight[a][x] - g[x]) + (g[y] - inflight[a][y]) <= moved[s]
          BY <2>1, <4>3 DEF Close
        <5>2. /\ g[x] \in Nat /\ g[y] \in Nat
              /\ inflight[a][x] \in Nat /\ inflight[a][y] \in Nat
          BY <3>2, <3>3, <4>3 DEF Unread
        <5> QED
          BY <3>3, <4>1, <4>2, <5>1, <5>2
      <4> QED
        BY <4>3 DEF Close
    <3> QED
      BY <3>5, <3>6
  <2> QED
    BY <2>2, <2>3
<1> QED
  BY <1>2, <1>3

(* A step of r, after which it is still watched.                             *)
StepsWatched(r) ==
    \E q : req' = [req EXCEPT ![r] = q] /\ Watched(q, inflight'[q.agent], moved'[r])

(* Who weighs nothing needs no watching.                                     *)
LEMMA PastWeighing ==
  ASSUME NEW r \in Requests, NEW q, req' = [req EXCEPT ![r] = q],
         q.pc \notin {"idle", "lookup", "choose", "assign"}, q.pc = "seat" => q.asked # {}
  PROVE  StepsWatched(r)
<1>1. Watched(q, inflight'[q.agent], moved'[r])
  BY DEF Watched, Weighing
<1> QED
  BY <1>1, Zenon DEF StepsWatched

(* Before the first gauge is read there is nothing to be wrong about.        *)
LEMMA StillBlank ==
  ASSUME NEW r \in Requests, NEW q, req' = [req EXCEPT ![r] = q], Blank(q.gauges),
         q.by # "queue"
  PROVE  StepsWatched(r)
<1>1. Watched(q, inflight'[q.agent], moved'[r])
  BY BlankIsClose, Zenon DEF Watched
<1> QED
  BY <1>1, Zenon DEF StepsWatched

(* What was read goes with the request that read it.                         *)
LEMMA StillWeighing ==
  ASSUME AllWatched, NEW r \in Requests, Weighing(req[r]), UNCHANGED <<inflight, moved>>,
         NEW q, req' = [req EXCEPT ![r] = q], q.pc \in {"assign", "seat"},
         q.agent = req[r].agent, q.gauges = req[r].gauges,
         q.by = "queue" => ReadShortest(q)
  PROVE  StepsWatched(r)
<1>1. Close(req[r].gauges, inflight[req[r].agent], moved[r])
  BY Zenon DEF AllWatched, Watched
<1>2. Close(q.gauges, inflight'[q.agent], moved'[r])
  BY <1>1
<1>3. Watched(q, inflight'[q.agent], moved'[r])
  BY <1>2 DEF Watched
<1> QED
  BY <1>3, Zenon DEF StepsWatched

LEMMA ResolveWatched ==
  ASSUME IInv, AllWatched, NEW r \in Requests, NEW c \in Calls, Resolve(r, c)
  PROVE  StepsWatched(r)
<1> DEFINE a == Client[c.key].agent
           resolved == [req[r] EXCEPT !.key = c.key, !.agent = a, !.session = c.session,
                                      !.seen = limits, !.usable = Usable(c.key, limits)]
<1>1. /\ req[r] \in Request /\ req[r].pc = "idle" /\ Blank(req[r].gauges)
      /\ req[r].by # "queue"
  <2>1. req[r] \in Request /\ req[r].pc = "idle"
    BY DEF IInv, TypeOK, Resolve
  <2> QED
    BY <2>1 DEF AllWatched, Watched
<1>2. CASE Admit(r, c)
  <2>1. CASE Strategy[a] \in Sticky
    <3> DEFINE q == [resolved EXCEPT !.pc = "lookup"]
    <3>1. req' = [req EXCEPT ![r] = q]
      BY <1>2, <2>1 DEF Admit
    <3>2. q.gauges = req[r].gauges /\ q.by = req[r].by
      BY <1>1 DEF Request
    <3> HIDE DEF q
    <3> QED
      BY <1>1, <3>1, <3>2, StillBlank
  <2>2. CASE Strategy[a] \notin Sticky
    <3>1. PICK p : req' = [req EXCEPT ![r] =
                              [resolved EXCEPT !.pc = "seat", !.head = p, !.by = "order"]]
      BY <1>2, <2>2 DEF Admit
    <3> DEFINE q == [resolved EXCEPT !.pc = "seat", !.head = p, !.by = "order"]
    <3>2. q.gauges = req[r].gauges /\ q.by = "order"
      BY <1>1 DEF Request
    <3>3. req' = [req EXCEPT ![r] = q]
      BY <3>1
    <3> HIDE DEF q
    <3> QED
      BY <1>1, <3>2, <3>3, StillBlank
  <2> QED
    BY <2>1, <2>2
<1>3. CASE Refuse(r, c)
  <2> DEFINE q == [req[r] EXCEPT !.pc = "refused", !.answer = Refusal(c, limits)]
  <2>1. req' = [req EXCEPT ![r] = q]
    BY <1>3, Zenon DEF Refuse
  <2>2. q.pc = "refused"
    BY <1>1 DEF Request
  <2> HIDE DEF q
  <2> QED
    BY <2>1, <2>2, PastWeighing
<1> QED
  BY <1>2, <1>3 DEF Resolve

LEMMA LookupWatched ==
  ASSUME IInv, AllWatched, NEW r \in Requests, Lookup(r)
  PROVE  StepsWatched(r)
<1>1. /\ req[r] \in Request /\ Blank(req[r].gauges) /\ req[r].by # "queue"
  <2>1. req[r] \in Request /\ req[r].pc = "lookup"
    BY DEF IInv, TypeOK, Lookup
  <2> QED
    BY <2>1 DEF AllWatched, Watched
<1>2. CASE req' = [req EXCEPT ![r].pc = "choose"]
  <2> DEFINE q == [req[r] EXCEPT !.pc = "choose"]
  <2>1. req' = [req EXCEPT ![r] = q]
    BY <1>2
  <2>2. q.gauges = req[r].gauges /\ q.by = req[r].by
    BY <1>1 DEF Request
  <2> HIDE DEF q
  <2> QED
    BY <1>1, <2>1, <2>2, StillBlank
<1>3. CASE req' = [req EXCEPT ![r] =
                      [@ EXCEPT !.pc = "seat", !.head = pins[Slot(r)], !.by = "pin"]]
  <2> DEFINE q == [req[r] EXCEPT !.pc = "seat", !.head = pins[Slot(r)], !.by = "pin"]
  <2>1. req' = [req EXCEPT ![r] = q]
    BY <1>3
  <2>2. q.gauges = req[r].gauges /\ q.by = "pin"
    BY <1>1 DEF Request
  <2> HIDE DEF q
  <2> QED
    BY <1>1, <2>1, <2>2, StillBlank
<1> QED
  BY <1>2, <1>3, Zenon DEF Lookup

LEMMA ChooseWatched ==
  ASSUME IInv, InOrder, AllWatched, NEW r \in Requests, Choose(r)
  PROVE  StepsWatched(r) /\ UNCHANGED <<inflight, moved>>
<1>1. /\ req[r] \in Request /\ req[r].pc = "choose" /\ UNCHANGED <<inflight, moved>>
  BY Zenon DEF IInv, TypeOK, Choose, ChooseFromRing, ChooseByWindow, ChooseByQuota, QuotaUnread,
               ReadGauge, ChooseLeastBusy, shared
<1>2. Weighing(req[r]) /\ req[r].by # "queue"
  BY <1>1 DEF InOrder, Orderly, Weighing, AllWatched, Watched
<1>3. req[r].agent \in Agents /\ req[r].usable \subseteq Providers
  BY <1>1, Facts
<1> SUFFICES StepsWatched(r)
  BY <1>1
<1>4. CASE \E p, by : Settle(r, p, by) /\ by # "queue"
  <2>1. PICK p, by : Settle(r, p, by) /\ by # "queue"
    BY <1>4
  <2> DEFINE q == [req[r] EXCEPT !.pc = "assign", !.head = p, !.by = by]
  <2>2. req' = [req EXCEPT ![r] = q]
    BY <2>1 DEF Settle
  <2>3. /\ q.pc = "assign" /\ q.agent = req[r].agent /\ q.gauges = req[r].gauges
        /\ q.by = by
    BY <1>1 DEF Request
  <2> HIDE DEF q
  <2> QED
    BY <1>1, <1>2, <2>1, <2>2, <2>3, StillWeighing
<1>5. CASE ChooseLeastBusy(r)
  <2> DEFINE g == req[r].gauges
             least == {x \in req[r].usable : \A o \in req[r].usable : g[x] <= g[o]}
  <2>1. PICK p \in req[r].usable :
           IsFirst(req[r].agent, p, least) /\ Settle(r, p, "queue")
    BY <1>5 DEF ChooseLeastBusy
  <2>2. \A x \in req[r].usable : g[x] # Unread
    BY <1>5 DEF ChooseLeastBusy
  <2>3. p \in least
    BY <2>1 DEF IsFirst
  <2> DEFINE q == [req[r] EXCEPT !.pc = "assign", !.head = p, !.by = "queue"]
  <2>4. req' = [req EXCEPT ![r] = q]
    BY <2>1 DEF Settle
  <2>5. /\ q.pc = "assign" /\ q.agent = req[r].agent /\ q.gauges = req[r].gauges
        /\ q.usable = req[r].usable /\ q.head = p
    BY <1>1 DEF Request
  <2> HIDE DEF q
  <2>6. ReadShortest(q)
    BY <2>2, <2>3, <2>5 DEF ReadShortest
  <2> QED
    BY <1>1, <1>2, <2>4, <2>5, <2>6, StillWeighing
<1>6. CASE ReadGauge(r)
  <2> DEFINE a == req[r].agent
             g == req[r].gauges
  <2>1. PICK p \in req[r].usable : req' = [req EXCEPT ![r].gauges[p] = inflight[a][p]]
    BY <1>6 DEF ReadGauge
  <2> DEFINE q == [req[r] EXCEPT !.gauges[p] = inflight[a][p]]
  <2>2. req' = [req EXCEPT ![r] = q]
    BY <2>1
  <2>3. /\ q.pc = "choose" /\ q.agent = a /\ q.by = req[r].by
        /\ q.gauges = [g EXCEPT ![p] = inflight[a][p]]
    BY <1>1 DEF Request
  <2> HIDE DEF q
  <2>4. Close(q.gauges, inflight[a], moved[r])
    <3>1. /\ g \in [Providers -> Nat \cup {Unread}] /\ inflight[a] \in [Providers -> Nat]
          /\ moved[r] \in Nat /\ p \in Providers
      BY <1>1, <1>3 DEF IInv, TypeOK, Request
    <3>2. Close(g, inflight[a], moved[r])
      BY <1>2 DEF AllWatched, Watched
    <3> SUFFICES ASSUME NEW x \in Providers, NEW y \in Providers,
                        q.gauges[x] # Unread, q.gauges[y] # Unread
                 PROVE  /\ inflight[a][x] - q.gauges[x] <= moved[r]
                        /\ q.gauges[x] - inflight[a][x] <= moved[r]
                        /\ x # y => (inflight[a][x] - q.gauges[x])
                                      + (q.gauges[y] - inflight[a][y]) <= moved[r]
      BY DEF Close
    <3>3. /\ q.gauges[p] = inflight[a][p]
          /\ \A o \in Providers : o # p => q.gauges[o] = g[o]
      BY <2>3, <3>1
    <3>4. inflight[a][x] \in Nat /\ inflight[a][y] \in Nat
      BY <3>1
    <3>5. /\ x # p => g[x] \in Nat /\ inflight[a][x] - g[x] <= moved[r]
                      /\ g[x] - inflight[a][x] <= moved[r]
          /\ y # p => g[y] \in Nat /\ inflight[a][y] - g[y] <= moved[r]
                      /\ g[y] - inflight[a][y] <= moved[r]
          /\ x # p /\ y # p /\ x # y =>
                (inflight[a][x] - g[x]) + (g[y] - inflight[a][y]) <= moved[r]
      BY <3>1, <3>2, <3>3 DEF Close
    <3> QED
      BY <3>1, <3>3, <3>4, <3>5
  <2>5. Watched(q, inflight'[q.agent], moved'[r])
    <3>1. Close(q.gauges, inflight'[q.agent], moved'[r])
      BY <1>1, <2>3, <2>4
    <3> QED
      BY <1>2, <2>3, <3>1 DEF Watched
  <2> QED
    BY <2>2, <2>5, Zenon DEF StepsWatched
<1>7. CASE QuotaUnread(r)
  <2> DEFINE q == [req[r] EXCEPT !.pc = "unrouted", !.answer = "routing_error"]
  <2>1. req' = [req EXCEPT ![r] = q]
    BY <1>7 DEF QuotaUnread
  <2>2. q.pc = "unrouted"
    BY <1>1 DEF Request
  <2> HIDE DEF q
  <2> QED
    BY <2>1, <2>2, PastWeighing
<1>8. "ring" # "queue" /\ "window" # "queue" /\ "quota" # "queue"
  OBVIOUS
<1>9. CASE ChooseFromRing(r) \/ ChooseByWindow(r) \/ ChooseByQuota(r)
  <2>1. \E p : Settle(r, p, "ring") \/ Settle(r, p, "window") \/ Settle(r, p, "quota")
    BY <1>9, Zenon DEF ChooseFromRing, ChooseByWindow, ChooseByQuota
  <2> QED
    BY <1>4, <1>8, <2>1, Zenon
<1> QED
  BY <1>5, <1>6, <1>7, <1>9, Zenon DEF Choose

LEMMA AssignWatched ==
  ASSUME IInv, InOrder, AllWatched, NEW r \in Requests, Assign(r)
  PROVE  StepsWatched(r)
<1>1. req[r] \in Request /\ req[r].pc = "assign" /\ UNCHANGED <<inflight, moved>>
  BY DEF IInv, TypeOK, Assign
<1>2. Weighing(req[r])
  BY <1>1 DEF InOrder, Orderly, Weighing
<1> DEFINE q == [req[r] EXCEPT !.pc = "seat"]
<1>3. req' = [req EXCEPT ![r] = q]
  BY DEF Assign
<1>4. /\ q.pc = "seat" /\ q.agent = req[r].agent /\ q.gauges = req[r].gauges
      /\ q.by = req[r].by /\ q.head = req[r].head /\ q.usable = req[r].usable
  BY <1>1 DEF Request
<1> HIDE DEF q
<1>5. q.by = "queue" => ReadShortest(q)
  BY <1>2, <1>4 DEF AllWatched, Watched, ReadShortest
<1> QED
  BY <1>1, <1>2, <1>3, <1>4, <1>5, StillWeighing

(* An attempt that begins or ends, and a stream that ends.                   *)
LEMMA AttemptsWatched ==
  ASSUME IInv, NEW r \in Requests, TakeSeat(r) \/ Respond(r) \/ EndStream(r) \/ HangUp(r)
  PROVE  StepsWatched(r) /\ (UNCHANGED <<inflight, moved>> \/ SeatMoves(r))
<1>1. /\ req[r] \in Request /\ req[r].pc \in {"seat", "calling", "streaming"}
  BY Zenon DEF IInv, TypeOK, TakeSeat, Respond, Answer, EndStream, HangUp
<1>2. /\ req[r].agent \in Agents /\ req[r].usable \subseteq Providers
      /\ req[r].pc = "calling" => req[r].at \in Providers /\ req[r].asked # {}
  BY <1>1, Facts DEF Sound
<1>3. ASSUME req[r].pc = "calling", Release(r)
      PROVE  SeatMoves(r)
  BY <1>2, <1>3 DEF Release, SeatMoves
<1>4. CASE TakeSeat(r)
  <2>1. PICK p \in req[r].usable :
           /\ req' = [req EXCEPT ![r] =
                 [@ EXCEPT !.pc = "calling", !.at = p, !.asked = req[r].asked \cup {p}]]
           /\ inflight' = [inflight EXCEPT ![req[r].agent][p] = @ + 1]
    BY <1>4 DEF TakeSeat
  <2> DEFINE q == [req[r] EXCEPT !.pc = "calling", !.at = p, !.asked = req[r].asked \cup {p}]
  <2>2. req' = [req EXCEPT ![r] = q]
    BY <2>1
  <2>3. q.pc = "calling"
    BY <1>1 DEF Request
  <2> HIDE DEF q
  <2>4. SeatMoves(r)
    BY <1>2, <1>4, <2>1 DEF TakeSeat, SeatMoves
  <2> QED
    BY <2>2, <2>3, <2>4, PastWeighing
<1>5. CASE Respond(r)
  <2>1. PICK how, late : Answer(r, how, late)
    BY <1>5, Zenon DEF Respond
  <2>2. req[r].pc = "calling" /\ Release(r)
    BY <2>1, Zenon DEF Answer
  <2>3. CASE req' = [req EXCEPT ![r].pc = "seat"]
    <3> DEFINE q == [req[r] EXCEPT !.pc = "seat"]
    <3>1. req' = [req EXCEPT ![r] = q]
      BY <2>3
    <3>2. q.pc = "seat" /\ q.asked = req[r].asked
      BY <1>1 DEF Request
    <3> HIDE DEF q
    <3> QED
      BY <1>2, <1>3, <2>2, <3>1, <3>2, PastWeighing
  <2>4. CASE req' # [req EXCEPT ![r].pc = "seat"]
    <3> DEFINE end == IF how = "streamed" THEN "streaming" ELSE "answered"
               said == IF Retryable(how) /\ req[r].asked # req[r].usable
                       THEN "out_of_time" ELSE how
               q == [req[r] EXCEPT !.pc = end, !.answer = said]
    <3>1. req' = [req EXCEPT ![r] = q]
      BY <2>1, <2>4 DEF Answer
    <3>2. end \in {"streaming", "answered"}
      OBVIOUS
    <3> HIDE DEF end, said
    <3>3. q.pc = end
      BY <1>1 DEF Request
    <3> HIDE DEF q
    <3> QED
      BY <1>3, <2>2, <3>1, <3>2, <3>3, PastWeighing
  <2> QED
    BY <2>3, <2>4
<1>6. ASSUME NEW pc \in {"answered", "gone"}, req' = [req EXCEPT ![r].pc = pc]
      PROVE  StepsWatched(r)
  <2> DEFINE q == [req[r] EXCEPT !.pc = pc]
  <2>1. req' = [req EXCEPT ![r] = q]
    BY <1>6
  <2>2. q.pc = pc
    BY <1>1 DEF Request
  <2> HIDE DEF q
  <2> QED
    BY <1>6, <2>1, <2>2, PastWeighing
<1>7. CASE EndStream(r)
  BY <1>6, <1>7 DEF EndStream
<1>8. CASE HangUp(r)
  BY <1>3, <1>6, <1>8 DEF HangUp
<1> QED
  BY <1>4, <1>5, <1>7, <1>8

(* Every step leaves requests and seats alone or is one request's.           *)
LEMMA StepIsWatched ==
  ASSUME IInv, InOrder, AllWatched, [Next]_vars
  PROVE  \/ UNCHANGED <<req, inflight, moved>>
         \/ \E r \in Requests :
               StepsWatched(r) /\ (UNCHANGED <<inflight, moved>> \/ SeatMoves(r))
<1>1. CASE \E r \in Requests, c \in Calls : Resolve(r, c)
  <2>1. PICK r \in Requests, c \in Calls : Resolve(r, c)
    BY <1>1
  <2>2. UNCHANGED <<inflight, moved>>
    BY <2>1, Zenon DEF Resolve
  <2> QED
    BY <2>1, <2>2, ResolveWatched, Zenon
<1>2. CASE \E r \in Requests : Proceed(r) \/ HangUp(r)
  <2>1. PICK r \in Requests : Proceed(r) \/ HangUp(r)
    BY <1>2
  <2>2. CASE Lookup(r)
    <3>1. UNCHANGED <<inflight, moved>>
      BY <2>2, Zenon DEF Lookup, shared
    <3> QED
      BY <2>2, <3>1, LookupWatched, Zenon
  <2>3. CASE Choose(r)
    BY <2>3, ChooseWatched, Zenon
  <2>4. CASE Assign(r)
    <3>1. UNCHANGED <<inflight, moved>>
      BY <2>4, Zenon DEF Assign
    <3> QED
      BY <2>4, <3>1, AssignWatched, Zenon
  <2>5. CASE TakeSeat(r) \/ Respond(r) \/ EndStream(r) \/ HangUp(r)
    BY <2>5, AttemptsWatched, Zenon
  <2> QED
    BY <2>1, <2>2, <2>3, <2>4, <2>5, Zenon DEF Proceed
<1>3. CASE (\E over \in LimitSets : Publish(over)) \/ Tick \/ UNCHANGED vars
  BY <1>3, Zenon DEF Publish, Tick, vars
<1> QED
  BY <1>1, <1>2, <1>3, Zenon DEF Next

LEMMA WatchKept == IInv /\ InOrder /\ AllWatched /\ [Next]_vars => AllWatched'
<1> SUFFICES ASSUME IInv, InOrder, AllWatched, [Next]_vars PROVE AllWatched'
  OBVIOUS
<1>1. TypeOK' /\ req \in [Requests -> Request]
  BY NextIInv DEF IInv, TypeOK
<1>2. CASE UNCHANGED <<req, inflight, moved>>
  BY <1>2, Zenon DEF AllWatched
<1>3. ASSUME NEW r \in Requests, StepsWatched(r),
             UNCHANGED <<inflight, moved>> \/ SeatMoves(r)
      PROVE  AllWatched'
  <2>1. PICK q : req' = [req EXCEPT ![r] = q] /\ Watched(q, inflight'[q.agent], moved'[r])
    BY <1>3, Zenon DEF StepsWatched
  <2> SUFFICES ASSUME NEW s \in Requests
               PROVE  Watched(req'[s], inflight'[req'[s].agent], moved'[s])
    BY Zenon DEF AllWatched
  <2>2. req'[r] = q /\ (s # r => req'[s] = req[s])
    BY <1>1, <2>1
  <2>3. CASE s = r
    BY <2>1, <2>2, <2>3, Zenon
  <2>4. CASE s # r
    <3>1. req'[s] = req[s]
      BY <2>2, <2>4
    <3>2. Watched(req[s], inflight'[req[s].agent], moved'[s])
      BY <1>1, <1>3, <3>1, OthersAreWatched
    <3> QED
      BY <3>1, <3>2, Zenon
  <2> QED
    BY <2>3, <2>4
<1> QED
  BY <1>2, <1>3, StepIsWatched, Zenon

LEMMA InitWatched == Init => AllWatched
<1> SUFFICES ASSUME Init, NEW r \in Requests
             PROVE  Watched(req[r], inflight[req[r].agent], moved[r])
  BY DEF AllWatched
<1>1. req[r].pc = "idle" /\ Blank(req[r].gauges) /\ req[r].by # "queue"
  BY DEF Init, Idle, Blank
<1> QED
  BY <1>1 DEF Watched, Weighing

(* select_least_busy: whatever attempts begin and end between its reads, the *)
(* pin and the seat, where it is about to begin is busier than another       *)
(* candidate by no more than the seats that changed hands meanwhile.         *)
THEOREM QueuesPickedAreShort == Spec => []PicksAShortQueue
<1>1. Init => IInv /\ InOrder /\ AllWatched
  BY InitIInv, InitInOrder, InitWatched
<1>2. IInv /\ InOrder /\ AllWatched /\ [Next]_vars => IInv' /\ InOrder' /\ AllWatched'
  BY NextIInv, OrderKept, WatchKept
<1>3. IInv /\ AllWatched => PicksAShortQueue
  <2> SUFFICES ASSUME IInv, AllWatched, NEW r \in Requests,
                      req[r].pc \in {"assign", "seat"}, req[r].by = "queue", req[r].asked = {},
                      NEW p \in req[r].usable
               PROVE  Cardinality(Calling(req[r].agent, req[r].head))
                        <= Cardinality(Calling(req[r].agent, p)) + moved[r]
    BY DEF PicksAShortQueue
  <2> DEFINE a == req[r].agent
             h == req[r].head
             g == req[r].gauges
  <2>1. a \in Agents /\ req[r].usable \subseteq Providers /\ req[r] \in Request
    BY Facts
  <2>2. Weighing(req[r])
    BY DEF Weighing
  <2>3. Close(g, inflight[a], moved[r]) /\ ReadShortest(req[r])
    BY <2>2 DEF AllWatched, Watched
  <2>4. /\ h \in Providers /\ p \in Providers /\ g[h] # Unread /\ g[p] # Unread
        /\ g[h] <= g[p]
    BY <2>1, <2>3 DEF ReadShortest
  <2>5. g[h] \in Nat /\ g[p] \in Nat /\ moved[r] \in Nat
        /\ inflight[a][h] \in Nat /\ inflight[a][p] \in Nat
    BY <2>1, <2>4 DEF IInv, TypeOK, Request
  <2>6. h # p => (inflight[a][h] - g[h]) + (g[p] - inflight[a][p]) <= moved[r]
    BY <2>3, <2>4 DEF Close
  <2>7. inflight[a][h] <= inflight[a][p] + moved[r]
    BY <2>4, <2>5, <2>6
  <2> QED
    BY <2>1, <2>4, <2>7 DEF IInv, GaugesCountSeats
<1> QED
  BY <1>1, <1>2, <1>3, PTL DEF Spec

-----------------------------------------------------------------------------
(* Turns of one conversation.  A request that names a session and whose      *)
(* agent's strategy drains talks; it is early until the session table knows  *)
(* where it went, and stays early when its strategy fails.                   *)
Talks(r) == Strategy[req[r].agent] \in Sticky /\ req[r].session # NoSession

EarlyPCs == {"lookup", "choose", "assign", "unrouted"}

Early(r) == req[r].pc \in EarlyPCs

(* The history lists every admitted request, once.                           *)
TurnsAreRequests ==
    /\ \A r \in Requests : req[r].pc \notin {"idle", "refused"} =>
          \E i \in DOMAIN turns : turns[i] = r
    /\ \A i \in DOMAIN turns : req[turns[i]].pc \notin {"idle", "refused"}
    /\ \A i, j \in DOMAIN turns : turns[i] = turns[j] => i = j

Headless == {"idle", "lookup", "choose", "unrouted"}

(* A request has its head once the strategy has chosen, and not before.      *)
HeadIsChosen ==
    \A r \in Requests :
       /\ req[r].pc \in Headless => req[r].head = None
       /\ req[r].pc \notin Headless \cup {"refused"} => req[r].head # None

(* The turns of a conversation come one after another.                       *)
OneAtATime ==
    \A i, j \in DOMAIN turns :
       i < j /\ Talks(turns[i]) /\ Slot(turns[i]) = Slot(turns[j]) => ~InProgress(turns[i])

(* The session table holds where the last turn went that got past it.        *)
PinIsLast ==
    \A i \in DOMAIN turns :
       Talks(turns[i]) /\ ~Early(turns[i])
       /\ (\A j \in DOMAIN turns :
              i < j /\ Slot(turns[i]) = Slot(turns[j]) => Early(turns[j]))
       => pins[Slot(turns[i])] = req[turns[i]].head

(* Who chooses anew does so because the pin was not usable, and it still is  *)
(* the same pin.                                                             *)
MissedThePin ==
    \A r \in Requests :
       req[r].pc = "choose" /\ Talks(r) => pins[Slot(r)] \notin req[r].usable

InTalk ==
    TurnsAreRequests /\ HeadIsChosen /\ OneAtATime /\ PinIsLast /\ MissedThePin

(* What a step does to the request that takes it, r with its next record q.  *)
Entered(r, q) ==
    /\ req[r].pc = "idle"
    /\ turns' = Append(turns, r) /\ pins' = pins
    /\ IF Strategy[q.agent] \in Sticky THEN q.pc = "lookup" /\ q.head = None
                                       ELSE q.pc = "seat" /\ q.head # None
    /\ Serial /\ q.session # NoSession =>
          \A s \in Requests : ~(InProgress(s) /\ Slot(s) = <<q.agent, q.session>>)

TurnedAway(r, q) ==
    /\ req[r].pc = "idle" /\ q.pc = "refused"
    /\ turns' = turns /\ pins' = pins

Resumed(r, q) ==
    /\ q.agent = req[r].agent /\ q.session = req[r].session /\ q.usable = req[r].usable
    /\ turns' = turns

WentOn(r, q) ==
    /\ Resumed(r, q) /\ pins' = pins /\ q.head = req[r].head
    /\ \/ /\ req[r].pc \in {"lookup", "choose"} /\ q.pc = "choose"
          /\ req[r].pc = "lookup" /\ Drains(r) => pins[Slot(r)] \notin req[r].usable
       \/ req[r].pc = "choose" /\ q.pc = "unrouted"
       \/ /\ req[r].pc \in {"seat", "calling", "streaming"}
          /\ q.pc \in {"seat", "calling", "streaming", "answered", "gone"}

GotHead(r, q) ==
    /\ Resumed(r, q) /\ pins' = pins /\ q.head # None
    /\ \/ req[r].pc = "lookup" /\ q.pc = "seat" /\ q.head = pins[Slot(r)]
       \/ req[r].pc = "choose" /\ q.pc = "assign"

Recorded(r, q) ==
    /\ Resumed(r, q) /\ q.head = req[r].head
    /\ req[r].pc = "assign" /\ q.pc = "seat"
    /\ pins' = IF Drains(r) THEN [pins EXCEPT ![Slot(r)] = req[r].head] ELSE pins

Walks(r) ==
    \E q : /\ req' = [req EXCEPT ![r] = q]
           /\ \/ Entered(r, q) \/ TurnedAway(r, q) \/ WentOn(r, q)
              \/ GotHead(r, q) \/ Recorded(r, q)

LEMMA ResolveWalks ==
  ASSUME IInv, HeadIsChosen, NEW r \in Requests, NEW c \in Calls, Resolve(r, c)
  PROVE  Walks(r)
<1> DEFINE a == Client[c.key].agent
           usable == Usable(c.key, limits)
           resolved == [req[r] EXCEPT !.key = c.key, !.agent = a, !.session = c.session,
                                      !.seen = limits, !.usable = usable]
<1>1. /\ req[r] \in Request /\ req[r].pc = "idle" /\ req[r].head = None
      /\ pins' = pins /\ MaySend(c)
  BY DEF IInv, TypeOK, HeadIsChosen, Headless, Resolve
<1>2. CASE Admit(r, c)
  <2>1. c.key \in Keys /\ turns' = Append(turns, r)
    BY <1>2, Zenon DEF Admit, Refusal
  <2>2. usable \subseteq Providers
    BY <2>1, UsableAreProviders
  <2>3. Serial /\ c.session # NoSession =>
           \A s \in Requests : ~(InProgress(s) /\ Slot(s) = <<a, c.session>>)
    BY <1>1, <2>1, Zenon DEF MaySend
  <2>4. CASE Strategy[a] \in Sticky
    <3> DEFINE q == [resolved EXCEPT !.pc = "lookup"]
    <3>1. req' = [req EXCEPT ![r] = q]
      BY <1>2, <2>4 DEF Admit
    <3>2. /\ q.pc = "lookup" /\ q.head = None
          /\ q.agent = a /\ q.session = c.session
      BY <1>1 DEF Request
    <3> HIDE DEF q
    <3>3. Entered(r, q)
      BY <1>1, <2>1, <2>3, <2>4, <3>2, Zenon DEF Entered
    <3> QED
      BY <3>1, <3>3, Zenon DEF Walks
  <2>5. CASE Strategy[a] \notin Sticky
    <3>1. PICK p \in usable :
             req' = [req EXCEPT ![r] =
                       [resolved EXCEPT !.pc = "seat", !.head = p, !.by = "order"]]
      BY <1>2, <2>5 DEF Admit
    <3> DEFINE q == [resolved EXCEPT !.pc = "seat", !.head = p, !.by = "order"]
    <3>2. req' = [req EXCEPT ![r] = q]
      BY <3>1
    <3>3. q.pc = "seat" /\ q.head = p /\ q.agent = a /\ q.session = c.session
      BY <1>1 DEF Request
    <3>4. p # None
      BY <2>2, NoneAssumption
    <3> HIDE DEF q
    <3>5. Entered(r, q)
      BY <1>1, <2>1, <2>3, <2>5, <3>3, <3>4, Zenon DEF Entered
    <3> QED
      BY <3>2, <3>5, Zenon DEF Walks
  <2> QED
    BY <2>4, <2>5
<1>3. CASE Refuse(r, c)
  <2> DEFINE q == [req[r] EXCEPT !.pc = "refused", !.answer = Refusal(c, limits)]
  <2>1. req' = [req EXCEPT ![r] = q] /\ turns' = turns
    BY <1>3, Zenon DEF Refuse
  <2>2. q.pc = "refused"
    BY <1>1 DEF Request
  <2> HIDE DEF q
  <2>3. TurnedAway(r, q)
    BY <1>1, <2>1, <2>2, Zenon DEF TurnedAway
  <2> QED
    BY <2>1, <2>3, Zenon DEF Walks
<1> QED
  BY <1>2, <1>3 DEF Resolve

LEMMA LookupWalks ==
  ASSUME IInv, NEW r \in Requests, Lookup(r)
  PROVE  Walks(r)
<1>1. /\ req[r] \in Request /\ req[r].pc = "lookup" /\ req[r].usable \subseteq Providers
      /\ turns' = turns /\ pins' = pins
  BY Facts DEF Lookup, shared
<1>2. CASE Drains(r) /\ pins[Slot(r)] \in req[r].usable
  <2> DEFINE q == [req[r] EXCEPT !.pc = "seat", !.head = pins[Slot(r)], !.by = "pin"]
  <2>1. req' = [req EXCEPT ![r] = q]
    BY <1>2 DEF Lookup
  <2>2. /\ q.agent = req[r].agent /\ q.session = req[r].session /\ q.usable = req[r].usable
        /\ q.pc = "seat" /\ q.head = pins[Slot(r)]
    BY <1>1 DEF Request
  <2>3. pins[Slot(r)] # None
    BY <1>1, <1>2, NoneAssumption
  <2> HIDE DEF q
  <2>4. GotHead(r, q)
    BY <1>1, <2>2, <2>3, Zenon DEF GotHead, Resumed
  <2> QED
    BY <2>1, <2>4, Zenon DEF Walks
<1>3. CASE ~(Drains(r) /\ pins[Slot(r)] \in req[r].usable)
  <2> DEFINE q == [req[r] EXCEPT !.pc = "choose"]
  <2>1. req' = [req EXCEPT ![r] = q]
    BY <1>3 DEF Lookup
  <2>2. /\ q.agent = req[r].agent /\ q.session = req[r].session /\ q.usable = req[r].usable
        /\ q.pc = "choose" /\ q.head = req[r].head
    BY <1>1 DEF Request
  <2> HIDE DEF q
  <2>3. WentOn(r, q)
    BY <1>1, <1>3, <2>2 DEF WentOn, Resumed
  <2> QED
    BY <2>1, <2>3, Zenon DEF Walks
<1> QED
  BY <1>2, <1>3

LEMMA ChooseWalks ==
  ASSUME IInv, NEW r \in Requests, Choose(r)
  PROVE  Walks(r)
<1>1. /\ req[r] \in Request /\ req[r].pc = "choose"
      /\ turns' = turns /\ pins' = pins
  BY Zenon DEF IInv, TypeOK, Choose, ChooseFromRing, ChooseByWindow, ChooseByQuota, QuotaUnread,
               ReadGauge, ChooseLeastBusy, shared
<1>2. req[r].usable \subseteq Providers
  BY <1>1, Facts
<1>3. CASE \E p \in req[r].usable : \E by : Settle(r, p, by)
  <2>0. PICK p \in req[r].usable : \E by : Settle(r, p, by)
    BY <1>3
  <2>1. PICK by :
           req' = [req EXCEPT ![r] = [@ EXCEPT !.pc = "assign", !.head = p, !.by = by]]
    BY <2>0 DEF Settle
  <2> DEFINE q == [req[r] EXCEPT !.pc = "assign", !.head = p, !.by = by]
  <2>2. req' = [req EXCEPT ![r] = q]
    BY <2>1
  <2>3. /\ q.agent = req[r].agent /\ q.session = req[r].session /\ q.usable = req[r].usable
        /\ q.pc = "assign" /\ q.head = p
    BY <1>1 DEF Request
  <2>4. p # None
    BY <1>2, NoneAssumption
  <2> HIDE DEF q
  <2>5. GotHead(r, q)
    BY <1>1, <2>3, <2>4, Zenon DEF GotHead, Resumed
  <2> QED
    BY <2>2, <2>5, Zenon DEF Walks
<1>4. CASE ReadGauge(r)
  <2>1. PICK p, n : req' = [req EXCEPT ![r].gauges[p] = n]
    BY <1>4, Zenon DEF ReadGauge
  <2> DEFINE q == [req[r] EXCEPT !.gauges[p] = n]
  <2>2. req' = [req EXCEPT ![r] = q]
    BY <2>1
  <2>3. /\ q.agent = req[r].agent /\ q.session = req[r].session /\ q.usable = req[r].usable
        /\ q.pc = "choose" /\ q.head = req[r].head
    BY <1>1 DEF Request
  <2> HIDE DEF q
  <2>4. WentOn(r, q)
    BY <1>1, <2>3 DEF WentOn, Resumed
  <2> QED
    BY <2>2, <2>4, Zenon DEF Walks
<1>5. \/ \E p \in req[r].usable : \E by : Settle(r, p, by)
      \/ ReadGauge(r) \/ QuotaUnread(r)
  <2>1. ASSUME NEW a, NEW S, NEW p, IsFirst(a, p, S), S \subseteq req[r].usable
        PROVE  p \in req[r].usable
    BY <2>1 DEF IsFirst
  <2>2. CASE ChooseFromRing(r)
    BY <2>2, Zenon DEF ChooseFromRing
  <2>3. CASE ChooseByWindow(r)
    <3>1. PICK p : p \in req[r].usable /\ Settle(r, p, "window")
      BY <2>3, Zenon DEF ChooseByWindow
    <3> QED
      BY <3>1, Zenon
  <2>4. CASE ChooseByQuota(r)
    <3>1. PICK p : p \in req[r].usable /\ Settle(r, p, "quota")
      BY <2>4, Zenon DEF ChooseByQuota, IsFirst
    <3> QED
      BY <3>1, Zenon
  <2>5. CASE ChooseLeastBusy(r)
    <3>1. PICK p : p \in req[r].usable /\ Settle(r, p, "queue")
      BY <2>5, Zenon DEF ChooseLeastBusy
    <3> QED
      BY <3>1, Zenon
  <2> QED
    BY <1>4, <2>2, <2>3, <2>4, <2>5, Zenon DEF Choose
<1>6. CASE QuotaUnread(r)
  <2> DEFINE q == [req[r] EXCEPT !.pc = "unrouted", !.answer = "routing_error"]
  <2>1. req' = [req EXCEPT ![r] = q]
    BY <1>6 DEF QuotaUnread
  <2>2. /\ q.agent = req[r].agent /\ q.session = req[r].session /\ q.usable = req[r].usable
        /\ q.pc = "unrouted" /\ q.head = req[r].head
    BY <1>1 DEF Request
  <2> HIDE DEF q
  <2>3. WentOn(r, q)
    BY <1>1, <2>2 DEF WentOn, Resumed
  <2> QED
    BY <2>1, <2>3, Zenon DEF Walks
<1> QED
  BY <1>3, <1>4, <1>5, <1>6

LEMMA LaterWalks ==
  ASSUME IInv, NEW r \in Requests,
         Assign(r) \/ TakeSeat(r) \/ Respond(r) \/ EndStream(r) \/ HangUp(r)
  PROVE  Walks(r)
<1>1. req[r] \in Request
  BY DEF IInv, TypeOK
<1>2. CASE Assign(r)
  <2> DEFINE q == [req[r] EXCEPT !.pc = "seat"]
  <2>1. /\ req' = [req EXCEPT ![r] = q] /\ turns' = turns /\ req[r].pc = "assign"
        /\ pins' = IF Drains(r) THEN [pins EXCEPT ![Slot(r)] = req[r].head] ELSE pins
    BY <1>2 DEF Assign
  <2>2. /\ q.agent = req[r].agent /\ q.session = req[r].session /\ q.usable = req[r].usable
        /\ q.pc = "seat" /\ q.head = req[r].head
    BY <1>1 DEF Request
  <2> HIDE DEF q
  <2>3. Recorded(r, q)
    BY <2>1, <2>2, Zenon DEF Recorded, Resumed
  <2> QED
    BY <2>1, <2>3, Zenon DEF Walks
<1>3. ASSUME NEW q, req' = [req EXCEPT ![r] = q], turns' = turns, pins' = pins,
             q.agent = req[r].agent, q.session = req[r].session, q.usable = req[r].usable,
             q.head = req[r].head,
             req[r].pc \in {"seat", "calling", "streaming"},
             q.pc \in {"seat", "calling", "streaming", "answered", "gone"}
      PROVE  Walks(r)
  <2>1. WentOn(r, q)
    BY <1>3 DEF WentOn, Resumed, Ended
  <2> QED
    BY <1>3, <2>1, Zenon DEF Walks
<1>4. CASE TakeSeat(r)
  <2>1. PICK p : req' = [req EXCEPT ![r] =
                    [@ EXCEPT !.pc = "calling", !.at = p, !.asked = req[r].asked \cup {p}]]
    BY <1>4 DEF TakeSeat
  <2> DEFINE q == [req[r] EXCEPT !.pc = "calling", !.at = p, !.asked = req[r].asked \cup {p}]
  <2>2. /\ req' = [req EXCEPT ![r] = q] /\ turns' = turns /\ pins' = pins
        /\ req[r].pc = "seat"
    BY <1>4, <2>1 DEF TakeSeat
  <2>3. /\ q.agent = req[r].agent /\ q.session = req[r].session /\ q.usable = req[r].usable
        /\ q.pc = "calling" /\ q.head = req[r].head
    BY <1>1 DEF Request
  <2> HIDE DEF q
  <2> QED
    BY <1>3, <2>2, <2>3
<1>5. CASE Respond(r)
  <2>1. PICK how \in Outcomes, late \in BOOLEAN : Answer(r, how, late)
    BY <1>5 DEF Respond
  <2>2. req[r].pc = "calling" /\ turns' = turns /\ pins' = pins
    BY <2>1 DEF Answer
  <2>3. CASE req' = [req EXCEPT ![r].pc = "seat"]
    <3> DEFINE q == [req[r] EXCEPT !.pc = "seat"]
    <3>1. req' = [req EXCEPT ![r] = q]
      BY <2>3
    <3>2. /\ q.agent = req[r].agent /\ q.session = req[r].session /\ q.usable = req[r].usable
          /\ q.pc = "seat" /\ q.head = req[r].head
      BY <1>1 DEF Request
    <3> HIDE DEF q
    <3> QED
      BY <1>3, <2>2, <3>1, <3>2
  <2>4. CASE req' # [req EXCEPT ![r].pc = "seat"]
    <3> DEFINE end == IF how = "streamed" THEN "streaming" ELSE "answered"
               said == IF Retryable(how) /\ req[r].asked # req[r].usable
                       THEN "out_of_time" ELSE how
               q == [req[r] EXCEPT !.pc = end, !.answer = said]
    <3>1. req' = [req EXCEPT ![r] = q]
      BY <2>1, <2>4 DEF Answer
    <3>2. end \in {"streaming", "answered"}
      OBVIOUS
    <3> HIDE DEF end, said
    <3>3. /\ q.agent = req[r].agent /\ q.session = req[r].session /\ q.usable = req[r].usable
          /\ q.pc = end /\ q.head = req[r].head
      BY <1>1 DEF Request
    <3> HIDE DEF q
    <3> QED
      BY <1>3, <2>2, <3>1, <3>2, <3>3
  <2> QED
    BY <2>3, <2>4
<1>6. CASE EndStream(r)
  <2> DEFINE q == [req[r] EXCEPT !.pc = "answered"]
  <2>1. /\ req' = [req EXCEPT ![r] = q] /\ turns' = turns /\ pins' = pins
        /\ req[r].pc = "streaming"
    BY <1>6 DEF EndStream
  <2>2. /\ q.agent = req[r].agent /\ q.session = req[r].session /\ q.usable = req[r].usable
        /\ q.pc = "answered" /\ q.head = req[r].head
    BY <1>1 DEF Request
  <2> HIDE DEF q
  <2> QED
    BY <1>3, <2>1, <2>2
<1>7. CASE HangUp(r)
  <2> DEFINE q == [req[r] EXCEPT !.pc = "gone"]
  <2>1. /\ req' = [req EXCEPT ![r] = q] /\ turns' = turns /\ pins' = pins
        /\ req[r].pc = "calling"
    BY <1>7 DEF HangUp
  <2>2. /\ q.agent = req[r].agent /\ q.session = req[r].session /\ q.usable = req[r].usable
        /\ q.pc = "gone" /\ q.head = req[r].head
    BY <1>1 DEF Request
  <2> HIDE DEF q
  <2> QED
    BY <1>3, <2>1, <2>2
<1> QED
  BY <1>2, <1>4, <1>5, <1>6, <1>7

(* Every step leaves requests, turns and pins alone or is one request's.     *)
LEMMA StepWalks ==
  ASSUME IInv, HeadIsChosen, [Next]_vars
  PROVE  UNCHANGED <<req, turns, pins>> \/ \E r \in Requests : Walks(r)
<1>1. CASE \E r \in Requests, c \in Calls : Resolve(r, c)
  BY <1>1, ResolveWalks, Zenon
<1>2. CASE \E r \in Requests : Proceed(r)
  <2>1. PICK r \in Requests : Proceed(r)
    BY <1>2
  <2>2. Walks(r)
    BY <2>1, LookupWalks, ChooseWalks, LaterWalks, Zenon DEF Proceed
  <2> QED
    BY <2>2
<1>3. CASE \E r \in Requests : HangUp(r)
  BY <1>3, LaterWalks, Zenon
<1>4. CASE (\E over \in LimitSets : Publish(over)) \/ Tick \/ UNCHANGED vars
  BY <1>4, Zenon DEF Publish, Tick, vars
<1> QED
  BY <1>1, <1>2, <1>3, <1>4, Zenon DEF Next

(* A request that goes on stays in its conversation, never becomes early     *)
(* again, and touches nobody else.                                           *)
LEMMA ResumedFacts ==
  ASSUME IInv, NEW r \in Requests, NEW q, req' = [req EXCEPT ![r] = q],
         WentOn(r, q) \/ GotHead(r, q) \/ Recorded(r, q)
  PROVE  /\ turns' = turns /\ req'[r] = q
         /\ req[r].pc \notin Ended \cup {"idle"} /\ q.pc \notin {"idle", "refused"}
         /\ \A s \in Requests :
               /\ s # r => req'[s] = req[s]
               /\ Slot(s)' = Slot(s) /\ Talks(s)' = Talks(s)
               /\ req'[s].usable = req[s].usable
               /\ InProgress(s)' => InProgress(s)
               /\ Early(s)' => Early(s)
<1>1. Resumed(r, q)
  BY DEF WentOn, GotHead, Recorded
<1>2. req'[r] = q /\ \A s \in Requests : s # r => req'[s] = req[s]
  BY DEF IInv, TypeOK
<1>3. req[r].pc \notin Ended \cup {"idle"} /\ q.pc \notin {"idle", "refused"}
  BY DEF WentOn, GotHead, Recorded, Ended
<1>4. q.pc \in EarlyPCs => req[r].pc \in EarlyPCs
  BY DEF WentOn, GotHead, Recorded, Ended, EarlyPCs
<1>5. ASSUME NEW s \in Requests
      PROVE  /\ Slot(s)' = Slot(s) /\ Talks(s)' = Talks(s)
             /\ req'[s].usable = req[s].usable
             /\ InProgress(s)' => InProgress(s)
             /\ Early(s)' => Early(s)
  <2>1. CASE s = r
    <3>1. /\ req'[s].agent = req[s].agent /\ req'[s].session = req[s].session
          /\ req'[s].usable = req[s].usable
      BY <1>1, <1>2, <2>1 DEF Resumed
    <3>2. Slot(s)' = Slot(s)
      BY <3>1, Zenon DEF Slot
    <3>3. Talks(s)' = Talks(s)
      BY <3>1, Zenon DEF Talks
    <3>4. (InProgress(s)' => InProgress(s)) /\ (Early(s)' => Early(s))
      BY <1>2, <1>3, <1>4, <2>1, Zenon DEF InProgress, Early
    <3> QED
      BY <3>1, <3>2, <3>3, <3>4
  <2>2. CASE s # r
    <3>1. req'[s] = req[s]
      BY <1>2, <2>2
    <3> QED
      BY <3>1, Zenon DEF Slot, Talks, InProgress, Early
  <2> QED
    BY <2>1, <2>2
<1>6. turns' = turns
  BY <1>1 DEF Resumed
<1> QED
  BY <1>2, <1>3, <1>5, <1>6

LEMMA ResumedTurns ==
  ASSUME IInv, InTalk, NEW r \in Requests, NEW q, req' = [req EXCEPT ![r] = q],
         WentOn(r, q) \/ GotHead(r, q) \/ Recorded(r, q)
  PROVE  TurnsAreRequests' /\ HeadIsChosen' /\ OneAtATime'
<1>0. turns \in Seq(Requests)
  BY DEF IInv, TypeOK
<1>a. \A i \in DOMAIN turns : turns[i] \in Requests
  BY <1>0
<1>1. TurnsAreRequests'
  <2>1. \A s \in Requests : req'[s].pc \notin {"idle", "refused"} =>
           req[s].pc \notin {"idle", "refused"}
    BY ResumedFacts, Zenon DEF Ended
  <2>2. \A s \in Requests : req[s].pc \notin {"idle", "refused"} =>
           req'[s].pc \notin {"idle", "refused"}
    BY ResumedFacts, Zenon
  <2>3. turns' = turns
    BY ResumedFacts
  <2> QED
    BY <1>a, <2>1, <2>2, <2>3 DEF TurnsAreRequests, InTalk
<1>2. HeadIsChosen'
  <2> SUFFICES ASSUME NEW s \in Requests
               PROVE  /\ req'[s].pc \in Headless => req'[s].head = None
                      /\ req'[s].pc \notin Headless \cup {"refused"} => req'[s].head # None
    BY Zenon DEF HeadIsChosen
  <2>1. CASE s # r
    <3>1. req'[s] = req[s]
      BY <2>1, ResumedFacts
    <3> QED
      BY <3>1 DEF HeadIsChosen, InTalk
  <2>2. /\ req[r].pc \in Headless => req[r].head = None
        /\ req[r].pc \notin Headless \cup {"refused"} => req[r].head # None
    BY DEF HeadIsChosen, InTalk
  <2>3. /\ q.pc \in Headless => q.head = None
        /\ q.pc \notin Headless \cup {"refused"} => q.head # None
    BY <2>2 DEF WentOn, GotHead, Recorded, Ended, Headless
  <2>4. req'[r] = q
    BY ResumedFacts
  <2> QED
    BY <2>1, <2>3, <2>4
<1>3. OneAtATime'
  <2> SUFFICES ASSUME NEW i \in DOMAIN turns, NEW j \in DOMAIN turns, i < j,
                      Talks(turns[i])', Slot(turns[i])' = Slot(turns[j])'
               PROVE  ~InProgress(turns[i])'
    BY ResumedFacts DEF OneAtATime
  <2>1. turns[i] \in Requests /\ turns[j] \in Requests /\ turns' = turns
    BY <1>a, ResumedFacts
  <2>2. /\ Talks(turns[i])' = Talks(turns[i])
        /\ Slot(turns[i])' = Slot(turns[i]) /\ Slot(turns[j])' = Slot(turns[j])
    BY <2>1, ResumedFacts
  <2>3. ~InProgress(turns[i])
    BY <2>2 DEF OneAtATime, InTalk
  <2> QED
    BY <2>1, <2>3, ResumedFacts
<1> QED
  BY <1>1, <1>2, <1>3

(* Where the turns before the one that is under way have left the pin.       *)
LEMMA LastTurn ==
  ASSUME IInv, InTalk, NEW i \in DOMAIN turns, NEW j \in DOMAIN turns, i < j,
         Talks(turns[i]), Slot(turns[i]) = Slot(turns[j]),
         InProgress(turns[j]), Early(turns[j]), req[turns[i]].pc # "unrouted",
         \A k \in DOMAIN turns : i < k /\ k < j /\ Slot(turns[k]) = Slot(turns[i])
                                 => Early(turns[k])
  PROVE  pins[Slot(turns[i])] = req[turns[i]].head
<1>0. turns \in Seq(Requests)
  BY DEF IInv, TypeOK
<1>1. \A k \in DOMAIN turns : turns[k] \in Requests /\ k \in Int
  BY <1>0
<1>2. Early(turns[i]) => InProgress(turns[i])
  BY DEF Early, EarlyPCs, InProgress, Ended
<1>3. ~Early(turns[i])
  BY <1>2 DEF OneAtATime, InTalk
<1>4. Talks(turns[j])
  BY DEF Talks, Slot
<1>5. ASSUME NEW k \in DOMAIN turns, i < k, Slot(turns[i]) = Slot(turns[k])
      PROVE  Early(turns[k])
  <2>1. CASE k = j
    BY <2>1
  <2>2. CASE j < k
    BY <1>4, <1>5, <2>2 DEF OneAtATime, InTalk
  <2> QED
    BY <1>1, <1>5, <2>1, <2>2
<1> QED
  BY <1>3, <1>5, Zenon DEF PinIsLast, InTalk

LEMMA ResumedPins ==
  ASSUME IInv, InTalk, NEW r \in Requests, NEW q, req' = [req EXCEPT ![r] = q],
         WentOn(r, q) \/ GotHead(r, q) \/ Recorded(r, q)
  PROVE  PinIsLast'
<1>0. turns \in Seq(Requests) /\ pins \in [Slots -> Providers \cup {None}]
  BY DEF IInv, TypeOK
<1>a. turns' = turns
  BY ResumedFacts
<1>c. req'[r] = q /\ Slot(r)' = Slot(r)
  BY ResumedFacts
<1>b. \A k \in DOMAIN turns : turns[k] \in Requests /\ k \in Int
  BY <1>0
<1>1. /\ \A k \in DOMAIN turns : turns[k] \in Requests /\ k \in Int
      /\ turns' = turns
  BY <1>a, <1>b
<1>2. PICK n \in DOMAIN turns : turns[n] = r
  BY ResumedFacts, Zenon DEF TurnsAreRequests, InTalk, Ended
<1>3. InProgress(r)
  BY ResumedFacts, Zenon DEF InProgress
<1> SUFFICES ASSUME NEW i \in DOMAIN turns, Talks(turns[i])', ~Early(turns[i])',
                    \A j \in DOMAIN turns :
                       i < j /\ Slot(turns[i])' = Slot(turns[j])' => Early(turns[j])'
             PROVE  pins'[Slot(turns[i])'] = req'[turns[i]].head
  BY <1>1 DEF PinIsLast
<1>4. /\ Talks(turns[i]) /\ turns[i] \in Requests /\ Slot(turns[i])' = Slot(turns[i])
      /\ \A j \in DOMAIN turns : i < j /\ Slot(turns[i]) = Slot(turns[j]) => Early(turns[j])
  <2>1. Talks(turns[i]) /\ turns[i] \in Requests /\ Slot(turns[i])' = Slot(turns[i])
    BY <1>1, ResumedFacts
  <2>2. ASSUME NEW j \in DOMAIN turns, i < j, Slot(turns[i]) = Slot(turns[j])
        PROVE  Early(turns[j])
    <3>1. Slot(turns[j])' = Slot(turns[j])
      BY <1>1, ResumedFacts
    <3>2. Early(turns[j])'
      BY <2>1, <2>2, <3>1
    <3> QED
      BY <1>1, <3>2, ResumedFacts
  <2> QED
    BY <2>1, <2>2
<1>5. Slot(turns[i]) \in Slots
  <2>1. req[turns[i]].pc \notin {"idle", "refused"}
    BY Zenon DEF TurnsAreRequests, InTalk
  <2> QED
    BY <1>4, <2>1, Facts
<1>6. CASE WentOn(r, q)
  <2>1. pins' = pins /\ q.head = req[r].head
    BY <1>6 DEF WentOn
  <2>2. req'[turns[i]].head = req[turns[i]].head
    BY <1>4, <2>1, ResumedFacts
  <2>3. Early(turns[i]) => turns[i] # r
    <3>1. turns[i] = r /\ Early(r) => Early(turns[i])'
      BY <1>1, <1>6, ResumedFacts DEF WentOn, Early, EarlyPCs
    <3> QED
      BY <3>1
  <2>4. ~Early(turns[i])
    BY <1>1, <1>4, <2>3, ResumedFacts DEF Early
  <2>5. pins[Slot(turns[i])] = req[turns[i]].head
    BY <1>4, <2>4, Zenon DEF PinIsLast, InTalk
  <2> QED
    BY <1>4, <2>1, <2>2, <2>5
<1>7. CASE GotHead(r, q)
  <2>1. pins' = pins
    BY <1>7 DEF GotHead
  <2>2. CASE turns[i] = r
    <3>0. req'[turns'[i]] = q /\ Slot(r)' = Slot(r)
      BY <1>a, <1>c, <2>2, Zenon
    <3>1. q.pc \notin EarlyPCs
      BY <3>0 DEF Early
    <3>2. q.head = pins[Slot(r)]
      BY <1>7, <3>1 DEF GotHead, EarlyPCs
    <3> QED
      BY <1>a, <1>4, <2>1, <2>2, <3>0, <3>2
  <2>3. CASE turns[i] # r
    <3>1. req'[turns[i]] = req[turns[i]]
      BY <1>4, <2>3, ResumedFacts
    <3>2. ~Early(turns[i])
      BY <1>1, <3>1 DEF Early
    <3>3. pins[Slot(turns[i])] = req[turns[i]].head
      BY <1>4, <3>2, Zenon DEF PinIsLast, InTalk
    <3> QED
      BY <1>4, <2>1, <3>1, <3>3
  <2> QED
    BY <2>2, <2>3
<1>8. CASE Recorded(r, q)
  <2>1. /\ q.head = req[r].head
        /\ pins' = IF Drains(r) THEN [pins EXCEPT ![Slot(r)] = req[r].head] ELSE pins
    BY <1>8 DEF Recorded
  <2>2. CASE turns[i] = r
    <3>1. Drains(r)
      BY <1>4, <2>2 DEF Talks, Drains
    <3> QED
      BY <1>0, <1>4, <1>5, <2>1, <2>2, <3>1, ResumedFacts
  <2>3. CASE turns[i] # r
    <3>1. req'[turns[i]] = req[turns[i]]
      BY <1>4, <2>3, ResumedFacts
    <3>2. ~Early(turns[i])
      BY <1>1, <3>1 DEF Early
    <3>3. pins[Slot(turns[i])] = req[turns[i]].head
      BY <1>4, <3>2, Zenon DEF PinIsLast, InTalk
    <3>4. Slot(turns[i]) # Slot(r)
      <4> SUFFICES ASSUME Slot(turns[i]) = Slot(r) PROVE FALSE
        OBVIOUS
      <4>1. CASE i < n
        <5>1. Slot(turns[n])' = Slot(turns[n])
          BY <1>a, <1>b, ResumedFacts
        <5>2. Early(turns[n])'
          BY <1>2, <1>4, <4>1, <5>1
        <5>3. req'[turns'[n]] = q
          BY <1>a, <1>c, <1>2, Zenon
        <5> QED
          BY <1>8, <5>2, <5>3 DEF Early, EarlyPCs, Recorded
      <4>2. CASE n < i
        <5>1. Talks(r)
          BY <1>4 DEF Talks, Slot
        <5>2. Talks(turns[n]) /\ Slot(turns[n]) = Slot(turns[i]) /\ InProgress(turns[n])
          BY <1>2, <1>3, <4>1, <5>1
        <5> QED
          BY <4>2, <5>2, Zenon DEF OneAtATime, InTalk
      <4> QED
        BY <1>1, <1>2, <2>3, <4>1, <4>2
    <3>5. pins'[Slot(turns[i])] = pins[Slot(turns[i])]
      BY <1>0, <2>1, <3>4
    <3> QED
      BY <1>4, <3>1, <3>3, <3>5
  <2> QED
    BY <2>2, <2>3
<1> QED
  BY <1>6, <1>7, <1>8

LEMMA ResumedMisses ==
  ASSUME IInv, InTalk, NEW r \in Requests, NEW q, req' = [req EXCEPT ![r] = q],
         WentOn(r, q) \/ GotHead(r, q) \/ Recorded(r, q)
  PROVE  MissedThePin'
<1>0. turns \in Seq(Requests) /\ pins \in [Slots -> Providers \cup {None}]
  BY DEF IInv, TypeOK
<1>1. \A k \in DOMAIN turns : turns[k] \in Requests /\ k \in Int
  BY <1>0
<1> SUFFICES ASSUME NEW s \in Requests, req'[s].pc = "choose", Talks(s)'
             PROVE  pins'[Slot(s)'] \notin req'[s].usable
  BY DEF MissedThePin
<1>2. /\ Talks(s) /\ Slot(s)' = Slot(s) /\ req'[s].usable = req[s].usable
      /\ req'[r] = q
  BY ResumedFacts
<1>3. Drains(s)
  BY <1>2 DEF Talks, Drains
<1>4. CASE s = r
  <2>1. WentOn(r, q) /\ req[r].pc \in {"lookup", "choose"}
    BY <1>2, <1>4 DEF WentOn, GotHead, Recorded, Ended
  <2>2. pins[Slot(r)] \notin req[r].usable
    BY <1>2, <1>3, <1>4, <2>1 DEF WentOn, MissedThePin, InTalk
  <2>3. pins' = pins
    BY <2>1 DEF WentOn
  <2> QED
    BY <1>2, <1>4, <2>2, <2>3
<1>5. CASE s # r
  <2>1. req'[s] = req[s] /\ InProgress(s) /\ req[s].pc = "choose"
    BY <1>5, ResumedFacts DEF InProgress, Ended
  <2>2. pins[Slot(s)] \notin req[s].usable
    BY <1>2, <2>1, Zenon DEF MissedThePin, InTalk
  <2>3. Slot(s) # Slot(r)
    <3> SUFFICES ASSUME Slot(s) = Slot(r) PROVE FALSE
      OBVIOUS
    <3>1. InProgress(r) /\ Talks(r)
      BY <1>2, ResumedFacts DEF InProgress, Talks, Slot
    <3>2. req[s].pc \notin {"idle", "refused"} /\ req[r].pc \notin {"idle", "refused"}
      BY <2>1, ResumedFacts DEF Ended
    <3>3. PICK i \in DOMAIN turns : turns[i] = s
      BY <3>2, Zenon DEF TurnsAreRequests, InTalk
    <3>4. PICK j \in DOMAIN turns : turns[j] = r
      BY <3>2, Zenon DEF TurnsAreRequests, InTalk
    <3>5. ~(i < j) /\ ~(j < i)
      BY <1>2, <2>1, <3>1, <3>3, <3>4 DEF OneAtATime, InTalk
    <3> QED
      BY <1>1, <1>5, <3>3, <3>4, <3>5
  <2>4. pins'[Slot(s)] = pins[Slot(s)]
    <3>1. pins' = pins \/ pins' = [pins EXCEPT ![Slot(r)] = req[r].head]
      BY Zenon DEF WentOn, GotHead, Recorded
    <3>2. Slot(s) \in Slots
      BY <2>1, Facts
    <3> QED
      BY <1>0, <2>3, <3>1, <3>2
  <2> QED
    BY <1>2, <2>2, <2>4
<1> QED
  BY <1>4, <1>5

(* A request that enters is the last turn, and its conversation is quiet.    *)
LEMMA EnteredFacts ==
  ASSUME IInv, InTalk, NEW r \in Requests, NEW q, req' = [req EXCEPT ![r] = q],
         Entered(r, q) \/ TurnedAway(r, q)
  PROVE  /\ pins' = pins /\ req'[r] = q /\ turns \in Seq(Requests)
         /\ \A s \in Requests : s # r => req'[s] = req[s]
         /\ \A i \in DOMAIN turns : turns[i] \in Requests /\ turns[i] # r /\ i \in Int
         /\ \A i \in DOMAIN turns : i \in DOMAIN turns' /\ turns'[i] = turns[i]
         /\ \A i \in DOMAIN turns' : i \in Int /\ \/ i \in DOMAIN turns
                                                  \/ /\ Entered(r, q) /\ turns'[i] = r
                                                     /\ \A j \in DOMAIN turns' : j <= i
         /\ Entered(r, q) => \E i \in DOMAIN turns' : turns'[i] = r
<1>1. turns \in Seq(Requests)
  BY DEF IInv, TypeOK
<1>2. pins' = pins /\ req[r].pc = "idle"
  BY DEF Entered, TurnedAway
<1>3. req'[r] = q /\ \A s \in Requests : s # r => req'[s] = req[s]
  BY DEF IInv, TypeOK
<1>4. \A i \in DOMAIN turns : turns[i] # r
  BY <1>2 DEF TurnsAreRequests, InTalk
<1>5. CASE Entered(r, q)
  <2>1. turns' = Append(turns, r)
    BY <1>5 DEF Entered
  <2>2. /\ DOMAIN turns = 1..Len(turns) /\ Len(turns) \in Nat
        /\ DOMAIN turns' = 1..(Len(turns) + 1)
        /\ \A i \in 1..Len(turns) : turns'[i] = turns[i]
        /\ turns'[Len(turns) + 1] = r
    BY <1>1, <2>1
  <2> QED
    BY <1>1, <1>2, <1>3, <1>4, <1>5, <2>2
<1>6. CASE TurnedAway(r, q)
  <2>1. turns' = turns /\ ~Entered(r, q)
    BY <1>6 DEF TurnedAway, Entered
  <2> QED
    BY <1>1, <1>2, <1>3, <1>4, <2>1
<1> QED
  BY <1>5, <1>6

LEMMA EnteredInTalk ==
  ASSUME Serial, IInv, InTalk, NEW r \in Requests, NEW q, req' = [req EXCEPT ![r] = q],
         Entered(r, q) \/ TurnedAway(r, q)
  PROVE  InTalk'
<1>0. /\ req[r].pc = "idle"
      /\ q.pc \in {"lookup", "seat", "refused"} /\ (q.pc = "refused" => ~Entered(r, q))
      /\ Entered(r, q) => q.pc # "refused" /\ (q.pc = "lookup" <=> q.head = None)
      /\ Strategy[q.agent] \in Sticky /\ Entered(r, q) => q.pc = "lookup"
      /\ q.pc = "refused" <=> TurnedAway(r, q)
  BY DEF Entered, TurnedAway
<1>a. /\ pins' = pins /\ req'[r] = q
      /\ \A s \in Requests : s # r => req'[s] = req[s]
      /\ \A i \in DOMAIN turns : turns[i] \in Requests /\ turns[i] # r /\ i \in Int
      /\ \A i \in DOMAIN turns : i \in DOMAIN turns' /\ turns'[i] = turns[i]
      /\ \A i \in DOMAIN turns' : i \in Int /\ \/ i \in DOMAIN turns
                                               \/ /\ Entered(r, q) /\ turns'[i] = r
                                                  /\ \A j \in DOMAIN turns' : j <= i
      /\ Entered(r, q) => \E i \in DOMAIN turns' : turns'[i] = r
  BY EnteredFacts
<1>b. \A i \in DOMAIN turns :
         /\ req'[turns'[i]] = req[turns[i]]
         /\ Slot(turns[i])' = Slot(turns[i]) /\ Talks(turns[i])' = Talks(turns[i])
         /\ InProgress(turns[i])' = InProgress(turns[i])
         /\ Early(turns[i])' = Early(turns[i])
  <2> SUFFICES ASSUME NEW i \in DOMAIN turns
               PROVE  /\ req'[turns'[i]] = req[turns[i]]
                      /\ Slot(turns[i])' = Slot(turns[i]) /\ Talks(turns[i])' = Talks(turns[i])
                      /\ InProgress(turns[i])' = InProgress(turns[i])
                      /\ Early(turns[i])' = Early(turns[i])
    OBVIOUS
  <2>1. req'[turns'[i]] = req[turns[i]]
    BY <1>a
  <2> QED
    BY <2>1, Zenon DEF Slot, Talks, InProgress, Early
<1>1. TurnsAreRequests'
  <2>1. ASSUME NEW s \in Requests, req'[s].pc \notin {"idle", "refused"}
        PROVE  \E i \in DOMAIN turns' : turns'[i] = s
    <3>1. CASE s = r
      BY <1>0, <1>a, <2>1, <3>1
    <3>2. CASE s # r
      <4>1. PICK i \in DOMAIN turns : turns[i] = s
        BY <1>a, <2>1, <3>2, Zenon DEF TurnsAreRequests, InTalk
      <4> QED
        BY <1>a, <4>1
    <3> QED
      BY <3>1, <3>2
  <2>2. ASSUME NEW i \in DOMAIN turns' PROVE req'[turns'[i]].pc \notin {"idle", "refused"}
    <3>1. CASE i \in DOMAIN turns
      BY <1>b, <3>1 DEF TurnsAreRequests, InTalk
    <3>2. CASE i \notin DOMAIN turns
      BY <1>0, <1>a, <3>2
    <3> QED
      BY <3>1, <3>2
  <2>3. ASSUME NEW i \in DOMAIN turns', NEW j \in DOMAIN turns', turns'[i] = turns'[j]
        PROVE  i = j
    <3>1. CASE i \in DOMAIN turns /\ j \in DOMAIN turns
      BY <1>a, <2>3, <3>1 DEF TurnsAreRequests, InTalk
    <3>2. CASE i \notin DOMAIN turns /\ j \notin DOMAIN turns
      <4>1. i <= j /\ j <= i /\ i \in Int /\ j \in Int
        BY <1>a, <3>2
      <4> QED
        BY <4>1
    <3>3. CASE (i \in DOMAIN turns) # (j \in DOMAIN turns)
      BY <1>a, <2>3, <3>3
    <3> QED
      BY <3>1, <3>2, <3>3
  <2> QED
    BY <2>1, <2>2, <2>3, Zenon DEF TurnsAreRequests
<1>2. HeadIsChosen'
  <2> SUFFICES ASSUME NEW s \in Requests
               PROVE  /\ req'[s].pc \in Headless => req'[s].head = None
                      /\ req'[s].pc \notin Headless \cup {"refused"} => req'[s].head # None
    BY Zenon DEF HeadIsChosen
  <2>1. CASE s # r
    BY <2>1, <1>a, Zenon DEF HeadIsChosen, InTalk
  <2>2. CASE s = r
    BY <1>0, <1>a, <2>2 DEF Headless
  <2> QED
    BY <2>1, <2>2
<1>3. OneAtATime'
  <2> SUFFICES ASSUME NEW i \in DOMAIN turns', NEW j \in DOMAIN turns', i < j,
                      Talks(turns[i])', Slot(turns[i])' = Slot(turns[j])'
               PROVE  ~InProgress(turns[i])'
    BY DEF OneAtATime
  <2>1. i \in DOMAIN turns
    BY <1>a
  <2>2. CASE j \in DOMAIN turns
    <3>1. Talks(turns[i]) /\ Slot(turns[i]) = Slot(turns[j])
      BY <1>b, <2>1, <2>2
    <3>2. ~InProgress(turns[i])
      BY <2>1, <2>2, <3>1 DEF OneAtATime, InTalk
    <3> QED
      BY <1>b, <2>1, <3>2
  <2>3. CASE j \notin DOMAIN turns
    <3>1. Entered(r, q) /\ turns'[j] = r
      BY <1>a, <2>3
    <3>2. Slot(turns[j])' = <<q.agent, q.session>>
      BY <1>a, <3>1 DEF Slot
    <3>3. Slot(turns[i]) = <<q.agent, q.session>> /\ req[turns[i]].session # NoSession
      BY <1>b, <2>1, <3>2 DEF Talks
    <3>4. q.session # NoSession
      BY <3>3 DEF Slot
    <3>5. ~InProgress(turns[i])
      BY <1>a, <2>1, <3>1, <3>3, <3>4 DEF Entered
    <3> QED
      BY <1>b, <2>1, <3>5
  <2> QED
    BY <2>2, <2>3
<1>4. PinIsLast'
  <2> SUFFICES ASSUME NEW i \in DOMAIN turns', Talks(turns[i])', ~Early(turns[i])',
                      \A j \in DOMAIN turns' :
                         i < j /\ Slot(turns[i])' = Slot(turns[j])' => Early(turns[j])'
               PROVE  pins'[Slot(turns[i])'] = req'[turns'[i]].head
    BY DEF PinIsLast
  <2>1. i \in DOMAIN turns
    <3> SUFFICES ASSUME i \notin DOMAIN turns PROVE FALSE
      OBVIOUS
    <3>1. Entered(r, q) /\ turns'[i] = r
      BY <1>a
    <3>2. req'[turns'[i]] = q
      BY <1>a, <3>1
    <3>3. q.pc = "lookup"
      BY <1>0, <3>1, <3>2 DEF Talks
    <3> QED
      BY <3>2, <3>3 DEF Early, EarlyPCs
  <2>2. Talks(turns[i]) /\ ~Early(turns[i])
    BY <1>b, <2>1
  <2>3. ASSUME NEW j \in DOMAIN turns, i < j, Slot(turns[i]) = Slot(turns[j])
        PROVE  Early(turns[j])
    BY <1>a, <1>b, <2>1, <2>3
  <2>4. pins[Slot(turns[i])] = req[turns[i]].head
    BY <2>1, <2>2, <2>3, Zenon DEF PinIsLast, InTalk
  <2> QED
    BY <1>a, <1>b, <2>1, <2>4
<1>5. MissedThePin'
  <2> SUFFICES ASSUME NEW s \in Requests, req'[s].pc = "choose", Talks(s)'
               PROVE  pins'[Slot(s)'] \notin req'[s].usable
    BY DEF MissedThePin
  <2>1. s # r /\ req'[s] = req[s]
    BY <1>0, <1>a
  <2>2. Talks(s) /\ Slot(s)' = Slot(s)
    BY <2>1, Zenon DEF Talks, Slot
  <2>3. pins[Slot(s)] \notin req[s].usable
    BY <2>1, <2>2 DEF MissedThePin, InTalk
  <2> QED
    BY <1>a, <2>1, <2>2, <2>3
<1> QED
  BY <1>1, <1>2, <1>3, <1>4, <1>5 DEF InTalk

LEMMA TalkKept == Serial /\ IInv /\ InTalk /\ [Next]_vars => InTalk'
<1> SUFFICES ASSUME Serial, IInv, InTalk, [Next]_vars PROVE InTalk'
  OBVIOUS
<1>1. CASE UNCHANGED <<req, turns, pins>>
  BY <1>1 DEF InTalk, TurnsAreRequests, HeadIsChosen, OneAtATime, PinIsLast, MissedThePin,
              Talks, Early, Slot, InProgress
<1>2. ASSUME NEW r \in Requests, Walks(r) PROVE InTalk'
  <2>1. PICK q : /\ req' = [req EXCEPT ![r] = q]
                 /\ \/ Entered(r, q) \/ TurnedAway(r, q) \/ WentOn(r, q)
                    \/ GotHead(r, q) \/ Recorded(r, q)
    BY <1>2, Zenon DEF Walks
  <2>2. CASE Entered(r, q) \/ TurnedAway(r, q)
    BY <2>1, <2>2, EnteredInTalk
  <2>3. CASE WentOn(r, q) \/ GotHead(r, q) \/ Recorded(r, q)
    BY <2>1, <2>3, ResumedTurns, ResumedPins, ResumedMisses, Zenon DEF InTalk
  <2> QED
    BY <2>1, <2>2, <2>3
<1> QED
  BY <1>1, <1>2, StepWalks, Zenon DEF InTalk

LEMMA InitInTalk == Init => InTalk
<1> SUFFICES ASSUME Init PROVE InTalk
  OBVIOUS
<1>1. \A r \in Requests : req[r].pc = "idle" /\ req[r].head = None
  BY DEF Init, Idle
<1>2. DOMAIN turns = {}
  BY DEF Init
<1> QED
  BY <1>1, <1>2 DEF InTalk, TurnsAreRequests, HeadIsChosen, Headless, OneAtATime, PinIsLast,
                    MissedThePin

(* The turn that is given a head is given its predecessor's, if it may use   *)
(* that one.                                                                 *)
LEMMA HeadIsKept ==
  ASSUME IInv, InTalk, NEW i \in DOMAIN turns, NEW j \in DOMAIN turns, NEW q,
         req' = [req EXCEPT ![turns[j]] = q], GotHead(turns[j], q),
         Talks(turns[i]), Slot(turns[i]) = Slot(turns[j]), i < j, req[turns[i]].head # None,
         \A k \in DOMAIN turns :
            ~(i < k /\ k < j /\ Slot(turns[k]) = Slot(turns[i]) /\ req[turns[k]].head # None),
         req[turns[i]].head \in req[turns[j]].usable
  PROVE  q.head = req[turns[i]].head
<1>0. \A k \in DOMAIN turns : turns[k] \in Requests /\ k \in Int
  <2>1. turns \in Seq(Requests)
    BY DEF IInv, TypeOK
  <2> QED
    BY <2>1
<1>1. Early(turns[j]) /\ InProgress(turns[j]) /\ Talks(turns[j])
  BY DEF GotHead, Early, EarlyPCs, InProgress, Ended, Talks, Slot
<1>2. ASSUME NEW k \in DOMAIN turns, i < k, k < j, Slot(turns[k]) = Slot(turns[i])
      PROVE  Early(turns[k])
  <2>1. ~InProgress(turns[k])
    <3>1. Talks(turns[k])
      BY <1>2 DEF Talks, Slot
    <3> QED
      BY <1>2, <3>1 DEF OneAtATime, InTalk
  <2>2. req[turns[k]].pc \notin {"idle", "refused"}
    BY DEF TurnsAreRequests, InTalk
  <2>3. req[turns[k]].pc # "unrouted" => req[turns[k]].head # None
    BY <1>0, <2>1, <2>2 DEF InProgress, Ended, Headless, HeadIsChosen, InTalk
  <2> QED
    BY <1>2, <2>3 DEF Early, EarlyPCs
<1>3. pins[Slot(turns[i])] = req[turns[i]].head
  <2>1. req[turns[i]].pc # "unrouted"
    BY <1>0 DEF HeadIsChosen, Headless, InTalk
  <2> QED
    BY <1>1, <1>2, <2>1, LastTurn, Zenon
<1>4. CASE q.head = pins[Slot(turns[j])]
  BY <1>3, <1>4
<1>5. CASE req[turns[j]].pc = "choose"
  BY <1>0, <1>1, <1>3, <1>5 DEF MissedThePin, InTalk
<1> QED
  BY <1>4, <1>5 DEF GotHead

(* KeepsProvider, pair by pair.                                              *)
Successive(i, j) ==
    /\ req[turns[i]].head # None /\ req[turns[j]].head # None
    /\ i < j /\ Slot(turns[j]) = Slot(turns[i])
    /\ \A k \in DOMAIN turns :
          ~(i < k /\ k < j /\ Slot(turns[k]) = Slot(turns[i]) /\ req[turns[k]].head # None)

Keeps(i, j) ==
    Successive(i, j) /\ Talks(turns[i]) /\ req[turns[i]].head \in req[turns[j]].usable
    => req[turns[j]].head = req[turns[i]].head

AllKeep == \A i, j \in DOMAIN turns : Keeps(i, j)

LEMMA PairByPair == KeepsProvider <=> AllKeep
<1>1. ASSUME NEW i \in DOMAIN turns, NEW j \in DOMAIN turns
      PROVE  Follows(i, j) <=> Successive(i, j)
  BY DEF Follows, Successive
<1> QED
  BY <1>1 DEF KeepsProvider, AllKeep, Keeps, Talks

LEMMA EnteredKeeps ==
  ASSUME IInv, InTalk, AllKeep, NEW r \in Requests, NEW q, req' = [req EXCEPT ![r] = q],
         Entered(r, q) \/ TurnedAway(r, q)
  PROVE  AllKeep'
<1>0. Entered(r, q) /\ Strategy[q.agent] \in Sticky => q.head = None
  BY DEF Entered
<1>a. /\ req'[r] = q
      /\ \A i \in DOMAIN turns : turns[i] \in Requests /\ turns[i] # r /\ i \in Int
      /\ \A i \in DOMAIN turns : i \in DOMAIN turns' /\ turns'[i] = turns[i]
      /\ \A i \in DOMAIN turns' : i \in Int /\ \/ i \in DOMAIN turns
                                               \/ /\ Entered(r, q) /\ turns'[i] = r
                                                  /\ \A j \in DOMAIN turns' : j <= i
  BY EnteredFacts
<1>b. \A i \in DOMAIN turns :
         /\ req'[turns'[i]] = req[turns[i]]
         /\ Slot(turns[i])' = Slot(turns[i]) /\ Talks(turns[i])' = Talks(turns[i])
  <2> SUFFICES ASSUME NEW i \in DOMAIN turns
               PROVE  /\ req'[turns'[i]] = req[turns[i]]
                      /\ Slot(turns[i])' = Slot(turns[i]) /\ Talks(turns[i])' = Talks(turns[i])
    OBVIOUS
  <2>1. req'[turns'[i]] = req[turns[i]]
    BY EnteredFacts
  <2> QED
    BY <2>1, Zenon DEF Slot, Talks
<1> SUFFICES ASSUME NEW i \in DOMAIN turns', NEW j \in DOMAIN turns',
                    Successive(i, j)', Talks(turns[i])',
                    req'[turns'[i]].head \in req'[turns'[j]].usable
             PROVE  req'[turns'[j]].head = req'[turns'[i]].head
  BY DEF AllKeep, Keeps
<1>1. i \in DOMAIN turns
  BY <1>a DEF Successive
<1>2. j \in DOMAIN turns
  <2> SUFFICES ASSUME j \notin DOMAIN turns PROVE FALSE
    OBVIOUS
  <2>1. Entered(r, q) /\ turns'[j] = r /\ req'[turns'[j]] = q
    BY <1>a
  <2>2. req'[turns'[j]].agent = req'[turns'[i]].agent
    BY DEF Successive, Slot
  <2>3. Strategy[q.agent] \in Sticky
    BY <2>1, <2>2 DEF Talks
  <2> QED
    BY <1>0, <2>1, <2>3 DEF Successive
<1>3. Successive(i, j)
  BY <1>a, <1>b, <1>1, <1>2 DEF Successive
<1>4. Keeps(i, j)
  BY <1>1, <1>2 DEF AllKeep
<1> QED
  BY <1>b, <1>1, <1>2, <1>3, <1>4 DEF Keeps

LEMMA ResumedKeeps ==
  ASSUME IInv, InTalk, AllKeep, NEW r \in Requests, NEW q, req' = [req EXCEPT ![r] = q],
         WentOn(r, q) \/ GotHead(r, q) \/ Recorded(r, q)
  PROVE  AllKeep'
<1>a. turns' = turns /\ req'[r] = q /\ q.usable = req[r].usable
  BY ResumedFacts DEF WentOn, GotHead, Recorded, Resumed
<1>b. \A k \in DOMAIN turns : turns[k] \in Requests /\ k \in Int
  <2>1. turns \in Seq(Requests)
    BY DEF IInv, TypeOK
  <2> QED
    BY <2>1
<1>c. \A k \in DOMAIN turns :
         /\ Slot(turns[k])' = Slot(turns[k]) /\ Talks(turns[k])' = Talks(turns[k])
         /\ req'[turns'[k]].usable = req[turns[k]].usable
         /\ turns[k] # r => req'[turns'[k]].head = req[turns[k]].head
  <2> SUFFICES ASSUME NEW k \in DOMAIN turns
               PROVE  /\ Slot(turns[k])' = Slot(turns[k]) /\ Talks(turns[k])' = Talks(turns[k])
                      /\ req'[turns'[k]].usable = req[turns[k]].usable
                      /\ turns[k] # r => req'[turns'[k]].head = req[turns[k]].head
    OBVIOUS
  <2>1. turns[k] \in Requests /\ turns'[k] = turns[k]
    BY <1>a, <1>b
  <2>2. Slot(turns[k])' = Slot(turns[k]) /\ Talks(turns[k])' = Talks(turns[k])
    BY <2>1, ResumedFacts
  <2>3. /\ req'[turns[k]].usable = req[turns[k]].usable
        /\ turns[k] # r => req'[turns[k]] = req[turns[k]]
    BY <2>1, ResumedFacts
  <2> QED
    BY <2>1, <2>2, <2>3
<1>d. \A k \in DOMAIN turns :
         req[turns[k]].head # None => req'[turns'[k]].head = req[turns[k]].head
  <2> SUFFICES ASSUME NEW k \in DOMAIN turns, turns[k] = r, req[r].head # None
               PROVE  q.head = req[r].head
    BY <1>a, <1>c
  <2>1. ~GotHead(r, q)
    BY DEF GotHead, HeadIsChosen, Headless, InTalk
  <2> QED
    BY <2>1 DEF WentOn, Recorded
<1> SUFFICES ASSUME NEW i \in DOMAIN turns, NEW j \in DOMAIN turns,
                    Successive(i, j)', Talks(turns[i])',
                    req'[turns'[i]].head \in req'[turns'[j]].usable
             PROVE  req'[turns'[j]].head = req'[turns'[i]].head
  BY <1>a DEF AllKeep, Keeps
<1>1. /\ i < j /\ Slot(turns[j]) = Slot(turns[i]) /\ Talks(turns[i]) /\ Talks(turns[j])
      /\ req'[turns'[i]].head # None /\ req'[turns'[j]].head # None
  <2>1. i < j /\ Slot(turns[j]) = Slot(turns[i]) /\ Talks(turns[i])
    BY <1>c DEF Successive
  <2>2. Talks(turns[j])
    BY <2>1 DEF Talks, Slot
  <2>3. req'[turns'[i]].head # None /\ req'[turns'[j]].head # None
    BY DEF Successive
  <2> QED
    BY <2>1, <2>2, <2>3
<1>2. ASSUME NEW k \in DOMAIN turns, i < k, k < j, Slot(turns[k]) = Slot(turns[i])
      PROVE  req[turns[k]].head = None
  <2>1. req'[turns'[k]].head = None
    BY <1>a, <1>c, <1>2 DEF Successive
  <2> QED
    BY <1>d, <2>1
<1>3. CASE req[turns[i]].head # None /\ req[turns[j]].head # None
  <2>1. Successive(i, j)
    BY <1>1, <1>2, <1>3 DEF Successive
  <2>2. Keeps(i, j)
    BY DEF AllKeep
  <2>3. /\ req'[turns'[i]].head = req[turns[i]].head
        /\ req'[turns'[j]].head = req[turns[j]].head
    BY <1>d, <1>3
  <2> QED
    BY <1>1, <1>c, <2>1, <2>2, <2>3 DEF Keeps
<1>4. CASE req[turns[i]].head = None
  <2>1. turns[i] = r /\ GotHead(r, q)
    BY <1>1, <1>4, <1>a, <1>c DEF WentOn, Recorded
  <2>2. InProgress(turns[i])
    BY <2>1 DEF GotHead, InProgress, Ended
  <2> QED
    BY <1>1, <2>2 DEF OneAtATime, InTalk
<1>5. CASE req[turns[i]].head # None /\ req[turns[j]].head = None
  <2>1. turns[j] = r /\ GotHead(r, q)
    BY <1>1, <1>5, <1>a, <1>c DEF WentOn, Recorded
  <2>2. req'[turns'[i]].head = req[turns[i]].head /\ req'[turns'[j]].head = q.head
    BY <1>a, <1>d, <1>5, <2>1
  <2>3. req[turns[i]].head \in req[turns[j]].usable
    BY <1>c, <2>2
  <2>4. q.head = req[turns[i]].head
    BY <1>1, <1>2, <1>5, <2>1, <2>3, HeadIsKept
  <2> QED
    BY <2>2, <2>4
<1> QED
  BY <1>3, <1>4, <1>5

LEMMA ProviderKept == Serial /\ IInv /\ InTalk /\ AllKeep /\ [Next]_vars => AllKeep'
<1> SUFFICES ASSUME Serial, IInv, InTalk, AllKeep, [Next]_vars PROVE AllKeep'
  OBVIOUS
<1>1. CASE UNCHANGED <<req, turns, pins>>
  BY <1>1 DEF AllKeep, Keeps, Successive, Talks, Slot
<1>2. ASSUME NEW r \in Requests, Walks(r) PROVE AllKeep'
  <2>1. PICK q : /\ req' = [req EXCEPT ![r] = q]
                 /\ \/ Entered(r, q) \/ TurnedAway(r, q) \/ WentOn(r, q)
                    \/ GotHead(r, q) \/ Recorded(r, q)
    BY <1>2, Zenon DEF Walks
  <2>2. CASE Entered(r, q) \/ TurnedAway(r, q)
    BY <2>1, <2>2, EnteredKeeps
  <2>3. CASE WentOn(r, q) \/ GotHead(r, q) \/ Recorded(r, q)
    BY <2>1, <2>3, ResumedKeeps
  <2> QED
    BY <2>1, <2>2, <2>3
<1> QED
  BY <1>1, <1>2, StepWalks, Zenon DEF InTalk

(* "A conversation keeps its provider": when clients wait for one turn of a  *)
(* session before the next, a draining strategy leaves a session where it    *)
(* is for as long as that candidate is usable, whatever other sessions, the  *)
(* ring, the clock, the quota, the queues and the ceilings do meanwhile      *)
(* (strategy/mod.rs drain and assign_drained).                               *)
THEOREM ConversationsKeepTheirProvider ==
  ASSUME Serial
  PROVE  Spec => []KeepsProvider
<1> DEFINE Inv == IInv /\ InTalk /\ AllKeep
<1>1. Init => Inv
  <2>1. Init => AllKeep
    BY DEF Init, AllKeep
  <2> QED
    BY <2>1, InitIInv, InitInTalk
<1>2. Inv /\ [Next]_vars => Inv'
  BY NextIInv, TalkKept, ProviderKept, Zenon
<1>3. Inv => KeepsProvider
  BY PairByPair
<1> QED
  BY <1>1, <1>2, <1>3, PTL DEF Spec

-----------------------------------------------------------------------------
(* The ring: the positions of a candidate, and who was dealt one of them.    *)

Starts(a, p) == Shares(a, {q \in Candidates(a) : Before(a, q, p)}, Candidates(a))

LEMMA RouteIsFinite ==
  ASSUME NEW a \in Agents
  PROVE  IsFiniteSet(Candidates(a)) /\ Candidates(a) \subseteq Providers
<1>1. Route[a] \in Seq(Providers)
  BY RouteAssumption
<1>2. Candidates(a) \subseteq Providers
  BY <1>1 DEF Candidates
<1>3. PICK n \in Nat : DOMAIN Route[a] = 1..n
  BY <1>1
<1>4. IsFiniteSet(1..n)
  BY FS_Interval
<1> DEFINE f == [i \in 1..n |-> Route[a][i]]
<1>5. f \in Surjection(1..n, Candidates(a))
  BY <1>3 DEF Surjection, Candidates
<1> QED
  BY <1>2, <1>4, <1>5, FS_Surjection

(* What Shares computes: a sum, whichever candidate is taken first.          *)
Adds(f, a, S) ==
    /\ f \in [SUBSET S -> Nat]
    /\ \A T \in SUBSET S : Shares(a, T, S) = f[T]
    /\ \A T \in SUBSET S : \A p \in T : f[T] = Share(a, p, S) + f[T \ {p}]

LEMMA SumOfShares ==
  ASSUME NEW a, NEW S, IsFiniteSet(S), \A p \in S : Share(a, p, S) \in Nat
  PROVE  \E f : Adds(f, a, S)
<1> DEFINE any == [U \in SUBSET S |-> CHOOSE x \in U : TRUE]
           plus == [d \in S \X Nat |-> Share(a, d[1], S) + d[2]]
<1>1. \A U \in SUBSET S : U # {} => any[U] \in U
  OBVIOUS
<1>2. plus \in [S \X Nat -> Nat]
  OBVIOUS
<1>3. PICK g : Folds(g, S, Nat, 0, any, plus)
  <2>1. 0 \in Nat
    OBVIOUS
  <2> HIDE DEF any, plus
  <2> QED
    BY <1>1, <1>2, <2>1, FoldExists
<1>0. g \in [SUBSET S -> Nat]
  BY <1>3 DEF Folds
<1>4. ASSUME NEW U \in SUBSET S, U # {}
      PROVE  g[U] = Share(a, any[U], S) + g[U \ {any[U]}]
  <2>1. any[U] \in S /\ g[U \ {any[U]}] \in Nat
    BY <1>0, <1>1, <1>4
  <2> QED
    BY <1>3, <1>4, <2>1 DEF Folds
<1>5. g[{}] = 0
  BY <1>3 DEF Folds
<1>6. ASSUME NEW T \in SUBSET S PROVE Shares(a, T, S) = g[T]
  <2> DEFINE Solves(k) ==
               k = [U \in SUBSET T |->
                      IF U = {} THEN 0
                      ELSE Share(a, CHOOSE x \in U : TRUE, S) + k[U \ {CHOOSE x \in U : TRUE}]]
             k0 == CHOOSE k : Solves(k)
             part == [U \in SUBSET T |-> g[U]]
  <2>1. Shares(a, T, S) = k0[T]
    BY DEF Shares, MapThenSumSet, MapThenFoldSet
  <2>2. Solves(part)
    <3>1. ASSUME NEW U \in SUBSET T, U # {}
          PROVE  part[U] = Share(a, CHOOSE x \in U : TRUE, S) + part[U \ {CHOOSE x \in U : TRUE}]
      BY <1>4, <3>1
    <3>2. part[{}] = 0
      BY <1>5
    <3> QED
      BY <3>1, <3>2
  <2>3. Solves(k0)
    <3> HIDE DEF Solves, part
    <3> QED
      BY <2>2, Zenon
  <2> HIDE DEF k0
  <2>4. ASSUME NEW U \in SUBSET T
        PROVE  k0[U] = IF U = {} THEN 0 ELSE Share(a, any[U], S) + k0[U \ {any[U]}]
    BY <2>3
  <2> DEFINE Q == {U \in SUBSET T : k0[U] = g[U]}
  <2>5. ASSUME NEW U \in SUBSET T, \A x \in U : U \ {x} \in Q PROVE U \in Q
    <3>1. CASE U = {}
      BY <1>5, <2>4, <3>1
    <3>2. CASE U # {}
      <4>1. any[U] \in U /\ U \in SUBSET S
        BY <1>1, <3>2
      <4>2. k0[U \ {any[U]}] = g[U \ {any[U]}]
        BY <2>5, <4>1
      <4> HIDE DEF any
      <4> QED
        BY <1>4, <2>4, <3>2, <4>1, <4>2
    <3> QED
      BY <3>1, <3>2
  <2>6. SUBSET T \subseteq Q
    <3>1. IsFiniteSet(T)
      BY FS_Subset
    <3> HIDE DEF Q
    <3> QED
      BY <2>5, <3>1, SubsetsByRemoval
  <2> QED
    BY <2>1, <2>6
<1>7. \A T \in SUBSET S : \A p \in T : g[T] = Share(a, p, S) + g[T \ {p}]
  <2> DEFINE Q == {T \in SUBSET S : \A p \in T : g[T] = Share(a, p, S) + g[T \ {p}]}
  <2>1. ASSUME NEW T \in SUBSET S, \A x \in T : T \ {x} \in Q PROVE T \in Q
    <3> SUFFICES ASSUME NEW p \in T PROVE g[T] = Share(a, p, S) + g[T \ {p}]
      OBVIOUS
    <3>1. PICK x : x = any[T]
      OBVIOUS
    <3>2. x \in T /\ g[T] = Share(a, x, S) + g[T \ {x}]
      BY <1>1, <1>4, <3>1
    <3>3. CASE x # p
      <4>1. g[T \ {x}] = Share(a, p, S) + g[(T \ {x}) \ {p}]
        <5>1. T \ {x} \in Q /\ p \in T \ {x}
          BY <2>1, <3>2, <3>3
        <5> QED
          BY <5>1
      <4>2. g[T \ {p}] = Share(a, x, S) + g[(T \ {p}) \ {x}]
        <5>1. T \ {p} \in Q /\ x \in T \ {p}
          BY <2>1, <3>2, <3>3
        <5> QED
          BY <5>1
      <4>3. (T \ {x}) \ {p} = (T \ {p}) \ {x} /\ g[(T \ {p}) \ {x}] \in Nat
        BY <1>0
      <4>4. Share(a, p, S) \in Nat /\ Share(a, x, S) \in Nat
        BY <3>2
      <4>5. g[T] = Share(a, x, S) + (Share(a, p, S) + g[(T \ {p}) \ {x}])
        BY <3>2, <4>1, <4>3
      <4> QED
        BY <4>2, <4>3, <4>4, <4>5
    <3> QED
      BY <3>2, <3>3
  <2>2. SUBSET S \subseteq Q
    <3> HIDE DEF Q
    <3>1. \A U \in SUBSET S : (\A x \in U : U \ {x} \in Q) => U \in Q
      BY <2>1
    <3> QED
      BY <3>1, SubsetsByRemoval
  <2> QED
    BY <2>2
<1> QED
  BY <1>0, <1>6, <1>7 DEF Adds

(* A candidate's weight after dividing by the gcd: at least one.             *)
LEMMA SharesArePositive ==
  ASSUME NEW a \in Agents, NEW p \in Candidates(a)
  PROVE  Share(a, p, Candidates(a)) \in Nat \ {0}
<1> DEFINE C == Candidates(a)
           weights == {Weighs(a, q) : q \in C}
           divisors == {d \in 1..Max(weights) : \A q \in C : Weighs(a, q) % d = 0}
<1>1. \A q \in C : Weighs(a, q) \in Nat \ {0}
  BY WeightAssumption DEF Weighs
<1>2. IsFiniteSet(weights)
  <2> DEFINE f == [q \in C |-> Weighs(a, q)]
  <2>1. f \in Surjection(C, weights)
    BY DEF Surjection
  <2> HIDE DEF C, weights, f
  <2>2. IsFiniteSet(C)
    BY RouteIsFinite DEF C
  <2> QED
    BY <2>1, <2>2, FS_Surjection
<1>3. Weighs(a, p) \in weights /\ weights \subseteq Int
  BY <1>1
<1>4. Max(weights) \in Nat \ {0}
  <2>1. Max(weights) \in weights
    <3> HIDE DEF weights
    <3> QED
      BY <1>2, <1>3, MaxIsGreatest
  <2> QED
    BY <1>1, <2>1
<1>5. 1 \in divisors
  <2>1. \A q \in C : Weighs(a, q) % 1 = 0
    BY <1>1
  <2> HIDE DEF weights
  <2> QED
    BY <1>4, <2>1
<1>6. IsFiniteSet(divisors) /\ divisors \subseteq Int
  <2>1. IsFiniteSet(1..Max(weights)) /\ 1..Max(weights) \subseteq Int
    BY <1>4, FS_Interval
  <2>2. divisors \subseteq 1..Max(weights)
    OBVIOUS
  <2> HIDE DEF divisors, weights
  <2> QED
    BY <2>1, <2>2, FS_Subset
<1>7. Max(divisors) \in divisors
  <2> HIDE DEF divisors
  <2> QED
    BY <1>5, <1>6, MaxIsGreatest
<1>8. PICK g : g = Gcd(a, C) /\ g \in Nat \ {0} /\ Weighs(a, p) % g = 0
  <2>1. Gcd(a, C) = Max(divisors)
    BY DEF Gcd
  <2> HIDE DEF weights
  <2>2. Max(divisors) \in 1..Max(weights) /\ Weighs(a, p) % Max(divisors) = 0
    BY <1>7
  <2> HIDE DEF divisors
  <2> QED
    BY <1>4, <2>1, <2>2
<1>9. PICK w \in Nat \ {0} : w = Weighs(a, p) /\ w % g = 0
  BY <1>1, <1>8
<1>10. w \div g \in Nat /\ w = g * (w \div g) + (w % g)
  BY <1>8, <1>9
<1>11. w \div g # 0
  BY <1>8, <1>9, <1>10
<1> QED
  BY <1>8, <1>9, <1>10, <1>11 DEF Share

(* The order of a route.                                                     *)
LEMMA RouteOrder ==
  ASSUME NEW a \in Agents
  PROVE  /\ \A p, q \in Candidates(a) : p = q \/ Before(a, p, q) \/ Before(a, q, p)
         /\ \A p : ~Before(a, p, p)
         /\ \A p, q, r : Before(a, p, q) /\ Before(a, q, r) => Before(a, p, r)
<1>1. /\ DOMAIN Route[a] \subseteq Nat
      /\ \A i, j \in DOMAIN Route[a] : Route[a][i] = Route[a][j] => i = j
  BY RouteAssumption
<1>2. \A p, q \in Candidates(a) : p = q \/ Before(a, p, q) \/ Before(a, q, p)
  <2> SUFFICES ASSUME NEW i \in DOMAIN Route[a], NEW j \in DOMAIN Route[a]
               PROVE  \/ Route[a][i] = Route[a][j]
                      \/ Before(a, Route[a][i], Route[a][j])
                      \/ Before(a, Route[a][j], Route[a][i])
    BY DEF Candidates
  <2>1. i = j \/ i < j \/ j < i
    BY <1>1
  <2> QED
    BY <2>1 DEF Before
<1>3. \A p : ~Before(a, p, p)
  BY <1>1 DEF Before
<1>4. ASSUME NEW p, NEW q, NEW r, Before(a, p, q), Before(a, q, r) PROVE Before(a, p, r)
  <2>1. PICK i, j \in DOMAIN Route[a] : i < j /\ Route[a][i] = p /\ Route[a][j] = q
    BY <1>4 DEF Before
  <2>2. PICK k, l \in DOMAIN Route[a] : k < l /\ Route[a][k] = q /\ Route[a][l] = r
    BY <1>4 DEF Before
  <2>3. j = k /\ i < l
    BY <1>1, <2>1, <2>2
  <2> QED
    BY <2>1, <2>2, <2>3 DEF Before
<1> QED
  BY <1>2, <1>3, <1>4

(* The ring of an agent: every candidate has a share of it, beginning after  *)
(* the shares of those before it, and the shares end where the ring does.    *)
LEMMA RingOrder ==
  ASSUME NEW a \in Agents
  PROVE  /\ Round[a] \in Nat
         /\ \A p \in Candidates(a) : /\ Due[a][p] = Share(a, p, Candidates(a))
                                     /\ Due[a][p] \in Nat \ {0} /\ Starts(a, p) \in Nat
                                     /\ Starts(a, p) + Due[a][p] <= Round[a]
         /\ \A p, q \in Candidates(a) :
               Before(a, p, q) => Starts(a, p) + Due[a][p] <= Starts(a, q)
<1> DEFINE C == Candidates(a)
           Earlier(p) == {q \in C : Before(a, q, p)}
<1>1. IsFiniteSet(C)
  BY RouteIsFinite
<1>2. \A p \in C : Share(a, p, C) \in Nat \ {0}
  BY SharesArePositive
<1> HIDE DEF C
<1>0. PICK f : Adds(f, a, C)
  BY <1>1, <1>2, SumOfShares
<1> USE DEF C
<1>3. /\ f \in [SUBSET C -> Nat]
      /\ \A T \in SUBSET C : Shares(a, T, C) = f[T]
      /\ \A T \in SUBSET C : \A p \in T : f[T] = Share(a, p, C) + f[T \ {p}]
  BY <1>0 DEF Adds
<1>4. \A p \in C : Due[a][p] = Share(a, p, C) /\ Due[a][p] \in Nat \ {0}
  BY <1>2 DEF Due
<1>5. Round[a] = f[C] /\ \A p \in C : Starts(a, p) = f[Earlier(p)]
  BY <1>3 DEF Round, Starts
<1>6. ASSUME NEW U \in SUBSET C, NEW W \in SUBSET U PROVE f[W] <= f[U]
  <2> DEFINE Q == {V \in SUBSET U : \A X \in SUBSET V : f[X] <= f[V]}
  <2>1. ASSUME NEW V \in SUBSET U, \A x \in V : V \ {x} \in Q PROVE V \in Q
    <3> SUFFICES ASSUME NEW X \in SUBSET V, X # V PROVE f[X] <= f[V]
      BY <1>3
    <3>1. PICK x \in V : X \subseteq V \ {x}
      OBVIOUS
    <3>2. f[X] <= f[V \ {x}]
      BY <2>1, <3>1
    <3>3. f[V] = Share(a, x, C) + f[V \ {x}] /\ Share(a, x, C) \in Nat
      BY <1>2, <1>3
    <3>4. f[X] \in Nat /\ f[V \ {x}] \in Nat
      BY <1>3
    <3> QED
      BY <3>2, <3>3, <3>4
  <2>2. SUBSET U \subseteq Q
    <3>1. IsFiniteSet(U)
      BY <1>1, FS_Subset
    <3> HIDE DEF Q
    <3> QED
      BY <2>1, <3>1, SubsetsByRemoval
  <2> QED
    BY <2>2
<1>7. ASSUME NEW p \in C, NEW U \in SUBSET C, Earlier(p) \cup {p} \subseteq U
      PROVE  Starts(a, p) + Due[a][p] <= f[U]
  <2>1. (Earlier(p) \cup {p}) \ {p} = Earlier(p)
    BY RouteOrder
  <2>2. f[Earlier(p) \cup {p}] = Share(a, p, C) + f[Earlier(p)]
    BY <1>3, <2>1
  <2>3. f[Earlier(p) \cup {p}] <= f[U]
    BY <1>6, <1>7, Zenon
  <2>4. f[Earlier(p)] \in Nat /\ f[U] \in Nat /\ Share(a, p, C) \in Nat
    BY <1>2, <1>3
  <2>5. Starts(a, p) = f[Earlier(p)] /\ Due[a][p] = Share(a, p, C)
    BY <1>4, <1>5
  <2> HIDE DEF C, Earlier
  <2> QED
    BY <2>2, <2>3, <2>4, <2>5
<1>8. \A p \in C : Starts(a, p) \in Nat /\ Starts(a, p) + Due[a][p] <= Round[a]
  BY <1>3, <1>5, <1>7
<1>9. ASSUME NEW p \in C, NEW q \in C, Before(a, p, q)
      PROVE  Starts(a, p) + Due[a][p] <= Starts(a, q)
  <2>1. Earlier(p) \cup {p} \subseteq Earlier(q)
    BY <1>9, RouteOrder
  <2> QED
    BY <1>5, <1>7, <2>1
<1> QED
  BY <1>3, <1>4, <1>5, <1>8, <1>9

(* The ring, seen from the requests.                                         *)
Fresh(a) == {r \in Requests : req[r].agent = a /\ req[r].by = "ring"}

Picked(a, p) == {r \in Fresh(a) : req[r].head = p}

Undecided == {"idle", "lookup", "choose"}

(* Who chose from the ring has a ring, and nobody chooses twice.             *)
ByIsHow ==
    \A r \in Requests :
       /\ req[r].pc \in Undecided => req[r].by = "none"
       /\ req[r].by = "ring" => Strategy[req[r].agent] = "roundrobin"

(* The cursor counts the sessions the ring placed, and a candidate has as    *)
(* many of them as its positions were passed.                                *)
RingStands ==
    \A a \in Agents : Strategy[a] = "roundrobin" =>
       /\ cursor = Cardinality(Fresh(a))
       /\ \A p \in Candidates(a) :
             Cardinality(Picked(a, p)) = Dealt(Due[a][p], Starts(a, p), Round[a], cursor)

(* One agent has a ring, and nothing prunes it: neither a grant list nor a   *)
(* ceiling.  (The cursor is one for all agents, and a pruned ring is another *)
(* ring: then no share is promised.)                                         *)
OneOpenRing ==
    /\ \A a, b \in Agents : Strategy[a] = "roundrobin" /\ Strategy[b] = "roundrobin" => a = b
    /\ \A k \in Keys, over \in LimitSets :
          Strategy[Client[k].agent] = "roundrobin" =>
             Usable(k, over) = Candidates(Client[k].agent)

(* A step of r, to its next record q, that leaves the ring alone.            *)
BesideTheRing(r, q) ==
    /\ \/ q.agent = req[r].agent /\ q.by = req[r].by /\ q.head = req[r].head
       \/ req[r].by # "ring" /\ q.by # "ring"
    /\ q.pc \in Undecided => q.by = "none"

FromTheRing(r, q) ==
    /\ req[r].pc = "choose" /\ req[r].by = "none"
    /\ q.pc \notin Undecided /\ q.by = "ring"
    /\ q.agent = req[r].agent /\ q.agent \in Agents
    /\ Strategy[q.agent] = "roundrobin"
    /\ q.head \in req[r].usable
    /\ IsRingTurn(q.agent, q.head, req[r].usable, cursor)

Beside(r) == \E q : req' = [req EXCEPT ![r] = q] /\ BesideTheRing(r, q)
Draws(r) == \E q : req' = [req EXCEPT ![r] = q] /\ FromTheRing(r, q)

LEMMA ResolveBeside ==
  ASSUME IInv, ByIsHow, NEW r \in Requests, NEW c \in Calls, Resolve(r, c)
  PROVE  Beside(r)
<1> DEFINE a == Client[c.key].agent
           usable == Usable(c.key, limits)
           resolved == [req[r] EXCEPT !.key = c.key, !.agent = a, !.session = c.session,
                                      !.seen = limits, !.usable = usable]
<1>1. req[r] \in Request /\ req[r].pc = "idle" /\ req[r].by = "none"
  BY DEF IInv, TypeOK, ByIsHow, Undecided, Resolve
<1>2. CASE Admit(r, c)
  <2>1. CASE Strategy[a] \in Sticky
    <3> DEFINE q == [resolved EXCEPT !.pc = "lookup"]
    <3>1. req' = [req EXCEPT ![r] = q]
      BY <1>2, <2>1 DEF Admit
    <3>2. q.by = "none"
      BY <1>1 DEF Request
    <3> HIDE DEF q
    <3>3. BesideTheRing(r, q)
      BY <1>1, <3>2 DEF BesideTheRing
    <3> QED
      BY <3>1, <3>3, Zenon DEF Beside
  <2>2. CASE Strategy[a] \notin Sticky
    <3>1. PICK p : req' = [req EXCEPT ![r] =
                              [resolved EXCEPT !.pc = "seat", !.head = p, !.by = "order"]]
      BY <1>2, <2>2 DEF Admit
    <3> DEFINE q == [resolved EXCEPT !.pc = "seat", !.head = p, !.by = "order"]
    <3>2. req' = [req EXCEPT ![r] = q]
      BY <3>1
    <3>3. q.by = "order" /\ q.pc = "seat"
      BY <1>1 DEF Request
    <3> HIDE DEF q
    <3>4. BesideTheRing(r, q)
      BY <1>1, <3>3 DEF BesideTheRing, Undecided
    <3> QED
      BY <3>2, <3>4, Zenon DEF Beside
  <2> QED
    BY <2>1, <2>2
<1>3. CASE Refuse(r, c)
  <2> DEFINE q == [req[r] EXCEPT !.pc = "refused", !.answer = Refusal(c, limits)]
  <2>1. req' = [req EXCEPT ![r] = q]
    BY <1>3, Zenon DEF Refuse
  <2>2. q.by = "none"
    BY <1>1 DEF Request
  <2> HIDE DEF q
  <2>3. BesideTheRing(r, q)
    BY <1>1, <2>2 DEF BesideTheRing
  <2> QED
    BY <2>1, <2>3, Zenon DEF Beside
<1> QED
  BY <1>2, <1>3 DEF Resolve

(* A step that only moves a request on, and one that settles its head.       *)
LEMMA MovesOnBeside ==
  ASSUME IInv, ByIsHow, NEW r \in Requests, NEW q, req' = [req EXCEPT ![r] = q],
         q.agent = req[r].agent, q.by = req[r].by, q.head = req[r].head,
         q.pc \in Undecided => req[r].pc \in Undecided
  PROVE  Beside(r)
<1>1. BesideTheRing(r, q)
  BY DEF BesideTheRing, ByIsHow
<1> QED
  BY <1>1, Zenon DEF Beside

LEMMA PcBeside ==
  ASSUME IInv, ByIsHow, NEW r \in Requests, NEW pc, req' = [req EXCEPT ![r].pc = pc],
         pc \in Undecided => req[r].pc \in Undecided
  PROVE  Beside(r)
<1> DEFINE q == [req[r] EXCEPT !.pc = pc]
<1>1. req[r] \in Request
  BY DEF IInv, TypeOK
<1>2. req' = [req EXCEPT ![r] = q]
  BY <1>1
<1>3. /\ q.agent = req[r].agent /\ q.by = req[r].by /\ q.head = req[r].head
      /\ q.pc = pc
  BY <1>1 DEF Request
<1> HIDE DEF q
<1> QED
  BY <1>2, <1>3, MovesOnBeside

LEMMA SettledBeside ==
  ASSUME IInv, ByIsHow, NEW r \in Requests, req[r].pc \in Undecided,
         NEW pc, pc \notin Undecided, NEW p, NEW how, how # "ring",
         req' = [req EXCEPT ![r] = [@ EXCEPT !.pc = pc, !.head = p, !.by = how]]
  PROVE  Beside(r)
<1> DEFINE q == [req[r] EXCEPT !.pc = pc, !.head = p, !.by = how]
<1>1. req[r] \in Request /\ req[r].by = "none"
  BY DEF IInv, TypeOK, ByIsHow
<1>2. req' = [req EXCEPT ![r] = q]
  OBVIOUS
<1>3. q.by = how /\ q.pc = pc
  BY <1>1 DEF Request
<1> HIDE DEF q
<1>4. BesideTheRing(r, q)
  BY <1>1, <1>3 DEF BesideTheRing
<1> QED
  BY <1>2, <1>4, Zenon DEF Beside

LEMMA LookupBeside ==
  ASSUME IInv, ByIsHow, NEW r \in Requests, Lookup(r)
  PROVE  Beside(r)
<1>1. req[r].pc = "lookup"
  BY DEF Lookup
<1>2. CASE req' = [req EXCEPT ![r].pc = "choose"]
  BY <1>1, <1>2, PcBeside DEF Undecided
<1>3. CASE req' = [req EXCEPT ![r] =
                      [@ EXCEPT !.pc = "seat", !.head = pins[Slot(r)], !.by = "pin"]]
  <2>1. "pin" # "ring" /\ "seat" \notin Undecided /\ req[r].pc \in Undecided
    BY <1>1 DEF Undecided
  <2> QED
    BY <1>3, <2>1, SettledBeside
<1> QED
  BY <1>2, <1>3, Zenon DEF Lookup

LEMMA ChooseBeside ==
  ASSUME IInv, ByIsHow, NEW r \in Requests, Choose(r)
  PROVE  (cursor' = cursor /\ Beside(r)) \/ (cursor' = cursor + 1 /\ Draws(r))
<1>1. /\ req[r] \in Request /\ req[r].pc = "choose" /\ req[r].pc \in Undecided
      /\ req[r].agent \in Agents /\ req[r].by = "none"
  <2>1. req[r].pc = "choose"
    BY Zenon DEF Choose, ChooseFromRing, ChooseByWindow, ChooseByQuota, QuotaUnread,
                 ReadGauge, ChooseLeastBusy
  <2>2. req[r] \in Request /\ req[r].agent \in Agents
    BY <2>1, Facts
  <2> QED
    BY <2>1, <2>2 DEF ByIsHow, Undecided
<1>2. CASE ChooseFromRing(r)
  <2>1. PICK p \in req[r].usable :
           /\ IsRingTurn(req[r].agent, p, req[r].usable, cursor)
           /\ Settle(r, p, "ring")
    BY <1>2 DEF ChooseFromRing
  <2> DEFINE q == [req[r] EXCEPT !.pc = "assign", !.head = p, !.by = "ring"]
  <2>2. req' = [req EXCEPT ![r] = q]
    BY <2>1 DEF Settle
  <2>3. q.pc = "assign" /\ q.head = p /\ q.by = "ring" /\ q.agent = req[r].agent
    BY <1>1 DEF Request
  <2>4. cursor' = cursor + 1 /\ Strategy[req[r].agent] = "roundrobin"
    BY <1>2, Zenon DEF ChooseFromRing
  <2> HIDE DEF q
  <2>5. FromTheRing(r, q)
    BY <1>1, <2>1, <2>3, <2>4 DEF FromTheRing, Undecided
  <2> QED
    BY <2>2, <2>4, <2>5, Zenon DEF Draws
<1>3. ASSUME NEW p, NEW how, how # "ring", Settle(r, p, how) PROVE Beside(r)
  <2>1. req' = [req EXCEPT ![r] = [@ EXCEPT !.pc = "assign", !.head = p, !.by = how]]
    BY <1>3 DEF Settle
  <2>2. "assign" \notin Undecided
    BY DEF Undecided
  <2> QED
    BY <1>1, <1>3, <2>1, <2>2, SettledBeside
<1>4. "window" # "ring" /\ "quota" # "ring" /\ "queue" # "ring"
  OBVIOUS
<1>5. CASE ChooseByWindow(r)
  <2>1. (\E p : Settle(r, p, "window")) /\ cursor' = cursor
    BY <1>5, Zenon DEF ChooseByWindow, shared
  <2> QED
    BY <1>3, <1>4, <2>1, Zenon
<1>6. CASE ChooseByQuota(r)
  <2>1. (\E p : Settle(r, p, "quota")) /\ cursor' = cursor
    BY <1>6, Zenon DEF ChooseByQuota, shared
  <2> QED
    BY <1>3, <1>4, <2>1, Zenon
<1>7. CASE ChooseLeastBusy(r)
  <2>1. (\E p : Settle(r, p, "queue")) /\ cursor' = cursor
    BY <1>7, Zenon DEF ChooseLeastBusy, shared
  <2> QED
    BY <1>3, <1>4, <2>1, Zenon
<1>8. CASE ReadGauge(r)
  <2>1. PICK p : req' = [req EXCEPT ![r].gauges[p] = inflight[req[r].agent][p]]
    BY <1>8, Zenon DEF ReadGauge
  <2> DEFINE q == [req[r] EXCEPT !.gauges[p] = inflight[req[r].agent][p]]
  <2>2. req' = [req EXCEPT ![r] = q]
    BY <1>1, <2>1
  <2>3. q.agent = req[r].agent /\ q.by = req[r].by /\ q.head = req[r].head
    BY <1>1 DEF Request
  <2>4. cursor' = cursor
    BY <1>8, Zenon DEF ReadGauge, shared
  <2> HIDE DEF q
  <2> QED
    BY <1>1, <2>2, <2>3, <2>4, MovesOnBeside
<1>9. CASE QuotaUnread(r)
  <2> DEFINE q == [req[r] EXCEPT !.pc = "unrouted", !.answer = "routing_error"]
  <2>1. req' = [req EXCEPT ![r] = q]
    BY <1>9 DEF QuotaUnread
  <2>2. /\ q.agent = req[r].agent /\ q.by = req[r].by /\ q.head = req[r].head
        /\ q.pc \notin Undecided
    BY <1>1 DEF Request, Undecided
  <2>3. cursor' = cursor
    BY <1>9, Zenon DEF QuotaUnread, shared
  <2> HIDE DEF q
  <2> QED
    BY <2>1, <2>2, <2>3, MovesOnBeside
<1> QED
  BY <1>2, <1>5, <1>6, <1>7, <1>8, <1>9, Zenon DEF Choose

LEMMA RestBeside ==
  ASSUME IInv, ByIsHow, NEW r \in Requests,
         Assign(r) \/ TakeSeat(r) \/ Respond(r) \/ EndStream(r) \/ HangUp(r)
  PROVE  Beside(r) /\ cursor' = cursor
<1>1. CASE Assign(r) \/ EndStream(r) \/ HangUp(r)
  <2>1. cursor' = cursor
    BY <1>1, Zenon DEF Assign, EndStream, HangUp
  <2>2. PICK pc \in {"seat", "answered", "gone"} : req' = [req EXCEPT ![r].pc = pc]
    BY <1>1 DEF Assign, EndStream, HangUp
  <2>3. pc \notin Undecided
    BY DEF Undecided
  <2> QED
    BY <2>1, <2>2, <2>3, PcBeside
<1>2. CASE TakeSeat(r)
  <2>1. PICK p : req' = [req EXCEPT ![r] =
                            [@ EXCEPT !.pc = "calling", !.at = p,
                                      !.asked = req[r].asked \cup {p}]]
    BY <1>2, Zenon DEF TakeSeat
  <2> DEFINE q == [req[r] EXCEPT !.pc = "calling", !.at = p, !.asked = req[r].asked \cup {p}]
  <2>2. req' = [req EXCEPT ![r] = q]
    BY <2>1
  <2>3. /\ q.agent = req[r].agent /\ q.by = req[r].by /\ q.head = req[r].head
        /\ q.pc \notin Undecided
    BY DEF IInv, TypeOK, Request, Undecided
  <2>4. cursor' = cursor
    BY <1>2, Zenon DEF TakeSeat
  <2> HIDE DEF q
  <2> QED
    BY <2>2, <2>3, <2>4, MovesOnBeside
<1>3. CASE Respond(r)
  <2>1. PICK how, late : Answer(r, how, late)
    BY <1>3, Zenon DEF Respond
  <2>2. cursor' = cursor
    BY <2>1, Zenon DEF Answer
  <2>3. CASE req' = [req EXCEPT ![r].pc = "seat"]
    <3>1. "seat" \notin Undecided
      BY DEF Undecided
    <3> QED
      BY <2>2, <2>3, <3>1, PcBeside
  <2>4. CASE \E pc \in {"streaming", "answered"} : \E answer :
                req' = [req EXCEPT ![r] = [@ EXCEPT !.pc = pc, !.answer = answer]]
    <3>1. PICK pc \in {"streaming", "answered"} : \E answer :
                req' = [req EXCEPT ![r] = [@ EXCEPT !.pc = pc, !.answer = answer]]
      BY <2>4
    <3>2. PICK answer :
                req' = [req EXCEPT ![r] = [@ EXCEPT !.pc = pc, !.answer = answer]]
      BY <3>1
    <3> DEFINE q == [req[r] EXCEPT !.pc = pc, !.answer = answer]
    <3>3. req' = [req EXCEPT ![r] = q]
      BY <3>2
    <3>4. /\ q.agent = req[r].agent /\ q.by = req[r].by /\ q.head = req[r].head
          /\ q.pc \notin Undecided
      BY DEF IInv, TypeOK, Request, Undecided
    <3> HIDE DEF q
    <3> QED
      BY <2>2, <3>3, <3>4, MovesOnBeside
  <2> QED
    BY <2>1, <2>3, <2>4 DEF Answer
<1> QED
  BY <1>1, <1>2, <1>3

LEMMA StepOfTheRing ==
  ASSUME IInv, ByIsHow, [Next]_vars
  PROVE  \/ cursor' = cursor /\ (req' = req \/ \E r \in Requests : Beside(r))
         \/ cursor' = cursor + 1 /\ \E r \in Requests : Draws(r)
<1>1. ASSUME NEW r \in Requests, NEW c \in Calls, Resolve(r, c)
      PROVE  cursor' = cursor /\ Beside(r)
  <2>1. cursor' = cursor
    BY <1>1, Zenon DEF Resolve
  <2> QED
    BY <1>1, <2>1, ResolveBeside
<1>2. ASSUME NEW r \in Requests, Lookup(r) PROVE cursor' = cursor /\ Beside(r)
  <2>1. cursor' = cursor
    BY <1>2, Zenon DEF Lookup, shared
  <2> QED
    BY <1>2, <2>1, LookupBeside
<1>3. ASSUME Publish(limits') \/ Tick \/ UNCHANGED vars PROVE cursor' = cursor /\ req' = req
  BY <1>3, Zenon DEF Publish, Tick, vars
<1>4. CASE \E r \in Requests, c \in Calls : Resolve(r, c)
  BY <1>1, <1>4, Zenon
<1>5. CASE \E r \in Requests : Proceed(r) \/ HangUp(r)
  <2>1. PICK r \in Requests : Proceed(r) \/ HangUp(r)
    BY <1>5
  <2>2. CASE Lookup(r)
    BY <1>2, <2>2, Zenon
  <2>3. CASE Choose(r)
    BY <2>3, ChooseBeside, Zenon
  <2>4. CASE Assign(r) \/ TakeSeat(r) \/ Respond(r) \/ EndStream(r) \/ HangUp(r)
    BY <2>4, RestBeside, Zenon
  <2> QED
    BY <2>1, <2>2, <2>3, <2>4, Zenon DEF Proceed
<1>6. CASE \E over \in LimitSets : Publish(over)
  <2>1. cursor' = cursor /\ req' = req
    BY <1>6, Zenon DEF Publish
  <2> QED
    BY <2>1
<1> QED
  BY <1>3, <1>4, <1>5, <1>6, Zenon DEF Next

LEMMA PickedAreCounted ==
  ASSUME NEW a, NEW p
  PROVE  /\ IsFiniteSet(Fresh(a)) /\ IsFiniteSet(Picked(a, p))
         /\ Cardinality(Fresh(a)) \in Nat /\ Cardinality(Picked(a, p)) \in Nat
<1>1. Fresh(a) \subseteq Requests /\ Picked(a, p) \subseteq Requests
  BY DEF Fresh, Picked
<1> QED
  BY <1>1, RequestsAssumption, FS_Subset, FS_CardinalityType

LEMMA BesideKeeps ==
  ASSUME IInv, ByIsHow, RingStands, cursor' = cursor, NEW r \in Requests, Beside(r)
  PROVE  ByIsHow' /\ RingStands'
<1>1. PICK q : req' = [req EXCEPT ![r] = q] /\ BesideTheRing(r, q)
  BY DEF Beside
<1>2. req \in [Requests -> Request]
  BY DEF IInv, TypeOK
<1>3. req'[r] = q /\ \A s \in Requests : s # r => req'[s] = req[s]
  BY <1>1, <1>2
<1>4. ByIsHow'
  <2> SUFFICES ASSUME NEW s \in Requests
               PROVE  /\ req'[s].pc \in Undecided => req'[s].by = "none"
                      /\ req'[s].by = "ring" => Strategy[req'[s].agent] = "roundrobin"
    BY DEF ByIsHow, Undecided
  <2>1. CASE s # r
    BY <1>3, <2>1 DEF ByIsHow
  <2>2. CASE s = r
    BY <1>1, <1>3, <2>2 DEF ByIsHow, BesideTheRing
  <2> QED
    BY <2>1, <2>2
<1>5. ASSUME NEW a PROVE Fresh(a)' = Fresh(a)
  BY <1>1, <1>3 DEF Fresh, BesideTheRing
<1>6. ASSUME NEW a, NEW p PROVE Picked(a, p)' = Picked(a, p)
  BY <1>1, <1>3 DEF Fresh, Picked, BesideTheRing
<1>7. RingStands'
  BY <1>5, <1>6, Zenon DEF RingStands
<1> QED
  BY <1>4, <1>7

LEMMA DrawKeeps ==
  ASSUME OneOpenRing, IInv, ByIsHow, RingStands,
         cursor' = cursor + 1, NEW r \in Requests, Draws(r)
  PROVE  ByIsHow' /\ RingStands'
<1>1. PICK q : req' = [req EXCEPT ![r] = q] /\ FromTheRing(r, q)
  BY DEF Draws
<1>2. req \in [Requests -> Request] /\ cursor \in Nat
  BY DEF IInv, TypeOK
<1>3. req'[r] = q /\ \A s \in Requests : s # r => req'[s] = req[s]
  BY <1>1, <1>2
<1>4. ByIsHow'
  <2> SUFFICES ASSUME NEW s \in Requests
               PROVE  /\ req'[s].pc \in Undecided => req'[s].by = "none"
                      /\ req'[s].by = "ring" => Strategy[req'[s].agent] = "roundrobin"
    BY DEF ByIsHow, Undecided
  <2>1. CASE s # r
    BY <1>3, <2>1 DEF ByIsHow
  <2>2. CASE s = r
    BY <1>1, <1>3, <2>2 DEF FromTheRing
  <2> QED
    BY <2>1, <2>2
<1>5. PICK a \in Agents : a = q.agent /\ a = req[r].agent /\ Strategy[a] = "roundrobin"
  BY <1>1 DEF FromTheRing
<1>6. PICK p : p = q.head
  OBVIOUS
<1>7. req[r].usable = Candidates(a)
  <2>1. req[r].pc \notin {"idle", "refused"}
    BY <1>1 DEF FromTheRing
  <2>2. /\ req[r].key \in Keys /\ a = Client[req[r].key].agent
        /\ req[r].usable = Usable(req[r].key, req[r].seen)
        /\ req[r].seen \in LimitSets \cup {{}}
    BY <1>2, <1>5, <2>1 DEF IInv, Remembers, Sound, Resolved, Request
  <2>3. limits \in LimitSets
    BY DEF IInv, TypeOK
  <2>4. Usable(req[r].key, limits) = Candidates(a)
    BY <1>5, <2>2, <2>3 DEF OneOpenRing
  <2>5. CASE req[r].seen \in LimitSets
    BY <1>5, <2>2, <2>5 DEF OneOpenRing
  <2>6. CASE req[r].seen = {}
    <3>1. Granted(req[r].key) \subseteq Candidates(a)
      BY <2>2 DEF Granted
    <3> QED
      BY <2>2, <2>4, <2>6, <3>1 DEF Usable
  <2> QED
    BY <2>2, <2>5, <2>6
<1>8. p \in Candidates(a) /\ IsRingTurn(a, p, Candidates(a), cursor)
  BY <1>1, <1>5, <1>6, <1>7 DEF FromTheRing
<1>9. /\ r \notin Fresh(a) /\ Fresh(a)' = Fresh(a) \cup {r}
      /\ r \notin Picked(a, p) /\ Picked(a, p)' = Picked(a, p) \cup {r}
  BY <1>1, <1>3, <1>5, <1>6 DEF Fresh, Picked, FromTheRing
<1>10. ASSUME NEW o, o # p PROVE Picked(a, o)' = Picked(a, o)
  BY <1>1, <1>3, <1>5, <1>6, <1>10 DEF Fresh, Picked, FromTheRing
<1>11. /\ cursor = Cardinality(Fresh(a))
       /\ \A o \in Candidates(a) :
             Cardinality(Picked(a, o)) = Dealt(Due[a][o], Starts(a, o), Round[a], cursor)
  BY <1>5 DEF RingStands
<1>12. Cardinality(Fresh(a))' = cursor'
  <2>1. Cardinality(Fresh(a) \cup {r}) = Cardinality(Fresh(a)) + 1
    BY <1>9, PickedAreCounted, FS_AddElement
  <2> QED
    BY <1>9, <1>11, <2>1
<1>13. ASSUME NEW o \in Candidates(a)
       PROVE  Cardinality(Picked(a, o))' = Dealt(Due[a][o], Starts(a, o), Round[a], cursor')
  <2> DEFINE Hit(x) == /\ Starts(a, x) <= cursor % Round[a]
                       /\ cursor % Round[a] < Starts(a, x) + Due[a][x]
  <2>1. ASSUME NEW x \in Candidates(a)
        PROVE  /\ Round[a] \in Nat
               /\ Due[a][x] = Share(a, x, Candidates(a))
               /\ Due[a][x] \in Nat \ {0} /\ Starts(a, x) \in Nat
               /\ Starts(a, x) + Due[a][x] <= Round[a]
    BY RingOrder
  <2>2. Hit(p)
    BY <1>8, <2>1 DEF IsRingTurn, Starts, Round
  <2>3. o # p => ~Hit(o)
    <3> SUFFICES ASSUME o # p, Hit(o) PROVE FALSE
      OBVIOUS
    <3>1. Before(a, p, o) \/ Before(a, o, p)
      BY <1>8, RouteOrder
    <3>2. \/ Starts(a, p) + Due[a][p] <= Starts(a, o)
          \/ Starts(a, o) + Due[a][o] <= Starts(a, p)
      BY <1>8, <3>1, RingOrder
    <3>3. PICK m \in Nat : m = cursor % Round[a]
      <4>1. Round[a] \in Nat \ {0}
        BY <2>1
      <4> QED
        BY <1>2, <4>1, Euclid
    <3> QED
      BY <1>8, <2>1, <2>2, <3>2, <3>3
  <2>4. CASE o = p
    <3>1. Cardinality(Picked(a, p) \cup {r}) = Cardinality(Picked(a, p)) + 1
      BY <1>9, PickedAreCounted, FS_AddElement
    <3>2. Dealt(Due[a][p], Starts(a, p), Round[a], cursor + 1)
            = Dealt(Due[a][p], Starts(a, p), Round[a], cursor) + 1
      <4>1. PICK d \in Nat \ {0}, s \in Nat, R \in Nat, n \in Nat :
               /\ d = Due[a][p] /\ s = Starts(a, p) /\ R = Round[a] /\ s + d <= R /\ n = cursor
               /\ s <= n % R /\ n % R < s + d
        BY <1>2, <1>8, <2>1, <2>2
      <4>2. s + d <= R /\ s <= n % R /\ n % R < s + d
        BY <4>1
      <4>3. Dealt(d, s, R, n + 1) = Dealt(d, s, R, n) + 1
        BY <4>2, DealtOne
      <4> QED
        BY <4>1, <4>3
    <3> QED
      BY <1>8, <1>9, <1>11, <2>4, <3>1, <3>2
  <2>5. CASE o # p
    <3>1. Dealt(Due[a][o], Starts(a, o), Round[a], cursor + 1)
            = Dealt(Due[a][o], Starts(a, o), Round[a], cursor)
      <4>1. PICK d \in Nat \ {0}, s \in Nat, R \in Nat, n \in Nat :
               /\ d = Due[a][o] /\ s = Starts(a, o) /\ R = Round[a] /\ s + d <= R /\ n = cursor
               /\ ~(s <= n % R /\ n % R < s + d)
        BY <1>2, <2>1, <2>3, <2>5
      <4>2. s + d <= R /\ ~(s <= n % R /\ n % R < s + d)
        BY <4>1
      <4>3. Dealt(d, s, R, n + 1) = Dealt(d, s, R, n)
        BY <4>2, DealtOne
      <4> QED
        BY <4>1, <4>3
    <3> QED
      BY <1>10, <1>11, <2>5, <3>1
  <2> QED
    BY <2>4, <2>5
<1>14. RingStands'
  <2> SUFFICES ASSUME NEW b \in Agents, Strategy[b] = "roundrobin"
               PROVE  /\ cursor' = Cardinality(Fresh(b))'
                      /\ \A o \in Candidates(b) :
                            Cardinality(Picked(b, o))'
                              = Dealt(Due[b][o], Starts(b, o), Round[b], cursor')
    BY DEF RingStands
  <2>1. a = b
    BY <1>5 DEF OneOpenRing
  <2> QED
    BY <1>12, <1>13, <2>1
<1> QED
  BY <1>4, <1>14

LEMMA RingKept ==
  ASSUME OneOpenRing, IInv, ByIsHow, RingStands, [Next]_vars
  PROVE  ByIsHow' /\ RingStands'
<1>1. CASE cursor' = cursor /\ req' = req
  BY <1>1 DEF ByIsHow, RingStands, Fresh, Picked
<1>2. CASE cursor' = cursor /\ \E r \in Requests : Beside(r)
  BY <1>2, BesideKeeps
<1>3. CASE cursor' = cursor + 1 /\ \E r \in Requests : Draws(r)
  BY <1>3, DrawKeeps
<1> QED
  BY <1>1, <1>2, <1>3, StepOfTheRing

LEMMA InitRing == Init => ByIsHow /\ RingStands
<1> SUFFICES ASSUME Init PROVE ByIsHow /\ RingStands
  OBVIOUS
<1>1. cursor = 0 /\ \A r \in Requests : req[r].by = "none"
  BY DEF Init, Idle
<1>2. \A a, p : Fresh(a) = {} /\ Picked(a, p) = {}
  BY <1>1 DEF Fresh, Picked
<1>3. Cardinality({}) = 0
  BY FS_EmptySet
<1>4. ASSUME NEW a \in Agents, NEW p \in Candidates(a)
      PROVE  Dealt(Due[a][p], Starts(a, p), Round[a], 0) = 0
  <2>1. /\ Due[a][p] \in Nat \ {0} /\ Starts(a, p) \in Nat /\ Round[a] \in Nat
        /\ Starts(a, p) + Due[a][p] <= Round[a]
    BY RingOrder
  <2>2. Round[a] \in Nat \ {0}
    BY <2>1
  <2>3. 0 \div Round[a] = 0 /\ 0 % Round[a] = 0
    <3>1. /\ 0 \div Round[a] \in Nat /\ 0 % Round[a] \in Nat
          /\ 0 % Round[a] < Round[a]
          /\ Round[a] * (0 \div Round[a]) + (0 % Round[a]) = 0
      BY <2>2, Euclid
    <3>2. Round[a] * 0 + 0 = 0
      BY <2>2
    <3> QED
      BY <2>2, <3>1, <3>2, EuclidUnique
  <2> QED
    BY <2>1, <2>3 DEF Dealt
<1> QED
  BY <1>1, <1>2, <1>3, <1>4 DEF ByIsHow, RingStands

LEMMA RingIsShared ==
  ASSUME ByIsHow, RingStands, IInv
  PROVE  RingShare
<1> SUFFICES ASSUME NEW a \in Agents, NEW p \in Candidates(a)
             PROVE  LET new == Cardinality(Fresh(a))
                        picked == Cardinality(Picked(a, p))
                    IN  /\ (new \div Round[a]) * Due[a][p] <= picked
                        /\ picked <= ((new + Round[a] - 1) \div Round[a]) * Due[a][p]
  BY Zenon DEF RingShare, Fresh, Picked
<1>1. /\ Due[a][p] \in Nat \ {0} /\ Starts(a, p) \in Nat /\ Round[a] \in Nat
      /\ Starts(a, p) + Due[a][p] <= Round[a]
  BY RingOrder
<1>2. CASE Strategy[a] = "roundrobin"
  <2>1. /\ Cardinality(Fresh(a)) = cursor /\ cursor \in Nat
        /\ Cardinality(Picked(a, p)) = Dealt(Due[a][p], Starts(a, p), Round[a], cursor)
    BY <1>2 DEF RingStands, IInv, TypeOK
  <2> QED
    BY <1>1, <2>1, DealtBounds
<1>3. CASE Strategy[a] # "roundrobin"
  <2>1. Fresh(a) = {} /\ Picked(a, p) = {}
    BY <1>3 DEF Fresh, Picked, ByIsHow
  <2>2. Cardinality({}) = 0 /\ 0 \in Nat
    BY FS_EmptySet
  <2>3. Dealt(Due[a][p], Starts(a, p), Round[a], 0) \in Nat
    BY <1>1, <2>2, DealtOne
  <2>4. PICK R \in Nat \ {0} : R = Round[a]
    BY <1>1
  <2>5. 0 \div R = 0
    BY <2>4
  <2>6. (0 + R - 1) \div R = 0
    BY <2>4
  <2>7. 0 * Due[a][p] = 0
    BY <1>1
  <2> QED
    BY <2>1, <2>2, <2>4, <2>5, <2>6, <2>7
<1> QED
  BY <1>2, <1>3

(* weighted_next and its cursor: whatever requests come, end and hang up in  *)
(* what order, the new sessions of the one agent that has a ring are spread  *)
(* by weight, for every route, every weights and every number of requests.   *)
THEOREM TheRingIsShared ==
  ASSUME OneOpenRing
  PROVE  Spec => []RingShare
<1> DEFINE Inv == IInv /\ ByIsHow /\ RingStands
<1>1. Init => Inv
  BY InitIInv, InitRing
<1>2. Inv /\ [Next]_vars => Inv'
  BY NextIInv, RingKept
<1>3. Inv => RingShare
  BY RingIsShared
<1> QED
  BY <1>1, <1>2, <1>3, PTL DEF Spec
=============================================================================
