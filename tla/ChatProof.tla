------------------------------ MODULE ChatProof ------------------------------
(***************************************************************************)
(* Proofs about ChatToMessages, for any tools, threshold and data lines:    *)
(* for as long as the upstream has kept to its grammar (polite) nothing is  *)
(* lost, the usage is told once, and the converter implements Messages.     *)
(*                                                                          *)
(* None of the three is inductive, since the converter speaks ahead of its  *)
(* client.  The invariant is about the client there will be when it has     *)
(* been told all that is on its way (Told): every event fits the client it  *)
(* will find (Fitting), and of that last client it says what blocks it      *)
(* knows (Placed), and that what it heard, with what is held back, is all   *)
(* that was said (Heeds).  A part of the converter (Speak, CallTool,        *)
(* FinishReason ...) is then a lemma about one more event, or a few, at the *)
(* end; handing an event over takes one from the beginning.                 *)
(***************************************************************************)
EXTENDS ChatToMessages, SharedLemmas

-----------------------------------------------------------------------------
(* The client.                                                               *)

(* What a client knows of an answer, and what it knows after one more event. *)
Client == [phase |-> view.phase, live |-> view.live, heard |-> heard, named |-> named,
           bill |-> bill]

After(g, e) ==
    [phase |-> IF e.type = "message_start" THEN "begun"
               ELSE IF e.type = "message_delta" THEN "told"
               ELSE IF e.type = "message_stop" THEN "over"
               ELSE IF e.type = "error" THEN "failed" ELSE g.phase,
     live  |-> IF e.type = "start" THEN g.live \cup {e.index}
               ELSE IF e.type = "stop" THEN g.live \ {e.index} ELSE g.live,
     heard |-> IF e.type # "delta" THEN g.heard
               ELSE [g.heard EXCEPT ![g.named[e.index]] = @ \o e.pieces],
     named |-> IF e.type # "start" THEN g.named
               ELSE [i \in DOMAIN g.named \cup {e.index} |->
                       IF i = e.index THEN e.source ELSE g.named[i]],
     bill  |-> IF e.type = "message_delta" THEN Append(g.bill, e.usage) ELSE g.bill]

(* The first n pieces of a source.                                           *)
Whole(s, n) == [i \in 1..n |-> <<s, i>>]

(* What a client may be told next.                                           *)
Fitting(g, e) ==
    \/ e.type = "message_start" /\ g.phase = "idle"
    \/ /\ e.type = "start" /\ g.phase = "begun"
       /\ e.index \in Indices \ DOMAIN g.named /\ e.source \in Sources
    \/ /\ e.type = "delta" /\ g.phase = "begun" /\ e.index \in g.live
       /\ \E n, m \in Nat :
             /\ n <= m
             /\ g.heard[g.named[e.index]] = Whole(g.named[e.index], n)
             /\ g.heard[g.named[e.index]] \o e.pieces = Whole(g.named[e.index], m)
    \/ e.type = "stop" /\ g.phase = "begun" /\ e.index \in g.live
    \/ e.type = "message_delta" /\ g.phase = "begun" /\ g.live = {} /\ e.usage \in Nat
    \/ e.type = "message_stop" /\ g.phase = "told"
    \/ e.type = "error" /\ g.phase # "failed"

(* What holds of a client that was told nothing else.                        *)
Hears(g) ==
    /\ DOMAIN g.heard = Sources /\ g.heard = [s \in Sources |-> g.heard[s]]
    /\ \A s \in Sources : \E n \in Nat : g.heard[s] = Whole(s, n)

Bills(g) ==
    /\ g.bill \in Seq(Nat) /\ Len(g.bill) <= 1
    /\ g.phase \in {"idle", "begun"} => g.bill = <<>>
    /\ g.phase \in {"told", "over"} => Len(g.bill) = 1

Sane(g) ==
    /\ Hears(g) /\ Bills(g)
    /\ g.live \subseteq DOMAIN g.named
    /\ \A i \in DOMAIN g.named : g.named[i] \in Sources

(* No source is heard less of later.                                         *)
Grows(g, h) == \A s \in Sources : Len(g.heard[s]) \in 0..Len(h.heard[s])

(* The first n pieces are n, and the next one after them makes them n + 1.   *)
LEMMA WholeLength ==
    ASSUME NEW s, NEW n \in Nat
    PROVE  /\ Whole(s, n) \in Seq({s} \X Nat) /\ Len(Whole(s, n)) = n
           /\ Append(Whole(s, n), <<s, n + 1>>) = Whole(s, n + 1)
<1>1. Whole(s, n) \in Seq({s} \X Nat) /\ Len(Whole(s, n)) = n
  BY DEF Whole
<1>2. Whole(s, n + 1) \in Seq({s} \X Nat) /\ Len(Whole(s, n + 1)) = n + 1
  BY DEF Whole
<1>3. Append(Whole(s, n), <<s, n + 1>>) \in Seq({s} \X Nat)
  BY <1>1
<1>4. \A i \in 1..n + 1 : Append(Whole(s, n), <<s, n + 1>>)[i] = Whole(s, n + 1)[i]
  BY <1>1 DEF Whole
<1>5. Len(Append(Whole(s, n), <<s, n + 1>>)) = n + 1
  BY <1>1
<1> QED
  BY <1>1, <1>2, <1>3, <1>4, <1>5

(* Different numbers of pieces of a source are different sequences.          *)
LEMMA WholesDiffer ==
    ASSUME NEW s, NEW n \in Nat, NEW m \in Nat, Whole(s, n) = Whole(s, m)
    PROVE  n = m
<1>1. Len(Whole(s, n)) = n /\ Len(Whole(s, m)) = m
  BY WholeLength
<1> QED
  BY <1>1

(* One event, told to a client that may be told it.                          *)
LEMMA ToldOne ==
    ASSUME NEW g, NEW e, Sane(g), Fitting(g, e)
    PROVE  Sane(After(g, e)) /\ Grows(g, After(g, e))
<1> DEFINE h == After(g, e)
<1>1. /\ h.live = IF e.type = "start" THEN g.live \cup {e.index}
                  ELSE IF e.type = "stop" THEN g.live \ {e.index} ELSE g.live
      /\ h.named = IF e.type # "start" THEN g.named
                   ELSE [i \in DOMAIN g.named \cup {e.index} |->
                           IF i = e.index THEN e.source ELSE g.named[i]]
      /\ h.heard = IF e.type # "delta" THEN g.heard
                   ELSE [g.heard EXCEPT ![g.named[e.index]] = @ \o e.pieces]
      /\ h.bill = IF e.type = "message_delta" THEN Append(g.bill, e.usage) ELSE g.bill
  BY DEF After
<1>2. h.phase = IF e.type = "message_start" THEN "begun"
                ELSE IF e.type = "message_delta" THEN "told"
                ELSE IF e.type = "message_stop" THEN "over"
                ELSE IF e.type = "error" THEN "failed" ELSE g.phase
  BY DEF After
<1> HIDE DEF h
<1>3. h.live \subseteq DOMAIN h.named /\ \A i \in DOMAIN h.named : h.named[i] \in Sources
  <2>1. CASE e.type = "start"
    BY <1>1, <2>1 DEF Sane, Fitting
  <2>2. CASE e.type # "start"
    BY <1>1, <2>2 DEF Sane
  <2> QED
    BY <2>1, <2>2
<1>4. Bills(h)
  <2>1. CASE e.type = "message_delta"
    <3>1. g.phase = "begun" /\ e.usage \in Nat
      BY <2>1 DEF Fitting
    <3>2. g.bill = <<>>
      BY <3>1 DEF Sane, Bills
    <3>3. h.bill = Append(<<>>, e.usage) /\ h.phase = "told"
      BY <1>1, <1>2, <2>1, <3>2
    <3> QED
      BY <3>1, <3>3 DEF Bills
  <2>2. CASE e.type = "message_start"
    BY <1>1, <1>2, <2>2 DEF Sane, Bills, Fitting
  <2>3. CASE e.type = "message_stop"
    BY <1>1, <1>2, <2>3 DEF Sane, Bills, Fitting
  <2>4. CASE e.type = "error"
    BY <1>1, <1>2, <2>4 DEF Sane, Bills
  <2>5. CASE e.type \in {"start", "delta", "stop"}
    BY <1>1, <1>2, <2>5 DEF Sane, Bills
  <2> QED
    BY <2>1, <2>2, <2>3, <2>4, <2>5 DEF Fitting
<1>5. Hears(h) /\ Grows(g, h)
  <2>1. CASE e.type # "delta"
    <3>1. h.heard = g.heard
      BY <1>1, <2>1
    <3>2. \A s \in Sources : Len(g.heard[s]) \in Nat
      BY WholeLength DEF Sane, Hears
    <3> QED
      BY <3>1, <3>2 DEF Sane, Hears, Grows
  <2>2. CASE e.type = "delta"
    <3>0. PICK s : s = g.named[e.index]
      OBVIOUS
    <3>1. s \in Sources
      BY <2>2, <3>0 DEF Fitting, Sane
    <3>2. PICK n, m \in Nat : /\ n <= m /\ g.heard[s] = Whole(s, n)
                              /\ g.heard[s] \o e.pieces = Whole(s, m)
      BY <2>2, <3>0 DEF Fitting
    <3>3. h.heard = [g.heard EXCEPT ![s] = Whole(s, m)]
      BY <1>1, <2>2, <3>0, <3>2
    <3>4. DOMAIN g.heard = Sources
      BY DEF Sane, Hears
    <3>5. /\ h.heard = [r \in Sources |-> h.heard[r]] /\ DOMAIN h.heard = Sources
          /\ \A r \in Sources : h.heard[r] = IF r = s THEN Whole(s, m) ELSE g.heard[r]
      BY <3>1, <3>3, <3>4
    <3>6. Hears(h)
      BY <3>5, <3>2 DEF Sane, Hears
    <3>7. \A r \in Sources : Len(g.heard[r]) \in Nat
      BY WholeLength DEF Sane, Hears
    <3>8. Len(g.heard[s]) = n /\ Len(h.heard[s]) = m
      BY <3>1, <3>2, <3>5, WholeLength
    <3> QED
      BY <3>2, <3>5, <3>6, <3>7, <3>8 DEF Grows
  <2> QED
    BY <2>1, <2>2
<1> QED
  BY <1>3, <1>4, <1>5 DEF Sane, h

-----------------------------------------------------------------------------
(* What is on its way to the client.                                         *)

(* The events of out, told to client k, make it g.                           *)
Leads(p, k, out, g) ==
    /\ p[0] = k /\ p[Len(out)] = g
    /\ \A i \in 1..Len(out) : Fitting(p[i - 1], out[i]) /\ p[i] = After(p[i - 1], out[i])
    /\ \A i \in 0..Len(out) : Grows(p[i], g)

Told(k, out, g) == \E p : Leads(p, k, out, g)

(* A client hears no less than itself.                                       *)
LEMMA SaneGrows ==
    ASSUME NEW g, Sane(g)
    PROVE  Grows(g, g) /\ \A s \in Sources : Len(g.heard[s]) \in Nat
<1>1. \A s \in Sources : Len(g.heard[s]) \in Nat
  BY WholeLength DEF Sane, Hears
<1> QED
  BY <1>1 DEF Grows

(* A client that is told nothing stays what it is.                           *)
LEMMA ToldNothing ==
    ASSUME NEW k, Sane(k)
    PROVE  Told(k, <<>>, k) /\ \A g : Told(k, <<>>, g) => g = k
<1>1. Leads([i \in {0} |-> k], k, <<>>, k)
  BY SaneGrows DEF Leads
<1>2. Told(k, <<>>, k)
  BY <1>1 DEF Told
<1>3. ASSUME NEW g, Told(k, <<>>, g) PROVE g = k
  BY <1>3 DEF Told, Leads
<1> QED
  BY <1>2, <1>3

(* One fitting event more at the end of what is told.                        *)
LEMMA ToldMore ==
    ASSUME NEW k, NEW S, NEW out \in Seq(S), NEW g, Told(k, out, g), Sane(g),
           NEW e \in S, Fitting(g, e)
    PROVE  Told(k, Append(out, e), After(g, e))
<1>1. PICK p : Leads(p, k, out, g)
  BY DEF Told
<1>2. PICK h : h = After(g, e)
  OBVIOUS
<1>3. Sane(h) /\ Grows(g, h)
  BY <1>2, ToldOne
<1>4. PICK n \in Nat : n = Len(out)
  OBVIOUS
<1>5. PICK o : o = Append(out, e)
  OBVIOUS
<1>6. Len(o) = n + 1 /\ o[n + 1] = e /\ \A i \in 1..n : o[i] = out[i]
  BY <1>4, <1>5
<1> DEFINE q == [i \in 0..n + 1 |-> IF i = n + 1 THEN h ELSE p[i]]
<1>7. q[n + 1] = h /\ \A i \in 0..n : q[i] = p[i]
  BY <1>4
<1> HIDE DEF q
<1>8. p[0] = k /\ p[n] = g
  BY <1>1, <1>4 DEF Leads
<1>9. ASSUME NEW i \in 1..n + 1
      PROVE  Fitting(q[i - 1], o[i]) /\ q[i] = After(q[i - 1], o[i])
  <2>1. CASE i = n + 1
    <3>1. q[i - 1] = g /\ o[i] = e /\ q[i] = h
      BY <1>6, <1>7, <1>8, <2>1
    <3> QED
      BY <1>2, <3>1
  <2>2. CASE i # n + 1
    <3>1. i \in 1..n /\ i - 1 \in 0..n /\ i \in 0..n
      BY <2>2
    <3>2. q[i - 1] = p[i - 1] /\ o[i] = out[i] /\ q[i] = p[i]
      BY <1>6, <1>7, <3>1
    <3> QED
      BY <1>1, <1>4, <3>1, <3>2 DEF Leads
  <2> QED
    BY <2>1, <2>2
<1>10. ASSUME NEW i \in 0..n + 1 PROVE Grows(q[i], h)
  <2>1. CASE i = n + 1
    BY <1>3, <1>7, <2>1, SaneGrows
  <2>2. CASE i # n + 1
    <3>1. i \in 0..n
      BY <2>2
    <3>2. q[i] = p[i] /\ Grows(p[i], g)
      BY <1>1, <1>4, <1>7, <3>1 DEF Leads
    <3>3. \A s \in Sources : Len(h.heard[s]) \in Nat /\ Len(g.heard[s]) \in Nat
      BY <1>3, SaneGrows
    <3>4. ASSUME NEW s \in Sources PROVE Len(p[i].heard[s]) \in 0..Len(h.heard[s])
      <4>1. Len(p[i].heard[s]) \in 0..Len(g.heard[s]) /\ Len(g.heard[s]) \in 0..Len(h.heard[s])
        BY <1>3, <3>2 DEF Grows
      <4>2. PICK x, y, z : /\ x = Len(p[i].heard[s]) /\ y = Len(g.heard[s])
                           /\ z = Len(h.heard[s])
        OBVIOUS
      <4>3. y \in Nat /\ z \in Nat
        BY <3>3, <4>2
      <4>4. x \in 0..y /\ y \in 0..z
        BY <4>1, <4>2, Zenon
      <4>5. x \in 0..z
        BY <4>3, <4>4
      <4> QED
        BY <4>2, <4>5, Zenon
    <3> QED
      BY <3>2, <3>4 DEF Grows
  <2> QED
    BY <2>1, <2>2
<1>11. q[0] = k
  BY <1>7, <1>8
<1>12. Leads(q, k, o, h)
  BY <1>6, <1>7, <1>9, <1>10, <1>11 DEF Leads
<1> QED
  BY <1>2, <1>5, <1>12 DEF Told

(* The first of what is told fits, and the rest is told to the client it     *)
(* leaves.                                                                   *)
LEMMA ToldNext ==
    ASSUME NEW k, NEW S, NEW out \in Seq(S), out # <<>>, NEW g, Told(k, out, g)
    PROVE  Fitting(k, Head(out)) /\ Told(After(k, Head(out)), Tail(out), g)
<1>1. PICK p : Leads(p, k, out, g)
  BY DEF Told
<1>2. PICK n \in Nat : n + 1 = Len(out)
  <2>1. Len(out) \in Nat /\ Len(out) # 0
    OBVIOUS
  <2> QED
    BY <2>1
<1>3. PICK o : o = Tail(out)
  OBVIOUS
<1>4. Len(o) = n /\ Head(out) = out[1] /\ \A i \in 1..n : o[i] = out[i + 1]
  BY <1>2, <1>3
<1> DEFINE q == [i \in 0..n |-> p[i + 1]]
<1>5. \A i \in 0..n : q[i] = p[i + 1]
  OBVIOUS
<1> HIDE DEF q
<1>6. /\ p[0] = k /\ p[n + 1] = g /\ \A i \in 0..n + 1 : Grows(p[i], g)
      /\ \A i \in 1..n + 1 : Fitting(p[i - 1], out[i]) /\ p[i] = After(p[i - 1], out[i])
  BY <1>1, <1>2 DEF Leads
<1>7. Fitting(k, out[1]) /\ p[1] = After(k, out[1])
  <2>1. 1 \in 1..n + 1 /\ 1 - 1 = 0
    OBVIOUS
  <2>2. Fitting(p[1 - 1], out[1]) /\ p[1] = After(p[1 - 1], out[1])
    BY <1>6, <2>1
  <2> QED
    BY <1>6, <2>1, <2>2
<1>8. ASSUME NEW i \in 1..n
      PROVE  Fitting(q[i - 1], o[i]) /\ q[i] = After(q[i - 1], o[i])
  <2>1. i + 1 \in 1..n + 1 /\ (i + 1) - 1 = i /\ (i - 1) + 1 = i /\ i - 1 \in 0..n /\ i \in 0..n
    OBVIOUS
  <2>2. q[i - 1] = p[i] /\ q[i] = p[i + 1] /\ o[i] = out[i + 1]
    <3>1. q[i - 1] = p[(i - 1) + 1]
      BY <1>5, <2>1
    <3> QED
      BY <1>4, <1>5, <2>1, <3>1
  <2>3. Fitting(p[(i + 1) - 1], out[i + 1]) /\ p[i + 1] = After(p[(i + 1) - 1], out[i + 1])
    BY <1>6, <2>1
  <2> QED
    BY <2>1, <2>2, <2>3
<1>9. q[0] = p[1] /\ q[n] = g
  <2>1. 0 \in 0..n /\ n \in 0..n /\ 0 + 1 = 1
    OBVIOUS
  <2> QED
    BY <1>5, <1>6, <2>1
<1>10. \A i \in 0..n : Grows(q[i], g)
  BY <1>5, <1>6
<1>11. Leads(q, p[1], o, g)
  BY <1>4, <1>8, <1>9, <1>10 DEF Leads
<1>12. Told(p[1], o, g)
  BY <1>11 DEF Told
<1> QED
  BY <1>3, <1>4, <1>7, <1>12

(* However much it is told, a client loses nothing it has heard.             *)
LEMMA ToldGrows ==
    ASSUME NEW k, NEW S, NEW out \in Seq(S), NEW g, Told(k, out, g)
    PROVE  Grows(k, g)
<1>1. PICK p : Leads(p, k, out, g)
  BY DEF Told
<1>2. 0 \in 0..Len(out)
  OBVIOUS
<1> QED
  BY <1>1, <1>2 DEF Leads

-----------------------------------------------------------------------------
(* The converter.                                                            *)

(* The types of what the converter keeps and yields.                         *)
Piece == Sources \X Nat

Event ==
    [type : {"start"}, index : Nat, source : Sources]
    \cup [type : {"delta"}, index : Nat, pieces : Seq(Piece)]
    \cup [type : {"stop"}, index : Nat]
    \cup [type : {"message_delta"}, usage : Nat]
    \cup [type : {"message_start", "message_stop", "error"}]

ToolState ==
    [at : Nat, id : BOOLEAN, name : BOOLEAN, started : BOOLEAN, pending : Seq(Piece),
     blanks : Nat, aborted : BOOLEAN]

ToolMap == UNION {[T -> ToolState] : T \in SUBSET Tools}

Converter ==
    [next : Nat, begun : BOOLEAN, block : Voices \cup {None}, index : Nat, tools : ToolMap,
     open : SUBSET Nat, finished : BOOLEAN, pending : BOOLEAN, usage : Nat, latest : Nat,
     stopped : BOOLEAN, out : Seq(Event)]

(* What a map of tools is, both ways.                                        *)
LEMMA ToolMaps ==
    /\ \A f \in ToolMap : /\ f = [t \in DOMAIN f |-> f[t]] /\ DOMAIN f \subseteq Tools
                          /\ \A t \in DOMAIN f : f[t] \in ToolState
    /\ \A T \in SUBSET Tools : \A f \in [T -> ToolState] : f \in ToolMap
<1> HIDE DEF ToolState
<1> QED
  BY DEF ToolMap

(* Two converters that have yielded different events, if any.                *)
Alike(c, d) ==
    /\ d.next = c.next /\ d.block = c.block /\ d.index = c.index
    /\ d.tools = c.tools /\ d.open = c.open

Flags(c, d) ==
    /\ d.begun = c.begun /\ d.finished = c.finished /\ d.pending = c.pending
    /\ d.stopped = c.stopped

Bill(c, d) == d.usage = c.usage /\ d.latest = c.latest

(* An event that is put out changes nothing else of the converter.           *)
LEMMA OutGives ==
    ASSUME NEW c \in Converter, NEW e \in Event
    PROVE  /\ Out(c, e) \in Converter
           /\ Alike(c, Out(c, e)) /\ Flags(c, Out(c, e)) /\ Bill(c, Out(c, e))
           /\ Out(c, e).out = Append(c.out, e)
<1>1. Append(c.out, e) \in Seq(Event)
  <2>1. c.out \in Seq(Event)
    BY DEF Converter
  <2> HIDE DEF Event
  <2> QED
    BY <2>1
<1> HIDE DEF Event, ToolMap, Voices
<1> QED
  BY <1>1 DEF Out, Converter, Alike, Flags, Bill

(* What each kind of event leaves a client with.                             *)
LEMMA AfterStart ==
    ASSUME NEW g, NEW i, NEW s
    PROVE  /\ After(g, Started(i, s)).phase = g.phase
           /\ After(g, Started(i, s)).live = g.live \cup {i}
           /\ After(g, Started(i, s)).heard = g.heard
           /\ DOMAIN After(g, Started(i, s)).named = DOMAIN g.named \cup {i}
           /\ After(g, Started(i, s)).named[i] = s
           /\ \A j \in DOMAIN g.named : j # i => After(g, Started(i, s)).named[j] = g.named[j]
           /\ After(g, Started(i, s)).bill = g.bill
BY DEF After, Started

(* The end of a block.                                                       *)
LEMMA AfterStop ==
    ASSUME NEW g, NEW i
    PROVE  /\ After(g, Stopped(i)).phase = g.phase
           /\ After(g, Stopped(i)).live = g.live \ {i}
           /\ After(g, Stopped(i)).heard = g.heard
           /\ After(g, Stopped(i)).named = g.named
           /\ After(g, Stopped(i)).bill = g.bill
BY DEF After, Stopped

(* Pieces of a block.                                                        *)
LEMMA AfterDelta ==
    ASSUME NEW g, NEW i, NEW p
    PROVE  /\ After(g, Wrote(i, p)).phase = g.phase
           /\ After(g, Wrote(i, p)).live = g.live
           /\ \A s \in DOMAIN g.heard :
                 After(g, Wrote(i, p)).heard[s]
                   = IF s = g.named[i] THEN g.heard[s] \o p ELSE g.heard[s]
           /\ After(g, Wrote(i, p)).named = g.named
           /\ After(g, Wrote(i, p)).bill = g.bill
BY DEF After, Wrote

(* The start and the end of the message, and an error.                       *)
LEMMA AfterPlain ==
    ASSUME NEW g, NEW how \in {"message_start", "message_stop", "error"}
    PROVE  /\ After(g, Plain(how)).phase = (IF how = "message_start" THEN "begun"
                                            ELSE IF how = "message_stop" THEN "over"
                                            ELSE "failed")
           /\ After(g, Plain(how)).live = g.live
           /\ After(g, Plain(how)).heard = g.heard
           /\ After(g, Plain(how)).named = g.named
           /\ After(g, Plain(how)).bill = g.bill
BY DEF After, Plain

(* The message_delta.                                                        *)
LEMMA AfterBill ==
    ASSUME NEW g, NEW u
    PROVE  /\ After(g, Delta(u)).phase = "told"
           /\ After(g, Delta(u)).live = g.live
           /\ After(g, Delta(u)).heard = g.heard
           /\ After(g, Delta(u)).named = g.named
           /\ After(g, Delta(u)).bill = Append(g.bill, u)
BY DEF After, Delta

(* Each is an event.                                                         *)
LEMMA Events ==
    /\ \A i \in Nat, s \in Sources : Started(i, s) \in Event
    /\ \A i \in Nat, p \in Seq(Piece) : Wrote(i, p) \in Event
    /\ \A i \in Nat : Stopped(i) \in Event
    /\ \A u \in Nat : Delta(u) \in Event
    /\ \A how \in {"message_start", "message_stop", "error"} : Plain(how) \in Event
<1>1. \A i \in Nat, s \in Sources : Started(i, s) \in Event
  BY DEF Event, Started
<1>2. \A i \in Nat, p \in Seq(Piece) : Wrote(i, p) \in Event
  BY DEF Event, Wrote
<1>3. \A i \in Nat : Stopped(i) \in Event
  BY DEF Event, Stopped
<1>4. \A u \in Nat : Delta(u) \in Event
  BY DEF Event, Delta
<1>5. \A how \in {"message_start", "message_stop", "error"} : Plain(how) \in Event
  BY DEF Event, Plain
<1> QED
  BY <1>1, <1>2, <1>3, <1>4, <1>5

(* One more event of a converter is one more for its client.                 *)
LEMMA Emit ==
    ASSUME NEW k, NEW c \in Converter, NEW g, Told(k, c.out, g), Sane(g),
           NEW e \in Event, Fitting(g, e)
    PROVE  /\ Out(c, e) \in Converter
           /\ Alike(c, Out(c, e)) /\ Flags(c, Out(c, e)) /\ Bill(c, Out(c, e))
           /\ Told(k, Out(c, e).out, After(g, e)) /\ Sane(After(g, e))
<1>1. c.out \in Seq(Event)
  BY DEF Converter
<1>2. Told(k, Append(c.out, e), After(g, e))
  <2> HIDE DEF Event
  <2> QED
    BY <1>1, ToldMore
<1> QED
  BY <1>2, OutGives, ToldOne

(* The blocks of the converter c are those client g knows.                   *)
ToolsPlaced(c, g) ==
    /\ \A t \in DOMAIN c.tools :
          LET tool == c.tools[t]
          IN  /\ tool.at < c.next
              /\ tool.started => tool.at \in c.open /\ g.named[tool.at] = t
              /\ ~tool.started => tool.at \notin DOMAIN g.named
    /\ \A t, u \in DOMAIN c.tools : c.tools[t].at = c.tools[u].at => t = u

Placed(c, g) ==
    /\ DOMAIN g.named \subseteq 0..c.next - 1
    /\ c.block # None => /\ c.index \in DOMAIN g.named /\ g.named[c.index] = c.block
                         /\ c.index \notin c.open
    /\ g.live = c.open \cup (IF c.block = None THEN {} ELSE {c.index})
    /\ c.open \subseteq DOMAIN g.named
    /\ IsFiniteSet(c.open)
    /\ ToolsPlaced(c, g)

(* What g heard and c holds back is what was said.                           *)
Heeds(c, g, n) ==
    /\ n \in [Sources -> Nat]
    /\ \A v \in Voices : g.heard[v] = Whole(v, n[v])
    /\ \A t \in DOMAIN c.tools :
          IF c.tools[t].started
          THEN g.heard[t] = Whole(t, n[t]) /\ c.tools[t].pending = <<>>
          ELSE g.heard[t] = Whole(t, 0) /\ c.tools[t].pending = Whole(t, n[t])
    /\ \A t \in Tools \ DOMAIN c.tools : g.heard[t] = Whole(t, 0) /\ n[t] = 0

(* Blocks are numbered one by one: b that were not a call's, at most.        *)
Room(c, b) ==
    b \in 0..2 * MaxChunks /\ c.next <= b + Cardinality(DOMAIN c.tools)

(* In the middle of an answer.                                               *)
Going(c) == c.begun /\ ~c.finished /\ ~c.pending /\ ~c.stopped

Talk(k, c, g, n, b) ==
    /\ c \in Converter /\ Going(c)
    /\ Told(k, c.out, g) /\ Sane(g)
    /\ g.phase = "begun"
    /\ Placed(c, g) /\ Heeds(c, g, n) /\ Room(c, b)

Talks(k, c, n, b) == \E g : Talk(k, c, g, n, b)

(* What the sets are.                                                        *)
LEMMA SourcesAre ==
    /\ Sources = Voices \cup Tools /\ Voices \cap Tools = {} /\ None \notin Sources
    /\ IsFiniteSet(Tools) /\ Cardinality(Tools) \in Nat /\ MaxChunks \in Nat
<1>1. Cardinality(Tools) \in Nat
  BY ChatAssumption, FS_CardinalityType
<1> QED
  BY <1>1, ChatAssumption DEF Sources, Voices, None

(* The numbers of a converter that has room are within the client's.         *)
LEMMA Numbers ==
    ASSUME NEW c \in Converter, NEW b, Room(c, b)
    PROVE  /\ c.next \in Nat /\ DOMAIN c.tools \in SUBSET Tools
           /\ IsFiniteSet(DOMAIN c.tools) /\ Cardinality(DOMAIN c.tools) \in Nat
           /\ 0..c.next \subseteq Indices
<1>1. c.next \in Nat /\ DOMAIN c.tools \in SUBSET Tools
  <2>1. c.tools \in ToolMap
    BY DEF Converter
  <2> QED
    BY <2>1, ToolMaps DEF Converter
<1>2. /\ IsFiniteSet(DOMAIN c.tools) /\ Cardinality(DOMAIN c.tools) \in Nat
      /\ Cardinality(DOMAIN c.tools) <= Cardinality(Tools)
  BY <1>1, SourcesAre, FS_Subset, FS_CardinalityType
<1>3. c.next <= 2 * MaxChunks + Cardinality(Tools)
  BY <1>1, <1>2, SourcesAre DEF Room
<1> QED
  BY <1>1, <1>2, <1>3, SourcesAre DEF Indices

(* The tools of a converter.                                                 *)
LEMMA ToolGives ==
    ASSUME NEW c \in Converter, NEW t \in DOMAIN c.tools
    PROVE  /\ c.tools[t] \in ToolState /\ t \in Tools
           /\ c.tools[t].at \in Nat /\ c.tools[t].started \in BOOLEAN
           /\ c.tools[t].id \in BOOLEAN /\ c.tools[t].name \in BOOLEAN
           /\ c.tools[t].aborted \in BOOLEAN
           /\ c.tools[t].pending \in Seq(Piece) /\ c.tools[t].blanks \in Nat
<1>1. c.tools \in ToolMap
  BY DEF Converter
<1>2. c.tools[t] \in ToolState /\ t \in Tools
  BY <1>1, ToolMaps
<1> QED
  BY <1>2 DEF ToolState

-----------------------------------------------------------------------------
(* Thinking and text.                                                        *)

(* CloseBlock: whatever block was open, its end is told and none is.         *)
LEMMA BlockCloses ==
    ASSUME NEW k, NEW c, NEW n, NEW b, Talks(k, c, n, b)
    PROVE  /\ Talks(k, CloseBlock(c), n, b)
           /\ CloseBlock(c).block = None /\ CloseBlock(c).tools = c.tools
           /\ CloseBlock(c).next = c.next /\ Bill(c, CloseBlock(c))
<1>1. PICK g : Talk(k, c, g, n, b)
  BY DEF Talks
<1>2. CASE c.block = None
  BY <1>2 DEF CloseBlock, Bill
<1>3. CASE c.block # None
  <2>1. PICK a : a = [c EXCEPT !.block = None]
    OBVIOUS
  <2>2. PICK i : i = c.index
    OBVIOUS
  <2>3. c \in Converter /\ i \in Nat /\ i \in DOMAIN g.named /\ i \in g.live
    BY <1>1, <1>3, <2>2 DEF Talk, Placed, Converter
  <2>4. /\ a \in Converter /\ a.next = c.next /\ a.block = None /\ a.index = c.index
        /\ a.tools = c.tools /\ a.open = c.open /\ Flags(c, a) /\ Bill(c, a) /\ a.out = c.out
    <3> HIDE DEF ToolMap, Event
    <3> QED
      BY <2>1, <2>3 DEF Converter, Flags, Bill
  <2>5. PICK e : e = Stopped(i)
    OBVIOUS
  <2>6. e \in Event /\ Fitting(g, e)
    <3>1. e.type = "stop" /\ e.index = i
      BY <2>5 DEF Stopped
    <3>2. g.phase = "begun"
      BY <1>1 DEF Talk
    <3> QED
      BY <2>3, <2>5, <3>1, <3>2, Events DEF Fitting
  <2>7. PICK h : h = After(g, e)
    OBVIOUS
  <2>8. PICK d : d = Out(a, e)
    OBVIOUS
  <2>9. CloseBlock(c) = d
    BY <1>3, <2>1, <2>2, <2>5, <2>8 DEF CloseBlock
  <2>10. d \in Converter /\ Alike(a, d) /\ Flags(a, d) /\ Bill(a, d) /\ Told(k, d.out, h) /\ Sane(h)
    BY <1>1, <2>4, <2>6, <2>7, <2>8, Emit DEF Talk
  <2>11. /\ h.phase = g.phase /\ h.live = g.live \ {i} /\ h.heard = g.heard
         /\ h.named = g.named
    BY <2>5, <2>7, AfterStop
  <2>12. Placed(d, h)
    BY <1>1, <1>3, <2>2, <2>4, <2>10, <2>11 DEF Talk, Placed, ToolsPlaced, Alike
  <2>13. Heeds(d, h, n)
    BY <1>1, <2>4, <2>10, <2>11 DEF Talk, Heeds, Alike
  <2>14. Room(d, b) /\ Going(d)
    BY <1>1, <2>4, <2>10 DEF Talk, Room, Going, Flags, Alike
  <2>15. Talk(k, d, h, n, b)
    BY <1>1, <2>10, <2>11, <2>12, <2>13, <2>14 DEF Talk
  <2> QED
    BY <2>4, <2>9, <2>10, <2>15 DEF Talks, Bill, Alike
<1> QED
  BY <1>2, <1>3

(* OpenBlock, when none is open: one more block that is not a call's.        *)
LEMMA BlockOpens ==
    ASSUME NEW k, NEW c, NEW n, NEW b, Talks(k, c, n, b), c.block = None,
           NEW voice \in Voices, b + 1 \in 0..2 * MaxChunks
    PROVE  /\ Talks(k, OpenBlock(c, voice), n, b + 1)
           /\ OpenBlock(c, voice).block = voice /\ OpenBlock(c, voice).tools = c.tools
           /\ Bill(c, OpenBlock(c, voice))
<1>1. PICK g : Talk(k, c, g, n, b)
  BY DEF Talks
<1>2. PICK i : i = c.next
  OBVIOUS
<1>3. PICK a : a = [c EXCEPT !.block = voice, !.index = i, !.next = i + 1]
  OBVIOUS
<1>4. c \in Converter /\ Room(c, b) /\ voice \in Sources
  BY <1>1, SourcesAre DEF Talk
<1>5. i \in Nat /\ i \in Indices /\ i \notin DOMAIN g.named /\ Cardinality(DOMAIN c.tools) \in Nat
  <2>1. i \in Nat /\ i \in 0..i
    BY <1>2, <1>4, Numbers
  <2>2. DOMAIN g.named \subseteq 0..i - 1
    BY <1>1, <1>2 DEF Talk, Placed
  <2> QED
    BY <1>2, <1>4, <2>1, <2>2, Numbers
<1>6. /\ a \in Converter /\ a.next = i + 1 /\ a.block = voice /\ a.index = i
      /\ a.tools = c.tools /\ a.open = c.open /\ Flags(c, a) /\ Bill(c, a) /\ a.out = c.out
  <2>1. i + 1 \in Nat
    BY <1>5
  <2> HIDE DEF ToolMap, Event, Voices
  <2> QED
    BY <1>3, <1>4, <1>5, <2>1 DEF Converter, Flags, Bill
<1>7. PICK e : e = Started(i, voice)
  OBVIOUS
<1>8. e \in Event /\ Fitting(g, e)
  <2>1. e.type = "start" /\ e.index = i /\ e.source = voice
    BY <1>7 DEF Started
  <2>2. g.phase = "begun"
    BY <1>1 DEF Talk
  <2> QED
    BY <1>4, <1>5, <1>7, <2>1, <2>2, Events DEF Fitting
<1>9. PICK h : h = After(g, e)
  OBVIOUS
<1>10. PICK d : d = Out(a, e)
  OBVIOUS
<1>11. OpenBlock(c, voice) = d
  BY <1>2, <1>3, <1>4, <1>7, <1>10 DEF OpenBlock, Converter
<1>12. d \in Converter /\ Alike(a, d) /\ Flags(a, d) /\ Bill(a, d) /\ Told(k, d.out, h) /\ Sane(h)
  BY <1>1, <1>6, <1>8, <1>9, <1>10, Emit DEF Talk
<1>13. /\ h.phase = g.phase /\ h.live = g.live \cup {i} /\ h.heard = g.heard
       /\ DOMAIN h.named = DOMAIN g.named \cup {i} /\ h.named[i] = voice
       /\ \A j \in DOMAIN g.named : h.named[j] = g.named[j]
  BY <1>5, <1>7, <1>9, AfterStart
<1>14. ToolsPlaced(d, h)
  <2>1. ASSUME NEW t \in DOMAIN c.tools
        PROVE  /\ c.tools[t].at < i /\ c.tools[t].at < i + 1
               /\ c.tools[t].started => c.tools[t].at \in c.open /\ h.named[c.tools[t].at] = t
               /\ ~c.tools[t].started => c.tools[t].at \notin DOMAIN h.named
    <3>1. c.tools[t].at \in Nat
      BY <1>4, ToolGives
    <3> QED
      BY <1>1, <1>2, <1>5, <1>13, <3>1 DEF Talk, Placed, ToolsPlaced
  <2> QED
    BY <1>1, <1>6, <1>12, <2>1 DEF Talk, Placed, ToolsPlaced, Alike
<1>15. Placed(d, h)
  <2>1. /\ g.live = c.open /\ c.open \subseteq DOMAIN g.named /\ IsFiniteSet(c.open)
        /\ DOMAIN g.named \subseteq 0..i - 1
    BY <1>1, <1>2 DEF Talk, Placed
  <2>2. /\ d.open = c.open /\ d.block = voice /\ d.index = i /\ d.next = i + 1
        /\ voice # None
    BY <1>4, <1>6, <1>12, SourcesAre DEF Alike
  <2>3. DOMAIN h.named \subseteq 0..d.next - 1
    BY <1>5, <1>13, <2>1, <2>2
  <2> QED
    BY <1>5, <1>13, <1>14, <2>1, <2>2, <2>3 DEF Placed
<1>16. Heeds(d, h, n)
  BY <1>1, <1>6, <1>12, <1>13 DEF Talk, Heeds, Alike
<1>17. Room(d, b + 1) /\ Going(d)
  <2>1. d.next = i + 1 /\ d.tools = c.tools
    BY <1>6, <1>12 DEF Alike
  <2>2. i <= b + Cardinality(DOMAIN c.tools) /\ b \in Nat
    BY <1>2, <1>4 DEF Room
  <2>3. Going(d)
    BY <1>1, <1>6, <1>12 DEF Talk, Going, Flags
  <2> QED
    BY <1>5, <2>1, <2>2, <2>3 DEF Room
<1>18. Talk(k, d, h, n, b + 1)
  BY <1>1, <1>12, <1>13, <1>15, <1>16, <1>17 DEF Talk
<1> QED
  BY <1>6, <1>11, <1>12, <1>18 DEF Talks, Bill, Alike

(* More room does no harm.                                                   *)
LEMMA RoomGrows ==
    ASSUME NEW k, NEW c, NEW n, NEW b, Talks(k, c, n, b), b + 1 \in 0..2 * MaxChunks
    PROVE  Talks(k, c, n, b + 1)
<1>1. PICK g : Talk(k, c, g, n, b)
  BY DEF Talks
<1>2. c \in Converter /\ Room(c, b)
  BY <1>1 DEF Talk
<1>3. c.next \in Nat /\ Cardinality(DOMAIN c.tools) \in Nat
  BY <1>2, Numbers
<1>4. Room(c, b + 1)
  BY <1>2, <1>3 DEF Room
<1> QED
  BY <1>1, <1>4 DEF Talks, Talk

(* One piece more of what is heard of a source.                              *)
LEMMA OnePiece ==
    ASSUME NEW s \in Sources, NEW m \in Nat
    PROVE  /\ <<<<s, m + 1>>>> \in Seq(Piece)
           /\ Whole(s, m) \o <<<<s, m + 1>>>> = Whole(s, m + 1)
<1>1. <<s, m + 1>> \in Piece
  BY DEF Piece
<1>2. Whole(s, m) \in Seq({s} \X Nat) /\ Append(Whole(s, m), <<s, m + 1>>) = Whole(s, m + 1)
  BY WholeLength
<1>3. PICK x, w : x = <<s, m + 1>> /\ w = Whole(s, m)
  OBVIOUS
<1>4. w \in Seq({s} \X Nat) /\ x \in {s} \X Nat
  BY <1>2, <1>3
<1>5. w \o <<x>> = Append(w, x)
  <2> HIDE <1>3
  <2> QED
    BY <1>4
<1>6. x \in Piece => <<x>> \in Seq(Piece)
  OBVIOUS
<1> QED
  BY <1>1, <1>2, <1>3, <1>5, <1>6, Zenon

(* A piece of thinking or text in the block that is open for it.             *)
LEMMA VoiceWrites ==
    ASSUME NEW k, NEW c, NEW n, NEW b, Talks(k, c, n, b), NEW voice \in Voices,
           c.block = voice, NEW d, d = Out(c, Wrote(c.index, <<<<voice, n[voice] + 1>>>>))
    PROVE  /\ Talks(k, d, [n EXCEPT ![voice] = n[voice] + 1], b)
           /\ d.block = voice /\ d.tools = c.tools /\ Bill(c, d)
<1>1. PICK g : Talk(k, c, g, n, b)
  BY DEF Talks
<1>2. PICK i, m : i = c.index /\ m = n[voice]
  OBVIOUS
<1>3. c \in Converter /\ voice \in Sources /\ voice # None /\ i \in Nat
      /\ n \in [Sources -> Nat] /\ m \in Nat
  BY <1>1, <1>2, SourcesAre DEF Talk, Heeds, Converter
<1>4. i \in DOMAIN g.named /\ i \in g.live /\ g.named[i] = voice
  BY <1>1, <1>2, <1>3 DEF Talk, Placed
<1>5. PICK p : p = <<<<voice, m + 1>>>>
  OBVIOUS
<1>6. p \in Seq(Piece) /\ Whole(voice, m) \o p = Whole(voice, m + 1)
  BY <1>3, <1>5, OnePiece
<1>7. PICK e : e = Wrote(i, p)
  OBVIOUS
<1>8. g.heard[voice] = Whole(voice, m)
  BY <1>1, <1>2 DEF Talk, Heeds
<1>9. e \in Event /\ Fitting(g, e)
  <2>1. e.type = "delta" /\ e.index = i /\ e.pieces = p
    BY <1>7 DEF Wrote
  <2>2. g.phase = "begun"
    BY <1>1 DEF Talk
  <2>3. m + 1 \in Nat /\ m <= m + 1
    BY <1>3
  <2> QED
    BY <1>3, <1>4, <1>6, <1>7, <1>8, <2>1, <2>2, <2>3, Events DEF Fitting
<1>10. PICK h : h = After(g, e)
  OBVIOUS
<1>11. d \in Converter /\ Alike(c, d) /\ Flags(c, d) /\ Bill(c, d) /\ Told(k, d.out, h) /\ Sane(h)
  <2>1. d = Out(c, e)
    BY <1>2, <1>5, <1>7, Zenon
  <2> QED
    BY <1>1, <1>3, <1>9, <1>10, <2>1, Emit DEF Talk
<1>12. /\ h.phase = g.phase /\ h.live = g.live /\ h.named = g.named
       /\ \A s \in Sources :
             h.heard[s] = IF s = voice THEN Whole(voice, m + 1) ELSE g.heard[s]
  <2>1. h = After(g, Wrote(i, p)) /\ DOMAIN g.heard = Sources
    BY <1>1, <1>7, <1>10 DEF Talk, Sane, Hears
  <2>2. \A s \in Sources : h.heard[s] = IF s = voice THEN g.heard[s] \o p ELSE g.heard[s]
    BY <1>4, <2>1, AfterDelta
  <2>3. h.phase = g.phase /\ h.live = g.live /\ h.named = g.named
    BY <2>1, AfterDelta
  <2> QED
    BY <1>6, <1>8, <2>2, <2>3
<1>13. PICK n1 : n1 = [n EXCEPT ![voice] = m + 1]
  OBVIOUS
<1>14. /\ n1 \in [Sources -> Nat] /\ n1[voice] = m + 1
       /\ \A s \in Sources : s # voice => n1[s] = n[s] /\ h.heard[s] = g.heard[s]
       /\ h.heard[voice] = Whole(voice, m + 1)
  BY <1>3, <1>12, <1>13
<1>15. Heeds(d, h, n1)
  <2>1. d.tools = c.tools /\ DOMAIN c.tools \subseteq Tools
    BY <1>1, <1>3, <1>11, Numbers DEF Alike, Talk
  <2>2. \A v \in Voices : h.heard[v] = Whole(v, n1[v])
    BY <1>1, <1>14, SourcesAre DEF Talk, Heeds
  <2>3. \A t \in Tools : h.heard[t] = g.heard[t] /\ n1[t] = n[t]
    BY <1>14, SourcesAre
  <2> QED
    BY <1>1, <1>14, <2>1, <2>2, <2>3 DEF Talk, Heeds
<1>16. Placed(d, h) /\ Room(d, b) /\ Going(d)
  <2>1. /\ d.next = c.next /\ d.block = c.block /\ d.index = c.index /\ d.tools = c.tools
        /\ d.open = c.open /\ h.live = g.live /\ h.named = g.named
    BY <1>11, <1>12 DEF Alike
  <2>2. Placed(d, h)
    BY <1>1, <2>1 DEF Talk, Placed, ToolsPlaced
  <2> QED
    BY <1>1, <1>11, <2>1, <2>2 DEF Talk, Room, Going, Flags
<1>17. Talk(k, d, h, n1, b)
  BY <1>1, <1>11, <1>12, <1>15, <1>16 DEF Talk
<1>18. Talks(k, d, n1, b)
  BY <1>17 DEF Talks
<1>19. d.block = voice /\ d.tools = c.tools
  BY <1>11 DEF Alike
<1> QED
  BY <1>2, <1>11, <1>13, <1>18, <1>19, Zenon

(* Speak: whichever block was open, the piece is the next one heard of its   *)
(* voice.                                                                    *)
LEMMA VoiceSpeaks ==
    ASSUME NEW k, NEW c, NEW n, NEW b, Talks(k, c, n, b), NEW voice \in Voices,
           b + 1 \in 0..2 * MaxChunks, NEW d, d = Speak(c, voice, <<voice, n[voice] + 1>>)
    PROVE  /\ Talks(k, d, [n EXCEPT ![voice] = n[voice] + 1], b + 1)
           /\ d.tools = c.tools /\ Bill(c, d)
<1>1. PICK o : o = IF c.block = voice THEN c ELSE OpenBlock(CloseBlock(c), voice)
  OBVIOUS
<1>2. /\ Talks(k, o, n, b + 1)
      /\ o.block = voice /\ o.tools = c.tools /\ Bill(c, o)
  <2>1. CASE c.block = voice
    <3>1. o = c
      BY <1>1, <2>1
    <3> QED
      BY <2>1, <3>1, RoomGrows DEF Bill
  <2>2. CASE c.block # voice
    <3>1. PICK a : a = CloseBlock(c)
      OBVIOUS
    <3>2. Talks(k, a, n, b) /\ a.block = None /\ a.tools = c.tools /\ Bill(c, a)
      BY <3>1, BlockCloses
    <3>3. o = OpenBlock(a, voice)
      BY <1>1, <2>2, <3>1
    <3>4. Talks(k, o, n, b + 1) /\ o.block = voice /\ o.tools = a.tools /\ Bill(a, o)
      BY <3>2, <3>3, BlockOpens
    <3> QED
      BY <3>2, <3>4 DEF Bill
  <2> QED
    BY <2>1, <2>2
<1>3. d = Out(o, Wrote(o.index, <<<<voice, n[voice] + 1>>>>))
  BY <1>1 DEF Speak
<1>4. /\ Talks(k, d, [n EXCEPT ![voice] = n[voice] + 1], b + 1)
      /\ d.tools = o.tools /\ Bill(o, d)
  BY <1>2, <1>3, VoiceWrites
<1> QED
  BY <1>2, <1>4 DEF Bill

-----------------------------------------------------------------------------
(* Calls.                                                                    *)

(* What a part of the converter that is about the tool t leaves alone.       *)
Aside(c, d, t) ==
    /\ d.block = c.block /\ Bill(c, d)
    /\ DOMAIN d.tools = DOMAIN c.tools \cup {t}
    /\ \A u \in DOMAIN c.tools : u # t => d.tools[u] = c.tools[u]

(* Two parts about one tool, one after the other.                            *)
LEMMA AsideTwice ==
    ASSUME NEW c, NEW d, NEW e, NEW t, Aside(c, d, t), Aside(d, e, t)
    PROVE  Aside(c, e, t)
BY DEF Aside, Bill

(* c with another state of one tool and other open blocks.                   *)
Retool(c, t, x, o) == [c EXCEPT !.tools = [c.tools EXCEPT ![t] = x], !.open = o]

(* The fields of a converter with another state of one tool.                 *)
LEMMA Retooled ==
    ASSUME NEW c \in Converter, NEW t \in DOMAIN c.tools, NEW x \in ToolState,
           NEW o \in SUBSET Nat,
           NEW d, d = Retool(c, t, x, o)
    PROVE  /\ d \in Converter /\ Flags(c, d) /\ Aside(c, d, t)
           /\ d.next = c.next /\ d.index = c.index /\ d.open = o /\ d.out = c.out
           /\ DOMAIN d.tools = DOMAIN c.tools /\ d.tools[t] = x
<1>1. PICK m : m = [c.tools EXCEPT ![t] = x]
  OBVIOUS
<1>2. c.tools \in ToolMap
  BY DEF Converter
<1>3. /\ m \in ToolMap /\ DOMAIN m = DOMAIN c.tools /\ m[t] = x
      /\ \A u \in DOMAIN c.tools : u # t => m[u] = c.tools[u]
  <2>1. m \in [DOMAIN c.tools -> ToolState] /\ DOMAIN c.tools \in SUBSET Tools
    <3> HIDE DEF ToolState
    <3> QED
      BY <1>1, <1>2, ToolMaps
  <2> QED
    BY <1>1, <2>1, ToolMaps
<1>4. d = [c EXCEPT !.tools = m, !.open = o]
  BY <1>1 DEF Retool
<1>5. /\ d \in Converter /\ Flags(c, d) /\ d.block = c.block /\ Bill(c, d)
      /\ d.next = c.next /\ d.index = c.index /\ d.open = o /\ d.out = c.out /\ d.tools = m
  <2> HIDE DEF ToolMap, Event, Voices
  <2> QED
    BY <1>3, <1>4 DEF Converter, Flags, Bill
<1> QED
  BY <1>3, <1>5 DEF Aside

(* What of a tool's state its client does not see.                           *)
LEMMA Noted ==
    ASSUME NEW k, NEW c, NEW n, NEW b, Talks(k, c, n, b), NEW t \in DOMAIN c.tools,
           NEW x \in ToolState, x.at = c.tools[t].at, x.started = c.tools[t].started,
           x.pending = c.tools[t].pending,
           NEW d, d = Retool(c, t, x, c.open)
    PROVE  Talks(k, d, n, b) /\ Aside(c, d, t) /\ d.tools[t] = x
<1>1. PICK g : Talk(k, c, g, n, b)
  BY DEF Talks
<1>2. c \in Converter
  BY <1>1 DEF Talk
<1>3. c.open \in SUBSET Nat
  BY <1>2 DEF Converter
<1>4. /\ d \in Converter /\ Flags(c, d) /\ Aside(c, d, t)
      /\ d.next = c.next /\ d.index = c.index /\ d.open = c.open /\ d.out = c.out
      /\ DOMAIN d.tools = DOMAIN c.tools /\ d.tools[t] = x
  BY <1>2, <1>3, Retooled
<1>5. \A u \in DOMAIN c.tools : /\ d.tools[u].at = c.tools[u].at
                                /\ d.tools[u].started = c.tools[u].started
                                /\ d.tools[u].pending = c.tools[u].pending
  BY <1>4 DEF Aside
<1>6. Placed(d, g)
  BY <1>1, <1>4, <1>5 DEF Talk, Placed, ToolsPlaced, Aside
<1>7. Heeds(d, g, n)
  <2>1. ASSUME NEW u \in DOMAIN d.tools
        PROVE  IF d.tools[u].started
               THEN g.heard[u] = Whole(u, n[u]) /\ d.tools[u].pending = <<>>
               ELSE g.heard[u] = Whole(u, 0) /\ d.tools[u].pending = Whole(u, n[u])
    <3>1. IF c.tools[u].started
          THEN g.heard[u] = Whole(u, n[u]) /\ c.tools[u].pending = <<>>
          ELSE g.heard[u] = Whole(u, 0) /\ c.tools[u].pending = Whole(u, n[u])
      BY <1>1, <1>4 DEF Talk, Heeds
    <3>2. u \in DOMAIN c.tools
      BY <1>4
    <3> QED
      BY <1>5, <3>1, <3>2, Zenon
  <2> QED
    BY <1>1, <1>4, <2>1 DEF Talk, Heeds
<1>8. Room(d, b) /\ Going(d)
  BY <1>1, <1>4 DEF Talk, Room, Going, Flags
<1>9. Talk(k, d, g, n, b)
  BY <1>1, <1>4, <1>6, <1>7, <1>8 DEF Talk
<1> QED
  BY <1>4, <1>9 DEF Talks

(* A call that is new has its block reserved.                                *)
LEMMA Enters ==
    ASSUME NEW k, NEW c, NEW n, NEW b, Talks(k, c, n, b), NEW t \in Tools,
           NEW d, d = Entry(c, t)
    PROVE  /\ Talks(k, d, n, b) /\ Aside(c, d, t) /\ t \in DOMAIN d.tools
           /\ t \in DOMAIN c.tools => d.tools[t] = c.tools[t]
<1>1. CASE t \in DOMAIN c.tools
  BY <1>1 DEF Entry, Aside, Bill
<1>2. CASE t \notin DOMAIN c.tools
  <2>1. PICK g : Talk(k, c, g, n, b)
    BY DEF Talks
  <2>2. c \in Converter /\ Room(c, b)
    BY <2>1 DEF Talk
  <2>3. PICK i : i = c.next
    OBVIOUS
  <2>4. /\ i \in Nat /\ DOMAIN c.tools \in SUBSET Tools /\ IsFiniteSet(DOMAIN c.tools)
        /\ Cardinality(DOMAIN c.tools) \in Nat
    BY <2>2, <2>3, Numbers
  <2>5. PICK x : x = [NoTool EXCEPT !.at = i]
    OBVIOUS
  <2>6. /\ x \in ToolState /\ x.at = i /\ x.started = FALSE /\ x.pending = <<>>
    <3>1. <<>> \in Seq(Piece)
      OBVIOUS
    <3> HIDE DEF Piece
    <3> QED
      BY <2>4, <2>5, <3>1 DEF NoTool, ToolState
  <2>7. PICK m : m = [u \in DOMAIN c.tools \cup {t} |-> IF u = t THEN x ELSE c.tools[u]]
    OBVIOUS
  <2>8. /\ m \in ToolMap /\ DOMAIN m = DOMAIN c.tools \cup {t} /\ m[t] = x
        /\ \A u \in DOMAIN c.tools : m[u] = c.tools[u]
    <3>1. \A u \in DOMAIN c.tools : c.tools[u] \in ToolState
      BY <2>2, ToolGives
    <3>2. m \in [DOMAIN c.tools \cup {t} -> ToolState] /\ DOMAIN c.tools \cup {t} \in SUBSET Tools
      <4> HIDE DEF ToolState
      <4> QED
        BY <2>4, <2>6, <2>7, <3>1
    <3> QED
      BY <1>2, <2>7, <3>2, ToolMaps
  <2>9. d = [c EXCEPT !.next = i + 1, !.tools = m]
    <3>1. Entry(c, t) = [c EXCEPT !.next = c.next + 1,
                                  !.tools = [u \in DOMAIN c.tools \cup {t} |->
                                               IF u = t THEN [NoTool EXCEPT !.at = c.next]
                                               ELSE c.tools[u]]]
      BY <1>2, <2>2 DEF Entry, Converter
    <3> QED
      BY <2>3, <2>5, <2>7, <3>1, Zenon
  <2>10. /\ d \in Converter /\ Flags(c, d) /\ d.block = c.block /\ Bill(c, d)
         /\ d.next = i + 1 /\ d.index = c.index /\ d.open = c.open /\ d.out = c.out
         /\ d.tools = m
    <3>1. i + 1 \in Nat
      BY <2>4
    <3> HIDE DEF ToolMap, Event, Voices
    <3> QED
      BY <2>2, <2>8, <2>9, <3>1 DEF Converter, Flags, Bill
  <2>11. ToolsPlaced(d, g)
    <3>1. DOMAIN g.named \subseteq 0..i - 1
      BY <2>1, <2>3 DEF Talk, Placed
    <3>2. \A u \in DOMAIN c.tools : c.tools[u].at \in Nat /\ c.tools[u].at < i
      BY <2>1, <2>2, <2>3, ToolGives DEF Talk, Placed, ToolsPlaced
    <3>3. ASSUME NEW u \in DOMAIN m
          PROVE  /\ m[u].at < i + 1
                 /\ m[u].started => m[u].at \in c.open /\ g.named[m[u].at] = u
                 /\ ~m[u].started => m[u].at \notin DOMAIN g.named
      <4>1. CASE u = t
        BY <2>4, <2>6, <2>8, <3>1, <4>1
      <4>2. CASE u # t
        <5>1. u \in DOMAIN c.tools /\ m[u] = c.tools[u]
          BY <2>8, <4>2
        <5> QED
          BY <2>1, <2>3, <2>4, <3>2, <5>1 DEF Talk, Placed, ToolsPlaced
      <4> QED
        BY <4>1, <4>2
    <3>4. ASSUME NEW u \in DOMAIN m, NEW v \in DOMAIN m, m[u].at = m[v].at PROVE u = v
      BY <2>1, <2>4, <2>6, <2>8, <3>2, <3>4 DEF Talk, Placed, ToolsPlaced
    <3> QED
      BY <2>10, <3>3, <3>4 DEF ToolsPlaced
  <2>12. Placed(d, g)
    <3>1. DOMAIN g.named \subseteq 0..(i + 1) - 1
      BY <2>1, <2>3, <2>4 DEF Talk, Placed
    <3> QED
      BY <2>1, <2>10, <2>11, <3>1 DEF Talk, Placed
  <2>13. Heeds(d, g, n)
    <3>1. Whole(t, 0) = <<>>
      BY DEF Whole
    <3>2. g.heard[t] = Whole(t, 0) /\ n[t] = 0
      BY <1>2, <2>1 DEF Talk, Heeds
    <3> QED
      BY <2>1, <2>6, <2>8, <2>10, <3>1, <3>2 DEF Talk, Heeds
  <2>14. Room(d, b) /\ Going(d)
    <3>1. Cardinality(DOMAIN m) = Cardinality(DOMAIN c.tools) + 1
      BY <1>2, <2>4, <2>8, FS_AddElement
    <3>2. i <= b + Cardinality(DOMAIN c.tools) /\ b \in 0..2 * MaxChunks
      BY <2>2, <2>3 DEF Room
    <3>3. i + 1 <= b + Cardinality(DOMAIN m)
      BY <2>4, <3>1, <3>2, SourcesAre
    <3> QED
      BY <2>1, <2>10, <3>2, <3>3 DEF Talk, Room, Going, Flags
  <2>15. Talk(k, d, g, n, b)
    BY <2>1, <2>10, <2>12, <2>13, <2>14 DEF Talk
  <2> QED
    BY <1>2, <2>8, <2>10, <2>15 DEF Talks, Aside
<1> QED
  BY <1>1, <1>2

(* The state of a tool whose block has started.                              *)
Begun(tool) == [tool EXCEPT !.started = TRUE, !.pending = <<>>]

(* The fields of the state of a tool whose block has started.                *)
LEMMA BegunGives ==
    ASSUME NEW tool \in ToolState
    PROVE  /\ Begun(tool) \in ToolState /\ Begun(tool).at = tool.at
           /\ Begun(tool).started = TRUE /\ Begun(tool).pending = <<>>
           /\ Begun(tool).aborted = tool.aborted
<1>1. <<>> \in Seq(Piece)
  OBVIOUS
<1> HIDE DEF Piece
<1> QED
  BY <1>1 DEF Begun, ToolState

(* The block of a call starts, and what was held back goes out.              *)
LEMMA ToolStarts ==
    ASSUME NEW k, NEW c, NEW n, NEW b, Talks(k, c, n, b), c.block = None,
           NEW t \in DOMAIN c.tools, ~c.tools[t].started, NEW d, d = StartLate(c, t)
    PROVE  Talks(k, d, n, b) /\ Aside(c, d, t) /\ d.tools[t] = Begun(c.tools[t])
<1>1. PICK g : Talk(k, c, g, n, b)
  BY DEF Talks
<1>2. c \in Converter /\ Room(c, b)
  BY <1>1 DEF Talk
<1>3. PICK i, p, x : i = c.tools[t].at /\ p = c.tools[t].pending /\ x = Begun(c.tools[t])
  OBVIOUS
<1>4. /\ i \in Nat /\ p \in Seq(Piece) /\ t \in Tools /\ t \in Sources /\ x \in ToolState
      /\ x.at = i /\ x.started = TRUE /\ x.pending = <<>>
  <2>1. /\ c.tools[t] \in ToolState /\ i \in Nat /\ p \in Seq(Piece) /\ t \in Tools
    BY <1>2, <1>3, ToolGives
  <2> QED
    BY <1>3, <2>1, BegunGives, SourcesAre
<1>5. /\ i < c.next /\ i \notin DOMAIN g.named /\ c.next \in Nat /\ 0..c.next \subseteq Indices
  BY <1>1, <1>2, <1>3, Numbers DEF Talk, Placed, ToolsPlaced
<1>6. PICK o : o = c.open \cup {i}
  OBVIOUS
<1>7. o \in SUBSET Nat /\ IsFiniteSet(o)
  <2>1. IsFiniteSet(c.open) /\ c.open \in SUBSET Nat
    BY <1>1, <1>2 DEF Talk, Placed, Converter
  <2> QED
    BY <1>4, <1>6, <2>1, FS_AddElement
<1>8. PICK a : a = Retool(c, t, x, o)
  OBVIOUS
<1>9. /\ a \in Converter /\ Flags(c, a) /\ Aside(c, a, t)
      /\ a.next = c.next /\ a.index = c.index /\ a.open = o /\ a.out = c.out
      /\ DOMAIN a.tools = DOMAIN c.tools /\ a.tools[t] = x
  BY <1>2, <1>4, <1>7, <1>8, Retooled
<1>10. PICK e : e = Started(i, t)
  OBVIOUS
<1>11. e \in Event /\ Fitting(g, e)
  <2>1. e.type = "start" /\ e.index = i /\ e.source = t
    BY <1>10 DEF Started
  <2>2. g.phase = "begun"
    BY <1>1 DEF Talk
  <2>3. i \in Indices
    BY <1>4, <1>5
  <2> QED
    BY <1>4, <1>5, <1>10, <2>1, <2>2, <2>3, Events DEF Fitting
<1>12. PICK h : h = After(g, e)
  OBVIOUS
<1>13. PICK s : s = Out(a, e)
  OBVIOUS
<1>14. s \in Converter /\ Alike(a, s) /\ Flags(a, s) /\ Bill(a, s) /\ Told(k, s.out, h) /\ Sane(h)
  BY <1>1, <1>9, <1>11, <1>12, <1>13, Emit DEF Talk
<1>15. /\ h.phase = g.phase /\ h.live = g.live \cup {i} /\ h.heard = g.heard
       /\ DOMAIN h.named = DOMAIN g.named \cup {i} /\ h.named[i] = t
       /\ \A j \in DOMAIN g.named : h.named[j] = g.named[j]
  <2>1. h = After(g, Started(i, t))
    BY <1>10, <1>12, Zenon
  <2> QED
    BY <1>5, <2>1, AfterStart
<1>16. /\ s.next = c.next /\ s.block = None /\ s.index = c.index /\ s.open = o
       /\ DOMAIN s.tools = DOMAIN c.tools /\ s.tools[t] = x
       /\ \A u \in DOMAIN c.tools : u # t => s.tools[u] = c.tools[u]
       /\ Flags(c, s) /\ Bill(c, s)
  BY <1>9, <1>14 DEF Alike, Aside, Flags, Bill
<1>17. ToolsPlaced(s, h)
  <2>1. \A u \in DOMAIN c.tools : s.tools[u].at = c.tools[u].at
    BY <1>3, <1>4, <1>16
  <2>2. \A u, v \in DOMAIN s.tools : s.tools[u].at = s.tools[v].at => u = v
    BY <1>1, <1>16, <2>1 DEF Talk, Placed, ToolsPlaced
  <2>3. ASSUME NEW u \in DOMAIN s.tools
        PROVE  /\ s.tools[u].at < s.next
               /\ s.tools[u].started => s.tools[u].at \in o /\ h.named[s.tools[u].at] = u
               /\ ~s.tools[u].started => s.tools[u].at \notin DOMAIN h.named
    <3>1. CASE u = t
      BY <1>4, <1>5, <1>6, <1>15, <1>16, <3>1
    <3>2. CASE u # t
      <4>1. u \in DOMAIN c.tools /\ s.tools[u] = c.tools[u] /\ c.tools[u].at # i
        BY <1>1, <1>3, <1>16, <3>2 DEF Talk, Placed, ToolsPlaced
      <4>2. c.open \subseteq DOMAIN g.named
        BY <1>1 DEF Talk, Placed
      <4> QED
        BY <1>1, <1>6, <1>15, <1>16, <4>1, <4>2 DEF Talk, Placed, ToolsPlaced
    <3> QED
      BY <3>1, <3>2
  <2> QED
    BY <1>16, <2>2, <2>3 DEF ToolsPlaced
<1>18. Placed(s, h)
  <2>1. /\ g.live = c.open /\ c.open \subseteq DOMAIN g.named
        /\ DOMAIN g.named \subseteq 0..c.next - 1
    BY <1>1 DEF Talk, Placed
  <2>2. i \in 0..c.next - 1
    BY <1>4, <1>5
  <2> QED
    BY <1>6, <1>7, <1>15, <1>16, <1>17, <2>1, <2>2 DEF Placed
<1>19. Room(s, b) /\ Going(s)
  BY <1>1, <1>16 DEF Talk, Room, Going, Flags
<1>20. /\ n \in [Sources -> Nat] /\ g.heard[t] = Whole(t, 0) /\ p = Whole(t, n[t])
       /\ DOMAIN g.heard = Sources
  BY <1>1, <1>3 DEF Talk, Heeds, Sane, Hears
<1>21. s = Out([c EXCEPT !.tools[t].started = TRUE, !.tools[t].pending = <<>>,
                         !.open = c.open \cup {c.tools[t].at}], Started(c.tools[t].at, t))
  <2>1. [c EXCEPT !.tools[t].started = TRUE, !.tools[t].pending = <<>>,
                  !.open = c.open \cup {c.tools[t].at}] = Retool(c, t, x, o)
    <3> HIDE DEF ToolMap, Event, Voices
    <3> QED
      BY <1>2, <1>3, <1>6 DEF Converter, Retool, Begun
  <2> QED
    BY <1>3, <1>8, <1>10, <1>13, <2>1, Zenon
<1>22. d = IF p = <<>> THEN s ELSE Out(s, Wrote(i, p))
  <2>1. CASE p = <<>>
    <3>1. StartLate(c, t) = s
      BY <1>3, <1>21, <2>1, Zenon DEF StartLate
    <3> QED
      BY <2>1, <3>1
  <2>2. CASE p # <<>>
    <3>1. StartLate(c, t) = Out(s, Wrote(c.tools[t].at, c.tools[t].pending))
      BY <1>3, <1>21, <2>2, Zenon DEF StartLate
    <3> QED
      BY <1>3, <2>2, <3>1
  <2> QED
    BY <2>1, <2>2
<1>23. \A u \in Tools : Whole(u, 0) = <<>>
  BY DEF Whole
<1>24. ASSUME NEW w, NEW y, w.tools = s.tools,
              \A u \in Sources : y.heard[u] = IF u = t THEN Whole(t, n[t]) ELSE g.heard[u]
       PROVE  Heeds(w, y, n)
  <2>1. t \notin Voices /\ Voices \subseteq Sources /\ Tools \subseteq Sources
    BY <1>4, SourcesAre
  <2>2. DOMAIN c.tools \subseteq Tools
    BY <1>2, Numbers
  <2>3. \A u \in DOMAIN w.tools :
          IF w.tools[u].started
          THEN y.heard[u] = Whole(u, n[u]) /\ w.tools[u].pending = <<>>
          ELSE y.heard[u] = Whole(u, 0) /\ w.tools[u].pending = Whole(u, n[u])
    <3>1. ASSUME NEW u \in DOMAIN c.tools, u # t
          PROVE  IF w.tools[u].started
                 THEN y.heard[u] = Whole(u, n[u]) /\ w.tools[u].pending = <<>>
                 ELSE y.heard[u] = Whole(u, 0) /\ w.tools[u].pending = Whole(u, n[u])
      <4>1. w.tools[u] = c.tools[u] /\ y.heard[u] = g.heard[u]
        BY <1>16, <1>24, <2>1, <2>2, <3>1
      <4>2. IF c.tools[u].started
            THEN g.heard[u] = Whole(u, n[u]) /\ c.tools[u].pending = <<>>
            ELSE g.heard[u] = Whole(u, 0) /\ c.tools[u].pending = Whole(u, n[u])
        BY <1>1 DEF Talk, Heeds
      <4> QED
        BY <4>1, <4>2, Zenon
    <3>2. w.tools[t] = x /\ y.heard[t] = Whole(t, n[t])
      BY <1>4, <1>16, <1>24
    <3>3. IF w.tools[t].started
          THEN y.heard[t] = Whole(t, n[t]) /\ w.tools[t].pending = <<>>
          ELSE y.heard[t] = Whole(t, 0) /\ w.tools[t].pending = Whole(t, n[t])
      BY <1>4, <3>2
    <3>4. DOMAIN w.tools = DOMAIN c.tools
      BY <1>16, <1>24
    <3> QED
      BY <3>1, <3>3, <3>4, Zenon
  <2>4. \A u \in Tools \ DOMAIN w.tools : y.heard[u] = Whole(u, 0) /\ n[u] = 0
    BY <1>1, <1>16, <1>24, <2>1 DEF Talk, Heeds
  <2>5. \A v \in Voices : y.heard[v] = Whole(v, n[v])
    BY <1>1, <1>24, <2>1 DEF Talk, Heeds
  <2> QED
    BY <1>20, <2>3, <2>4, <2>5 DEF Heeds
<1>25. CASE p = <<>>
  <2>1. d = s
    BY <1>22, <1>25
  <2>2. Whole(t, n[t]) = Whole(t, 0)
    BY <1>4, <1>20, <1>23, <1>25
  <2>3. Heeds(s, h, n)
    BY <1>15, <1>20, <1>24, <2>2
  <2>4. Talk(k, s, h, n, b)
    BY <1>1, <1>14, <1>15, <1>18, <1>19, <2>3 DEF Talk
  <2> QED
    BY <1>3, <1>9, <1>16, <2>1, <2>4 DEF Talks, Aside
<1>26. CASE p # <<>>
  <2>1. PICK f : f = Wrote(i, p)
    OBVIOUS
  <2>2. f \in Event /\ Fitting(h, f)
    <3>1. f.type = "delta" /\ f.index = i /\ f.pieces = p
      BY <2>1 DEF Wrote
    <3>2. h.phase = "begun" /\ i \in h.live /\ h.named[i] = t
      BY <1>1, <1>15 DEF Talk
    <3>3. h.heard[t] = Whole(t, 0) /\ Whole(t, 0) \o p = Whole(t, n[t])
      <4>1. <<>> \o p = p
        BY <1>4
      <4> QED
        BY <1>4, <1>15, <1>20, <1>23, <4>1
    <3>4. n[t] \in Nat /\ 0 <= n[t]
      BY <1>4, <1>20
    <3> QED
      BY <1>4, <2>1, <3>1, <3>2, <3>3, <3>4, Events DEF Fitting
  <2>3. PICK y : y = After(h, f)
    OBVIOUS
  <2>4. d = Out(s, f)
    BY <1>22, <1>26, <2>1
  <2>5. d \in Converter /\ Alike(s, d) /\ Flags(s, d) /\ Bill(s, d) /\ Told(k, d.out, y) /\ Sane(y)
    BY <1>14, <2>2, <2>3, <2>4, Emit
  <2>6. /\ y.phase = h.phase /\ y.live = h.live /\ y.named = h.named
        /\ \A u \in Sources : y.heard[u] = IF u = t THEN Whole(t, n[t]) ELSE g.heard[u]
    <3>1. y = After(h, Wrote(i, p)) /\ DOMAIN h.heard = Sources
      BY <1>15, <1>20, <2>1, <2>3
    <3>2. \A u \in Sources : y.heard[u] = IF u = t THEN h.heard[u] \o p ELSE h.heard[u]
      BY <1>15, <3>1, AfterDelta
    <3>3. h.heard[t] \o p = Whole(t, n[t])
      <4>1. <<>> \o p = p
        BY <1>4
      <4>2. h.heard[t] = <<>>
        BY <1>4, <1>15, <1>20, <1>23
      <4> QED
        BY <1>20, <4>1, <4>2
    <3>4. y.phase = h.phase /\ y.live = h.live /\ y.named = h.named
      BY <3>1, AfterDelta
    <3> QED
      BY <1>15, <3>2, <3>3, <3>4, Zenon
  <2>7. Heeds(d, y, n)
    BY <1>24, <2>5, <2>6 DEF Alike
  <2>8. /\ Placed(d, y) /\ Room(d, b) /\ Going(d)
    BY <1>18, <1>19, <2>5, <2>6 DEF Placed, ToolsPlaced, Room, Going, Flags, Alike
  <2>9. Talk(k, d, y, n, b)
    BY <1>1, <1>15, <2>5, <2>6, <2>7, <2>8 DEF Talk
  <2> QED
    BY <1>3, <1>9, <1>16, <2>5, <2>9 DEF Talks, Aside, Alike, Bill
<1> QED
  BY <1>25, <1>26

(* Placed is about the blocks alone.                                         *)
LEMMA PlacedAlike ==
    ASSUME NEW c, NEW d, NEW g, NEW h, Alike(c, d), Placed(c, g),
           h.live = g.live, h.named = g.named
    PROVE  Placed(d, h)
BY DEF Placed, ToolsPlaced, Alike

(* Blocks are where they were, whatever else was noted of the tools.         *)
LEMMA PlacedSame ==
    ASSUME NEW c, NEW d, NEW g, Placed(c, g), d.next = c.next, d.block = c.block,
           d.index = c.index, d.open = c.open, DOMAIN d.tools = DOMAIN c.tools,
           \A u \in DOMAIN c.tools : /\ d.tools[u].at = c.tools[u].at
                                     /\ d.tools[u].started = c.tools[u].started
    PROVE  Placed(d, g)
BY DEF Placed, ToolsPlaced

(* A piece of the arguments of a call whose block has started.               *)
LEMMA ToolWrites ==
    ASSUME NEW k, NEW c, NEW n, NEW b, Talks(k, c, n, b), NEW t \in DOMAIN c.tools,
           c.tools[t].started,
           NEW d, d = Out(c, Wrote(c.tools[t].at, <<<<t, n[t] + 1>>>>))
    PROVE  /\ Talks(k, d, [n EXCEPT ![t] = n[t] + 1], b)
           /\ d.block = c.block /\ d.tools = c.tools /\ Bill(c, d)
<1>1. PICK g : Talk(k, c, g, n, b)
  BY DEF Talks
<1>2. PICK i, m : i = c.tools[t].at /\ m = n[t]
  OBVIOUS
<1>3. c \in Converter /\ t \in Tools /\ t \in Sources /\ i \in Nat
      /\ n \in [Sources -> Nat] /\ m \in Nat
  <2>1. c \in Converter /\ n \in [Sources -> Nat]
    BY <1>1 DEF Talk, Heeds
  <2> QED
    BY <1>2, <2>1, ToolGives, SourcesAre
<1>4. i \in DOMAIN g.named /\ i \in g.live /\ g.named[i] = t
  BY <1>1, <1>2 DEF Talk, Placed, ToolsPlaced
<1>5. PICK p : p = <<<<t, m + 1>>>>
  OBVIOUS
<1>6. p \in Seq(Piece) /\ Whole(t, m) \o p = Whole(t, m + 1)
  BY <1>3, <1>5, OnePiece
<1>7. PICK e : e = Wrote(i, p)
  OBVIOUS
<1>8. g.heard[t] = Whole(t, m) /\ c.tools[t].pending = <<>>
  BY <1>1, <1>2 DEF Talk, Heeds
<1>9. e \in Event /\ Fitting(g, e)
  <2>1. e.type = "delta" /\ e.index = i /\ e.pieces = p
    BY <1>7 DEF Wrote
  <2>2. g.phase = "begun"
    BY <1>1 DEF Talk
  <2>3. m + 1 \in Nat /\ m <= m + 1
    BY <1>3
  <2> QED
    BY <1>3, <1>4, <1>6, <1>7, <1>8, <2>1, <2>2, <2>3, Events DEF Fitting
<1>10. PICK h : h = After(g, e)
  OBVIOUS
<1>11. d \in Converter /\ Alike(c, d) /\ Flags(c, d) /\ Bill(c, d) /\ Told(k, d.out, h) /\ Sane(h)
  <2>1. d = Out(c, e)
    BY <1>2, <1>5, <1>7, Zenon
  <2> QED
    BY <1>1, <1>3, <1>9, <1>10, <2>1, Emit DEF Talk
<1>12. /\ h.phase = g.phase /\ h.live = g.live /\ h.named = g.named
       /\ \A s \in Sources : h.heard[s] = IF s = t THEN Whole(t, m + 1) ELSE g.heard[s]
  <2>1. h = After(g, Wrote(i, p)) /\ DOMAIN g.heard = Sources
    BY <1>1, <1>7, <1>10 DEF Talk, Sane, Hears
  <2>2. \A s \in Sources : h.heard[s] = IF s = t THEN g.heard[s] \o p ELSE g.heard[s]
    BY <1>4, <2>1, AfterDelta
  <2>3. h.phase = g.phase /\ h.live = g.live /\ h.named = g.named
    BY <2>1, AfterDelta
  <2> QED
    BY <1>6, <1>8, <2>2, <2>3
<1>13. PICK n1 : n1 = [n EXCEPT ![t] = m + 1]
  OBVIOUS
<1>14. /\ n1 \in [Sources -> Nat] /\ n1[t] = m + 1
       /\ \A s \in Sources : s # t => n1[s] = n[s] /\ h.heard[s] = g.heard[s]
       /\ h.heard[t] = Whole(t, m + 1)
  BY <1>3, <1>12, <1>13
<1>15. Heeds(d, h, n1)
  <2>1. d.tools = c.tools /\ DOMAIN c.tools \subseteq Tools
    BY <1>1, <1>3, <1>11, Numbers DEF Alike, Talk
  <2>2. \A v \in Voices : v \in Sources /\ v # t
    BY <1>3, SourcesAre
  <2>3. \A v \in Voices : h.heard[v] = Whole(v, n1[v])
    BY <1>1, <1>14, <2>2 DEF Talk, Heeds
  <2>4. ASSUME NEW u \in DOMAIN c.tools
        PROVE  IF c.tools[u].started
               THEN h.heard[u] = Whole(u, n1[u]) /\ c.tools[u].pending = <<>>
               ELSE h.heard[u] = Whole(u, 0) /\ c.tools[u].pending = Whole(u, n1[u])
    <3>1. CASE u = t
      BY <1>8, <1>14, <3>1
    <3>2. CASE u # t
      <4>1. h.heard[u] = g.heard[u] /\ n1[u] = n[u]
        BY <1>14, <2>1, <3>2, SourcesAre
      <4>2. IF c.tools[u].started
            THEN g.heard[u] = Whole(u, n[u]) /\ c.tools[u].pending = <<>>
            ELSE g.heard[u] = Whole(u, 0) /\ c.tools[u].pending = Whole(u, n[u])
        BY <1>1 DEF Talk, Heeds
      <4> QED
        BY <4>1, <4>2, Zenon
    <3> QED
      BY <3>1, <3>2
  <2>5. \A u \in Tools \ DOMAIN c.tools : h.heard[u] = Whole(u, 0) /\ n1[u] = 0
    BY <1>1, <1>14, SourcesAre DEF Talk, Heeds
  <2> QED
    BY <1>14, <2>1, <2>3, <2>4, <2>5 DEF Heeds
<1>16. Placed(d, h) /\ Room(d, b) /\ Going(d)
  <2>1. /\ d.next = c.next /\ d.block = c.block /\ d.index = c.index /\ d.tools = c.tools
        /\ d.open = c.open /\ h.live = g.live /\ h.named = g.named
    BY <1>11, <1>12 DEF Alike
  <2>2. Placed(c, g) /\ Room(c, b) /\ Going(c)
    BY <1>1 DEF Talk
  <2>3. Alike(c, d)
    BY <1>11
  <2>4. Placed(d, h)
    BY <2>1, <2>2, <2>3, PlacedAlike
  <2> QED
    BY <1>11, <2>1, <2>2, <2>4 DEF Room, Going, Flags
<1>17. Talk(k, d, h, n1, b)
  BY <1>1, <1>11, <1>12, <1>15, <1>16 DEF Talk
<1>18. Talks(k, d, n1, b)
  BY <1>17 DEF Talks
<1>19. d.block = c.block /\ d.tools = c.tools
  BY <1>11 DEF Alike
<1> QED
  BY <1>2, <1>11, <1>13, <1>18, <1>19, Zenon

(* A piece of the arguments of a call whose block has yet to start.          *)
LEMMA ToolWaits ==
    ASSUME NEW k, NEW c, NEW n, NEW b, Talks(k, c, n, b), NEW t \in DOMAIN c.tools,
           ~c.tools[t].started,
           NEW x \in ToolState, x.at = c.tools[t].at, x.started = c.tools[t].started,
           NEW n1 \in [Sources -> Nat], n1[t] = n[t] + 1,
           x.pending = Append(c.tools[t].pending, <<t, n1[t]>>),
           \A s \in Sources : s # t => n1[s] = n[s],
           NEW d, d = Retool(c, t, x, c.open)
    PROVE  /\ Talks(k, d, n1, b)
           /\ Aside(c, d, t) /\ d.tools[t] = x
<1>1. PICK g : Talk(k, c, g, n, b)
  BY DEF Talks
<1>2. c \in Converter
  BY <1>1 DEF Talk
<1>3. c.open \in SUBSET Nat
  BY <1>2 DEF Converter
<1>4. /\ d \in Converter /\ Flags(c, d) /\ Aside(c, d, t)
      /\ d.next = c.next /\ d.index = c.index /\ d.open = c.open /\ d.out = c.out
      /\ DOMAIN d.tools = DOMAIN c.tools /\ d.tools[t] = x
  BY <1>2, <1>3, Retooled
<1>5. c.tools[t].started = FALSE /\ t \in Tools /\ DOMAIN c.tools \subseteq Tools
  <2>1. Room(c, b)
    BY <1>1 DEF Talk
  <2> QED
    BY <1>2, <2>1, ToolGives, Numbers
<1>6. \A u \in DOMAIN c.tools : /\ d.tools[u].at = c.tools[u].at
                                /\ d.tools[u].started = c.tools[u].started
  BY <1>4, <1>5 DEF Aside
<1>7. Placed(d, g)
  BY <1>1, <1>4, <1>6, PlacedSame DEF Talk, Aside
<1>9. /\ n1 \in [Sources -> Nat] /\ n[t] \in Nat /\ n1[t] = n[t] + 1
      /\ \A s \in Sources : s # t => n1[s] = n[s]
  BY <1>1, <1>5, SourcesAre DEF Talk, Heeds
<1>10. g.heard[t] = Whole(t, 0) /\ x.pending = Whole(t, n1[t])
  <2>1. g.heard[t] = Whole(t, 0) /\ c.tools[t].pending = Whole(t, n[t])
    BY <1>1 DEF Talk, Heeds
  <2> QED
    BY <1>9, <2>1, WholeLength
<1>11. Heeds(d, g, n1)
  <2>1. \A v \in Voices : g.heard[v] = Whole(v, n1[v])
    BY <1>1, <1>5, <1>9, SourcesAre DEF Talk, Heeds
  <2>2. ASSUME NEW u \in DOMAIN d.tools
        PROVE  IF d.tools[u].started
               THEN g.heard[u] = Whole(u, n1[u]) /\ d.tools[u].pending = <<>>
               ELSE g.heard[u] = Whole(u, 0) /\ d.tools[u].pending = Whole(u, n1[u])
    <3>1. CASE u = t
      BY <1>4, <1>10, <3>1
    <3>2. CASE u # t
      <4>1. d.tools[u] = c.tools[u] /\ n1[u] = n[u] /\ u \in DOMAIN c.tools
        BY <1>4, <1>5, <1>9, <3>2, SourcesAre DEF Aside
      <4>2. IF c.tools[u].started
            THEN g.heard[u] = Whole(u, n[u]) /\ c.tools[u].pending = <<>>
            ELSE g.heard[u] = Whole(u, 0) /\ c.tools[u].pending = Whole(u, n[u])
        BY <1>1, <4>1 DEF Talk, Heeds
      <4> QED
        BY <4>1, <4>2, Zenon
    <3> QED
      BY <3>1, <3>2
  <2>3. \A u \in Tools \ DOMAIN d.tools : g.heard[u] = Whole(u, 0) /\ n1[u] = 0
    BY <1>1, <1>4, <1>9, SourcesAre DEF Talk, Heeds
  <2> QED
    BY <1>9, <2>1, <2>2, <2>3 DEF Heeds
<1>12. Room(d, b) /\ Going(d)
  BY <1>1, <1>4 DEF Talk, Room, Going, Flags
<1>13. Talk(k, d, g, n1, b)
  BY <1>1, <1>4, <1>7, <1>11, <1>12 DEF Talk
<1>14. Talks(k, d, n1, b)
  BY <1>13 DEF Talks
<1> QED
  BY <1>4, <1>14, Zenon

(* The pieces of t once it got args, or was given up on.                     *)
Gains(n, t, args, d) ==
    [n EXCEPT ![t] = IF args = None \/ d.tools[t].aborted THEN n[t] ELSE n[t] + 1]

(* c with one more piece of t held back.                                     *)
Held(c, t, w) == [c EXCEPT !.tools[t].pending = Append(@, <<t, w>>)]

(* A piece that is held back is counted, and is not lost.                    *)
LEMMA HoldsBack ==
    ASSUME NEW k, NEW s, NEW n, NEW b, Talks(k, s, n, b), NEW t \in DOMAIN s.tools,
           ~s.tools[t].started, ~s.tools[t].aborted, NEW w, w = n[t] + 1,
           NEW d, d = Held(s, t, w)
    PROVE  /\ Talks(k, d, [n EXCEPT ![t] = n[t] + 1], b) /\ Aside(s, d, t)
           /\ ~d.tools[t].aborted
<1>1. PICK x, m : x = s.tools[t] /\ m = [n EXCEPT ![t] = n[t] + 1]
  OBVIOUS
<1>2. s \in Converter /\ n \in [Sources -> Nat]
  BY DEF Talks, Talk, Heeds
<1>3. /\ x \in ToolState /\ t \in Tools /\ t \in Sources /\ x.pending \in Seq(Piece)
      /\ x.started = FALSE /\ x.aborted = FALSE
  BY <1>1, <1>2, ToolGives, SourcesAre
<1>4. w \in Nat /\ <<t, w>> \in Piece
  BY <1>2, <1>3 DEF Piece
<1>5. PICK p : p = Append(x.pending, <<t, w>>)
  OBVIOUS
<1>6. p \in Seq(Piece)
  <2> HIDE DEF Piece
  <2> QED
    BY <1>3, <1>4, <1>5
<1>7. PICK y : y = [x EXCEPT !.pending = p]
  OBVIOUS
<1>8. /\ y \in ToolState /\ y.at = x.at /\ y.started = x.started
      /\ y.pending = p /\ y.aborted = FALSE
  <2> HIDE DEF Piece
  <2> QED
    BY <1>3, <1>6, <1>7 DEF ToolState
<1>9. d = Retool(s, t, y, s.open)
  <2>1. d = [s EXCEPT !.tools[t].pending = p]
    BY <1>1, <1>2, <1>5 DEF Held
  <2> HIDE DEF ToolMap, Event, Voices
  <2> QED
    BY <1>1, <1>2, <1>7, <2>1 DEF Converter, Retool
<1>10. /\ m \in [Sources -> Nat] /\ m[t] = n[t] + 1 /\ m[t] = w
       /\ \A u \in Sources : u # t => m[u] = n[u]
  BY <1>1, <1>2, <1>3
<1>11. y.pending = Append(s.tools[t].pending, <<t, m[t]>>)
  BY <1>1, <1>5, <1>8, <1>10
<1>13. y \in ToolState /\ y.at = s.tools[t].at /\ y.started = s.tools[t].started
  BY <1>1, <1>8
<1>12. Talks(k, d, m, b) /\ Aside(s, d, t) /\ d.tools[t] = y
  BY <1>9, <1>10, <1>11, <1>13, ToolWaits
<1> QED
  BY <1>1, <1>8, <1>12

(* Argue: a piece is told, held back, or its call is given up on and it is   *)
(* not counted.                                                              *)
LEMMA Argues ==
    ASSUME NEW k, NEW c, NEW n, NEW b, Talks(k, c, n, b), NEW t \in DOMAIN c.tools,
           ~c.tools[t].aborted, NEW args,
           NEW w, w = n[t] + 1, NEW d, d = Argue(c, t, args, <<t, w>>)
    PROVE  Talks(k, d, Gains(n, t, args, d), b) /\ Aside(c, d, t)
<1>1. PICK g : Talk(k, c, g, n, b)
  BY DEF Talks
<1>2. c \in Converter /\ n \in [Sources -> Nat]
  BY <1>1 DEF Talk, Heeds
<1>3. PICK tool : tool = c.tools[t]
  OBVIOUS
<1>4. /\ tool \in ToolState /\ t \in Tools /\ t \in Sources /\ n[t] \in Nat
      /\ tool.aborted = FALSE /\ tool.blanks \in Nat /\ tool.pending \in Seq(Piece)
      /\ c.open \in SUBSET Nat /\ tool.started \in BOOLEAN
  BY <1>2, <1>3, ToolGives, SourcesAre DEF Converter
<1>5. PICK z : z = IF args = "blank" THEN tool.blanks + 1 ELSE 0
  OBVIOUS
<1>6. z \in Nat
  BY <1>4, <1>5
<1>7. PICK x : x = [tool EXCEPT !.blanks = z]
  OBVIOUS
<1>8. /\ x \in ToolState /\ x.at = tool.at /\ x.started = tool.started
      /\ x.pending = tool.pending /\ x.aborted = FALSE
  <2> HIDE DEF Piece
  <2> QED
    BY <1>4, <1>6, <1>7 DEF ToolState
<1>9. PICK s : s = Retool(c, t, x, c.open)
  OBVIOUS
<1>10. Talks(k, s, n, b) /\ Aside(c, s, t) /\ s.tools[t] = x /\ t \in DOMAIN s.tools
  <2>1. Talks(k, s, n, b) /\ Aside(c, s, t) /\ s.tools[t] = x
    BY <1>3, <1>8, <1>9, Noted
  <2> QED
    BY <2>1 DEF Aside
<1>11. [c EXCEPT !.tools[t].blanks = z] = s
  <2> HIDE DEF ToolMap, Event, Voices
  <2> QED
    BY <1>2, <1>3, <1>7, <1>9 DEF Converter, Retool
<1>12. d = IF args = None THEN c
           ELSE IF z >= Threshold THEN [s EXCEPT !.tools[t].aborted = TRUE]
           ELSE IF tool.started THEN Out(s, Wrote(tool.at, <<<<t, w>>>>))
           ELSE [s EXCEPT !.tools[t].pending = Append(@, <<t, w>>)]
  <2>1. Argue(c, t, args, <<t, w>>)
          = IF args = None THEN c
            ELSE IF z >= Threshold
            THEN [[c EXCEPT !.tools[t].blanks = z] EXCEPT !.tools[t].aborted = TRUE]
            ELSE IF c.tools[t].started
            THEN Out([c EXCEPT !.tools[t].blanks = z],
                     Wrote(c.tools[t].at, <<<<t, w>>>>))
            ELSE [[c EXCEPT !.tools[t].blanks = z] EXCEPT
                     !.tools[t].pending = Append(@, <<t, w>>)]
    BY <1>3, <1>5 DEF Argue
  <2> QED
    BY <1>3, <1>11, <2>1, Zenon
<1>13. PICK m : m = Gains(n, t, args, d)
  OBVIOUS
<1>14. /\ (args = None \/ d.tools[t].aborted) => m = n
       /\ ~(args = None \/ d.tools[t].aborted) => m = [n EXCEPT ![t] = n[t] + 1]
  BY <1>2, <1>4, <1>13 DEF Gains
<1>15. CASE args = None
  <2>1. d = c /\ m = n
    BY <1>12, <1>14, <1>15
  <2>2. Aside(c, c, t)
    BY DEF Aside, Bill
  <2> QED
    BY <1>13, <2>1, <2>2
<1>16. CASE args # None /\ z >= Threshold
  <2>1. d = [s EXCEPT !.tools[t].aborted = TRUE]
    BY <1>12, <1>16
  <2>2. PICK y : y = [x EXCEPT !.aborted = TRUE]
    OBVIOUS
  <2>3. /\ y \in ToolState /\ y.at = x.at /\ y.started = x.started
        /\ y.pending = x.pending /\ y.aborted = TRUE
    <3> HIDE DEF Piece
    <3> QED
      BY <1>8, <2>2 DEF ToolState
  <2>4. s \in Converter
    BY <1>10 DEF Talks, Talk
  <2>5. d = Retool(s, t, y, s.open)
    <3> HIDE DEF ToolMap, Event, Voices
    <3> QED
      BY <1>10, <2>1, <2>2, <2>4 DEF Converter, Retool
  <2>6. Talks(k, d, n, b) /\ Aside(s, d, t) /\ d.tools[t] = y
    BY <1>10, <2>3, <2>5, Noted
  <2>7. m = n
    BY <1>14, <2>3, <2>6
  <2> QED
    BY <1>10, <1>13, <2>6, <2>7, AsideTwice
<1>17. CASE args # None /\ ~(z >= Threshold) /\ tool.started
  <2>1. d = Out(s, Wrote(tool.at, <<<<t, w>>>>))
    BY <1>12, <1>17
  <2>2. s.tools[t].started /\ d = Out(s, Wrote(s.tools[t].at, <<<<t, w>>>>))
    BY <1>8, <1>10, <1>17, <2>1
  <2>3. /\ Talks(k, d, [n EXCEPT ![t] = n[t] + 1], b)
        /\ d.block = s.block /\ d.tools = s.tools /\ Bill(s, d)
    BY <1>10, <2>2, ToolWrites
  <2>4. ~d.tools[t].aborted
    BY <1>8, <1>10, <2>3
  <2>5. m = [n EXCEPT ![t] = n[t] + 1]
    BY <1>14, <1>17, <2>4
  <2>6. Aside(s, d, t)
    BY <1>10, <2>3 DEF Aside
  <2> QED
    BY <1>10, <1>13, <2>3, <2>5, <2>6, AsideTwice
<1>18. CASE args # None /\ ~(z >= Threshold) /\ ~tool.started
  <2>1. d = [s EXCEPT !.tools[t].pending = Append(@, <<t, w>>)]
    BY <1>12, <1>18
  <2>2. ~s.tools[t].started /\ ~s.tools[t].aborted
    BY <1>8, <1>10, <1>18
  <2>3. /\ Talks(k, d, [n EXCEPT ![t] = n[t] + 1], b) /\ Aside(s, d, t)
        /\ ~d.tools[t].aborted
    BY <1>10, <2>1, <2>2, HoldsBack DEF Held
  <2>4. m = [n EXCEPT ![t] = n[t] + 1]
    BY <1>14, <1>18, <2>3
  <2> QED
    BY <1>10, <1>13, <2>3, <2>4, AsideTwice
<1> QED
  BY <1>15, <1>16, <1>17, <1>18

(* A call, with all it does.                                                 *)
LEMMA Calls ==
    ASSUME NEW k, NEW c, NEW n, NEW b, Talks(k, c, n, b), c.block = None,
           NEW call, call.tool \in Tools, call.id \in Fields, call.name \in Fields,
           n[call.tool] = said[call.tool],
           NEW d, d = CallTool(c, call)
    PROVE  /\ Talks(k, d, Gains(n, call.tool, call.args, d), b) /\ Aside(c, d, call.tool)
           /\ d.block = None
<1>1. PICK t : t = call.tool
  OBVIOUS
<1>2. PICK e : e = Entry(c, t)
  OBVIOUS
<1>3. t \in Tools /\ Talks(k, e, n, b) /\ Aside(c, e, t) /\ t \in DOMAIN e.tools
  BY <1>1, <1>2, Enters
<1>4. PICK g : Talk(k, e, g, n, b)
  BY <1>3 DEF Talks
<1>5. e \in Converter /\ n \in [Sources -> Nat] /\ t \in Sources /\ e.block = None
  BY <1>3, <1>4, SourcesAre DEF Talk, Heeds, Aside
<1>6. PICK tool : tool = e.tools[t]
  OBVIOUS
<1>7. tool \in ToolState /\ tool.id \in BOOLEAN /\ tool.name \in BOOLEAN /\ tool.aborted \in BOOLEAN
  BY <1>3, <1>5, <1>6, ToolGives
<1>8. PICK w : w = [e EXCEPT !.tools[t].id = Given(call.id, @),
                             !.tools[t].name = Given(call.name, @)]
  OBVIOUS
<1>9. d = IF tool.aborted THEN e
          ELSE Argue(StartTool(w, t), t, call.args, <<t, n[t] + 1>>)
  BY <1>1, <1>2, <1>6, <1>8 DEF CallTool
<1>10. CASE tool.aborted
  <2>1. d = e
    BY <1>9, <1>10
  <2>2. Gains(n, t, call.args, d) = n
    BY <1>5, <1>6, <1>10, <2>1 DEF Gains
  <2> QED
    BY <1>1, <1>3, <1>5, <2>1, <2>2
<1>11. CASE ~tool.aborted
  <2>1. PICK i, m : i = Given(call.id, tool.id) /\ m = Given(call.name, tool.name)
    OBVIOUS
  <2>2. i \in BOOLEAN /\ m \in BOOLEAN
    BY <1>7, <2>1 DEF Given
  <2>3. PICK x : x = [tool EXCEPT !.id = i, !.name = m]
    OBVIOUS
  <2>4. /\ x \in ToolState /\ x.at = tool.at /\ x.started = tool.started
        /\ x.pending = tool.pending /\ x.aborted = tool.aborted
    <3> HIDE DEF Piece
    <3> QED
      BY <1>7, <2>2, <2>3 DEF ToolState
  <2>5. w = Retool(e, t, x, e.open)
    <3>1. w = [e EXCEPT !.tools[t].id = i, !.tools[t].name = m]
      BY <1>3, <1>5, <1>6, <1>8, <2>1
    <3> HIDE DEF ToolMap, Event, Voices
    <3> QED
      BY <1>3, <1>5, <1>6, <2>3, <3>1 DEF Converter, Retool
  <2>6. Talks(k, w, n, b) /\ Aside(e, w, t) /\ w.tools[t] = x
    BY <1>3, <1>6, <2>4, <2>5, Noted
  <2>7. w.block = None /\ t \in DOMAIN w.tools
    BY <1>3, <1>5, <2>6 DEF Aside
  <2>8. PICK s : s = StartTool(w, t)
    OBVIOUS
  <2>9. Talks(k, s, n, b) /\ Aside(w, s, t) /\ s.tools[t].aborted = FALSE
    <3>1. w.tools[t].aborted = FALSE
      BY <1>7, <1>11, <2>4, <2>6
    <3>2. CASE w.tools[t].started \/ ~w.tools[t].id \/ ~w.tools[t].name
      <4>1. s = w
        BY <2>8, <3>2 DEF StartTool
      <4>2. Aside(w, w, t)
        BY <2>7 DEF Aside, Bill
      <4> QED
        BY <2>6, <3>1, <4>1, <4>2
    <3>3. CASE ~(w.tools[t].started \/ ~w.tools[t].id \/ ~w.tools[t].name)
      <4>1. s = StartLate(w, t)
        BY <2>8, <3>3, Zenon DEF StartTool, StartLate
      <4>2. Talks(k, s, n, b) /\ Aside(w, s, t) /\ s.tools[t] = Begun(w.tools[t])
        BY <2>6, <2>7, <3>3, <4>1, ToolStarts
      <4> QED
        BY <2>4, <2>6, <3>1, <4>2, BegunGives
    <3> QED
      BY <3>2, <3>3
  <2>10. s.block = None /\ t \in DOMAIN s.tools
    BY <2>7, <2>9 DEF Aside
  <2>11. d = Argue(s, t, call.args, <<t, n[t] + 1>>)
    BY <1>9, <1>11, <2>8
  <2>12. Talks(k, d, Gains(n, t, call.args, d), b) /\ Aside(s, d, t)
    BY <2>9, <2>10, <2>11, Argues
  <2>13. Aside(e, s, t)
    BY <2>6, <2>9, AsideTwice
  <2>14. Aside(c, s, t)
    BY <1>3, <2>13, AsideTwice
  <2>15. Aside(c, d, t) /\ d.block = None
    BY <2>10, <2>12, <2>14, AsideTwice DEF Aside
  <2> QED
    BY <1>1, <2>12, <2>15
<1> QED
  BY <1>10, <1>11

-----------------------------------------------------------------------------
(* Folds.                                                                    *)

(* Two folds over the subsets of a finite set that agree at every step.      *)
Agree(p, q, S, pick) ==
    /\ p[{}] = q[{}] /\ \A U \in SUBSET S : U # {} => pick[U] \in U
    /\ \A U \in SUBSET S : U # {} /\ p[U \ {pick[U]}] = q[U \ {pick[U]}] => p[U] = q[U]

(* They agree on the set.                                                    *)
LEMMA FoldsAgree ==
    ASSUME NEW S, IsFiniteSet(S), NEW pick, NEW p, NEW q, Agree(p, q, S, pick)
    PROVE  p[S] = q[S]
<1> DEFINE Q == {U \in SUBSET S : p[U] = q[U]}
<1>1. ASSUME NEW U \in SUBSET S, \A x \in U : U \ {x} \in Q PROVE U \in Q
  BY <1>1 DEF Agree
<1>2. SUBSET S \subseteq Q
  <2> HIDE DEF Q
  <2> QED
    BY <1>1, SubsetsByRemoval
<1> QED
  BY <1>2

(* A finite set has its elements in the order of a number of each.           *)
LEMMA InOrderGives ==
    ASSUME NEW S, IsFiniteSet(S), NEW at, \A s \in S : at[s] \in Int,
           \A r, s \in S : at[r] = at[s] => r = s,
           NEW q, q = InOrder(S, at)
    PROVE  /\ q \in [1..Cardinality(S) -> S] /\ Cardinality(S) \in Nat
           /\ DOMAIN q = 1..Cardinality(S)
           /\ \A i, j \in DOMAIN q : q[i] = q[j] => i = j
           /\ \A s \in S : \E i \in DOMAIN q : q[i] = s
<1> DEFINE Sorts(f, U) == /\ f \in [1..Cardinality(U) -> U]
                          /\ \A i, j \in DOMAIN f : i < j => at[f[i]] < at[f[j]]
           Q == {U \in SUBSET S : \E f : Sorts(f, U)}
<1>1. ASSUME NEW U \in SUBSET S, \A x \in U : U \ {x} \in Q PROVE U \in Q
  <2>1. IsFiniteSet(U) /\ Cardinality(U) \in Nat
    BY FS_Subset, FS_CardinalityType
  <2>2. CASE U = {}
    <3>1. Cardinality(U) = 0
      BY <2>2, FS_EmptySet
    <3>2. Sorts([i \in 1..0 |-> 0], U)
      BY <2>2, <3>1
    <3> HIDE DEF Sorts
    <3> QED
      BY <3>2
  <2>3. CASE U # {}
    <3> DEFINE A == {at[s] : s \in U}
    <3>0. [s \in U |-> at[s]] \in Surjection(U, A)
      BY DEF Surjection
    <3>1. IsFiniteSet(A) /\ A # {} /\ A \subseteq Int
      <4>1. IsFiniteSet(A)
        <5> HIDE DEF A
        <5> QED
          BY <2>1, <3>0, FS_Surjection
      <4> QED
        BY <2>3, <4>1
    <3>2. PICK x \in U : \A y \in U : at[y] <= at[x]
      <4>1. Max(A) \in A /\ \A y \in A : y <= Max(A)
        <5> HIDE DEF A
        <5> QED
          BY <3>1, MaxIsGreatest
      <4> QED
        BY <4>1
    <3>3. PICK n \in Nat : Cardinality(U) = n + 1 /\ Cardinality(U \ {x}) = n
      <4>1. Cardinality(U \ {x}) = Cardinality(U) - 1 /\ IsFiniteSet(U \ {x})
        BY <2>1, FS_RemoveElement, FS_Subset
      <4>2. Cardinality(U \ {x}) \in Nat
        BY <4>1, FS_CardinalityType
      <4> QED
        BY <2>1, <4>1, <4>2
    <3>4. PICK f : Sorts(f, U \ {x})
      BY <1>1
    <3> DEFINE g == [i \in 1..n + 1 |-> IF i = n + 1 THEN x ELSE f[i]]
    <3>5. f \in [1..n -> U \ {x}] /\ DOMAIN f = 1..n
          /\ \A i, j \in 1..n : i < j => at[f[i]] < at[f[j]]
      BY <3>3, <3>4
    <3>6. g \in [1..n + 1 -> U] /\ DOMAIN g = 1..n + 1
      BY <3>5
    <3>7. ASSUME NEW i \in 1..n + 1, NEW j \in 1..n + 1, i < j PROVE at[g[i]] < at[g[j]]
      <4>1. i \in 1..n /\ g[i] = f[i] /\ f[i] \in U \ {x}
        BY <3>5, <3>7
      <4>2. CASE j = n + 1
        <5>1. g[j] = x /\ at[f[i]] <= at[x] /\ at[f[i]] # at[x]
          BY <3>2, <4>1, <4>2
        <5>2. at[f[i]] \in Int /\ at[x] \in Int
          BY <4>1
        <5> QED
          BY <4>1, <5>1, <5>2
      <4>3. CASE j # n + 1
        <5>1. j \in 1..n /\ g[j] = f[j]
          BY <4>3
        <5> QED
          BY <3>5, <3>7, <4>1, <5>1
      <4> QED
        BY <4>2, <4>3
    <3>8. Sorts(g, U)
      <4> HIDE DEF g
      <4> QED
        BY <3>3, <3>6, <3>7
    <3> HIDE DEF Sorts, g
    <3> QED
      BY <3>8
  <2> QED
    BY <2>2, <2>3
<1>2. SUBSET S \subseteq Q
  <2> HIDE DEF Q
  <2> QED
    BY <1>1, SubsetsByRemoval
<1>3. \E f : Sorts(f, S)
  BY <1>2
<1>4. q \in [1..Cardinality(S) -> S] /\ \A i, j \in DOMAIN q : i < j => at[q[i]] < at[q[j]]
  BY <1>3 DEF InOrder
<1>5. PICK n \in Nat : n = Cardinality(S)
  BY FS_CardinalityType
<1>6. \A i, j \in 1..n : q[i] = q[j] => i = j
  <2> SUFFICES ASSUME NEW i \in 1..n, NEW j \in 1..n, q[i] = q[j], i # j PROVE FALSE
    OBVIOUS
  <2>1. q[i] \in S /\ at[q[i]] \in Int
    BY <1>4, <1>5
  <2>2. at[q[i]] < at[q[j]] \/ at[q[j]] < at[q[i]]
    BY <1>4, <1>5
  <2> QED
    BY <2>1, <2>2
<1>7. q \in Injection(1..n, S)
  BY <1>4, <1>5, <1>6 DEF Injection, IsInjective
<1>8. IsFiniteSet(1..n) /\ Cardinality(1..n) = n
  BY FS_Interval
<1>9. q \in Surjection(1..n, S)
  BY <1>5, <1>7, <1>8, FS_Injection
<1>10. \A s \in S : \E i \in 1..n : q[i] = s
  BY <1>9 DEF Surjection
<1> QED
  BY <1>4, <1>5, <1>6, <1>10

(* A fold over a finite set of numbers, greatest last: what holds of the     *)
(* base and is kept by every step holds of every part of it.                 *)
Keeps(Q, D, V, h) ==
    \A U \in SUBSET D : \A x \in U : \A v \in V :
       <<U \ {x}, v>> \in Q => <<U, h[<<x, v>>]>> \in Q

Follows(g, D, V, base, h, Q) ==
    /\ g \in [SUBSET D -> V] /\ g[{}] = base
    /\ \A U \in SUBSET D : <<U, g[U]>> \in Q
    /\ \A U \in SUBSET D : U # {} =>
          /\ Max(U) \in U /\ U \ {Max(U)} \in SUBSET D
          /\ g[U] = h[<<Max(U), g[U \ {Max(U)}]>>]

(* Such a fold is a function of the parts of the set.                        *)
LEMMA FoldFollows ==
    ASSUME NEW D, IsFiniteSet(D), D \subseteq Int, NEW V, NEW base \in V,
           NEW h \in [D \X V -> V], NEW Q, <<{}, base>> \in Q, Keeps(Q, D, V, h)
    PROVE  \E g : Follows(g, D, V, base, h, Q)
<1> DEFINE top == [U \in SUBSET D |-> Max(U)]
<1>1. ASSUME NEW U \in SUBSET D, U # {} PROVE Max(U) \in U /\ U \ {Max(U)} \in SUBSET D
  <2>1. IsFiniteSet(U) /\ U \subseteq Int
    BY FS_Subset
  <2>2. Max(U) \in U
    BY <1>1, <2>1, MaxIsGreatest
  <2> QED
    BY <2>2
<1>2. \A U \in SUBSET D : top[U] = Max(U) /\ (U # {} => top[U] \in U)
  BY <1>1
<1> HIDE DEF top
<1>3. PICK g : Folds(g, D, V, base, top, h)
  BY <1>2, FoldExists
<1>4. g \in [SUBSET D -> V] /\ g[{}] = base
  BY <1>3 DEF Folds
<1>5. ASSUME NEW U \in SUBSET D, U # {} PROVE g[U] = h[<<Max(U), g[U \ {Max(U)}]>>]
  BY <1>2, <1>3, <1>5 DEF Folds
<1> DEFINE P == {U \in SUBSET D : <<U, g[U]>> \in Q}
<1>6. ASSUME NEW U \in SUBSET D, \A x \in U : U \ {x} \in P PROVE U \in P
  <2>1. CASE U = {}
    BY <1>4, <2>1
  <2>2. CASE U # {}
    <3>1. Max(U) \in U /\ U \ {Max(U)} \in P
      BY <1>1, <1>6, <2>2
    <3>2. PICK x, v : x = Max(U) /\ v = g[U \ {Max(U)}]
      OBVIOUS
    <3>3. x \in U /\ v \in V /\ <<U \ {x}, v>> \in Q /\ g[U] = h[<<x, v>>]
      BY <1>1, <1>4, <1>5, <2>2, <3>1, <3>2
    <3>4. <<U, h[<<x, v>>]>> \in Q
      BY <3>3 DEF Keeps
    <3> QED
      BY <3>3, <3>4
  <2> QED
    BY <2>1, <2>2
<1>7. SUBSET D \subseteq P
  <2> HIDE DEF P
  <2> QED
    BY <1>6, SubsetsByRemoval
<1>8. \A U \in SUBSET D : <<U, g[U]>> \in Q
  BY <1>7
<1> QED
  BY <1>1, <1>4, <1>5, <1>8 DEF Follows

(* The calls numbered U have been handled.                                   *)
Called(k, c, n, b, calls, U, e) ==
    \E m \in [Sources -> Nat] :
       /\ Talks(k, e, m, b) /\ e.block = None /\ Bill(c, e)
       /\ \A i \in U :
             /\ calls[i].tool \in DOMAIN e.tools
             /\ m[calls[i].tool]
                  = IF calls[i].args = None \/ e.tools[calls[i].tool].aborted
                    THEN n[calls[i].tool] ELSE n[calls[i].tool] + 1
       /\ \A s \in Sources : (\A i \in U : calls[i].tool # s) => m[s] = n[s]

(* A line's calls, each of a tool of its own.                                *)
Distinct(calls) ==
    /\ calls \in ToolCalls
    /\ \A i, j \in DOMAIN calls : calls[i].tool = calls[j].tool => i = j

(* The fields of a call.                                                     *)
LEMMA CallFields ==
    ASSUME NEW calls \in ToolCalls, NEW i \in DOMAIN calls
    PROVE  /\ calls[i].tool \in Tools /\ calls[i].id \in Fields /\ calls[i].name \in Fields
<1> DEFINE R == [tool : Tools, id : Fields, name : Fields, args : {"none", "plain", "blank"}]
<1>1. calls \in Seq(R)
  BY DEF ToolCalls
<1>2. calls[i] \in R
  <2> HIDE DEF R
  <2> QED
    BY <1>1
<1> QED
  BY <1>2

(* CallTool, for the next of a line's calls.                                 *)
LEMMA CalledNext ==
    ASSUME NEW k, NEW c, NEW n \in [Sources -> Nat], NEW b, NEW calls, Distinct(calls),
           \A t \in Tools : n[t] = said[t],
           NEW U \in SUBSET DOMAIN calls, NEW x \in U, NEW e,
           Called(k, c, n, b, calls, U \ {x}, e), NEW d, d = CallTool(e, calls[x])
    PROVE  Called(k, c, n, b, calls, U, d) /\ d \in Converter
<1>1. PICK m \in [Sources -> Nat] :
         /\ Talks(k, e, m, b) /\ e.block = None /\ Bill(c, e)
         /\ \A i \in U \ {x} :
               /\ calls[i].tool \in DOMAIN e.tools
               /\ m[calls[i].tool]
                    = IF calls[i].args = None \/ e.tools[calls[i].tool].aborted
                      THEN n[calls[i].tool] ELSE n[calls[i].tool] + 1
         /\ \A s \in Sources : (\A i \in U \ {x} : calls[i].tool # s) => m[s] = n[s]
  BY DEF Called
<1>2. PICK call, t : call = calls[x] /\ t = calls[x].tool
  OBVIOUS
<1>3. /\ t \in Tools /\ t \in Sources /\ call.id \in Fields /\ call.name \in Fields
      /\ call.tool = t /\ x \in DOMAIN calls
  <2>1. calls \in ToolCalls /\ x \in DOMAIN calls
    BY DEF Distinct
  <2> QED
    BY <1>2, <2>1, CallFields, SourcesAre
<1>4. \A i \in U \ {x} : calls[i].tool # t /\ calls[i].tool \in Sources
  <2>1. \A i \in U : i \in DOMAIN calls /\ calls[i].tool \in Sources
    BY CallFields, SourcesAre DEF Distinct
  <2> QED
    BY <1>2, <2>1 DEF Distinct
<1>5. m[t] = n[t] /\ n[t] = said[t] /\ n[t] \in Nat
  BY <1>1, <1>3, <1>4
<1>6. PICK m1 : m1 = Gains(m, t, call.args, d)
  OBVIOUS
<1>7. Talks(k, d, m1, b) /\ Aside(e, d, t) /\ d.block = None
  <2>1. m[call.tool] = said[call.tool] /\ d = CallTool(e, call)
    BY <1>2, <1>3, <1>5
  <2>2. /\ Talks(k, d, Gains(m, call.tool, call.args, d), b) /\ Aside(e, d, call.tool)
        /\ d.block = None
    BY <1>1, <1>3, <2>1, Calls
  <2> QED
    BY <1>3, <1>6, <2>2
<1>8. /\ m1 \in [Sources -> Nat]
      /\ m1[t] = IF call.args = None \/ d.tools[t].aborted THEN n[t] ELSE n[t] + 1
      /\ \A s \in Sources : s # t => m1[s] = m[s]
  BY <1>1, <1>3, <1>5, <1>6 DEF Gains
<1>9. /\ t \in DOMAIN d.tools /\ Bill(c, d)
      /\ \A u \in DOMAIN e.tools : u \in DOMAIN d.tools /\ (u # t => d.tools[u] = e.tools[u])
  BY <1>1, <1>7 DEF Aside, Bill
<1>10. ASSUME NEW i \in U
       PROVE  /\ calls[i].tool \in DOMAIN d.tools
              /\ m1[calls[i].tool]
                   = IF calls[i].args = None \/ d.tools[calls[i].tool].aborted
                     THEN n[calls[i].tool] ELSE n[calls[i].tool] + 1
  <2>1. CASE i = x
    BY <1>2, <1>8, <1>9, <2>1
  <2>2. CASE i # x
    <3>1. PICK u : u = calls[i].tool
      OBVIOUS
    <3>2. /\ i \in U \ {x} /\ u # t /\ u \in Sources /\ u \in DOMAIN e.tools
          /\ m[u] = IF calls[i].args = None \/ e.tools[u].aborted THEN n[u] ELSE n[u] + 1
      BY <1>1, <1>4, <2>2, <3>1
    <3>3. u \in DOMAIN d.tools /\ d.tools[u] = e.tools[u] /\ m1[u] = m[u]
      BY <1>8, <1>9, <3>2
    <3> QED
      BY <3>1, <3>2, <3>3
  <2> QED
    BY <2>1, <2>2
<1>11. ASSUME NEW s \in Sources, \A i \in U : calls[i].tool # s PROVE m1[s] = n[s]
  BY <1>1, <1>2, <1>8, <1>11
<1>12. d \in Converter
  BY <1>7 DEF Talks, Talk
<1> QED
  BY <1>7, <1>8, <1>9, <1>10, <1>11, <1>12 DEF Called

-----------------------------------------------------------------------------
(* The calls of a line.                                                      *)

(* The fold of a line's calls handles them all.                              *)
LEMMA CallsFold ==
    ASSUME NEW k, NEW c, NEW n \in [Sources -> Nat], NEW b, NEW calls, Distinct(calls),
           \A t \in Tools : n[t] = said[t], Talks(k, c, n, b), c.block = None
    PROVE  Called(k, c, n, b, calls, DOMAIN calls, FoldLeft(CallTool, c, calls))
<1> DEFINE D == DOMAIN calls
           Step(i, v) == CallTool(v, calls[i])
           h == [d \in D \X Converter |->
                   IF Step(d[1], d[2]) \in Converter THEN Step(d[1], d[2]) ELSE d[2]]
           Q == {d \in (SUBSET D) \X Converter : Called(k, c, n, b, calls, d[1], d[2])}
<1>1. IsFiniteSet(D) /\ D \subseteq Int
  <2>1. calls \in Seq([tool : Tools, id : Fields, name : Fields, args : {"none", "plain", "blank"}])
    BY DEF Distinct, ToolCalls
  <2>2. PICK l \in Nat : D = 1..l
    BY <2>1
  <2> QED
    BY <2>2, FS_Interval
<1>2. c \in Converter
  BY DEF Talks, Talk
<1>3. ASSUME NEW U \in SUBSET D, NEW x \in U, NEW v, Called(k, c, n, b, calls, U \ {x}, v)
      PROVE  Called(k, c, n, b, calls, U, Step(x, v)) /\ Step(x, v) \in Converter
  BY <1>3, CalledNext
<1>4. \A i \in D, v \in Converter :
         h[<<i, v>>] = IF Step(i, v) \in Converter THEN Step(i, v) ELSE v
  <2> HIDE DEF Step, Converter
  <2> QED
    OBVIOUS
<1>5. h \in [D \X Converter -> Converter]
  <2> HIDE DEF Step, Converter
  <2> QED
    OBVIOUS
<1>6. <<{}, c>> \in Q
  <2>1. Called(k, c, n, b, calls, {}, c)
    BY DEF Called, Bill
  <2> HIDE DEF Converter
  <2> QED
    BY <1>2, <2>1
<1>7. ASSUME NEW U \in SUBSET D, NEW x \in U, NEW v \in Converter, <<U \ {x}, v>> \in Q
      PROVE  <<U, h[<<x, v>>]>> \in Q /\ h[<<x, v>>] = Step(x, v)
  <2>1. Called(k, c, n, b, calls, U \ {x}, v)
    BY <1>7
  <2>2. Called(k, c, n, b, calls, U, Step(x, v)) /\ Step(x, v) \in Converter
    BY <1>3, <2>1
  <2>3. h[<<x, v>>] = Step(x, v)
    BY <1>4, <2>2
  <2> HIDE DEF Converter, Step, h
  <2> QED
    BY <2>2, <2>3
<1>8. PICK g : Follows(g, D, Converter, c, h, Q)
  <2> HIDE DEF D, h, Q
  <2>1. Keeps(Q, D, Converter, h)
    BY <1>7 DEF Keeps
  <2> QED
    BY <1>1, <1>2, <1>5, <1>6, <2>1, FoldFollows
<1>9. ASSUME NEW U \in SUBSET D, U # {}
      PROVE  /\ Max(U) \in U /\ U \ {Max(U)} \in SUBSET D
             /\ g[U] = Step(Max(U), g[U \ {Max(U)}])
  <2>1. PICK x, v : x = Max(U) /\ v = g[U \ {Max(U)}]
    OBVIOUS
  <2>2. x \in U /\ U \ {x} \in SUBSET D /\ v \in Converter /\ <<U \ {x}, v>> \in Q
        /\ g[U] = h[<<x, v>>]
    <3> HIDE DEF h, Q, Converter
    <3>1. x \in U /\ U \ {x} \in SUBSET D /\ g[U] = h[<<x, v>>]
      BY <1>8, <1>9, <2>1 DEF Follows
    <3>2. v = g[U \ {x}] /\ v \in Converter
      BY <1>8, <2>1, <3>1 DEF Follows
    <3> QED
      BY <1>8, <3>1, <3>2 DEF Follows
  <2>3. h[<<x, v>>] = Step(x, v)
    <3> HIDE DEF h, Q, Converter, Step
    <3> QED
      BY <1>7, <2>2
  <2> HIDE DEF h, Step
  <2> QED
    BY <2>1, <2>2, <2>3
<1> HIDE DEF h
<1>10. FoldLeft(CallTool, c, calls) = g[D]
  <2> DEFINE Solves(f) ==
               f = [U \in SUBSET D |->
                      IF U = {} THEN c ELSE CallTool(f[U \ {Max(U)}], calls[Max(U)])]
             k0 == CHOOSE f : Solves(f)
             part == [U \in SUBSET D |-> g[U]]
  <2>1. FoldLeft(CallTool, c, calls) = k0[D]
    BY DEF FoldLeft, MapThenFoldSet
  <2>2. Solves(part)
    <3>1. ASSUME NEW U \in SUBSET D, U # {}
          PROVE  part[U] = CallTool(part[U \ {Max(U)}], calls[Max(U)])
      BY <1>9, <3>1
    <3>2. part[{}] = c
      BY <1>8 DEF Follows
    <3> QED
      BY <3>1, <3>2
  <2>3. Solves(k0)
    <3> HIDE DEF Solves, part
    <3> QED
      BY <2>2, Zenon
  <2> HIDE DEF k0
  <2> DEFINE top == [U \in SUBSET D |-> Max(U)]
  <2>4. \A U \in SUBSET D : U # {} => top[U] \in U
    BY <1>9
  <2>5. ASSUME NEW U \in SUBSET D
        PROVE  k0[U] = IF U = {} THEN c ELSE Step(top[U], k0[U \ {top[U]}])
    BY <2>3
  <2>6. ASSUME NEW U \in SUBSET D, U # {} PROVE g[U] = Step(top[U], g[U \ {top[U]}])
    BY <1>9, <2>6
  <2> HIDE DEF top, Step
  <2>7. k0[{}] = g[{}]
    BY <1>8, <2>5 DEF Follows
  <2>8. \A U \in SUBSET D : U # {} /\ k0[U \ {top[U]}] = g[U \ {top[U]}] => k0[U] = g[U]
    BY <2>5, <2>6
  <2>9. k0[D] = g[D]
    <3>1. IsFiniteSet(D)
      BY <1>1
    <3> HIDE DEF D
    <3>2. Agree(k0, g, D, top)
      BY <2>4, <2>7, <2>8 DEF Agree
    <3> QED
      BY <3>1, <3>2, FoldsAgree
  <2> QED
    BY <2>1, <2>9
<1>11. Called(k, c, n, b, calls, D, g[D])
  <2>1. <<D, g[D]>> \in Q
    BY <1>8 DEF Follows
  <2> HIDE DEF Converter
  <2> QED
    BY <2>1
<1> QED
  BY <1>10, <1>11

(* The pieces of every source after calls, if d is what they came to.        *)
WithCalls(n, calls, d) ==
    [s \in Sources |->
        IF s \in Voices THEN n[s]
        ELSE n[s] + (IF \E i \in DOMAIN calls : calls[i].tool = s /\ calls[i].args # None
                                                 /\ ~d.tools[s].aborted THEN 1 ELSE 0)]

(* CallTools: the calls of a line, after whatever block was open.            *)
LEMMA AllCalls ==
    ASSUME NEW k, NEW c, NEW n \in [Sources -> Nat], NEW b, NEW calls, Distinct(calls),
           \A t \in Tools : n[t] = said[t], Talks(k, c, n, b),
           NEW d, d = CallTools(c, calls)
    PROVE  /\ Talks(k, d, WithCalls(n, calls, d), b) /\ Bill(c, d)
           /\ \A i \in DOMAIN calls : calls[i].tool \in DOMAIN d.tools
<1>1. PICK n1 : n1 = WithCalls(n, calls, d)
  OBVIOUS
<1>2. /\ n1 = [s \in Sources |-> n1[s]] /\ \A v \in Voices : n1[v] = n[v]
      /\ \A t \in Tools :
            n1[t] = n[t] + (IF \E i \in DOMAIN calls : calls[i].tool = t /\ calls[i].args # None
                                                        /\ ~d.tools[t].aborted THEN 1 ELSE 0)
  <2>1. \A t \in Tools : t \in Sources /\ t \notin Voices
    BY SourcesAre
  <2>2. \A v \in Voices : v \in Sources
    BY SourcesAre
  <2> QED
    BY <1>1, <2>1, <2>2 DEF WithCalls
<1>3. \A t \in Tools : t \in Sources /\ t \notin Voices /\ n[t] \in Nat
  BY SourcesAre
<1>4. CASE calls = <<>>
  <2>1. d = c
    BY <1>4 DEF CallTools
  <2>2. \A t \in Tools : n1[t] = n[t]
    <3>1. DOMAIN calls = {}
      BY <1>4
    <3> SUFFICES ASSUME NEW t \in Tools PROVE n1[t] = n[t]
      OBVIOUS
    <3>2. ~\E i \in DOMAIN calls : calls[i].tool = t /\ calls[i].args # None
                                  /\ ~d.tools[t].aborted
      BY <3>1
    <3>3. n1[t] = n[t] + 0
      BY <1>2, <3>2
    <3> QED
      BY <1>3, <3>3
  <2>3. n1 = n
    <3>1. \A s \in Sources : n1[s] = n[s]
      BY <1>2, <2>2, SourcesAre
    <3> QED
      BY <1>2, <3>1
  <2> QED
    BY <1>1, <1>4, <2>1, <2>3 DEF Bill
<1>5. CASE calls # <<>>
  <2>1. PICK a : a = CloseBlock(c)
    OBVIOUS
  <2>2. Talks(k, a, n, b) /\ a.block = None /\ Bill(c, a)
    BY <2>1, BlockCloses
  <2>3. d = FoldLeft(CallTool, a, calls)
    BY <1>5, <2>1 DEF CallTools
  <2>4. Called(k, a, n, b, calls, DOMAIN calls, d)
    BY <2>2, <2>3, CallsFold
  <2>5. PICK m \in [Sources -> Nat] :
          /\ Talks(k, d, m, b) /\ d.block = None /\ Bill(a, d)
          /\ \A i \in DOMAIN calls :
                /\ calls[i].tool \in DOMAIN d.tools
                /\ m[calls[i].tool]
                     = IF calls[i].args = None \/ d.tools[calls[i].tool].aborted
                       THEN n[calls[i].tool] ELSE n[calls[i].tool] + 1
          /\ \A s \in Sources : (\A i \in DOMAIN calls : calls[i].tool # s) => m[s] = n[s]
    BY <2>4 DEF Called
  <2>6. \A i \in DOMAIN calls : calls[i].tool \in Tools
    BY CallFields DEF Distinct
  <2>7. \A v \in Voices : m[v] = n[v]
    BY <2>5, <2>6, SourcesAre
  <2>8. ASSUME NEW t \in Tools PROVE m[t] = n1[t]
    <3>1. CASE \A i \in DOMAIN calls : calls[i].tool # t
      BY <1>2, <1>3, <2>5, <3>1
    <3>2. CASE \E i \in DOMAIN calls : calls[i].tool = t
      <4>1. PICK i \in DOMAIN calls : calls[i].tool = t
        BY <3>2
      <4>2. m[t] = IF calls[i].args = None \/ d.tools[t].aborted THEN n[t] ELSE n[t] + 1
        BY <2>5, <4>1
      <4>3. \A j \in DOMAIN calls : calls[j].tool = t => j = i
        BY <4>1 DEF Distinct
      <4>4. n1[t] = n[t] + (IF calls[i].args # None /\ ~d.tools[t].aborted THEN 1 ELSE 0)
        BY <1>2, <4>1, <4>3
      <4> QED
        BY <1>3, <4>2, <4>4
    <3> QED
      BY <3>1, <3>2
  <2>9. m = n1
    <3>1. \A s \in Sources : m[s] = n1[s]
      BY <1>2, <2>7, <2>8, SourcesAre
    <3> QED
      BY <1>2, <3>1
  <2> QED
    BY <1>1, <2>2, <2>5, <2>9 DEF Bill
<1> QED
  BY <1>4, <1>5

-----------------------------------------------------------------------------
(* The calls that start late.                                                *)

(* Those numbered U in q have started.                                       *)
Lated(k, c, n, b, q, U, e) ==
    /\ Talks(k, e, n, b) /\ e.block = None /\ Bill(c, e)
    /\ DOMAIN e.tools = DOMAIN c.tools
    /\ \A t \in DOMAIN c.tools : e.tools[t].aborted = c.tools[t].aborted
    /\ \A i \in U : e.tools[q[i]].started
    /\ \A t \in DOMAIN c.tools : (\A i \in U : q[i] # t) => e.tools[t] = c.tools[t]

(* q lists the elements of S, each once.                                     *)
Enumerates(q, S) ==
    /\ IsFiniteSet(DOMAIN q) /\ DOMAIN q \subseteq Int
    /\ \A i \in DOMAIN q : q[i] \in S
    /\ \A i, j \in DOMAIN q : q[i] = q[j] => i = j
    /\ \A s \in S : \E i \in DOMAIN q : q[i] = s

(* StartLate, for the next of them.                                          *)
LEMMA LatedNext ==
    ASSUME NEW k, NEW c, NEW n, NEW b, NEW q, Enumerates(q, Late(c)),
           NEW U \in SUBSET DOMAIN q, NEW x \in U, NEW e,
           Lated(k, c, n, b, q, U \ {x}, e), NEW d, d = StartLate(e, q[x])
    PROVE  Lated(k, c, n, b, q, U, d) /\ d \in Converter
<1>1. PICK t : t = q[x]
  OBVIOUS
<1>2. /\ t \in DOMAIN c.tools /\ ~c.tools[t].started /\ \A i \in U \ {x} : q[i] # t
  BY <1>1 DEF Enumerates, Late
<1>3. e.tools[t] = c.tools[t] /\ t \in DOMAIN e.tools /\ e.block = None /\ Talks(k, e, n, b)
  BY <1>2 DEF Lated
<1>4. Talks(k, d, n, b) /\ Aside(e, d, t) /\ d.tools[t] = Begun(c.tools[t])
  BY <1>1, <1>2, <1>3, ToolStarts
<1>5. e \in Converter /\ d \in Converter
  BY <1>3, <1>4 DEF Talks, Talk
<1>6. d.tools[t].started = TRUE /\ d.tools[t].aborted = c.tools[t].aborted
  <2>1. c.tools[t] \in ToolState
    BY <1>3, <1>5, ToolGives
  <2> QED
    BY <1>4, <2>1, BegunGives
<1>7. /\ DOMAIN d.tools = DOMAIN c.tools /\ d.block = None /\ Bill(c, d)
      /\ \A u \in DOMAIN c.tools : u # t => d.tools[u] = e.tools[u]
  BY <1>2, <1>3, <1>4 DEF Aside, Lated, Bill
<1>8. \A u \in DOMAIN c.tools : d.tools[u].aborted = c.tools[u].aborted
  BY <1>6, <1>7 DEF Lated
<1>9. ASSUME NEW i \in U PROVE d.tools[q[i]].started
  <2>1. CASE i = x
    BY <1>1, <1>6, <2>1
  <2>2. CASE i # x
    <3>1. q[i] # t /\ q[i] \in DOMAIN c.tools /\ e.tools[q[i]].started
      BY <1>2, <2>2 DEF Lated, Enumerates, Late
    <3> QED
      BY <1>7, <3>1
  <2> QED
    BY <2>1, <2>2
<1>10. ASSUME NEW u \in DOMAIN c.tools, \A i \in U : q[i] # u PROVE d.tools[u] = c.tools[u]
  <2>1. u # t /\ e.tools[u] = c.tools[u]
    BY <1>1, <1>10 DEF Lated
  <2> QED
    BY <1>7, <2>1
<1> QED
  BY <1>4, <1>5, <1>7, <1>8, <1>9, <1>10 DEF Lated

(* The fold of the late starts starts them all.                              *)
LEMMA LatesFold ==
    ASSUME NEW k, NEW c, NEW n, NEW b, NEW q, Enumerates(q, Late(c)),
           Talks(k, c, n, b), c.block = None
    PROVE  Lated(k, c, n, b, q, DOMAIN q, FoldLeft(StartLate, c, q))
<1> DEFINE D == DOMAIN q
           Step(i, v) == StartLate(v, q[i])
           h == [d \in D \X Converter |->
                   IF Step(d[1], d[2]) \in Converter THEN Step(d[1], d[2]) ELSE d[2]]
           Q == {d \in (SUBSET D) \X Converter : Lated(k, c, n, b, q, d[1], d[2])}
<1>1. IsFiniteSet(D) /\ D \subseteq Int
  BY DEF Enumerates
<1>2. c \in Converter
  BY DEF Talks, Talk
<1>3. ASSUME NEW U \in SUBSET D, NEW x \in U, NEW v, Lated(k, c, n, b, q, U \ {x}, v)
      PROVE  Lated(k, c, n, b, q, U, Step(x, v)) /\ Step(x, v) \in Converter
  BY <1>3, LatedNext
<1>4. \A i \in D, v \in Converter :
         h[<<i, v>>] = IF Step(i, v) \in Converter THEN Step(i, v) ELSE v
  <2> HIDE DEF Step, Converter
  <2> QED
    OBVIOUS
<1>5. h \in [D \X Converter -> Converter]
  <2> HIDE DEF Step, Converter
  <2> QED
    OBVIOUS
<1>6. <<{}, c>> \in Q
  <2>1. Lated(k, c, n, b, q, {}, c)
    BY DEF Lated, Bill
  <2> HIDE DEF Converter
  <2> QED
    BY <1>2, <2>1
<1>7. ASSUME NEW U \in SUBSET D, NEW x \in U, NEW v \in Converter, <<U \ {x}, v>> \in Q
      PROVE  <<U, h[<<x, v>>]>> \in Q /\ h[<<x, v>>] = Step(x, v)
  <2>1. Lated(k, c, n, b, q, U \ {x}, v)
    BY <1>7
  <2>2. Lated(k, c, n, b, q, U, Step(x, v)) /\ Step(x, v) \in Converter
    BY <1>3, <2>1
  <2>3. h[<<x, v>>] = Step(x, v)
    BY <1>4, <2>2
  <2> HIDE DEF Converter, Step, h
  <2> QED
    BY <2>2, <2>3
<1>8. PICK g : Follows(g, D, Converter, c, h, Q)
  <2> HIDE DEF D, h, Q
  <2>1. Keeps(Q, D, Converter, h)
    BY <1>7 DEF Keeps
  <2> QED
    BY <1>1, <1>2, <1>5, <1>6, <2>1, FoldFollows
<1>9. ASSUME NEW U \in SUBSET D, U # {}
      PROVE  /\ Max(U) \in U /\ U \ {Max(U)} \in SUBSET D
             /\ g[U] = Step(Max(U), g[U \ {Max(U)}])
  <2>1. PICK x, v : x = Max(U) /\ v = g[U \ {Max(U)}]
    OBVIOUS
  <2>2. x \in U /\ U \ {x} \in SUBSET D /\ v \in Converter /\ <<U \ {x}, v>> \in Q
        /\ g[U] = h[<<x, v>>]
    <3> HIDE DEF h, Q, Converter
    <3>1. x \in U /\ U \ {x} \in SUBSET D /\ g[U] = h[<<x, v>>]
      BY <1>8, <1>9, <2>1 DEF Follows
    <3>2. v = g[U \ {x}] /\ v \in Converter
      BY <1>8, <2>1, <3>1 DEF Follows
    <3> QED
      BY <1>8, <3>1, <3>2 DEF Follows
  <2>3. h[<<x, v>>] = Step(x, v)
    <3> HIDE DEF h, Q, Converter, Step
    <3> QED
      BY <1>7, <2>2
  <2> HIDE DEF h, Step
  <2> QED
    BY <2>1, <2>2, <2>3
<1> HIDE DEF h
<1>10. FoldLeft(StartLate, c, q) = g[D]
  <2> DEFINE Solves(f) ==
               f = [U \in SUBSET D |->
                      IF U = {} THEN c ELSE StartLate(f[U \ {Max(U)}], q[Max(U)])]
             k0 == CHOOSE f : Solves(f)
             part == [U \in SUBSET D |-> g[U]]
  <2>1. FoldLeft(StartLate, c, q) = k0[D]
    BY DEF FoldLeft, MapThenFoldSet
  <2>2. Solves(part)
    <3>1. ASSUME NEW U \in SUBSET D, U # {}
          PROVE  part[U] = StartLate(part[U \ {Max(U)}], q[Max(U)])
      BY <1>9, <3>1
    <3>2. part[{}] = c
      BY <1>8 DEF Follows
    <3> QED
      BY <3>1, <3>2
  <2>3. Solves(k0)
    <3> HIDE DEF Solves, part
    <3> QED
      BY <2>2, Zenon
  <2> HIDE DEF k0
  <2> DEFINE top == [U \in SUBSET D |-> Max(U)]
  <2>4. \A U \in SUBSET D : U # {} => top[U] \in U
    BY <1>9
  <2>5. ASSUME NEW U \in SUBSET D
        PROVE  k0[U] = IF U = {} THEN c ELSE Step(top[U], k0[U \ {top[U]}])
    BY <2>3
  <2>6. ASSUME NEW U \in SUBSET D, U # {} PROVE g[U] = Step(top[U], g[U \ {top[U]}])
    BY <1>9, <2>6
  <2> HIDE DEF top, Step
  <2>7. k0[{}] = g[{}]
    BY <1>8, <2>5 DEF Follows
  <2>8. \A U \in SUBSET D : U # {} /\ k0[U \ {top[U]}] = g[U \ {top[U]}] => k0[U] = g[U]
    BY <2>5, <2>6
  <2>9. k0[D] = g[D]
    <3>1. IsFiniteSet(D)
      BY <1>1
    <3> HIDE DEF D
    <3>2. Agree(k0, g, D, top)
      BY <2>4, <2>7, <2>8 DEF Agree
    <3> QED
      BY <3>1, <3>2, FoldsAgree
  <2> QED
    BY <2>1, <2>9
<1>11. Lated(k, c, n, b, q, D, g[D])
  <2>1. <<D, g[D]>> \in Q
    BY <1>8 DEF Follows
  <2> HIDE DEF Converter
  <2> QED
    BY <2>1
<1> QED
  BY <1>10, <1>11

-----------------------------------------------------------------------------
(* The blocks that are closed at the end.                                    *)

(* The blocks numbered U in q have been closed.                              *)
Shut(k, c, g0, q, U, e) ==
    \E g : /\ e \in Converter /\ Alike(c, e) /\ Flags(c, e) /\ Bill(c, e)
           /\ Told(k, e.out, g) /\ Sane(g) /\ g.phase = "begun"
           /\ g.heard = g0.heard /\ g.live = g0.live \ {q[i] : i \in U}

(* One more block is closed.                                                 *)
LEMMA ShutNext ==
    ASSUME NEW k, NEW c, NEW g0, NEW q, Enumerates(q, g0.live),
           NEW U \in SUBSET DOMAIN q, NEW x \in U, NEW e, Shut(k, c, g0, q, U \ {x}, e),
           NEW d, d = StopBlock(e, q[x]), g0.live \in SUBSET Nat
    PROVE  Shut(k, c, g0, q, U, d) /\ d \in Converter
<1>1. PICK g : /\ e \in Converter /\ Alike(c, e) /\ Flags(c, e) /\ Bill(c, e)
               /\ Told(k, e.out, g) /\ Sane(g) /\ g.phase = "begun"
               /\ g.heard = g0.heard /\ g.live = g0.live \ {q[i] : i \in U \ {x}}
  BY DEF Shut
<1>2. PICK i, f : i = q[x] /\ f = Stopped(i)
  OBVIOUS
<1>3. i \in Nat /\ i \in g.live
  BY <1>1, <1>2 DEF Enumerates
<1>4. f \in Event /\ Fitting(g, f)
  <2>1. f.type = "stop" /\ f.index = i
    BY <1>2 DEF Stopped
  <2> QED
    BY <1>1, <1>2, <1>3, <2>1, Events DEF Fitting
<1>5. PICK h : h = After(g, f)
  OBVIOUS
<1>6. d \in Converter /\ Alike(e, d) /\ Flags(e, d) /\ Bill(e, d) /\ Told(k, d.out, h) /\ Sane(h)
  <2>1. d = Out(e, f)
    BY <1>2, Zenon DEF StopBlock
  <2>2. e \in Converter /\ Told(k, e.out, g) /\ Sane(g)
    BY <1>1
  <2> QED
    BY <1>4, <1>5, <2>1, <2>2, Emit
<1>7. h.phase = g.phase /\ h.live = g.live \ {i} /\ h.heard = g.heard
  BY <1>2, <1>5, AfterStop
<1>8. h.live = g0.live \ {q[j] : j \in U}
  BY <1>1, <1>2, <1>7
<1>9. Alike(c, d) /\ Flags(c, d) /\ Bill(c, d)
  BY <1>1, <1>6 DEF Alike, Flags, Bill
<1> QED
  BY <1>1, <1>6, <1>7, <1>8, <1>9 DEF Shut

(* The fold over the open blocks closes them all.                            *)
LEMMA ShutFold ==
    ASSUME NEW k, NEW c, NEW g0, NEW q, Enumerates(q, g0.live), c \in Converter,
           Told(k, c.out, g0), Sane(g0), g0.phase = "begun", g0.live \in SUBSET Nat
    PROVE  Shut(k, c, g0, q, DOMAIN q, FoldLeft(StopBlock, c, q))
<1> DEFINE D == DOMAIN q
           Step(i, v) == StopBlock(v, q[i])
           h == [d \in D \X Converter |->
                   IF Step(d[1], d[2]) \in Converter THEN Step(d[1], d[2]) ELSE d[2]]
           Q == {d \in (SUBSET D) \X Converter : Shut(k, c, g0, q, d[1], d[2])}
<1>1. IsFiniteSet(D) /\ D \subseteq Int
  BY DEF Enumerates
<1>2. c \in Converter
  OBVIOUS
<1>3. ASSUME NEW U \in SUBSET D, NEW x \in U, NEW v, Shut(k, c, g0, q, U \ {x}, v)
      PROVE  Shut(k, c, g0, q, U, Step(x, v)) /\ Step(x, v) \in Converter
  BY <1>3, ShutNext
<1>4. \A i \in D, v \in Converter :
         h[<<i, v>>] = IF Step(i, v) \in Converter THEN Step(i, v) ELSE v
  <2> HIDE DEF Step, Converter
  <2> QED
    OBVIOUS
<1>5. h \in [D \X Converter -> Converter]
  <2> HIDE DEF Step, Converter
  <2> QED
    OBVIOUS
<1>6. <<{}, c>> \in Q
  <2>1. Shut(k, c, g0, q, {}, c)
    BY DEF Shut, Alike, Flags, Bill
  <2> HIDE DEF Converter
  <2> QED
    BY <1>2, <2>1
<1>7. ASSUME NEW U \in SUBSET D, NEW x \in U, NEW v \in Converter, <<U \ {x}, v>> \in Q
      PROVE  <<U, h[<<x, v>>]>> \in Q /\ h[<<x, v>>] = Step(x, v)
  <2>1. Shut(k, c, g0, q, U \ {x}, v)
    BY <1>7
  <2>2. Shut(k, c, g0, q, U, Step(x, v)) /\ Step(x, v) \in Converter
    BY <1>3, <2>1
  <2>3. h[<<x, v>>] = Step(x, v)
    BY <1>4, <2>2
  <2> HIDE DEF Converter, Step, h
  <2> QED
    BY <2>2, <2>3
<1>8. PICK g : Follows(g, D, Converter, c, h, Q)
  <2> HIDE DEF D, h, Q
  <2>1. Keeps(Q, D, Converter, h)
    BY <1>7 DEF Keeps
  <2> QED
    BY <1>1, <1>2, <1>5, <1>6, <2>1, FoldFollows
<1>9. ASSUME NEW U \in SUBSET D, U # {}
      PROVE  /\ Max(U) \in U /\ U \ {Max(U)} \in SUBSET D
             /\ g[U] = Step(Max(U), g[U \ {Max(U)}])
  <2>1. PICK x, v : x = Max(U) /\ v = g[U \ {Max(U)}]
    OBVIOUS
  <2>2. x \in U /\ U \ {x} \in SUBSET D /\ v \in Converter /\ <<U \ {x}, v>> \in Q
        /\ g[U] = h[<<x, v>>]
    <3> HIDE DEF h, Q, Converter
    <3>1. x \in U /\ U \ {x} \in SUBSET D /\ g[U] = h[<<x, v>>]
      BY <1>8, <1>9, <2>1 DEF Follows
    <3>2. v = g[U \ {x}] /\ v \in Converter
      BY <1>8, <2>1, <3>1 DEF Follows
    <3> QED
      BY <1>8, <3>1, <3>2 DEF Follows
  <2>3. h[<<x, v>>] = Step(x, v)
    <3> HIDE DEF h, Q, Converter, Step
    <3> QED
      BY <1>7, <2>2
  <2> HIDE DEF h, Step
  <2> QED
    BY <2>1, <2>2, <2>3
<1> HIDE DEF h
<1>10. FoldLeft(StopBlock, c, q) = g[D]
  <2> DEFINE Solves(f) ==
               f = [U \in SUBSET D |->
                      IF U = {} THEN c ELSE StopBlock(f[U \ {Max(U)}], q[Max(U)])]
             k0 == CHOOSE f : Solves(f)
             part == [U \in SUBSET D |-> g[U]]
  <2>1. FoldLeft(StopBlock, c, q) = k0[D]
    BY DEF FoldLeft, MapThenFoldSet
  <2>2. Solves(part)
    <3>1. ASSUME NEW U \in SUBSET D, U # {}
          PROVE  part[U] = StopBlock(part[U \ {Max(U)}], q[Max(U)])
      BY <1>9, <3>1
    <3>2. part[{}] = c
      BY <1>8 DEF Follows
    <3> QED
      BY <3>1, <3>2
  <2>3. Solves(k0)
    <3> HIDE DEF Solves, part
    <3> QED
      BY <2>2, Zenon
  <2> HIDE DEF k0
  <2> DEFINE top == [U \in SUBSET D |-> Max(U)]
  <2>4. \A U \in SUBSET D : U # {} => top[U] \in U
    BY <1>9
  <2>5. ASSUME NEW U \in SUBSET D
        PROVE  k0[U] = IF U = {} THEN c ELSE Step(top[U], k0[U \ {top[U]}])
    BY <2>3
  <2>6. ASSUME NEW U \in SUBSET D, U # {} PROVE g[U] = Step(top[U], g[U \ {top[U]}])
    BY <1>9, <2>6
  <2> HIDE DEF top, Step
  <2>7. k0[{}] = g[{}]
    BY <1>8, <2>5 DEF Follows
  <2>8. \A U \in SUBSET D : U # {} /\ k0[U \ {top[U]}] = g[U \ {top[U]}] => k0[U] = g[U]
    BY <2>5, <2>6
  <2>9. k0[D] = g[D]
    <3>1. IsFiniteSet(D)
      BY <1>1
    <3> HIDE DEF D
    <3>2. Agree(k0, g, D, top)
      BY <2>4, <2>7, <2>8 DEF Agree
    <3> QED
      BY <3>1, <3>2, FoldsAgree
  <2> QED
    BY <2>1, <2>9
<1>11. Shut(k, c, g0, q, D, g[D])
  <2>1. <<D, g[D]>> \in Q
    BY <1>8 DEF Follows
  <2> HIDE DEF Converter
  <2> QED
    BY <2>1
<1> QED
  BY <1>10, <1>11

-----------------------------------------------------------------------------
(* The first finish_reason.                                                  *)

(* InOrder lists a set's elements, when no two have the same number.         *)
LEMMA OrderEnumerates ==
    ASSUME NEW S, IsFiniteSet(S), NEW at, \A s \in S : at[s] \in Int,
           \A r, s \in S : at[r] = at[s] => r = s,
           NEW q, q = InOrder(S, at)
    PROVE  Enumerates(q, S)
<1>1. /\ q \in [1..Cardinality(S) -> S] /\ Cardinality(S) \in Nat
      /\ DOMAIN q = 1..Cardinality(S)
      /\ \A i, j \in DOMAIN q : q[i] = q[j] => i = j
      /\ \A s \in S : \E i \in DOMAIN q : q[i] = s
  BY InOrderGives
<1>2. IsFiniteSet(1..Cardinality(S)) /\ 1..Cardinality(S) \subseteq Int
  BY <1>1, FS_Interval
<1> QED
  BY <1>1, <1>2 DEF Enumerates

(* Every call has started that has anything to it.                           *)
LEMMA LatesStart ==
    ASSUME NEW k, NEW c, NEW n, NEW b, Talks(k, c, n, b), c.block = None,
           NEW d, d = LateStarts(c)
    PROVE  /\ Talks(k, d, n, b) /\ d.block = None /\ Bill(c, d)
           /\ DOMAIN d.tools = DOMAIN c.tools
           /\ \A t \in DOMAIN c.tools : d.tools[t].aborted = c.tools[t].aborted
           /\ \A t \in DOMAIN d.tools : d.tools[t].pending = <<>>
<1>1. PICK g : Talk(k, c, g, n, b)
  BY DEF Talks
<1>2. c \in Converter /\ IsFiniteSet(DOMAIN c.tools)
  <2>1. c \in Converter /\ Room(c, b)
    BY <1>1 DEF Talk
  <2> QED
    BY <2>1, Numbers
<1>3. PICK at : at = [t \in DOMAIN c.tools |-> c.tools[t].at]
  OBVIOUS
<1>4. PICK q : q = InOrder(Late(c), at)
  OBVIOUS
<1>5. Enumerates(q, Late(c))
  <2>1. Late(c) \in SUBSET DOMAIN c.tools /\ IsFiniteSet(Late(c))
    <3>1. Late(c) \in SUBSET DOMAIN c.tools
      BY DEF Late
    <3> QED
      BY <1>2, <3>1, FS_Subset
  <2>2. \A t \in DOMAIN c.tools : at[t] = c.tools[t].at /\ at[t] \in Int
    <3>1. \A t \in DOMAIN c.tools : c.tools[t].at \in Nat
      BY <1>2, ToolGives
    <3> QED
      BY <1>3, <3>1
  <2>3. \A r, s \in DOMAIN c.tools : c.tools[r].at = c.tools[s].at => r = s
    BY <1>1 DEF Talk, Placed, ToolsPlaced
  <2>4. \A r, s \in Late(c) : at[r] = at[s] => r = s
    BY <2>1, <2>2, <2>3
  <2> QED
    BY <1>4, <2>1, <2>2, <2>4, OrderEnumerates
<1>6. d = FoldLeft(StartLate, c, q)
  BY <1>3, <1>4 DEF LateStarts
<1>7. Lated(k, c, n, b, q, DOMAIN q, d)
  BY <1>5, <1>6, LatesFold
<1>8. PICK h : Talk(k, d, h, n, b)
  BY <1>7 DEF Lated, Talks
<1>9. ASSUME NEW t \in DOMAIN d.tools PROVE d.tools[t].pending = <<>>
  <2>1. IF d.tools[t].started
        THEN h.heard[t] = Whole(t, n[t]) /\ d.tools[t].pending = <<>>
        ELSE h.heard[t] = Whole(t, 0) /\ d.tools[t].pending = Whole(t, n[t])
    BY <1>8 DEF Talk, Heeds
  <2>2. CASE d.tools[t].started
    BY <2>1, <2>2
  <2>3. CASE ~d.tools[t].started
    <3>1. t \in DOMAIN c.tools
      BY <1>7 DEF Lated
    <3>2. t \notin Late(c)
      BY <1>5, <1>7, <2>3 DEF Lated, Enumerates
    <3>3. \A i \in DOMAIN q : q[i] # t
      BY <1>5, <3>2 DEF Enumerates
    <3>4. d.tools[t] = c.tools[t]
      BY <1>7, <3>1, <3>3 DEF Lated
    <3> QED
      BY <2>3, <3>1, <3>2, <3>4 DEF Late
  <2> QED
    BY <2>2, <2>3
<1> QED
  BY <1>7, <1>9 DEF Lated

(* All that was said has been handed on.                                     *)
Closed(k, c, g, n) ==
    /\ c \in Converter /\ c.finished
    /\ Told(k, c.out, g) /\ Sane(g) /\ Heeds(c, g, n)
    /\ \A t \in DOMAIN c.tools : c.tools[t].pending = <<>>

(* The answer is finished, and its message_delta is prepared.                *)
Prepared(k, c, g, n) ==
    /\ Closed(k, c, g, n) /\ g.phase = "begun" /\ g.live = {}
    /\ c.begun /\ c.pending /\ ~c.stopped /\ c.usage = c.latest

(* The first finish_reason: all that was held back is told, every block is   *)
(* closed.                                                                   *)
LEMMA FinishGives ==
    ASSUME NEW k, NEW c, NEW n, NEW b, Talks(k, c, n, b), NEW d, d = FinishReason(c)
    PROVE  /\ \E g : Prepared(k, d, g, n)
           /\ DOMAIN d.tools = DOMAIN c.tools
           /\ \A t \in DOMAIN c.tools : d.tools[t].aborted = c.tools[t].aborted
<1>1. PICK a : a = CloseBlock(c)
  OBVIOUS
<1>2. Talks(k, a, n, b) /\ a.block = None /\ a.tools = c.tools /\ Bill(c, a)
  BY <1>1, BlockCloses
<1>3. PICK e : e = LateStarts(a)
  OBVIOUS
<1>4. /\ Talks(k, e, n, b) /\ e.block = None /\ Bill(a, e)
      /\ DOMAIN e.tools = DOMAIN a.tools
      /\ \A t \in DOMAIN a.tools : e.tools[t].aborted = a.tools[t].aborted
      /\ \A t \in DOMAIN e.tools : e.tools[t].pending = <<>>
  BY <1>2, <1>3, LatesStart
<1>5. PICK g : Talk(k, e, g, n, b)
  BY <1>4 DEF Talks
<1>6. PICK o : o = [e EXCEPT !.open = {}]
  OBVIOUS
<1>7. /\ o \in Converter /\ o.tools = e.tools /\ Flags(e, o) /\ Bill(e, o) /\ o.out = e.out
  <2>1. e \in Converter
    BY <1>5 DEF Talk
  <2> HIDE DEF ToolMap, Event, Voices
  <2> QED
    BY <1>6, <2>1 DEF Converter, Flags, Bill
<1>8. PICK q : q = InOrder(e.open, [i \in e.open |-> i])
  OBVIOUS
<1>9. g.live = e.open /\ e.open \in SUBSET Nat /\ IsFiniteSet(e.open) /\ g.phase = "begun"
  BY <1>4, <1>5 DEF Talk, Placed, Converter
<1>10. Enumerates(q, g.live)
  <2>1. PICK at : at = [i \in e.open |-> i]
    OBVIOUS
  <2>2. \A i \in e.open : at[i] = i /\ at[i] \in Int
    BY <1>9, <2>1
  <2>3. q = InOrder(e.open, at)
    BY <1>8, <2>1
  <2>4. Enumerates(q, e.open)
    BY <1>9, <2>2, <2>3, OrderEnumerates
  <2> QED
    BY <1>9, <2>4
<1>11. PICK s : s = FoldLeft(StopBlock, o, q)
  OBVIOUS
<1>12. s = CloseTools(e)
  BY <1>6, <1>8, <1>11 DEF CloseTools
<1>13. Shut(k, o, g, q, DOMAIN q, s)
  <2>1. Told(k, o.out, g) /\ Sane(g) /\ g.live \in SUBSET Nat
    BY <1>5, <1>7, <1>9 DEF Talk
  <2> QED
    BY <1>7, <1>9, <1>10, <1>11, <2>1, ShutFold
<1>14. PICK h : /\ s \in Converter /\ Alike(o, s) /\ Flags(o, s) /\ Bill(o, s)
                /\ Told(k, s.out, h) /\ Sane(h) /\ h.phase = "begun"
                /\ h.heard = g.heard /\ h.live = g.live \ {q[i] : i \in DOMAIN q}
  BY <1>13 DEF Shut
<1>15. h.live = {}
  BY <1>10, <1>14 DEF Enumerates
<1>16. s.tools = e.tools /\ s.begun = e.begun /\ s.stopped = e.stopped
       /\ s.latest = c.latest /\ c.latest \in Nat
  <2>1. s.latest \in Nat
    BY <1>14 DEF Converter
  <2> QED
    BY <1>2, <1>4, <1>7, <1>14, <2>1 DEF Alike, Flags, Bill
<1>17. ~c.finished
  BY DEF Talks, Talk, Going
<1>18. d = [s EXCEPT !.finished = TRUE, !.pending = TRUE, !.usage = c.latest]
  BY <1>1, <1>3, <1>12, <1>17 DEF FinishReason
<1>19. /\ d \in Converter /\ d.finished = TRUE /\ d.pending = TRUE /\ d.usage = c.latest
       /\ d.latest = s.latest /\ d.tools = s.tools /\ d.out = s.out /\ d.begun = s.begun
       /\ d.stopped = s.stopped
  <2>1. s \in Converter
    BY <1>14
  <2> HIDE DEF ToolMap, Event, Voices
  <2> QED
    BY <1>16, <1>18, <2>1 DEF Converter
<1>20. Heeds(d, h, n)
  <2>1. Heeds(e, g, n)
    BY <1>5 DEF Talk
  <2>2. d.tools = e.tools /\ h.heard = g.heard
    BY <1>14, <1>16, <1>19
  <2> QED
    BY <2>1, <2>2 DEF Heeds
<1>21. e.begun /\ ~e.stopped
  BY <1>5 DEF Talk, Going
<1>22. Closed(k, d, h, n)
  BY <1>4, <1>14, <1>16, <1>19, <1>20 DEF Closed
<1>23. Prepared(k, d, h, n)
  BY <1>14, <1>15, <1>16, <1>19, <1>21, <1>22 DEF Prepared
<1>24. d.tools = e.tools
  BY <1>16, <1>19
<1> QED
  BY <1>2, <1>4, <1>23, <1>24

-----------------------------------------------------------------------------
(* A line before it.                                                         *)

(* Before anything was said.                                                 *)
Before(k, c, g, n, b) ==
    /\ c \in Converter /\ ~c.begun /\ ~c.finished /\ ~c.pending /\ ~c.stopped
    /\ Told(k, c.out, g) /\ Sane(g)
    /\ g.phase = "idle"
    /\ Placed(c, g) /\ Heeds(c, g, n) /\ Room(c, b)

Unfinished(k, c, n, b) == \E g : Before(k, c, g, n, b) \/ Talk(k, c, g, n, b)

(* What was heard and held back depends on nothing else of converter or      *)
(* client.                                                                   *)
LEMMA HeedsAlike ==
    ASSUME NEW c, NEW d, NEW g, NEW h, NEW n, d.tools = c.tools, h.heard = g.heard, Heeds(c, g, n)
    PROVE  Heeds(d, h, n)
BY DEF Heeds

(* Greet: after it the message has begun, whether it had or not.             *)
LEMMA Greets ==
    ASSUME NEW k, NEW c, NEW n, NEW b, Unfinished(k, c, n, b), NEW d, d = Greet(c)
    PROVE  Talks(k, d, n, b)
<1>1. PICK g : Before(k, c, g, n, b) \/ Talk(k, c, g, n, b)
  BY DEF Unfinished
<1>2. CASE Talk(k, c, g, n, b)
  <2>1. d = c
    BY <1>2 DEF Talk, Going, Greet
  <2> QED
    BY <1>2, <2>1 DEF Talks
<1>3. CASE Before(k, c, g, n, b)
  <2>1. PICK a, e, h : /\ a = [c EXCEPT !.begun = TRUE] /\ e = Plain("message_start")
                       /\ h = After(g, e)
    OBVIOUS
  <2>2. c \in Converter
    BY <1>3 DEF Before
  <2>3. /\ a \in Converter /\ a.begun = TRUE /\ Alike(c, a) /\ a.out = c.out
        /\ a.finished = c.finished /\ a.pending = c.pending /\ a.stopped = c.stopped
    <3> HIDE DEF ToolMap, Event, Voices
    <3> QED
      BY <2>1, <2>2 DEF Converter, Alike
  <2>4. e \in Event /\ Fitting(g, e)
    <3>1. e.type = "message_start"
      BY <2>1 DEF Plain
    <3> QED
      BY <1>3, <2>1, <3>1, Events DEF Before, Fitting
  <2>5. d = Out(a, e)
    BY <1>3, <2>1 DEF Before, Greet
  <2>6. Told(k, a.out, g) /\ Sane(g)
    BY <1>3, <2>3 DEF Before
  <2>7. d \in Converter /\ Alike(a, d) /\ Flags(a, d) /\ Bill(a, d) /\ Told(k, d.out, h) /\ Sane(h)
    BY <2>1, <2>3, <2>4, <2>5, <2>6, Emit
  <2>8. /\ h.phase = "begun" /\ h.live = g.live /\ h.heard = g.heard /\ h.named = g.named
    BY <2>1, AfterPlain
  <2>9. Alike(c, d)
    BY <2>3, <2>7 DEF Alike
  <2>10. Placed(d, h)
    BY <1>3, <2>8, <2>9, PlacedAlike DEF Before
  <2>11. Heeds(d, h, n)
    BY <1>3, <2>8, <2>9, HeedsAlike DEF Before, Alike
  <2>12. Room(d, b) /\ Going(d)
    BY <1>3, <2>3, <2>7, <2>9 DEF Before, Room, Going, Flags, Alike
  <2>13. Talk(k, d, h, n, b)
    BY <2>7, <2>8, <2>10, <2>11, <2>12 DEF Talk
  <2> QED
    BY <2>13 DEF Talks
<1> QED
  BY <1>1, <1>2, <1>3

(* TakeUsage touches nothing but the usage, and keeps a prepared one the     *)
(* latest.                                                                   *)
LEMMA UsageTaken ==
    ASSUME NEW c \in Converter, NEW chunk \in Lines, NEW d, d = TakeUsage(c, chunk)
    PROVE  /\ d \in Converter /\ Alike(c, d) /\ Flags(c, d) /\ d.out = c.out
           /\ c.usage = c.latest /\ c.pending => d.usage = d.latest
<1>1. CASE ~chunk.usage
  <2>1. d = c
    BY <1>1 DEF TakeUsage
  <2> QED
    BY <2>1 DEF Alike, Flags
<1>2. CASE chunk.usage
  <2>1. PICK l, u : l = c.latest + 1 /\ u = IF c.pending THEN l ELSE c.usage
    OBVIOUS
  <2>2. l \in Nat /\ u \in Nat
    BY <2>1 DEF Converter
  <2>3. d = [c EXCEPT !.latest = l, !.usage = u]
    BY <1>2, <2>1 DEF TakeUsage, Converter
  <2>4. /\ d \in Converter /\ Alike(c, d) /\ Flags(c, d) /\ d.out = c.out
        /\ d.latest = l /\ d.usage = u
    <3> HIDE DEF ToolMap, Event, Voices
    <3> QED
      BY <2>2, <2>3 DEF Converter, Alike, Flags
  <2> QED
    BY <2>1, <2>4
<1> QED
  BY <1>1, <1>2

(* Bill is not what Unfinished is about.                                     *)
LEMMA UnfinishedAlike ==
    ASSUME NEW k, NEW c, NEW n, NEW b, Unfinished(k, c, n, b),
           NEW d \in Converter, Alike(c, d), Flags(c, d), d.out = c.out,
           b + 2 \in 0..2 * MaxChunks
    PROVE  Unfinished(k, d, n, b) /\ Unfinished(k, d, n, b + 2)
<1>1. PICK g : Before(k, c, g, n, b) \/ Talk(k, c, g, n, b)
  BY DEF Unfinished
<1>2. Placed(c, g) /\ Heeds(c, g, n) /\ Room(c, b) /\ c \in Converter
  BY <1>1 DEF Before, Talk
<1>3. Placed(d, g) /\ Heeds(d, g, n)
  BY <1>2, PlacedAlike, HeedsAlike DEF Alike
<1>4. Room(d, b) /\ Room(d, b + 2)
  <2>1. c.next \in Nat /\ Cardinality(DOMAIN c.tools) \in Nat
    BY <1>2, Numbers
  <2>2. d.next = c.next /\ d.tools = c.tools
    BY DEF Alike
  <2> QED
    BY <1>2, <2>1, <2>2 DEF Room
<1>5. CASE Before(k, c, g, n, b)
  <2>1. Before(k, d, g, n, b) /\ Before(k, d, g, n, b + 2)
    BY <1>3, <1>4, <1>5 DEF Before, Flags
  <2> QED
    BY <2>1 DEF Unfinished
<1>6. CASE Talk(k, c, g, n, b)
  <2>1. Talk(k, d, g, n, b) /\ Talk(k, d, g, n, b + 2)
    BY <1>3, <1>4, <1>6 DEF Talk, Going, Flags
  <2> QED
    BY <2>1 DEF Unfinished
<1> QED
  BY <1>1, <1>5, <1>6

(* Voiced: at most one piece, the next, of its voice.                        *)
LEMMA VoicedGives ==
    ASSUME NEW k, NEW c, NEW n, NEW b, Talks(k, c, n, b),
           NEW chunk \in Lines, NEW voice \in Voices, n[voice] = said[voice],
           b + 1 \in 0..2 * MaxChunks,
           NEW d, d = Voiced(c, chunk, voice)
    PROVE  \E m \in [Sources -> Nat] :
              /\ Talks(k, d, m, b + 1) /\ d.tools = c.tools
              /\ m[voice] = n[voice] + (IF chunk[voice] THEN 1 ELSE 0)
              /\ \A s \in Sources : s # voice => m[s] = n[s]
<1>0. voice \in Sources /\ n[voice] \in Nat /\ n \in [Sources -> Nat]
  BY SourcesAre DEF Talks, Talk, Heeds
<1>1. CASE chunk[voice]
  <2>1. d = Speak(c, voice, <<voice, n[voice] + 1>>)
    BY <1>1 DEF Voiced
  <2>2. PICK m : m = [n EXCEPT ![voice] = n[voice] + 1]
    OBVIOUS
  <2>5. Talks(k, d, [n EXCEPT ![voice] = n[voice] + 1], b + 1) /\ d.tools = c.tools
    BY <2>1, VoiceSpeaks
  <2>3. Talks(k, d, m, b + 1) /\ d.tools = c.tools
    BY <2>2, <2>5
  <2>4. /\ m \in [Sources -> Nat] /\ m[voice] = n[voice] + 1
        /\ \A s \in Sources : s # voice => m[s] = n[s]
    BY <1>0, <2>2
  <2> QED
    BY <1>1, <2>3, <2>4
<1>2. CASE ~chunk[voice]
  <2>1. d = c
    BY <1>2 DEF Voiced
  <2>2. Talks(k, d, n, b + 1)
    BY <2>1, RoomGrows
  <2>3. n[voice] = n[voice] + 0
    BY <1>0
  <2> QED
    BY <1>0, <1>2, <2>1, <2>2, <2>3
<1> QED
  BY <1>1, <1>2

(* What LinesAssumption says of one data line.                               *)
LEMMA ChunkGives ==
    ASSUME NEW chunk \in Chunks
    PROVE  /\ chunk \in Lines /\ Distinct(chunk.calls)
           /\ ~chunk.choice => chunk.calls = <<>>
<1>1. chunk \in Lines
  BY LinesAssumption
<1>2. chunk.calls \in ToolCalls
  <2> HIDE DEF ToolCalls
  <2> QED
    BY <1>1 DEF Lines
<1> QED
  BY <1>1, <1>2, LinesAssumption DEF Distinct

(* A line that says nothing counts nothing.                                  *)
Silent(chunk) == chunk.choice => ~chunk.thinking /\ ~chunk.text /\ chunk.calls = <<>>

(* Silence leaves the counts of what was said alone.                         *)
LEMMA NothingCounted ==
    ASSUME said \in [Sources -> Nat], NEW chunk \in Chunks, NEW d, Silent(chunk)
    PROVE  Counted(chunk, d) = said
<1>1. DOMAIN chunk.calls = {}
  <2>1. chunk.calls = <<>>
    BY ChunkGives DEF Silent
  <2> QED
    BY <2>1
<1>2. \A v \in Voices : ~(chunk.choice /\ chunk[v])
  BY DEF Voices, Silent
<1>3. ASSUME NEW s \in Sources PROVE Counted(chunk, d)[s] = said[s]
  <2>1. said[s] \in Nat
    OBVIOUS
  <2>2. CASE s \in Voices
    <3>1. Counted(chunk, d)[s] = said[s] + (IF chunk.choice /\ chunk[s] THEN 1 ELSE 0)
      BY <2>2 DEF Counted
    <3>2. Counted(chunk, d)[s] = said[s] + 0
      BY <1>2, <2>2, <3>1
    <3> QED
      BY <2>1, <3>2
  <2>3. CASE s \notin Voices
    <3>1. Counted(chunk, d)[s] = said[s] + (IF \E i \in DOMAIN chunk.calls :
                              chunk.calls[i].tool = s /\ chunk.calls[i].args # None
                              /\ ~d.tools[s].aborted THEN 1 ELSE 0)
      BY <2>3 DEF Counted
    <3>2. Counted(chunk, d)[s] = said[s] + 0
      <4>1. ~\E i \in DOMAIN chunk.calls :
                chunk.calls[i].tool = s /\ chunk.calls[i].args # None /\ ~d.tools[s].aborted
        BY <1>1
      <4> QED
        BY <3>1, <4>1
    <3> QED
      BY <2>1, <3>2
  <2> QED
    BY <2>2, <2>3
<1>4. Counted(chunk, d) = [s \in Sources |-> Counted(chunk, d)[s]]
  BY DEF Counted
<1> QED
  BY <1>3, <1>4

(* What a line makes of the converter.                                       *)
Heard(chunk) ==
    LET c == TakeUsage(conv, chunk) IN IF chunk.choice THEN Choice(c, chunk) ELSE c

(* A line before the finish_reason, whatever is in it.                       *)
LEMMA HeardOpen ==
    ASSUME NEW k, NEW b, Unfinished(k, conv, said, b), b + 2 \in 0..2 * MaxChunks,
           b + 1 \in 0..2 * MaxChunks, (b + 1) + 1 = b + 2,
           NEW chunk \in Chunks, NEW d, d = Heard(chunk)
    PROVE  \/ Unfinished(k, d, Counted(chunk, d), b + 2)
           \/ \E g : Prepared(k, d, g, Counted(chunk, d))
<1>1. PICK c : c = TakeUsage(conv, chunk)
  OBVIOUS
<1>2. conv \in Converter /\ said \in [Sources -> Nat]
  BY DEF Unfinished, Before, Talk, Heeds
<1>3. chunk \in Lines /\ Distinct(chunk.calls)
  BY ChunkGives
<1>4. c \in Converter /\ Alike(conv, c) /\ Flags(conv, c) /\ c.out = conv.out
  BY <1>1, <1>2, <1>3, UsageTaken
<1>5. Unfinished(k, c, said, b) /\ Unfinished(k, c, said, b + 2)
  BY <1>4, UnfinishedAlike
<1>6. CASE ~chunk.choice
  <2>1. d = c
    BY <1>1, <1>6 DEF Heard
  <2>2. Counted(chunk, d) = said
    <3>1. Silent(chunk)
      BY <1>6 DEF Silent
    <3> QED
      BY <1>2, <3>1, NothingCounted
  <2> QED
    BY <1>5, <2>1, <2>2
<1>7. CASE chunk.choice
  <2>1. PICK c1, c2, c3, e :
          /\ c1 = Greet(c) /\ c2 = Voiced(c1, chunk, "thinking")
          /\ c3 = Voiced(c2, chunk, "text") /\ e = CallTools(c3, chunk.calls)
    OBVIOUS
  <2>2. d = IF chunk.finish THEN FinishReason(e) ELSE e
    <3>1. d = Choice(c, chunk)
      BY <1>1, <1>7 DEF Heard
    <3> QED
      BY <2>1, <3>1, Zenon DEF Choice
  <2>3. Talks(k, c1, said, b)
    BY <1>5, <2>1, Greets
  <2>4. "thinking" \in Voices /\ "text" \in Voices /\ "text" # "thinking"
        /\ Voices = {"thinking", "text"}
    BY DEF Voices
  <2>5. PICK m1 \in [Sources -> Nat] :
          /\ Talks(k, c2, m1, b + 1) /\ c2.tools = c1.tools
          /\ m1["thinking"] = said["thinking"] + (IF chunk["thinking"] THEN 1 ELSE 0)
          /\ \A s \in Sources : s # "thinking" => m1[s] = said[s]
    BY <1>3, <2>1, <2>3, <2>4, VoicedGives
  <2>6. m1["text"] = said["text"]
    BY <2>4, <2>5, SourcesAre
  <2>7. PICK m2 \in [Sources -> Nat] :
          /\ Talks(k, c3, m2, b + 2) /\ c3.tools = c2.tools
          /\ m2["text"] = m1["text"] + (IF chunk["text"] THEN 1 ELSE 0)
          /\ \A s \in Sources : s # "text" => m2[s] = m1[s]
    BY <1>3, <2>1, <2>4, <2>5, <2>6, VoicedGives
  <2>8. \A t \in Tools : m2[t] = said[t]
    BY <2>4, <2>5, <2>7, SourcesAre
  <2>9. PICK n1 : n1 = WithCalls(m2, chunk.calls, e)
    OBVIOUS
  <2>10. /\ Talks(k, e, n1, b + 2)
         /\ \A i \in DOMAIN chunk.calls : chunk.calls[i].tool \in DOMAIN e.tools
    <3>1. PICK calls : calls = chunk.calls
      OBVIOUS
    <3>2. Distinct(calls) /\ e = CallTools(c3, calls)
      BY <1>3, <2>1, <3>1
    <3>3. /\ Talks(k, e, WithCalls(m2, calls, e), b + 2)
          /\ \A i \in DOMAIN calls : calls[i].tool \in DOMAIN e.tools
      BY <2>7, <2>8, <3>2, AllCalls
    <3> QED
      BY <2>9, <3>1, <3>3, Zenon
  <2>11. n1 = Counted(chunk, e)
    <3>1. \A v \in Voices : m2[v] = said[v] + (IF chunk.choice /\ chunk[v] THEN 1 ELSE 0)
      BY <1>7, <2>4, <2>5, <2>6, <2>7, SourcesAre
    <3>2. \A s \in Sources : s \notin Voices => m2[s] = said[s]
      BY <2>8, SourcesAre
    <3>3. ASSUME NEW s \in Sources PROVE n1[s] = Counted(chunk, e)[s]
      <4>1. CASE s \in Voices
        BY <2>9, <3>1, <4>1 DEF WithCalls, Counted
      <4>2. CASE s \notin Voices
        BY <2>9, <3>2, <4>2 DEF WithCalls, Counted
      <4> QED
        BY <4>1, <4>2
    <3>4. /\ n1 = [s \in Sources |-> n1[s]]
          /\ Counted(chunk, e) = [s \in Sources |-> Counted(chunk, e)[s]]
      BY <2>9 DEF WithCalls, Counted
    <3> QED
      BY <3>3, <3>4
  <2>12. CASE ~chunk.finish
    <3>1. d = e
      BY <2>2, <2>12
    <3>2. Talks(k, d, Counted(chunk, d), b + 2)
      BY <2>10, <2>11, <3>1
    <3> QED
      BY <3>2 DEF Talks, Unfinished
  <2>13. CASE chunk.finish
    <3>1. d = FinishReason(e)
      BY <2>2, <2>13
    <3>2. /\ \E g : Prepared(k, d, g, n1)
          /\ DOMAIN d.tools = DOMAIN e.tools
          /\ \A t \in DOMAIN e.tools : d.tools[t].aborted = e.tools[t].aborted
      BY <2>10, <3>1, FinishGives
    <3>3. Counted(chunk, d) = Counted(chunk, e)
      <4> QED
        BY <2>10, <3>2 DEF Counted
    <3> QED
      BY <2>11, <3>2, <3>3
  <2> QED
    BY <2>12, <2>13
<1> QED
  BY <1>6, <1>7

-----------------------------------------------------------------------------
(* A line after it.                                                          *)

(* Once the answer is finished a line can only complete its usage.           *)
LEMMA HeardPrepared ==
    ASSUME NEW k, NEW g, Prepared(k, conv, g, said), NEW chunk \in Chunks, Silent(chunk),
           NEW d, d = Heard(chunk)
    PROVE  Prepared(k, d, g, said)
<1>1. PICK c : c = TakeUsage(conv, chunk)
  OBVIOUS
<1>2. /\ conv \in Converter /\ conv.finished /\ conv.pending /\ conv.begun /\ ~conv.stopped
      /\ conv.usage = conv.latest
  BY DEF Prepared, Closed
<1>3. chunk \in Lines
  BY ChunkGives
<1>4. /\ c \in Converter /\ Alike(conv, c) /\ Flags(conv, c) /\ c.out = conv.out
      /\ c.usage = c.latest
  BY <1>1, <1>2, <1>3, UsageTaken
<1>5. c.begun /\ c.finished /\ c.pending /\ ~c.stopped /\ c.tools = conv.tools
  BY <1>2, <1>4 DEF Flags, Alike
<1>6. d = c
  <2>1. CASE ~chunk.choice
    BY <1>1, <2>1 DEF Heard
  <2>2. CASE chunk.choice
    <3>1. ~chunk.thinking /\ ~chunk.text /\ chunk.calls = <<>>
      BY <2>2 DEF Silent
    <3>2. Greet(c) = c
      BY <1>5 DEF Greet
    <3>3. Voiced(c, chunk, "thinking") = c /\ Voiced(c, chunk, "text") = c
      BY <3>1 DEF Voiced
    <3>4. CallTools(c, chunk.calls) = c
      BY <3>1 DEF CallTools
    <3>5. FinishReason(c) = c
      <4>1. FinishReason(c) =
              [c EXCEPT !.usage = IF c.pending /\ c.latest # 0 THEN c.latest ELSE @]
        BY <1>5 DEF FinishReason
      <4>2. PICK u : u = c.usage
        OBVIOUS
      <4>3. (IF c.pending /\ c.latest # 0 THEN c.latest ELSE c.usage) = u
        BY <1>4, <4>2
      <4>4. FinishReason(c) = [c EXCEPT !.usage = u]
        BY <1>4, <4>1, <4>3 DEF Converter
      <4> HIDE DEF ToolMap, Event, Voices
      <4> QED
        BY <1>4, <4>2, <4>4 DEF Converter
    <3>6. d = Choice(c, chunk)
      BY <1>1, <2>2 DEF Heard
    <3> QED
      BY <3>2, <3>3, <3>4, <3>5, <3>6, Zenon DEF Choice
  <2> QED
    BY <2>1, <2>2
<1>7. Heeds(d, g, said)
  BY <1>5, <1>6, HeedsAlike DEF Prepared, Closed
<1>8. Closed(k, d, g, said)
  BY <1>4, <1>5, <1>6, <1>7 DEF Prepared, Closed
<1> QED
  BY <1>4, <1>5, <1>6, <1>8 DEF Prepared

(* After the upstream's last word.                                           *)
Ended(k, c, g, n, how) ==
    /\ c \in Converter
    /\ Told(k, c.out, g) /\ Sane(g) /\ Heeds(c, g, n)
    /\ c.finished => \A t \in DOMAIN c.tools : c.tools[t].pending = <<>>
    /\ how \in {"done", "ended"} /\ c.finished => g.phase = "over" /\ g.bill = <<c.latest>>
    /\ how = "done" => c.finished /\ c.stopped /\ ~c.pending /\ g.phase # "failed"

Stands(k, c, n, how, b) ==
    \/ how = "open" /\ Unfinished(k, c, n, b)
    \/ how = "open" /\ \E g : Prepared(k, c, g, n)
    \/ how # "open" /\ \E g : Ended(k, c, g, n, how)

(* At any point what was heard, held back and is on its way is what was      *)
(* said.                                                                     *)
LEMMA StandsGives ==
    ASSUME NEW k, NEW c, NEW n, NEW how, NEW b, Stands(k, c, n, how, b)
    PROVE  \E g : /\ c \in Converter /\ Told(k, c.out, g) /\ Sane(g) /\ Heeds(c, g, n)
                  /\ c.finished => \A t \in DOMAIN c.tools : c.tools[t].pending = <<>>
<1>1. CASE Unfinished(k, c, n, b)
  BY <1>1 DEF Unfinished, Before, Talk, Going
<1>2. ASSUME NEW g, Prepared(k, c, g, n)
      PROVE  c \in Converter /\ Told(k, c.out, g) /\ Sane(g) /\ Heeds(c, g, n)
             /\ \A t \in DOMAIN c.tools : c.tools[t].pending = <<>>
  BY <1>2 DEF Prepared, Closed
<1>3. ASSUME NEW g, Ended(k, c, g, n, how)
      PROVE  /\ c \in Converter /\ Told(k, c.out, g) /\ Sane(g) /\ Heeds(c, g, n)
             /\ c.finished => \A t \in DOMAIN c.tools : c.tools[t].pending = <<>>
  BY <1>3 DEF Ended
<1> QED
  BY <1>1, <1>2, <1>3 DEF Stands

-----------------------------------------------------------------------------
(* An event is handed over.                                                  *)
Handed(c) == [c EXCEPT !.out = Tail(@)]

(* The converter after one of its events was handed over.                    *)
LEMMA HandedGives ==
    ASSUME NEW c \in Converter, c.out # <<>>
    PROVE  /\ Handed(c) \in Converter /\ Alike(c, Handed(c)) /\ Flags(c, Handed(c))
           /\ Bill(c, Handed(c)) /\ Handed(c).out = Tail(c.out) /\ Head(c.out) \in Event
<1>1. Tail(c.out) \in Seq(Event) /\ Head(c.out) \in Event
  <2>1. c.out \in Seq(Event)
    BY DEF Converter
  <2> HIDE DEF Event
  <2> QED
    BY <2>1
<1> HIDE DEF ToolMap, Event, Voices
<1> QED
  BY <1>1 DEF Handed, Converter, Alike, Flags, Bill

(* Handing an event over tells the client a fitting one, and changes nothing *)
(* else.                                                                     *)
LEMMA HandedStands ==
    ASSUME NEW k, NEW c, NEW n, NEW how, NEW b, Stands(k, c, n, how, b), c.out # <<>>
    PROVE  /\ Fitting(k, Head(c.out))
           /\ Stands(After(k, Head(c.out)), Handed(c), n, how, b)
<1>1. PICK d, e, o : d = Handed(c) /\ e = Head(c.out) /\ o = c.out
  OBVIOUS
<1>2. c \in Converter /\ \E g : Told(k, c.out, g)
  BY StandsGives
<1>3. /\ d \in Converter /\ Alike(c, d) /\ Flags(c, d) /\ Bill(c, d) /\ d.out = Tail(o)
      /\ o \in Seq(Event) /\ o # <<>> /\ e = Head(o)
  BY <1>1, <1>2, HandedGives DEF Converter
<1>4. ASSUME NEW g, Told(k, o, g) PROVE Fitting(k, e) /\ Told(After(k, e), d.out, g)
  <2> HIDE DEF Event
  <2> QED
    BY <1>3, <1>4, ToldNext
<1>5. Fitting(k, e)
  BY <1>1, <1>2, <1>4
<1>6. d.tools = c.tools
  BY <1>3 DEF Alike
<1>7. CASE how = "open" /\ Unfinished(k, c, n, b)
  <2>1. PICK g : Before(k, c, g, n, b) \/ Talk(k, c, g, n, b)
    BY <1>7 DEF Unfinished
  <2>2. Placed(c, g) /\ Heeds(c, g, n) /\ Room(c, b) /\ Told(k, o, g)
    BY <1>1, <2>1 DEF Before, Talk
  <2>3. Placed(d, g) /\ Heeds(d, g, n) /\ Room(d, b) /\ Told(After(k, e), d.out, g)
    <3>1. Placed(d, g) /\ Heeds(d, g, n)
      BY <1>3, <1>6, <2>2, PlacedAlike, HeedsAlike
    <3>2. Room(d, b)
      BY <1>3, <2>2 DEF Room, Alike
    <3> QED
      BY <1>4, <2>2, <3>1, <3>2
  <2>4. Before(After(k, e), d, g, n, b) \/ Talk(After(k, e), d, g, n, b)
    BY <1>3, <2>1, <2>3 DEF Before, Talk, Going, Flags
  <2>5. Unfinished(After(k, e), d, n, b)
    BY <2>4 DEF Unfinished
  <2>6. Stands(After(k, e), d, n, how, b)
    BY <1>7, <2>5 DEF Stands
  <2> QED
    BY <1>1, <1>5, <2>6, Zenon
<1>8. ASSUME how = "open", NEW g, Prepared(k, c, g, n)
      PROVE  Stands(After(k, e), d, n, how, b)
  <2>1. Told(After(k, e), d.out, g)
    BY <1>1, <1>4, <1>8 DEF Prepared, Closed
  <2>2. Heeds(d, g, n)
    BY <1>6, <1>8, HeedsAlike DEF Prepared, Closed
  <2>3. Prepared(After(k, e), d, g, n)
    BY <1>3, <1>6, <1>8, <2>1, <2>2 DEF Prepared, Closed, Flags, Bill
  <2> QED
    BY <1>8, <2>3 DEF Stands
<1>9. ASSUME how # "open", NEW g, Ended(k, c, g, n, how)
      PROVE  Stands(After(k, e), d, n, how, b)
  <2>1. Told(After(k, e), d.out, g)
    BY <1>1, <1>4, <1>9 DEF Ended
  <2>2. Heeds(d, g, n)
    BY <1>6, <1>9, HeedsAlike DEF Ended
  <2>3. Ended(After(k, e), d, g, n, how)
    BY <1>3, <1>6, <1>9, <2>1, <2>2 DEF Ended, Flags, Bill
  <2> QED
    BY <1>9, <2>3 DEF Stands
<1>10. CASE ~(how = "open" /\ Unfinished(k, c, n, b))
  <2>1. Stands(After(k, e), d, n, how, b)
    BY <1>8, <1>9, <1>10 DEF Stands
  <2> QED
    BY <1>1, <1>5, <2>1, Zenon
<1> QED
  BY <1>7, <1>10

-----------------------------------------------------------------------------
(* The end.                                                                  *)

(* The answer is over: what was prepared has been told, and the end.         *)
LEMMA OverGives ==
    ASSUME NEW k, NEW c, NEW g, NEW n, Prepared(k, c, g, n),
           NEW d, d = Out(Flush(c), Plain("message_stop"))
    PROVE  /\ d \in Converter /\ d.finished /\ ~d.pending
           /\ \E h : Ended(k, d, h, n, "ended") /\ h.phase = "over" /\ h.bill = <<d.latest>>
<1>1. PICK a : a = [c EXCEPT !.pending = FALSE]
  OBVIOUS
<1>2. PICK e, f : e = Delta(c.usage) /\ f = Plain("message_stop")
  OBVIOUS
<1>3. /\ c \in Converter /\ c.finished /\ c.pending /\ c.usage = c.latest /\ c.usage \in Nat
      /\ Told(k, c.out, g) /\ Sane(g) /\ g.phase = "begun" /\ g.live = {} /\ Heeds(c, g, n)
      /\ \A t \in DOMAIN c.tools : c.tools[t].pending = <<>>
  BY DEF Prepared, Closed, Converter
<1>4. /\ a \in Converter /\ a.pending = FALSE /\ Alike(c, a) /\ Bill(c, a) /\ a.out = c.out
      /\ a.finished = c.finished
  <2> HIDE DEF ToolMap, Event, Voices
  <2> QED
    BY <1>1, <1>3 DEF Converter, Alike, Bill
<1>5. PICK b : b = Out(a, e)
  OBVIOUS
<1>6. PICK h1, h2 : h1 = After(g, e) /\ h2 = After(h1, f)
  OBVIOUS
<1>7. e \in Event /\ f \in Event
  BY <1>2, <1>3, Events
<1>8. Fitting(g, e)
  BY <1>2, <1>3 DEF Fitting, Delta
<1>9. /\ b \in Converter /\ Alike(a, b) /\ Flags(a, b) /\ Bill(a, b)
      /\ Told(k, b.out, h1) /\ Sane(h1)
  BY <1>3, <1>4, <1>5, <1>6, <1>7, <1>8, Emit
<1>10. /\ h1.phase = "told" /\ h1.heard = g.heard /\ h1.bill = Append(g.bill, c.usage)
  BY <1>2, <1>6, AfterBill
<1>11. Fitting(h1, f)
  BY <1>2, <1>10 DEF Fitting, Plain
<1>12. d = Out(b, f)
  <2>1. Flush(c) = b
    BY <1>1, <1>2, <1>3, <1>5, Zenon DEF Flush
  <2> QED
    BY <1>2, <2>1, Zenon
<1>13. /\ d \in Converter /\ Alike(b, d) /\ Flags(b, d) /\ Bill(b, d)
       /\ Told(k, d.out, h2) /\ Sane(h2)
  BY <1>6, <1>7, <1>9, <1>11, <1>12, Emit
<1>14. h2.phase = "over" /\ h2.heard = h1.heard /\ h2.bill = h1.bill
  BY <1>2, <1>6, AfterPlain
<1>15. g.bill = <<>>
  BY <1>3 DEF Sane, Bills
<1>16. d.tools = c.tools /\ d.finished = c.finished /\ d.pending = FALSE /\ d.latest = c.latest
  BY <1>4, <1>9, <1>13 DEF Alike, Flags, Bill
<1>17. Heeds(d, h2, n)
  BY <1>3, <1>10, <1>14, <1>16, HeedsAlike
<1>18. h2.bill = <<d.latest>>
  BY <1>3, <1>10, <1>14, <1>15, <1>16
<1>19. Ended(k, d, h2, n, "ended")
  BY <1>3, <1>13, <1>14, <1>16, <1>17, <1>18 DEF Ended
<1> QED
  BY <1>3, <1>13, <1>14, <1>16, <1>18, <1>19

(* With [DONE].                                                              *)
LEMMA DoneGives ==
    ASSUME NEW k, NEW c, NEW g, NEW n, Prepared(k, c, g, n),
           NEW d, d = [Out(Flush(c), Plain("message_stop")) EXCEPT !.stopped = TRUE]
    PROVE  \E h : Ended(k, d, h, n, "done")
<1>1. PICK a : a = Out(Flush(c), Plain("message_stop"))
  OBVIOUS
<1>2. PICK h : /\ a \in Converter /\ a.finished /\ ~a.pending
               /\ Ended(k, a, h, n, "ended") /\ h.phase = "over" /\ h.bill = <<a.latest>>
  BY <1>1, OverGives
<1>3. d = [a EXCEPT !.stopped = TRUE]
  BY <1>1, Zenon
<1>4. /\ d \in Converter /\ d.stopped = TRUE /\ d.finished = a.finished
      /\ d.pending = a.pending /\ d.latest = a.latest /\ d.out = a.out /\ d.tools = a.tools
  <2> HIDE DEF ToolMap, Event, Voices
  <2> QED
    BY <1>2, <1>3 DEF Converter
<1>5. Heeds(d, h, n)
  BY <1>2, <1>4, HeedsAlike DEF Ended
<1>6. Ended(k, d, h, n, "done")
  BY <1>2, <1>4, <1>5 DEF Ended
<1> QED
  BY <1>6

(* The end of the body.                                                      *)
Finishing(c) ==
    IF c.pending /\ ~c.stopped THEN Out(Flush(c), Plain("message_stop")) ELSE Flush(c)

(* End: only a prepared message_delta is left to tell, and the end after it. *)
LEMMA EndGives ==
    ASSUME NEW k, NEW c, NEW n, NEW how \in {"open", "done"}, NEW b, Stands(k, c, n, how, b),
           NEW d, d = Finishing(c)
    PROVE  \E h : Ended(k, d, h, n, "ended")
<1>1. CASE how = "open" /\ Unfinished(k, c, n, b)
  <2>1. PICK g : Before(k, c, g, n, b) \/ Talk(k, c, g, n, b)
    BY <1>1 DEF Unfinished
  <2>2. d = c
    BY <2>1 DEF Before, Talk, Going, Finishing, Flush
  <2>3. Ended(k, d, g, n, "ended")
    BY <2>1, <2>2 DEF Before, Talk, Going, Ended
  <2> QED
    BY <2>3
<1>2. ASSUME NEW g, Prepared(k, c, g, n)
      PROVE  \E h : Ended(k, d, h, n, "ended")
  <2>1. d = Out(Flush(c), Plain("message_stop"))
    BY <1>2 DEF Prepared, Finishing
  <2> QED
    BY <1>2, <2>1, OverGives
<1>3. ASSUME how # "open", NEW g, Ended(k, c, g, n, how)
      PROVE  \E h : Ended(k, d, h, n, "ended")
  <2>1. d = c
    BY <1>3 DEF Ended, Finishing, Flush
  <2>2. Ended(k, d, g, n, "ended")
    BY <1>3, <2>1 DEF Ended
  <2> QED
    BY <2>2
<1> QED
  BY <1>1, <1>2, <1>3 DEF Stands

(* Before the body ends or breaks, no error was told.                        *)
LEMMA NotFailed ==
    ASSUME NEW k, NEW c, NEW n, NEW how \in {"open", "done"}, NEW b, Stands(k, c, n, how, b)
    PROVE  \E g : /\ c \in Converter /\ Told(k, c.out, g) /\ Sane(g) /\ Heeds(c, g, n)
                  /\ c.finished => \A t \in DOMAIN c.tools : c.tools[t].pending = <<>>
                  /\ g.phase # "failed"
<1>1. CASE Unfinished(k, c, n, b)
  BY <1>1 DEF Unfinished, Before, Talk, Going
<1>2. ASSUME NEW g, Prepared(k, c, g, n)
      PROVE  /\ c \in Converter /\ Told(k, c.out, g) /\ Sane(g) /\ Heeds(c, g, n)
             /\ \A t \in DOMAIN c.tools : c.tools[t].pending = <<>>
             /\ g.phase # "failed"
  BY <1>2 DEF Prepared, Closed
<1>3. ASSUME how = "done", NEW g, Ended(k, c, g, n, how)
      PROVE  /\ c \in Converter /\ Told(k, c.out, g) /\ Sane(g) /\ Heeds(c, g, n)
             /\ c.finished => \A t \in DOMAIN c.tools : c.tools[t].pending = <<>>
             /\ g.phase # "failed"
  BY <1>3 DEF Ended
<1> QED
  BY <1>1, <1>2, <1>3 DEF Stands

(* Break, at any point: the error fits.                                      *)
LEMMA BreakGives ==
    ASSUME NEW k, NEW c, NEW n, NEW how \in {"open", "done"}, NEW b, Stands(k, c, n, how, b),
           NEW d, d = Out(c, Plain("error"))
    PROVE  \E h : Ended(k, d, h, n, "broken")
<1>1. PICK g : /\ c \in Converter /\ Told(k, c.out, g) /\ Sane(g) /\ Heeds(c, g, n)
               /\ c.finished => \A t \in DOMAIN c.tools : c.tools[t].pending = <<>>
               /\ g.phase # "failed"
  BY NotFailed
<1>2. PICK e, h : e = Plain("error") /\ h = After(g, e)
  OBVIOUS
<1>3. e \in Event /\ Fitting(g, e)
  <2>1. e.type = "error"
    BY <1>2 DEF Plain
  <2> QED
    BY <1>1, <1>2, <2>1, Events DEF Fitting
<1>4. d = Out(c, e)
  BY <1>2
<1>5. /\ d \in Converter /\ Alike(c, d) /\ Flags(c, d) /\ Bill(c, d)
      /\ Told(k, d.out, h) /\ Sane(h)
  BY <1>1, <1>2, <1>3, <1>4, Emit
<1>6. h.heard = g.heard
  BY <1>2, AfterPlain
<1>7. d.tools = c.tools /\ d.finished = c.finished
  BY <1>5 DEF Alike, Flags
<1>8. Heeds(d, h, n)
  BY <1>1, <1>6, <1>7, HeedsAlike
<1>9. Ended(k, d, h, n, "broken")
  BY <1>1, <1>5, <1>7, <1>8 DEF Ended
<1> QED
  BY <1>9

-----------------------------------------------------------------------------
(* The invariant.                                                            *)

(* What the client was shown is told of the blocks it knows the sources of.  *)
Shown ==
    /\ view = [phase |-> view.phase, kinds |-> view.kinds, live |-> view.live,
               events |-> view.events]
    /\ DOMAIN view.kinds = DOMAIN named

(* The converter's invariant: client, events on their way, what is held back *)
(* and what was said belong together.                                        *)
ChatInv ==
    /\ Sane(Client) /\ Shown
    /\ lines \in 0..MaxChunks
    /\ line \in {"open", "done", "ended", "broken"}
    /\ Stands(Client, conv, said, line, 2 * lines)

(* Nothing was said, heard or held back yet.                                 *)
LEMMA ChatStarts == Init => ChatInv
<1> SUFFICES ASSUME Init PROVE ChatInv
  OBVIOUS
<1>1. MaxChunks \in Nat
  BY SourcesAre
<1>2. /\ view.phase = "idle" /\ view.live = {} /\ DOMAIN named = {} /\ bill = <<>>
      /\ DOMAIN view.kinds = {}
  BY DEF Init
<1>3. /\ Client.phase = "idle" /\ Client.live = {} /\ Client.heard = heard
      /\ Client.named = named /\ Client.bill = <<>>
  BY <1>2 DEF Client
<1>4. \A s \in Sources : heard[s] = Whole(s, 0)
  <2>1. \A s \in Sources : heard[s] = <<>>
    BY DEF Init
  <2>2. \A s \in Sources : Whole(s, 0) = <<>>
    BY DEF Whole
  <2> QED
    BY <2>1, <2>2
<1>5. Sane(Client)
  <2>1. DOMAIN heard = Sources /\ heard = [s \in Sources |-> heard[s]]
    BY DEF Init
  <2>2. Hears(Client)
    BY <1>3, <1>4, <2>1 DEF Hears
  <2>3. Bills(Client)
    BY <1>3 DEF Bills
  <2> QED
    BY <1>2, <1>3, <2>2, <2>3 DEF Sane
<1>6. Shown
  BY <1>2 DEF Init, Shown
<1>7. /\ conv.next = 0 /\ conv.begun = FALSE /\ conv.block = None /\ conv.index = 0
      /\ conv.tools = [t \in {} |-> NoTool] /\ conv.open = {} /\ conv.finished = FALSE
      /\ conv.pending = FALSE /\ conv.usage = 0 /\ conv.latest = 0 /\ conv.stopped = FALSE
      /\ conv.out = <<>>
  BY DEF Init
<1>8. DOMAIN conv.tools = {} /\ conv.tools \in ToolMap
  <2>1. conv.tools \in [{} -> ToolState] /\ {} \in SUBSET Tools
    BY <1>7
  <2> QED
    BY <1>7, <2>1, ToolMaps
<1>9. conv \in Converter
  <2>1. <<>> \in Seq(Event)
    <3> HIDE DEF Event
    <3> QED
      OBVIOUS
  <2>2. PICK T, o : T = conv.tools /\ o = conv.out
    OBVIOUS
  <2>3. conv = [next |-> 0, begun |-> FALSE, block |-> None, index |-> 0,
                tools |-> T, open |-> {}, finished |-> FALSE, pending |-> FALSE,
                usage |-> 0, latest |-> 0, stopped |-> FALSE, out |-> o]
    BY <1>7, <2>2, Zenon DEF Init
  <2>4. T \in ToolMap /\ o \in Seq(Event) /\ {} \in SUBSET Nat
    BY <1>7, <1>8, <2>1, <2>2
  <2> HIDE DEF Voices, Event, ToolMap, None
  <2> QED
    BY <2>3, <2>4 DEF Converter
<1>10. Told(Client, conv.out, Client)
  BY <1>5, <1>7, ToldNothing
<1>11. Placed(conv, Client)
  <2>1. IsFiniteSet({})
    BY FS_EmptySet
  <2> QED
    BY <1>2, <1>3, <1>7, <1>8, <2>1 DEF Placed, ToolsPlaced
<1>12. said \in [Sources -> Nat] /\ \A s \in Sources : said[s] = 0
  BY DEF Init
<1>13. Heeds(conv, Client, said)
  <2>1. \A s \in Sources : Client.heard[s] = Whole(s, 0)
    BY <1>3, <1>4
  <2> QED
    BY <1>8, <1>12, <2>1, SourcesAre DEF Heeds
<1>14. Room(conv, 0)
  <2>1. Cardinality({}) = 0
    BY FS_EmptySet
  <2> QED
    BY <1>1, <1>7, <1>8, <2>1 DEF Room
<1>15. Before(Client, conv, Client, said, 0)
  BY <1>3, <1>5, <1>7, <1>9, <1>10, <1>11, <1>13, <1>14 DEF Before
<1>16. Unfinished(Client, conv, said, 0)
  BY <1>15 DEF Unfinished
<1>17. line = "open" /\ lines = 0 /\ 2 * lines = 0
  BY DEF Init
<1>18. Stands(Client, conv, said, line, 2 * lines)
  BY <1>16, <1>17 DEF Stands
<1> QED
  BY <1>1, <1>5, <1>6, <1>17, <1>18 DEF ChatInv

(* A line of the upstream.                                                   *)
LEMMA HearStands ==
    ASSUME ChatInv, NEW chunk \in Chunks, Hear(chunk), MaySay(chunk)
    PROVE  /\ Stands(Client, conv', said', line, 2 * lines') /\ lines' \in 0..MaxChunks
           /\ line = "open"
<1>1. /\ line = "open" /\ lines \in 0..MaxChunks /\ lines < MaxChunks /\ lines' = lines + 1
      /\ conv.finished => ~chunk.thinking /\ ~chunk.text /\ chunk.calls = <<>>
  BY DEF ChatInv, Hear, Pulled, MaySay
<1>2. PICK b : b = 2 * lines
  OBVIOUS
<1>3. b + 2 = 2 * lines' /\ b + 2 \in 0..2 * MaxChunks /\ b + 1 \in 0..2 * MaxChunks
      /\ (b + 1) + 1 = b + 2 /\ lines' \in 0..MaxChunks
  BY <1>1, <1>2, SourcesAre
<1>4. conv' = Heard(chunk) /\ said' = Counted(chunk, conv')
  BY DEF Hear, Heard
<1>5. PICK d : d = Heard(chunk)
  OBVIOUS
<1>6. Stands(Client, conv, said, line, b)
  BY <1>2 DEF ChatInv
<1>7. Stands(Client, d, Counted(chunk, d), line, b + 2)
  <2>1. CASE Unfinished(Client, conv, said, b)
    <3>1. \/ Unfinished(Client, d, Counted(chunk, d), b + 2)
          \/ \E g : Prepared(Client, d, g, Counted(chunk, d))
      BY <1>3, <1>5, <2>1, HeardOpen
    <3> QED
      BY <1>1, <3>1 DEF Stands
  <2>2. ASSUME NEW g, Prepared(Client, conv, g, said)
        PROVE  Stands(Client, d, Counted(chunk, d), line, b + 2)
    <3>1. Silent(chunk) /\ said \in [Sources -> Nat]
      BY <1>1, <2>2 DEF Prepared, Closed, Silent, Heeds
    <3>2. Prepared(Client, d, g, said)
      BY <1>5, <2>2, <3>1, HeardPrepared
    <3>3. Counted(chunk, d) = said
      BY <3>1, NothingCounted
    <3> QED
      BY <1>1, <3>2, <3>3 DEF Stands
  <2> QED
    BY <1>1, <1>6, <2>1, <2>2 DEF Stands
<1>8. conv' = d /\ said' = Counted(chunk, d)
  BY <1>4, <1>5, Zenon
<1> QED
  BY <1>1, <1>3, <1>7, <1>8, Zenon

(* A client that is handed nothing stays what it is.                         *)
LEMMA SameClient ==
    ASSUME UNCHANGED <<view, heard, named, bill>>, ChatInv
    PROVE  Client' = Client /\ Sane(Client)' /\ Shown'
<1>1. Client' = Client
  BY Zenon DEF Client
<1>2. Sane(Client') /\ Shown'
  <2>1. Shown'
    BY DEF Shown, ChatInv
  <2> QED
    BY <1>1, <2>1 DEF ChatInv
<1> QED
  BY <1>1, <1>2

(* An event reaches the client.                                              *)
LEMMA YieldTells ==
    ASSUME Shown, Yield
    PROVE  Client' = After(Client, Head(conv.out)) /\ Shown' /\ conv' = Handed(conv)
<1>1. PICK e : e = Head(conv.out)
  OBVIOUS
<1>2. conv' = Handed(conv)
  BY Zenon DEF Yield, Handed
<1>3. view' = Seen(e)
  BY <1>1, Zenon DEF Yield
<1>4. /\ view'.phase = IF e.type \in DOMAIN Phase THEN Phase[e.type] ELSE view.phase
      /\ view'.kinds = IF e.type # "start" THEN view.kinds
                       ELSE [i \in DOMAIN view.kinds \cup {e.index} |->
                               IF i = e.index
                               THEN IF e.source \in Voices THEN e.source ELSE "tool_use"
                               ELSE view.kinds[i]]
      /\ view'.live = IF e.type = "start" THEN view.live \cup {e.index}
                      ELSE IF e.type = "stop" THEN view.live \ {e.index} ELSE view.live
      /\ view' = [phase |-> view'.phase, kinds |-> view'.kinds, live |-> view'.live,
                  events |-> view'.events]
  BY <1>3 DEF Seen, Shown
<1>5. /\ named' = IF e.type # "start" THEN named
                  ELSE [i \in DOMAIN named \cup {e.index} |->
                          IF i = e.index THEN e.source ELSE named[i]]
      /\ heard' = IF e.type # "delta" THEN heard
                  ELSE [heard EXCEPT ![named[e.index]] = @ \o e.pieces]
      /\ bill' = IF e.type = "message_delta" THEN Append(bill, e.usage) ELSE bill
  BY <1>1, Zenon DEF Yield
<1>6. Shown'
  BY <1>4, <1>5 DEF Shown
<1>7. view'.phase = IF e.type = "message_start" THEN "begun"
                    ELSE IF e.type = "message_delta" THEN "told"
                    ELSE IF e.type = "message_stop" THEN "over"
                    ELSE IF e.type = "error" THEN "failed" ELSE view.phase
  BY <1>4 DEF Phase
<1>8. Client' = After(Client, e)
  <2>1. Client' = [phase |-> view'.phase, live |-> view'.live, heard |-> heard',
                   named |-> named', bill |-> bill']
    BY Zenon DEF Client
  <2>2. /\ Client.phase = view.phase /\ Client.live = view.live /\ Client.heard = heard
        /\ Client.named = named /\ Client.bill = bill
    BY DEF Client
  <2> QED
    BY <1>4, <1>5, <1>7, <2>1, <2>2, Zenon DEF After
<1> QED
  BY <1>1, <1>2, <1>6, <1>8

(* ChatInv is about upstreams that have kept to their grammar so far.        *)
Manners == polite => ChatInv

(* Every step of the converter, the client and such an upstream keeps it.    *)
LEMMA ChatStep == Manners /\ [Next]_vars => Manners'
<1> SUFFICES ASSUME polite => ChatInv, [Next]_vars, polite' PROVE ChatInv'
  BY DEF Manners
<1>0. polite /\ ChatInv
  BY DEF Next, vars, Hear, HearDone, Break, End, Yield
<1>1. ASSUME NEW chunk \in Chunks, Hear(chunk) PROVE ChatInv'
  <2>0. MaySay(chunk)
    BY <1>1 DEF Hear
  <2>1. UNCHANGED <<line, view, heard, named, bill>>
    BY <1>1 DEF Hear
  <2>2. /\ Stands(Client, conv', said', line, 2 * lines') /\ lines' \in 0..MaxChunks
        /\ line = "open"
    BY <1>0, <1>1, <2>0, HearStands
  <2>3. Client' = Client /\ Sane(Client)' /\ Shown'
    BY <1>0, <2>1, SameClient
  <2> QED
    BY <1>0, <2>1, <2>2, <2>3 DEF ChatInv
<1>2. CASE HearDone
  <2>1. /\ UNCHANGED <<said, view, heard, named, bill>> /\ line' = "done" /\ lines' = lines + 1
        /\ lines < MaxChunks /\ line = "open" /\ conv.finished
        /\ conv' = [Out(Flush(conv), Plain("message_stop")) EXCEPT !.stopped = TRUE]
    BY <1>2, <1>0 DEF HearDone, Pulled
  <2>2. Client' = Client /\ Sane(Client)' /\ Shown'
    BY <1>0, <2>1, SameClient
  <2>3. PICK g : Prepared(Client, conv, g, said)
    BY <1>0, <2>1 DEF ChatInv, Stands, Unfinished, Before, Talk, Going
  <2>4. \E h : Ended(Client, conv', h, said, "done")
    BY <2>1, <2>3, DoneGives
  <2>5. Stands(Client', conv', said', line', 2 * lines')
    BY <2>1, <2>2, <2>4 DEF Stands
  <2>6. lines' \in 0..MaxChunks
    BY <1>0, <2>1, SourcesAre DEF ChatInv
  <2> QED
    BY <1>0, <2>1, <2>2, <2>5, <2>6 DEF ChatInv
<1>3. CASE Break
  <2>1. /\ UNCHANGED <<lines, said, view, heard, named, bill>> /\ line' = "broken"
        /\ line \in {"open", "done"} /\ conv' = Out(conv, Plain("error"))
    BY <1>3, Zenon DEF Break
  <2>2. Client' = Client /\ Sane(Client)' /\ Shown'
    BY <1>0, <2>1, SameClient
  <2>3. \E h : Ended(Client, conv', h, said, "broken")
    BY <1>0, <2>1, BreakGives DEF ChatInv
  <2>4. Stands(Client', conv', said', line', 2 * lines')
    BY <2>1, <2>2, <2>3 DEF Stands
  <2> QED
    BY <1>0, <2>1, <2>2, <2>4 DEF ChatInv
<1>4. CASE End
  <2>1. /\ UNCHANGED <<lines, said, view, heard, named, bill>> /\ line' = "ended"
        /\ line \in {"open", "done"} /\ conv' = Finishing(conv)
    BY <1>4, Zenon DEF End, Finishing
  <2>2. Client' = Client /\ Sane(Client)' /\ Shown'
    BY <1>0, <2>1, SameClient
  <2>3. \E h : Ended(Client, conv', h, said, "ended")
    BY <1>0, <2>1, EndGives DEF ChatInv
  <2>4. Stands(Client', conv', said', line', 2 * lines')
    BY <2>1, <2>2, <2>3 DEF Stands
  <2> QED
    BY <1>0, <2>1, <2>2, <2>4 DEF ChatInv
<1>5. CASE Yield
  <2>1. UNCHANGED <<line, lines, said>> /\ conv.out # <<>>
    BY <1>5 DEF Yield
  <2>2. PICK e : e = Head(conv.out)
    OBVIOUS
  <2>3. Client' = After(Client, e) /\ Shown' /\ conv' = Handed(conv)
    BY <1>0, <1>5, <2>2, YieldTells DEF ChatInv
  <2>4. Fitting(Client, e) /\ Stands(After(Client, e), Handed(conv), said, line, 2 * lines)
    <3>1. Stands(Client, conv, said, line, 2 * lines)
      BY <1>0 DEF ChatInv
    <3>2. /\ Fitting(Client, Head(conv.out))
          /\ Stands(After(Client, Head(conv.out)), Handed(conv), said, line, 2 * lines)
      BY <2>1, <3>1, HandedStands
    <3> QED
      BY <2>2, <3>2, Zenon
  <2>5. Sane(After(Client, e))
    BY <1>0, <2>4, ToldOne DEF ChatInv
  <2>6. Sane(Client')
    BY <2>3, <2>5, Zenon
  <2>7. Stands(Client', conv', said', line', 2 * lines')
    BY <2>1, <2>3, <2>4, Zenon
  <2> QED
    BY <1>0, <2>1, <2>3, <2>6, <2>7 DEF ChatInv
<1>6. CASE UNCHANGED vars
  <2>1. /\ UNCHANGED <<conv, line, lines, said>> /\ UNCHANGED <<view, heard, named, bill>>
    BY <1>6 DEF vars
  <2>2. Client' = Client /\ Sane(Client)' /\ Shown'
    BY <1>0, <2>1, SameClient
  <2> QED
    BY <1>0, <2>1, <2>2 DEF ChatInv
<1> QED
  BY <1>1, <1>2, <1>3, <1>4, <1>5, <1>6 DEF Next

LEMMA ChatAlways == Spec => []Manners
<1>1. Init => Manners
  BY ChatStarts DEF Manners
<1> QED
  BY <1>1, ChatStep, PTL DEF Spec

(* What a client has heard is the beginning of what was said, and when all   *)
(* was handed over and the answer is finished, the whole of it.              *)
LEMMA NoneIsLost == Manners => NothingLost
<1> SUFFICES ASSUME ChatInv, NEW s \in Sources
             PROVE  /\ heard[s] = [n \in 1..Len(heard[s]) |-> <<s, n>>]
                    /\ Len(heard[s]) <= said[s]
                    /\ Quiet /\ conv.finished => Len(heard[s]) = said[s]
  BY DEF Manners, NothingLost
<1>1. PICK g : /\ conv \in Converter /\ Told(Client, conv.out, g) /\ Sane(g)
               /\ Heeds(conv, g, said)
               /\ conv.finished => \A t \in DOMAIN conv.tools : conv.tools[t].pending = <<>>
  BY StandsGives DEF ChatInv
<1>2. PICK n \in Nat : heard[s] = Whole(s, n)
  BY DEF ChatInv, Sane, Hears, Client
<1>3. Len(heard[s]) = n /\ heard[s] = [i \in 1..Len(heard[s]) |-> <<s, i>>]
  BY <1>2, WholeLength DEF Whole
<1>4. PICK m \in Nat : m <= said[s] /\ g.heard[s] = Whole(s, m)
                       /\ (conv.finished => m = said[s])
  <2>0. said[s] \in Nat
    BY <1>1 DEF Heeds
  <2>1. CASE s \in Voices
    BY <1>1, <2>0, <2>1 DEF Heeds
  <2>2. CASE s \in DOMAIN conv.tools /\ conv.tools[s].started
    BY <1>1, <2>0, <2>2 DEF Heeds
  <2>3. CASE s \in DOMAIN conv.tools /\ ~conv.tools[s].started
    <3>1. g.heard[s] = Whole(s, 0) /\ conv.tools[s].pending = Whole(s, said[s])
      BY <1>1, <2>3 DEF Heeds
    <3>2. conv.finished => said[s] = 0
      <4>1. Len(Whole(s, said[s])) = said[s]
        BY <2>0, WholeLength
      <4>2. conv.finished => Whole(s, said[s]) = <<>>
        BY <1>1, <2>3, <3>1
      <4> QED
        BY <4>1, <4>2
    <3> QED
      BY <2>0, <3>1, <3>2
  <2>4. CASE s \in Tools \ DOMAIN conv.tools
    BY <1>1, <2>0, <2>4 DEF Heeds
  <2> QED
    BY <2>1, <2>2, <2>3, <2>4, SourcesAre
<1>5. n <= m
  <2>1. Grows(Client, g)
    <3>1. conv.out \in Seq(Event)
      BY <1>1 DEF Converter
    <3> HIDE DEF Event
    <3> QED
      BY <1>1, <3>1, ToldGrows
  <2>2. Len(Client.heard[s]) = n /\ Len(g.heard[s]) = m
    BY <1>3, <1>4, WholeLength DEF Client
  <2> QED
    BY <2>1, <2>2 DEF Grows
<1>6. Quiet => n = m
  <2>1. Quiet => g = Client
    BY <1>1, ToldNothing DEF ChatInv, Quiet
  <2>2. Quiet => Whole(s, n) = Whole(s, m)
    BY <1>2, <1>4, <2>1 DEF Client
  <2> QED
    BY <2>2, WholesDiffer
<1>7. said[s] \in Nat
  BY <1>1 DEF Heeds
<1> QED
  BY <1>3, <1>4, <1>5, <1>6, <1>7

(* The bill follows: it is the client's, once nothing is on its way.         *)
LEMMA OneBill == Manners => BilledOnce
<1> SUFFICES ASSUME ChatInv PROVE BilledOnce
  BY DEF Manners, BilledOnce
<1>1. Bills(Client) /\ Sane(Client)
  BY DEF ChatInv, Sane
<1>2. Client.bill = bill /\ Client.phase = view.phase
  BY DEF Client
<1>3. ASSUME Quiet, line = "ended", conv.finished
      PROVE  view.phase = "over" /\ bill = <<conv.latest>>
  <2>1. PICK g : Ended(Client, conv, g, said, line)
    BY <1>3 DEF ChatInv, Stands
  <2>2. g = Client
    BY <1>1, <1>3, <2>1, ToldNothing DEF Ended, Quiet
  <2> QED
    BY <1>2, <1>3, <2>1, <2>2 DEF Ended
<1> QED
  BY <1>1, <1>2, <1>3 DEF Bills, BilledOnce

(* For any tools, lines, threshold and length of an answer, and for as long  *)
(* as the upstream keeps to its grammar, every block is handed the pieces of *)
(* its source in order and, once the answer is finished, all of them         *)
(* (create_anthropic_sse_stream).                                            *)
THEOREM NoPieceIsLost == Spec => []NothingLost
BY ChatAlways, NoneIsLost, PTL

(* Of an upstream that keeps to its grammar the usage is told at most once,  *)
(* and that of a finished answer that was not broken off once, and last: the *)
(* message_delta is flushed by [DONE] and by the end of the body.            *)
THEOREM BilledOneTime == Spec => []BilledOnce
BY ChatAlways, OneBill, PTL

(* A step is one of Messages' for the client, or leaves what it sees alone.  *)
LEMMA StepTells ==
    ASSUME Manners, [Next]_vars
    PROVE  [polite => M!Conversation]_(M!view)
<1> SUFFICES ASSUME ChatInv PROVE [M!Conversation]_(M!view)
  BY DEF Manners
<1> USE DEF M!view
<1>1. CASE UNCHANGED view
  BY <1>1
<1>2. CASE Yield
  <2>1. PICK e : e = Head(conv.out)
    OBVIOUS
  <2>2. Fitting(Client, e)
    <3>1. Stands(Client, conv, said, line, 2 * lines) /\ conv.out # <<>>
      BY <1>2 DEF ChatInv, Yield
    <3> QED
      BY <2>1, <3>1, HandedStands
  <2>3. /\ Client.phase = view.phase /\ Client.live = view.live
        /\ Client.named = named /\ DOMAIN view.kinds = DOMAIN named
    BY DEF Client, ChatInv, Shown
  <2>4. view' = Seen(e)
    BY <1>2, <2>1, Zenon DEF Yield
  <2>5. /\ view'.phase = IF e.type \in DOMAIN Phase THEN Phase[e.type] ELSE view.phase
        /\ view'.kinds = IF e.type # "start" THEN view.kinds
                         ELSE [i \in DOMAIN view.kinds \cup {e.index} |->
                                 IF i = e.index
                                 THEN IF e.source \in Voices THEN e.source ELSE "tool_use"
                                 ELSE view.kinds[i]]
        /\ view'.live = IF e.type = "start" THEN view.live \cup {e.index}
                        ELSE IF e.type = "stop" THEN view.live \ {e.index} ELSE view.live
        /\ view'.events = view.events + 1
    BY <2>4 DEF Seen, ChatInv, Shown
  <2>6. M!Event
    BY <2>5 DEF M!Event
  <2>7. CASE e.type = "message_start"
    <3>1. M!MessageStart
      BY <2>2, <2>3, <2>5, <2>6, <2>7 DEF Fitting, Phase, M!MessageStart
    <3> QED
      BY <3>1 DEF M!Conversation
  <2>8. CASE e.type = "start"
    <3>1. PICK kind : kind = IF e.source \in Voices THEN e.source ELSE "tool_use"
      OBVIOUS
    <3>2. kind \in BlockKinds /\ e.index \in Indices /\ e.index \notin DOMAIN view.kinds
          /\ view.phase = "begun"
      BY <2>2, <2>3, <2>8, <3>1 DEF Fitting, BlockKinds
    <3>3. view'.phase = view.phase
      BY <2>5, <2>8 DEF Phase
    <3>4. M!BlockStart(e.index, kind)
      BY <2>5, <2>6, <2>8, <3>1, <3>2, <3>3 DEF M!BlockStart, M!Blocks
    <3> QED
      BY <3>2, <3>4 DEF M!Conversation
  <2>9. CASE e.type = "delta"
    <3>1. M!BlockDelta(e.index) /\ e.index \in view.live
      BY <2>2, <2>3, <2>5, <2>6, <2>9 DEF Fitting, Phase, M!BlockDelta
    <3> QED
      BY <3>1 DEF M!Conversation
  <2>10. CASE e.type = "stop"
    <3>1. M!BlockStop(e.index) /\ e.index \in view.live
      BY <2>2, <2>3, <2>5, <2>6, <2>10 DEF Fitting, Phase, M!BlockStop
    <3> QED
      BY <3>1 DEF M!Conversation
  <2>11. CASE e.type = "message_delta"
    <3>1. M!MessageDelta
      BY <2>2, <2>3, <2>5, <2>6, <2>11 DEF Fitting, Phase, M!MessageDelta
    <3> QED
      BY <3>1 DEF M!Conversation
  <2>12. CASE e.type = "message_stop"
    <3>1. M!MessageStop
      BY <2>2, <2>3, <2>5, <2>6, <2>12 DEF Fitting, Phase, M!MessageStop
    <3> QED
      BY <3>1 DEF M!Conversation
  <2>13. CASE e.type = "error"
    <3>1. M!Error
      BY <2>2, <2>3, <2>5, <2>6, <2>13 DEF Fitting, Phase, M!Error
    <3> QED
      BY <3>1 DEF M!Conversation
  <2> QED
    BY <2>2, <2>7, <2>8, <2>9, <2>10, <2>11, <2>12, <2>13 DEF Fitting
<1>3. Yield \/ UNCHANGED view
  BY DEF Next, vars, Hear, HearDone, Break, End
<1> QED
  BY <1>1, <1>2, <1>3

(* The converter implements Messages for as long as the upstream keeps to    *)
(* its own grammar (MaySay: nothing but finish_reasons and usage after the   *)
(* first finish_reason, [DONE] last and after a finish_reason), wherever it  *)
(* breaks off: each event is one a client of the Messages API may be told    *)
(* next.  After a line against that grammar it need not be: text after the   *)
(* finish_reason opens a block that is never closed.                         *)
THEOREM ClientsAreToldAMessage == Spec => TellsAMessage
<1>1. Init => M!Idle
  BY DEF Init, M!Idle
<1>2. Manners /\ [Next]_vars => [polite => M!Conversation]_(M!view)
  BY StepTells
<1> QED
  BY ChatAlways, <1>1, <1>2, PTL DEF Spec, TellsAMessage
=============================================================================
