---------------------------- MODULE ForwardProof ----------------------------
(***************************************************************************)
(* Proofs about the forwarding of one request (forward/stream.rs and        *)
(* forward/upstream.rs).                                                    *)
(*                                                                          *)
(* SseStream, for streams of any events, of any length, cut into chunks     *)
(* anywhere: the types, that a stream is reported once, that it is handed   *)
(* on whole, that its row counts what arrived, and that it is given up on   *)
(* for silence only.  What makes the second and third inductive: until the  *)
(* stream is over the buffer is drained up to a line end and holds none, so *)
(* no data line is ever split between two blocks.                           *)
(*                                                                          *)
(* RetryBudget, in the last part: its bounds hold for every plan, budget,   *)
(* cap and timer lateness.  The two modules share no variable.              *)
(***************************************************************************)
EXTENDS SseStream, RetryBudget, TLAPS

(* The chunks on the wire are in order, and are all there is to read.        *)
Wired ==
    /\ \A i \in DOMAIN wire : read < wire[i] /\ wire[i] <= sent
    /\ \A i, j \in DOMAIN wire : i < j => wire[i] < wire[j]
    /\ wire = <<>> => read = sent
    /\ wire # <<>> => wire[Len(wire)] = sent

(* The buffer begins after a line end and holds none.                        *)
Split ==
    /\ ~ended => drained = 0 \/ IsEol(drained)
    /\ \A c \in drained + 1..read : ~IsEol(c)

HandedOn ==
    /\ delivered \subseteq 1..drained
    /\ \A c \in 1..drained : ~(strip /\ script[Event(c)] = "tally") => c \in delivered
    /\ strip => \A e \in DOMAIN script : script[e] = "tally" => ~(Line(e) \subseteq delivered)

(* What the scanner was fed.                                                 *)
Counted ==
    /\ \A e \in DOMAIN script : 4 * e - 1 <= drained => e \in scanned
    /\ \A e \in scanned : 4 * e - 2 <= drained

(* The report and its row.                                                   *)
Once ==
    /\ submitted \in {0, 1}
    /\ finished <=> submitted = 1
    /\ client = "reading" => ~finished
    /\ ~finished => outbox = <<>> /\ rows = <<>>
    /\ \A i \in DOMAIN outbox : outbox[i].usage = scanned \cap Carriers
    /\ \A i \in DOMAIN rows : rows[i].usage = scanned \cap Carriers

(* A stream that ended by itself.                                            *)
Whole ==
    /\ client = "done" => ended
    /\ ended /\ status = "ok" /\ client \in {"reading", "done"} =>
         /\ over # "no"
         /\ drained = sent
         /\ \A e \in DOMAIN script : 4 * e - 2 <= sent => e \in scanned

IInv == TypeOK /\ Wired /\ Split /\ HandedOn /\ Counted /\ Once /\ Whole

-----------------------------------------------------------------------------
(* The cells of an event.                                                    *)
LEMMA EventOfLine ==
    ASSUME NEW e \in Nat \ {0}
    PROVE  /\ Line(e) = {4 * e - 3, 4 * e - 2}
           /\ Event(4 * e - 3) = e /\ Event(4 * e - 2) = e
           /\ IsEol(4 * e - 1)
    BY DEF Line, Event, IsEol

(* A line end parts no data line.                                            *)
LEMMA NotInALine ==
    ASSUME NEW d \in Nat, d = 0 \/ IsEol(d), NEW e \in Nat \ {0}
    PROVE  4 * e - 3 > d \/ 4 * e - 1 <= d
    BY DEF IsEol

LEMMA ScriptFacts ==
    ASSUME TypeOK
    PROVE  /\ script \in Seq(Kinds)
           /\ Len(script) \in Nat
           /\ DOMAIN script = 1..Len(script)
           /\ DOMAIN script \subseteq Nat \ {0}
           /\ Size \in Nat
           /\ \A e \in DOMAIN script : script[e] \in Kinds
    BY ScriptsAssumption DEF TypeOK, Size

LEMMA LimitFacts == /\ Longest \in Nat
                    /\ Limit(TRUE) \in Never..Longest /\ Limit(FALSE) \in Never..Longest
    BY LimitsAssumption DEF Longest, Limit, Never

(* The last line end up to a cell.                                           *)
LEMMA LastEol ==
    ASSUME NEW d \in Nat, NEW r \in Nat, NEW ends, ends = {c \in d + 1..r : IsEol(c)},
           ends # {}
    PROVE  /\ Max(ends) \in ends
           /\ Max(ends) \in d + 1..r
           /\ IsEol(Max(ends))
           /\ \A c \in Max(ends) + 1..r : ~IsEol(c)
    <1> DEFINE last == IF r % 4 = 1 THEN r - 1 ELSE IF r % 4 = 2 THEN r - 2 ELSE r
    <1>1. PICK c \in ends : TRUE
        OBVIOUS
    <1>2. last \in Int /\ last <= r /\ IsEol(last)
        BY DEF IsEol
    <1>3. \A x \in d + 1..r : IsEol(x) => last >= x
        BY DEF IsEol
    <1>4. last \in ends
        BY <1>1, <1>2, <1>3
    <1>5. \A x \in ends : last >= x
        BY <1>3
    <1> HIDE DEF last
    <1>6. Max(ends) \in ends /\ \A x \in ends : Max(ends) >= x
        <2>1. \E m \in ends : \A x \in ends : m >= x
            BY <1>4, <1>5
        <2> QED
            BY <2>1 DEF Max
    <1>7. Max(ends) \in d + 1..r /\ IsEol(Max(ends))
        BY <1>6
    <1>8. \A x \in Max(ends) + 1..r : ~IsEol(x)
        <2> SUFFICES ASSUME NEW x \in Max(ends) + 1..r, IsEol(x)
                     PROVE  FALSE
            OBVIOUS
        <2>1. x \in d + 1..r /\ x > Max(ends)
            BY <1>7
        <2>2. x \in ends
            BY <2>1
        <2> QED
            BY <2>1, <2>2, <1>6, <1>7
    <1> QED
        BY <1>6, <1>7, <1>8
-----------------------------------------------------------------------------
LEMMA InitHolds == Init => IInv
    <1> SUFFICES ASSUME Init PROVE IInv
        OBVIOUS
    <1>1. /\ script \in Seq(Kinds) /\ Len(script) \in Nat /\ Size \in Nat
          /\ DOMAIN script \subseteq Nat \ {0}
        BY ScriptsAssumption DEF Init, Size
    <1>2. TypeOK
        <2>1. wire \in Seq(1..Size) /\ outbox \in Seq(Row) /\ rows \in Seq(Row)
            BY DEF Init
        <2>2. silence \in 0..Longest /\ lull \in 0..Longest
            BY LimitFacts DEF Init
        <2>4. left \in Never..Longest
            BY LimitFacts DEF Init
        <2>3. sent \in 0..Size /\ read \in 0..sent /\ drained \in 0..read
              /\ submitted \in Nat /\ notice \in Never..Size
            BY <1>1 DEF Init, Never
        <2> QED
            BY <2>1, <2>2, <2>3, <2>4 DEF Init, TypeOK
    <1>3. Wired
        <2>1. DOMAIN wire = {}
            BY DEF Init
        <2> QED
            BY <2>1 DEF Init, Wired
    <1>7. Split
        BY DEF Init, Split
    <1>4. HandedOn
        <2>1. \A e \in DOMAIN script : 4 * e - 3 \in Line(e)
            BY <1>1, EventOfLine
        <2> QED
            BY <2>1 DEF Init, HandedOn
    <1>5. Counted
        BY <1>1 DEF Init, Counted
    <1>6. Once /\ Whole
        BY DEF Init, Once, Whole
    <1> QED
        BY <1>2, <1>3, <1>4, <1>5, <1>6, <1>7 DEF IInv

(* The report goes out once, with what was scanned by then.                  *)
LEMMA Finishing ==
    ASSUME IInv, ~finished, script' = script, scanned' \subseteq DOMAIN script,
           NEW status_ \in {"ok", "stream_timeout"}, NEW cut_ \in BOOLEAN,
           Finish(scanned', status_, cut_), client' # "reading"
    PROVE  /\ finished' \in BOOLEAN /\ submitted' \in Nat
           /\ outbox' \in Seq(Row)' /\ rows' \in Seq(Row)'
           /\ Once'
    <1>1. submitted = 0 /\ outbox = <<>> /\ rows = <<>>
        BY DEF IInv, Once
    <1>2. finished' = TRUE /\ submitted' = 1 /\ rows' = <<>>
          /\ outbox' = <<Sample(scanned', status_, cut_)>>
        BY <1>1 DEF Finish
    <1>3. Carriers' = Carriers
        BY DEF Carriers
    <1>4. Sample(scanned', status_, cut_) \in Row'
        BY DEF Sample, Row, Carriers
    <1> DEFINE s == Sample(scanned', status_, cut_)
    <1>5. s.usage = scanned' \cap Carriers'
        BY <1>3 DEF Sample
    <1> HIDE DEF s
    <1>6. outbox' \in Seq(Row') /\ rows' \in Seq(Row')
        BY <1>2, <1>4
    <1>7. \A i \in DOMAIN outbox' : outbox'[i].usage = scanned' \cap Carriers'
        <2>1. outbox' = <<s>>
            BY <1>2 DEF s
        <2>2. DOMAIN outbox' = {1} /\ outbox'[1] = s
            BY <2>1
        <2> QED
            BY <2>2, <1>5
    <1>8. \A i \in DOMAIN rows' : rows'[i].usage = scanned' \cap Carriers'
        BY <1>2
    <1> QED
        BY <1>2, <1>6, <1>7, <1>8 DEF Once

(* A step that leaves the report alone.                                      *)
LEMMA NotFinishing ==
    ASSUME IInv, script' = script, scanned' = scanned \/ client = "reading",
           UNCHANGED <<finished, outbox, rows, submitted>>,
           client' = "reading" => client = "reading"
    PROVE  /\ finished' \in BOOLEAN /\ submitted' \in Nat
           /\ outbox' \in Seq(Row)' /\ rows' \in Seq(Row)'
           /\ Once'
    <1>1. Row' = Row /\ Carriers' = Carriers
        BY DEF Row, Carriers
    <1>2. finished \in BOOLEAN /\ submitted \in Nat /\ outbox \in Seq(Row) /\ rows \in Seq(Row)
        BY DEF IInv, TypeOK
    <1>3. \A i \in DOMAIN outbox : outbox[i].usage = scanned' \cap Carriers
        BY DEF IInv, Once
    <1>4. \A i \in DOMAIN rows : rows[i].usage = scanned' \cap Carriers
        BY DEF IInv, Once
    <1> QED
        BY <1>1, <1>2, <1>3, <1>4 DEF IInv, Once
-----------------------------------------------------------------------------
(* The upstream: only the wire changes.                                      *)
LEMMA SendKeeps ==
    ASSUME IInv, NEW upto \in 1..Size, Send(upto)
    PROVE  IInv'
    <1> USE DEF IInv
    <1>1. TypeOK'
        <2>1. sent' \in 0..Size /\ sent < sent' /\ wire' \in Seq(1..Size) /\ Size' = Size
            BY ScriptFacts DEF Send, TypeOK, Size, fixed
        <2>2. silence' \in 0..Longest /\ lull' \in 0..Longest
            BY LimitFacts DEF Send, Heard, TypeOK, clock
        <2>3. read' \in 0..sent' /\ drained' \in 0..read'
            BY <2>1, ScriptFacts DEF Send, TypeOK, stream
        <2>4. Row' = Row
            BY DEF Send, Row, fixed
        <2> QED
            BY <2>1, <2>2, <2>3, <2>4 DEF Send, TypeOK, fixed, stream, reader, meter
    <1>2. Wired'
        <2>1. /\ wire \in Seq(1..Size) /\ Len(wire) \in Nat /\ DOMAIN wire = 1..Len(wire)
              /\ sent \in Nat /\ read \in Nat /\ Size \in Nat /\ read <= sent
            BY ScriptFacts DEF TypeOK
        <2>2. /\ Len(wire') = Len(wire) + 1 /\ DOMAIN wire' = 1..Len(wire) + 1
              /\ wire'[Len(wire) + 1] = upto
              /\ \A i \in 1..Len(wire) : wire'[i] = wire[i]
              /\ wire' # <<>>
            BY <2>1 DEF Send
        <2>3. sent' = upto /\ upto > sent /\ read' = read
            BY <2>1 DEF Send, stream
        <2>4. \A i \in 1..Len(wire) : wire[i] \in Int /\ read < wire[i] /\ wire[i] <= sent
            BY <2>1 DEF Wired
        <2>5. \A i \in DOMAIN wire' : read' < wire'[i] /\ wire'[i] <= sent'
            BY <2>1, <2>2, <2>3, <2>4
        <2>6. \A i, j \in 1..Len(wire) : i < j => wire[i] < wire[j]
            BY <2>1 DEF Wired
        <2>7. \A i, j \in DOMAIN wire' : i < j => wire'[i] < wire'[j]
            BY <2>1, <2>2, <2>3, <2>4, <2>6, SMTT(30)
        <2>8. wire'[Len(wire')] = sent'
            BY <2>2, <2>3
        <2> QED
            BY <2>2, <2>5, <2>7, <2>8 DEF Wired
    <1>3. Split' /\ HandedOn' /\ Counted'
        <2>1. UNCHANGED <<script, strip, read, drained, ended, delivered, scanned>>
            BY DEF Send, fixed, stream, reader
        <2> QED
            BY <2>1 DEF Split, HandedOn, Counted, Line
    <1>4. Once'
        BY DEF Send, Once, Carriers, fixed, stream, reader, meter
    <1>5. Whole'
        BY DEF Send, Whole, fixed, stream, reader, meter
    <1> QED
        BY <1>1, <1>2, <1>3, <1>4, <1>5

LEMMA CloseKeeps ==
    ASSUME IInv, NEW how \in {"ended", "failed"}, Close(how)
    PROVE  IInv'
    <1> USE DEF IInv
    <1>1. UNCHANGED <<script, strip, known, attentive, sent, wire, stream, reader, meter>>
        BY DEF Close, fixed
    <1>2. TypeOK'
        <2>1. silence' \in 0..Longest /\ lull' \in 0..Longest
            BY LimitFacts DEF Close, Heard, TypeOK, clock
        <2>2. over' \in {"no", "ended", "failed"}
            BY DEF Close
        <2>3. Row' = Row /\ Size' = Size
            BY <1>1 DEF Row, Size
        <2> QED
            BY <1>1, <2>1, <2>2, <2>3 DEF TypeOK, stream, reader, meter
    <1>3. Wired' /\ Split' /\ HandedOn' /\ Counted'
        BY <1>1 DEF Wired, Split, HandedOn, Counted, Line, stream, reader
    <1>4. Once'
        BY <1>1 DEF Once, Carriers, stream, reader, meter
    <1>5. Whole'
        BY <1>1 DEF Close, Whole, stream, reader, meter
    <1> QED
        BY <1>2, <1>3, <1>4, <1>5

(* Time.                                                                     *)
LEMMA TickKeeps ==
    ASSUME IInv, Tick
    PROVE  IInv'
    <1> USE DEF IInv
    <1>1. UNCHANGED <<script, strip, known, attentive, sent, wire, over, lull, read, drained, first,
                      ended, scanned, status, cut, finished, client, delivered, notice, outbox,
                      rows, submitted>>
        BY DEF Tick, fixed, upstream, reader, meter
    <1>2. TypeOK'
        <2>1. silence' \in 0..Longest
            BY LimitFacts DEF Tick, TypeOK
        <2>2. left' \in Never..Longest
            BY LimitFacts DEF Tick, TypeOK, Less, Never
        <2>3. Row' = Row /\ Size' = Size
            BY <1>1 DEF Row, Size
        <2> QED
            BY <1>1, <2>1, <2>2, <2>3 DEF TypeOK
    <1>3. Wired' /\ Split' /\ HandedOn' /\ Counted'
        BY <1>1 DEF Wired, Split, HandedOn, Counted, Line
    <1>4. Once' /\ Whole'
        BY <1>1 DEF Once, Whole, Carriers
    <1> QED
        BY <1>2, <1>3, <1>4

(* The recording task.                                                       *)
LEMMA RecordKeeps ==
    ASSUME IInv, Record
    PROVE  IInv'
    <1> USE DEF IInv
    <1>1. UNCHANGED <<script, strip, known, attentive, sent, wire, over, silence, lull, read,
                      drained, first, left, ended, scanned, status, cut, finished, client,
                      delivered, notice, submitted>>
        BY DEF Record, fixed, upstream, clock, stream, reader
    <1>2. outbox \in Seq(Row) /\ rows \in Seq(Row) /\ outbox # <<>>
        BY DEF Record, TypeOK
    <1>3. /\ outbox' = Tail(outbox) /\ rows' = Append(rows, Head(outbox))
          /\ Row' = Row /\ Size' = Size /\ Carriers' = Carriers
        BY <1>1 DEF Record, Row, Size, Carriers
    <1> DEFINE R == Row
    <1>4. outbox \in Seq(R) /\ rows \in Seq(R)
        BY <1>2
    <1> HIDE DEF R
    <1>5. outbox' \in Seq(R) /\ rows' \in Seq(R)
        BY <1>2, <1>3, <1>4
    <1>6. \A i \in DOMAIN outbox' : outbox'[i] = outbox[i + 1] /\ i + 1 \in DOMAIN outbox
        BY <1>2, <1>3, <1>4
    <1>7. \A i \in DOMAIN rows' : \/ i \in DOMAIN rows /\ rows'[i] = rows[i]
                                  \/ rows'[i] = outbox[1] /\ 1 \in DOMAIN outbox
        BY <1>2, <1>3, <1>4
    <1>8. Once'
        <2>1. \A i \in DOMAIN outbox' : outbox'[i].usage = scanned' \cap Carriers'
            BY <1>1, <1>3, <1>6 DEF Once
        <2>2. \A i \in DOMAIN rows' : rows'[i].usage = scanned' \cap Carriers'
            BY <1>1, <1>3, <1>7 DEF Once
        <2>3. finished
            BY <1>2 DEF Once
        <2> QED
            BY <1>1, <2>1, <2>2, <2>3 DEF Once
    <1>9. TypeOK'
        <2>1. outbox' \in Seq(Row') /\ rows' \in Seq(Row')
            BY <1>3, <1>5 DEF R
        <2> QED
            BY <1>1, <1>3, <2>1 DEF TypeOK
    <1>10. Wired' /\ Split' /\ HandedOn' /\ Counted' /\ Whole'
        BY <1>1 DEF Wired, Split, HandedOn, Counted, Line, Whole
    <1> QED
        BY <1>8, <1>9, <1>10
-----------------------------------------------------------------------------
(* The ways out that hand nothing on.                                        *)
LEMMA PollEndedKeeps ==
    ASSUME IInv, PollEnded
    PROVE  IInv'
    <1> USE DEF IInv
    <1>1. UNCHANGED <<script, strip, known, attentive, sent, wire, over, silence, lull, read,
                      drained, first, left, ended, scanned, status, cut, delivered, notice>>
        BY DEF PollEnded, fixed, upstream, clock
    <1>2. client = "reading" /\ ended /\ client' = "done"
        BY DEF PollEnded, Polling
    <1>3. status \in {"ok", "stream_timeout"} /\ cut \in BOOLEAN /\ scanned' \subseteq DOMAIN script
        BY <1>1 DEF TypeOK
    <1>4. Finish(scanned', status, cut)
        BY <1>1 DEF PollEnded
    <1>5. /\ finished' \in BOOLEAN /\ submitted' \in Nat
          /\ outbox' \in Seq(Row)' /\ rows' \in Seq(Row)'
          /\ Once'
        BY <1>1, <1>2, <1>3, <1>4, Finishing DEF Once
    <1>6. TypeOK'
        BY <1>1, <1>2, <1>5 DEF TypeOK, Size
    <1>7. Wired' /\ Split' /\ HandedOn' /\ Counted' /\ Whole'
        BY <1>1, <1>2 DEF Wired, Split, HandedOn, Counted, Line, Whole
    <1> QED
        BY <1>5, <1>6, <1>7

LEMMA PollErrorKeeps ==
    ASSUME IInv, PollError
    PROVE  IInv'
    <1> USE DEF IInv
    <1>1. UNCHANGED <<script, strip, known, attentive, sent, wire, over, silence, lull, read,
                      drained, first, left, scanned, status, cut, delivered, notice>>
        BY DEF PollError, fixed, upstream, clock
    <1>2. client = "reading" /\ ended' = TRUE /\ client' = "broken"
        BY DEF PollError, InnerPolled, Polling
    <1>3. status \in {"ok", "stream_timeout"} /\ cut \in BOOLEAN /\ scanned' \subseteq DOMAIN script
        BY <1>1 DEF TypeOK
    <1>4. Finish(scanned', status, cut)
        BY <1>1 DEF PollError
    <1>5. /\ finished' \in BOOLEAN /\ submitted' \in Nat
          /\ outbox' \in Seq(Row)' /\ rows' \in Seq(Row)'
          /\ Once'
        BY <1>1, <1>2, <1>3, <1>4, Finishing DEF Once
    <1>6. TypeOK'
        BY <1>1, <1>2, <1>5 DEF TypeOK, Size
    <1>7. Wired' /\ Split' /\ HandedOn' /\ Counted' /\ Whole'
        BY <1>1, <1>2 DEF Wired, Split, HandedOn, Counted, Line, Whole
    <1> QED
        BY <1>5, <1>6, <1>7

LEMMA DropKeeps ==
    ASSUME IInv, Drop
    PROVE  IInv'
    <1> USE DEF IInv
    <1>1. UNCHANGED <<script, strip, known, attentive, sent, wire, over, silence, lull, read,
                      drained, first, left, ended, scanned, status, delivered, notice>>
        BY DEF Drop, fixed, upstream, clock
    <1>2. client' = "gone" /\ client # "gone"
        BY DEF Drop
    <1>3. status \in {"ok", "stream_timeout"} /\ scanned' \subseteq DOMAIN script
        BY <1>1 DEF TypeOK
    <1>4. /\ cut' \in BOOLEAN
          /\ finished' \in BOOLEAN /\ submitted' \in Nat
          /\ outbox' \in Seq(Row)' /\ rows' \in Seq(Row)'
          /\ Once'
        <2>1. CASE finished
            <3>1. UNCHANGED <<cut, finished, outbox, rows, submitted>>
                BY <2>1 DEF Drop, meter
            <3> QED
                BY <1>1, <1>2, <3>1, NotFinishing DEF TypeOK
        <2>2. CASE ~finished
            <3>1. cut' = TRUE /\ Finish(scanned', status, TRUE)
                BY <1>1, <2>2 DEF Drop
            <3> QED
                BY <1>1, <1>2, <1>3, <3>1, <2>2, Finishing
        <2> QED
            BY <2>1, <2>2 DEF TypeOK
    <1>5. TypeOK'
        BY <1>1, <1>2, <1>4 DEF TypeOK, Size
    <1>6. Wired' /\ Split' /\ HandedOn' /\ Counted' /\ Whole'
        BY <1>1, <1>2 DEF Wired, Split, HandedOn, Counted, Line, Whole
    <1> QED
        BY <1>4, <1>5, <1>6

LEMMA AbortKeeps ==
    ASSUME IInv, Abort
    PROVE  IInv'
    <1> USE DEF IInv
    <1>1. UNCHANGED <<script, strip, known, attentive, sent, wire, over, silence, lull, read,
                      drained, first, left, scanned, cut, delivered>>
        BY DEF Abort, fixed, upstream, clock
    <1>2. client = "reading" /\ ended' = TRUE /\ status' = "stream_timeout"
        BY DEF Abort, Polling
    <1>3. cut \in BOOLEAN /\ scanned' \subseteq DOMAIN script
        BY <1>1 DEF TypeOK
    <1>4. /\ finished' \in BOOLEAN /\ submitted' \in Nat
          /\ outbox' \in Seq(Row)' /\ rows' \in Seq(Row)'
          /\ Once' /\ client' \in {"reading", "done"}
        <2>1. CASE known
            <3>1. UNCHANGED <<finished, client, outbox, rows, submitted>>
                BY <2>1 DEF Abort, meter
            <3> QED
                BY <1>1, <1>2, <3>1, NotFinishing
        <2>2. CASE ~known
            <3>1. client' = "done" /\ Finish(scanned', "stream_timeout", cut)
                BY <1>1, <1>2, <2>2 DEF Abort
            <3> QED
                BY <1>1, <1>2, <1>3, <3>1, Finishing DEF Once
        <2> QED
            BY <2>1, <2>2
    <1>5. notice' \in Never..Size
        BY ScriptFacts DEF Abort, TypeOK, Never
    <1>6. TypeOK'
        BY <1>1, <1>2, <1>4, <1>5 DEF TypeOK, Size
    <1>7. Wired' /\ Split' /\ HandedOn' /\ Counted' /\ Whole'
        BY <1>1, <1>2 DEF Wired, Split, HandedOn, Counted, Line, Whole
    <1> QED
        BY <1>4, <1>6, <1>7
-----------------------------------------------------------------------------
(* A block, handed on and scanned: what holds of the drained text holds of   *)
(* the text with it.                                                         *)
LEMMA BlockKeeps ==
    ASSUME IInv, ~ended, UNCHANGED <<script, strip>>,
           NEW d \in drained..sent, drained' = d,
           delivered' = delivered \cup Filtered(drained + 1..d),
           Scan(drained + 1..d)
    PROVE  /\ HandedOn' /\ Counted'
           /\ scanned' \subseteq DOMAIN script /\ delivered' \subseteq 1..d
           /\ \A e \in DOMAIN script : 4 * e - 1 <= d => e \in scanned'
           /\ \A e \in DOMAIN script :
                 4 * e - 2 <= d => e \in scanned'
    <1> USE DEF IInv
    <1> DEFINE block == drained + 1..d
               seen == {e \in DOMAIN script : Line(e) \subseteq block}
    <1>1. /\ sent \in Nat /\ read \in Nat /\ drained \in Nat /\ d \in Nat /\ drained <= d
          /\ DOMAIN script \subseteq Nat \ {0}
          /\ scanned \subseteq DOMAIN script
          /\ drained = 0 \/ IsEol(drained)
        BY ScriptFacts DEF TypeOK, Split
    <1>2. scanned' = scanned \cup seen
        BY DEF Scan
    <1>3. Filtered(block) = IF strip THEN {c \in block : ~UsageOnly(Event(c), block)} ELSE block
        BY DEF Filtered
    <1>4. Filtered(block) \subseteq block
        BY <1>3
    <1>5. delivered \subseteq 1..drained
        BY DEF HandedOn
    <1>6. delivered' \subseteq 1..d
        <2> DEFINE out == Filtered(block)
        <2>1. delivered' = delivered \cup out
            OBVIOUS
        <2>2. out \subseteq block
            BY <1>4
        <2> HIDE DEF out
        <2>3. out \subseteq 1..d
            BY <1>1, <2>2
        <2>4. delivered \subseteq 1..d
            BY <1>1, <1>5
        <2> QED
            BY <2>1, <2>3, <2>4
    <1>7. ASSUME NEW e \in DOMAIN script
          PROVE  /\ e \in Nat \ {0} /\ Line(e) = {4 * e - 3, 4 * e - 2}
                 /\ Event(4 * e - 3) = e /\ Event(4 * e - 2) = e
                 /\ 4 * e - 3 > drained \/ 4 * e - 1 <= drained
        BY <1>1, EventOfLine, NotInALine
    <1>8. ASSUME NEW c \in 1..d, ~(strip /\ script[Event(c)] = "tally")
          PROVE  c \in delivered'
        <2>1. CASE c <= drained
            BY <1>1, <1>8, <2>1 DEF HandedOn
        <2>2. CASE c > drained
            <3>1. c \in block
                BY <1>1, <2>2
            <3>2. ~strip \/ ~UsageOnly(Event(c), block)
                BY <1>8 DEF UsageOnly
            <3> QED
                BY <1>3, <3>1, <3>2
        <2> QED
            BY <1>1, <2>1, <2>2
    <1>9. ASSUME strip, NEW e \in DOMAIN script, script[e] = "tally"
          PROVE  ~(Line(e) \subseteq delivered')
        <2>1. CASE 4 * e - 1 <= drained
            <3>1. ~(Line(e) \subseteq delivered)
                BY <1>9 DEF HandedOn
            <3>2. \A c \in Line(e) : c <= drained
                BY <1>1, <1>7, <2>1
            <3>3. \A c \in block : c > drained
                BY <1>1
            <3>4. Line(e) \cap block = {}
                BY <1>1, <1>7, <3>2, <3>3
            <3> QED
                BY <1>4, <3>1, <3>4
        <2>2. CASE 4 * e - 3 > drained
            <3>1. 4 * e - 3 \notin delivered /\ 4 * e - 2 \notin delivered
                BY <1>1, <1>5, <1>7, <2>2
            <3>2. CASE Line(e) \subseteq block
                <4>1. UsageOnly(e, block)
                    BY <1>9, <3>2 DEF UsageOnly
                <4>2. 4 * e - 3 \notin Filtered(block)
                    BY <1>3, <1>7, <1>9, <4>1
                <4> QED
                    BY <1>7, <3>1, <4>2
            <3>3. CASE ~(Line(e) \subseteq block)
                BY <1>4, <1>7, <3>1, <3>3
            <3> QED
                BY <3>2, <3>3
        <2> QED
            BY <1>7, <2>1, <2>2
    <1>10. HandedOn'
        <2>1. \A c \in 1..d : ~(strip /\ script[Event(c)] = "tally") => c \in delivered'
            BY <1>8
        <2>2. strip => \A e \in DOMAIN script : script[e] = "tally" => ~(Line(e) \subseteq delivered')
            BY <1>9
        <2> QED
            BY <1>6, <2>1, <2>2 DEF HandedOn, Line, Event
    <1>11. ASSUME NEW e \in DOMAIN script, 4 * e - 2 <= d
           PROVE  e \in scanned'
        <2>1. CASE 4 * e - 1 <= drained
            BY <1>2, <2>1 DEF Counted
        <2>2. CASE 4 * e - 3 > drained
            <3>1. 4 * e - 3 \in block /\ 4 * e - 2 \in block
                BY <1>1, <1>7, <1>11, <2>2
            <3> QED
                BY <1>2, <1>7, <3>1
        <2> QED
            BY <1>7, <2>1, <2>2
    <1>12. \A e \in DOMAIN script : 4 * e - 1 <= d => e \in scanned'
        BY <1>1, <1>7, <1>11
    <1>13. ASSUME NEW e \in scanned'
           PROVE  4 * e - 2 <= d
        <2>1. CASE e \in scanned
            BY <1>1, <1>7, <2>1 DEF Counted
        <2>2. CASE e \in seen
            <3>1. 4 * e - 2 \in block
                BY <1>7, <2>2
            <3> QED
                BY <1>1, <3>1
        <2> QED
            BY <1>2, <2>1, <2>2
    <1>14. Counted'
        BY <1>12, <1>13 DEF Counted
    <1>15. scanned' \subseteq DOMAIN script
        BY <1>1, <1>2
    <1> QED
        BY <1>6, <1>10, <1>11, <1>12, <1>14, <1>15
-----------------------------------------------------------------------------
LEMMA TailFacts ==
    ASSUME NEW S, NEW s \in Seq(S), s # <<>>
    PROVE  /\ Len(s) \in Nat \ {0} /\ DOMAIN s = 1..Len(s)
           /\ Head(s) = s[1]
           /\ Tail(s) \in Seq(S) /\ Len(Tail(s)) = Len(s) - 1 /\ DOMAIN Tail(s) = 1..Len(s) - 1
           /\ \A i \in 1..Len(s) - 1 : Tail(s)[i] = s[i + 1]
           /\ Tail(s) = <<>> => Len(s) = 1
    <1>1. Len(s) \in Nat \ {0} /\ DOMAIN s = 1..Len(s) /\ Head(s) = s[1]
        OBVIOUS
    <1>2. /\ Tail(s) \in Seq(S) /\ Len(Tail(s)) = Len(s) - 1
          /\ \A i \in 1..Len(s) - 1 : Tail(s)[i] = s[i + 1]
        OBVIOUS
    <1>3. DOMAIN Tail(s) = 1..Len(s) - 1
        BY <1>2
    <1> DEFINE t == Tail(s)
    <1> HIDE DEF t
    <1>4. t = <<>> => Len(t) = 0
        OBVIOUS
    <1>5. Tail(s) = <<>> => Len(s) = 1
        BY <1>1, <1>2, <1>4 DEF t
    <1> QED
        BY <1>1, <1>2, <1>3, <1>5

(* A chunk: the wire gives its first, the buffer its lines.                  *)
LEMMA PollChunkKeeps ==
    ASSUME IInv, PollChunk
    PROVE  IInv'
    <1> USE DEF IInv
    <1> DEFINE ends == {c \in drained + 1..read' : IsEol(c)}
    <1>1. UNCHANGED <<script, strip, known, attentive, sent, over, silence, lull, ended, status,
                      cut, finished, client, notice, outbox, rows, submitted>>
        BY DEF PollChunk, fixed, clock, meter
    <1>2. client = "reading" /\ ~ended /\ wire # <<>> /\ read' = Head(wire) /\ wire' = Tail(wire)
        BY DEF PollChunk, InnerPolled, Polling
    <1>3. /\ wire \in Seq(1..Size) /\ Len(wire) \in Nat \ {0} /\ DOMAIN wire = 1..Len(wire)
          /\ sent \in Nat /\ read \in Nat /\ drained \in Nat /\ drained <= read
          /\ Size \in Nat /\ Size' = Size
        BY <1>1, <1>2, ScriptFacts DEF TypeOK, Size
    <1>4. /\ \A i \in 1..Len(wire) : wire[i] \in Nat /\ read < wire[i] /\ wire[i] <= sent
          /\ \A i, j \in 1..Len(wire) : i < j => wire[i] < wire[j]
          /\ wire[Len(wire)] = sent
        <2>1. \A i \in 1..Len(wire) : wire[i] \in 1..Size
            BY <1>3
        <2>2. \A i \in 1..Len(wire) : wire[i] \in Nat
            BY <1>3, <2>1
        <2>3. \A i \in 1..Len(wire) : read < wire[i] /\ wire[i] <= sent
            BY <1>3 DEF Wired
        <2>4. \A i, j \in 1..Len(wire) : i < j => wire[i] < wire[j]
            BY <1>3 DEF Wired
        <2>5. wire[Len(wire)] = sent
            BY <1>2 DEF Wired
        <2> QED
            BY <2>2, <2>3, <2>4, <2>5
    <1> DEFINE chunks == wire'
    <1>6. /\ read' = wire[1] /\ chunks \in Seq(1..Size)
          /\ Len(chunks) = Len(wire) - 1 /\ DOMAIN chunks = 1..Len(wire) - 1
          /\ \A i \in 1..Len(wire) - 1 : chunks[i] = wire[i + 1]
          /\ chunks = <<>> => Len(wire) = 1
        BY <1>2, <1>3, TailFacts
    <1>5. read' \in Nat /\ read < read' /\ read' <= sent
        BY <1>3, <1>4, <1>6
    <1>7. Wired'
        <2> HIDE DEF chunks
        <2>0. \A i \in 1..Len(wire) - 1 : i + 1 \in 1..Len(wire) /\ 1 < i + 1
            BY <1>3
        <2>1. \A i \in DOMAIN chunks : read' < chunks[i] /\ chunks[i] <= sent
            <3> SUFFICES ASSUME NEW i \in 1..Len(wire) - 1
                         PROVE  wire[1] < wire[i + 1] /\ wire[i + 1] <= sent
                BY <1>6
            <3>1. 1 \in 1..Len(wire)
                BY <1>3
            <3> QED
                BY <1>4, <2>0, <3>1
        <2>2. \A i, j \in DOMAIN chunks : i < j => chunks[i] < chunks[j]
            <3> SUFFICES ASSUME NEW i \in 1..Len(wire) - 1, NEW j \in 1..Len(wire) - 1, i < j
                         PROVE  wire[i + 1] < wire[j + 1]
                BY <1>6
            <3>1. i + 1 \in 1..Len(wire) /\ j + 1 \in 1..Len(wire) /\ i + 1 < j + 1
                BY <1>3
            <3> QED
                BY <1>4, <3>1
        <2>3. chunks = <<>> => read' = sent
            BY <1>4, <1>6
        <2>4. chunks # <<>> => chunks[Len(chunks)] = sent
            <3> SUFFICES ASSUME chunks # <<>> PROVE chunks[Len(chunks)] = sent
                OBVIOUS
            <3>1. Len(chunks) # 0
                BY <1>6
            <3>2. Len(wire) - 1 \in 1..Len(wire) - 1 /\ (Len(wire) - 1) + 1 = Len(wire)
                BY <1>3, <1>6, <3>1
            <3>3. chunks[Len(wire) - 1] = wire[(Len(wire) - 1) + 1]
                BY <1>6, <3>2
            <3> QED
                BY <1>4, <1>6, <3>2, <3>3
        <2> QED
            BY <1>1, <2>1, <2>2, <2>3, <2>4 DEF Wired, chunks
    <1>8. /\ drained' \in 0..read' /\ scanned' \subseteq DOMAIN script
          /\ delivered' \subseteq 1..Size /\ Split' /\ HandedOn' /\ Counted'
        <2>1. CASE ends = {}
            <3>1. UNCHANGED <<drained, scanned, delivered>>
                BY <2>1 DEF PollChunk
            <3>2. HandedOn' /\ Counted'
                BY <1>1, <3>1 DEF HandedOn, Counted, Line
            <3>3. Split'
                BY <1>1, <2>1, <3>1 DEF Split
            <3> QED
                BY <1>3, <1>5, <3>1, <3>2, <3>3 DEF TypeOK
        <2>2. CASE ends # {}
            <3> DEFINE d == Max(ends)
            <3>1. /\ drained' = d /\ Scan(drained + 1..d)
                  /\ delivered' = delivered \cup Filtered(drained + 1..d)
                BY <2>2 DEF PollChunk
            <3>2. /\ d \in drained + 1..read' /\ IsEol(d)
                  /\ \A c \in d + 1..read' : ~IsEol(c)
                <4>1. ends = {c \in drained + 1..read' : IsEol(c)} /\ drained \in Nat
                    BY <1>3
                <4> DEFINE r == read'
                <4>2. r \in Nat /\ ends = {c \in drained + 1..r : IsEol(c)}
                    BY <1>5
                <4> HIDE DEF r, ends
                <4>3. /\ Max(ends) \in drained + 1..r /\ IsEol(Max(ends))
                      /\ \A c \in Max(ends) + 1..r : ~IsEol(c)
                    BY <2>2, <4>1, <4>2, LastEol
                <4> QED
                    BY <4>3 DEF r
            <3> HIDE DEF d
            <3>3. d \in drained..sent /\ d \in 0..read'
                BY <1>3, <1>5, <3>2
            <3>4. /\ HandedOn' /\ Counted'
                  /\ scanned' \subseteq DOMAIN script /\ delivered' \subseteq 1..d
                BY <1>1, <1>2, <3>1, <3>3, BlockKeeps
            <3>5. d <= Size
                BY <1>3, <3>3, ScriptFacts DEF TypeOK
            <3>6. Split'
                BY <3>1, <3>2 DEF Split
            <3> QED
                BY <1>3, <3>1, <3>3, <3>4, <3>5, <3>6
        <2> QED
            BY <2>1, <2>2
    <1>9. /\ finished' \in BOOLEAN /\ submitted' \in Nat
          /\ outbox' \in Seq(Row)' /\ rows' \in Seq(Row)'
          /\ Once'
        BY <1>1, <1>2, NotFinishing
    <1>10. TypeOK'
        <2>1. first' \in BOOLEAN /\ left' \in Never..Longest
            BY LimitFacts DEF PollChunk, Arm
        <2>2. read' \in 0..sent'
            BY <1>1, <1>3, <1>5
        <2> QED
            BY <1>1, <1>3, <1>6, <1>8, <1>9, <2>1, <2>2 DEF TypeOK
    <1>11. Whole'
        BY <1>1, <1>2 DEF Whole
    <1> QED
        BY <1>7, <1>8, <1>9, <1>10, <1>11

(* The end: what is left is a block too, though it may end in a line.        *)
LEMMA PollEofKeeps ==
    ASSUME IInv, PollEof
    PROVE  IInv'
    <1> USE DEF IInv
    <1> DEFINE rest == Filtered(drained + 1..read)
    <1>1. UNCHANGED <<script, strip, known, attentive, sent, wire, over, silence, lull, read, first,
                      left, status, cut, notice>>
        BY DEF PollEof, fixed, upstream, clock
    <1>2. /\ client = "reading" /\ ~ended /\ ended' = TRUE
          /\ wire = <<>> /\ over = "ended" /\ drained' = read
          /\ Scan(drained + 1..read)
        BY DEF PollEof, InnerPolled, Polling
    <1>3. /\ read = sent /\ sent \in Nat /\ read \in drained..sent /\ sent <= Size
          /\ drained \in Nat /\ Size \in Nat /\ Size' = Size
        BY <1>1, <1>2, ScriptFacts DEF Wired, TypeOK, Size
    <1>4. delivered' = delivered \cup rest
        BY DEF PollEof
    <1>5. /\ HandedOn' /\ Counted'
          /\ scanned' \subseteq DOMAIN script /\ delivered' \subseteq 1..read
          /\ \A e \in DOMAIN script : 4 * e - 2 <= read => e \in scanned'
        BY <1>1, <1>2, <1>3, <1>4, BlockKeeps
    <1>6. /\ finished' \in BOOLEAN /\ submitted' \in Nat
          /\ outbox' \in Seq(Row)' /\ rows' \in Seq(Row)'
          /\ Once' /\ client' \in {"reading", "done"}
        <2>1. CASE rest = {}
            <3>1. client' = "done" /\ Finish(scanned', status, cut)
                BY <2>1 DEF PollEof
            <3>2. status \in {"ok", "stream_timeout"} /\ cut \in BOOLEAN
                BY DEF TypeOK
            <3> QED
                BY <1>1, <1>2, <1>5, <3>1, <3>2, Finishing DEF Once
        <2>2. CASE rest # {}
            <3>1. UNCHANGED <<finished, client, outbox, rows, submitted>>
                BY <2>2 DEF PollEof, meter
            <3> QED
                BY <1>1, <1>2, <3>1, NotFinishing
        <2> QED
            BY <2>1, <2>2
    <1>7. TypeOK'
        <2>1. drained' \in 0..read' /\ delivered' \subseteq 1..Size
            BY <1>1, <1>2, <1>3, <1>5
        <2> QED
            BY <1>1, <1>2, <1>3, <1>5, <1>6, <2>1 DEF TypeOK
    <1>8. Wired'
        BY <1>1 DEF Wired
    <1>9. Split'
        BY <1>1, <1>2, <1>3 DEF Split
    <1>10. Whole'
        BY <1>1, <1>2, <1>3, <1>5, <1>6 DEF Whole
    <1> QED
        BY <1>5, <1>6, <1>7, <1>8, <1>9, <1>10
-----------------------------------------------------------------------------
(* Every step keeps the invariant.                                           *)
LEMMA StepKeeps == IInv /\ [Next]_vars => IInv'
    <1> SUFFICES ASSUME IInv, [Next]_vars PROVE IInv'
        OBVIOUS
    <1>1. CASE \E upto \in 1..Size : Send(upto)
        BY <1>1, SendKeeps
    <1>2. CASE \E how \in {"ended", "failed"} : Close(how)
        BY <1>2, CloseKeeps
    <1>3. CASE PollEnded
        BY <1>3, PollEndedKeeps
    <1>4. CASE Abort
        BY <1>4, AbortKeeps
    <1>5. CASE PollChunk
        BY <1>5, PollChunkKeeps
    <1>6. CASE PollError
        BY <1>6, PollErrorKeeps
    <1>7. CASE PollEof
        BY <1>7, PollEofKeeps
    <1>8. CASE Drop
        BY <1>8, DropKeeps
    <1>9. CASE Record
        BY <1>9, RecordKeeps
    <1>10. CASE Tick
        BY <1>10, TickKeeps
    <1>11. CASE UNCHANGED vars
        <2>1. UNCHANGED <<script, strip, known, attentive, sent, wire, over, silence, lull, read,
                          drained, first, left, ended, scanned, status, cut, finished, client,
                          delivered, notice, outbox, rows, submitted>>
            BY <1>11, Zenon DEF vars, fixed, upstream, clock, stream, reader, meter
        <2>2. Row' = Row /\ Size' = Size /\ Carriers' = Carriers
            BY <2>1 DEF Row, Size, Carriers
        <2>3. TypeOK'
            <3>1. left' \in Never..Longest /\ silence' \in 0..Longest /\ lull' \in 0..Longest
                BY <2>1 DEF IInv, TypeOK
            <3> QED
                BY <2>1, <2>2, <3>1 DEF IInv, TypeOK
        <2>4. Wired' /\ Split' /\ HandedOn' /\ Counted'
            BY <2>1 DEF IInv, Wired, Split, HandedOn, Counted, Line
        <2>5. Once' /\ Whole'
            BY <2>1, <2>2 DEF IInv, Once, Whole
        <2> QED
            BY <2>3, <2>4, <2>5 DEF IInv
    <1> QED
        BY <1>1, <1>2, <1>3, <1>4, <1>5, <1>6, <1>7, <1>8, <1>9, <1>10, <1>11 DEF Next, Poll

LEMMA Inductive == Spec => []IInv
    BY InitHolds, StepKeeps, PTL DEF Spec

(* SseUsageStream's counters keep their order: nothing is drained that was   *)
(* not read, nor read that was not sent, however the chunks fall.            *)
THEOREM TypeCorrect == Spec => []TypeOK
    <1>1. IInv => TypeOK
        BY DEF IInv
    <1> QED
        BY <1>1, Inductive, PTL

(* A stream is reported once, whichever of its ends come together: the end   *)
(* of the stream, the abort and the drop (SseUsageStream::finish).           *)
THEOREM ReportedOnce == Spec => []FinishedOnce
    <1>1. IInv => FinishedOnce
        BY DEF IInv, Once, FinishedOnce
    <1> QED
        BY <1>1, Inductive, PTL

(* Streams of any events in any chunks are handed on cell for cell, but for  *)
(* the tally the gateway asked for (SseUsageStream::poll_next).              *)
THEOREM HandedOnWhole == Spec => []PassThrough
    <1>1. IInv => PassThrough
        BY DEF IInv, HandedOn, Whole, PassThrough, Clean
    <1> QED
        BY <1>1, Inductive, PTL

(* The row of a stream counts the usage that arrived whole and no other,     *)
(* however it was cut and however it ended (SseUsageStream::scan_lines).     *)
THEOREM ArrivedIsCounted == Spec => []UsageCounted
    <1>1. ASSUME IInv PROVE UsageCounted
        <2>1. \A i \in DOMAIN rows : rows[i].usage = scanned \cap Carriers
            BY <1>1 DEF IInv, Once
        <2>2. ASSUME NEW e \in Carriers, 4 * e - 1 <= read
              PROVE  e \in scanned
            <3>1. e \in DOMAIN script /\ e \in Nat \ {0}
                BY <1>1, ScriptFacts DEF IInv, Carriers
            <3>2. IsEol(4 * e - 1)
                BY <3>1, EventOfLine
            <3>3. 4 * e - 1 <= drained
                BY <1>1, <2>2, <3>1, <3>2, ScriptFacts DEF IInv, Split, TypeOK
            <3> QED
                BY <1>1, <3>1, <3>3 DEF IInv, Counted
        <2>3. ASSUME NEW e \in scanned
              PROVE  4 * e - 2 <= read
            <3>1. e \in Nat
                BY <1>1, ScriptFacts DEF IInv, TypeOK
            <3> QED
                BY <1>1, <3>1, ScriptFacts DEF IInv, Counted, TypeOK
        <2>4. ASSUME Clean
              PROVE  scanned \cap Carriers = {e \in Carriers : 4 * e - 2 <= sent}
            <3>1. \A e \in scanned : 4 * e - 2 <= sent
                BY <1>1, <2>4 DEF IInv, Counted, Whole, Clean
            <3>2. \A e \in DOMAIN script : 4 * e - 2 <= sent => e \in scanned
                BY <1>1, <2>4 DEF IInv, Whole, Clean
            <3> QED
                BY <3>1, <3>2 DEF Carriers
        <2> QED
            BY <2>1, <2>2, <2>3, <2>4 DEF UsageCounted
    <1> QED
        BY <1>1, Inductive, PTL

-----------------------------------------------------------------------------
(* While an attentive client reads, the deadline runs no faster than the     *)
(* upstream's silence; silence that has just ended is not over before what   *)
(* ended it is polled.                                                       *)
HearsInTime ==
    attentive /\ client = "reading" /\ ~ended /\ left # Never =>
       \/ silence >= Limit(first) - left
       \/ silence = 0 /\ lull >= Limit(first) - left /\ (wire # <<>> \/ over # "no")

LEMMA ClockTypes ==
    ASSUME TypeOK
    PROVE  /\ silence \in 0..Longest /\ lull \in 0..Longest /\ left \in Never..Longest
           /\ Limit(first) \in Never..Longest /\ Longest \in Nat /\ Never = -1
    BY LimitFacts DEF TypeOK, Never

LEMMA InitHearsInTime == Init => HearsInTime
    <1> SUFFICES ASSUME Init PROVE 0 >= Limit(FALSE) - Limit(FALSE)
        BY DEF Init, HearsInTime
    <1>1. PICK l \in Int : l = Limit(FALSE)
        BY LimitsAssumption DEF Limit, Never
    <1>2. 0 >= l - l
        OBVIOUS
    <1> QED
        BY <1>1, <1>2, Zenon

LEMMA StepHearsInTime ==
    ASSUME TypeOK, HearsInTime, [Next]_vars
    PROVE  HearsInTime'
    <1> SUFFICES ASSUME attentive', client' = "reading", ~ended', left' # Never
                 PROVE  \/ silence' >= Limit(first') - left'
                        \/ /\ silence' = 0 /\ lull' >= Limit(first') - left'
                           /\ wire' # <<>> \/ over' # "no"
        BY DEF HearsInTime, Limit
    <1>0. /\ silence \in 0..Longest /\ lull \in 0..Longest /\ left \in Never..Longest
          /\ Limit(first) \in Never..Longest /\ Longest \in Nat /\ Never = -1
        BY ClockTypes
    <1>1. ASSUME attentive, client = "reading", ~ended, left # Never
          PROVE  \/ silence >= Limit(first) - left
                 \/ silence = 0 /\ lull >= Limit(first) - left /\ (wire # <<>> \/ over # "no")
        BY <1>1 DEF HearsInTime
    <1>2. CASE UNCHANGED <<fixed, upstream, clock, stream, client>>
        BY <1>1, <1>2 DEF fixed, upstream, clock, stream
    <1>3. ASSUME NEW upto \in 1..Size, Send(upto) PROVE wire' # <<>>
        BY <1>3 DEF Send, TypeOK
    <1>4. ASSUME Heard, UNCHANGED <<fixed, stream, reader>>, wire' # <<>> \/ over' # "no"
          PROVE  \/ silence' >= Limit(first') - left'
                 \/ /\ silence' = 0 /\ lull' >= Limit(first') - left'
                    /\ wire' # <<>> \/ over' # "no"
        <2>1. /\ attentive /\ client = "reading" /\ ~ended /\ left # Never
              /\ left' = left /\ first' = first
            BY <1>4 DEF fixed, stream, reader
        <2>2. \/ silence >= Limit(first) - left
              \/ silence = 0 /\ lull >= Limit(first) - left
            BY <1>1, <2>1
        <2>3. CASE silence > 0
            <3>1. lull' = silence /\ silence' = 0
                BY <1>4, <2>3 DEF Heard
            <3> QED
                BY <1>4, <2>1, <2>2, <2>3, <3>1
        <2>4. CASE ~(silence > 0)
            <3>1. lull' = lull /\ silence' = silence
                BY <1>4, <2>4 DEF Heard, clock
            <3> QED
                BY <1>0, <1>4, <2>1, <2>2, <3>1
        <2> QED
            BY <2>3, <2>4
    <1>5. CASE \E upto \in 1..Size : Send(upto)
        BY <1>3, <1>4, <1>5 DEF Send
    <1>6. CASE \E how \in {"ended", "failed"} : Close(how)
        BY <1>4, <1>6 DEF Close
    <1>7. CASE PollChunk
        <2>1. left' = Limit(TRUE) /\ first' = TRUE /\ silence' = silence
            BY <1>7 DEF PollChunk, Arm, clock
        <2>2. PICK l \in Int : l = Limit(TRUE)
            BY LimitsAssumption DEF Limit, Never
        <2>3. silence >= l - l
            BY <1>0
        <2>4. silence' >= Limit(first') - left'
            BY <2>1, <2>2, <2>3, Zenon
        <2> QED
            BY <2>4
    <1>8. CASE PollEnded \/ PollError \/ PollEof \/ Abort \/ Drop
        BY <1>8 DEF PollEnded, PollError, PollEof, Abort, Drop
    <1>9. CASE Record
        BY <1>2, <1>9 DEF Record, reader
    <1>10. CASE Tick
        <2>1. /\ attentive /\ client = "reading" /\ ~ended /\ ~CanPoll /\ first' = first
              /\ left' = Less(left)
              /\ silence' = IF over = "no" /\ silence < Longest THEN silence + 1 ELSE silence
            BY <1>10 DEF Tick, reader, fixed
        <2>2. wire = <<>> /\ over = "no" /\ left # 0
            BY <2>1 DEF CanPoll, Polling, Expired
        <2>3. left > 0 /\ left' = left - 1
            BY <1>0, <2>1, <2>2 DEF Less
        <2>4. silence >= Limit(first) - left
            BY <1>0, <1>1, <2>1, <2>2, <2>3
        <2> QED
            BY <1>0, <2>1, <2>2, <2>3, <2>4
    <1>11. CASE UNCHANGED vars
        BY <1>2, <1>11 DEF vars, reader
    <1>12. \/ \E upto \in 1..Size : Send(upto)
           \/ \E how \in {"ended", "failed"} : Close(how)
           \/ PollChunk
           \/ PollEnded \/ PollError \/ PollEof \/ Abort \/ Drop
           \/ Record \/ Tick \/ UNCHANGED vars
        BY DEF Next, Poll
    <1> QED
        BY <1>5, <1>6, <1>7, <1>8, <1>9, <1>10, <1>11, <1>12

(* A stream whose client keeps up is given up on only after its upstream was *)
(* silent for as long as the limit that was running says (StreamTimeouts,    *)
(* abort_on_timeout): chunks that wait to be polled never cost a live stream *)
(* its response.                                                             *)
THEOREM GivenUpOnForSilence == Spec => SilenceIsSilence
    <1>1. ASSUME TypeOK, HearsInTime, [Next]_vars, attentive, GivesUp
          PROVE  WasSilent
        <2>1. Abort
            BY <1>1 DEF GivesUp, Next, Poll, Send, Close, PollEnded, PollChunk, PollError,
                        PollEof, Drop, Record, Tick, vars, stream
        <2>2. client = "reading" /\ ~ended /\ left = 0
            BY <2>1 DEF Abort, Polling, Expired
        <2>3. \/ silence >= Limit(first) - left
              \/ silence = 0 /\ lull >= Limit(first) - left
            BY <1>1, <2>2 DEF HearsInTime, Never
        <2>4. Limit(first) - left = Limit(first)
            BY <1>1, <2>2, ClockTypes
        <2> QED
            BY <2>3, <2>4 DEF WasSilent
    <1>2. Spec => []HearsInTime
        <2>1. TypeOK /\ HearsInTime /\ [Next]_vars => HearsInTime'
            BY StepHearsInTime
        <2> QED
            BY <2>1, InitHearsInTime, TypeCorrect, PTL DEF Spec
    <1>3. TypeOK /\ HearsInTime /\ [Next]_vars => [attentive /\ GivesUp => WasSilent]_vars
        BY <1>1
    <1> QED
        BY <1>2, <1>3, TypeCorrect, PTL DEF Spec, SilenceIsSilence

-----------------------------------------------------------------------------
(* The clock of a request before its answer streams: the retry loop and the  *)
(* replay (RetryBudget), for every plan, budget, cap and timer lateness.     *)

(* A wait that has been accepted fits the candidate's budget, and reaches    *)
(* the end of the window the candidate named.                                *)
WaitFits == pc = "sleep" => (now - begun) + delay < Budget /\ now + delay >= until

(* Every loop is entered before the replay's clock has run out.              *)
EnteredInTime == begun < Budget

ClockInv ==
    /\ RetryTypeOK
    /\ WaitFits
    /\ EnteredInTime
    /\ InItsBudget
    /\ AttemptsBounded
    /\ WindowsRespected
    /\ OneAnswer

USE PlanAssumption, ProviderAssumption, TimeAssumption DEF Candidates

(* A backoff is never negative.                                              *)
LEMMA BackoffIsNat ==
    ASSUME NEW n \in Nat, NEW wait \in Backoff(n)
    PROVE  wait \in Nat
<1> DEFINE base == IF Step * n < MaxStep THEN Step * n ELSE MaxStep
<1>1. Step * n \in Nat
  BY SMT
<1>2. base \in Nat
  BY <1>1
<1>3. wait \in base..(base + base \div 2)
  BY DEF Backoff
<1> HIDE DEF base
<1>4. QED BY <1>2, <1>3

(* So is every wait a loop may be in, and a window that is named is sat out. *)
LEMMA DelaysAreNat ==
    ASSUME RetryTypeOK, NEW how, NEW window \in Windows,
           NEW wait \in Delays(how, window)
    PROVE  wait \in Nat /\ (how = "failed" => wait >= window)
<1>1. window \in Nat /\ attempt \in Nat
  BY DEF RetryTypeOK
<1>2. CASE how = "failed" /\ window > 0
  BY <1>1, <1>2 DEF Delays
<1>3. CASE ~(how = "failed" /\ window > 0)
  BY <1>1, <1>3, BackoffIsNat DEF Delays
<1>4. QED BY <1>2, <1>3

LEMMA ClockInit == ASSUME RetryInit PROVE ClockInv
  BY DEF RetryInit, ClockInv, RetryTypeOK, WaitFits, EnteredInTime,
         InItsBudget, AttemptsBounded,
         WindowsRespected, OneAnswer, Candidates, Outcomes

LEMMA ClockAttempt ==
    ASSUME ClockInv, NEW how \in Outcomes, NEW window \in Windows,
           NEW d \in Nat, Attempt(how, d, window)
    PROVE  ClockInv'
<1>1. /\ pc = "send" /\ now' = now + d /\ got' = how /\ cand' = cand /\ begun' = begun
      /\ until' = IF how = "failed" THEN now + d + window ELSE until
  BY DEF Attempt, Ends
<1>2. /\ now \in Nat /\ begun \in 0..now /\ until \in Nat /\ delay \in Nat
      /\ cand \in Candidates /\ attempt \in Nat \ {0} /\ window \in Nat
      /\ attempt <= Retries[cand] + 1 /\ Retries[cand] \in Nat
      /\ now >= until /\ begun < Budget
  BY <1>1 DEF ClockInv, RetryTypeOK, AttemptsBounded,
              WindowsRespected, EnteredInTime
<1>3. PICK wait \in Delays(how, window) :
          IF /\ Retryable(how) /\ ~Last
             /\ ~(how = "failed" /\ window > Cap) /\ BudgetLeft(now', wait)
          THEN Retry(wait) ELSE HandOn(how)
  BY DEF Attempt
<1>4. wait \in Nat /\ (how = "failed" => wait >= window)
  BY DelaysAreNat DEF ClockInv
<1>5. CASE HandOn(how)
  BY <1>1, <1>2, <1>5
     DEF HandOn, ClockInv, RetryTypeOK, WaitFits, EnteredInTime,
         InItsBudget, AttemptsBounded,
         WindowsRespected, OneAnswer
<1>6. CASE Retryable(how) /\ ~Last /\ BudgetLeft(now', wait) /\ Retry(wait)
  <2>1. /\ pc' = "sleep" /\ delay' = wait /\ attempt' = attempt + 1
        /\ (now' - begun) + wait < Budget /\ how # "served"
        /\ attempt # Retries[cand] + 1
    BY <1>6 DEF Retry, BudgetLeft, Retryable, Last
  <2>2. RetryTypeOK'
    BY <1>1, <1>2, <1>4, <2>1 DEF RetryTypeOK
  <2>3. WaitFits' /\ EnteredInTime' /\ InItsBudget' /\ WindowsRespected'
    BY <1>1, <1>2, <1>4, <2>1 DEF WaitFits, EnteredInTime,
                                  InItsBudget, WindowsRespected
  <2>4. AttemptsBounded' /\ OneAnswer'
    BY <1>1, <1>2, <2>1 DEF AttemptsBounded, OneAnswer
  <2>5. QED BY <2>2, <2>3, <2>4 DEF ClockInv
<1>7. QED BY <1>3, <1>5, <1>6

(* Every step of the two loops keeps the invariant.                          *)
LEMMA ClockStep ==
    ASSUME ClockInv, [RetryNext]_clockVars
    PROVE  ClockInv'
<1>1. CASE Ask
  <2>1. PICK how \in Outcomes, window \in Windows,
             d \in 0..(IF Timeout[cand] = 0 THEN Slowest ELSE Timeout[cand]) :
             Attempt(how, d, window)
    BY <1>1 DEF Ask
  <2>2. d \in Nat
    OBVIOUS
  <2>3. QED BY <2>1, <2>2, ClockAttempt
<1>2. CASE NoClient
  BY <1>2 DEF NoClient, HandOn, ClockInv, RetryTypeOK, WaitFits,
              EnteredInTime, InItsBudget,
              AttemptsBounded, WindowsRespected, OneAnswer, Outcomes
<1>3. CASE Read
  <2>1. PICK how \in Outcomes, d \in 0..Slowest : ReadBody(how, d)
    BY <1>3 DEF Read
  <2>2. d \in Nat
    OBVIOUS
  <2>3. QED
    BY <2>1, <2>2 DEF ReadBody, ClockInv, RetryTypeOK, WaitFits,
                      EnteredInTime, InItsBudget,
                      AttemptsBounded, WindowsRespected, OneAnswer
<1>4. CASE Wake
  <2>1. PICK late \in 0..Lag : now' = now + delay + late
    BY <1>4 DEF Wake
  <2>2. QED
    BY <1>4, <2>1 DEF Wake, ClockInv, RetryTypeOK, WaitFits,
                      EnteredInTime, InItsBudget,
                      AttemptsBounded, WindowsRespected, OneAnswer
<1>5. CASE Decide
  <2>1. CASE cand = Plan \/ ~Retryable(got) \/ now + Second >= Budget
    BY <1>5, <2>1 DEF Decide, ClockInv, RetryTypeOK, WaitFits,
                      EnteredInTime, InItsBudget,
                      AttemptsBounded, WindowsRespected, OneAnswer
  <2>2. CASE ~(cand = Plan \/ ~Retryable(got) \/ now + Second >= Budget)
    <3>1. /\ cand' = cand + 1 /\ cand' \in Candidates /\ Retries[cand'] \in Nat
          /\ now + Second < Budget /\ got' = got /\ got # "served"
      BY <1>5, <2>2 DEF Decide, ClockInv, RetryTypeOK,
                        Candidates, Retryable
    <3>2. QED
      BY <1>5, <2>2, <3>1 DEF Decide, ClockInv, RetryTypeOK,
                              WaitFits, EnteredInTime, InItsBudget,
                              AttemptsBounded, WindowsRespected, OneAnswer
  <2>3. QED BY <2>1, <2>2
<1>6. CASE UNCHANGED clockVars
  BY <1>6 DEF clockVars, ClockInv, RetryTypeOK, WaitFits, EnteredInTime,
              InItsBudget, AttemptsBounded,
              WindowsRespected, OneAnswer, Last, Candidates
<1>7. QED BY <1>1, <1>2, <1>3, <1>4, <1>5, <1>6 DEF RetryNext

(* The invariant the properties below are conjuncts or consequences of.      *)
THEOREM ClockInvariance == RetrySpec => []ClockInv
<1>1. RetryInit => ClockInv
  BY ClockInit
<1>2. ClockInv /\ [RetryNext]_clockVars => ClockInv'
  BY ClockStep
<1>3. QED BY <1>1, <1>2, PTL DEF RetrySpec

(* The clock, the candidate and the attempt stay in their ranges.            *)
THEOREM ClockTypeCorrect == RetrySpec => []RetryTypeOK
<1>1. ClockInv => RetryTypeOK
  BY DEF ClockInv
<1>2. QED BY <1>1, ClockInvariance, PTL

(* budget_left keeps every attempt of a candidate inside one budget.         *)
THEOREM CandidateBudget == RetrySpec => []InItsBudget
<1>1. ClockInv => InItsBudget
  BY DEF ClockInv
<1>2. QED BY <1>1, ClockInvariance, PTL

(* The retry loop nested in the replay loop: two budgets, whatever the plan's*)
(* length, the retries and the upstreams' answers.                           *)
THEOREM PlanBudget == RetrySpec => []WithinTwoBudgets
<1>1. ClockInv => WithinTwoBudgets
  BY DEF ClockInv, RetryTypeOK, EnteredInTime, InItsBudget, WithinTwoBudgets
<1>2. QED BY <1>1, ClockInvariance, PTL

(* A candidate is asked at most once more than its retries, and nobody is    *)
(* asked after an answer that serves.                                        *)
THEOREM AttemptsAreJustified ==
    RetrySpec => [](AttemptsBounded /\ OneAnswer)
<1>1. ClockInv => AttemptsBounded /\ OneAnswer
  BY DEF ClockInv
<1>2. QED BY <1>1, ClockInvariance, PTL

(* No candidate is asked inside a window it named, however long the window   *)
(* and whatever was waited before.                                           *)
THEOREM WindowsAreWaitedOut == RetrySpec => []WindowsRespected
<1>1. ClockInv => WindowsRespected
  BY DEF ClockInv
<1>2. QED BY <1>1, ClockInvariance, PTL
=============================================================================
