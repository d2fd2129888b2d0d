----------------------------- MODULE SseStream -----------------------------
(***************************************************************************)
(* One streamed response: what the upstream sends in chunks of any shape is *)
(* handed on line by line, read for usage on the way, given up on when it   *)
(* goes silent, and metered once however it ends.                           *)
(* (forward/stream.rs SseUsageStream, forward/metering.rs)                  *)
(*                                                                          *)
(* The upstream's text is a series of events.  An event is four cells: the  *)
(* two halves of its data line, the line's end, and the blank line that     *)
(* closes it.  A chunk may end at any cell.  Time is kept as countdowns.    *)
(***************************************************************************)
EXTENDS Integers, Sequences, FiniteSetsExt

CONSTANTS
    Scripts,   \* the event series an upstream may send
    FirstByte, \* StreamTimeouts, in ticks; 0 disables a limit
    Idle

Kinds == {"text", "usage", "tally"}
Never == -1

ASSUME ScriptsAssumption == Scripts \subseteq Seq(Kinds)
ASSUME LimitsAssumption == FirstByte \in Nat /\ Idle \in Nat

VARIABLES
    script,    \* the events: plain, carrying usage, or nothing but usage
    strip,     \* policy.strip_usage_chunk: the gateway asked for the tally itself
    known,     \* whether the inbound protocol is known, so an error has a shape
    attentive, \* whether the client takes what is there before time passes
    sent,      \* cells the upstream has sent
    wire,      \* chunks not polled yet, each by its last cell
    over,      \* how the upstream ended: "no", "ended", "failed"
    silence,   \* ticks since the upstream last sent
    lull,      \* history: the silence its last chunk ended
    read,      \* cells polled from the upstream
    drained,   \* cells drained from the buffer
    first,     \* first_chunk.is_some()
    left,      \* ticks to the deadline, Never when none is armed
    ended,     \* inner_ended
    scanned,   \* events the scanner was fed
    status,    \* sample.status
    cut,       \* capture_truncated
    finished,
    client,    \* "reading", "done", "broken", "gone"
    delivered, \* cells the client was handed
    notice,    \* cells drained when the error event went out, Never if it did not
    outbox,    \* the channel to the recording task
    rows,      \* what the recording task has written
    submitted  \* history: how often finish ran

upstream == <<sent, wire, over>>
clock    == <<silence, lull>>
stream   == <<read, drained, first, left, ended, scanned, status, cut, finished>>
reader   == <<client, delivered, notice>>
meter    == <<outbox, rows, submitted>>
fixed    == <<script, strip, known, attentive>>
vars     == <<fixed, upstream, clock, stream, reader, meter>>

Size     == 4 * Len(script)
Event(c) == (c - 1) \div 4 + 1
Line(e)  == {4 * e - 3, 4 * e - 2}
IsEol(c) == (c - 1) % 4 \in {2, 3}
IsBlank(c) == (c - 1) % 4 = 3
Carriers == {e \in DOMAIN script : script[e] # "text"}

(* StreamTimeouts::deadline.                                                 *)
Limit(seen) ==
    LET secs == IF seen THEN Idle ELSE FirstByte
    IN  IF secs = 0 THEN Never ELSE secs

Longest == IF FirstByte > Idle THEN FirstByte ELSE Idle

Init ==
    /\ script \in Scripts /\ strip \in BOOLEAN /\ known \in BOOLEAN /\ attentive \in BOOLEAN
    /\ sent = 0 /\ wire = <<>> /\ over = "no"
    /\ silence = 0 /\ lull = 0
    /\ read = 0 /\ drained = 0 /\ first = FALSE /\ left = Limit(FALSE)
    /\ ended = FALSE /\ scanned = {} /\ status = "ok" /\ cut = FALSE /\ finished = FALSE
    /\ client = "reading" /\ delivered = {} /\ notice = Never
    /\ outbox = <<>> /\ rows = <<>> /\ submitted = 0
-----------------------------------------------------------------------------
(* The upstream.                                                             *)

Heard ==
    IF silence > 0 THEN lull' = silence /\ silence' = 0 ELSE UNCHANGED clock

Send(upto) ==
    /\ over = "no" /\ upto \in sent + 1..Size
    /\ sent' = upto /\ wire' = Append(wire, upto)
    /\ Heard
    /\ UNCHANGED <<fixed, over, stream, reader, meter>>

Close(how) ==
    /\ over = "no" /\ how \in {"ended", "failed"}
    /\ over' = how
    /\ Heard
    /\ UNCHANGED <<fixed, sent, wire, stream, reader, meter>>
-----------------------------------------------------------------------------
(* The stream.                                                               *)

(* The row that is submitted, and the channel of one it goes into; the task  *)
(* behind the channel takes one and is gone.                                 *)
Sample(seen, status_, cut_) == [usage |-> seen \cap Carriers, status |-> status_, cut |-> cut_]

Finish(seen, status_, cut_) ==
    /\ finished' = TRUE
    /\ submitted' = submitted + 1
    /\ outbox' = IF outbox = <<>> /\ rows = <<>> THEN <<Sample(seen, status_, cut_)>> ELSE outbox
    /\ UNCHANGED rows

(* Fault: the limit is armed for the first byte and left at that.            *)
ArmOnce == left

Arm == Limit(TRUE)

(* Fault: an event that carries usage is taken for one that is only that.    *)
UsageOnlyByUsage(e, block) == script[e] # "text" /\ Line(e) \subseteq block

(* is_usage_only_event, of an event whose line is in the block.              *)
UsageOnly(e, block) == script[e] = "tally" /\ Line(e) \subseteq block

(* drop_usage_only_events: the line and, when it is there too, its blank.    *)
Filtered(block) ==
    IF strip THEN {c \in block : ~UsageOnly(Event(c), block)} ELSE block

Scan(block) == scanned' = scanned \cup {e \in DOMAIN script : Line(e) \subseteq block}

Polling == client = "reading"
Expired == left = 0

PollEnded ==
    /\ Polling /\ ended
    /\ Finish(scanned, status, cut)
    /\ client' = "done"
    /\ UNCHANGED <<fixed, upstream, clock, read, drained, first, left, ended, scanned, status, cut,
                   delivered, notice>>

(* Fault: the stream is not marked as over when it is given up on.           *)
AbortWithoutEnding ==
    /\ Polling /\ ~ended /\ Expired
    /\ status' = "stream_timeout"
    /\ IF known
       THEN notice' = drained /\ UNCHANGED <<finished, client, meter>>
       ELSE Finish(scanned, status', cut) /\ client' = "done" /\ UNCHANGED notice
    /\ UNCHANGED <<fixed, upstream, clock, read, drained, first, left, ended, scanned, cut, delivered>>

(* abort_on_timeout: looked at before the upstream is.                       *)
Abort ==
    /\ Polling /\ ~ended /\ Expired
    /\ status' = "stream_timeout"
    /\ ended' = TRUE
    /\ IF known
       THEN notice' = drained /\ UNCHANGED <<finished, client, meter>>
       ELSE Finish(scanned, status', cut) /\ client' = "done" /\ UNCHANGED notice
    /\ UNCHANGED <<fixed, upstream, clock, read, drained, first, left, scanned, cut, delivered>>

InnerPolled == Polling /\ ~ended /\ ~Expired

(* A chunk: what is complete up to its last line end goes out.               *)
PollChunk ==
    /\ InnerPolled /\ wire # <<>>
    /\ read' = Head(wire) /\ wire' = Tail(wire)
    /\ first' = TRUE
    /\ left' = Arm
    /\ LET ends == {c \in drained + 1..read' : IsEol(c)}
           block == drained + 1..Max(ends)
       IN  IF ends = {}
           THEN UNCHANGED <<drained, scanned, delivered>>
           ELSE /\ drained' = Max(ends)
                /\ Scan(block)
                /\ delivered' = delivered \cup Filtered(block)
    /\ UNCHANGED <<fixed, sent, over, clock, ended, status, cut, finished, client, notice, meter>>

PollError ==
    /\ InnerPolled /\ wire = <<>> /\ over = "failed"
    /\ ended' = TRUE
    /\ Finish(scanned, status, cut)
    /\ client' = "broken"
    /\ UNCHANGED <<fixed, upstream, clock, read, drained, first, left, scanned, status, cut,
                   delivered, notice>>

(* Fault: the tail goes out unread.                                          *)
PollEofUnscanned ==
    /\ InnerPolled /\ wire = <<>> /\ over = "ended"
    /\ ended' = TRUE
    /\ drained' = read
    /\ UNCHANGED scanned
    /\ LET rest == Filtered(drained + 1..read)
       IN  IF rest = {}
           THEN Finish(scanned', status, cut) /\ client' = "done" /\ UNCHANGED delivered
           ELSE delivered' = delivered \cup rest /\ UNCHANGED <<finished, client, meter>>
    /\ UNCHANGED <<fixed, upstream, clock, read, first, left, status, cut, notice>>

(* The end: the tail without a line end is read and flushed, and a tail that *)
(* goes out leaves finish to the next poll.                                  *)
PollEof ==
    /\ InnerPolled /\ wire = <<>> /\ over = "ended"
    /\ ended' = TRUE
    /\ drained' = read
    /\ Scan(drained + 1..read)
    /\ LET rest == Filtered(drained + 1..read)
       IN  IF rest = {}
           THEN Finish(scanned', status, cut) /\ client' = "done" /\ UNCHANGED delivered
           ELSE delivered' = delivered \cup rest /\ UNCHANGED <<finished, client, meter>>
    /\ UNCHANGED <<fixed, upstream, clock, read, first, left, status, cut, notice>>

CanPoll == Polling /\ (ended \/ Expired \/ wire # <<>> \/ over # "no")

Poll == PollEnded \/ Abort \/ PollChunk \/ PollError \/ PollEof

(* The response is dropped: at its end, or because the client hung up.       *)
Drop ==
    /\ client # "gone"
    /\ client' = "gone"
    /\ IF finished
       THEN UNCHANGED <<cut, finished, meter>>
       ELSE cut' = TRUE /\ Finish(scanned, status, TRUE)
    /\ UNCHANGED <<fixed, upstream, clock, read, drained, first, left, ended, scanned, status,
                   delivered, notice>>

(* record_pending_usage.                                                     *)
Record ==
    /\ outbox # <<>>
    /\ rows' = Append(rows, Head(outbox)) /\ outbox' = Tail(outbox)
    /\ UNCHANGED <<fixed, upstream, clock, stream, reader, submitted>>

Less(n) == IF n > 0 THEN n - 1 ELSE n

Tick ==
    /\ attentive => ~CanPoll
    /\ left > 0 \/ silence < Longest
    /\ left' = Less(left)
    /\ silence' = IF over = "no" /\ silence < Longest THEN silence + 1 ELSE silence
    /\ UNCHANGED <<fixed, upstream, lull, read, drained, first, ended, scanned, status, cut,
                   finished, reader, meter>>

Next ==
    \/ \E upto \in 1..Size : Send(upto)
    \/ \E how \in {"ended", "failed"} : Close(how)
    \/ Poll
    \/ Drop
    \/ Record
    \/ Tick

Spec == Init /\ [][Next]_vars

(* A client that is connected and reads, a response that is dropped when it  *)
(* is over, a runtime that runs the recording task, and time that passes.    *)
FairSpec ==
    /\ Spec
    /\ WF_vars(Poll) /\ WF_vars(Record) /\ WF_vars(Tick)
-----------------------------------------------------------------------------
Row == [usage : SUBSET DOMAIN script, status : {"ok", "stream_timeout"}, cut : BOOLEAN]

(* The types, and the order of the counters: what is drained was read, what  *)
(* was read was sent, and a deadline is never further off than its limit.    *)
TypeOK ==
    /\ script \in Scripts /\ strip \in BOOLEAN /\ known \in BOOLEAN /\ attentive \in BOOLEAN
    /\ sent \in 0..Size /\ over \in {"no", "ended", "failed"}
    /\ wire \in Seq(1..Size)
    /\ silence \in 0..Longest /\ lull \in 0..Longest
    /\ read \in 0..sent /\ drained \in 0..read
    /\ first \in BOOLEAN /\ left \in Never..Longest
    /\ ended \in BOOLEAN /\ finished \in BOOLEAN /\ cut \in BOOLEAN
    /\ scanned \subseteq DOMAIN script
    /\ status \in {"ok", "stream_timeout"}
    /\ client \in {"reading", "done", "broken", "gone"}
    /\ delivered \subseteq 1..Size /\ notice \in Never..Size
    /\ outbox \in Seq(Row) /\ rows \in Seq(Row)
    /\ submitted \in Nat

Clean == client = "done" /\ status = "ok"

(* However the chunks fall, the client is handed every cell that was drained *)
(* of every event it should see and, when the gateway asked for the tally    *)
(* itself, no tally; a stream that ends by itself was handed on whole.       *)
PassThrough ==
    /\ delivered \subseteq 1..drained
    /\ \A c \in 1..drained :
          ~(strip /\ script[Event(c)] = "tally") => c \in delivered
    /\ strip => \A e \in DOMAIN script :
          script[e] = "tally" => ~(Line(e) \subseteq delivered)
    /\ Clean => drained = sent

(* The row counts the usage of every line that arrived whole before the      *)
(* stream ended, whichever of the five ways it ended, and of nothing that    *)
(* did not arrive; a stream that ends by itself is counted to its last byte. *)
UsageCounted ==
    \A i \in DOMAIN rows :
       /\ {e \in Carriers : 4 * e - 1 <= read} \subseteq rows[i].usage
       /\ rows[i].usage \subseteq {e \in Carriers : 4 * e - 2 <= read}
       /\ Clean => rows[i].usage = {e \in Carriers : 4 * e - 2 <= sent}

(* "a request must not be metered twice" (stream.rs): the end of the stream, *)
(* the abort and the drop report it once between them.                       *)
FinishedOnce == submitted <= 1 /\ (finished <=> submitted = 1)

GivesUp == status = "ok" /\ status' = "stream_timeout"
WasSilent == silence >= Limit(first) \/ (silence = 0 /\ lull >= Limit(first))

(* A stream whose client keeps up is given up on only after its upstream     *)
(* sent nothing for as long as the limit that was running says.              *)
SilenceIsSilence == [][attentive /\ GivesUp => WasSilent]_vars

(* With both limits on, every stream a client stays on is over and metered   *)
(* at some point, even when the upstream never says another word.            *)
Metered == <>(rows # <<>>)
=============================================================================
