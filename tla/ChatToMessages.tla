--------------------------- MODULE ChatToMessages ---------------------------
(***************************************************************************)
(* A streamed answer in OpenAI's chat dialect, converted on the way to a    *)
(* client that speaks Anthropic's.                                          *)
(* (crates/adapters/.../streaming.rs, create_anthropic_sse_stream)          *)
(*                                                                          *)
(* The converter is one task.  It takes a data line, changes its state and  *)
(* yields the events that follow, one at a time as the client polls: Hear   *)
(* is a line with all it does, Yield one of its events reaching the client. *)
(* Text is reduced to numbered pieces, usage to how many were sent so far.  *)
(***************************************************************************)
EXTENDS Integers, Sequences, SequencesExt

CONSTANTS
    Tools,      \* tool_calls[].index values, by name
    Chunks,     \* the data lines an upstream may send
    Threshold,  \* INFINITE_WHITESPACE_THRESHOLD, in pieces that are all blank
    MaxChunks   \* bound on the data lines of one answer

Fields    == {"none", "real", "blank"}
ToolCalls == Seq([tool : Tools, id : Fields, name : Fields, args : {"none", "plain", "blank"}])

(* A data line: what its first choice says, if it has one, and its usage.    *)
Lines ==
    [choice : BOOLEAN, thinking : BOOLEAN, text : BOOLEAN, calls : ToolCalls,
     finish : BOOLEAN, usage : BOOLEAN]

ASSUME ChatAssumption ==
    /\ IsFiniteSet(Tools) /\ Tools \cap {"thinking", "text", "none"} = {}
    /\ Threshold \in Nat \ {0} /\ MaxChunks \in Nat

(* A line without a choice says nothing, and none has two parts of one call. *)
ASSUME LinesAssumption ==
    \A chunk \in Chunks :
       /\ chunk \in Lines
       /\ ~chunk.choice => ~chunk.thinking /\ ~chunk.text /\ chunk.calls = <<>>
       /\ \A i, j \in DOMAIN chunk.calls : chunk.calls[i].tool = chunk.calls[j].tool => i = j

VARIABLES
    conv,   \* the converter's locals, and the events it has yet to yield
    line,   \* how the upstream's stream stands: "open", "done", "ended", "broken"
    lines,  \* data lines so far
    polite, \* history: whether the upstream kept to its own grammar, MaySay
    said,   \* history: source -> pieces the upstream sent of it
    view,   \* the client: what it was told (Messages)
    heard,  \* the client: source -> the pieces it was handed, in order
    named,  \* the client: block -> the source its start named
    bill    \* the client: the usage of every message_delta

vars == <<conv, line, lines, polite, said, view, heard, named, bill>>

Voices  == {"thinking", "text"}
Sources == Voices \cup Tools
None    == "none"

NoTool == [at |-> 0, id |-> FALSE, name |-> FALSE, started |-> FALSE,
           pending |-> <<>>, blanks |-> 0, aborted |-> FALSE]

Init ==
    /\ conv = [next |-> 0, begun |-> FALSE, block |-> None, index |-> 0,
               tools |-> [t \in {} |-> NoTool], open |-> {},
               finished |-> FALSE, pending |-> FALSE, usage |-> 0, latest |-> 0,
               stopped |-> FALSE, out |-> <<>>]
    /\ line = "open" /\ lines = 0 /\ polite = TRUE
    /\ said = [s \in Sources |-> 0]
    /\ view = [phase |-> "idle", kinds |-> [i \in {} |-> None], live |-> {}, events |-> 0]
    /\ heard = [s \in Sources |-> <<>>]
    /\ named = [i \in {} |-> None]
    /\ bill = <<>>

-----------------------------------------------------------------------------
(* Events.                                                                   *)
Started(i, source) == [type |-> "start", index |-> i, source |-> source]
Wrote(i, pieces)   == [type |-> "delta", index |-> i, pieces |-> pieces]
Stopped(i)         == [type |-> "stop", index |-> i]
Delta(usage)       == [type |-> "message_delta", usage |-> usage]
Plain(type)        == [type |-> type]

Out(c, event) == [c EXCEPT !.out = Append(@, event)]

-----------------------------------------------------------------------------
(* What one chunk does, part by part in the order of the code: each part is  *)
(* a function of the converter's state and of the chunk.                     *)

TakeUsage(c, chunk) ==
    IF ~chunk.usage THEN c
    ELSE [c EXCEPT !.latest = @ + 1,
                   !.usage = IF c.pending THEN c.latest + 1 ELSE @]

Greet(c) == IF c.begun THEN c ELSE Out([c EXCEPT !.begun = TRUE], Plain("message_start"))

(* Fault: the block is closed and not forgotten.                             *)
CloseBlockKeeps(c) ==
    IF c.block = None THEN c ELSE Out(c, Stopped(c.index))

CloseBlock(c) ==
    IF c.block = None THEN c ELSE Out([c EXCEPT !.block = None], Stopped(c.index))

OpenBlock(c, voice) ==
    Out([c EXCEPT !.block = voice, !.index = c.next, !.next = @ + 1], Started(c.next, voice))

(* A piece of thinking or of text, in a block of its own kind.               *)
Speak(c, voice, piece) ==
    LET o == IF c.block = voice THEN c ELSE OpenBlock(CloseBlock(c), voice)
    IN  Out(o, Wrote(o.index, <<piece>>))

(* tool_blocks_by_index.entry(..).or_insert_with(..)                         *)
Entry(c, t) ==
    IF t \in DOMAIN c.tools THEN c
    ELSE [c EXCEPT !.next = @ + 1,
                   !.tools = [u \in DOMAIN @ \cup {t} |->
                                IF u = t THEN [NoTool EXCEPT !.at = c.next] ELSE @[u]]]

(* An id or a name that is given replaces the one before, an empty one too.  *)
Given(field, old) == IF field = None THEN old ELSE field = "real"

(* Fault: what was held back is left to the end.                             *)
StartKeepsPending(c, t) ==
    IF c.tools[t].started \/ ~c.tools[t].id \/ ~c.tools[t].name THEN c
    ELSE Out([c EXCEPT !.tools[t].started = TRUE, !.open = @ \cup {c.tools[t].at}],
             Started(c.tools[t].at, t))

(* The block starts once id and name are known, and what was held back of    *)
(* its arguments follows.                                                    *)
StartTool(c, t) ==
    LET tool == c.tools[t]
        begun == Out([c EXCEPT !.tools[t].started = TRUE, !.tools[t].pending = <<>>,
                               !.open = @ \cup {tool.at}], Started(tool.at, t))
    IN  IF tool.started \/ ~tool.id \/ ~tool.name THEN c
        ELSE IF tool.pending = <<>> THEN begun
        ELSE Out(begun, Wrote(tool.at, tool.pending))

(* The arguments of a call: handed on, held back, or given up on when they   *)
(* are nothing but blanks for too long.                                      *)
Argue(c, t, args, piece) ==
    LET blanks == IF args = "blank" THEN c.tools[t].blanks + 1 ELSE 0
        counted == [c EXCEPT !.tools[t].blanks = blanks]
    IN  IF args = None THEN c
        ELSE IF blanks >= Threshold THEN [counted EXCEPT !.tools[t].aborted = TRUE]
        ELSE IF c.tools[t].started THEN Out(counted, Wrote(c.tools[t].at, <<piece>>))
        ELSE [counted EXCEPT !.tools[t].pending = Append(@, piece)]

CallTool(c, call) ==
    LET t == call.tool
        e == Entry(c, t)
        known == [e EXCEPT !.tools[t].id = Given(call.id, @),
                           !.tools[t].name = Given(call.name, @)]
    IN  IF e.tools[t].aborted THEN e
        ELSE Argue(StartTool(known, t), t, call.args, <<t, said[t] + 1>>)

CallTools(c, calls) ==
    IF calls = <<>> THEN c ELSE FoldLeft(CallTool, CloseBlock(c), calls)

(* A block that never got its id or name starts with made-up ones if there   *)
(* is anything to it.                                                        *)
StartLate(c, t) ==
    LET tool == c.tools[t]
        begun == Out([c EXCEPT !.tools[t].started = TRUE, !.tools[t].pending = <<>>,
                               !.open = @ \cup {tool.at}], Started(tool.at, t))
    IN  IF tool.pending = <<>> THEN begun ELSE Out(begun, Wrote(tool.at, tool.pending))

Late(c) ==
    {t \in DOMAIN c.tools :
        /\ ~c.tools[t].started
        /\ c.tools[t].pending # <<>> \/ c.tools[t].id \/ c.tools[t].name}

(* The elements of S by the block each is, or is of.                         *)
InOrder(S, at) ==
    CHOOSE q \in [1..Cardinality(S) -> S] :
        \A i, j \in DOMAIN q : i < j => at[q[i]] < at[q[j]]

StopBlock(c, i) == Out(c, Stopped(i))

CloseTools(c) ==
    FoldLeft(StopBlock, [c EXCEPT !.open = {}], InOrder(c.open, [i \in c.open |-> i]))

LateStarts(c) ==
    FoldLeft(StartLate, c, InOrder(Late(c), [t \in DOMAIN c.tools |-> c.tools[t].at]))

(* Fault: any finish_reason prepares message_delta.                          *)
FinishReasonAgain(c) ==
    [CloseTools(LateStarts(CloseBlock(c))) EXCEPT !.finished = TRUE, !.pending = TRUE,
                                                  !.usage = c.latest]

(* finish_reason: the first closes everything and prepares message_delta,    *)
(* any other can only complete its usage.                                    *)
FinishReason(c) ==
    IF c.finished
    THEN [c EXCEPT !.usage = IF c.pending /\ c.latest # 0 THEN c.latest ELSE @]
    ELSE [CloseTools(LateStarts(CloseBlock(c))) EXCEPT !.finished = TRUE, !.pending = TRUE,
                                                       !.usage = c.latest]

Voiced(c, chunk, voice) ==
    IF chunk[voice] THEN Speak(c, voice, <<voice, said[voice] + 1>>) ELSE c

Choice(c, chunk) ==
    LET spoken == CallTools(Voiced(Voiced(Greet(c), chunk, "thinking"), chunk, "text"), chunk.calls)
    IN  IF chunk.finish THEN FinishReason(spoken) ELSE spoken

(* Fault: the message_delta that was prepared stays prepared.                *)
FlushKeeps(c) == IF c.pending THEN Out(c, Delta(c.usage)) ELSE c

Flush(c) == IF c.pending THEN Out([c EXCEPT !.pending = FALSE], Delta(c.usage)) ELSE c

-----------------------------------------------------------------------------
(* The upstream.                                                             *)

Pulled == conv.out = <<>> /\ line \in {"open", "done"} /\ lines < MaxChunks

(* Any line may come at any time.  An upstream that keeps to its grammar     *)
(* sends nothing but finish_reasons and usage after the first finish_reason, *)
(* and [DONE] after a finish_reason, last.                                   *)
MaySay(chunk) ==
    /\ line = "open"
    /\ conv.finished => ~chunk.thinking /\ ~chunk.text /\ chunk.calls = <<>>

(* Pieces are counted as they are sent; those of a call that was given up on *)
(* are not.                                                                  *)
Counted(chunk, c) ==
    [s \in Sources |->
        IF s \in Voices THEN said[s] + (IF chunk.choice /\ chunk[s] THEN 1 ELSE 0)
        ELSE said[s] + (IF \E i \in DOMAIN chunk.calls :
                              chunk.calls[i].tool = s /\ chunk.calls[i].args # None
                              /\ ~c.tools[s].aborted THEN 1 ELSE 0)]

Hear(chunk) ==
    /\ Pulled
    /\ polite' = (polite /\ MaySay(chunk))
    /\ conv' = LET c == TakeUsage(conv, chunk) IN IF chunk.choice THEN Choice(c, chunk) ELSE c
    /\ said' = Counted(chunk, conv')
    /\ lines' = lines + 1
    /\ UNCHANGED <<line, view, heard, named, bill>>

(* data: [DONE]                                                              *)
HearDone ==
    /\ Pulled
    /\ polite' = (polite /\ line = "open" /\ conv.finished)
    /\ conv' = [Out(Flush(conv), Plain("message_stop")) EXCEPT !.stopped = TRUE]
    /\ line' = "done"
    /\ lines' = lines + 1
    /\ UNCHANGED <<said, view, heard, named, bill>>

(* The body breaks: the error is all that is left to say.                    *)
Break ==
    /\ conv.out = <<>> /\ line \in {"open", "done"}
    /\ line' = "broken"
    /\ conv' = Out(conv, Plain("error"))
    /\ UNCHANGED <<lines, polite, said, view, heard, named, bill>>

(* The body ends, with or without [DONE] before it.                          *)
End ==
    /\ conv.out = <<>> /\ line \in {"open", "done"}
    /\ line' = "ended"
    /\ conv' = IF conv.pending /\ ~conv.stopped
               THEN Out(Flush(conv), Plain("message_stop"))
               ELSE Flush(conv)
    /\ UNCHANGED <<lines, polite, said, view, heard, named, bill>>

-----------------------------------------------------------------------------
(* The client is handed the next event.                                      *)

(* What an event makes of the answer, those that make something of it.       *)
Phase == [message_start |-> "begun", message_delta |-> "told", message_stop |-> "over",
          error |-> "failed"]

Seen(event) ==
    [view EXCEPT
        !.events = @ + 1,
        !.phase = IF event.type \in DOMAIN Phase THEN Phase[event.type] ELSE @,
        !.kinds = IF event.type # "start" THEN @
                  ELSE [i \in DOMAIN @ \cup {event.index} |->
                          IF i = event.index
                          THEN IF event.source \in Voices THEN event.source ELSE "tool_use"
                          ELSE @[i]],
        !.live = IF event.type = "start" THEN @ \cup {event.index}
                 ELSE IF event.type = "stop" THEN @ \ {event.index}
                 ELSE @]

Yield ==
    /\ conv.out # <<>>
    /\ LET event == Head(conv.out)
       IN  /\ conv' = [conv EXCEPT !.out = Tail(@)]
           /\ view' = Seen(event)
           /\ named' = IF event.type # "start" THEN named
                       ELSE [i \in DOMAIN named \cup {event.index} |->
                               IF i = event.index THEN event.source ELSE named[i]]
           /\ heard' = IF event.type # "delta" THEN heard
                       ELSE [heard EXCEPT ![named[event.index]] = @ \o event.pieces]
           /\ bill' = IF event.type = "message_delta" THEN Append(bill, event.usage) ELSE bill
    /\ UNCHANGED <<line, lines, polite, said>>

Next ==
    \/ \E chunk \in Chunks : Hear(chunk)
    \/ HearDone \/ Break \/ End
    \/ Yield

Spec == Init /\ [][Next]_vars

-----------------------------------------------------------------------------
BlockKinds == Voices \cup {"tool_use"}

(* A line opens at most a block of thinking, one of text, and one per call.  *)
Indices == 0..2 * MaxChunks + Cardinality(Tools)

M == INSTANCE Messages WITH Kinds <- BlockKinds, Indices <- Indices,
        phase <- view.phase, kinds <- view.kinds, live <- view.live, events <- view.events

(* However an upstream mixes thinking, text and calls of several tools,      *)
(* repeats its finish_reason, or breaks off, the client is told a message,   *)
(* Messages' Spec: blocks opened once, written to while they are open and    *)
(* closed, then one message_delta and the end; for as long as the upstream   *)
(* has kept to its own grammar.                                              *)
TellsAMessage == M!Idle /\ [][polite => M!Conversation]_(M!view)

Quiet == conv.out = <<>>

(* Every block is handed the pieces of the source its start named, in the    *)
(* order they came, with none of another; once the answer is finished none   *)
(* is missing, whichever came first, a call's arguments or its name.         *)
NothingLost ==
    polite =>
        \A s \in Sources :
           /\ heard[s] = [n \in 1..Len(heard[s]) |-> <<s, n>>]
           /\ Len(heard[s]) <= said[s]
           /\ Quiet /\ conv.finished => Len(heard[s]) = said[s]

(* "Duplicates make Claude Code abort the connection" (streaming.rs:168):    *)
(* whatever an upstream sends, after a finish_reason, after [DONE] or after  *)
(* both, one message_delta is all a client is told, and no piece is          *)
(* repeated, overtaken by the next or handed to the block of another source. *)
NeverTwiceTold ==
    /\ Len(bill) <= 1
    /\ \A s \in Sources : heard[s] = [n \in 1..Len(heard[s]) |-> <<s, n>>]

(* "Ensuring usage is complete and sent exactly once" (streaming.rs:525): an *)
(* answer that was finished and not broken off is told as over, with one     *)
(* message_delta that carries the last usage the upstream sent before the    *)
(* end, whether it came before, with or after the finish_reason.             *)
BilledOnce ==
    polite =>
        /\ Len(bill) <= 1
        /\ Quiet /\ line = "ended" /\ conv.finished =>
              view.phase = "over" /\ bill = <<conv.latest>>
        /\ view.phase = "over" => Len(bill) = 1
=============================================================================
