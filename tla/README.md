# Verification of kiwano

Kiwano routes coding agents through a local gateway. The daemon (`kiwanod`,
`crates/gateway`) is an HTTP proxy: it attributes each request to an agent by
its client key, chooses an upstream provider and one of its keys, forwards,
retries and fails over, converts the answer when the provider speaks another
dialect, meters it and enforces spending ceilings. The client side
(`crates/core`, used by the desktop app and the CLI) points an agent's own
configuration files at the gateway and gives them back, keeps the daemon running
and imports what the agents did before there was one.

This directory holds TLA+ modules for the parts of that program whose
correctness depends on order: TLC checks them on small instances, TLAPS proves
what matters most for every value of their constants. `PROJECT.json` lists the
runs, the definitions with the source lines they translate, the hazards and the
theorems. In a module, an operator that begins with the comment "Fault:" is a
plausible bug of the definition below it; the run that checks a property must
fail when the fault takes its place.

## Inventory

| Component | State it keeps | Operations | Module |
| --- | --- | --- | --- |
| Session table (`strategy/sticky.rs`) | map session → candidate with ages, a clock | get, insert, evict | `StickyTable` |
| Routing (`server/data.rs`, `router/mod.rs`, `strategy/`) | session pins, ring cursor, in-flight gauges | resolve, plan, replay | `Routing` |
| Limits (`limits/`) | the published `LimitState` | evaluate, publish | input of `Routing`; `Reload` |
| Retries (`forward/upstream.rs`) | locals of one request's task | attempt, backoff, hand on | `RetryBudget` |
| Streams (`forward/stream.rs`, `metering.rs`) | one `SseUsageStream` per answer | poll, abort, finish, drop, record | `SseStream` |
| Snapshots (`server/mod.rs`, `limits/patrol.rs`) | route table, limits, settings | reload after a write, patrol | `Reload` |
| Takeover (`core/src/vm/takeover.rs`, `core/src/takeover/`, `auxiliary.rs`, `api/takeover.rs`) | agent files, backup row, operation row, key, bindings | enable, disable, reconcile | `Takeover` |
| Key pool (`forward/headers.rs`, `server/mod.rs`, `store/keys.rs`) | rotation cursor per provider, session → key pin | select, add, delete, replace | `KeyPool` |
| Store (`store/`) | one SQLite connection under a mutex, migrations | queries, upserts | by use |
| Admin plane (`server/admin.rs`) | none of its own | one row write, then reload | its writes, in `Reload` |
| Streamed conversion (`adapters/.../streaming.rs`) | converter state of one stream | one data line after the other | `ChatToMessages`, `Messages` |
| Other conversion (`forward/convert*.rs`) | none, or as above | body by body | no |
| Daemon process (`gateway/src/main.rs`, `server/admin_ipc.rs`, `core/src/sidecar.rs`, `app/src-tauri/src/daemon.rs`) | data port, admin socket, child, subscription | bind, reclaim, stop, clean up, adopt, restart, watch | `Daemon` |
| History import (`api/import_history.rs`, `core/src/history/`) | imported rows and sessions, a stamp per agent | scan, send a chunk, apply it | `HistoryImport` |
| Plan quotas, prober, price tables | caches, health marks | periodic queries | no |
| Credential scan, request log, metrics | none, or one row | pure functions | no |
| Hub sync, share | one table | download, upload | no |
| Detection, rules injection, insights, app, CLI | none that is shared | reads and views | no |

How they interact. Every request is a task of a multi-threaded runtime. The
tasks share `GatewayState`: the route table and the limits, each an `Arc` behind
an `RwLock` which a reader clones once; the strategy engine, whose session
table, ring cursor and gauges are behind a mutex each; and the store, whose
queries take one connection's mutex one at a time. Nothing is held across an
`await` and nothing spans two of these, so the interesting states are those
between two critical sections. An admin request commits its row and then
rebuilds the snapshots in its own task; the patrol does half of that every 30
seconds. A stream outlives its handler: the client's connection polls it, and a
side task waits for its sample. Takeover runs in client processes, which share
the agent's files, a small database of their own and the daemon's API, and may
die between any two writes. Daemons and their clients find each other by two
names, a TCP port the system takes back when a process ends and a socket file it
does not; a client knows of a daemon only what a ping says at that moment.

What is hard about it, and what makes each part right:

- *Session table*: every session that speaks keeps its slot, the map stays
  below its ceiling, an eviction takes the sessions that were quiet longest.
- *Routing*: concurrent turns, pins that outlive what they name, one ring for
  all agents, gauges read one at a time. Right: nobody over a ceiling is asked;
  `single` is never promoted; a failure is replayed, once per candidate, down
  the route; a conversation keeps its provider; seats come back.
- *Retries*: two nested loops on one budget, windows named by upstreams, timers
  that fire late. Right: bounded time and attempts, windows kept, one answer.
- *Streams*: chunk boundaries anywhere, six ways to end, a poller that may stop
  reading. Right: metered exactly once, with everything that arrived whole;
  handed on byte for byte but for the tally the gateway itself asked for;
  given up on only for silence.
- *Snapshots*: rebuilds that overtake each other, failing reads. Right: a
  write that was answered is in the table.
- *Takeover*: crashes, failing writes and calls, two clients, edits by hand.
  Right: a config that carries the gateway's key carries one it knows, and what
  the user had is in the file or in the backup.
- *Key pool*: lookup, cursor and pin under three locks, and edits in between.
  Right: a conversation keeps its account, the accounts take turns.
- *Conversion*: blocks of three kinds opened by different parts of a loop, calls
  whose arguments come before their name, usage that comes late or twice. Right:
  the client's grammar is kept, every piece arrives once, and one bill.
- *Daemons*: two at once, one going while one comes, corpses, a watchdog that
  acts on an old ping. Right: one that serves can be reached, one that died is
  replaced, one that was told to stop exits.
- *Import*: a boundary that moves while it is used, machines that share it,
  scans that stop half way. Right: nothing is counted twice or lost.

## Modules

Each module is parameterised by CONSTANTS with named assumptions; `MC*.tla`
extends it with the values the `.cfg` files need. History variables, marked
"history", are written and never read by an action.

### StickyTable

The table behind one mutex, so `Get` and `Insert` are one step each. `map` is
the `HashMap`, `tick` the operation clock, `used` the tick of the last use.
`Cutoff` is `ages[len / 4]` of the sorted ages, stated as the least age that
more than a quarter of the entries do not exceed. `spoke` records when each
session last used the table. The same type holds the key pins of a credential
pool, and `KeyPool` uses these very actions for them.

### KeyPool

One provider. `primary` and `rows` are the store's, `table` is the pool as the
installed route table carries it: the primary first, then the rows without
repeated values. A turn takes the pool with it when it is routed (`Begin`), so it
may go on with one that is no longer the table's. `Look`, `Rotate` and `Pin` are
the three critical sections of `select_upstream_key`: the pins' mutex, the
cursor's, and the pins' again; `Look` and `Pin` are `Get` and `Insert` of the
`StickyTable` the module extends. A pin names the entry and not its value: an
edited primary keeps its sessions although it is another account, and an extra
whose value becomes the primary's drops out of the pool, so its sessions are
pinned anew. `AddKey`, `DeleteKey` and `SetPrimary` are a write and its reload in
one step; how reloads cross is `Reload`. No code path disables a key without
deleting it. `crossed` remembers sessions whose turns overlapped, `dealt` and
`mixed` what the cursor did with the present table.

### Routing

One request per member of `Requests`. Its steps are the critical sections of
`handle`: `Resolve` (the limits snapshot, attribution, the checks in their
order), `Lookup` (session table), `Choose*` (ring, clock, usage query, gauges
one at a time), `Assign` (session table again), `TakeSeat` and `Answer` (one
attempt; the whole of `RetryBudget` is inside), `HangUp` (the future is dropped)
and `EndStream`. A plan is its head and a set: what follows the head is plain
priority order, so `IsNext` gives the next candidate. `Publish` and `Tick` are
the environment: new limits, the user's clock. Limits are a set of names over
a ceiling and nothing more; how the amounts are computed is not modelled.
`rows` counts usage rows because the quota strategy reads them, and
`QuotaUnread` is that query failing, which ends the request unrouted. `moved`
(history) counts the seats that changed hands since a request began to look at
the gauges. The session
table is used as a map without a ceiling here: eviction is `StickyTable`.
`Serial` says that a client waits for a turn before it sends the next one of
the session.

### RetryBudget

The two loops one task runs: `Attempt` is one turn of `send_upstream` (outcome,
duration, the named window, the decision to wait or to hand on), `Wake` the end
of a sleep which may be up to `Lag` late, `ReadBody` the reading of the body
after the headers were handed on, which no limit of the attempt bounds and which,
when it breaks, is a 502 that is replayed and not retried, `Decide` the replay's
decision in `handle`. Time is a number; the constants of the code are CONSTANTS so that the
proofs hold for all of them and TLC can use small ones.

### SseStream

The upstream's text is a series of events of four cells: two halves of the data
line, its line end, the blank line. `Send` puts any number of cells on the wire
as one chunk; `Close` ends or breaks it. `PollEnded`, `Abort`, `PollChunk`,
`PollError` and `PollEof` are the ways through `poll_next`, in the order in which
the code tries them: what was ended, then the deadline, then the upstream.
`Drop` is the response discarded, `Record` the side task behind the channel of
one. Deadlines are countdowns (`left`), which keeps the state finite. `silence`
and `lull` are the upstream's true silences, which the code cannot see. A client
that is `attentive` takes what is there before time passes; one that is not may
leave chunks lying.
The cap of the captured body and a write of the row that fails
(`metering.rs:46`) are left out, and the conversion of a stream is the next
module.

### Messages and ChatToMessages

`Messages` is what a client of the Anthropic API is promised of one streamed
answer, and nothing about where it comes from: it begins, blocks are opened once,
written to while open and closed, one `message_delta` follows when all are closed,
then the end; or an error. `ChatToMessages` is the converter of
`create_anthropic_sse_stream`. `conv` holds the locals of its task, `Hear` is one
data line with everything the loop body does, part by part in the code's order,
`HearDone` the line `[DONE]`, `Break` and `End` the ways a body ends, and `Yield`
one event handed to the client, which is how far the task runs between two polls.
`view` is what the client makes of the events. `TellsAMessage` is the refinement:
the instance of `Messages` with `view` for its variables, checked as a property.
Text is reduced to numbered pieces and usage to how many of them were sent, which
is all that order, loss and repetition need. Token arithmetic, ids, models and
the mapping of stop reasons are left out.
Any line may come at any time. `polite` (history) says whether the upstream kept
to its own grammar so far: nothing but finish_reasons and usage after the first
finish_reason, `[DONE]` once, after a finish_reason, and last. What is promised
of every upstream (`NeverTwiceTold`) does not ask for it, the rest
does.

### Daemon

A member of `Daemons` is a process slot. `port` is who has the data port, `file`
what the socket's name leads to: nobody, a corpse, or a daemon. `BindData` to
`Rebind` are `main`'s binds with `AdminEndpoint::bind`'s probe of a name that is
taken; `CloseData`, `CloseAdmin` and `Drain` the graceful stop of the two serve
loops, each of which waits for its open responses; `Cleanup` and `Unlink` the
probe and the removal of the name. `Ask`, `AskToStop`, `AwaitStop` and `Spawn` are
what the app does at its start and the CLI for a command; `WatchChild` to
`WatchSpawn` one tick of the app's watchdog, a step per thing it looks at;
`Follow` the app's subscription to `/events`. `Crash` may happen anywhere; `Exits`
is the operating system. `raced` marks behaviours in which a daemon bound the
name between another's probe and its removal, the window the code owns up to.
The TCP listener, the Windows pipe, tokens and the delays are left out.

### HistoryImport

One agent. A request is sent (`Begin`), metered by the gateway at its end
(`Meter`) and written down by the agent itself (`Say`, with a ts or without one,
`NoTs`), the last two in either order or not at all. A member of `Scanners` is a
scan of the machine `home` names: the app's backfill, its command or the CLI's,
which nothing keeps apart, so scans of one machine may overlap. A scan checks the
stamp (`Check`, the backfill only), reads the files, and sends chunks, oldest
rows first; with nothing to send it makes no request. The daemon takes the
prices and the watermark (`Send`) and then writes rows, sessions and stamp in
three transactions (`Apply`, whose stamp may fail unnoticed), between which it
may `Fail`. `first` is that the sessions ride with the first chunk; `alone`
(history) that no other scan of the machine overlapped this one. A row of the
ledger is dated and recorded in one step.

### Reload

The store is a version per part: client keys, which agents are bound, providers
with their ceilings, bindings. `Write` commits an edit, `Load` reads one part
after the other under a lock each, `Install` swaps the table in, `Evaluate` and
`Publish` do the limits; the patrol runs the last two and sleeps. Two things are
coarser than the code: the bindings of all agents are one read, where
`RouteTable::load` asks agent by agent (`router/mod.rs:346-409`), and `Evaluate`
is one step, where `evaluate` reads the spend of providers, agents and keys under
a lock each (`limits/state.rs:326-433`). `LoadFails`
and an `Evaluate` that returns `Unread` are reads of the store that fail, at most
`MaxFailures` of them. `met`
records who was in a rebuild while a handler was in its last one. The other
settings a reload refreshes follow the same pattern and are left out.

### Takeover

One agent. A file is the version of the user's text it was made from, the route
that is in it and the key it carries. Every write, of a file, a row or the
daemon's store, is a step with its failures, and between any two the process
may `Crash` and lose its locals. `Enable` to `Mark` are the three phases of an
enable with the rollback of the file half; `Undo` to `ClearOp` is `undo_state`;
`Disable`, `Vet`, `Look`, `Rebuild`, `Strip` and `TearDown` are the tiers of a
disable; `Reconcile`, `Judge` and `Ask` the pass that closes what a crash left
open. `PutByHand` and `LoseBackup` are external. A file is replaced atomically,
as `atomic_write_private` does it. `shape` is which agent this is, chosen at the
start from `Shapes`: the files that hold the key, the others only select it, and
the last resort there is without a backup. `Troubles` are the kinds of failure a
behaviour may meet, `MaxTroubles` how many of them; `happened` records which
did, because what the code promises depends on it. Among them are reads. An
enable takes a file it cannot read for one that is not there (`AsRead`) and may
miss a route that is there before it captures (`Sightings`): "misread". Disable
and reconcile may miss it too, and a rebuild and a strip pass over a file they
cannot read: "overlook". A backup row that cannot be loaded is none: "load". Keys and bindings are deleted one by
one, so `Revoke` and `TearDown` may stop anywhere between.

## Runs

| Run | Bounds | Shows |
| --- | --- | --- |
| `pool` | 3 sessions and single requests, 2 turns at a time and 4 in all, 2 pins, 3 key values, 2 edits | a conversation keeps its key, the keys take turns, the table of pins keeps its ceiling and evicts the quiet |
| `ceilings` | 2 requests, 3 candidates, 3 agents (`single`, `failover`, `roundrobin`), 6 limit sets, all outcomes | ceilings, `single`, replay and the gauges under limits that move |
| `turns` | 3 requests, the four strategies that keep conversations, weights 4:2, a window over midnight, a quota of one row | a conversation keeps its provider; the ring's shares; a short queue, whatever moves while it is looked for |
| `times` | 3 candidates, retries and limits of each kind, bodies that break, budget 12, fairness | the clock of a request |
| `stream` | one event of every kind and two series of two, every chunking, limits 1 and 2, attentive and slow clients, fairness | handed on, counted; only silence is given up on; metered in the end |
| `convert` | 5 data lines out of 23, 2 tool calls, 2 blank pieces as the threshold | of any upstream: one `message_delta`, no piece repeated, overtaken or misplaced; of one that keeps to its grammar: the client's grammar, every piece once and in order, one bill |
| `reload` | 2 handlers, patrol, 2 edits, a failing read, fairness | a handler that met no other is routed and its ceiling binds; limits end up as the store says |
| `takeover` | 2 files, 2 keys, 3 agents, 2 versions of the user's files, crashes anywhere, any 2 of 9 kinds of trouble | a key that is carried is known; originals survive; disable, undo and reconcile leave what they should |
| `daemon` | 3 processes, 2 versions, a start of the app, a command, a crash, fairness | serving daemons are reachable, dead ones replaced, stopped ones exit |
| `import` | 2 requests, 2 machines, 2 scanners, chunks of 1, 4 instants, 2 scans, 1 failure | nothing twice, nothing lost, prices caught up with by a scan no other overlaps |
| `reload_stale`, `stop_hangs` | small instances of the same | where the code and its documents disagree |

Why the bounds are enough. The pool's run overfills a table of two with a third
session, while two turns at a time are the pair that can cross; two edits are a
key that leaves and one that comes, or a value that moves from a row to the
primary. Two requests are enough for every race between a request and the
environment, three for the gauges (one that reads, one that takes and one that
releases) and for a whole round of a ring of weights 2:1. Three candidates are a
head, a next and a last. A session's pin is exercised by a turn that sets it, one
that follows it and one after the world has moved. Two events are what it takes
for a chunk to end in every place relative to an event's end and the next one's
begin. Two handlers and the patrol race over two writes; a third handler only
repeats what the second does to the first. Two files are a first and a last, with
a crash or a failure between them; a second key is a takeover after one that
stands or was undone; and two kinds of trouble are a failure and one while it is
being undone. Five data lines are a call in parts with text around it, a second one in
between and a late usage. Three processes are one on its way out, one on its way
in and one in the way. Two requests are one the gateway meters and one the agent
alone knows of; chunks of one row put a boundary between any two. What is also
proved (below) does not depend on the bounds.

`CHECK_DEADLOCK FALSE` is used where the system may really stop: all requests
are answered, the turns are used up, the stream is over, the app has quit and
nobody starts a daemon, the last scan has ended.

### Where the code and its documents disagree

A run of its own shows each of these two by a counterexample; `PROJECT.json`
"findings" quotes the lines.

- `reload_stale`: crossing rebuilds may leave the older route table in place for
  good.
- `stop_hangs`: a daemon that is told to stop while the desktop app listens to
  `/events` never exits. Its listeners close, so a successor may bind, but the
  process and its connection to the database stay; the app, whose stream is not
  ended, goes on listening to the daemon that no longer serves.

The models contain more of them, which the runs step around by a condition or a
constant; each can be seen by lifting it:

- `Routing`: `native.rs` records a usage row for an answer with an error status
  before the replay looks at it, so a failed-over attempt leaves one (`Answer`
  adds to `rows`); `data.rs:306` says nothing was metered. With `Serial = FALSE`
  two overlapping turns of one conversation may be on two providers
  (`KeepsProvider` fails). With two agents under `roundrobin` the one ring cursor
  lets them skew each other's shares (`RingShare` fails). Under `roundrobin`
  requests without a session share one pin. A streamed response gives its seat
  back at its headers, so a gauge counts attempts and not streams, although
  `data.rs:331` says it "stays honest about how busy each candidate actually is".
- `RetryBudget`: the reading of a body has no limit of its own, so a candidate
  may take any time after its headers. A candidate begun inside the plan's deadline has a full budget
  of its own, so the bound of a plan is two budgets (`WithinTwoBudgets`);
  `upstream.rs:36` says the loop "must not stack candidates past the same
  deadline".
- `SseStream`: a client that stops reading for the length of the limit has its
  upstream blamed (`SilenceIsSilence` without `attentive` fails; the notice says
  "upstream sent nothing", `stream.rs:164`). The error event may be glued to a
  half-delivered event, and a broken transport leaves a row like that of a
  complete response.
- `ChatToMessages`: without `polite` in its conditions `[DONE]` before any choice
  sends the end of a message that never began, and text after the finish_reason
  opens a block that is never closed (`TellsAMessage` fails). With any upstream a
  break after `[DONE]` is an error after the end, which `Messages` allows. A
  converted error is an ordinary event to the stream around it, so its row says
  ok. A last event without a blank line after it is dropped.
- `KeyPool`: overlapping turns of one session may be sent with different keys and
  leave either pin (`KeepsItsKey` without `crossed` fails).
- `Reload`: the patrol, evaluating before a write and publishing after its
  handler, takes a typed limit back until its next tick (`AloneBinds` without
  `met`). An evaluation that cannot read the providers is published as "nobody is
  over a limit", which is documented as failing open (`limits/state.rs:313`).
- `Takeover`, what cannot be read: enable takes an optional file it cannot read,
  for whatever reason, for one that is not there; the file is overwritten, the
  backup says it did not exist, and the disable that restores it removes it
  (`enable.rs:94`; `enable.rs:92` says that the backup records which it was, "so
  disabling can put the directory back the way it found it"). So
  `OriginalsSurvive` fails without its exception for "misread". A look for our
  route passes over a file it cannot read (`state.rs:66`), a rebuild too
  (`disable.rs:200`), and a backup row that cannot be loaded is none
  (`auxiliary.rs:324`): a disable may then report success and drop the
  registration under a file that names the gateway, which `disable.rs:30` says it
  never does (`DisableLeavesNoRoute` fails without its exception for "overlook"),
  a reconcile may take the key from an agent that sends it (`KnownKey` without
  its), and a rebuild deletes the backup that could not be loaded.
- `Takeover`, otherwise: undo revokes a key although putting the files back
  failed, and with two clients in `Procs` each revokes the other's key
  (`KnownKey` without its condition fails). Reconcile takes one file that carries
  the key for a finished takeover. For an agent whose key is in the last of its
  files, a second enable after a crash records its own half-written files as the
  originals (`enable.rs:66` says it must not). After the user has replaced the
  files, an undo may restore an older backup over them. A failed enable may leave
  the binding the daemon made.
- `Daemon`: a restart spawns as soon as the admin socket is silent, while the old
  data listener may still be open, and the new daemon then exits; the same
  happens when the corpse a daemon is about to reclaim is removed under it by its
  predecessor. The app's watchdog repairs both; after a command of the CLI
  nobody does. `ServesBothPlanes` without `raced` fails in the window
  `admin_ipc.rs:542` describes.
- `HistoryImport`: requests under way when the first row of an agent is metered
  may be counted twice, since the agent may date them earlier than the gateway
  does; and so may rows without a ts, which precede every watermark. With two
  scans of one machine a chunk that was priced before the Hub's prices came
  (`import_history.rs:144`) may be written after another scan filled them in, and
  the upsert sets the cost back to NULL (`store/usage.rs:348`): `RescansReprice`
  fails without `alone`, and `import_history.rs:26` says of a second run that
  nothing happens but that it "re-prices the ones that had no price". An agent
  without rows or sessions is never stamped, since neither sender makes a request
  then (app `history.rs:195`, CLI `history.rs:106`); `import_history.rs:183` says
  "a row-less agent still gets stamped". The stamp is per agent and gateway, so a
  second machine's backfill does not run, although `sessions.rs:430` says "two
  machines do not suppress each other's scans"; and the watermark is per agent
  too, so another machine's rows after it are skipped as metered traffic. A scan
  cut short after its first chunk is stamped, and the backfill does not take it
  up again.

## Fairness

- `Routing` is checked for safety only: that a request ends is a property of the
  attempt's clock, `RetryBudget`'s `Answered`.
- `RetryBudget`: weak fairness of `RetryNext`: one task, and its timers fire.
- `SseStream`: weak fairness of `Poll`, `Record` and `Tick`. Polls need a client
  that stays and reads; the runtime runs the recording task. A client that stays
  connected and never reads is not polled, so `Metered` says nothing of it: the
  code has no timer outside the poll either.
- `Reload`: weak fairness of each handler once it has begun and of the patrol.
  That failures are bounded is an assumption `LimitsCatchUp` needs: a store
  that never again can be read is never caught up with.
- `Takeover` has no liveness property: a client may always die, and nobody is
  obliged to run reconcile.
- `Daemon`: weak fairness of every daemon, of every command once it has begun and
  of the watchdog: processes and threads that the system runs. No fairness of
  `Crash`, `StartApp`, `QuitApp`, `Command` or `Follow`; that crashes and commands
  are bounded is an assumption of `BroughtBack`.
- `KeyPool`, `ChatToMessages` and `HistoryImport` are checked for safety only:
  turns, upstreams and scans may stop at any point, and what is promised is
  promised of those that do not.

## Proofs

| Module | Theorem | Says |
| --- | --- | --- |
| `KeyPoolProof` | `TypeCorrect`, `CeilingHolds`, `OnlyQuietSessionsLoseTheirSlot` (of the table); `PinsAreATable`, `EntriesTakeTurns`, `ConversationsKeepTheirKey` (of the pool) | `TypeOK`, `Bounded`, `EvictsOnlyQuiet`; `PoolSpec => Spec`, `KeysTakeTurns`, `KeepsItsKey` |
| `RoutingProof` | `TypeCorrect`, `GaugesAreSeats`, `NobodyOverACeilingIsAsked`, `SingleStaysSingle`, `ReplayGoesDown`, `QueuesPickedAreShort`, `ConversationsKeepTheirProvider`, `TheRingIsShared` | `TypeOK`, `GaugesCountSeats`, `CeilingsHold`, `SingleIsNeverPromoted`, `ReplaysDownTheRoute`, `PicksAShortQueue`, `KeepsProvider` (one request at a time), `RingShare` (one open ring) |
| `ForwardProof` (`RetryBudget`) | `ClockTypeCorrect`, `CandidateBudget`, `PlanBudget`, `AttemptsAreJustified`, `WindowsAreWaitedOut` | `RetryTypeOK`, `InItsBudget`, `WithinTwoBudgets`, `AttemptsBounded` with the one answer, `WindowsRespected` |
| `ReloadProof` | `TypeCorrect`, `LoneHandlersAreRouted`, `LoneLimitsBind` | `TypeOK`, `AloneIsRouted`, `AloneBinds` |
| `TakeoverProof` | `TypeCorrect`, `BackupsAreClean`, `CarriedKeysAreKnown`, `OriginalsAreKept`, `DisableIsClean`, `DisablesGiveBack`, `FailedEnablesAreUndone`, `ReconcilesConverge` | `TypeOK` and every property of its run (one client; each under the troubles its property admits) |
| `ForwardProof` (`SseStream`) | `TypeCorrect`, `ReportedOnce`, `HandedOnWhole`, `ArrivedIsCounted`, `GivenUpOnForSilence` | `TypeOK`, one sample per stream, `PassThrough`, `UsageCounted`, `SilenceIsSilence` |
| `ChatProof` | `NoPieceIsLost`, `BilledOneTime`, `ClientsAreToldAMessage` | `NothingLost`, `BilledOnce`, `TellsAMessage` (for as long as the upstream keeps to its grammar) |
| `DesktopProof` (`Daemon`) | `DaemonTypeCorrect`, `TheDeadHoldNothing`, `ServingDaemonsAreReached` | `DaemonTypeOK`, `HeldByTheLiving`, `ServesBothPlanes` |
| `DesktopProof` (`HistoryImport`) | `TypeCorrect`, `NothingIsCountedTwice`, `WholeScansAreComplete`, `ScansReprice` | `TypeOK`, `TwiceOnlyAtTheBoundary`, `ScansAreComplete`, `RescansReprice` (a scan no other of its machine overlaps) |

Each module proves `Init => IInv`, `IInv /\ [Next]_vars => IInv'` with one step
per action, and `IInv => P`.

- *StickyTable*: ages are the times their sessions last spoke and no two are
  equal. That makes the number of entries at or below the cutoff exactly
  `(Capacity + 1) \div 4 + 1`, from which both the bound and the number of uses
  an evicted session was quiet for follow by counting.
- *Routing*: a gauge is the cardinality of the set of requests that hold a
  seat; the proof of each action is what it does to that set. For the ceilings,
  what a request may still ask is a subset of what was usable under the limits
  it saw, and a pin is only followed into that set. For the replay, all a
  request has asked, but for the head of its plan, comes before all it has not.
  What least-busy read of a gauge differs from the gauge by no more than the seats
  that changed hands since (`Watched`), so the queue it picks is short by as much.
  `KeepsProvider` is for requests of an agent that follow one another (`Serial`,
  a condition on the constants): then nobody writes a pin between a request's
  lookup and its own write, and the entry a conversation was answered by is the
  one its next request is planned with. `RingShare` is for one ring that nothing
  prunes (`OneOpenRing`): the cursor is one for all agents, and a ring without
  its ruled-out candidates is another ring, so with two agents, or a ceiling that
  comes and goes, shares are what the interleaving makes them. On one ring a
  candidate was dealt what the cursor's whole turns and its place in the present
  one give it (`Dealt`), and the ring is the fold of the weights over the
  candidates, of which each owns an interval.
- *RetryBudget*: a sleep that is under way fits the budget it was measured
  against, and a candidate was begun inside the plan's.
- *Reload*: what a handler has read is at least what it wrote, in the parts it
  has passed; the installed table is older only in parts a handler it met
  read; hence a handler that met nobody is in the table, and stays, because any
  later rebuild reads the store after its write. Its ceiling binds for the same
  reason: every evaluation that may still publish began after its write. The
  constants are arbitrary, the assumptions are the named ones of each module.

- *SseStream*: until a stream is over its buffer ends in no complete line (what
  has one is scanned when it is polled), and what is on the wire follows the
  buffer in the order of the text. So no data line is ever split between two
  scans, and what was handed on is what the scans let through. The deadline of a
  client that keeps up runs no faster than its upstream's silence, and a silence
  that ended is remembered until what ended it is polled (`HearsInTime`).
- *KeyPool*: every step of the pool is a lookup or an insert of the session
  table, or leaves the pins alone, so the table's theorems are true of the pins.
  The pool is a fold over the rows; by induction over the sets of rows it lists
  each row at most once, under its own handle. While the table stands and only
  turns that carry it moved the cursor, an entry was dealt the cursor's positions
  that are its own (`DealtInTurn`). A session that never had two turns at once is
  pinned to the entry it was last sent with, or lost its pin after it was quiet
  for as long as the table promises, or is choosing anew (`PinnedToLast`).
- *ChatToMessages*: the converter speaks ahead of its client, so the invariant is
  about the client there will be when all that is on its way has been told
  (`Told`): every event fits the client it will find (`Fitting`), the blocks that
  last client knows are the converter's (`Placed`), and what it has heard, with
  what is held back of calls that have no name yet, is all that was said
  (`Heeds`). Each part of the converter is a lemma about a few more events at the
  end, folded over the calls of a line and over the blocks that are closed;
  handing an event over takes one from the beginning, and the client is the one
  it leads to. All of it holds while `polite` does, and that is all that is proved
  (`Manners`). Assumed of the lines: none has two parts of one call
  (`LinesAssumption`; pieces are numbered by line).
- *Daemon*: what is held is held by a process at a place where it may hold it.
  The data port is taken first, so at most one daemon is anywhere between the
  port and the end of its service; a name that leads to a daemon leads to that
  one, and nobody else removes it, because a removal follows a probe that found
  nobody, unless a bind came in between (`raced`).
- *HistoryImport*: what was kept of a chunk is older than every metered row, and
  stays so, because a row metered later is dated later than everything already
  written. A row precedes what is metered ever less, so what a chunk left out is
  not missed by the scan's end; and a row is written only by scans of the machine
  it is of, so nobody takes a price away from a scan that was alone.

- *Takeover*: for one client (`OneClient`). Each place of a command says what the
  files and the held originals are there: while it writes, the files it has not
  reached are as it read them; while it puts back, those behind it are clean.
  The backup is clean under any trouble but edits and failed reads; while files
  and rows can be read and nobody but the commands touched the files, a live key means a backup that can be put back, and what carries no
  key is the user's. How a command ends needs a second invariant (`CalmInv`) of
  what each place has taken back by then, when nothing but writes of the agent's
  files failed.

`SharedLemmas` holds what several of these need: induction over the numbers and
over the subsets of a finite set (about a set of which something is true, since
the library's theorems about an operator cannot be used), that the folds of the
community modules have a solution on a finite set, and how a position counted
around a ring goes on. `ForwardProof` and `DesktopProof` are each about two modules
that share no variable.

Out of the prover's reach, and left to TLC: liveness and `ENABLED` (`Answered`,
`Metered`, `LimitsCatchUp`, `BroughtBack`, `StopsUnlessFollowed`). Every other
property of a passing run is a theorem but `NeverTwiceTold`, which is of any
upstream and model-checked only.

`OriginalsSurvive` and the three action properties of `Takeover` are for agents
all of whose files carry the key; for the others they fail (above).
Each property excepts the troubles the code does not withstand, and no other:
`OriginalsSurvive` speaks of behaviours in which enable reads what is there, a
backup that is there can be loaded and put back, and nobody else edits the files
or loses the backup (`Untouched`), whatever disable and reconcile overlook;
`KnownKey` of those in which these see what is there as well;
`DisableLeavesNoRoute` of those in which disable does, whatever enable misread
and whatever became of the backup; `BackupHoldsNoKey` of those without "misread"
and "edit". Each of these exceptions is needed: TLC finds the property violated
when any one kind of trouble is taken out of its list, each time by what the code
does (above). With two clients `KnownKey` fails, so `OneClient` is a condition of
the theorems and not a convenience of their proofs.

## Plan

The order was by what a user loses when it is wrong: the answer to a request
(Routing, RetryBudget), the session table they rest on, their configuration
(Takeover), the bill (SseStream), the snapshots (Reload); then the account a
conversation is on (KeyPool), the answer's form (ChatToMessages), the gateway
itself (Daemon) and the ledger (HistoryImport). What is left:

1. The converters between the other pairs of dialects (`chat_streaming.rs`,
   `responses_streaming.rs`) as event machines against their clients' grammars,
   as `ChatToMessages` is against `Messages`.
2. More abstract specifications: `Failover`, what a request is promised (asked at
   most once each, answered once), implemented by `Routing` with `RetryBudget`
   inside one `Answer`; `Meter`, one row per stream, implemented by `SseStream`;
   `Agent`, the two states "untouched" and "routed with a known key", implemented
   by `Takeover` for one client.
3. Schema migrations: a crash between two steps and `user_version`.
4. Proofs: the refinements of item 2.

## Not modelled

User interface, detection, insights, pricing and the credential scan are pure
functions or views. Vendor quota queries are an input of the limits, Hub prices
one of the imports. The conversion of request bodies and of whole answers
rewrites one JSON value into another and keeps no state. Of the admin plane's
endpoints, those that read, and those that write one row and reload, add nothing
to `Reload`. What the store's queries compute is taken from their SQL where a
module uses it; SQLite itself is taken to be atomic per transaction. The text of
messages is left out everywhere.
