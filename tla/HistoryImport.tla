---------------------------- MODULE HistoryImport ----------------------------
(***************************************************************************)
(* One agent's requests and the ledger that counts them: the gateway meters *)
(* what passes through it, and clients import what the agent wrote down     *)
(* itself, chunk by chunk, up to the first row that was metered.            *)
(* (gateway/src/api/import_history.rs, store/usage.rs, store/sessions.rs,   *)
(* core/src/history, app/src-tauri/src/history.rs, cli/src/cmds/history.rs) *)
(*                                                                          *)
(* Agents share a batch and nothing in the ledger, so there is one.         *)
(* Instants are numbers from 2, zero is "not yet", and NoTs the ts of a row *)
(* that has none.  A row of a file is named by its request, as its          *)
(* import_key is the row's place in the file.  Several scans of one machine *)
(* may be under way: the app's backfill, its command and the CLI do not     *)
(* know of each other.                                                      *)
(***************************************************************************)
EXTENDS Naturals, FiniteSets

CONSTANTS
    Requests,    \* what the agent is asked to do
    Machines,    \* the machines whose clients share the gateway
    Scanners,    \* what scans on them
    ChunkRows,   \* MAX_ROWS_PER_REQUEST
    MaxTime,     \* bound on the clock
    MaxScans,    \* bound on the scans that are begun
    MaxFailures  \* bound on the scans that are cut short and the stamps that fail

ASSUME ImportAssumption ==
    ChunkRows \in Nat \ {0} /\ MaxTime \in Nat /\ MaxScans \in Nat /\ MaxFailures \in Nat

VARIABLES
    now,      \* the clock
    began,    \* request -> when it was sent
    on,       \* request -> the machine it was sent on
    metered,  \* request -> ts of its row by the gateway
    said,     \* request -> ts of its row in the agent's file
    imported, \* the rows that came out of a file
    sessions, \* the machines whose sessions were imported
    stamped,  \* history.scan.<agent> is set
    rates,    \* the gateway has a price for the model
    home,     \* scanner -> the machine it is on
    scan,     \* scanner -> the scan under way
    scans, failures

vars == <<now, began, on, metered, said, imported, sessions, stamped, rates, home, scan, scans,
          failures>>

traffic == <<began, on, metered, said>>
ledger  == <<imported, sessions, stamped>>

NoScan == [at |-> "idle", read |-> {}, left |-> {}, chunk |-> {}, kept |-> {},
           first |-> TRUE, rated |-> FALSE, priced |-> FALSE, alone |-> TRUE]

Init ==
    /\ now = 2
    /\ began = [r \in Requests |-> 0] /\ on \in [Requests -> Machines]
    /\ metered = [r \in Requests |-> 0] /\ said = [r \in Requests |-> 0]
    /\ imported = {} /\ sessions = {} /\ stamped = FALSE
    /\ rates \in BOOLEAN
    /\ home \in [Scanners -> Machines] /\ scan = [s \in Scanners |-> NoScan]
    /\ scans = 0 /\ failures = 0

-----------------------------------------------------------------------------
(* The traffic.                                                              *)

Tick ==
    /\ now < MaxTime
    /\ now' = now + 1
    /\ UNCHANGED <<traffic, ledger, rates, home, scan, scans, failures>>

Begin(r) ==
    /\ began[r] = 0
    /\ began' = [began EXCEPT ![r] = now]
    /\ UNCHANGED <<now, on, metered, said, ledger, rates, home, scan, scans, failures>>

(* A row of the ledger is dated when it is recorded, at the answer's end; a  *)
(* request that never passed the gateway has none.                           *)
Meter(r) ==
    /\ began[r] # 0 /\ metered[r] = 0
    /\ metered' = [metered EXCEPT ![r] = now]
    /\ UNCHANGED <<now, began, on, said, ledger, rates, home, scan, scans, failures>>

(* "", which is before any other ts.                                         *)
NoTs == 1

(* The agent writes its file whether or not the request passed the gateway;  *)
(* a record may be without a timestamp.                                      *)
Say(r) ==
    /\ began[r] # 0 /\ said[r] = 0
    /\ \E ts \in {now, NoTs} : said' = [said EXCEPT ![r] = ts]
    /\ UNCHANGED <<now, began, on, metered, ledger, rates, home, scan, scans, failures>>

(* The Hub's prices arrive.                                                  *)
Sync ==
    /\ ~rates
    /\ rates' = TRUE
    /\ UNCHANGED <<now, traffic, ledger, home, scan, scans, failures>>

-----------------------------------------------------------------------------
(* A scan.                                                                   *)

Resting(s) == scan[s].at \in {"idle", "done"}

(* Nothing keeps two scans of one machine apart; alone records, for the      *)
(* properties, that none overlapped.                                         *)
Starts(s, place) ==
    LET others == {t \in Scanners \ {s} : home[t] = home[s] /\ ~Resting(t)} IN
    /\ Resting(s) /\ scans < MaxScans
    /\ scans' = scans + 1
    /\ scan' = [t \in Scanners |->
          IF t = s THEN [NoScan EXCEPT !.at = place, !.alone = others = {}]
          ELSE IF t \in others THEN [scan[t] EXCEPT !.alone = FALSE] ELSE scan[t]]
    /\ UNCHANGED <<now, traffic, ledger, rates, home, failures>>

(* The app backfills when it starts; the CLI, or the user, scans on demand.  *)
Launch(s) == Starts(s, "checking")
Import(s) == Starts(s, "reading")

(* Only an agent without a stamp is backfilled.                              *)
Check(s) ==
    /\ scan[s].at = "checking"
    /\ scan' = IF stamped THEN [scan EXCEPT ![s] = NoScan] ELSE [scan EXCEPT ![s].at = "reading"]
    /\ UNCHANGED <<now, traffic, ledger, rates, home, scans, failures>>

(* A row per answer; a file without one is no session.                       *)
Rows(m) == {r \in Requests : on[r] = m /\ said[r] # 0}

(* With nothing to send no request is made.                                  *)
ReadFiles(s) ==
    LET rows == Rows(home[s]) IN
    /\ scan[s].at = "reading"
    /\ scan' = [scan EXCEPT ![s] =
          [@ EXCEPT !.at = IF rows = {} THEN "done" ELSE "sending",
                    !.read = rows, !.left = rows, !.rated = rates]]
    /\ UNCHANGED <<now, traffic, ledger, rates, home, scans, failures>>

(* Faults: measured against the last metered row; imported rows are measured *)
(* against as well.                                                          *)
OlderThanTheLast(chunk) ==
    {r \in chunk : (\E q \in Requests : metered[q] # 0)
                       => \E q \in Requests : metered[q] # 0 /\ said[r] < metered[q]}

OlderThanImports(chunk) ==
    {r \in chunk : /\ \A q \in Requests : metered[q] # 0 => said[r] < metered[q]
                   /\ \A row \in imported : said[r] < said[row.id]}

(* Of a chunk are kept the rows older than any row that was metered: those   *)
(* below first_usage_at.                                                     *)
Older(chunk) == {r \in chunk : \A q \in Requests : metered[q] # 0 => said[r] < metered[q]}

(* The oldest rows first; the daemon reads the prices and the watermark ...  *)
Send(s) ==
    /\ scan[s].at = "sending"
    /\ \E chunk \in SUBSET scan[s].left :
          /\ IF Cardinality(scan[s].left) <= ChunkRows
             THEN chunk = scan[s].left
             ELSE Cardinality(chunk) = ChunkRows
          /\ \A r \in chunk, q \in scan[s].left \ chunk : said[r] <= said[q]
          /\ scan' = [scan EXCEPT ![s] =
                [@ EXCEPT !.at = "applying", !.chunk = chunk,
                          !.kept = Older(chunk),
                          !.priced = rates]]
    /\ UNCHANGED <<now, traffic, ledger, rates, home, scans, failures>>

(* Fault: a row that is there is left as it is.                              *)
InsertOnly(ids, priced) ==
    imported \cup {[id |-> r, priced |-> priced] : r \in ids \ {row.id : row \in imported}}

(* upsert_imported_usage, one transaction: rows are added or refreshed, the  *)
(* price with the rest.                                                      *)
Upsert(ids, priced) ==
    {row \in imported : row.id \notin ids} \cup {[id |-> r, priced |-> priced] : r \in ids}

(* ... and then writes, the rows, the sessions of a first chunk and the      *)
(* stamp, in three transactions; it may die, or fail, after any.  A stamp    *)
(* that fails is logged, and the answer is the same.                         *)
WritesRows(s) == imported' = Upsert(scan[s].kept, scan[s].priced)

WritesSessions(s) ==
    sessions' = IF scan[s].first THEN sessions \cup {home[s]} ELSE sessions

Apply(s) ==
    /\ scan[s].at = "applying"
    /\ WritesRows(s) /\ WritesSessions(s)
    /\ \/ stamped' = TRUE /\ UNCHANGED failures
       \/ failures < MaxFailures /\ failures' = failures + 1 /\ UNCHANGED stamped
    /\ LET left == scan[s].left \ scan[s].chunk IN
       scan' = [scan EXCEPT ![s] =
          [@ EXCEPT !.at = IF left = {} THEN "done" ELSE "sending",
                    !.left = left, !.chunk = {}, !.kept = {}, !.first = FALSE,
                    !.priced = FALSE]]
    /\ UNCHANGED <<now, traffic, rates, home, scans>>

(* The client or the daemon goes away, and the scan with it: where only the  *)
(* client does, once the daemon is through with the chunk.                   *)
Fail(s) ==
    /\ ~Resting(s) /\ failures < MaxFailures
    /\ failures' = failures + 1
    /\ scan' = [scan EXCEPT ![s] = NoScan]
    /\ \/ UNCHANGED ledger
       \/ scan[s].at = "applying" /\ WritesRows(s) /\ UNCHANGED <<sessions, stamped>>
       \/ scan[s].at = "applying" /\ WritesRows(s) /\ WritesSessions(s) /\ UNCHANGED stamped
       \/ scan[s].at = "applying" /\ WritesRows(s) /\ WritesSessions(s) /\ stamped' = TRUE
    /\ UNCHANGED <<now, traffic, rates, home, scans>>

Next ==
    \/ Tick \/ Sync
    \/ \E r \in Requests : Begin(r) \/ Meter(r) \/ Say(r)
    \/ \E s \in Scanners : \/ Launch(s) \/ Import(s) \/ Check(s)
                           \/ ReadFiles(s) \/ Send(s) \/ Apply(s) \/ Fail(s)

Spec == Init /\ [][Next]_vars

-----------------------------------------------------------------------------
TypeOK ==
    /\ now \in Nat /\ now > NoTs
    /\ on \in [Requests -> Machines] /\ home \in [Scanners -> Machines]
    /\ began \in [Requests -> 0..now] /\ metered \in [Requests -> 0..now]
    /\ said \in [Requests -> 0..now]
    /\ imported \subseteq [id : Requests, priced : BOOLEAN]
    /\ sessions \subseteq Machines /\ stamped \in BOOLEAN /\ rates \in BOOLEAN
    /\ scan \in [Scanners -> [at : {"idle", "checking", "reading", "sending", "applying", "done"},
                              read : SUBSET Requests, left : SUBSET Requests,
                              chunk : SUBSET Requests, kept : SUBSET Requests,
                              first : BOOLEAN, rated : BOOLEAN, priced : BOOLEAN,
                              alone : BOOLEAN]]

Imported == {row.id : row \in imported}

(* What the gateway cannot have counted.                                     *)
Precedes(r) == \A q \in Requests : metered[q] # 0 => said[r] < metered[q]

(* "What must not be counted twice?" (import_history.rs:16): a request is in *)
(* the ledger both as metered and as imported only if it was already sent    *)
(* when the agent's first row was metered, however scans and their           *)
(* watermarks interleave with traffic; or if its row in the file is without  *)
(* a ts.                                                                     *)
TwiceOnlyAtTheBoundary ==
    \A r \in Imported, q \in Requests :
        said[r] # NoTs /\ metered[q] # 0 => began[r] <= metered[q]

(* A scan that ended well has every row it read in the ledger, but for those *)
(* not older than what was metered, and no row twice, whatever other scans   *)
(* wrote meanwhile: an import does not move its own watermark                *)
(* (store/usage.rs:307).                                                     *)
ScansAreComplete ==
    /\ \A s \in Scanners : scan[s].at = "done" =>
          /\ \A r \in scan[s].read : Precedes(r) => r \in Imported
          /\ scan[s].read # {} => home[s] \in sessions
    /\ \A x, y \in imported : x.id = y.id => x = y

(* "Re-prices the ones that had no price the first time" (:29): after a scan *)
(* that began with prices no row it read is without one, if no other scan of *)
(* the machine overlapped it.                                                *)
RescansReprice ==
    \A s \in Scanners : scan[s].at = "done" /\ scan[s].rated /\ scan[s].alone =>
        \A row \in imported : row.id \in scan[s].read /\ Precedes(row.id) => row.priced
=============================================================================
