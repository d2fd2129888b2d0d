------------------------------ MODULE Takeover ------------------------------
(***************************************************************************)
(* Taking one agent over and giving it back: the store half (a registered   *)
(* key, a route), the file half (the agent's own config files), the backup  *)
(* row and the operation row that tie them together, and the pass that      *)
(* closes what a crash left open.                                           *)
(* (core/src/vm/takeover.rs, core/src/takeover/, core/src/auxiliary.rs,     *)
(* gateway/src/api/takeover.rs)                                             *)
(*                                                                          *)
(* A client process (the app, the CLI) may die between any two writes; its  *)
(* locals are gone then and everything else stays.  One file is replaced    *)
(* atomically (a temporary and a rename).  A file is abstracted to which of *)
(* the user's versions it was made from and to the route that is in it.     *)
(***************************************************************************)
EXTENDS Integers, FiniteSets

CONSTANTS
    Procs,       \* client processes
    FileCount,   \* files of the agent, in the order takeover_paths lists them
    Shapes,      \* the agents there are: [carriers, optional, resort], see Shape
    MaxKeys,     \* bound: keys minted in a behaviour
    MaxVersions, \* bound: times the user puts files of their own
    Troubles,    \* what may go wrong besides a crash, a subset of AllTroubles
    MaxTroubles, \* bound: kinds of trouble in one behaviour
    None

Files == 1..FileCount
Keys == 1..MaxKeys
Versions == 0..MaxVersions   \* 0: the file is not there

(* The files a takeover writes the key into, the others only select it; the  *)
(* files that need not be there; and what is left for a disable that has no  *)
(* backup.                                                                   *)
Shape == [carriers : SUBSET Files, optional : SUBSET Files,
          resort : {"rebuild", "strip", "none"}]

(* A write of a file, of a file put back, of a row or a call of the daemon   *)
(* fails; a file that is there cannot be read by an enable ("misread") or by *)
(* a disable or a reconcile ("overlook"), or a row cannot; the user puts     *)
(* files of their own in place; the backup gets lost.                        *)
AllTroubles == {"write", "putback", "row", "daemon", "misread", "overlook", "load",
                "edit", "loss"}

ASSUME FilesAssumption == FileCount \in Nat \ {0}
ASSUME ShapesAssumption == Shapes \subseteq Shape
ASSUME BoundsAssumption == MaxKeys \in Nat /\ MaxVersions \in Nat \ {0}
ASSUME TroublesAssumption == Troubles \subseteq AllTroubles /\ MaxTroubles \in Nat

VARIABLES
    shape,       \* which agent this is
    files,       \* the agent's config files
    backup,      \* takeover_backups row: the files as captured, or None
    op,          \* takeover_ops row: [key, applied], or None
    registered,  \* client_keys rows of the agent
    route,       \* the agent's bindings: "none", "own" or "imported"
    minted,      \* keys minted so far
    proc,        \* process -> where it is and its locals
    own,         \* history: the files as the user last had them
    happened     \* history: the troubles there were

vars == <<shape, files, backup, op, registered, route, minted, proc, own, happened>>

Content == [version : Versions,
            route : {"user", "gateway", "provider", "stripped"},
            key : Keys \cup {None}]

ASSUME NoneAssumption ==
    /\ None \notin Keys
    /\ None \notin [Files -> Content]
    /\ None \notin [key : Keys, applied : BOOLEAN]

UserFile(v) == [version |-> v, route |-> "user", key |-> None]

Absent(c) == c = UserFile(0)
Carries(c) == c.key # None

(* placeholder_in_file over every file: any of them is evidence.             *)
AnyCarries(contents) == \E i \in Files : Carries(contents[i])

LiveKey == AnyCarries(files)

(* restorable_backup: a backup that holds our own route is nobody's original.*)
Restorable == backup # None /\ ~AnyCarries(backup)

Routed(i, c, k) ==
    [c EXCEPT !.route = "gateway", !.key = IF i \in shape.carriers THEN k ELSE None]

Rebuilt(c) == IF Absent(c) THEN c ELSE [c EXCEPT !.route = "provider", !.key = None]

Stripped(c) == IF Carries(c) THEN [c EXCEPT !.route = "stripped", !.key = None] ELSE c

Tasks == {"none", "enable", "disable", "reconcile"}

Steps == {"idle", "opening", "reading", "capturing", "writing", "rolling",
          "uncapturing", "marking", "undoing", "restoring", "dropping",
          "revoking", "clearing", "tearing", "vetting", "looking",
          "rebuilding", "stripping", "judging", "asking"}

Ends == {"none", "done", "refused", "failed"}

Local == [pc : Steps, task : Tasks, end : Ends,
          key : Keys \cup {None},           \* minted, or of the row it loaded
          held : [Files -> Content] \cup {None},   \* originals, or the backup
          first : BOOLEAN,                  \* first_time; the row's applied
          had : {"none", "own", "imported"},       \* the route it started from
          at : 0..FileCount]

Rest == [pc |-> "idle", task |-> "none", end |-> "none", key |-> None,
         held |-> None, first |-> FALSE, had |-> "none", at |-> 0]

Init ==
    /\ shape \in Shapes
    /\ files \in [Files -> {UserFile(0), UserFile(1)}]
    /\ own = files
    /\ backup = None
    /\ op = None
    /\ registered = {}
    /\ route \in {"none", "own"}
    /\ minted = 0
    /\ proc = [p \in Procs |-> Rest]
    /\ happened = {}

At(p, step) == proc[p].pc = step

Goto(p, step) == proc' = [proc EXCEPT ![p].pc = step]

End(p, how) == proc' = [proc EXCEPT ![p].pc = "idle", ![p].end = how,
                                    ![p].held = None, ![p].at = 0]

(* Calls of these kinds fail: only what the caller does about it happens.    *)
Fail(kinds) ==
    /\ kinds \subseteq Troubles
    /\ happened' = happened \cup kinds
    /\ Cardinality(happened') <= MaxTroubles
Trouble(kind) == Fail({kind})
Fine == UNCHANGED happened

(* live_placeholder_key passes over a file it cannot read: a key that is     *)
(* there may go unseen.                                                      *)
Sightings == {LiveKey, FALSE}
Missed(seen, kind) == IF seen = LiveKey THEN {} ELSE {kind}

-----------------------------------------------------------------------------
(* Enabling: the store half, the file half, the mark.                        *)

(* phase_state mints a key and registers it; the daemon imports the          *)
(* credentials the config carries, if any, and binds them only for an agent  *)
(* that has no route.  The registration may fail after the binding, and its  *)
(* answer may be lost: nobody takes back what it did.                        *)
Enable(p) ==
    LET key == minted + 1
        started == [Rest EXCEPT !.task = "enable", !.key = key, !.had = route]
    IN  /\ At(p, "idle")
        /\ minted < MaxKeys
        /\ minted' = key
        /\ \/ route' = route
           \/ route = "none" /\ route' = "imported"
        /\ \/ /\ Fine
              /\ registered' = registered \cup {key}
              /\ proc' = [proc EXCEPT ![p] = [started EXCEPT !.pc = "opening"]]
           \/ /\ Trouble("daemon")
              /\ registered' \in {registered, registered \cup {key}}
              /\ proc' = [proc EXCEPT ![p] = [started EXCEPT !.end = "failed"]]
        /\ UNCHANGED <<files, backup, op, own, shape>>

(* start_takeover_op supersedes the row there is.  If it fails the command   *)
(* ends there, and the key stays registered.                                 *)
StartOp(p) ==
    /\ At(p, "opening")
    /\ \/ /\ Fine
          /\ op' = [key |-> proc[p].key, applied |-> FALSE]
          /\ Goto(p, "reading")
       \/ /\ Trouble("row")
          /\ End(p, "failed")
          /\ UNCHANGED op
    /\ UNCHANGED <<files, backup, registered, route, minted, own, shape>>

(* What read_originals makes of the files: one that cannot be read, whatever *)
(* the reason, is taken for one that is not there.                           *)
AsRead(unread) == [i \in Files |-> IF i \in unread THEN UserFile(0) ELSE files[i]]

(* read_originals and compute_rewrites: a required file may be missing and a *)
(* rewriter may refuse what it reads.                                        *)
Read(p) ==
    /\ At(p, "reading")
    /\ \E unread \in SUBSET Files :
          /\ Fail(IF unread = {} THEN {} ELSE {"misread"})
          /\ \/ /\ \A i \in Files \ shape.optional : ~Absent(AsRead(unread)[i])
                /\ proc' = [proc EXCEPT ![p].pc = "capturing", ![p].held = AsRead(unread)]
             \/ proc' = [proc EXCEPT ![p].pc = "undoing", ![p].end = "refused"]
    /\ UNCHANGED <<files, backup, op, registered, route, minted, own, shape>>

(* Fault: every enable takes the backup, the repeated one as well.           *)
CaptureAlways(p) ==
    /\ At(p, "capturing")
    /\ backup' = proc[p].held
    /\ proc' = [proc EXCEPT ![p].pc = "writing", ![p].first = TRUE, ![p].at = 1]
    /\ UNCHANGED <<files, op, registered, route, minted, own, shape, happened>>

(* The backup is taken unless what is seen on disk is already our route.     *)
Capture(p) ==
    /\ At(p, "capturing")
    /\ \E seen \in Sightings :
          \/ /\ Fail(Missed(seen, "misread"))
             /\ backup' = IF seen THEN backup ELSE proc[p].held
             /\ proc' = [proc EXCEPT ![p].pc = "writing", ![p].first = ~seen, ![p].at = 1]
          \/ /\ ~seen /\ Fail(Missed(seen, "misread") \cup {"row"})
             /\ proc' = [proc EXCEPT ![p].pc = "undoing", ![p].end = "failed"]
             /\ UNCHANGED backup
    /\ UNCHANGED <<files, op, registered, route, minted, own, shape>>

(* write_rewrites, one file.                                                 *)
Write(p) ==
    LET i == proc[p].at
    IN  /\ At(p, "writing")
        /\ files' = [files EXCEPT ![i] = Routed(i, proc[p].held[i], proc[p].key)]
        /\ IF i = FileCount
           THEN Goto(p, "marking")
           ELSE proc' = [proc EXCEPT ![p].at = i + 1]
        /\ UNCHANGED <<backup, op, registered, route, minted, own, shape, happened>>

WriteFails(p) ==
    /\ At(p, "writing")
    /\ Trouble("write")
    /\ proc' = [proc EXCEPT ![p].pc = "rolling", ![p].end = "failed",
                            ![p].at = proc[p].at - 1]
    /\ UNCHANGED <<files, backup, op, registered, route, minted, own, shape>>

(* rollback_writes, the last file written first; a failure is ignored.       *)
RollBack(p) ==
    LET i == proc[p].at
    IN  /\ At(p, "rolling")
        /\ IF i = 0
           THEN Goto(p, "uncapturing") /\ Fine /\ UNCHANGED files
           ELSE /\ \/ files' = [files EXCEPT ![i] = proc[p].held[i]] /\ Fine
                   \/ Trouble("putback") /\ UNCHANGED files
                /\ proc' = [proc EXCEPT ![p].at = i - 1]
        /\ UNCHANGED <<backup, op, registered, route, minted, own, shape>>

(* Fault: the backup row goes whichever enable made it.                      *)
UncaptureAlways(p) ==
    /\ At(p, "uncapturing")
    /\ backup' = None
    /\ Goto(p, "undoing")
    /\ UNCHANGED <<files, op, registered, route, minted, own, shape, happened>>

(* The backup row goes with it if this call made it; a failure is ignored.   *)
Uncapture(p) ==
    /\ At(p, "uncapturing")
    /\ \/ backup' = (IF proc[p].first THEN None ELSE backup) /\ Fine
       \/ Trouble("row") /\ UNCHANGED backup
    /\ Goto(p, "undoing")
    /\ UNCHANGED <<files, op, registered, route, minted, own, shape>>

(* mark_applied touches only the row of its own operation, still pending; a  *)
(* failure is logged.                                                        *)
Mark(p) ==
    /\ At(p, "marking")
    /\ \/ /\ Fine
          /\ op' = IF op # None /\ op = [key |-> proc[p].key, applied |-> FALSE]
                   THEN [op EXCEPT !.applied = TRUE] ELSE op
       \/ Trouble("row") /\ UNCHANGED op
    /\ End(p, "done")
    /\ UNCHANGED <<files, backup, registered, route, minted, own, shape>>

-----------------------------------------------------------------------------
(* Putting files back, for undo_state and for disable.                       *)

(* Fault: the store half is taken back out and the files are left.           *)
UndoStoreOnly(p) ==
    /\ At(p, "undoing")
    /\ Goto(p, "revoking")
    /\ UNCHANGED <<files, backup, op, registered, route, minted, own, shape, happened>>

(* undo_state: the files first, from a backup that may be written back; one  *)
(* that cannot be loaded is none.                                            *)
Undo(p) ==
    /\ At(p, "undoing")
    /\ \/ /\ Restorable /\ Fine
          /\ proc' = [proc EXCEPT ![p].pc = "restoring", ![p].held = backup, ![p].at = 1]
       \/ /\ (~Restorable /\ Fine) \/ Trouble("load")
          /\ Goto(p, "revoking")
    /\ UNCHANGED <<files, backup, op, registered, route, minted, own, shape>>

(* restore_backup, one file: what was not there is removed.                  *)
Restore(p) ==
    LET i == proc[p].at
    IN  /\ At(p, "restoring")
        /\ files' = [files EXCEPT ![i] = proc[p].held[i]]
        /\ IF i = FileCount
           THEN Goto(p, "dropping")
           ELSE proc' = [proc EXCEPT ![p].at = i + 1]
        /\ UNCHANGED <<backup, op, registered, route, minted, own, shape, happened>>

(* disable reports it and stops; undo_state goes on regardless.              *)
RestoreFails(p) ==
    /\ At(p, "restoring")
    /\ Trouble("putback")
    /\ IF proc[p].task = "disable" THEN End(p, "failed") ELSE Goto(p, "revoking")
    /\ UNCHANGED <<files, backup, op, registered, route, minted, own, shape>>

(* The row goes; one that will not is a warning.                             *)
DropBackup(p) ==
    /\ At(p, "dropping")
    /\ \/ backup' = None /\ Fine
       \/ Trouble("row") /\ UNCHANGED backup
    /\ Goto(p, IF proc[p].task = "disable" THEN "tearing" ELSE "revoking")
    /\ UNCHANGED <<files, op, registered, route, minted, own, shape>>

(* Fault: a full teardown where one registration was to be taken back.       *)
RevokeAll(p) ==
    /\ At(p, "revoking")
    /\ registered' = {}
    /\ route' = "none"
    /\ Goto(p, "clearing")
    /\ UNCHANGED <<files, backup, op, minted, own, shape, happened>>

(* unregister_key deletes every key of the agent, one by one, and may stop   *)
(* half way or lose its answer.                                              *)
(* undo_state ignores a failure; reconcile, which revokes without a restore, *)
(* returns it.                                                               *)
Revoke(p) ==
    /\ At(p, "revoking")
    /\ \/ registered' = {} /\ Goto(p, "clearing") /\ Fine
       \/ /\ Trouble("daemon")
          /\ IF proc[p].task = "reconcile" /\ proc[p].first
             THEN End(p, "failed") ELSE Goto(p, "clearing")
          /\ registered' \in SUBSET registered
    /\ UNCHANGED <<files, backup, op, route, minted, own, shape>>

(* clear_takeover_op; a failure is ignored.                                  *)
ClearOp(p) ==
    /\ At(p, "clearing")
    /\ \/ op' = None /\ Fine
       \/ Trouble("row") /\ UNCHANGED op
    /\ End(p, IF proc[p].task = "enable" THEN proc[p].end ELSE "done")
    /\ UNCHANGED <<files, backup, registered, route, minted, own, shape>>

-----------------------------------------------------------------------------
(* Disabling: the backup, or the provider the gateway serves, or a strip.    *)

(* The fallback is asked for first: the route the agent has.                 *)
Disable(p) ==
    /\ At(p, "idle")
    /\ \/ /\ Fine
          /\ proc' = [proc EXCEPT ![p] = [Rest EXCEPT !.pc = "vetting", !.task = "disable",
                                                      !.had = route]]
       \/ /\ Trouble("daemon")
          /\ proc' = [proc EXCEPT ![p] = [Rest EXCEPT !.task = "disable", !.end = "failed"]]
    /\ UNCHANGED <<files, backup, op, registered, route, minted, own, shape>>

(* usable_backup: a row that holds our own route is dropped, not written,    *)
(* and one that cannot be loaded is none.                                    *)
Vet(p) ==
    /\ At(p, "vetting")
    /\ \/ /\ Restorable
          /\ proc' = [proc EXCEPT ![p].pc = "restoring", ![p].held = backup, ![p].at = 1]
          /\ Fine
          /\ UNCHANGED backup
       \/ /\ ~Restorable
          /\ \/ backup' = None /\ Fine
             \/ Trouble("row") /\ UNCHANGED backup
          /\ Goto(p, "looking")
       \/ /\ Trouble("load")
          /\ Goto(p, "looking")
          /\ UNCHANGED backup
    /\ UNCHANGED <<files, op, registered, route, minted, own, shape>>

(* Fault: no backup is taken for "not taken over", whatever the files carry. *)
LookAtRowOnly(p) ==
    /\ At(p, "looking")
    /\ Goto(p, "tearing")
    /\ UNCHANGED <<files, backup, op, registered, route, minted, own, shape, happened>>

(* No backup: is anything of ours seen, and is there a provider to rebuild   *)
(* from?                                                                     *)
Look(p) ==
    LET rebuild == shape.resort = "rebuild" /\ proc[p].had # "none"
    IN  /\ At(p, "looking")
        /\ \E seen \in Sightings :
              /\ Fail(Missed(seen, "overlook"))
              /\ IF ~seen
                 THEN Goto(p, "tearing")
                 ELSE proc' = [proc EXCEPT ![p].pc = IF rebuild THEN "rebuilding" ELSE "stripping",
                                           ![p].at = 1]
        /\ UNCHANGED <<files, backup, op, registered, route, minted, own, shape>>

(* rebuild_from_provider, one file; a provider that cannot be rebuilt from   *)
(* is found out at the first.  Whatever fails, the strip is next; a file     *)
(* that cannot be read is passed over as if it were done.                    *)
Rebuild(p) ==
    LET i == proc[p].at
    IN  /\ At(p, "rebuilding")
        /\ \/ /\ \/ Fine /\ files' = [files EXCEPT ![i] = Rebuilt(@)]
                 \/ Trouble("overlook") /\ UNCHANGED files
              /\ IF i = FileCount
                 THEN Goto(p, "dropping")
                 ELSE proc' = [proc EXCEPT ![p].at = i + 1]
           \/ /\ (i = 1 /\ Fine) \/ Trouble("write")
              /\ proc' = [proc EXCEPT ![p].pc = "stripping", ![p].at = 1]
              /\ UNCHANGED files
        /\ UNCHANGED <<backup, op, registered, route, minted, own, shape>>

(* strip_tier_error: the route is taken out of every file that can be read,  *)
(* and the loss is an error.                                                 *)
Strip(p) ==
    LET i == proc[p].at
    IN  /\ At(p, "stripping")
        /\ \/ /\ shape.resort # "none"
              /\ \/ Fine /\ files' = [files EXCEPT ![i] = Stripped(@)]
                 \/ Trouble("overlook") /\ UNCHANGED files
              /\ IF i = FileCount
                 THEN End(p, "failed")
                 ELSE proc' = [proc EXCEPT ![p].at = i + 1]
           \/ /\ (shape.resort = "none" /\ Fine) \/ Trouble("write")
              /\ End(p, "failed")
              /\ UNCHANGED files
        /\ UNCHANGED <<backup, op, registered, route, minted, own, shape>>

(* Fault: the keys go and the bindings stay.                                 *)
TearDownKeysOnly(p) ==
    /\ At(p, "tearing")
    /\ registered' = {}
    /\ Goto(p, "clearing")
    /\ UNCHANGED <<files, backup, op, route, minted, own, shape, happened>>

(* teardown: the keys one by one, the bindings and the strategy, in one      *)
(* call, which may stop half way or lose its answer.                         *)
TearDown(p) ==
    /\ At(p, "tearing")
    /\ \/ /\ Fine
          /\ registered' = {}
          /\ route' = "none"
          /\ Goto(p, "clearing")
       \/ /\ Trouble("daemon")
          /\ End(p, "failed")
          /\ \/ registered' \in SUBSET registered /\ UNCHANGED route
             \/ registered' = {} /\ route' = "none"
    /\ UNCHANGED <<files, backup, op, minted, own, shape>>

-----------------------------------------------------------------------------
(* Reconciling: the operation row against the evidence in the files.         *)

(* An agent without a row is passed over, and so is one whose row cannot be  *)
(* loaded.                                                                   *)
Reconcile(p) ==
    /\ At(p, "idle")
    /\ op # None
    /\ proc' = [proc EXCEPT ![p] = [Rest EXCEPT !.pc = "judging", !.task = "reconcile",
                    !.key = op.key, !.first = op.applied, !.had = route]]
    /\ UNCHANGED <<files, backup, op, registered, route, minted, own, shape, happened>>

(* Fault: a pending row is marked without looking at the files.              *)
JudgeByRow(p) ==
    /\ At(p, "judging")
    /\ IF proc[p].first THEN End(p, "done") ELSE Goto(p, "marking")
    /\ UNCHANGED <<files, backup, op, registered, route, minted, own, shape, happened>>

(* What the row says and what is seen in the files: four ways to go on.      *)
Judge(p) ==
    LET applied == proc[p].first
    IN  /\ At(p, "judging")
        /\ \E seen \in Sightings :
              /\ Fail(Missed(seen, "overlook"))
              /\ CASE applied /\ seen   -> End(p, "done")
                   [] applied /\ ~seen  -> Goto(p, "revoking")
                   [] ~applied /\ seen  -> Goto(p, "marking")
                   [] ~applied /\ ~seen -> Goto(p, "asking")
        /\ UNCHANGED <<files, backup, op, registered, route, minted, own, shape>>

(* registered_key: with none there is nothing to undo but the row.           *)
Ask(p) ==
    /\ At(p, "asking")
    /\ \/ Goto(p, IF registered = {} THEN "clearing" ELSE "undoing") /\ Fine
       \/ Trouble("daemon") /\ End(p, "failed")
    /\ UNCHANGED <<files, backup, op, registered, route, minted, own, shape>>

-----------------------------------------------------------------------------
(* What happens around the commands.                                         *)

(* The process dies between two writes: nothing unwinds.                     *)
Crash(p) ==
    /\ ~At(p, "idle")
    /\ proc' = [proc EXCEPT ![p] = Rest]
    /\ UNCHANGED <<files, backup, op, registered, route, minted, own, shape, happened>>

(* The user, or another tool, puts a configuration without our route in.     *)
PutByHand ==
    LET v == own[1].version + 1
    IN  /\ Trouble("edit")
        /\ v \in Versions
        /\ files' = [i \in Files |-> UserFile(v)]
        /\ own' = files'
        /\ UNCHANGED <<backup, op, registered, route, minted, proc, shape>>

LoseBackup ==
    /\ Trouble("loss")
    /\ backup # None
    /\ backup' = None
    /\ UNCHANGED <<files, op, registered, route, minted, proc, own, shape>>

Step(p) ==
    \/ Enable(p) \/ StartOp(p) \/ Read(p) \/ Capture(p)
    \/ Write(p) \/ WriteFails(p) \/ RollBack(p) \/ Uncapture(p) \/ Mark(p)
    \/ Undo(p) \/ Restore(p) \/ RestoreFails(p) \/ DropBackup(p)
    \/ Revoke(p) \/ ClearOp(p)
    \/ Disable(p) \/ Vet(p) \/ Look(p) \/ Rebuild(p) \/ Strip(p) \/ TearDown(p)
    \/ Reconcile(p) \/ Judge(p) \/ Ask(p)

Next == (\E p \in Procs : Step(p) \/ Crash(p)) \/ PutByHand \/ LoseBackup

Spec == Init /\ [][Next]_vars

-----------------------------------------------------------------------------
TypeOK ==
    /\ shape \in Shapes
    /\ files \in [Files -> Content]
    /\ backup \in [Files -> Content] \cup {None}
    /\ op \in [key : Keys, applied : BOOLEAN] \cup {None}
    /\ registered \subseteq Keys
    /\ route \in {"none", "own", "imported"}
    /\ minted \in 0..MaxKeys
    /\ proc \in [Procs -> Local]
    /\ own \in [Files -> {UserFile(v) : v \in Versions}]
    /\ happened \subseteq Troubles

AllCarry == shape.carriers = Files

(* An enable reads every file that is there, a backup that is there can be   *)
(* loaded and put back, and nobody else touches either.                      *)
Untouched == happened \cap {"putback", "misread", "load", "edit", "loss"} = {}

(* "The agent is either untouched or pointing at a gateway that knows its    *)
(* key" (vm/takeover.rs), wherever its process died, as long as there was a  *)
(* backup of the user's files and it could be put back, since undo_state     *)
(* revokes the key regardless; and as long as reconcile sees the route that  *)
(* is there, since it revokes the key of an agent it sees none in.           *)
KnownKey ==
    Untouched /\ "overlook" \notin happened =>
        \A i \in Files : Carries(files[i]) => files[i].key \in registered

Kept == \A i \in Files : files[i] = own[i] \/ (backup # None /\ backup[i] = own[i])

(* What the user had in a file is in the file or in the backup: no crash,    *)
(* refusal, failed write or call, repeated enable, or route that disable or  *)
(* reconcile fails to see leaves it nowhere, for an agent all of whose files *)
(* carry the key.  A file that enable cannot read is the exception: it is    *)
(* taken for one that is not there and overwritten.  So is a backup that     *)
(* cannot be loaded: a rebuild deletes it.                                   *)
OriginalsSurvive == AllCarry /\ Untouched => Kept

(* A backup never records our route as the user's original, unless the user  *)
(* put files in between enable's reading of them and its look at the route,  *)
(* or the look could not read them.                                          *)
BackupHoldsNoKey ==
    happened \cap {"misread", "edit"} = {} /\ backup # None => ~AnyCarries(backup)

(* A disable that is past its file half: the registration is going.          *)
PastFiles(p) == proc[p].task = "disable" /\ proc[p].pc \in {"tearing", "clearing"}

(* A disable that got past its file half left no route of ours in the files: *)
(* the registration is never dropped under an agent that still sends it.     *)
(* The backup may be lost, edited over or fail to load, and enable may have  *)
(* read files wrongly; a file that disable itself cannot read is the         *)
(* exception, since it is passed over.                                       *)
DisableLeavesNoRoute ==
    "overlook" \notin happened => \A p \in Procs : PastFiles(p) => ~LiveKey

(* p's operation ends in this step, and this is how.                         *)
EndsAs(p, task, how) ==
    /\ ~At(p, "idle")
    /\ proc[p].task = task
    /\ proc'[p].pc = "idle" /\ proc'[p].task = task /\ proc'[p].end = how

(* Crashes, and nothing but writes of a takeover's own files that failed.    *)
OnlyWritesFailed == AllCarry /\ happened \subseteq {"write"}

(* A disable that succeeds gives the files back as the user had them, and    *)
(* leaves no key, no route and no operation behind.                          *)
DisableGivesBack ==
    [][\A p \in Procs : OnlyWritesFailed' /\ EndsAs(p, "disable", "done") =>
          files' = own' /\ backup' = None /\ registered' = {} /\ op' = None /\ route' = "none"
      ]_vars

(* An enable that fails after its registration is undone: the files, the     *)
(* backup, the keys and the operation are gone, and a route the user had     *)
(* before is still there.                                                    *)
FailedEnableUndone ==
    [][\A p \in Procs :
          OnlyWritesFailed' /\ (EndsAs(p, "enable", "refused") \/ EndsAs(p, "enable", "failed")) =>
             /\ files' = own' /\ backup' = None /\ registered' = {} /\ op' = None
             /\ proc[p].had = "own" => route' = "own"
      ]_vars

(* Reconciling closes what a crash left open: either the takeover stands,    *)
(* marked and carried, or there is nothing left of it.                       *)
ReconcileConverges ==
    [][\A p \in Procs : OnlyWritesFailed' /\ EndsAs(p, "reconcile", "done") =>
          \/ op' # None /\ op'.applied /\ LiveKey'
          \/ op' = None /\ registered' = {} /\ ~LiveKey'
      ]_vars
=============================================================================
