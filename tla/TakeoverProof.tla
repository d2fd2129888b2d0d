--------------------------- MODULE TakeoverProof ---------------------------
(***************************************************************************)
(* Proofs about Takeover for one client, any agent and any number of files: *)
(* what the backup and the files may hold wherever the client dies, that    *)
(* the key in the files is a registered one, and what a disable, a failed   *)
(* enable and a reconcile leave behind when they end.                       *)
(*                                                                          *)
(* What a command may rely on is in its locals, so the invariant has a part *)
(* for each place of the command: what the files and the held originals are *)
(* there.  A crash only takes the locals away, and the parts that speak of  *)
(* the files, the rows and the keys alone are what a restart finds.  How a  *)
(* command ends needs a second one, CalmInv: what each place has taken back *)
(* so far, as long as nothing but writes of the agent's files failed.       *)
(***************************************************************************)
EXTENDS Takeover, TLAPS

(* One client works on an agent at a time.                                   *)
OneClient == \A p, q \in Procs : p = q

(* No file went unread so far, by an enable; by a disable or a reconcile.    *)
Readable == "misread" \notin happened
Seeing == "overlook" \notin happened

Mine == {"opening", "reading", "capturing", "writing"}

(* Between its reading and its look at the route, an enable holds what is    *)
(* on disk; then the files it has not written, or has put back.              *)
Holding(l) ==
    /\ l.pc \in {"capturing", "writing", "rolling", "restoring"} => l.held \in [Files -> Content]
    /\ l.pc = "capturing" /\ Readable /\ "edit" \notin happened => l.held = files
    /\ l.pc \in {"writing", "restoring", "rebuilding", "stripping"} => l.at \in Files
    /\ Untouched /\ l.pc = "writing" => \A j \in Files : j >= l.at => files[j] = l.held[j]
    /\ Untouched /\ l.pc = "rolling" => \A j \in Files : j > l.at => files[j] = l.held[j]
    /\ Untouched /\ l.pc = "uncapturing" /\ l.first => ~LiveKey

(* What goes back is nobody's route, and the files behind it are clean.      *)
Leaving(l) ==
    /\ l.pc = "restoring" => ~AnyCarries(l.held)
    /\ l.pc = "restoring" \/ (Seeing /\ l.pc = "rebuilding") =>
          \A j \in Files : j < l.at => ~Carries(files[j])
    /\ (Untouched \/ Seeing) /\ l.pc = "dropping" => ~LiveKey
    /\ Seeing /\ l.pc = "tearing" => ~LiveKey
    /\ l.task = "disable" =>
          l.pc \notin {"opening", "reading", "capturing", "writing", "rolling", "uncapturing",
                      "undoing", "revoking", "judging", "asking"}
    /\ Seeing /\ l.pc = "clearing" /\ l.task = "disable" => ~LiveKey
    /\ Untouched => l.pc \notin {"rebuilding", "stripping"}
    /\ Untouched /\ l.pc = "looking" => ~LiveKey
    /\ Untouched /\ Seeing /\ l.pc = "revoking" => ~LiveKey

(* The keys a command is about to put into the files are registered.         *)
Knowing(l) ==
    /\ l.pc \in Mine => l.key \in registered
    /\ Untouched /\ l.pc \in {"writing", "rolling"} =>
          /\ Restorable
          /\ l.first => ~AnyCarries(l.held)
          /\ Seeing => \A i \in Files : Carries(l.held[i]) => l.held[i].key \in registered

(* And the versions it holds are the user's.                                 *)
Owning(l) ==
    Untouched /\ AllCarry =>
        /\ l.pc \in {"writing", "rolling"} =>
              \A i \in Files : Carries(l.held[i]) \/ l.held[i] = own[i]
        /\ l.pc = "restoring" => l.held = own

Sound(l) == Holding(l) /\ Leaving(l) /\ Knowing(l) /\ Owning(l)

(* What a restart finds.                                                     *)
Lasting ==
    /\ BackupHoldsNoKey
    /\ KnownKey
    /\ Untouched /\ LiveKey => Restorable
    /\ Untouched /\ AllCarry =>
          /\ backup # None => backup = own
          /\ \A i \in Files : Carries(files[i]) \/ files[i] = own[i]

Inv == TypeOK /\ Lasting /\ \A p \in Procs : Sound(proc[p])

-----------------------------------------------------------------------------
Ops    == [key : Keys, applied : BOOLEAN] \cup {None}
Routes == {"none", "own", "imported"}
Owns   == [Files -> {UserFile(v) : v \in Versions}]
Held   == [Files -> Content] \cup {None}

(* The local state after a step that changes these fields only.              *)
LEMMA GotoMoves ==
    ASSUME TypeOK, NEW p \in Procs, NEW step \in Steps, Goto(p, step)
    PROVE  \E m \in Local :
              /\ proc' = [proc EXCEPT ![p] = m]
              /\ m.pc = step
              /\ m.task = proc[p].task /\ m.end = proc[p].end /\ m.key = proc[p].key
              /\ m.held = proc[p].held /\ m.first = proc[p].first /\ m.at = proc[p].at
              /\ m.had = proc[p].had
<1> DEFINE m == [proc[p] EXCEPT !.pc = step]
<1>1. proc[p] \in Local
    BY DEF TypeOK
<1>2. proc' = [proc EXCEPT ![p] = m]
    BY DEF Goto
<1>3. /\ m \in Local /\ m.pc = step
      /\ m.task = proc[p].task /\ m.end = proc[p].end /\ m.key = proc[p].key
      /\ m.held = proc[p].held /\ m.first = proc[p].first /\ m.at = proc[p].at
      /\ m.had = proc[p].had
    BY <1>1 DEF Local
<1> HIDE DEF m
<1> QED
    BY <1>2, <1>3

LEMMA EndMoves ==
    ASSUME TypeOK, NEW p \in Procs, NEW how \in Ends, End(p, how)
    PROVE  \E m \in Local :
              /\ proc' = [proc EXCEPT ![p] = m]
              /\ m.pc = "idle" /\ m.task = proc[p].task /\ m.end = how
<1> DEFINE m == [proc[p] EXCEPT !.pc = "idle", !.end = how, !.held = None, !.at = 0]
<1>1. proc[p] \in Local
    BY DEF TypeOK
<1>2. proc' = [proc EXCEPT ![p] = m]
    BY DEF End
<1>3. 0 \in 0..FileCount /\ "idle" \in Steps
    BY FilesAssumption DEF Steps
<1>4. m \in Local /\ m.pc = "idle" /\ m.task = proc[p].task /\ m.end = how
    BY <1>1, <1>3, Zenon DEF Local
<1> HIDE DEF m
<1> QED
    BY <1>2, <1>4

(* A place at which nothing is relied on.                                    *)
LEMMA Anywhere ==
    ASSUME NEW m, m.pc \in {"idle", "marking", "undoing", "vetting", "judging", "asking"},
           m.task = "disable" => m.pc \in {"idle", "marking", "vetting"}
    PROVE  Sound(m)
BY SMT DEF Sound, Holding, Leaving, Knowing, Owning, Mine

LEMMA Moved ==
    ASSUME OneClient, TypeOK, NEW p \in Procs, NEW m \in Local,
           proc' = [proc EXCEPT ![p] = m], Sound(m)', Lasting', UNCHANGED shape,
           files' \in [Files -> Content], backup' \in Held, op' \in Ops, registered' \subseteq Keys,
           route' \in Routes, minted' \in 0..MaxKeys, own' \in Owns, happened' \subseteq Troubles
    PROVE  Inv'
<1>1. proc' \in [Procs -> Local] /\ proc'[p] = m
    BY Zenon DEF TypeOK
<1>2. TypeOK'
    BY <1>1, Zenon DEF TypeOK, Held, Ops, Routes, Owns
<1>3. \A q \in Procs : Sound(proc[q])'
    <2> SUFFICES ASSUME NEW q \in Procs PROVE Sound(proc[q])'
        OBVIOUS
    <2>1. q = p
        BY DEF OneClient
    <2>2. proc'[q] = m
        BY <1>1, <2>1
    <2>3. Holding(m)' /\ Leaving(m)' /\ Knowing(m)' /\ Owning(m)'
        BY Zenon DEF Sound
    <2>4. Holding(proc[q])'
        BY <2>2, <2>3, Zenon DEF Holding
    <2>5. Leaving(proc[q])'
        BY <2>2, <2>3, Zenon DEF Leaving
    <2>6. Knowing(proc[q])'
        BY <2>2, <2>3, Zenon DEF Knowing
    <2>7. Owning(proc[q])'
        BY <2>2, <2>3, Zenon DEF Owning
    <2> QED
        BY <2>4, <2>5, <2>6, <2>7, Zenon DEF Sound
<1> QED
    BY <1>2, <1>3 DEF Inv

(* What happened stays happened.                                             *)
LEMMA Worse ==
    ASSUME happened \subseteq happened'
    PROVE  /\ Untouched' => Untouched
           /\ Readable' => Readable
           /\ Seeing' => Seeing
           /\ Untouched' => Readable'
           /\ "edit" \notin happened' => "edit" \notin happened
BY Zenon DEF Untouched, Readable, Seeing

LEMMA Clear == Untouched => Readable /\ "edit" \notin happened
BY Zenon DEF Untouched, Readable

LEMMA Failing ==
    ASSUME NEW kinds, Fail(kinds), Inv
    PROVE  happened' \subseteq Troubles /\ happened \subseteq happened' /\ kinds \subseteq happened'
BY Zenon DEF Fail, Inv, TypeOK

(* What is seen of a key in the files is there, and all of it is seen that   *)
(* can be read.                                                              *)
LEMMA Sighted ==
    ASSUME NEW seen \in Sightings, NEW kind, Missed(seen, kind) \subseteq happened'
    PROVE  /\ seen \in BOOLEAN
           /\ seen => LiveKey
           /\ kind \notin happened' /\ ~seen => ~LiveKey
BY DEF Sightings, Missed, LiveKey, AnyCarries

(* A step that leaves the files, the backup and the keys alone.              *)
LEMMA Settles ==
    ASSUME OneClient, Inv, NEW p \in Procs, NEW m \in Local,
           proc' = [proc EXCEPT ![p] = m], Sound(m)',
           UNCHANGED <<files, backup, registered, own, shape>>,
           op' \in Ops, route' \in Routes, minted' \in 0..MaxKeys,
           happened' \subseteq Troubles, happened \subseteq happened'
    PROVE  Inv'
<1>1. Untouched' => Untouched
    BY Worse
<1>2. Lasting'
    BY <1>1, Zenon DEF Inv, Lasting, BackupHoldsNoKey, KnownKey, LiveKey, AnyCarries, Carries,
                       Restorable, AllCarry
<1>3. /\ files' \in [Files -> Content] /\ backup' \in Held
      /\ registered' \subseteq Keys /\ own' \in Owns
    BY Zenon DEF Inv, TypeOK, Held, Owns
<1> QED
    BY <1>2, <1>3, Moved, Zenon DEF Inv

LEMMA Quietly ==
    ASSUME OneClient, Inv, NEW p \in Procs, NEW m \in Local,
           proc' = [proc EXCEPT ![p] = m], Sound(m),
           UNCHANGED <<files, backup, registered, own, shape>>,
           op' \in Ops, route' \in Routes, minted' \in 0..MaxKeys,
           happened' \subseteq Troubles, happened \subseteq happened'
    PROVE  Inv'
<1>1. /\ Untouched' => Untouched
      /\ Readable' => Readable
      /\ Seeing' => Seeing
      /\ "edit" \notin happened' => "edit" \notin happened
    BY Worse
<1>2. Lasting'
    BY <1>1, Zenon DEF Inv, Lasting, BackupHoldsNoKey, KnownKey, LiveKey, AnyCarries, Carries,
                       Restorable, AllCarry
<1>3. Sound(m)'
    <2>1. Holding(m)'
        BY <1>1, Zenon DEF Sound, Holding, LiveKey, AnyCarries, Carries
    <2>2. Leaving(m)'
        BY <1>1, Zenon DEF Sound, Leaving, LiveKey, AnyCarries, Carries
    <2>3. Knowing(m)'
        BY <1>1, Zenon DEF Sound, Knowing, Restorable, AnyCarries, Carries
    <2>4. Owning(m)'
        BY <1>1, Zenon DEF Sound, Owning, AllCarry, Carries
    <2> QED
        BY <2>1, <2>2, <2>3, <2>4, Zenon DEF Sound
<1>4. /\ files' \in [Files -> Content] /\ backup' \in Held
      /\ registered' \subseteq Keys /\ own' \in Owns
    BY Zenon DEF Inv, TypeOK, Held, Owns
<1> QED
    BY <1>2, <1>3, <1>4, Moved, Zenon DEF Inv

(* A command that ends, fine or not, relies on nothing more.                 *)
LEMMA Ended ==
    ASSUME OneClient, Inv, NEW p \in Procs, NEW how \in Ends, End(p, how),
           UNCHANGED <<files, backup, registered, own, shape, route, minted>>, op' \in Ops,
           happened' \subseteq Troubles, happened \subseteq happened'
    PROVE  Inv'
<1>1. PICK m \in Local : proc' = [proc EXCEPT ![p] = m] /\ m.pc = "idle"
    BY EndMoves DEF Inv
<1>2. Sound(m)
    BY <1>1, Anywhere
<1>3. route' \in Routes /\ minted' \in 0..MaxKeys
    BY Zenon DEF Inv, TypeOK, Routes
<1> QED
    BY <1>1, <1>2, <1>3, Quietly

LEMMA StartOpKeeps == ASSUME OneClient, Inv, NEW p \in Procs, StartOp(p) PROVE Inv'
<1>1. /\ UNCHANGED <<files, backup, registered, own, shape, route, minted>> /\ At(p, "opening")
      /\ happened' \subseteq Troubles /\ happened \subseteq happened'
    BY Zenon DEF StartOp, Fine, Trouble, Fail, Inv, TypeOK
<1>2. CASE op' = [key |-> proc[p].key, applied |-> FALSE] /\ Goto(p, "reading")
    <2>1. PICK m \in Local : /\ proc' = [proc EXCEPT ![p] = m] /\ m.pc = "reading"
                             /\ m.key = proc[p].key /\ m.task = proc[p].task
        BY <1>2, GotoMoves DEF Inv, Steps
    <2>2. m.key \in registered /\ m.task # "disable"
        BY <1>1, <2>1 DEF Inv, Sound, Knowing, Leaving, Mine, At
    <2>3. Sound(m)
        BY <2>1, <2>2, SMT DEF Sound, Holding, Leaving, Knowing, Owning
    <2>4. op' \in Ops /\ route' \in Routes /\ minted' \in 0..MaxKeys
        BY <1>1, <1>2, <2>1, <2>2 DEF Inv, TypeOK, Ops, Routes
    <2> QED
        BY <1>1, <2>1, <2>3, <2>4, Quietly
<1>3. CASE End(p, "failed") /\ UNCHANGED op
    BY <1>1, <1>3, Ended DEF Inv, TypeOK, Ops, Ends
<1> QED
    BY <1>2, <1>3, Zenon DEF StartOp

LEMMA ReadKeeps == ASSUME OneClient, Inv, NEW p \in Procs, Read(p) PROVE Inv'
<1> PICK unread \in SUBSET Files :
        /\ Fail(IF unread = {} THEN {} ELSE {"misread"})
        /\ \/ proc' = [proc EXCEPT ![p].pc = "capturing", ![p].held = AsRead(unread)]
           \/ proc' = [proc EXCEPT ![p].pc = "undoing", ![p].end = "refused"]
    BY DEF Read
<1> DEFINE held == AsRead(unread)
<1>1. /\ UNCHANGED <<files, backup, registered, own, shape>> /\ proc[p].pc = "reading"
      /\ op' \in Ops /\ route' \in Routes /\ minted' \in 0..MaxKeys
    BY Zenon DEF Read, At, Inv, TypeOK, Ops, Routes
<1>2. /\ proc[p] \in Local /\ proc[p].key \in registered /\ proc[p].task # "disable"
      /\ files \in [Files -> Content]
    BY <1>1 DEF Inv, TypeOK, Sound, Knowing, Leaving, Mine
<1>5. /\ happened' \subseteq Troubles /\ happened \subseteq happened'
      /\ unread = {} \/ "misread" \in happened'
    BY Failing
<1>6. held \in [Files -> Content]
    <2>1. UserFile(0) \in Content
        BY BoundsAssumption DEF UserFile, Content, Versions
    <2> QED
        BY <1>2, <2>1 DEF AsRead
<1>7. Readable' => held = files'
    <2>1. unread = {} => held = files
        BY <1>2 DEF AsRead
    <2> QED
        BY <1>1, <1>5, <2>1 DEF Readable
<1> HIDE DEF held
<1>3. CASE proc' = [proc EXCEPT ![p].pc = "capturing", ![p].held = held]
    <2>1. PICK m \in Local :
              /\ proc' = [proc EXCEPT ![p] = m]
              /\ m.pc = "capturing" /\ m.key = proc[p].key /\ m.held = held
              /\ m.task = proc[p].task
        <3> DEFINE m == [proc[p] EXCEPT !.pc = "capturing", !.held = held]
        <3>1. proc' = [proc EXCEPT ![p] = m]
            BY <1>3 DEF Inv, TypeOK
        <3>2. /\ m \in Local /\ m.pc = "capturing" /\ m.key = proc[p].key /\ m.held = held
              /\ m.task = proc[p].task
            BY <1>2, <1>6 DEF Local, Steps
        <3> HIDE DEF m
        <3> QED
            BY <3>1, <3>2
    <2>2. /\ m.pc = "capturing" /\ m.key = proc[p].key /\ m.held = held
          /\ m.task = proc[p].task
        BY <2>1
    <2>3. m.key \in registered'
        <3>1. registered' = registered
            BY <1>1
        <3> QED
            BY <1>2, <2>2, <3>1
    <2>4. Holding(m)'
        BY <1>6, <1>7, <2>2, SMT DEF Holding
    <2>5. Leaving(m)' /\ Knowing(m)' /\ Owning(m)'
        BY <1>2, <2>2, <2>3, SMT DEF Leaving, Knowing, Owning
    <2> QED
        BY <1>1, <1>5, <2>1, <2>2, <2>4, <2>5, Settles DEF Sound
<1>4. CASE proc' = [proc EXCEPT ![p].pc = "undoing", ![p].end = "refused"]
    <2> DEFINE m == [proc[p] EXCEPT !.pc = "undoing", !.end = "refused"]
    <2>1. proc' = [proc EXCEPT ![p] = m]
        BY <1>4 DEF Inv, TypeOK
    <2>2. m \in Local /\ m.pc = "undoing" /\ m.task = proc[p].task
        BY <1>2 DEF Local, Steps, Ends
    <2> HIDE DEF m
    <2>3. Sound(m)
        BY <1>2, <2>2, Anywhere
    <2> QED
        BY <1>1, <1>5, <2>1, <2>2, <2>3, Quietly
<1> QED
    BY <1>3, <1>4 DEF held

(* What is the same after Goto.                                              *)
Same(m, l) ==
    /\ m.task = l.task /\ m.key = l.key
    /\ m.held = l.held /\ m.first = l.first /\ m.at = l.at

LEMMA Goes ==
    ASSUME OneClient, Inv, NEW p \in Procs, NEW step \in Steps, Goto(p, step),
           UNCHANGED <<files, backup, registered, own, shape, route, minted>>, op' \in Ops,
           happened' \subseteq Troubles, happened \subseteq happened',
           \A m \in Local : m.pc = step /\ Same(m, proc[p]) => Sound(m)
    PROVE  Inv'
<1>1. PICK m \in Local : proc' = [proc EXCEPT ![p] = m] /\ m.pc = step /\ Same(m, proc[p])
    BY GotoMoves DEF Inv, Same
<1>2. route' \in Routes /\ minted' \in 0..MaxKeys
    BY Zenon DEF Inv, TypeOK, Routes
<1> QED
    BY <1>1, <1>2, Quietly

LEMMA GoesSettled ==
    ASSUME OneClient, Inv, NEW p \in Procs, NEW step \in Steps, Goto(p, step),
           UNCHANGED <<files, backup, registered, own, shape, route, minted>>, op' \in Ops,
           happened' \subseteq Troubles, happened \subseteq happened',
           \A m \in Local : m.pc = step /\ Same(m, proc[p]) => Sound(m)'
    PROVE  Inv'
<1>1. PICK m \in Local : proc' = [proc EXCEPT ![p] = m] /\ m.pc = step /\ Same(m, proc[p])
    BY GotoMoves DEF Inv, Same
<1>2. route' \in Routes /\ minted' \in 0..MaxKeys
    BY Zenon DEF Inv, TypeOK, Routes
<1> QED
    BY <1>1, <1>2, Settles

LEMMA WriteFailsKeeps == ASSUME OneClient, Inv, NEW p \in Procs, WriteFails(p) PROVE Inv'
<1>1. /\ UNCHANGED <<files, backup, registered, own, shape>> /\ proc[p].pc = "writing"
      /\ op' \in Ops /\ route' \in Routes /\ minted' \in 0..MaxKeys
      /\ happened' \subseteq Troubles /\ happened \subseteq happened'
    BY Zenon DEF WriteFails, At, Trouble, Fail, Inv, TypeOK, Ops, Routes
<1>2. proc[p] \in Local /\ Sound(proc[p])
    BY DEF Inv, TypeOK
<1> DEFINE m == [proc[p] EXCEPT !.pc = "rolling", !.end = "failed", !.at = proc[p].at - 1]
<1>3. proc' = [proc EXCEPT ![p] = m]
    BY DEF WriteFails, Inv, TypeOK
<1>4. proc[p].at \in Files /\ proc[p].at - 1 \in 0..FileCount
    BY <1>1, <1>2, FilesAssumption DEF Sound, Holding, Files
<1>5. m \in Local
    BY <1>2, <1>4, Zenon DEF Local, Steps, Ends
<1>6. /\ m.pc = "rolling" /\ m.at = proc[p].at - 1 /\ m.held = proc[p].held
      /\ m.first = proc[p].first /\ m.task = proc[p].task
    BY <1>2 DEF Local
<1> HIDE DEF m
<1>7. Holding(m)
    BY <1>1, <1>2, <1>4, <1>6, SMT DEF Sound, Holding, Files
<1>8. Leaving(m) /\ Knowing(m) /\ Owning(m)
    BY <1>1, <1>2, <1>6, SMT DEF Sound, Leaving, Knowing, Owning, Mine
<1> QED
    BY <1>1, <1>3, <1>5, <1>7, <1>8, Quietly DEF Sound

LEMMA MarkKeeps == ASSUME OneClient, Inv, NEW p \in Procs, Mark(p) PROVE Inv'
<1>1. /\ UNCHANGED <<files, backup, registered, own, shape, route, minted>> /\ End(p, "done")
      /\ happened' \subseteq Troubles /\ happened \subseteq happened'
    BY Zenon DEF Mark, Fine, Trouble, Fail, Inv, TypeOK
<1>2. op' = op \/ (op # None /\ op' = [op EXCEPT !.applied = TRUE])
    BY Zenon DEF Mark
<1>3. op' \in Ops
    BY <1>2 DEF Inv, TypeOK, Ops
<1> QED
    BY <1>1, <1>3, Ended DEF Ends

(* The backup is about to go back.                                           *)
LEMMA BeginsRestore ==
    ASSUME OneClient, Inv, NEW p \in Procs, Restorable,
           proc' = [proc EXCEPT ![p].pc = "restoring", ![p].held = backup, ![p].at = 1],
           UNCHANGED <<files, backup, op, registered, own, shape, route, minted, happened>>
    PROVE  Inv'
<1>1. proc[p] \in Local /\ backup \in [Files -> Content] /\ 1 \in Files /\ 1 \in 0..FileCount
    BY FilesAssumption DEF Inv, TypeOK, Restorable, Files
<1> DEFINE m == [proc[p] EXCEPT !.pc = "restoring", !.held = backup, !.at = 1]
<1>2. proc' = [proc EXCEPT ![p] = m]
    BY DEF Inv, TypeOK
<1>3. m \in Local
    BY <1>1, Zenon DEF Local, Steps
<1>4. m.pc = "restoring" /\ m.held = backup /\ m.at = 1
    BY <1>1 DEF Local
<1> HIDE DEF m
<1>5. Holding(m) /\ Knowing(m)
    BY <1>1, <1>4, SMT DEF Holding, Knowing, Mine
<1>6. Leaving(m)
    <2>1. \A j \in Files : ~(j < 1)
        BY FilesAssumption DEF Files
    <2>2. ~AnyCarries(backup)
        BY DEF Restorable
    <2> QED
        BY <1>4, <2>1, <2>2, SMT DEF Leaving
<1>7. Owning(m)
    BY <1>4, SMT DEF Owning, Inv, Lasting, Restorable
<1>8. op' \in Ops /\ route' \in Routes /\ minted' \in 0..MaxKeys
    BY Zenon DEF Inv, TypeOK, Ops, Routes
<1> QED
    BY <1>2, <1>3, <1>5, <1>6, <1>7, <1>8, Quietly DEF Sound, Inv, TypeOK

LEMMA UndoKeeps == ASSUME OneClient, Inv, NEW p \in Procs, Undo(p) PROVE Inv'
<1>1. /\ UNCHANGED <<files, backup, op, registered, own, shape, route, minted>>
      /\ proc[p].pc = "undoing" /\ op' \in Ops
      /\ happened' \subseteq Troubles /\ happened \subseteq happened'
    BY Zenon DEF Undo, At, Fine, Trouble, Fail, Inv, TypeOK, Ops
<1>2. CASE Restorable /\ Fine /\ proc' = [proc EXCEPT ![p].pc = "restoring",
                                                 ![p].held = backup, ![p].at = 1]
    BY <1>1, <1>2, BeginsRestore, Zenon DEF Fine
<1>3. CASE ((~Restorable /\ Fine) \/ Trouble("load")) /\ Goto(p, "revoking")
    <2>1. Untouched' => ~Restorable
        BY <1>3 DEF Trouble, Fail, Untouched
    <2>2. Untouched' => ~LiveKey'
        <3>1. LiveKey' = LiveKey
            BY <1>1, Zenon DEF LiveKey, AnyCarries, Carries
        <3> QED
            BY <1>1, <2>1, <3>1, Worse DEF Inv, Lasting
    <2>3. proc[p].task # "disable"
        BY <1>1 DEF Inv, Sound, Leaving
    <2>4. \A m \in Local : m.pc = "revoking" /\ m.task # "disable" => Sound(m)'
        BY <2>2, SMT DEF Sound, Holding, Leaving, Knowing, Owning, Mine
    <2>5. "revoking" \in Steps
        BY DEF Steps
    <2>6. \A m \in Local : m.pc = "revoking" /\ Same(m, proc[p]) => Sound(m)'
        BY <2>3, <2>4, Zenon DEF Same
    <2> QED
        BY <1>1, <1>3, <2>5, <2>6, GoesSettled
<1> QED
    BY <1>2, <1>3 DEF Undo

(* A call that puts something back fails: nothing is promised from here on.  *)
LEMMA NoLonger ==
    ASSUME Inv, UNCHANGED backup, happened \subseteq happened', ~Untouched'
    PROVE  Lasting'
BY Zenon DEF Inv, Lasting, BackupHoldsNoKey, KnownKey, Untouched, AnyCarries, Carries

LEMMA Slipped ==
    ASSUME OneClient, Inv, NEW p \in Procs, NEW m \in Local, proc' = [proc EXCEPT ![p] = m],
           UNCHANGED <<files, backup, op, registered, own, shape, route, minted>>,
           happened' \subseteq Troubles, happened \subseteq happened', ~Untouched', Sound(m)'
    PROVE  Inv'
<1>1. Lasting'
    BY NoLonger
<1>2. /\ files' \in [Files -> Content] /\ backup' \in Held /\ op' \in Ops
      /\ registered' \subseteq Keys /\ route' \in Routes /\ minted' \in 0..MaxKeys /\ own' \in Owns
    BY Zenon DEF Inv, TypeOK, Ops, Routes, Owns, Held
<1> QED
    BY <1>1, <1>2, Moved DEF Inv

LEMMA RestoreFailsKeeps == ASSUME OneClient, Inv, NEW p \in Procs, RestoreFails(p) PROVE Inv'
<1>1. /\ UNCHANGED <<files, backup, op, registered, own, shape, route, minted>>
      /\ happened' \subseteq Troubles /\ happened \subseteq happened' /\ "putback" \in happened'
    BY Zenon DEF RestoreFails, Trouble, Fail, Inv, TypeOK
<1>2. CASE End(p, "failed")
    BY <1>1, <1>2, Ended DEF Ends, Inv, TypeOK, Ops
<1>3. CASE proc[p].task # "disable" /\ Goto(p, "revoking")
    <2>1. PICK m \in Local : /\ proc' = [proc EXCEPT ![p] = m] /\ m.pc = "revoking"
                             /\ m.task # "disable"
        BY <1>3, GotoMoves DEF Inv, Steps
    <2>2. ~Untouched'
        BY <1>1 DEF Untouched
    <2>3. Sound(m)'
        BY <2>1, <2>2, SMT DEF Sound, Holding, Leaving, Knowing, Owning, Mine
    <2> QED
        BY <1>1, <2>1, <2>2, <2>3, Slipped
<1> QED
    BY <1>2, <1>3 DEF RestoreFails

LEMMA ClearOpKeeps == ASSUME OneClient, Inv, NEW p \in Procs, ClearOp(p) PROVE Inv'
<1>1. /\ UNCHANGED <<files, backup, registered, own, shape, route, minted>>
      /\ happened' \subseteq Troubles /\ happened \subseteq happened' /\ op' \in Ops
    BY Zenon DEF ClearOp, Fine, Trouble, Fail, Inv, TypeOK, Ops
<1>2. PICK how \in Ends : End(p, how)
    <2>1. proc[p].end \in Ends /\ "done" \in Ends
        BY DEF Inv, TypeOK, Local, Ends
    <2> QED
        BY <2>1 DEF ClearOp
<1> QED
    BY <1>1, <1>2, Ended

LEMMA LookKeeps == ASSUME OneClient, Inv, NEW p \in Procs, Look(p) PROVE Inv'
<1>1. /\ UNCHANGED <<files, backup, op, registered, own, shape, route, minted>>
      /\ proc[p].pc = "looking" /\ op' \in Ops
    BY Zenon DEF Look, At, Inv, TypeOK, Ops
<1>2. proc[p] \in Local /\ Sound(proc[p]) /\ (Untouched => ~LiveKey)
    BY <1>1 DEF Inv, TypeOK, Sound, Leaving
<1>3. PICK seen \in Sightings :
          /\ Fail(Missed(seen, "overlook"))
          /\ \/ ~seen /\ Goto(p, "tearing")
             \/ seen /\ \E place \in {"rebuilding", "stripping"} :
                    proc' = [proc EXCEPT ![p].pc = place, ![p].at = 1]
    BY Zenon DEF Look
<1>4. /\ happened' \subseteq Troubles /\ happened \subseteq happened'
      /\ seen => LiveKey
      /\ Seeing' /\ ~seen => ~LiveKey
    BY <1>3, Failing, Sighted DEF Seeing
<1>5. LiveKey' = LiveKey
    BY <1>1, Zenon DEF LiveKey, AnyCarries, Carries
<1>6. CASE ~seen /\ Goto(p, "tearing")
    <2>1. \A m \in Local : m.pc = "tearing" => Sound(m)'
        BY <1>4, <1>5, <1>6, SMT DEF Sound, Holding, Leaving, Knowing, Owning, Mine
    <2>2. "tearing" \in Steps
        BY DEF Steps
    <2> QED
        BY <1>1, <1>4, <1>6, <2>1, <2>2, GoesSettled
<1>7. CASE seen /\ \E place \in {"rebuilding", "stripping"} :
                 proc' = [proc EXCEPT ![p].pc = place, ![p].at = 1]
    <2>1. PICK place \in {"rebuilding", "stripping"} :
              proc' = [proc EXCEPT ![p].pc = place, ![p].at = 1]
        BY <1>7
    <2> DEFINE m == [proc[p] EXCEPT !.pc = place, !.at = 1]
    <2>2. proc' = [proc EXCEPT ![p] = m]
        BY <2>1 DEF Inv, TypeOK
    <2>3. 1 \in Files /\ 1 \in 0..FileCount /\ \A j \in Files : ~(j < 1)
        BY FilesAssumption DEF Files
    <2>4. m \in Local
        BY <1>2, <2>3, Zenon DEF Local, Steps
    <2>5. m.pc = place /\ m.at = 1
        BY <1>2 DEF Local
    <2> HIDE DEF m
    <2>6. LiveKey
        BY <1>4, <1>7
    <2>7. Sound(m)
        BY <1>2, <2>3, <2>5, <2>6, SMT DEF Sound, Holding, Leaving, Knowing, Owning, Mine
    <2>8. route' \in Routes /\ minted' \in 0..MaxKeys
        BY <1>1, Zenon DEF Inv, TypeOK, Routes
    <2> QED
        BY <1>1, <1>4, <2>2, <2>4, <2>7, <2>8, Quietly
<1> QED
    BY <1>3, <1>6, <1>7

(* A command starts over, or its process dies.                               *)
LEMMA Resets ==
    ASSUME OneClient, Inv, NEW p \in Procs, NEW m \in Local, proc' = [proc EXCEPT ![p] = m],
           m.pc \in {"idle", "vetting", "judging"}, m.pc = "judging" => m.task # "disable",
           UNCHANGED <<files, backup, op, registered, own, shape, route, minted>>,
           happened' \subseteq Troubles, happened \subseteq happened'
    PROVE  Inv'
<1>1. Sound(m)
    BY Anywhere
<1>2. op' \in Ops /\ route' \in Routes /\ minted' \in 0..MaxKeys
    BY Zenon DEF Inv, TypeOK, Ops, Routes
<1> QED
    BY <1>1, <1>2, Quietly

LEMMA RestTyped == Rest \in Local /\ Rest.pc = "idle"
<1>1. 0 \in 0..FileCount /\ "idle" \in Steps /\ "none" \in Tasks /\ "none" \in Ends
    BY FilesAssumption DEF Steps, Tasks, Ends
<1> QED
    BY <1>1, Zenon DEF Rest, Local

LEMMA CrashKeeps == ASSUME OneClient, Inv, NEW p \in Procs, Crash(p) PROVE Inv'
<1>1. happened' \subseteq Troubles /\ happened \subseteq happened'
    BY Zenon DEF Crash, Inv, TypeOK
<1> QED
    BY <1>1, RestTyped, Resets, Zenon DEF Crash

LEMMA DisableKeeps == ASSUME OneClient, Inv, NEW p \in Procs, Disable(p) PROVE Inv'
<1>1. /\ UNCHANGED <<files, backup, op, registered, own, shape, route, minted>>
      /\ happened' \subseteq Troubles /\ happened \subseteq happened'
    BY Zenon DEF Disable, Fine, Trouble, Fail, Inv, TypeOK
<1>2. route \in {"none", "own", "imported"}
    BY DEF Inv, TypeOK
<1>3. CASE proc' = [proc EXCEPT ![p] = [Rest EXCEPT !.pc = "vetting", !.task = "disable",
                                                    !.had = route]]
    <2> DEFINE m == [Rest EXCEPT !.pc = "vetting", !.task = "disable", !.had = route]
    <2>1. "vetting" \in Steps /\ "disable" \in Tasks
        BY DEF Steps, Tasks
    <2>2. m \in Local /\ m.pc = "vetting"
        BY <1>2, <2>1, RestTyped DEF Local
    <2> HIDE DEF m
    <2>3. proc' = [proc EXCEPT ![p] = m]
        BY <1>3 DEF m
    <2> QED
        BY <1>1, <2>2, <2>3, Resets
<1>4. CASE proc' = [proc EXCEPT ![p] = [Rest EXCEPT !.task = "disable", !.end = "failed"]]
    <2> DEFINE m == [Rest EXCEPT !.task = "disable", !.end = "failed"]
    <2>1. "failed" \in Ends /\ "disable" \in Tasks
        BY DEF Ends, Tasks
    <2>2. m \in Local /\ m.pc = "idle"
        BY <2>1, RestTyped DEF Local
    <2> HIDE DEF m
    <2>3. proc' = [proc EXCEPT ![p] = m]
        BY <1>4 DEF m
    <2> QED
        BY <1>1, <2>2, <2>3, Resets
<1> QED
    BY <1>3, <1>4 DEF Disable

LEMMA ReconcileKeeps == ASSUME OneClient, Inv, NEW p \in Procs, Reconcile(p) PROVE Inv'
<1>1. /\ UNCHANGED <<files, backup, op, registered, own, shape, route, minted, happened>>
      /\ happened' \subseteq Troubles /\ happened \subseteq happened'
    BY Zenon DEF Reconcile, Inv, TypeOK
<1>2. route \in {"none", "own", "imported"} /\ op.key \in Keys /\ op.applied \in BOOLEAN
    BY DEF Reconcile, Inv, TypeOK
<1> DEFINE m == [Rest EXCEPT !.pc = "judging", !.task = "reconcile", !.key = op.key,
                             !.first = op.applied, !.had = route]
<1>3. "judging" \in Steps /\ "reconcile" \in Tasks
    BY DEF Steps, Tasks
<1>4. m \in Local /\ m.pc = "judging" /\ m.task = "reconcile"
    BY <1>2, <1>3, RestTyped DEF Local
<1> HIDE DEF m
<1>5. proc' = [proc EXCEPT ![p] = m]
    BY DEF m, Reconcile
<1> QED
    BY <1>1, <1>4, <1>5, Resets

LEMMA JudgeKeeps == ASSUME OneClient, Inv, NEW p \in Procs, Judge(p) PROVE Inv'
<1>1. /\ UNCHANGED <<files, backup, op, registered, own, shape, route, minted>>
      /\ op' \in Ops /\ proc[p].pc = "judging"
    BY Zenon DEF Judge, At, Inv, TypeOK, Ops
<1>2. PICK seen \in Sightings :
          /\ Fail(Missed(seen, "overlook"))
          /\ \/ End(p, "done") \/ (~seen /\ Goto(p, "revoking"))
             \/ Goto(p, "marking") \/ Goto(p, "asking")
    BY DEF Judge
<1>3. /\ happened' \subseteq Troubles /\ happened \subseteq happened'
      /\ Seeing' /\ ~seen => ~LiveKey
    BY <1>2, Failing, Sighted DEF Seeing
<1>4. proc[p].task # "disable"
    BY <1>1 DEF Inv, Sound, Leaving
<1> USE DEF Same
<1>5. CASE End(p, "done")
    BY <1>1, <1>3, <1>5, Ended DEF Ends
<1>6. CASE ~seen /\ Goto(p, "revoking")
    <2>1. LiveKey' = LiveKey
        BY <1>1, Zenon DEF LiveKey, AnyCarries, Carries
    <2>2. \A m \in Local : m.pc = "revoking" /\ m.task # "disable" => Sound(m)'
        BY <1>3, <1>6, <2>1, SMT DEF Sound, Holding, Leaving, Knowing, Owning, Mine
    <2>3. "revoking" \in Steps
        BY DEF Steps
    <2>4. \A m \in Local : m.pc = "revoking" /\ Same(m, proc[p]) => Sound(m)'
        BY <1>4, <2>2, Zenon DEF Same
    <2> QED
        BY <1>1, <1>3, <1>6, <2>3, <2>4, GoesSettled
<1>7. CASE Goto(p, "marking")
    BY <1>1, <1>3, <1>7, Goes, Anywhere DEF Steps
<1>8. CASE Goto(p, "asking")
    BY <1>1, <1>3, <1>4, <1>8, Goes, Anywhere DEF Steps
<1> QED
    BY <1>2, <1>5, <1>6, <1>7, <1>8

LEMMA AskKeeps == ASSUME OneClient, Inv, NEW p \in Procs, Ask(p) PROVE Inv'
<1>1. /\ UNCHANGED <<files, backup, op, registered, own, shape, route, minted>>
      /\ op' \in Ops /\ happened' \subseteq Troubles /\ happened \subseteq happened'
    BY Zenon DEF Ask, Fine, Trouble, Fail, Inv, TypeOK, Ops
<1>2. CASE End(p, "failed")
    BY <1>1, <1>2, Ended DEF Ends
<1> USE DEF Same
<1>5. proc[p].task # "disable"
    BY DEF Ask, At, Inv, Sound, Leaving
<1>3. CASE Goto(p, "undoing")
    BY <1>1, <1>3, <1>5, Goes, Anywhere DEF Steps
<1>4. CASE registered = {} /\ Goto(p, "clearing")
    <2>1. \A m \in Local : m.pc = "clearing" /\ m.task # "disable" => Sound(m)
        BY SMT DEF Sound, Holding, Leaving, Knowing, Owning, Mine
    <2> QED
        BY <1>1, <1>4, <1>5, <2>1, Goes DEF Steps
<1> QED
    BY <1>2, <1>3, <1>4 DEF Ask

(* A step that changes the backup too.                                       *)
LEMMA Swapped ==
    ASSUME OneClient, Inv, NEW p \in Procs, NEW m \in Local,
           proc' = [proc EXCEPT ![p] = m], Sound(m)', Lasting', backup' \in Held,
           UNCHANGED <<files, op, registered, own, shape, route, minted>>,
           happened' \subseteq Troubles
    PROVE  Inv'
<1>1. /\ files' \in [Files -> Content] /\ op' \in Ops /\ registered' \subseteq Keys
      /\ route' \in Routes /\ minted' \in 0..MaxKeys /\ own' \in Owns
    BY Zenon DEF Inv, TypeOK, Ops, Routes, Owns
<1> QED
    BY <1>1, Moved DEF Inv

(* Files none of which carries a key are the user's.                         *)
LEMMA CleanAreOwn ==
    ASSUME Inv, Untouched, AllCarry, ~LiveKey
    PROVE  files = own
<1>1. files \in [Files -> Content] /\ own \in [Files -> {UserFile(v) : v \in Versions}]
    BY DEF Inv, TypeOK
<1>2. \A i \in Files : files[i] = own[i]
    BY DEF Inv, Lasting, LiveKey, AnyCarries
<1> QED
    BY <1>1, <1>2

LEMMA CaptureKeeps == ASSUME OneClient, Inv, NEW p \in Procs, Capture(p) PROVE Inv'
<1>1. /\ UNCHANGED <<files, op, registered, own, shape, route, minted>>
      /\ proc[p].pc = "capturing" /\ op' \in Ops /\ route' \in Routes /\ minted' \in 0..MaxKeys
    BY Zenon DEF Capture, At, Inv, TypeOK, Ops, Routes
<1>2. /\ proc[p] \in Local /\ proc[p].key \in registered /\ proc[p].task # "disable"
      /\ proc[p].held \in [Files -> Content]
      /\ Readable /\ "edit" \notin happened => proc[p].held = files
    BY <1>1 DEF Inv, TypeOK, Sound, Knowing, Leaving, Holding, Mine
<1>3. PICK seen \in Sightings :
          \/ /\ Fail(Missed(seen, "misread"))
             /\ backup' = IF seen THEN backup ELSE proc[p].held
             /\ proc' = [proc EXCEPT ![p].pc = "writing", ![p].first = ~seen, ![p].at = 1]
          \/ /\ Fail(Missed(seen, "misread") \cup {"row"})
             /\ proc' = [proc EXCEPT ![p].pc = "undoing", ![p].end = "failed"]
             /\ UNCHANGED backup
    BY Zenon DEF Capture
<1>4. /\ happened' \subseteq Troubles /\ happened \subseteq happened'
      /\ Missed(seen, "misread") \subseteq happened'
    BY <1>3, Failing
<1>5. /\ seen \in BOOLEAN /\ (seen => LiveKey)
      /\ Readable' /\ ~seen => ~LiveKey
    BY <1>4, Sighted DEF Readable
<1>6. /\ Untouched' => Untouched
      /\ Readable' => Readable
      /\ Untouched' => Readable'
      /\ Seeing' => Seeing
      /\ "edit" \notin happened' => "edit" \notin happened
      /\ Untouched => Readable /\ "edit" \notin happened
    BY <1>4, Worse, Clear
<1>7. CASE proc' = [proc EXCEPT ![p].pc = "undoing", ![p].end = "failed"] /\ UNCHANGED backup
    <2> DEFINE m == [proc[p] EXCEPT !.pc = "undoing", !.end = "failed"]
    <2>1. proc' = [proc EXCEPT ![p] = m]
        BY <1>7 DEF Inv, TypeOK
    <2>2. m \in Local /\ m.pc = "undoing" /\ m.task = proc[p].task
        BY <1>2 DEF Local, Steps, Ends
    <2> HIDE DEF m
    <2>3. Sound(m)
        BY <1>2, <2>2, Anywhere
    <2> QED
        BY <1>1, <1>4, <1>7, <2>1, <2>2, <2>3, Quietly
<1>8. CASE /\ backup' = IF seen THEN backup ELSE proc[p].held
           /\ proc' = [proc EXCEPT ![p].pc = "writing", ![p].first = ~seen, ![p].at = 1]
    <2>2. 1 \in Files /\ 1 \in 0..FileCount /\ "writing" \in Steps /\ (~seen) \in BOOLEAN
        BY FilesAssumption DEF Files, Steps
    <2>1. PICK m \in Local :
              /\ proc' = [proc EXCEPT ![p] = m]
              /\ m.pc = "writing" /\ m.at = 1 /\ m.first = (~seen) /\ m.held = proc[p].held
              /\ m.key = proc[p].key /\ m.task = proc[p].task
        <3> DEFINE m == [proc[p] EXCEPT !.pc = "writing", !.first = ~seen, !.at = 1]
        <3>1. proc' = [proc EXCEPT ![p] = m]
            BY <1>8 DEF Inv, TypeOK
        <3>2. /\ m \in Local
              /\ m.pc = "writing" /\ m.at = 1 /\ m.first = (~seen) /\ m.held = proc[p].held
              /\ m.key = proc[p].key /\ m.task = proc[p].task
            BY <1>2, <2>2, Zenon DEF Local
        <3> HIDE DEF m
        <3> QED
            BY <3>1, <3>2
    <2>6. CASE seen
        <3>1. UNCHANGED backup
            BY <1>8, <2>6
        <3>2. Untouched => Restorable
            BY <1>5, <2>6 DEF Inv, Lasting
        <3>3. Untouched /\ Seeing =>
                  \A i \in Files : Carries(files[i]) => files[i].key \in registered
            BY DEF Inv, Lasting, KnownKey, Seeing
        <3>4. Holding(m)
            BY <1>2, <1>6, <2>2, <2>1, SMT DEF Holding
        <3>5. Knowing(m)
            <4>1. Untouched => m.held = files
                BY <1>2, <1>6, <2>1
            <4>2. Untouched /\ Seeing => \A i \in Files :
                      Carries(m.held[i]) => m.held[i].key \in registered
                BY <3>3, <4>1
            <4>3. ~m.first
                BY <2>1, <2>6, Zenon
            <4>4. m.key \in registered
                BY <1>2, <2>1
            <4> QED
                BY <2>1, <3>2, <4>2, <4>3, <4>4, Zenon DEF Knowing
        <3>6. Leaving(m)
            BY <1>2, <2>1, SMT DEF Leaving
        <3>7. Owning(m)
            BY <1>2, <1>6, <2>1, SMT DEF Owning, Inv, Lasting
        <3> QED
            BY <1>1, <1>4, <2>1, <3>1, <3>4, <3>5, <3>6, <3>7, Quietly DEF Sound
    <2>7. CASE ~seen
        <3>1. backup' = proc[p].held
            BY <1>8, <2>7
        <3>2. backup' # None
            BY <1>2, <3>1, NoneAssumption
        <3>3. Readable' /\ "edit" \notin happened' => ~AnyCarries(backup') /\ backup' = files
            BY <1>2, <1>5, <1>6, <2>7, <3>1 DEF LiveKey
        <3>4. Untouched' => Readable' /\ "edit" \notin happened' /\ ~LiveKey
            BY <1>5, <1>6, <2>7, Zenon DEF Untouched
        <3>5. /\ AllCarry' = AllCarry /\ LiveKey' = LiveKey
              /\ files' = files /\ own' = own /\ registered' = registered
            BY <1>1, Zenon DEF AllCarry, LiveKey, AnyCarries, Carries
        <3>6. AnyCarries(backup)' = AnyCarries(backup')
            BY Zenon DEF AnyCarries, Carries
        <3>16. Untouched' /\ AllCarry => backup' = own
            BY <1>6, <3>3, <3>4, CleanAreOwn
        <3>7. Lasting'
            <4>1. BackupHoldsNoKey'
                BY <3>3, <3>6, Zenon DEF BackupHoldsNoKey, Readable
            <4>2. KnownKey'
                BY <1>6, <3>5, Zenon DEF Inv, Lasting, KnownKey, Carries, Seeing
            <4>6. Untouched' => ~LiveKey'
                BY <3>4, <3>5
            <4>3. Untouched' /\ AllCarry' => backup' = own'
                BY <3>16, <3>5
            <4>4. Untouched /\ AllCarry => \A i \in Files : Carries(files[i]) \/ files[i] = own[i]
                BY DEF Inv, Lasting
            <4>5. Untouched' /\ AllCarry' =>
                      \A i \in Files : Carries(files'[i]) \/ files'[i] = own'[i]
                BY <1>6, <3>5, <4>4, Zenon
            <4> QED
                BY <4>1, <4>2, <4>3, <4>5, <4>6, Zenon DEF Lasting, Carries
        <3>8. Untouched' => Restorable'
            BY <3>2, <3>3, <3>4, <3>6, Zenon DEF Restorable
        <3>9. Untouched' => ~AnyCarries(m.held) /\ m.held = files
            BY <2>1, <3>1, <3>3, <3>4
        <3>10. Holding(m)'
            BY <1>2, <2>2, <2>1, <3>5, <3>9, SMT DEF Holding
        <3>11. Leaving(m)'
            BY <1>2, <2>1, <3>5, SMT DEF Leaving
        <3>12. Knowing(m)'
            <4>1. Untouched' => \A i \in Files : ~Carries(m.held[i])
                BY <3>9 DEF AnyCarries
            <4> QED
                BY <1>2, <2>1, <3>5, <3>8, <3>9, <4>1, SMT DEF Knowing, Mine
        <3>13. Owning(m)'
            BY <2>1, <3>1, <3>5, <3>16, SMT DEF Owning
        <3>14. Sound(m)'
            BY <3>10, <3>11, <3>12, <3>13, Zenon DEF Sound
        <3>15. backup' \in Held
            BY <1>2, <3>1 DEF Held
        <3> QED
            BY <1>1, <1>4, <2>1, <3>7, <3>14, <3>15, Swapped
    <2> QED
        BY <1>5, <2>6, <2>7
<1> QED
    BY <1>3, <1>7, <1>8

(* The backup may go once there is no route of ours it would be needed for.  *)
LEMMA Unbacked ==
    ASSUME Inv, backup' = None, UNCHANGED <<files, registered, own, shape>>,
           happened \subseteq happened', Untouched' => ~LiveKey
    PROVE  Lasting'
<1>1. (Untouched' => Untouched) /\ LiveKey' = LiveKey /\ AllCarry' = AllCarry
    BY Worse, Zenon DEF LiveKey, AnyCarries, Carries, AllCarry
<1>2. BackupHoldsNoKey'
    BY Zenon DEF BackupHoldsNoKey
<1>3. KnownKey'
    BY <1>1, Zenon DEF Inv, Lasting, KnownKey, Carries
<1>4. Untouched' /\ AllCarry' =>
          /\ (backup # None => backup = own)'
          /\ (\A i \in Files : Carries(files[i]) \/ files[i] = own[i])'
    BY <1>1, Zenon DEF Inv, Lasting, Carries
<1> QED
    BY <1>1, <1>2, <1>3, <1>4, Zenon DEF Lasting

(* Places that say of the files no more than that our route is not in them.  *)
LEMMA CleanPlace ==
    ASSUME NEW m, m.pc \in {"undoing", "tearing", "revoking", "looking"}, UNCHANGED files,
           m.task = "disable" => m.pc \in {"tearing", "looking"},
           Seeing' /\ m.pc = "tearing" => ~LiveKey,
           Untouched' /\ m.pc = "looking" => ~LiveKey,
           Untouched' /\ Seeing' /\ m.pc = "revoking" => ~LiveKey
    PROVE  Sound(m)'
<1>1. LiveKey' = LiveKey
    BY Zenon DEF LiveKey, AnyCarries, Carries
<1>2. Holding(m)' /\ Knowing(m)' /\ Owning(m)'
    BY SMT DEF Holding, Knowing, Owning, Mine
<1>3. Leaving(m)'
    BY <1>1, SMT DEF Leaving
<1> QED
    BY <1>2, <1>3, Zenon DEF Sound

LEMMA UncaptureKeeps == ASSUME OneClient, Inv, NEW p \in Procs, Uncapture(p) PROVE Inv'
<1>1. /\ UNCHANGED <<files, op, registered, own, shape, route, minted>> /\ op' \in Ops
      /\ proc[p].pc = "uncapturing" /\ Goto(p, "undoing")
      /\ happened' \subseteq Troubles /\ happened \subseteq happened'
      /\ backup' = backup \/ (backup' = None /\ proc[p].first /\ UNCHANGED happened)
    BY Zenon DEF Uncapture, At, Fine, Trouble, Fail, Inv, TypeOK, Ops
<1>2. PICK m \in Local : /\ proc' = [proc EXCEPT ![p] = m] /\ m.pc = "undoing"
                         /\ m.task = proc[p].task
    BY <1>1, GotoMoves DEF Inv, Steps
<1>3. m.task # "disable" /\ (Untouched /\ proc[p].first => ~LiveKey)
    BY <1>1, <1>2 DEF Inv, Sound, Leaving, Holding
<1>4. CASE backup' = backup
    <2>1. Sound(m)
        BY <1>2, <1>3, Anywhere
    <2>2. route' \in Routes /\ minted' \in 0..MaxKeys
        BY <1>1, Zenon DEF Inv, TypeOK, Routes
    <2> QED
        BY <1>1, <1>2, <1>4, <2>1, <2>2, Quietly
<1>5. CASE backup' = None /\ proc[p].first /\ UNCHANGED happened
    <2>1. Lasting'
        BY <1>1, <1>3, <1>5, Unbacked, Zenon DEF Untouched
    <2>2. Sound(m)'
        BY <1>1, <1>2, <1>3, CleanPlace
    <2> QED
        BY <1>1, <1>2, <1>5, <2>1, <2>2, Swapped DEF Held
<1> QED
    BY <1>1, <1>4, <1>5

LEMMA DropBackupKeeps == ASSUME OneClient, Inv, NEW p \in Procs, DropBackup(p) PROVE Inv'
<1>1. /\ UNCHANGED <<files, op, registered, own, shape, route, minted>> /\ op' \in Ops
      /\ proc[p].pc = "dropping"
      /\ Goto(p, IF proc[p].task = "disable" THEN "tearing" ELSE "revoking")
      /\ happened' \subseteq Troubles /\ happened \subseteq happened'
      /\ backup' = backup \/ backup' = None
    BY Zenon DEF DropBackup, At, Fine, Trouble, Fail, Inv, TypeOK, Ops
<1>2. PICK m \in Local : /\ proc' = [proc EXCEPT ![p] = m] /\ m.task = proc[p].task
                         /\ m.pc = IF proc[p].task = "disable" THEN "tearing" ELSE "revoking"
    <2>1. (IF proc[p].task = "disable" THEN "tearing" ELSE "revoking") \in Steps
        BY DEF Steps
    <2> QED
        BY <1>1, <2>1, GotoMoves DEF Inv
<1>3. /\ Seeing' => ~LiveKey
      /\ Untouched' => ~LiveKey
    BY <1>1, Worse DEF Inv, Sound, Leaving
<1>4. Sound(m)'
    BY <1>1, <1>2, <1>3, CleanPlace
<1>5. CASE backup' = None
    <2>1. Lasting'
        BY <1>1, <1>3, <1>5, Unbacked
    <2> QED
        BY <1>1, <1>2, <1>4, <1>5, <2>1, Swapped DEF Held
<1>6. CASE backup' = backup
    <2>1. route' \in Routes /\ minted' \in 0..MaxKeys
        BY <1>1, Zenon DEF Inv, TypeOK, Routes
    <2> QED
        BY <1>1, <1>2, <1>4, <1>6, <2>1, Settles
<1> QED
    BY <1>1, <1>5, <1>6

LEMMA VetKeeps == ASSUME OneClient, Inv, NEW p \in Procs, Vet(p) PROVE Inv'
<1>1. /\ UNCHANGED <<files, op, registered, own, shape, route, minted>> /\ op' \in Ops
      /\ happened' \subseteq Troubles /\ happened \subseteq happened'
    BY Zenon DEF Vet, Fine, Trouble, Fail, Inv, TypeOK, Ops
<1>2. CASE /\ Restorable /\ Fine /\ UNCHANGED backup
           /\ proc' = [proc EXCEPT ![p].pc = "restoring", ![p].held = backup, ![p].at = 1]
    BY <1>1, <1>2, BeginsRestore, Zenon DEF Fine
<1>3. CASE /\ ~Restorable \/ Trouble("load")
           /\ Goto(p, "looking") /\ (backup' = backup \/ (~Restorable /\ backup' = None))
    <2>1. PICK m \in Local : proc' = [proc EXCEPT ![p] = m] /\ m.pc = "looking"
        BY <1>3, GotoMoves DEF Inv, Steps
    <2>2. Untouched' => ~Restorable
        BY <1>3 DEF Trouble, Fail, Untouched
    <2>3. Untouched' => ~LiveKey
        BY <1>1, <2>2, Worse DEF Inv, Lasting
    <2>4. Sound(m)'
        BY <1>1, <2>1, <2>3, CleanPlace
    <2>5. CASE backup' = None
        <3>1. Lasting'
            BY <1>1, <2>3, <2>5, Unbacked
        <3> QED
            BY <1>1, <2>1, <2>4, <2>5, <3>1, Swapped DEF Held
    <2>6. CASE backup' = backup
        <3>1. route' \in Routes /\ minted' \in 0..MaxKeys
            BY <1>1, Zenon DEF Inv, TypeOK, Routes
        <3> QED
            BY <1>1, <2>1, <2>4, <2>6, <3>1, Settles
    <2> QED
        BY <1>3, <2>5, <2>6
<1> QED
    BY <1>2, <1>3, Zenon DEF Vet

(* What happens around the commands: nothing is untouched any more.          *)
LEMMA Disturbed ==
    ASSUME Inv, UNCHANGED <<proc, shape, op, registered, route, minted>>,
           files' \in [Files -> Content], own' \in Owns, backup' \in Held,
           happened \subseteq happened', happened' \subseteq Troubles, ~Untouched', Lasting',
           files' = files \/ ("edit" \in happened' /\ ~LiveKey')
    PROVE  Inv'
<1>1. TypeOK'
    BY Zenon DEF Inv, TypeOK, Held, Owns
<1>2. ASSUME NEW q \in Procs PROVE Sound(proc[q])'
    <2>1. Sound(proc[q]) /\ proc'[q] = proc[q] /\ (LiveKey' => LiveKey)
        BY Zenon DEF Inv, LiveKey, AnyCarries, Carries
    <2>5. (Readable' => Readable) /\ (Seeing' => Seeing) /\ ("edit" \notin happened' => "edit" \notin happened)
        BY Worse
    <2>2. Holding(proc[q])'
        BY <2>1, <2>5, SMT DEF Sound, Holding
    <2>3. Leaving(proc[q])'
        <3>1. \A j \in Files : Carries(files'[j]) => Carries(files[j])
            BY Zenon DEF LiveKey, AnyCarries, Carries
        <3>2. \A j \in Files : Carries(files[j])' = Carries(files'[j])
            BY Zenon DEF Carries
        <3>3. AnyCarries(proc[q].held)' = AnyCarries(proc[q].held)
            BY Zenon DEF AnyCarries, Carries
        <3> QED
            BY <2>1, <2>5, <3>1, <3>2, <3>3, SMT DEF Sound, Leaving
    <2>4. Knowing(proc[q])' /\ Owning(proc[q])'
        BY <2>1, Zenon DEF Sound, Knowing, Owning
    <2> QED
        BY <2>2, <2>3, <2>4, Zenon DEF Sound
<1> QED
    BY <1>1, <1>2, Zenon DEF Inv

LEMMA LoseBackupKeeps == ASSUME OneClient, Inv, LoseBackup PROVE Inv'
<1>1. /\ UNCHANGED <<files, op, registered, route, minted, proc, own, shape>> /\ backup' = None
      /\ happened' \subseteq Troubles /\ happened \subseteq happened' /\ "loss" \in happened'
      /\ files' \in [Files -> Content] /\ own' \in Owns
    BY Zenon DEF LoseBackup, Trouble, Fail, Inv, TypeOK, Owns
<1>2. ~Untouched'
    BY <1>1 DEF Untouched
<1>3. Lasting'
    BY <1>1, <1>2, Unbacked
<1> QED
    BY <1>1, <1>2, <1>3, Disturbed DEF Held

LEMMA PutByHandKeeps == ASSUME OneClient, Inv, PutByHand PROVE Inv'
<1> DEFINE v == own[1].version + 1
<1>1. /\ UNCHANGED <<backup, op, registered, route, minted, proc, shape>> /\ backup' \in Held
      /\ happened' \subseteq Troubles /\ happened \subseteq happened' /\ "edit" \in happened'
    BY Zenon DEF PutByHand, Trouble, Fail, Inv, TypeOK, Held
<1>2. v \in Versions /\ files' = [i \in Files |-> UserFile(v)] /\ own' = files'
    BY Zenon DEF PutByHand
<1> HIDE DEF v
<1>3. UserFile(v) \in Content /\ ~Carries(UserFile(v))
    BY <1>2 DEF UserFile, Content, Carries
<1>4. files' \in [Files -> Content] /\ own' \in Owns
    BY <1>2, <1>3 DEF Owns
<1>5. ~LiveKey' /\ ~Untouched'
    BY <1>1, <1>2, <1>3, Zenon DEF LiveKey, AnyCarries, Carries, Untouched
<1>6. Lasting'
    BY <1>1, <1>5, Zenon DEF Lasting, BackupHoldsNoKey, KnownKey, Untouched
<1> QED
    BY <1>1, <1>4, <1>5, <1>6, Disturbed

(* One file is written.                                                      *)
LEMMA WroteOne ==
    ASSUME Inv, NEW i \in Files, NEW c \in Content, files' = [files EXCEPT ![i] = c],
           UNCHANGED <<backup, registered, own, shape>>, happened \subseteq happened',
           Untouched' /\ Seeing' /\ Carries(c) => c.key \in registered,
           Untouched' /\ Carries(c) => Restorable,
           Untouched' /\ AllCarry => Carries(c) \/ c = own[i]
    PROVE  Lasting'
<1>1. /\ Untouched' => Untouched
      /\ Seeing' => Seeing
      /\ AllCarry' = AllCarry /\ Restorable' = Restorable
    BY Worse, Zenon DEF AllCarry, Restorable, AnyCarries, Carries
<1>2. files'[i] = c /\ \A j \in Files : j = i \/ files'[j] = files[j]
    BY DEF Inv, TypeOK
<1>3. BackupHoldsNoKey'
    BY Zenon DEF Inv, Lasting, BackupHoldsNoKey, AnyCarries, Carries
<1>4. KnownKey'
    <2> SUFFICES ASSUME Untouched', Seeing', NEW j \in Files, Carries(files'[j])
                 PROVE  files'[j].key \in registered
        BY Zenon DEF KnownKey, Seeing, Carries
    <2> QED
        BY <1>1, <1>2, Zenon DEF Inv, Lasting, KnownKey, Seeing
<1>5. Untouched' /\ LiveKey' => Restorable'
    <2> SUFFICES ASSUME Untouched', NEW j \in Files, Carries(files'[j]) PROVE Restorable
        BY <1>1, Zenon DEF LiveKey, AnyCarries, Carries
    <2> QED
        BY <1>1, <1>2, Zenon DEF Inv, Lasting, LiveKey, AnyCarries
<1>6. Untouched' /\ AllCarry' =>
          /\ (backup # None => backup = own)'
          /\ (\A j \in Files : Carries(files[j]) \/ files[j] = own[j])'
    BY <1>1, <1>2, Zenon DEF Inv, Lasting, Carries
<1> QED
    BY <1>3, <1>4, <1>5, <1>6, Zenon DEF Lasting

LEMMA Wrote ==
    ASSUME OneClient, Inv, NEW p \in Procs, NEW m \in Local, proc' = [proc EXCEPT ![p] = m],
           NEW i \in Files, NEW c \in Content, files' = [files EXCEPT ![i] = c],
           UNCHANGED <<backup, op, registered, own, shape, route, minted>>,
           happened' \subseteq Troubles, Sound(m)', Lasting'
    PROVE  Inv'
<1>1. /\ files' \in [Files -> Content] /\ backup' \in Held /\ op' \in Ops
      /\ registered' \subseteq Keys /\ route' \in Routes /\ minted' \in 0..MaxKeys /\ own' \in Owns
    <2>1. files' \in [Files -> Content]
        BY DEF Inv, TypeOK
    <2> QED
        BY <2>1, Zenon DEF Inv, TypeOK, Ops, Routes, Owns, Held
<1> QED
    BY <1>1, Moved DEF Inv

(* The next file, or the place after the last one.                           *)
LEMMA NextFile ==
    ASSUME Inv, NEW p \in Procs, proc[p].at \in Files, NEW after \in Steps,
           IF proc[p].at = FileCount
           THEN Goto(p, after) ELSE proc' = [proc EXCEPT ![p].at = proc[p].at + 1]
    PROVE  \E m \in Local :
              /\ proc' = [proc EXCEPT ![p] = m]
              /\ m.task = proc[p].task /\ m.key = proc[p].key
              /\ m.held = proc[p].held /\ m.first = proc[p].first
              /\ \/ proc[p].at = FileCount /\ m.pc = after
                 \/ m.pc = proc[p].pc /\ m.at = proc[p].at + 1 /\ m.at \in Files
<1>1. proc[p] \in Local
    BY DEF Inv, TypeOK
<1>2. CASE proc[p].at = FileCount
    BY <1>2, GotoMoves DEF Inv
<1>3. CASE proc[p].at # FileCount
    <2> DEFINE m == [proc[p] EXCEPT !.at = proc[p].at + 1]
    <2>1. proc' = [proc EXCEPT ![p] = m]
        BY <1>3 DEF Inv, TypeOK
    <2>2. proc[p].at + 1 \in Files /\ proc[p].at + 1 \in 0..FileCount
        BY <1>3, FilesAssumption DEF Files
    <2>3. m \in Local
        BY <1>1, <2>2, Zenon DEF Local
    <2>4. /\ m.task = proc[p].task /\ m.key = proc[p].key
          /\ m.held = proc[p].held /\ m.first = proc[p].first
          /\ m.pc = proc[p].pc /\ m.at = proc[p].at + 1
        BY <1>1 DEF Local
    <2> HIDE DEF m
    <2> QED
        BY <2>1, <2>2, <2>3, <2>4
<1> QED
    BY <1>2, <1>3

LEMMA WriteKeeps == ASSUME OneClient, Inv, NEW p \in Procs, Write(p) PROVE Inv'
<1> DEFINE l == proc[p]
<1>1. /\ UNCHANGED <<backup, op, registered, route, minted, own, shape, happened>>
      /\ l.pc = "writing" /\ happened' \subseteq Troubles
      /\ files' = [files EXCEPT ![l.at] = Routed(l.at, l.held[l.at], l.key)]
      /\ IF l.at = FileCount
         THEN Goto(p, "marking") ELSE proc' = [proc EXCEPT ![p].at = l.at + 1]
    BY Zenon DEF Write, At, Inv, TypeOK
<1>2. /\ l \in Local /\ Sound(l) /\ l.at \in Files /\ l.held \in [Files -> Content]
      /\ l.key \in registered /\ l.key \in Keys /\ l.task # "disable"
    BY <1>1 DEF Inv, TypeOK, Sound, Holding, Knowing, Leaving, Mine
<1>3. PICK m \in Local :
          /\ proc' = [proc EXCEPT ![p] = m]
          /\ m.task = l.task /\ m.key = l.key /\ m.held = l.held /\ m.first = l.first
          /\ \/ m.pc = "marking"
             \/ m.pc = "writing" /\ m.at = l.at + 1 /\ m.at \in Files
    <2>1. "marking" \in Steps
        BY DEF Steps
    <2> QED
        BY <1>1, <1>2, <2>1, NextFile
<1>4. PICK i \in Files : i = l.at
    BY <1>2
<1>5. PICK c \in Content : /\ c = Routed(i, l.held[i], l.key)
                           /\ Carries(c) => c.key \in registered
                           /\ AllCarry => Carries(c)
    <2>1. l.held[i] \in Content
        BY <1>2
    <2>2. Routed(i, l.held[i], l.key) \in Content
        BY <1>2, <2>1 DEF Routed, Content
    <2>3. Routed(i, l.held[i], l.key).key = IF i \in shape.carriers THEN l.key ELSE None
        BY <2>1 DEF Routed, Content
    <2>4. l.key # None
        BY <1>2, NoneAssumption
    <2> QED
        BY <1>2, <2>2, <2>3, <2>4, Zenon DEF Carries, AllCarry
<1>6. files' = [files EXCEPT ![i] = c] /\ files'[i] = c
      /\ \A j \in Files : j = i \/ files'[j] = files[j]
    BY <1>1, <1>4, <1>5 DEF Inv, TypeOK
<1>7. /\ Untouched' = Untouched /\ Seeing' = Seeing
      /\ AllCarry' = AllCarry /\ Restorable' = Restorable
    BY <1>1, Zenon DEF Untouched, Seeing, AllCarry, Restorable, AnyCarries, Carries
<1>8. Untouched => Restorable
    BY <1>1, <1>2 DEF Sound, Knowing
<1>9. Lasting'
    BY <1>1, <1>5, <1>6, <1>7, <1>8, WroteOne, Zenon
<1> HIDE DEF l
<1>10. Sound(m)'
    <2>1. CASE m.pc = "marking"
        BY <2>1, SMT DEF Sound, Holding, Leaving, Knowing, Owning, Mine
    <2>2. CASE m.pc = "writing" /\ m.at = l.at + 1 /\ m.at \in Files
        <3>1. Untouched => \A j \in Files : j >= m.at => files'[j] = m.held[j]
            <4> SUFFICES ASSUME Untouched, NEW j \in Files, j >= m.at
                         PROVE  files'[j] = m.held[j]
                OBVIOUS
            <4>1. j # i /\ j >= l.at
                BY <1>2, <1>4, <2>2 DEF Files
            <4> QED
                BY <1>1, <1>2, <1>3, <1>6, <4>1 DEF Sound, Holding
        <3>2. Holding(m)'
            BY <1>2, <1>3, <1>7, <2>2, <3>1, SMT DEF Holding
        <3>3. Leaving(m)'
            BY <1>2, <1>3, <2>2, SMT DEF Leaving
        <3>4. AnyCarries(m.held)' = AnyCarries(m.held) /\ registered' = registered
            BY <1>1, Zenon DEF AnyCarries, Carries
        <3>5. Untouched =>
                  /\ m.first => ~AnyCarries(m.held)
                  /\ Seeing => \A j \in Files :
                        Carries(m.held[j]) => m.held[j].key \in registered
            BY <1>1, <1>2, <1>3, SMT DEF Sound, Knowing
        <3>6. Knowing(m)'
            BY <1>2, <1>3, <1>7, <1>8, <3>4, <3>5, Zenon DEF Knowing, Carries
        <3>7. Untouched /\ AllCarry => \A j \in Files : Carries(m.held[j]) \/ m.held[j] = own[j]
            BY <1>1, <1>2, <1>3, SMT DEF Sound, Owning
        <3>8. Owning(m)'
            BY <1>1, <1>7, <2>2, <3>7, SMT DEF Owning
        <3> QED
            BY <3>2, <3>3, <3>6, <3>8, Zenon DEF Sound
    <2> QED
        BY <1>3, <2>1, <2>2
<1> QED
    BY <1>1, <1>3, <1>6, <1>9, <1>10, Wrote, Zenon

LEMMA RollBackKeeps == ASSUME OneClient, Inv, NEW p \in Procs, RollBack(p) PROVE Inv'
<1> DEFINE l == proc[p]
<1>1. /\ UNCHANGED <<backup, op, registered, route, minted, own, shape>>
      /\ l.pc = "rolling" /\ happened' \subseteq Troubles /\ happened \subseteq happened'
      /\ op' \in Ops /\ route' \in Routes /\ minted' \in 0..MaxKeys
    BY Zenon DEF RollBack, At, Fine, Trouble, Fail, Inv, TypeOK, Ops, Routes
<1>2. /\ l \in Local /\ Sound(l) /\ l.held \in [Files -> Content] /\ l.task # "disable"
      /\ l.at \in 0..FileCount
    BY <1>1 DEF Inv, TypeOK, Sound, Holding, Leaving, Local
<1>3. Untouched => \A j \in Files : j > l.at => files[j] = l.held[j]
    BY <1>1, <1>2, SMT DEF Sound, Holding
<1>4. Untouched => /\ Restorable /\ (l.first => ~AnyCarries(l.held))
                   /\ Seeing => \A j \in Files :
                          Carries(l.held[j]) => l.held[j].key \in registered
    BY <1>1, <1>2, SMT DEF Sound, Knowing
<1>5. Untouched /\ AllCarry => \A j \in Files : Carries(l.held[j]) \/ l.held[j] = own[j]
    BY <1>1, <1>2, SMT DEF Sound, Owning
<1>6. CASE l.at = 0
    <2>1. Goto(p, "uncapturing") /\ UNCHANGED <<files, happened>>
        BY <1>6, Zenon DEF RollBack, Fine
    <2>2. PICK m \in Local : /\ proc' = [proc EXCEPT ![p] = m] /\ m.pc = "uncapturing"
                             /\ m.task = l.task /\ m.first = l.first
        BY <2>1, GotoMoves DEF Inv, Steps
    <2>3. Untouched /\ l.first => ~LiveKey
        <3>1. \A j \in Files : j > l.at
            BY <1>6 DEF Files
        <3> QED
            BY <1>3, <1>4, <3>1, Zenon DEF LiveKey, AnyCarries
    <2> HIDE DEF l
    <2>4. Sound(m)
        BY <1>2, <2>2, <2>3, SMT DEF Sound, Holding, Leaving, Knowing, Owning, Mine
    <2> QED
        BY <1>1, <2>1, <2>2, <2>4, Quietly
<1>7. CASE l.at # 0
    <2>1. proc' = [proc EXCEPT ![p].at = l.at - 1]
        BY <1>7, Zenon DEF RollBack
    <2>2. PICK m \in Local :
              /\ proc' = [proc EXCEPT ![p] = m] /\ m.at = l.at - 1 /\ m.pc = "rolling"
              /\ m.task = l.task /\ m.key = l.key /\ m.held = l.held /\ m.first = l.first
        <3> DEFINE m == [proc[p] EXCEPT !.at = proc[p].at - 1]
        <3>1. proc' = [proc EXCEPT ![p] = m]
            BY <2>1 DEF Inv, TypeOK
        <3>2. l.at - 1 \in 0..FileCount
            BY <1>2, <1>7, FilesAssumption
        <3>3. m \in Local
            BY <1>2, <3>2, Zenon DEF Local
        <3>4. /\ m.at = l.at - 1 /\ m.pc = "rolling" /\ m.task = l.task /\ m.key = l.key
              /\ m.held = l.held /\ m.first = l.first
            BY <1>1, <1>2 DEF Local
        <3> HIDE DEF m
        <3> QED
            BY <3>1, <3>3, <3>4
    <2>3. PICK i \in Files : i = l.at
        BY <1>2, <1>7, FilesAssumption DEF Files
    <2>4. PICK c \in Content : c = l.held[i]
        BY <1>2
    <2> HIDE DEF l
    <2>5. CASE files' = [files EXCEPT ![i] = c] /\ UNCHANGED happened
        <3>1. files'[i] = c /\ \A j \in Files : j = i \/ files'[j] = files[j]
            BY <2>5 DEF Inv, TypeOK
        <3>2. /\ Untouched' = Untouched /\ Seeing' = Seeing
              /\ AllCarry' = AllCarry /\ Restorable' = Restorable
            BY <1>1, <2>5, Zenon DEF Untouched, Seeing, AllCarry, Restorable, AnyCarries, Carries
        <3>3. Lasting'
            BY <1>1, <1>4, <1>5, <2>4, <2>5, <3>2, WroteOne, Zenon
        <3>4. Untouched => \A j \in Files : j > m.at => files'[j] = m.held[j]
            <4> SUFFICES ASSUME Untouched, NEW j \in Files, j > m.at PROVE files'[j] = m.held[j]
                OBVIOUS
            <4>1. j = i \/ j > l.at
                BY <1>2, <2>2, <2>3 DEF Files
            <4> QED
                BY <1>3, <2>2, <2>4, <3>1, <4>1
        <3>5. Holding(m)'
            BY <1>2, <2>2, <3>2, <3>4, SMT DEF Holding
        <3>6. Leaving(m)'
            BY <1>2, <2>2, SMT DEF Leaving
        <3>7. AnyCarries(m.held)' = AnyCarries(m.held) /\ registered' = registered
            BY <1>1, Zenon DEF AnyCarries, Carries
        <3>8. m.pc \notin Mine
            BY <2>2 DEF Mine
        <3>9. Knowing(m)'
            BY <1>4, <2>2, <3>2, <3>7, <3>8, Zenon DEF Knowing, Carries
        <3>10. Owning(m)'
            BY <1>1, <1>5, <2>2, <3>2, SMT DEF Owning
        <3>11. Sound(m)'
            BY <3>5, <3>6, <3>9, <3>10, Zenon DEF Sound
        <3> QED
            BY <1>1, <2>2, <2>5, <3>3, <3>11, Wrote, Zenon
    <2>6. CASE Trouble("putback") /\ UNCHANGED files
        <3>1. ~Untouched'
            BY <2>6 DEF Trouble, Fail, Untouched
        <3>2. Sound(m)'
            BY <1>2, <2>2, <3>1, SMT DEF Sound, Holding, Leaving, Knowing, Owning, Mine
        <3> QED
            BY <1>1, <2>2, <2>6, <3>1, <3>2, Slipped
    <2> QED
        BY <1>7, <2>3, <2>4, <2>5, <2>6, Zenon DEF RollBack, Fine, l
<1> QED
    BY <1>6, <1>7

LEMMA RestoreKeeps == ASSUME OneClient, Inv, NEW p \in Procs, Restore(p) PROVE Inv'
<1> DEFINE l == proc[p]
<1>1. /\ UNCHANGED <<backup, op, registered, route, minted, own, shape, happened>>
      /\ l.pc = "restoring" /\ happened' \subseteq Troubles
      /\ files' = [files EXCEPT ![l.at] = l.held[l.at]]
      /\ IF l.at = FileCount
         THEN Goto(p, "dropping") ELSE proc' = [proc EXCEPT ![p].at = l.at + 1]
    BY Zenon DEF Restore, At, Inv, TypeOK
<1>2. l \in Local /\ Sound(l) /\ l.at \in Files /\ l.held \in [Files -> Content]
    BY <1>1 DEF Inv, TypeOK, Sound, Holding
<1>3. PICK m \in Local :
          /\ proc' = [proc EXCEPT ![p] = m]
          /\ m.task = l.task /\ m.key = l.key /\ m.held = l.held /\ m.first = l.first
          /\ \/ l.at = FileCount /\ m.pc = "dropping"
             \/ m.pc = "restoring" /\ m.at = l.at + 1 /\ m.at \in Files
    <2>1. "dropping" \in Steps
        BY DEF Steps
    <2> QED
        BY <1>1, <1>2, <2>1, NextFile
<1>4. PICK i \in Files : i = l.at
    BY <1>2
<1>5. PICK c \in Content : c = l.held[i]
    BY <1>2
<1>6. /\ ~AnyCarries(l.held) /\ (Untouched /\ AllCarry => l.held = own)
      /\ \A j \in Files : j < l.at => ~Carries(files[j])
    BY <1>1, <1>2, SMT DEF Sound, Leaving, Owning
<1> HIDE DEF l
<1>7. ~Carries(c) /\ (Untouched /\ AllCarry => c = own[i])
    BY <1>5, <1>6, Zenon DEF AnyCarries
<1>8. files' = [files EXCEPT ![i] = c] /\ files'[i] = c
      /\ \A j \in Files : j = i \/ files'[j] = files[j]
    BY <1>1, <1>4, <1>5 DEF Inv, TypeOK
<1>9. Untouched' = Untouched /\ AllCarry' = AllCarry
    BY <1>1, Zenon DEF Untouched, AllCarry
<1>10. Lasting'
    BY <1>1, <1>7, <1>8, <1>9, WroteOne, Zenon
<1>11. \A j \in Files : j < l.at + 1 => ~Carries(files'[j])
    <2> SUFFICES ASSUME NEW j \in Files, j < l.at + 1 PROVE ~Carries(files'[j])
        OBVIOUS
    <2>1. j = i \/ j < l.at
        BY <1>2, <1>4 DEF Files
    <2> QED
        BY <1>6, <1>7, <1>8, <2>1
<1>12. Sound(m)'
    <2>1. CASE l.at = FileCount /\ m.pc = "dropping"
        <3>1. \A j \in Files : j < l.at + 1
            BY <2>1, FilesAssumption DEF Files
        <3>2. ~LiveKey'
            BY <1>11, <3>1, Zenon DEF LiveKey, AnyCarries, Carries
        <3> QED
            BY <2>1, <3>2, SMT DEF Sound, Holding, Leaving, Knowing, Owning, Mine
    <2>2. CASE m.pc = "restoring" /\ m.at = l.at + 1 /\ m.at \in Files
        <3>1. ~AnyCarries(m.held)'
            BY <1>3, <1>6, Zenon DEF AnyCarries, Carries
        <3>2. \A j \in Files : j < m.at => ~Carries(files[j])'
            BY <1>11, <2>2, Zenon DEF Carries
        <3>3. Leaving(m)'
            BY <2>2, <3>1, <3>2, SMT DEF Leaving
        <3>4. Holding(m)' /\ Knowing(m)'
            BY <1>2, <1>3, <2>2, SMT DEF Holding, Knowing, Mine
        <3>5. Owning(m)'
            BY <1>1, <1>3, <1>6, <1>9, <2>2, SMT DEF Owning
        <3> QED
            BY <3>3, <3>4, <3>5, Zenon DEF Sound
    <2> QED
        BY <1>3, <2>1, <2>2
<1> QED
    BY <1>1, <1>3, <1>8, <1>10, <1>12, Wrote, Zenon

LEMMA CleanedTyped ==
    ASSUME NEW c \in Content
    PROVE  /\ Rebuilt(c) \in Content /\ ~Carries(Rebuilt(c))
           /\ Stripped(c) \in Content /\ ~Carries(Stripped(c))
<1>1. CASE Absent(c)
    BY <1>1 DEF Rebuilt, Stripped, Absent, UserFile, Carries, Content
<1>2. CASE ~Absent(c)
    <2>1. [c EXCEPT !.route = "provider", !.key = None] \in Content
        BY DEF Content
    <2>2. [c EXCEPT !.route = "stripped", !.key = None] \in Content
        BY DEF Content
    <2>3. /\ [c EXCEPT !.route = "provider", !.key = None].key = None
          /\ [c EXCEPT !.route = "stripped", !.key = None].key = None
        BY DEF Content
    <2> QED
        BY <1>2, <2>1, <2>2, <2>3, Zenon DEF Rebuilt, Stripped, Carries
<1> QED
    BY <1>1, <1>2

LEMMA RebuildKeeps == ASSUME OneClient, Inv, NEW p \in Procs, Rebuild(p) PROVE Inv'
<1> DEFINE l == proc[p]
<1>1. /\ UNCHANGED <<backup, op, registered, route, minted, own, shape>>
      /\ l.pc = "rebuilding" /\ happened' \subseteq Troubles /\ happened \subseteq happened'
      /\ op' \in Ops /\ route' \in Routes /\ minted' \in 0..MaxKeys
    BY Zenon DEF Rebuild, At, Fine, Trouble, Fail, Inv, TypeOK, Ops, Routes
<1>2. l \in Local /\ Sound(l) /\ l.at \in Files /\ ~Untouched
    BY <1>1 DEF Inv, TypeOK, Sound, Holding, Leaving
<1>3. ~Untouched' /\ (Seeing' => \A j \in Files : j < l.at => ~Carries(files[j]))
    <2>1. Seeing' => Seeing
        BY <1>1, Worse
    <2> QED
        BY <1>1, <1>2, <2>1, SMT DEF Sound, Leaving, Untouched
<1>4. CASE /\ \/ files' = [files EXCEPT ![l.at] = Rebuilt(files[l.at])]
              \/ ~Seeing' /\ UNCHANGED files
           /\ IF l.at = FileCount
              THEN Goto(p, "dropping") ELSE proc' = [proc EXCEPT ![p].at = l.at + 1]
    <2>1. PICK m \in Local :
              /\ proc' = [proc EXCEPT ![p] = m]
              /\ m.task = l.task /\ m.key = l.key /\ m.held = l.held /\ m.first = l.first
              /\ \/ l.at = FileCount /\ m.pc = "dropping"
                 \/ m.pc = "rebuilding" /\ m.at = l.at + 1 /\ m.at \in Files
        <3>1. "dropping" \in Steps
            BY DEF Steps
        <3> QED
            BY <1>1, <1>2, <1>4, <3>1, NextFile
    <2>2. PICK i \in Files : i = l.at
        BY <1>2
    <2>3. PICK c \in Content : /\ c = Rebuilt(files[i]) \/ (c = files[i] /\ ~Seeing')
                               /\ Seeing' => ~Carries(c)
                               /\ files' = [files EXCEPT ![i] = c]
        <3>1. files[i] \in Content /\ files = [files EXCEPT ![i] = files[i]]
            BY DEF Inv, TypeOK
        <3>2. CASE files' = [files EXCEPT ![l.at] = Rebuilt(files[l.at])]
            BY <2>2, <3>1, <3>2, CleanedTyped
        <3>3. CASE ~Seeing' /\ UNCHANGED files
            BY <3>1, <3>3
        <3> QED
            BY <1>4, <3>2, <3>3
    <2> HIDE DEF l
    <2>4. files' = [files EXCEPT ![i] = c] /\ files'[i] = c
          /\ \A j \in Files : j = i \/ files'[j] = files[j]
        BY <2>3 DEF Inv, TypeOK
    <2>5. Seeing' => \A j \in Files : j < l.at + 1 => ~Carries(files'[j])
        <3> SUFFICES ASSUME Seeing', NEW j \in Files, j < l.at + 1 PROVE ~Carries(files'[j])
            OBVIOUS
        <3>1. j = i \/ j < l.at
            BY <1>2, <2>2 DEF Files
        <3> QED
            BY <1>3, <2>3, <2>4, <3>1
    <2>6. Sound(m)'
        <3>1. CASE l.at = FileCount /\ m.pc = "dropping"
            <4>1. \A j \in Files : j < l.at + 1
                BY <3>1, FilesAssumption DEF Files
            <4>2. Seeing' => ~LiveKey'
                BY <2>5, <4>1, Zenon DEF LiveKey, AnyCarries, Carries
            <4> QED
                BY <1>3, <3>1, <4>2, SMT DEF Sound, Holding, Leaving, Knowing, Owning, Mine
        <3>2. CASE m.pc = "rebuilding" /\ m.at = l.at + 1 /\ m.at \in Files
            <4>1. Seeing' => \A j \in Files : j < m.at => ~Carries(files[j])'
                BY <2>5, <3>2, Zenon DEF Carries
            <4> QED
                BY <1>3, <3>2, <4>1, SMT DEF Sound, Holding, Leaving, Knowing, Owning, Mine
        <3> QED
            BY <2>1, <3>1, <3>2
    <2>7. Lasting'
        BY <1>1, <1>3, NoLonger
    <2> QED
        BY <1>1, <2>1, <2>4, <2>6, <2>7, Wrote, Zenon
<1>5. CASE proc' = [proc EXCEPT ![p].pc = "stripping", ![p].at = 1] /\ UNCHANGED files
    <2> DEFINE m == [proc[p] EXCEPT !.pc = "stripping", !.at = 1]
    <2>1. proc' = [proc EXCEPT ![p] = m]
        BY <1>5 DEF Inv, TypeOK
    <2>2. 1 \in Files /\ 1 \in 0..FileCount /\ "stripping" \in Steps
        BY FilesAssumption DEF Files, Steps
    <2>3. m \in Local /\ m.pc = "stripping" /\ m.at = 1
        BY <1>2, <2>2, Zenon DEF Local
    <2> HIDE DEF m, l
    <2>4. Sound(m)
        BY <1>2, <2>2, <2>3, SMT DEF Sound, Holding, Leaving, Knowing, Owning, Mine
    <2> QED
        BY <1>1, <1>5, <2>1, <2>3, <2>4, Quietly
<1> QED
    <2>1. \/ /\ \/ Fine /\ files' = [files EXCEPT ![l.at] = Rebuilt(files[l.at])]
                \/ Trouble("overlook") /\ UNCHANGED files
             /\ IF l.at = FileCount
                THEN Goto(p, "dropping") ELSE proc' = [proc EXCEPT ![p].at = l.at + 1]
          \/ /\ proc' = [proc EXCEPT ![p].pc = "stripping", ![p].at = 1]
             /\ UNCHANGED files
        BY Zenon DEF Rebuild
    <2>2. Trouble("overlook") => ~Seeing'
        BY Zenon DEF Trouble, Fail, Seeing
    <2> QED
        BY <1>4, <1>5, <2>1, <2>2, Zenon

LEMMA StripKeeps == ASSUME OneClient, Inv, NEW p \in Procs, Strip(p) PROVE Inv'
<1> DEFINE l == proc[p]
<1>1. /\ UNCHANGED <<backup, op, registered, route, minted, own, shape>>
      /\ l.pc = "stripping" /\ happened' \subseteq Troubles /\ happened \subseteq happened'
      /\ op' \in Ops
    BY Zenon DEF Strip, At, Fine, Trouble, Fail, Inv, TypeOK, Ops
<1>2. l \in Local /\ Sound(l) /\ l.at \in Files /\ ~Untouched
    BY <1>1 DEF Inv, TypeOK, Sound, Holding, Leaving
<1>3. ~Untouched'
    BY <1>1, <1>2 DEF Untouched
<1>4. CASE End(p, "failed") /\ UNCHANGED files
    BY <1>1, <1>4, Ended DEF Ends
<1>5. CASE /\ \/ files' = [files EXCEPT ![l.at] = Stripped(files[l.at])]
              \/ UNCHANGED files
           /\ IF l.at = FileCount
              THEN End(p, "failed") ELSE proc' = [proc EXCEPT ![p].at = l.at + 1]
    <2>1. PICK m \in Local :
              /\ proc' = [proc EXCEPT ![p] = m]
              /\ m.pc = "idle" \/ (m.pc = "stripping" /\ m.at \in Files)
        <3>1. CASE l.at = FileCount
            BY <1>5, <3>1, EndMoves DEF Inv, Ends
        <3>2. CASE l.at # FileCount
            <4>1. "idle" \in Steps
                BY DEF Steps
            <4> QED
                BY <1>1, <1>2, <1>5, <3>2, <4>1, NextFile
        <3> QED
            BY <3>1, <3>2
    <2>2. PICK i \in Files : i = l.at
        BY <1>2
    <2>3. PICK c \in Content : files' = [files EXCEPT ![i] = c]
        <3>1. files[i] \in Content /\ files = [files EXCEPT ![i] = files[i]]
            BY DEF Inv, TypeOK
        <3> QED
            BY <1>5, <2>2, <3>1, CleanedTyped
    <2> HIDE DEF l
    <2>4. files' = [files EXCEPT ![i] = c]
        BY <2>3
    <2>5. Sound(m)'
        BY <1>3, <2>1, SMT DEF Sound, Holding, Leaving, Knowing, Owning, Mine
    <2>6. Lasting'
        BY <1>1, <1>3, NoLonger
    <2> QED
        BY <1>1, <2>1, <2>4, <2>5, <2>6, Wrote, Zenon
<1> QED
    BY <1>4, <1>5, Zenon DEF Strip

-----------------------------------------------------------------------------
(* Steps that change what is registered.                                     *)
LEMMA Rekeyed ==
    ASSUME OneClient, Inv, NEW p \in Procs, NEW m \in Local, proc' = [proc EXCEPT ![p] = m],
           UNCHANGED <<files, backup, op, own, shape>>, registered' \subseteq Keys,
           route' \in Routes, minted' \in 0..MaxKeys,
           happened' \subseteq Troubles, happened \subseteq happened',
           registered \subseteq registered' \/ (Untouched /\ Seeing => ~LiveKey), Sound(m)'
    PROVE  Inv'
<1>1. /\ Untouched' => Untouched
      /\ Seeing' => Seeing
      /\ "edit" \notin happened' => "edit" \notin happened
    BY Worse
<1>2. LiveKey' = LiveKey /\ AllCarry' = AllCarry /\ Restorable' = Restorable
    BY Zenon DEF LiveKey, Restorable, AnyCarries, Carries, AllCarry
<1>3. BackupHoldsNoKey'
    BY <1>1, Zenon DEF Inv, Lasting, BackupHoldsNoKey, AnyCarries, Carries
<1>4. KnownKey'
    <2> SUFFICES ASSUME Untouched, Seeing, NEW j \in Files, Carries(files[j])
                 PROVE  files[j].key \in registered'
        BY <1>1, Zenon DEF KnownKey, Seeing, Carries
    <2>1. LiveKey
        BY Zenon DEF LiveKey, AnyCarries
    <2> QED
        BY <2>1, Zenon DEF Inv, Lasting, KnownKey, Seeing
<1>5. Untouched' /\ AllCarry' =>
          /\ (backup # None => backup = own)'
          /\ (\A j \in Files : Carries(files[j]) \/ files[j] = own[j])'
    BY <1>1, <1>2, Zenon DEF Inv, Lasting, Carries
<1>6. Lasting'
    BY <1>1, <1>2, <1>3, <1>4, <1>5, Zenon DEF Inv, Lasting
<1>7. files' \in [Files -> Content] /\ backup' \in Held /\ op' \in Ops /\ own' \in Owns
    BY Zenon DEF Inv, TypeOK, Ops, Owns, Held
<1> QED
    BY <1>6, <1>7, Moved DEF Inv

LEMMA EnableKeeps == ASSUME OneClient, Inv, NEW p \in Procs, Enable(p) PROVE Inv'
<1> DEFINE key == minted + 1
           started == [Rest EXCEPT !.task = "enable", !.key = key, !.had = route]
<1>1. /\ UNCHANGED <<files, backup, op, own, shape>> /\ minted' = key /\ minted < MaxKeys
      /\ route' = route \/ route' = "imported"
      /\ happened' \subseteq Troubles /\ happened \subseteq happened'
    BY Zenon DEF Enable, Fine, Trouble, Fail, Inv, TypeOK
<1>2. key \in Keys /\ key \in 0..MaxKeys /\ route \in {"none", "own", "imported"}
    BY <1>1, BoundsAssumption DEF Inv, TypeOK, Keys
<1>3. route' \in Routes /\ minted' \in 0..MaxKeys /\ registered \subseteq Keys
    BY <1>1, <1>2 DEF Routes, Inv, TypeOK
<1> HIDE DEF key
<1>4. "enable" \in Tasks /\ "opening" \in Steps /\ "failed" \in Ends
    BY DEF Tasks, Steps, Ends
<1>5. /\ started \in Local /\ started.pc = "idle" /\ started.task = "enable"
      /\ started.key = key
    BY <1>2, <1>4, RestTyped DEF Local
<1> HIDE DEF started
<1>6. CASE /\ registered' = registered \cup {key}
           /\ proc' = [proc EXCEPT ![p] = [started EXCEPT !.pc = "opening"]]
    <2>1. PICK m \in Local : /\ proc' = [proc EXCEPT ![p] = m] /\ m.pc = "opening"
                             /\ m.task = "enable" /\ m.key = key
        <3> DEFINE m == [started EXCEPT !.pc = "opening"]
        <3>1. m \in Local /\ m.pc = "opening" /\ m.task = "enable" /\ m.key = key
            BY <1>4, <1>5 DEF Local
        <3>2. proc' = [proc EXCEPT ![p] = m]
            BY <1>6
        <3> HIDE DEF m
        <3> QED
            BY <3>1, <3>2
    <2>2. m.key \in registered' /\ registered' \subseteq Keys /\ registered \subseteq registered'
        BY <1>2, <1>3, <1>6, <2>1
    <2>3. Sound(m)'
        BY <2>1, <2>2, SMT DEF Sound, Holding, Leaving, Knowing, Owning, Mine
    <2> QED
        BY <1>1, <1>3, <2>1, <2>2, <2>3, Rekeyed
<1>7. CASE /\ registered' \in {registered, registered \cup {key}}
           /\ proc' = [proc EXCEPT ![p] = [started EXCEPT !.end = "failed"]]
    <2>1. PICK m \in Local : proc' = [proc EXCEPT ![p] = m] /\ m.pc = "idle"
        <3> DEFINE m == [started EXCEPT !.end = "failed"]
        <3>1. m \in Local /\ m.pc = "idle"
            BY <1>4, <1>5 DEF Local
        <3>2. proc' = [proc EXCEPT ![p] = m]
            BY <1>7
        <3> HIDE DEF m
        <3> QED
            BY <3>1, <3>2
    <2>2. registered' \subseteq Keys /\ registered \subseteq registered'
        BY <1>2, <1>3, <1>7
    <2>3. Sound(m)'
        BY <2>1, SMT DEF Sound, Holding, Leaving, Knowing, Owning, Mine
    <2> QED
        BY <1>1, <1>3, <2>1, <2>2, <2>3, Rekeyed
<1> QED
    BY <1>6, <1>7, Zenon DEF Enable, started, key

(* The keys go, and the command goes on to its row or ends.                  *)
LEMMA KeysGo ==
    ASSUME OneClient, Inv, NEW p \in Procs,
           Goto(p, "clearing") \/ End(p, "failed"), Seeing /\ proc[p].task = "disable" => ~LiveKey,
           Untouched /\ Seeing => ~LiveKey,
           UNCHANGED <<files, backup, op, own, shape, minted>>, route' \in Routes,
           registered' \subseteq registered,
           happened' \subseteq Troubles, happened \subseteq happened'
    PROVE  Inv'
<1>1. PICK m \in Local : /\ proc' = [proc EXCEPT ![p] = m] /\ m.task = proc[p].task
                         /\ m.pc \in {"clearing", "idle"}
    <2>1. CASE Goto(p, "clearing")
        BY <2>1, GotoMoves DEF Inv, Steps
    <2>2. CASE End(p, "failed")
        BY <2>2, EndMoves DEF Inv, Ends
    <2> QED
        BY <2>1, <2>2
<1>2. LiveKey' = LiveKey
    BY Zenon DEF LiveKey, AnyCarries, Carries
<1>5. Seeing' => Seeing
    BY Worse
<1>3. Sound(m)'
    BY <1>1, <1>2, <1>5, SMT DEF Sound, Holding, Leaving, Knowing, Owning, Mine
<1>4. registered' \subseteq Keys /\ minted' \in 0..MaxKeys
    BY DEF Inv, TypeOK
<1> QED
    BY <1>1, <1>3, <1>4, Rekeyed

LEMMA RevokeKeeps == ASSUME OneClient, Inv, NEW p \in Procs, Revoke(p) PROVE Inv'
<1>1. /\ UNCHANGED <<files, backup, op, own, shape, minted>> /\ route' \in Routes
      /\ happened' \subseteq Troubles /\ happened \subseteq happened'
      /\ proc[p].pc = "revoking" /\ registered' \subseteq registered
      /\ Goto(p, "clearing") \/ End(p, "failed")
    BY Zenon DEF Revoke, At, Fine, Trouble, Fail, Inv, TypeOK, Routes
<1>2. proc[p].task # "disable" /\ (Untouched /\ Seeing => ~LiveKey)
    BY <1>1 DEF Inv, Sound, Leaving
<1> QED
    BY <1>1, <1>2, KeysGo

LEMMA TearDownKeeps == ASSUME OneClient, Inv, NEW p \in Procs, TearDown(p) PROVE Inv'
<1>1. /\ UNCHANGED <<files, backup, op, own, shape, minted>> /\ route' \in {route, "none"}
      /\ happened' \subseteq Troubles /\ happened \subseteq happened'
      /\ proc[p].pc = "tearing" /\ registered' \subseteq registered
      /\ Goto(p, "clearing") \/ End(p, "failed")
    BY Zenon DEF TearDown, At, Fine, Trouble, Fail, Inv, TypeOK
<1>2. Seeing => ~LiveKey
    BY <1>1 DEF Inv, Sound, Leaving
<1>3. route' \in Routes
    BY <1>1 DEF Inv, TypeOK, Routes
<1> QED
    BY <1>1, <1>2, <1>3, KeysGo

-----------------------------------------------------------------------------
LEMMA InitHolds == ASSUME Init PROVE Inv
<1>1. TypeOK
    <2>1. 0 \in Versions /\ 1 \in Versions
        BY BoundsAssumption DEF Versions
    <2>2. UserFile(0) \in Content /\ UserFile(1) \in Content
        BY <2>1 DEF UserFile, Content
    <2>3. files \in [Files -> Content]
        BY <2>2 DEF Init
    <2>4. own \in [Files -> {UserFile(v) : v \in Versions}]
        BY <2>1 DEF Init
    <2>5. proc \in [Procs -> Local]
        BY RestTyped DEF Init
    <2>6. minted \in 0..MaxKeys
        BY BoundsAssumption DEF Init
    <2> QED
        BY <2>3, <2>4, <2>5, <2>6, Zenon DEF Init, TypeOK
<1>2. \A i \in Files : ~Carries(files[i])
    BY DEF Init, UserFile, Carries
<1>3. Lasting
    BY <1>2, Zenon DEF Init, Lasting, BackupHoldsNoKey, KnownKey, LiveKey, AnyCarries
<1>4. \A p \in Procs : Sound(proc[p])
    <2>1. Sound(Rest)
        BY RestTyped, SMT DEF Sound, Holding, Leaving, Knowing, Owning, Mine
    <2> QED
        BY <2>1 DEF Init
<1> QED
    BY <1>1, <1>3, <1>4 DEF Inv

LEMMA StepHolds == ASSUME OneClient, Inv, [Next]_vars PROVE Inv'
<1>1. CASE UNCHANGED vars
    <2>1. TypeOK'
        BY <1>1, Zenon DEF vars, Inv, TypeOK
    <2>2. Lasting'
        BY <1>1, Zenon DEF vars, Inv, Lasting, BackupHoldsNoKey, KnownKey, LiveKey, AnyCarries,
                           Carries, Restorable, AllCarry, Untouched
    <2>3. ASSUME NEW p \in Procs PROVE Sound(proc[p])'
        <3>1. Sound(proc[p]) /\ proc'[p] = proc[p]
            BY <1>1, Zenon DEF vars, Inv
        <3>2. Holding(proc[p])'
            BY <1>1, <3>1, Zenon DEF vars, Sound, Holding, LiveKey, AnyCarries, Carries, Untouched,
                                     Readable, Seeing
        <3>3. Leaving(proc[p])'
            BY <1>1, <3>1, Zenon DEF vars, Sound, Leaving, LiveKey, AnyCarries, Carries, Untouched,
                                     Readable, Seeing
        <3>4. Knowing(proc[p])'
            BY <1>1, <3>1, Zenon DEF vars, Sound, Knowing, Restorable, AnyCarries, Carries,
                                     Untouched, Seeing
        <3>5. Owning(proc[p])'
            BY <1>1, <3>1, Zenon DEF vars, Sound, Owning, AllCarry, Carries, Untouched
        <3> QED
            BY <3>2, <3>3, <3>4, <3>5, Zenon DEF Sound
    <2> QED
        BY <2>1, <2>2, <2>3 DEF Inv
<1>2. ASSUME NEW p \in Procs, Step(p) PROVE Inv'
    <2>1. CASE Enable(p)         BY <2>1, EnableKeeps
    <2>2. CASE StartOp(p)        BY <2>2, StartOpKeeps
    <2>3. CASE Read(p)           BY <2>3, ReadKeeps
    <2>4. CASE Capture(p)        BY <2>4, CaptureKeeps
    <2>5. CASE Write(p)          BY <2>5, WriteKeeps
    <2>6. CASE WriteFails(p)     BY <2>6, WriteFailsKeeps
    <2>7. CASE RollBack(p)       BY <2>7, RollBackKeeps
    <2>8. CASE Uncapture(p)      BY <2>8, UncaptureKeeps
    <2>9. CASE Mark(p)           BY <2>9, MarkKeeps
    <2>10. CASE Undo(p)          BY <2>10, UndoKeeps
    <2>11. CASE Restore(p)       BY <2>11, RestoreKeeps
    <2>12. CASE RestoreFails(p)  BY <2>12, RestoreFailsKeeps
    <2>13. CASE DropBackup(p)    BY <2>13, DropBackupKeeps
    <2>14. CASE Revoke(p)        BY <2>14, RevokeKeeps
    <2>15. CASE ClearOp(p)       BY <2>15, ClearOpKeeps
    <2>16. CASE Disable(p)       BY <2>16, DisableKeeps
    <2>17. CASE Vet(p)           BY <2>17, VetKeeps
    <2>18. CASE Look(p)          BY <2>18, LookKeeps
    <2>19. CASE Rebuild(p)       BY <2>19, RebuildKeeps
    <2>20. CASE Strip(p)         BY <2>20, StripKeeps
    <2>21. CASE TearDown(p)      BY <2>21, TearDownKeeps
    <2>22. CASE Reconcile(p)     BY <2>22, ReconcileKeeps
    <2>23. CASE Judge(p)         BY <2>23, JudgeKeeps
    <2>24. CASE Ask(p)           BY <2>24, AskKeeps
    <2> QED
        BY <1>2, <2>1, <2>2, <2>3, <2>4, <2>5, <2>6, <2>7, <2>8, <2>9, <2>10, <2>11, <2>12,
           <2>13, <2>14, <2>15, <2>16, <2>17, <2>18, <2>19, <2>20, <2>21, <2>22, <2>23, <2>24
           DEF Step
<1>3. ASSUME NEW p \in Procs, Crash(p) PROVE Inv'
    BY <1>3, CrashKeeps
<1>4. CASE PutByHand
    BY <1>4, PutByHandKeeps
<1>5. CASE LoseBackup
    BY <1>5, LoseBackupKeeps
<1> QED
    BY <1>1, <1>2, <1>3, <1>4, <1>5 DEF Next

LEMMA Holds == ASSUME OneClient PROVE Spec => []Inv
<1>1. Init => Inv
    BY InitHolds
<1>2. Inv /\ [Next]_vars => Inv'
    BY StepHolds
<1> QED
    BY <1>1, <1>2, PTL DEF Spec

(* Every variable has its type, in every behaviour of one client.            *)
THEOREM TypeCorrect == ASSUME OneClient PROVE Spec => []TypeOK
<1>1. Inv => TypeOK
    BY DEF Inv
<1>2. Spec => []Inv
    BY Holds
<1> QED
    BY <1>1, <1>2, PTL

(* A backup that takeover_backups holds is nobody's route: capture takes it  *)
(* only where the files carry no key of ours, whatever failed or crashed     *)
(* before, as long as capture could read them and nobody edits in between.   *)
THEOREM BackupsAreClean == ASSUME OneClient PROVE Spec => []BackupHoldsNoKey
<1>1. Inv => BackupHoldsNoKey
    BY DEF Inv, Lasting
<1>2. Spec => []Inv
    BY Holds
<1> QED
    BY <1>1, <1>2, PTL

(* A key in the files is one the gateway knows, at every place where an      *)
(* enable, a disable or a reconcile may stop, and whatever of their writes   *)
(* and calls failed, but for what KnownKey excepts: files and rows that      *)
(* cannot be read or put back, or that somebody else changed.                *)
THEOREM CarriedKeysAreKnown == ASSUME OneClient PROVE Spec => []KnownKey
<1>1. Inv => KnownKey
    BY DEF Inv, Lasting
<1>2. Spec => []Inv
    BY Holds
<1> QED
    BY <1>1, <1>2, PTL

(* What the user had is in the file or in the backup, at every place where   *)
(* an enable, a disable or a reconcile may stop, under what OriginalsSurvive *)
(* assumes: read_originals and load_takeover_backup read what is there, and  *)
(* a restore can write it.  Without the first it is false: a file that       *)
(* cannot be read is overwritten as one that is not there.  It does not      *)
(* depend on what live_placeholder_key tells a disable or a reconcile.       *)
THEOREM OriginalsAreKept == ASSUME OneClient PROVE Spec => []OriginalsSurvive
<1>1. Inv => OriginalsSurvive
    <2> SUFFICES ASSUME Inv, Untouched, AllCarry, NEW i \in Files, files[i] # own[i]
                 PROVE  backup # None /\ backup[i] = own[i]
        BY Zenon DEF OriginalsSurvive, Kept, Untouched
    <2>1. LiveKey
        BY Zenon DEF Inv, Lasting, LiveKey, AnyCarries
    <2>2. backup # None
        BY <2>1 DEF Inv, Lasting, Restorable
    <2>3. backup = own
        BY <2>2 DEF Inv, Lasting
    <2> QED
        BY <2>2, <2>3
<1>2. Spec => []Inv
    BY Holds
<1> QED
    BY <1>1, <1>2, PTL

(* No registration is dropped under an agent that still sends its key: a     *)
(* disable past its file half has no route of ours in the files, whatever    *)
(* failed but its own reading of a file, even where an enable misread one or *)
(* the backup is lost or cannot be loaded.  With a file that                 *)
(* live_placeholder_key or the rebuild cannot read it is false: they pass    *)
(* over it.                                                                  *)
THEOREM DisableIsClean == ASSUME OneClient PROVE Spec => []DisableLeavesNoRoute
<1>1. Inv => DisableLeavesNoRoute
    BY Zenon DEF Inv, Sound, Leaving, DisableLeavesNoRoute, PastFiles, Seeing
<1>2. Spec => []Inv
    BY Holds
<1> QED
    BY <1>1, <1>2, PTL

-----------------------------------------------------------------------------
(* What a command that ends leaves behind, when nothing failed but writes of *)
(* the agent's files: each place says what has been taken back by then.      *)
Calm == happened \subseteq {"write"}

Enabling  == {"opening", "reading", "capturing", "writing", "rolling", "uncapturing"}
Disabling == {"vetting", "looking", "rebuilding", "stripping", "tearing"}

(* Which command is at which place.                                          *)
Placed(l) ==
    /\ l.pc \in Enabling => l.task = "enable"
    /\ l.pc \in Disabling => l.task = "disable"
    /\ l.pc \in {"judging", "asking"} => l.task = "reconcile"
    /\ l.pc = "marking" => l.task # "disable"

TakenBack(l) ==
    /\ l.pc \in {"looking", "tearing", "revoking", "clearing"} /\ l.task # "reconcile" =>
          backup = None
    /\ l.pc = "clearing" => /\ registered = {} /\ ~LiveKey
                            /\ l.task = "disable" => route = "none"
    /\ l.pc # "idle" /\ l.task = "enable" /\ l.had = "own" => route = "own"

(* A reconcile goes by the row it loaded and by what the files carried.      *)
Judged(l) ==
    /\ l.pc = "asking" => ~LiveKey
    /\ l.task = "reconcile" /\ l.pc \in {"judging", "marking"} =>
          op # None /\ op = [key |-> l.key, applied |-> l.first]
    /\ l.task = "reconcile" /\ l.pc = "marking" => ~l.first /\ LiveKey

Given(l) == Calm => Placed(l) /\ TakenBack(l) /\ Judged(l)

CalmInv == Inv /\ \A p \in Procs : Given(proc[p])

LEMMA CalmBefore ==
    ASSUME Calm', happened \subseteq happened'
    PROVE  Calm /\ Untouched /\ Readable /\ Seeing /\ "edit" \notin happened
BY DEF Calm, Untouched, Readable, Seeing

(* As long as the files can be read, a key in them is seen.                  *)
LEMMA Sees ==
    ASSUME Calm', NEW seen \in Sightings, Fail(Missed(seen, "overlook"))
    PROVE  seen = LiveKey /\ happened \subseteq happened'
BY Zenon DEF Fail, Missed, Calm

(* What a calm reconcile makes of the row and of the files.                  *)
LEMMA Judges ==
    ASSUME NEW p \in Procs, Judge(p), Calm'
    PROVE  /\ UNCHANGED <<files, op, backup, route>> /\ proc[p].pc = "judging"
           /\ happened \subseteq happened'
           /\ \/ End(p, "done") /\ proc[p].first /\ LiveKey
              \/ Goto(p, "revoking") /\ ~LiveKey
              \/ Goto(p, "marking") /\ ~proc[p].first /\ LiveKey
              \/ Goto(p, "asking") /\ ~LiveKey
<1>1. PICK seen \in Sightings :
          /\ Fail(Missed(seen, "overlook"))
          /\ CASE proc[p].first /\ seen   -> End(p, "done")
               [] proc[p].first /\ ~seen  -> Goto(p, "revoking")
               [] ~proc[p].first /\ seen  -> Goto(p, "marking")
               [] ~proc[p].first /\ ~seen -> Goto(p, "asking")
    BY Zenon DEF Judge
<1>2. seen = LiveKey /\ happened \subseteq happened'
    BY <1>1, Sees
<1>3. UNCHANGED <<files, op, backup, route>> /\ proc[p].pc = "judging"
    BY Zenon DEF Judge, At
<1>4. \/ End(p, "done") /\ proc[p].first /\ seen
      \/ Goto(p, "revoking") /\ ~seen
      \/ Goto(p, "marking") /\ ~proc[p].first /\ seen
      \/ Goto(p, "asking") /\ ~seen
    BY <1>1, Zenon
<1> QED
    BY <1>2, <1>3, <1>4, Zenon

(* The command goes on, at a place that says no more than whose it is.       *)
LEMMA Stays ==
    ASSUME CalmInv, NEW p \in Procs, happened \subseteq happened', UNCHANGED route,
           proc[p].pc # "idle", proc'[p].task = proc[p].task, proc'[p].had = proc[p].had,
           proc'[p].pc \notin {"looking", "tearing", "revoking", "clearing", "judging", "asking"},
           proc'[p].pc \in Enabling \cup {"marking"} => proc[p].pc \in Enabling,
           proc'[p].pc \in Disabling => proc[p].pc \in Disabling
    PROVE  Given(proc[p])'
<1> SUFFICES ASSUME Calm' PROVE Placed(proc[p])' /\ TakenBack(proc[p])' /\ Judged(proc[p])'
    BY DEF Given
<1>1. Placed(proc[p]) /\ TakenBack(proc[p])
    BY CalmBefore DEF CalmInv, Given
<1>2. Placed(proc[p])'
    BY <1>1, SMT DEF Placed, Enabling, Disabling
<1>3. TakenBack(proc[p])'
    BY <1>1, SMT DEF TakenBack
<1>4. Judged(proc[p])'
    BY <1>1, SMT DEF Placed, Judged, Enabling
<1> QED
    BY <1>2, <1>3, <1>4

LEMMA Idles == ASSUME NEW p \in Procs, proc'[p].pc = "idle" PROVE Given(proc[p])'
BY SMT DEF Given, Placed, TakenBack, Judged, Enabling, Disabling

LEMMA StartOpGives == ASSUME CalmInv, NEW p \in Procs, StartOp(p) PROVE Given(proc[p])'
<1>1. /\ UNCHANGED route /\ proc[p].pc = "opening" /\ happened \subseteq happened'
    BY Zenon DEF StartOp, At, Fine, Trouble, Fail
<1>2. \/ proc'[p].pc = "idle"
      \/ /\ proc'[p].task = proc[p].task /\ proc'[p].had = proc[p].had
         /\ proc'[p].pc = "reading"
    BY <1>1, SMT DEF StartOp, Goto, End, CalmInv, Inv, TypeOK, Local
<1> QED
    BY <1>1, <1>2, Stays, Idles DEF Enabling, Disabling

LEMMA ReadsOn ==
    ASSUME CalmInv, NEW p \in Procs, Read(p)
    PROVE  /\ proc'[p].task = proc[p].task /\ proc'[p].had = proc[p].had
           /\ proc'[p].pc \in {"capturing", "undoing"}
BY SMT DEF Read, CalmInv, Inv, TypeOK, Local

LEMMA ReadGives == ASSUME CalmInv, NEW p \in Procs, Read(p) PROVE Given(proc[p])'
<1>1. /\ UNCHANGED route /\ proc[p].pc = "reading" /\ happened \subseteq happened'
    BY Zenon DEF Read, At, Fail
<1> QED
    BY <1>1, ReadsOn, Stays DEF Enabling, Disabling

LEMMA CapturesOn ==
    ASSUME CalmInv, NEW p \in Procs, Capture(p)
    PROVE  /\ proc'[p].task = proc[p].task /\ proc'[p].had = proc[p].had
           /\ proc'[p].pc \in {"writing", "undoing"}
BY SMT DEF Capture, CalmInv, Inv, TypeOK, Local

LEMMA CaptureGives == ASSUME CalmInv, NEW p \in Procs, Capture(p) PROVE Given(proc[p])'
<1>1. /\ UNCHANGED route /\ proc[p].pc = "capturing" /\ happened \subseteq happened'
    BY Zenon DEF Capture, At, Fine, Trouble, Fail
<1> QED
    BY <1>1, CapturesOn, Stays DEF Enabling, Disabling

LEMMA WriteGives == ASSUME CalmInv, NEW p \in Procs, Write(p) PROVE Given(proc[p])'
<1>1. /\ UNCHANGED route /\ proc[p].pc = "writing" /\ happened \subseteq happened'
    BY Zenon DEF Write, At
<1>2. /\ proc'[p].task = proc[p].task /\ proc'[p].had = proc[p].had
      /\ proc'[p].pc \in {"writing", "marking"}
    BY <1>1, SMT DEF Write, Goto, CalmInv, Inv, TypeOK, Local
<1> QED
    BY <1>1, <1>2, Stays DEF Enabling, Disabling

LEMMA WriteFailsGives == ASSUME CalmInv, NEW p \in Procs, WriteFails(p) PROVE Given(proc[p])'
<1>1. /\ UNCHANGED route /\ proc[p].pc = "writing" /\ happened \subseteq happened'
    BY Zenon DEF WriteFails, At, Trouble, Fail
<1>2. /\ proc'[p].task = proc[p].task /\ proc'[p].had = proc[p].had
      /\ proc'[p].pc \in {"rolling"}
    BY <1>1, SMT DEF WriteFails, Goto, CalmInv, Inv, TypeOK, Local
<1> QED
    BY <1>1, <1>2, Stays DEF Enabling, Disabling

LEMMA RollBackGives == ASSUME CalmInv, NEW p \in Procs, RollBack(p) PROVE Given(proc[p])'
<1>1. /\ UNCHANGED route /\ proc[p].pc = "rolling" /\ happened \subseteq happened'
    BY Zenon DEF RollBack, At, Fine, Trouble, Fail
<1>2. /\ proc'[p].task = proc[p].task /\ proc'[p].had = proc[p].had
      /\ proc'[p].pc \in {"rolling", "uncapturing"}
    BY <1>1, SMT DEF RollBack, Goto, CalmInv, Inv, TypeOK, Local
<1> QED
    BY <1>1, <1>2, Stays DEF Enabling, Disabling

LEMMA UncaptureGives == ASSUME CalmInv, NEW p \in Procs, Uncapture(p) PROVE Given(proc[p])'
<1>1. /\ UNCHANGED route /\ proc[p].pc = "uncapturing" /\ happened \subseteq happened'
    BY Zenon DEF Uncapture, At, Fine, Trouble, Fail
<1>2. /\ proc'[p].task = proc[p].task /\ proc'[p].had = proc[p].had
      /\ proc'[p].pc \in {"undoing"}
    BY <1>1, SMT DEF Uncapture, Goto, CalmInv, Inv, TypeOK, Local
<1> QED
    BY <1>1, <1>2, Stays DEF Enabling, Disabling

LEMMA RestoreGives == ASSUME CalmInv, NEW p \in Procs, Restore(p) PROVE Given(proc[p])'
<1>1. /\ UNCHANGED route /\ proc[p].pc = "restoring" /\ happened \subseteq happened'
    BY Zenon DEF Restore, At
<1>2. /\ proc'[p].task = proc[p].task /\ proc'[p].had = proc[p].had
      /\ proc'[p].pc \in {"restoring", "dropping"}
    BY <1>1, SMT DEF Restore, Goto, CalmInv, Inv, TypeOK, Local
<1> QED
    BY <1>1, <1>2, Stays DEF Enabling, Disabling

LEMMA RebuildGives == ASSUME CalmInv, NEW p \in Procs, Rebuild(p) PROVE Given(proc[p])'
<1>1. /\ UNCHANGED route /\ proc[p].pc = "rebuilding" /\ happened \subseteq happened'
    BY Zenon DEF Rebuild, At, Fine, Trouble, Fail
<1>2. /\ proc'[p].task = proc[p].task /\ proc'[p].had = proc[p].had
      /\ proc'[p].pc \in {"rebuilding", "stripping", "dropping"}
    BY <1>1, SMT DEF Rebuild, Goto, CalmInv, Inv, TypeOK, Local
<1> QED
    BY <1>1, <1>2, Stays DEF Enabling, Disabling

LEMMA StripGives == ASSUME CalmInv, NEW p \in Procs, Strip(p) PROVE Given(proc[p])'
<1>1. /\ UNCHANGED route /\ proc[p].pc = "stripping" /\ happened \subseteq happened'
    BY Zenon DEF Strip, At, Fine, Trouble, Fail
<1>2. \/ proc'[p].pc = "idle"
      \/ /\ proc'[p].task = proc[p].task /\ proc'[p].had = proc[p].had
         /\ proc'[p].pc = "stripping"
    BY <1>1, SMT DEF Strip, Goto, End, CalmInv, Inv, TypeOK, Local
<1> QED
    BY <1>1, <1>2, Stays, Idles DEF Enabling, Disabling

(* The files are as they were, so the same of them carry a key.              *)
LEMMA SameFiles == ASSUME UNCHANGED files PROVE LiveKey' = LiveKey
BY Zenon DEF LiveKey, AnyCarries, Carries

(* The parts of the invariant a calm step starts from.                       *)
LEMMA Calmly ==
    ASSUME CalmInv, NEW p \in Procs, Calm', happened \subseteq happened'
    PROVE  /\ Calm /\ Placed(proc[p]) /\ TakenBack(proc[p]) /\ Judged(proc[p])
           /\ Leaving(proc[p]) /\ Lasting /\ TypeOK /\ proc[p] \in Local
           /\ Untouched /\ Readable /\ Seeing /\ "edit" \notin happened
BY CalmBefore, Zenon DEF CalmInv, Inv, Sound, Given, TypeOK

LEMMA EndGives == ASSUME CalmInv, NEW p \in Procs, NEW how, End(p, how) PROVE Given(proc[p])'
<1>1. proc'[p].pc = "idle"
    BY SMT DEF End, CalmInv, Inv, TypeOK, Local
<1> QED
    BY <1>1, Idles

LEMMA CrashGives == ASSUME CalmInv, NEW p \in Procs, Crash(p) PROVE Given(proc[p])'
<1>1. proc'[p].pc = "idle"
    BY SMT DEF Crash, Rest, CalmInv, Inv, TypeOK
<1> QED
    BY <1>1, Idles

LEMMA EnableGives == ASSUME CalmInv, NEW p \in Procs, Enable(p) PROVE Given(proc[p])'
<1>1. route' = route \/ route = "none"
    BY Zenon DEF Enable
<1>2. \/ proc'[p].pc = "idle"
      \/ proc'[p].pc = "opening" /\ proc'[p].task = "enable" /\ proc'[p].had = route
    <2> DEFINE started == [Rest EXCEPT !.task = "enable", !.key = minted + 1, !.had = route]
    <2>1. \/ proc'[p] = [started EXCEPT !.pc = "opening"]
          \/ proc'[p] = [started EXCEPT !.end = "failed"]
        BY Zenon DEF Enable, CalmInv, Inv, TypeOK
    <2>2. [started EXCEPT !.end = "failed"].pc = "idle"
        BY RestTyped DEF Local
    <2>3. /\ [started EXCEPT !.pc = "opening"].pc = "opening"
          /\ [started EXCEPT !.pc = "opening"].task = "enable"
          /\ [started EXCEPT !.pc = "opening"].had = route
        BY RestTyped DEF Local
    <2> HIDE DEF started
    <2> QED
        BY <2>1, <2>2, <2>3, Zenon
<1>3. CASE proc'[p].pc = "opening" /\ proc'[p].task = "enable" /\ proc'[p].had = route
    BY <1>1, <1>3, SMT DEF Given, Placed, TakenBack, Judged, Enabling, Disabling
<1> QED
    BY <1>2, <1>3, Idles

LEMMA FailsGives ==
    ASSUME NEW p \in Procs, NEW kind \in AllTroubles \ {"write"}, Trouble(kind)
    PROVE  Given(proc[p])'
<1>1. ~Calm'
    BY DEF Trouble, Fail, Calm, AllTroubles
<1> QED
    BY <1>1 DEF Given

LEMMA UndoGives == ASSUME CalmInv, NEW p \in Procs, Undo(p) PROVE Given(proc[p])'
<1>1. UNCHANGED <<route, backup>> /\ proc[p].pc = "undoing"
    BY Zenon DEF Undo, At
<1>4. CASE Trouble("load")
    BY <1>4, FailsGives DEF AllTroubles
<1>2. CASE Fine /\ proc' = [proc EXCEPT ![p].pc = "restoring", ![p].held = backup, ![p].at = 1]
    <2>1. /\ UNCHANGED happened
          /\ proc'[p].task = proc[p].task /\ proc'[p].had = proc[p].had
          /\ proc'[p].pc = "restoring"
        BY <1>1, <1>2, SMT DEF Fine, CalmInv, Inv, TypeOK, Local
    <2> QED
        BY <1>1, <2>1, Stays DEF Enabling, Disabling
<1>3. CASE ~Restorable /\ Fine /\ Goto(p, "revoking")
    <2>1. /\ proc'[p].task = proc[p].task /\ proc'[p].had = proc[p].had
          /\ proc'[p].pc = "revoking"
        BY <1>1, <1>3, SMT DEF Goto, CalmInv, Inv, TypeOK, Local
    <2> SUFFICES ASSUME Calm' PROVE Given(proc[p])'
        BY DEF Given
    <2>2. TakenBack(proc[p]) /\ Lasting /\ Readable /\ "edit" \notin happened
        BY <1>1, <1>3, Calmly DEF Fine
    <2>3. backup = None
        BY <1>3, <2>2 DEF Lasting, BackupHoldsNoKey, Restorable, Readable
    <2> QED
        BY <1>1, <2>1, <2>2, <2>3, SMT DEF Given, Placed, TakenBack, Judged, Enabling, Disabling
<1> QED
    BY <1>2, <1>3, <1>4, Zenon DEF Undo

LEMMA DropBackupGives == ASSUME CalmInv, NEW p \in Procs, DropBackup(p) PROVE Given(proc[p])'
<1>1. CASE Trouble("row")
    BY <1>1, FailsGives DEF AllTroubles
<1>2. CASE backup' = None /\ Fine
    <2> SUFFICES ASSUME Calm' PROVE Given(proc[p])'
        BY DEF Given
    <2>1. UNCHANGED <<route, happened>> /\ proc[p].pc = "dropping"
        BY <1>2, Zenon DEF DropBackup, At, Fine
    <2>2. /\ proc'[p].task = proc[p].task /\ proc'[p].had = proc[p].had
          /\ proc'[p].pc = IF proc[p].task = "disable" THEN "tearing" ELSE "revoking"
        BY SMT DEF DropBackup, Goto, CalmInv, Inv, TypeOK, Local
    <2>3. TakenBack(proc[p])
        BY <2>1, Calmly
    <2> QED
        BY <1>2, <2>1, <2>2, <2>3, SMT DEF Given, Placed, TakenBack, Judged, Enabling, Disabling
<1> QED
    BY <1>1, <1>2 DEF DropBackup

LEMMA RevokeGives == ASSUME CalmInv, NEW p \in Procs, Revoke(p) PROVE Given(proc[p])'
<1>1. CASE Trouble("daemon")
    BY <1>1, FailsGives DEF AllTroubles
<1>2. CASE registered' = {} /\ Goto(p, "clearing") /\ Fine
    <2> SUFFICES ASSUME Calm' PROVE Given(proc[p])'
        BY DEF Given
    <2>1. UNCHANGED <<files, backup, route, happened>> /\ proc[p].pc = "revoking"
        BY <1>2, Zenon DEF Revoke, At, Fine
    <2>2. /\ proc'[p].task = proc[p].task /\ proc'[p].had = proc[p].had
          /\ proc'[p].pc = "clearing"
        BY <1>2, SMT DEF Goto, CalmInv, Inv, TypeOK, Local
    <2>3. TakenBack(proc[p]) /\ Leaving(proc[p]) /\ Untouched /\ Seeing
        BY <2>1, Calmly
    <2>4. ~LiveKey' /\ proc[p].task # "disable"
        BY <2>1, <2>3, SameFiles DEF Leaving
    <2> QED
        BY <1>2, <2>1, <2>2, <2>3, <2>4, SMT
           DEF Given, Placed, TakenBack, Judged, Enabling, Disabling
<1> QED
    BY <1>1, <1>2 DEF Revoke

LEMMA TearDownGives == ASSUME CalmInv, NEW p \in Procs, TearDown(p) PROVE Given(proc[p])'
<1>1. CASE Trouble("daemon")
    BY <1>1, FailsGives DEF AllTroubles
<1>2. CASE registered' = {} /\ route' = "none" /\ Goto(p, "clearing") /\ Fine
    <2> SUFFICES ASSUME Calm' PROVE Given(proc[p])'
        BY DEF Given
    <2>1. UNCHANGED <<files, backup, happened>> /\ proc[p].pc = "tearing"
        BY <1>2, Zenon DEF TearDown, At, Fine
    <2>2. proc'[p].task = proc[p].task /\ proc'[p].pc = "clearing"
        BY <1>2, SMT DEF Goto, CalmInv, Inv, TypeOK, Local
    <2>3. Placed(proc[p]) /\ TakenBack(proc[p]) /\ Leaving(proc[p]) /\ Seeing
        BY <2>1, Calmly
    <2>4. ~LiveKey' /\ proc[p].task = "disable" /\ backup = None
        BY <2>1, <2>3, SameFiles DEF Leaving, Placed, TakenBack, Disabling
    <2> QED
        BY <1>2, <2>1, <2>2, <2>4, SMT DEF Given, Placed, TakenBack, Judged, Enabling, Disabling
<1> QED
    BY <1>1, <1>2, Zenon DEF TearDown

LEMMA DisableGives == ASSUME CalmInv, NEW p \in Procs, Disable(p) PROVE Given(proc[p])'
<1>1. \/ proc'[p].pc = "idle"
      \/ proc'[p].pc = "vetting" /\ proc'[p].task = "disable"
    <2>1. \/ proc'[p] = [Rest EXCEPT !.pc = "vetting", !.task = "disable", !.had = route]
          \/ proc'[p] = [Rest EXCEPT !.task = "disable", !.end = "failed"]
        BY Zenon DEF Disable, CalmInv, Inv, TypeOK
    <2>2. /\ [Rest EXCEPT !.pc = "vetting", !.task = "disable", !.had = route].pc = "vetting"
          /\ [Rest EXCEPT !.pc = "vetting", !.task = "disable", !.had = route].task = "disable"
          /\ [Rest EXCEPT !.task = "disable", !.end = "failed"].pc = "idle"
        BY RestTyped DEF Local
    <2> QED
        BY <2>1, <2>2, Zenon
<1>2. CASE proc'[p].pc = "vetting" /\ proc'[p].task = "disable"
    BY <1>2, SMT DEF Given, Placed, TakenBack, Judged, Enabling, Disabling
<1> QED
    BY <1>1, <1>2, Idles

LEMMA VetGives == ASSUME CalmInv, NEW p \in Procs, Vet(p) PROVE Given(proc[p])'
<1>1. UNCHANGED route /\ proc[p].pc = "vetting"
    BY Zenon DEF Vet, At
<1>2. CASE Trouble("row")
    BY <1>2, FailsGives DEF AllTroubles
<1>5. CASE Trouble("load")
    BY <1>5, FailsGives DEF AllTroubles
<1>3. CASE Fine /\ proc' = [proc EXCEPT ![p].pc = "restoring", ![p].held = backup, ![p].at = 1]
    <2>1. /\ proc'[p].task = proc[p].task /\ proc'[p].had = proc[p].had
          /\ proc'[p].pc = "restoring" /\ UNCHANGED happened
        BY <1>1, <1>3, SMT DEF Fine, CalmInv, Inv, TypeOK, Local
    <2> QED
        BY <1>1, <2>1, Stays DEF Enabling, Disabling
<1>4. CASE ~Restorable /\ backup' = None /\ Fine /\ Goto(p, "looking")
    <2> SUFFICES ASSUME Calm' PROVE Given(proc[p])'
        BY DEF Given
    <2>1. proc'[p].task = proc[p].task /\ proc'[p].pc = "looking"
        BY <1>4, SMT DEF Goto, CalmInv, Inv, TypeOK, Local
    <2>2. Placed(proc[p]) /\ UNCHANGED happened
        BY <1>4, Calmly DEF Fine
    <2>3. proc[p].task = "disable"
        BY <1>1, <2>2 DEF Placed, Disabling
    <2> QED
        BY <1>4, <2>1, <2>3, SMT DEF Given, Placed, TakenBack, Judged, Enabling, Disabling
<1> QED
    BY <1>2, <1>3, <1>4, <1>5, Zenon DEF Vet

LEMMA LookGives == ASSUME CalmInv, NEW p \in Procs, Look(p) PROVE Given(proc[p])'
<1> SUFFICES ASSUME Calm' PROVE Given(proc[p])'
    BY DEF Given
<1>1. UNCHANGED backup /\ proc[p].pc = "looking" /\ happened \subseteq happened'
    BY Zenon DEF Look, At, Fail
<1>2. proc'[p].task = proc[p].task /\ proc'[p].pc \in {"tearing", "rebuilding", "stripping"}
    BY <1>1, SMT DEF Look, Goto, CalmInv, Inv, TypeOK, Local
<1>3. Placed(proc[p]) /\ TakenBack(proc[p])
    BY <1>1, Calmly
<1>4. proc[p].task = "disable" /\ backup = None
    BY <1>1, <1>3 DEF Placed, TakenBack, Disabling
<1> QED
    BY <1>1, <1>2, <1>4, SMT DEF Given, Placed, TakenBack, Judged, Enabling, Disabling

LEMMA ReconcileGives == ASSUME CalmInv, NEW p \in Procs, Reconcile(p) PROVE Given(proc[p])'
<1>1. op # None /\ UNCHANGED op
    BY Zenon DEF Reconcile
<1>2. op = [key |-> op.key, applied |-> op.applied]
    BY <1>1 DEF CalmInv, Inv, TypeOK
<1>3. /\ proc'[p].task = "reconcile" /\ proc'[p].pc = "judging"
      /\ proc'[p].key = op.key /\ proc'[p].first = op.applied
    BY SMT DEF Reconcile, Rest, CalmInv, Inv, TypeOK
<1>4. Placed(proc[p])' /\ TakenBack(proc[p])'
    BY <1>3, SMT DEF Placed, TakenBack, Enabling, Disabling
<1>5. op' = [key |-> proc'[p].key, applied |-> proc'[p].first]
    BY <1>1, <1>2, <1>3, Zenon
<1>6. Judged(proc[p])'
    BY <1>1, <1>3, <1>5, SMT DEF Judged
<1> QED
    BY <1>4, <1>6 DEF Given

LEMMA JudgeGives == ASSUME CalmInv, NEW p \in Procs, Judge(p) PROVE Given(proc[p])'
<1> SUFFICES ASSUME Calm', proc'[p].pc # "idle" PROVE Given(proc[p])'
    BY Idles DEF Given
<1>1. /\ UNCHANGED <<files, op, backup, route>> /\ proc[p].pc = "judging"
      /\ happened \subseteq happened'
    BY Judges
<1>2. Placed(proc[p]) /\ Judged(proc[p]) /\ LiveKey' = LiveKey
    BY <1>1, Calmly, SameFiles
<1>3. /\ proc[p].task = "reconcile" /\ op # None
      /\ op = [key |-> proc[p].key, applied |-> proc[p].first]
    BY <1>1, <1>2 DEF Placed, Judged
<1>4. ~End(p, "done")
    <2>1. End(p, "done") => proc'[p].pc = "idle"
        BY SMT DEF End, CalmInv, Inv, TypeOK, Local
    <2> QED
        BY <2>1
<1>5. PICK place \in {"revoking", "marking", "asking"} :
          /\ Goto(p, place)
          /\ place = "marking" => ~proc[p].first /\ LiveKey
          /\ place = "asking" => ~LiveKey
    BY <1>4, Judges, Zenon
<1>6. /\ proc'[p].task = proc[p].task /\ proc'[p].key = proc[p].key
      /\ proc'[p].first = proc[p].first /\ proc'[p].pc = place
    BY <1>5, SMT DEF Goto, CalmInv, Inv, TypeOK, Local
<1>7. Placed(proc[p])' /\ TakenBack(proc[p])'
    BY <1>3, <1>5, <1>6, SMT DEF Placed, TakenBack, Enabling, Disabling
<1>8. Judged(proc[p])'
    <2>1. op' = [key |-> proc'[p].key, applied |-> proc'[p].first]
        BY <1>1, <1>3, <1>6, Zenon
    <2> QED
        BY <1>2, <1>3, <1>5, <1>6, <2>1, Zenon DEF Judged
<1> QED
    BY <1>7, <1>8 DEF Given

LEMMA AskGives == ASSUME CalmInv, NEW p \in Procs, Ask(p) PROVE Given(proc[p])'
<1>1. CASE Trouble("daemon")
    BY <1>1, FailsGives DEF AllTroubles
<1>2. CASE Goto(p, IF registered = {} THEN "clearing" ELSE "undoing") /\ Fine
    <2> SUFFICES ASSUME Calm' PROVE Given(proc[p])'
        BY DEF Given
    <2>1. UNCHANGED <<files, registered, happened>> /\ proc[p].pc = "asking"
        BY <1>2, Zenon DEF Ask, At, Fine
    <2>2. /\ proc'[p].task = proc[p].task
          /\ proc'[p].pc = IF registered = {} THEN "clearing" ELSE "undoing"
        BY <1>2, SMT DEF Goto, CalmInv, Inv, TypeOK, Local
    <2>3. Placed(proc[p]) /\ Judged(proc[p]) /\ LiveKey' = LiveKey
        BY <2>1, Calmly, SameFiles
    <2>4. ~LiveKey' /\ proc[p].task = "reconcile"
        BY <2>1, <2>3 DEF Judged, Placed
    <2> QED
        BY <2>1, <2>2, <2>4, SMT DEF Given, Placed, TakenBack, Judged, Enabling, Disabling
<1> QED
    BY <1>1, <1>2 DEF Ask

LEMMA CalmHolds == ASSUME OneClient PROVE Spec => []CalmInv
<1>1. Init => CalmInv
    <2> SUFFICES ASSUME Init PROVE CalmInv
        OBVIOUS
    <2>1. \A p \in Procs : proc[p].pc = "idle" /\ proc[p].task = "none"
        BY DEF Init, Rest
    <2>2. \A p \in Procs : Given(proc[p])
        BY <2>1, SMT DEF Given, Placed, TakenBack, Judged, Enabling, Disabling
    <2> QED
        BY <2>2, InitHolds DEF CalmInv
<1>2. CalmInv /\ [Next]_vars => CalmInv'
    <2> SUFFICES ASSUME CalmInv, [Next]_vars, NEW p \in Procs PROVE Given(proc[p])'
        BY StepHolds DEF CalmInv
    <2>1. CASE UNCHANGED vars
        <3>1. Given(proc[p]) /\ proc'[p] = proc[p]
            BY <2>1, Zenon DEF vars, CalmInv
        <3> QED
            BY <2>1, <3>1, Zenon DEF vars, Given, Calm, Placed, TakenBack, Judged, LiveKey,
                                     AnyCarries, Carries
    <2>2. CASE Step(p)
        <3>1. CASE Enable(p)         BY <3>1, EnableGives
        <3>2. CASE StartOp(p)        BY <3>2, StartOpGives
        <3>3. CASE Read(p)           BY <3>3, ReadGives
        <3>4. CASE Capture(p)        BY <3>4, CaptureGives
        <3>5. CASE Write(p)          BY <3>5, WriteGives
        <3>6. CASE WriteFails(p)     BY <3>6, WriteFailsGives
        <3>7. CASE RollBack(p)       BY <3>7, RollBackGives
        <3>8. CASE Uncapture(p)      BY <3>8, UncaptureGives
        <3>9. CASE Mark(p)           BY <3>9, EndGives DEF Mark
        <3>10. CASE Undo(p)          BY <3>10, UndoGives
        <3>11. CASE Restore(p)       BY <3>11, RestoreGives
        <3>12. CASE RestoreFails(p)  BY <3>12, FailsGives DEF RestoreFails, AllTroubles
        <3>13. CASE DropBackup(p)    BY <3>13, DropBackupGives
        <3>14. CASE Revoke(p)        BY <3>14, RevokeGives
        <3>15. CASE ClearOp(p)       BY <3>15, EndGives DEF ClearOp
        <3>16. CASE Disable(p)       BY <3>16, DisableGives
        <3>17. CASE Vet(p)           BY <3>17, VetGives
        <3>18. CASE Look(p)          BY <3>18, LookGives
        <3>19. CASE Rebuild(p)       BY <3>19, RebuildGives
        <3>20. CASE Strip(p)         BY <3>20, StripGives
        <3>21. CASE TearDown(p)      BY <3>21, TearDownGives
        <3>22. CASE Reconcile(p)     BY <3>22, ReconcileGives
        <3>23. CASE Judge(p)         BY <3>23, JudgeGives
        <3>24. CASE Ask(p)           BY <3>24, AskGives
        <3> QED
            BY <2>2, <3>1, <3>2, <3>3, <3>4, <3>5, <3>6, <3>7, <3>8, <3>9, <3>10, <3>11, <3>12,
               <3>13, <3>14, <3>15, <3>16, <3>17, <3>18, <3>19, <3>20, <3>21, <3>22, <3>23, <3>24
               DEF Step
    <2>3. CASE Crash(p)
        BY <2>3, CrashGives
    <2>4. CASE PutByHand
        BY <2>4, FailsGives DEF PutByHand, AllTroubles
    <2>5. CASE LoseBackup
        BY <2>5, FailsGives DEF LoseBackup, AllTroubles
    <2> QED
        BY <2>1, <2>2, <2>3, <2>4, <2>5, Zenon DEF Next, OneClient
<1> QED
    BY <1>1, <1>2, PTL DEF Spec

(* The one client's process, where there is a step.                          *)
LEMMA Takes ==
    ASSUME OneClient, [Next]_vars, NEW p \in Procs, proc'[p] # proc[p]
    PROVE  Step(p) \/ Crash(p)
BY Zenon DEF OneClient, Next, PutByHand, LoseBackup, vars

(* A calm command that is not through with its part goes on.                 *)
LEMMA NotThere ==
    ASSUME Calm' PROVE ~Trouble("row") /\ ~Trouble("daemon") /\ ~Trouble("putback")
BY DEF Trouble, Fail, Calm

LEMMA GoesOn ==
    ASSUME CalmInv, NEW p \in Procs, Calm',
           \/ StartOp(p) \/ Read(p) \/ Capture(p) \/ Write(p) \/ WriteFails(p) \/ RollBack(p)
           \/ Uncapture(p) \/ Undo(p) \/ Restore(p) \/ RestoreFails(p) \/ DropBackup(p)
           \/ Revoke(p) \/ Vet(p) \/ Look(p) \/ Rebuild(p) \/ TearDown(p) \/ Ask(p)
    PROVE  proc'[p].pc # "idle"
<1> USE DEF CalmInv, Inv, TypeOK, Local, Goto, At
<1>1. ~Trouble("row") /\ ~Trouble("daemon") /\ ~Trouble("putback")
    BY NotThere
<1>2. CASE StartOp(p)       BY <1>1, <1>2, SMT DEF StartOp
<1>3. CASE Read(p)
    BY <1>3, ReadsOn
<1>4. CASE Capture(p)       BY <1>4, CapturesOn
<1>5. CASE Write(p)         BY <1>5, SMT DEF Write
<1>6. CASE WriteFails(p)    BY <1>6, SMT DEF WriteFails
<1>7. CASE RollBack(p)      BY <1>7, SMT DEF RollBack
<1>8. CASE Uncapture(p)     BY <1>8, SMT DEF Uncapture
<1>9. CASE Undo(p)          BY <1>9, SMT DEF Undo
<1>10. CASE Restore(p)      BY <1>10, SMT DEF Restore
<1>11. CASE RestoreFails(p) BY <1>1, <1>11 DEF RestoreFails
<1>12. CASE DropBackup(p)   BY <1>12, SMT DEF DropBackup
<1>13. CASE Revoke(p)       BY <1>1, <1>13, SMT DEF Revoke
<1>14. CASE Vet(p)          BY <1>14, SMT DEF Vet
<1>15. CASE Look(p)         BY <1>15, SMT DEF Look
<1>16. CASE Rebuild(p)      BY <1>16, SMT DEF Rebuild
<1>17. CASE TearDown(p)     BY <1>1, <1>17, SMT DEF TearDown
<1>18. CASE Ask(p)          BY <1>1, <1>18, SMT DEF Ask
<1> QED
    BY <1>2, <1>3, <1>4, <1>5, <1>6, <1>7, <1>8, <1>9, <1>10, <1>11, <1>12, <1>13, <1>14, <1>15,
       <1>16, <1>17, <1>18

(* So it ends where its row is cleared, where it is marked, or, for a        *)
(* reconcile, where the row is found to be right.                            *)
LEMMA Endings ==
    ASSUME OneClient, CalmInv, [Next]_vars, NEW p \in Procs, Calm',
           NEW task \in {"enable", "disable", "reconcile"}, NEW how, EndsAs(p, task, how)
    PROVE  \/ ClearOp(p) /\ op' = None
           \/ Mark(p) /\ Fine /\ how = "done"
           \/ Judge(p) /\ End(p, "done")
<1>1. /\ proc[p].pc # "idle" /\ proc[p].task = task
      /\ proc'[p].pc = "idle" /\ proc'[p].task = task /\ proc'[p].end = how
    BY DEF EndsAs, At
<1>2. ~Trouble("row") /\ ~Trouble("daemon") /\ ~Trouble("putback")
    BY NotThere
<1>3. Step(p) \/ Crash(p)
    BY <1>1, Takes
<1>4. ~Crash(p)
    BY <1>1, SMT DEF Crash, Rest, CalmInv, Inv, TypeOK
<1>5. ~Enable(p) /\ ~Disable(p) /\ ~Reconcile(p)
    BY <1>1 DEF Enable, Disable, Reconcile, At
<1>6. ~Strip(p)
    <2>1. ASSUME Strip(p) PROVE FALSE
        <3>1. proc[p].pc = "stripping" /\ happened \subseteq happened'
            BY <2>1, Zenon DEF Strip, At, Fine, Trouble, Fail
        <3>2. Leaving(proc[p]) /\ Untouched
            BY <3>1, Calmly
        <3> QED
            BY <3>1, <3>2 DEF Leaving
    <2> QED
        BY <2>1
<1>7. ClearOp(p) \/ Mark(p) \/ Judge(p)
    BY <1>1, <1>3, <1>4, <1>5, <1>6, GoesOn DEF Step
<1>8. CASE ClearOp(p)
    BY <1>2, <1>8 DEF ClearOp
<1>9. CASE Mark(p)
    <2>1. Fine /\ End(p, "done")
        BY <1>2, <1>9, Zenon DEF Mark
    <2>2. proc'[p].end = "done"
        BY <2>1, SMT DEF End, CalmInv, Inv, TypeOK, Local
    <2> QED
        BY <1>1, <1>9, <2>1, <2>2
<1>10. CASE Judge(p)
    <2>1. ~End(p, "done") => \E place \in {"revoking", "marking", "asking"} : Goto(p, place)
        BY <1>10, Judges, Zenon
    <2>2. \A place \in {"revoking", "marking", "asking"} : ~Goto(p, place)
        BY <1>1, SMT DEF Goto, CalmInv, Inv, TypeOK, Local
    <2> QED
        BY <1>10, <2>1, <2>2
<1> QED
    BY <1>7, <1>8, <1>9, <1>10

(* What is there when the row of a calm command is cleared.                  *)
LEMMA Cleared ==
    ASSUME CalmInv, NEW p \in Procs, ClearOp(p), Calm'
    PROVE  /\ UNCHANGED <<files, backup, registered, own, route>>
           /\ registered = {} /\ ~LiveKey
           /\ AllCarry => files = own
           /\ proc[p].task # "reconcile" => backup = None
           /\ proc[p].task = "disable" => route = "none"
           /\ proc[p].task = "enable" /\ proc[p].had = "own" => route = "own"
<1>1. /\ UNCHANGED <<files, backup, registered, own, route>> /\ proc[p].pc = "clearing"
      /\ happened \subseteq happened'
    BY Zenon DEF ClearOp, At, Fine, Trouble, Fail
<1>2. TakenBack(proc[p]) /\ Untouched
    BY <1>1, Calmly
<1>3. AllCarry /\ ~LiveKey => files = own
    BY <1>2, CleanAreOwn DEF CalmInv
<1> QED
    BY <1>1, <1>2, <1>3, SMT DEF TakenBack

LEMMA OnlyWrites == ASSUME [Next]_vars, OnlyWritesFailed' PROVE Calm' /\ AllCarry
<1>1. ASSUME NEW p \in Procs, Step(p) PROVE shape' = shape
    <2>1. CASE Enable(p) \/ StartOp(p) \/ Read(p) \/ Capture(p) \/ Write(p) \/ WriteFails(p)
        BY <2>1, Zenon DEF Enable, StartOp, Read, Capture, Write, WriteFails
    <2>2. CASE RollBack(p) \/ Uncapture(p) \/ Mark(p) \/ Undo(p) \/ Restore(p) \/ RestoreFails(p)
        BY <2>2, Zenon DEF RollBack, Uncapture, Mark, Undo, Restore, RestoreFails
    <2>3. CASE DropBackup(p) \/ Revoke(p) \/ ClearOp(p) \/ Disable(p) \/ Vet(p) \/ Look(p)
        BY <2>3, Zenon DEF DropBackup, Revoke, ClearOp, Disable, Vet, Look
    <2>4. CASE Rebuild(p) \/ Strip(p) \/ TearDown(p) \/ Reconcile(p) \/ Judge(p) \/ Ask(p)
        BY <2>4, Zenon DEF Rebuild, Strip, TearDown, Reconcile, Judge, Ask
    <2> QED
        BY <1>1, <2>1, <2>2, <2>3, <2>4 DEF Step
<1>2. shape' = shape
    BY <1>1, Zenon DEF Next, Crash, PutByHand, LoseBackup, vars
<1> QED
    BY <1>2, Zenon DEF OnlyWritesFailed, Calm, AllCarry

-----------------------------------------------------------------------------
(* A disable that says it is done gives the files back as the user had them, *)
(* and no key, no route, no backup and no operation is left behind.          *)
THEOREM DisablesGiveBack == ASSUME OneClient PROVE Spec => DisableGivesBack
<1> DEFINE Back(p) ==
        OnlyWritesFailed' /\ EndsAs(p, "disable", "done") =>
            files' = own' /\ backup' = None /\ registered' = {} /\ op' = None /\ route' = "none"
           GivesBack == \A p \in Procs : Back(p)
<1>1. CalmInv /\ [Next]_vars => [GivesBack]_vars
    <2> SUFFICES ASSUME CalmInv, [Next]_vars, NEW p \in Procs,
                        OnlyWritesFailed', EndsAs(p, "disable", "done")
                 PROVE  /\ files' = own' /\ backup' = None /\ registered' = {}
                        /\ op' = None /\ route' = "none"
        BY Zenon
    <2>1. Calm' /\ AllCarry /\ proc[p].task = "disable" /\ proc[p].pc # "idle"
        BY OnlyWrites DEF EndsAs, At
    <2>2. ~Mark(p) /\ ~Judge(p)
        <3>1. ASSUME Mark(p) \/ Judge(p) PROVE FALSE
            <4>1. proc[p].pc \in {"marking", "judging"} /\ happened \subseteq happened'
                BY <2>1, <3>1, Judges, Zenon DEF Mark, At, Fine, Trouble, Fail
            <4>2. Placed(proc[p])
                BY <2>1, <4>1, Calmly
            <4> QED
                BY <2>1, <4>1, <4>2 DEF Placed
        <3> QED
            BY <3>1
    <2>3. ClearOp(p) /\ op' = None
        BY <2>1, <2>2, Endings
    <2> QED
        BY <2>1, <2>3, Cleared
<1>2. Spec => []CalmInv
    BY CalmHolds
<1> QED
    BY <1>1, <1>2, PTL DEF Spec, DisableGivesBack

(* An enable that fails or is refused after its registration takes all of it *)
(* back, and the route the user had before is still there.                   *)
THEOREM FailedEnablesAreUndone == ASSUME OneClient PROVE Spec => FailedEnableUndone
<1> DEFINE Undone(p) ==
        OnlyWritesFailed' /\ (EndsAs(p, "enable", "refused") \/ EndsAs(p, "enable", "failed")) =>
            /\ files' = own' /\ backup' = None /\ registered' = {} /\ op' = None
            /\ proc[p].had = "own" => route' = "own"
           AllUndone == \A p \in Procs : Undone(p)
<1>1. CalmInv /\ [Next]_vars => [AllUndone]_vars
    <2> SUFFICES ASSUME CalmInv, [Next]_vars, NEW p \in Procs, OnlyWritesFailed',
                        NEW how \in {"refused", "failed"}, EndsAs(p, "enable", how)
                 PROVE  /\ files' = own' /\ backup' = None /\ registered' = {} /\ op' = None
                        /\ proc[p].had = "own" => route' = "own"
        BY Zenon
    <2>1. Calm' /\ AllCarry /\ proc[p].task = "enable" /\ proc[p].pc # "idle"
        BY OnlyWrites DEF EndsAs, At
    <2>2. ~Judge(p)
        <3>1. ASSUME Judge(p) PROVE FALSE
            <4>1. proc[p].pc = "judging" /\ happened \subseteq happened'
                BY <2>1, <3>1, Judges
            <4>2. Placed(proc[p])
                BY <2>1, <4>1, Calmly
            <4> QED
                BY <2>1, <4>1, <4>2 DEF Placed
        <3> QED
            BY <3>1
    <2>3. ClearOp(p) /\ op' = None
        BY <2>1, <2>2, Endings
    <2> QED
        BY <2>1, <2>3, Cleared
<1>2. Spec => []CalmInv
    BY CalmHolds
<1> QED
    BY <1>1, <1>2, PTL DEF Spec, FailedEnableUndone

(* A reconcile that says it is done leaves a takeover that stands, or none.  *)
THEOREM ReconcilesConverge == ASSUME OneClient PROVE Spec => ReconcileConverges
<1> DEFINE Closed(p) ==
        OnlyWritesFailed' /\ EndsAs(p, "reconcile", "done") =>
            \/ op' # None /\ op'.applied /\ LiveKey'
            \/ op' = None /\ registered' = {} /\ ~LiveKey'
           AllClosed == \A p \in Procs : Closed(p)
<1>1. CalmInv /\ [Next]_vars => [AllClosed]_vars
    <2> SUFFICES ASSUME CalmInv, [Next]_vars, NEW p \in Procs,
                        OnlyWritesFailed', EndsAs(p, "reconcile", "done")
                 PROVE  \/ op' # None /\ op'.applied /\ LiveKey'
                        \/ op' = None /\ registered' = {} /\ ~LiveKey'
        BY Zenon
    <2>1. Calm' /\ proc[p].task = "reconcile" /\ proc[p].pc # "idle"
        BY OnlyWrites DEF EndsAs, At
    <2>2. CASE ClearOp(p) /\ op' = None
        <3>1. registered' = {} /\ ~LiveKey /\ UNCHANGED files
            BY <2>1, <2>2, Cleared
        <3> QED
            BY <2>2, <3>1, SameFiles
    <2>3. CASE Mark(p) /\ Fine
        <3>1. /\ proc[p].pc = "marking" /\ UNCHANGED <<files, happened>>
              /\ op' = IF op # None /\ op = [key |-> proc[p].key, applied |-> FALSE]
                       THEN [op EXCEPT !.applied = TRUE] ELSE op
            BY <2>1, <2>3, NotThere, Zenon DEF Mark, At, Fine
        <3>2. Judged(proc[p]) /\ TypeOK /\ LiveKey' = LiveKey
            BY <2>1, <3>1, Calmly, SameFiles
        <3>3. op = [key |-> proc[p].key, applied |-> proc[p].first] /\ ~proc[p].first /\ LiveKey
            BY <2>1, <3>1, <3>2 DEF Judged
        <3>4. proc[p].first = FALSE
            BY <2>1, <3>1, <3>3, Calmly DEF Local
        <3>5. op = [key |-> proc[p].key, applied |-> FALSE]
            BY <3>3, <3>4
        <3>6. op \in [key : Keys, applied : BOOLEAN]
            <4>1. op \in [key : Keys, applied : BOOLEAN] \/ op = None
                BY <3>2, Zenon DEF TypeOK
            <4>2. op # None
                BY <2>1, <3>1, <3>2 DEF Judged
            <4> QED
                BY <4>1, <4>2
        <3>7. op' = [op EXCEPT !.applied = TRUE]
            BY <3>1, <3>5, <3>6, NoneAssumption, Zenon
        <3>8. op' \in [key : Keys, applied : BOOLEAN] /\ op'.applied
            BY <3>6, <3>7
        <3> QED
            BY <3>2, <3>3, <3>8, NoneAssumption
    <2>4. CASE Judge(p) /\ End(p, "done")
        <3>1. /\ UNCHANGED <<files, op>> /\ proc[p].pc = "judging"
              /\ happened \subseteq happened'
            BY <2>1, <2>4, Judges
        <3>2. Judged(proc[p]) /\ LiveKey' = LiveKey
            BY <2>1, <3>1, Calmly, SameFiles
        <3>3. proc'[p].pc = "idle"
            BY DEF EndsAs
        <3>4. \A place \in {"revoking", "marking", "asking"} : ~Goto(p, place)
            BY <3>3, SMT DEF Goto, CalmInv, Inv, TypeOK, Local
        <3>5. proc[p].first /\ LiveKey
            BY <2>1, <2>4, <3>4, Judges, Zenon
        <3>6. op = [key |-> proc[p].key, applied |-> proc[p].first] /\ op # None
            BY <2>1, <3>1, <3>2 DEF Judged
        <3>7. op.applied = proc[p].first
            BY <3>6
        <3> QED
            BY <3>1, <3>2, <3>5, <3>6, <3>7, Zenon
    <2> QED
        BY <2>1, <2>2, <2>3, <2>4, Endings
<1>2. Spec => []CalmInv
    BY CalmHolds
<1> QED
    BY <1>1, <1>2, PTL DEF Spec, ReconcileConverges
=============================================================================
