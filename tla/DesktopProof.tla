---------------------------- MODULE DesktopProof ----------------------------
(***************************************************************************)
(* Theorems about the two components the desktop's programs share with the  *)
(* daemon, which have no variable in common.                                *)
(*                                                                          *)
(* Daemon, for any number of processes, versions, commands and crashes: the *)
(* state keeps its types, ports and sockets are held by processes that run, *)
(* and a daemon that serves is the one its clients reach.  The data port is *)
(* what makes the latter inductive: whoever is on the way to the socket has *)
(* it, so nobody else can be.                                               *)
(*                                                                          *)
(* HistoryImport, in the second part, for any number of requests, machines  *)
(* and scans.  That a request is counted twice only at the boundary rests   *)
(* on what was kept of a chunk staying old: whatever is metered between the *)
(* read of the watermark and the write is metered now, after it was sent.   *)
(* That scans are complete and re-price rests on what a scan has done and   *)
(* has left to do (Sound), which no other scan undoes: but for a price,     *)
(* which only a scan that overlapped it can take (Apart).                   *)
(***************************************************************************)
EXTENDS Daemon, HistoryImport, TLAPS

-----------------------------------------------------------------------------
(* Daemon.                                                                   *)


OnTheWay == {"binding", "probing", "reclaiming", "rebinding"}

HasThePort == \A d \in Daemons : at[d] \in OnTheWay \/ Serving(d) => port = d

Reached == ~raced => \A d \in Daemons : Serving(d) => file = d

NobodyRemovesIt == ~raced => \A d, e \in Daemons : Serving(d) => at[e] # "unlinking"

DaemonInv == DaemonTypeOK /\ HeldByTheLiving /\ HasThePort /\ Reached /\ NobodyRemovesIt

USE DEF Clients, Places, OnTheWay

LEMMA DaemonsStart == DaemonInit => DaemonInv
<1> SUFFICES ASSUME DaemonInit PROVE DaemonInv
    OBVIOUS
<1> USE DaemonAssumption DEF DaemonInit, None, Corpse, Exited
<1>1. PICK up \in {None} \cup Daemons :
          /\ at = [d \in Daemons |-> IF d = up THEN "serving" ELSE "off"]
          /\ accepting = {up} \cap Daemons
          /\ port = up
          /\ file \in IF up = None THEN {None, Corpse} ELSE {up}
    BY SMT
<1>2. DaemonTypeOK
  <2>1. /\ at \in [Daemons -> Places] /\ version \in [Daemons -> 1..MaxVersion]
        /\ stopping \in SUBSET Daemons /\ accepting \in SUBSET Daemons
        /\ port \in {None} \cup Daemons /\ file \in {None, Corpse} \cup Daemons
        /\ installed \in 1..MaxVersion /\ raced \in BOOLEAN
        /\ starts \in Nat /\ commands \in Nat /\ crashes \in Nat
    <3>1. at \in [Daemons -> Places]
      BY <1>1, SMT
    <3>2. version \in [Daemons -> 1..MaxVersion] /\ installed \in 1..MaxVersion
      BY SMT
    <3>3. accepting \in SUBSET Daemons
      BY <1>1, Zenon
    <3>4. file \in {None, Corpse} \cup Daemons
      BY <1>1, SMT
    <3>5. raced \in BOOLEAN
      BY Zenon
    <3>6. stopping \in SUBSET Daemons /\ port \in {None} \cup Daemons
      BY <1>1, Zenon
    <3>7. starts \in Nat /\ commands \in Nat /\ crashes \in Nat
      BY SMT
    <3> QED
      BY <3>1, <3>2, <3>3, <3>4, <3>5, <3>6, <3>7, Zenon
  <2>2. app \in [up : BOOLEAN, child : {None, Exited} \cup Daemons, follows : {None} \cup Daemons]
    BY SMT
  <2>3. watch \in [at : {"sleep", "ping", "respawn", "spawn"}, child : {None, Exited, "running"}]
    BY SMT DEF Asleep
  <2>4. job \in [Clients -> [goal : {None, "start", "stop", "restart"},
                            at : {"idle", "asking", "stopping", "waiting", "spawning"}]]
    <3> DEFINE J == [goal : {None, "start", "stop", "restart"},
                     at : {"idle", "asking", "stopping", "waiting", "spawning"}]
    <3>1. NoJob \in J
      BY SMT DEF NoJob
    <3>2. job = [c \in Clients |-> NoJob]
      OBVIOUS
    <3> HIDE DEF J
    <3>3. job \in [Clients -> J]
      BY <3>1, <3>2, Zenon
    <3> QED
      BY <3>3 DEF J
  <2> QED
    BY <2>1, <2>2, <2>3, <2>4 DEF DaemonTypeOK
<1>3. HeldByTheLiving
    BY <1>1, SMT DEF HeldByTheLiving
<1>4. HasThePort /\ Reached /\ NobodyRemovesIt
    BY <1>1, SMT DEF HasThePort, Reached, NobodyRemovesIt, Serving
<1> QED
    BY <1>2, <1>3, <1>4 DEF DaemonInv

Apps == [up : BOOLEAN, child : {None, Exited} \cup Daemons, follows : {None} \cup Daemons]

LEMMA AppTyped ==
    ASSUME app \in Apps,
           NEW child \in {None, Exited} \cup Daemons, NEW follows \in {None} \cup Daemons,
           app' = [app EXCEPT !.child = child, !.follows = follows]
    PROVE  app' \in Apps
BY Zenon DEF Apps

(* A process ends, whatever it was at.                                       *)
LEMMA ExitKeeps ==
    ASSUME DaemonInv, NEW d \in Daemons, Exits(d), crashes' \in Nat PROVE DaemonInv'
<1> USE DaemonAssumption DEF DaemonInv, DaemonTypeOK, Exits, Goes, None, Corpse, Exited
<1>1. app' \in Apps
  <2> DEFINE child   == IF app.child = d THEN Exited ELSE app.child
             follows == IF app.follows = d THEN None ELSE app.follows
  <2>1. app' = [app EXCEPT !.child = child, !.follows = follows]
    BY Zenon
  <2>2. app.child \in {None, Exited} \cup Daemons /\ app.follows \in {None} \cup Daemons
    BY SMT
  <2>3. child \in {None, Exited} \cup Daemons /\ follows \in {None} \cup Daemons
    BY <2>2, SMT
  <2>4. app \in Apps
    BY Zenon DEF Apps
  <2> HIDE DEF child, follows
  <2> QED
    BY <2>1, <2>3, <2>4, AppTyped
<1>2. DaemonTypeOK'
    BY <1>1, SMT DEF Apps
<1>3. /\ app'.child \in Daemons => app'.child # d /\ app'.child = app.child
      /\ app'.follows # None => app'.follows # d /\ app'.follows = app.follows
    BY SMT
<1>4. HeldByTheLiving'
    BY <1>3, SMT DEF HeldByTheLiving
<1>5. HasThePort' /\ Reached' /\ NobodyRemovesIt'
    BY SMT DEF HasThePort, Reached, NobodyRemovesIt, Serving
<1> QED
    BY <1>2, <1>4, <1>5

(* The socket is taken by whoever has the port.                              *)
LEMMA ServeKeeps ==
    ASSUME DaemonInv, NEW d \in Daemons, at[d] \in OnTheWay, Serves(d), UNCHANGED crashes, file = None
    PROVE  DaemonInv'
<1> USE DaemonAssumption DEF DaemonInv, DaemonTypeOK, Serves, Goes, clients, None, Corpse, Exited
<1>1. DaemonTypeOK'
  <2>1. raced' \in BOOLEAN
    BY Zenon
  <2>2. at' \in [Daemons -> Places] /\ accepting' \in SUBSET Daemons /\ file' \in Daemons
    BY SMT
  <2>3. UNCHANGED <<version, stopping, port, app, watch, job, installed, starts, commands, crashes>>
    BY Zenon
  <2> QED
    BY <2>1, <2>2, <2>3, ZenonT(40)
<1>2. HeldByTheLiving'
    BY SMT DEF HeldByTheLiving, HasThePort
<1>3. HasThePort' /\ \A e \in Daemons : Serving(e)' => e = d
    BY SMT DEF HasThePort, Serving
<1>4. ~raced' => \A e \in Daemons : at[e] # "unlinking"
    BY Zenon
<1>5. \A e \in Daemons : at'[e] = "unlinking" => at[e] = "unlinking"
    BY SMT
<1>6. Reached' /\ NobodyRemovesIt'
    BY <1>3, <1>4, <1>5, Zenon DEF Reached, NobodyRemovesIt
<1> QED
    BY <1>1, <1>2, <1>3, <1>6

(* On its way to the socket, a daemon goes from place to place.              *)
LEMMA MovingOnKeeps ==
    ASSUME DaemonInv, NEW d \in Daemons, at[d] \in OnTheWay, NEW place \in OnTheWay, Goes(d, place),
           file' \in {file, None},
           UNCHANGED <<version, stopping, accepting, port, raced, clients>>, UNCHANGED crashes
    PROVE  DaemonInv'
<1> USE DaemonAssumption DEF DaemonInv, DaemonTypeOK, Goes, clients, None, Corpse, Exited
<1>1. DaemonTypeOK'
    BY SMT
<1>2. HeldByTheLiving'
    BY SMT DEF HeldByTheLiving
<1>3. HasThePort' /\ Reached' /\ NobodyRemovesIt'
    BY SMT DEF HasThePort, Reached, NobodyRemovesIt, Serving
<1> QED
    BY <1>1, <1>2, <1>3

(* What a client does to its own state disturbs no daemon.                   *)
LEMMA ClientKeeps ==
    ASSUME DaemonInv, UNCHANGED <<daemons, crashes>>,
           app' \in Apps,
           app'.child \in Daemons => at[app'.child] # "off",
           app'.follows # None => at[app'.follows] = "serving",
           watch' \in [at : {"sleep", "ping", "respawn", "spawn"}, child : {None, Exited, "running"}],
           job' \in [Clients -> [goal : {None, "start", "stop", "restart"},
                                at : {"idle", "asking", "stopping", "waiting", "spawning"}]],
           installed' \in 1..MaxVersion, starts' \in Nat, commands' \in Nat
    PROVE  DaemonInv'
<1> USE DEF DaemonInv, daemons
<1>1. DaemonTypeOK'
    BY Zenon DEF DaemonTypeOK, Apps
<1>2. HeldByTheLiving'
    BY SMT DEF HeldByTheLiving
<1>3. HasThePort' /\ Reached' /\ NobodyRemovesIt'
    BY Zenon DEF HasThePort, Reached, NobodyRemovesIt, Serving
<1> QED
    BY <1>1, <1>2, <1>3

Job == [goal : {None, "start", "stop", "restart"},
        at : {"idle", "asking", "stopping", "waiting", "spawning"}]
Jobs == [Clients -> Job]

LEMMA JobTyped ==
    ASSUME job \in Jobs, NEW c \in Clients,
           NEW goal \in {None, "start", "stop", "restart"},
           NEW place \in {"idle", "asking", "stopping", "waiting", "spawning"},
           Does(c, goal, place) \/ Finishes(c)
    PROVE  job' \in Jobs
<1>1. [goal |-> goal, at |-> place] \in Job /\ NoJob \in Job
    BY SMT DEF Job, NoJob
<1>2. PICK j \in Job : job' = [job EXCEPT ![c] = j]
    BY <1>1, Zenon DEF Does, Finishes
<1> QED
    BY <1>2, Zenon DEF Jobs

(* A slot is taken by a new process.                                         *)
LEMMA SpawnKeeps ==
    ASSUME DaemonInv, NEW d \in Daemons, Spawned(d),
           app' \in Apps, app'.child = d \/ app'.child = app.child, app'.follows = app.follows,
           watch' \in [at : {"sleep", "ping", "respawn", "spawn"}, child : {None, Exited, "running"}],
           job' \in Jobs
    PROVE  DaemonInv'
<1> USE DaemonAssumption DEF DaemonInv, DaemonTypeOK, Spawned, Goes, None, Corpse, Exited
<1>1. version' \in [Daemons -> 1..MaxVersion] /\ at' \in [Daemons -> Places]
    BY SMT
<1>2. UNCHANGED <<stopping, accepting, port, file, raced, installed, starts, commands, crashes>>
    BY Zenon
<1>3. DaemonTypeOK'
    BY <1>1, <1>2, ZenonT(40) DEF Apps, Jobs, Job
<1>4. HeldByTheLiving'
    BY SMT DEF HeldByTheLiving
<1>5. HasThePort' /\ Reached' /\ NobodyRemovesIt'
    BY SMT DEF HasThePort, Reached, NobodyRemovesIt, Serving
<1> QED
    BY <1>3, <1>4, <1>5

LEMMA DaemonStep == ASSUME DaemonInv, NEW d \in Daemons, Run(d) \/ Crash(d) PROVE DaemonInv'
<1> USE DEF OnTheWay
<1>1. crashes' \in Nat
    BY SMT DEF DaemonInv, DaemonTypeOK, Run, BindData, BindAdmin, Probe, Reclaim, Rebind, CloseData, CloseAdmin,
               Drain, Cleanup, Unlink, Crash
<1>2. CASE Exits(d)
    BY <1>1, <1>2, ExitKeeps
<1>3. CASE BindData(d) /\ ~Exits(d)
    <2> USE <1>3, DaemonAssumption DEF BindData, Goes, DaemonInv, DaemonTypeOK, clients, None, Corpse, Exited
    <2>1. DaemonTypeOK'
        BY SMT
    <2>2. HeldByTheLiving'
        BY SMT DEF HeldByTheLiving
    <2>3. HasThePort' /\ Reached' /\ NobodyRemovesIt'
        BY SMT DEF HasThePort, Reached, NobodyRemovesIt, Serving
    <2> QED
        BY <2>1, <2>2, <2>3
<1>4. CASE BindAdmin(d) /\ ~Exits(d)
    <2>1. CASE file = None
        BY <1>4, <2>1, ServeKeeps DEF BindAdmin
    <2>2. CASE file # None
        <3>1. /\ at[d] \in OnTheWay /\ Goes(d, "probing") /\ file' = file
              /\ UNCHANGED <<version, stopping, accepting, port, raced, clients>> /\ UNCHANGED crashes
            BY <1>4, <2>2, Zenon DEF BindAdmin
        <3>2. "probing" \in OnTheWay /\ file' \in {file, None}
            BY <3>1
        <3> HIDE DEF OnTheWay
        <3> QED
            BY <3>1, <3>2, MovingOnKeeps
    <2> QED
        BY <2>1, <2>2
<1>5. CASE Probe(d) /\ ~Exits(d)
    <2>1. /\ at[d] \in OnTheWay /\ Goes(d, "reclaiming") /\ file' = file
          /\ UNCHANGED <<version, stopping, accepting, port, raced, clients>> /\ UNCHANGED crashes
        BY <1>5, Zenon DEF Probe
    <2>2. "reclaiming" \in OnTheWay /\ file' \in {file, None}
        BY <2>1
    <2> HIDE DEF OnTheWay
    <2> QED
        BY <2>1, <2>2, MovingOnKeeps
<1>6. CASE Reclaim(d) /\ ~Exits(d)
    <2>1. /\ at[d] = "reclaiming" /\ Goes(d, "rebinding") /\ file' = None
          /\ UNCHANGED <<version, stopping, accepting, port, raced, clients>> /\ UNCHANGED crashes
        BY <1>6, Zenon DEF Reclaim
    <2>2. "rebinding" \in OnTheWay /\ at[d] \in OnTheWay /\ file' \in {file, None}
        BY <2>1
    <2> HIDE DEF OnTheWay
    <2> QED
        BY <2>1, <2>2, MovingOnKeeps
<1>7. CASE Rebind(d) /\ ~Exits(d)
    BY <1>7, ServeKeeps DEF Rebind
<1>8. CASE CloseData(d)
    <2> USE <1>8, DaemonAssumption DEF CloseData, DaemonInv, DaemonTypeOK, clients, None, Corpse, Exited
    <2>1. DaemonTypeOK'
        BY SMT
    <2>2. HeldByTheLiving'
        BY SMT DEF HeldByTheLiving
    <2>3. HasThePort' /\ Reached' /\ NobodyRemovesIt'
        BY SMT DEF HasThePort, Reached, NobodyRemovesIt, Serving
    <2> QED
        BY <2>1, <2>2, <2>3
<1>9. CASE CloseAdmin(d)
    <2> USE <1>9, DaemonAssumption DEF CloseAdmin, DaemonInv, DaemonTypeOK, clients, None, Corpse, Exited
    <2>1. DaemonTypeOK'
        BY SMT
    <2>2. HeldByTheLiving'
        BY SMT DEF HeldByTheLiving
    <2>3. HasThePort' /\ Reached' /\ NobodyRemovesIt'
        BY SMT DEF HasThePort, Reached, NobodyRemovesIt, Serving
    <2> QED
        BY <2>1, <2>2, <2>3
<1>10. CASE Drain(d)
    <2> USE <1>10, DaemonAssumption DEF Drain, Goes, DaemonInv, DaemonTypeOK, clients, None, Corpse, Exited
    <2>1. DaemonTypeOK'
        BY SMT
    <2>2. HeldByTheLiving'
        BY SMT DEF HeldByTheLiving
    <2>3. HasThePort' /\ Reached' /\ NobodyRemovesIt'
        BY SMT DEF HasThePort, Reached, NobodyRemovesIt, Serving
    <2> QED
        BY <2>1, <2>2, <2>3
<1>11. CASE Cleanup(d) /\ ~Exits(d)
    <2> USE <1>11, DaemonAssumption
        DEF Cleanup, Answers, Goes, DaemonInv, DaemonTypeOK, clients, None, Corpse, Exited
    <2>1. DaemonTypeOK'
        BY SMT
    <2>2. HeldByTheLiving'
        BY SMT DEF HeldByTheLiving
    <2>3. HasThePort' /\ Reached' /\ NobodyRemovesIt'
        BY SMT DEF HasThePort, Reached, NobodyRemovesIt, Serving
    <2> QED
        BY <2>1, <2>2, <2>3
<1>12. CASE Unlink(d)
    <2> USE <1>12, DaemonAssumption DEF Unlink, Goes, DaemonInv, DaemonTypeOK, None, Corpse, Exited
    <2> DEFINE child == IF app.child = d THEN Exited ELSE app.child
    <2>1. app' = [app EXCEPT !.child = child]
        BY Zenon
    <2>2. child \in {None, Exited} \cup Daemons
        BY SMT
    <2>3. app' \in Apps /\ app'.follows = app.follows /\ app'.child = child
        <3> HIDE DEF child
        <3> QED
            BY <2>1, <2>2, Zenon DEF Apps
    <2>4. DaemonTypeOK'
        BY <2>3, SMT DEF Apps
    <2>5. HeldByTheLiving'
        BY <2>3, SMT DEF HeldByTheLiving
    <2>6. HasThePort' /\ Reached' /\ NobodyRemovesIt'
        BY SMT DEF HasThePort, Reached, NobodyRemovesIt, Serving
    <2> QED
        BY <2>4, <2>5, <2>6
<1> QED
    BY <1>2, <1>3, <1>4, <1>5, <1>6, <1>7, <1>8, <1>9, <1>10, <1>11, <1>12 DEF Run, Crash

LEMMA ClientStep ==
    ASSUME DaemonInv,
           StartApp \/ QuitApp \/ (\E goal \in {"start", "stop", "restart"} : Command(goal))
    PROVE  DaemonInv'
<1> USE DaemonAssumption
<1>1. app \in Apps /\ job \in Jobs
    BY DEF DaemonInv, DaemonTypeOK, Apps, Jobs, Job
<1>2. CASE StartApp
    <2>1. PICK v \in installed..MaxVersion : installed' = v
        BY <1>2 DEF StartApp
    <2>2. installed' \in 1..MaxVersion /\ starts' \in Nat /\ commands' \in Nat
        BY <1>2, <2>1, SMT DEF StartApp, DaemonInv, DaemonTypeOK
    <2>3. app' = [app EXCEPT !.up = TRUE]
        BY <1>2 DEF StartApp
    <2>4. app' \in Apps /\ app'.child = app.child /\ app'.follows = app.follows
        BY <1>1, <2>3, Zenon DEF Apps
    <2>5. job' \in Jobs
        BY <1>1, <1>2, JobTyped DEF StartApp
    <2> QED
        BY <1>2, <2>2, <2>4, <2>5, ClientKeeps, SMT
        DEF StartApp, DaemonInv, DaemonTypeOK, HeldByTheLiving, Jobs, Job
<1>3. CASE QuitApp
    <2>1. app' \in Apps /\ app'.child = None /\ app'.follows = None
        BY <1>3, SMT DEF QuitApp, Apps
    <2>2. job' \in Jobs
        BY <1>1, <1>3, JobTyped DEF QuitApp
    <2>3. watch' \in [at : {"sleep", "ping", "respawn", "spawn"}, child : {None, Exited, "running"}]
        BY <1>3, SMT DEF QuitApp, Asleep
    <2> QED
        BY <1>3, <2>1, <2>2, <2>3, ClientKeeps, SMT
        DEF QuitApp, DaemonInv, DaemonTypeOK, None, Jobs, Job
<1>4. ASSUME NEW goal \in {"start", "stop", "restart"}, Command(goal) PROVE DaemonInv'
    <2>1. job' \in Jobs
        BY <1>1, <1>4, JobTyped DEF Command
    <2>2. commands' \in Nat
        BY <1>4, SMT DEF Command, DaemonInv, DaemonTypeOK
    <2> QED
        BY <1>1, <1>4, <2>1, <2>2, ClientKeeps, SMT
        DEF Command, DaemonInv, DaemonTypeOK, HeldByTheLiving, Jobs, Job, Apps
<1> QED
    BY <1>2, <1>3, <1>4

(* A request to stop goes to a daemon that runs: it answered.                *)
LEMMA StopRequestKeeps ==
    ASSUME DaemonInv, file \in Daemons, stopping' = stopping \cup {file}, job' \in Jobs,
           UNCHANGED <<at, version, accepting, port, file, raced, app, watch, installed, starts,
                       commands, crashes>>
    PROVE  DaemonInv'
<1> USE DEF DaemonInv
<1>1. DaemonTypeOK'
    BY Zenon DEF DaemonTypeOK, Jobs, Job
<1>2. at[file] # "off"
    BY SMT DEF HeldByTheLiving
<1>3. HeldByTheLiving'
    BY <1>2, SMT DEF HeldByTheLiving
<1>4. HasThePort' /\ Reached' /\ NobodyRemovesIt'
    BY SMT DEF HasThePort, Reached, NobodyRemovesIt, Serving
<1> QED
    BY <1>1, <1>3, <1>4

LEMMA ActStep == ASSUME DaemonInv, NEW c \in Clients, Act(c) PROVE DaemonInv'
<1>1. app \in Apps /\ job \in Jobs
    BY DEF DaemonInv, DaemonTypeOK, Apps, Jobs, Job
<1>2. job[c] \in Job
    BY <1>1, Zenon DEF Jobs
<1>3. job[c].goal \in {None, "start", "stop", "restart"}
    BY <1>2, Zenon DEF Job
<1>4. CASE Ask(c)
    <2>1. job' \in Jobs
        BY <1>1, <1>4, JobTyped DEF Ask
    <2> QED
        BY <1>1, <1>4, <2>1, ClientKeeps, SMT
        DEF Ask, DaemonInv, DaemonTypeOK, HeldByTheLiving, Jobs, Job, Apps
<1>5. CASE AskToStop(c)
    <2>1. job' \in Jobs
        BY <1>1, <1>3, <1>5, JobTyped DEF AskToStop
    <2>2. CASE Answers
        BY <1>5, <2>1, <2>2, StopRequestKeeps, SMT DEF AskToStop, Answers
    <2>3. CASE ~Answers
        BY <1>1, <1>5, <2>1, <2>3, ClientKeeps, SMT
        DEF AskToStop, DaemonInv, DaemonTypeOK, HeldByTheLiving, Jobs, Job, Apps, daemons
    <2> QED
        BY <2>2, <2>3
<1>6. CASE AwaitStop(c)
    <2>1. job' \in Jobs
        BY <1>1, <1>6, JobTyped DEF AwaitStop
    <2> QED
        BY <1>1, <1>6, <2>1, ClientKeeps, SMT
        DEF AwaitStop, DaemonInv, DaemonTypeOK, HeldByTheLiving, Jobs, Job, Apps
<1>7. CASE Spawn(c)
    <2>1. job' \in Jobs
        BY <1>1, <1>7, JobTyped DEF Spawn
    <2>2. PICK d \in Daemons :
              Spawned(d) /\ app' = IF c = "app" THEN [app EXCEPT !.child = d] ELSE app
        BY <1>7 DEF Spawn
    <2>3. app' \in Apps /\ (app'.child = d \/ app'.child = app.child) /\ app'.follows = app.follows
        BY <1>1, <2>2, Zenon DEF Apps
    <2> QED
        BY <1>7, <2>1, <2>2, <2>3, SpawnKeeps, SMT DEF Spawn, DaemonInv, DaemonTypeOK
<1> QED
    BY <1>4, <1>5, <1>6, <1>7 DEF Act

LEMMA AppStep == ASSUME DaemonInv, Watch \/ Follow PROVE DaemonInv'
<1>1. app \in Apps /\ job \in Jobs
    BY DEF DaemonInv, DaemonTypeOK, Apps, Jobs, Job
<1> DEFINE Watching == [at : {"sleep", "ping", "respawn", "spawn"}, child : {None, Exited, "running"}]
<1>2. watch \in Watching /\ Asleep \in Watching
    BY SMT DEF DaemonInv, DaemonTypeOK, Asleep
<1>3. ASSUME WatchChild \/ WatchPing \/ WatchAgain PROVE DaemonInv'
    <2>1. watch' \in Watching
        <3>1. CASE WatchChild
            BY <1>1, <3>1, SMT DEF WatchChild, Apps
        <3>2. CASE WatchPing \/ WatchAgain
            <4>1. \E place \in {"respawn", "spawn"} :
                      watch' = Asleep \/ watch' = [watch EXCEPT !.at = place]
                BY <3>2, Zenon DEF WatchPing, WatchAgain
            <4> QED
                BY <1>2, <4>1, SMT
        <3> QED
            BY <1>3, <3>1, <3>2
    <2>2. app' = app \/ app' = [app EXCEPT !.child = None]
        BY <1>3, Zenon DEF WatchChild, WatchPing, WatchAgain
    <2>3. app' \in Apps /\ app'.child \in {app.child, None} /\ app'.follows = app.follows
        BY <1>1, <2>2, Zenon DEF Apps
    <2>4. UNCHANGED <<daemons, job, installed, starts, commands, crashes>>
        BY <1>3, Zenon DEF WatchChild, WatchPing, WatchAgain
    <2>5. app'.child \in Daemons => at[app'.child] # "off"
        BY <2>3, SMT, DaemonAssumption DEF DaemonInv, HeldByTheLiving, None
    <2>6. app'.follows # None => at[app'.follows] = "serving"
        BY <2>3, SMT DEF DaemonInv, HeldByTheLiving
    <2> QED
        BY <1>1, <2>1, <2>3, <2>4, <2>5, <2>6, ClientKeeps DEF DaemonInv, DaemonTypeOK, Jobs, Job
<1>4. CASE WatchSpawn
    <2>1. PICK d \in Daemons : Spawned(d) /\ app' = [app EXCEPT !.child = d]
        BY <1>4 DEF WatchSpawn
    <2>2. app' \in Apps /\ app'.child = d /\ app'.follows = app.follows
        BY <1>1, <2>1, Zenon DEF Apps
    <2> QED
        BY <1>1, <1>2, <1>4, <2>1, <2>2, SpawnKeeps DEF WatchSpawn
<1>5. CASE Follow
    <2>1. file \in Daemons /\ app' = [app EXCEPT !.follows = file]
        BY <1>5 DEF Follow, Answers
    <2>2. app' \in Apps /\ app'.child = app.child /\ app'.follows = file
        BY <1>1, <2>1, Zenon DEF Apps
    <2>3. at[file] = "serving"
        BY <2>1, SMT DEF DaemonInv, HeldByTheLiving
    <2>4. UNCHANGED <<daemons, watch, job, installed, starts, commands, crashes>>
        BY <1>5 DEF Follow
    <2> QED
        BY <1>1, <1>2, <2>2, <2>3, <2>4, ClientKeeps, SMT
        DEF DaemonInv, DaemonTypeOK, HeldByTheLiving, Jobs, Job
<1> QED
    BY <1>3, <1>4, <1>5 DEF Watch

LEMMA DaemonNextHolds == DaemonInv /\ [DaemonNext]_daemonVars => DaemonInv'
<1>1. ASSUME DaemonInv, UNCHANGED daemonVars PROVE DaemonInv'
    <2>1. HeldByTheLiving'
        BY <1>1, SMT DEF daemonVars, DaemonInv, HeldByTheLiving
    <2>2. UNCHANGED <<at, version, stopping, accepting, port, file, app, watch, job, installed>>
            /\ UNCHANGED <<starts, commands, crashes, raced>>
        BY <1>1, Zenon DEF daemonVars
    <2>3. DaemonTypeOK'
        BY <1>1, <2>2, ZenonT(40) DEF DaemonInv, DaemonTypeOK
    <2>4. HasThePort' /\ Reached' /\ NobodyRemovesIt'
        BY <1>1, Zenon DEF daemonVars, DaemonInv, HasThePort, Reached, NobodyRemovesIt, Serving
    <2> QED
        BY <2>1, <2>3, <2>4 DEF DaemonInv
<1> QED
    BY <1>1, DaemonStep, ClientStep, ActStep, AppStep DEF DaemonNext

LEMMA DaemonInvHolds == DaemonSpec => []DaemonInv
BY DaemonsStart, DaemonNextHolds, PTL DEF DaemonSpec

(* State, slots and clients keep their types, for any number of processes.   *)
THEOREM DaemonTypeCorrect == DaemonSpec => []DaemonTypeOK
<1>1. DaemonInv => DaemonTypeOK
    BY DEF DaemonInv
<1> QED
    BY <1>1, DaemonInvHolds, PTL

(* Port, socket, children and subscriptions are of processes that run:       *)
(* nothing that ended is still held to serve.                                *)
THEOREM TheDeadHoldNothing == DaemonSpec => []HeldByTheLiving
<1>1. DaemonInv => HeldByTheLiving
    BY DEF DaemonInv
<1> QED
    BY <1>1, DaemonInvHolds, PTL

(* Whatever else starts, dies or cleans up, a daemon that serves has the     *)
(* data port and, but for the window of a cleanup, the socket's name.        *)
THEOREM ServingDaemonsAreReached == DaemonSpec => []ServesBothPlanes
<1>1. DaemonInv => ServesBothPlanes
    BY Zenon DEF DaemonInv, HasThePort, Reached, ServesBothPlanes
<1> QED
    BY <1>1, DaemonInvHolds, PTL

-----------------------------------------------------------------------------
(* HistoryImport.                                                            *)

ScanPlaces == {"idle", "checking", "reading", "sending", "applying", "done"}

Scan == [at : ScanPlaces, read : SUBSET Requests, left : SUBSET Requests,
         chunk : SUBSET Requests, kept : SUBSET Requests,
         first : BOOLEAN, rated : BOOLEAN, priced : BOOLEAN, alone : BOOLEAN]

SentBeforeSaid ==
    \A r \in Requests : said[r] # 0 =>
        began[r] # 0 /\ (said[r] # NoTs => began[r] <= said[r])

(* A row that may be in the ledger next to what was metered.                 *)
Early(r) == \A q \in Requests : said[r] # NoTs /\ metered[q] # 0 => began[r] <= metered[q]

ScansHoldRows == \A s \in Scanners : \A r \in scan[s].left \cup scan[s].kept : said[r] # 0

KeptIsOld ==
    \A s \in Scanners : \A r \in scan[s].kept : Early(r)

ImportsAreRows == \A r \in Imported : said[r] # 0

Inv == TypeOK /\ SentBeforeSaid /\ ScansHoldRows /\ KeptIsOld /\ ImportsAreRows
              /\ TwiceOnlyAtTheBoundary

LEMMA NoScanTyped == NoScan \in Scan
BY SMT DEF NoScan, Scan, ScanPlaces

(* One scan moves, the others stay as they are.                              *)
LEMMA ScanTyped ==
    ASSUME scan \in [Scanners -> Scan], NEW s \in Scanners, NEW l \in Scan,
           scan' = [scan EXCEPT ![s] = l]
    PROVE  /\ scan' \in [Scanners -> Scan]
           /\ scan'[s] = l
           /\ \A n \in Scanners : n # s => scan'[n] = scan[n]
BY Zenon

(* A date that is set is not of the future.                                  *)
LEMMA DateTyped ==
    ASSUME NEW ts \in 0..now, NEW r \in Requests, NEW dates \in [Requests -> 0..now],
           NEW then, then = dates \/ then = [dates EXCEPT ![r] = ts]
    PROVE  then \in [Requests -> 0..now]
BY Zenon

(* What the start of another scan leaves of one.                             *)
Alike(a, b) ==
    /\ a.at = b.at /\ a.read = b.read /\ a.left = b.left /\ a.chunk = b.chunk /\ a.kept = b.kept
    /\ a.first = b.first /\ a.rated = b.rated /\ a.priced = b.priced
    /\ a.alone => b.alone

Empty(l) ==
    /\ l.read = {} /\ l.left = {} /\ l.chunk = {} /\ l.kept = {}
    /\ l.first = TRUE /\ l.rated = FALSE

LEMMA Started ==
    ASSUME TypeOK, NEW s \in Scanners, NEW place \in ScanPlaces, Starts(s, place)
    PROVE  /\ UNCHANGED <<now, traffic, ledger, rates, home>>
           /\ scan' \in [Scanners -> Scan]
           /\ Empty(scan'[s]) /\ scan'[s].at = place
           /\ \A t \in Scanners : t # s => Alike(scan'[t], scan[t])
           /\ \A t \in Scanners : t # s /\ home[t] = home[s] /\ ~Resting(t) =>
                  ~scan'[s].alone /\ ~scan'[t].alone
<1> DEFINE others == {t \in Scanners \ {s} : home[t] = home[s] /\ ~Resting(t)}
           l == [NoScan EXCEPT !.at = place, !.alone = others = {}]
           Joined(a) == [a EXCEPT !.alone = FALSE]
<1>1. /\ UNCHANGED <<now, traffic, ledger, rates, home>>
      /\ scan' = [t \in Scanners |-> IF t = s THEN l
                                     ELSE IF t \in others THEN Joined(scan[t]) ELSE scan[t]]
    BY Zenon DEF Starts
<1>2. (others = {}) \in BOOLEAN
    OBVIOUS
<1>3. l \in Scan /\ Empty(l) /\ l.at = place /\ l.alone = (others = {})
    <2>1. l \in Scan
        BY <1>2, NoScanTyped, Zenon DEF Scan
    <2>2. /\ l.at = place /\ l.alone = (others = {})
          /\ l.read = NoScan.read /\ l.left = NoScan.left /\ l.chunk = NoScan.chunk
          /\ l.kept = NoScan.kept /\ l.first = NoScan.first /\ l.rated = NoScan.rated
        BY NoScanTyped, Zenon DEF Scan
    <2> HIDE DEF l, others
    <2> QED
        BY <2>1, <2>2, SMT DEF NoScan, Empty
<1>4. ASSUME NEW a \in Scan
      PROVE  Joined(a) \in Scan /\ Alike(Joined(a), a) /\ ~Joined(a).alone
    <2>1. /\ Joined(a) \in Scan /\ Joined(a).alone = FALSE
          /\ Joined(a).at = a.at /\ Joined(a).read = a.read /\ Joined(a).left = a.left
          /\ Joined(a).chunk = a.chunk /\ Joined(a).kept = a.kept /\ Joined(a).first = a.first
          /\ Joined(a).rated = a.rated /\ Joined(a).priced = a.priced
        BY Zenon DEF Scan
    <2> HIDE DEF Joined
    <2> QED
        BY <2>1, Zenon DEF Alike
<1>5. \A a \in Scan : Alike(a, a)
    BY DEF Alike
<1>6. scan \in [Scanners -> Scan]
    BY Zenon DEF TypeOK, Scan, ScanPlaces
<1> HIDE DEF l, Joined
<1>7. scan'[s] = l
    BY <1>1, Zenon
<1>8. ASSUME NEW t \in Scanners, t # s
      PROVE  /\ scan'[t] \in Scan /\ Alike(scan'[t], scan[t])
             /\ t \in others => ~scan'[t].alone
    <2>1. scan'[t] = IF t \in others THEN Joined(scan[t]) ELSE scan[t]
        BY <1>1, <1>8, Zenon
    <2>2. scan[t] \in Scan
        BY <1>6
    <2> HIDE DEF others
    <2> QED
        BY <1>4, <1>5, <2>1, <2>2, Zenon
<1>9. scan' \in [Scanners -> Scan]
    <2>1. \A t \in Scanners : scan'[t] \in Scan
        BY <1>3, <1>7, <1>8, Zenon
    <2> QED
        BY <1>1, <2>1, Zenon
<1> QED
    BY <1>1, <1>3, <1>7, <1>8, <1>9, Zenon

LEMMA InitHolds == Init => Inv
<1> SUFFICES ASSUME Init PROVE Inv
    OBVIOUS
<1> USE DEF Init
<1>1. scan \in [Scanners -> Scan]
    BY NoScanTyped, Zenon
<1>2. TypeOK
    <2>1. /\ now \in Nat /\ now > NoTs
          /\ on \in [Requests -> Machines] /\ home \in [Scanners -> Machines]
          /\ began \in [Requests -> 0..now] /\ metered \in [Requests -> 0..now]
          /\ said \in [Requests -> 0..now]
        BY SMT DEF NoTs
    <2>2. /\ imported \subseteq [id : Requests, priced : BOOLEAN] /\ sessions \subseteq Machines
          /\ stamped \in BOOLEAN /\ rates \in BOOLEAN
        BY Zenon
    <2> QED
        BY <1>1, <2>1, <2>2, Zenon DEF TypeOK, Scan, ScanPlaces
<1>3. Imported = {}
    BY Zenon DEF Imported
<1>4. \A s \in Scanners : scan[s].left = {} /\ scan[s].kept = {}
    BY SMT DEF NoScan
<1> QED
    BY <1>2, <1>3, <1>4, SMT
    DEF Inv, SentBeforeSaid, ScansHoldRows, KeptIsOld, ImportsAreRows, TwiceOnlyAtTheBoundary

(* The clock runs, and what is dated keeps its date.                         *)
LEMMA TickKeeps == ASSUME Inv, Tick PROVE Inv'
<1> USE DEF Inv
<1>1. TypeOK'
    <2>1. now' \in Nat /\ now' > NoTs /\ \A n \in 0..now : n \in 0..now'
        BY SMT DEF TypeOK, Tick, NoTs
    <2>2. UNCHANGED <<began, on, metered, said, imported, sessions, stamped, rates, home, scan>>
        BY Zenon DEF Tick, traffic, ledger
    <2>3. /\ began' \in [Requests -> 0..now'] /\ metered' \in [Requests -> 0..now']
          /\ said' \in [Requests -> 0..now']
        BY <2>1, <2>2, Zenon DEF TypeOK
    <2> QED
        BY <2>1, <2>2, <2>3, Zenon DEF TypeOK
<1>2. UNCHANGED <<began, metered, said, imported, scan>>
    BY Zenon DEF Tick, traffic, ledger
<1> QED
    BY <1>1, <1>2, Zenon
    DEF SentBeforeSaid, ScansHoldRows, KeptIsOld, Early, ImportsAreRows, TwiceOnlyAtTheBoundary,
        Imported

LEMMA SyncKeeps == ASSUME Inv, Sync PROVE Inv'
<1> USE DEF Inv
<1>1. UNCHANGED <<now, began, on, metered, said, imported, sessions, stamped, home, scan>> /\ rates' = TRUE
    BY Zenon DEF Sync, traffic, ledger
<1>2. TypeOK'
    BY <1>1, Zenon DEF TypeOK
<1> QED
    BY <1>1, <1>2, Zenon
    DEF SentBeforeSaid, ScansHoldRows, KeptIsOld, Early, ImportsAreRows, TwiceOnlyAtTheBoundary,
        Imported

(* A date is the present one, and everything that was sent is older.         *)
LEMMA TrafficKeeps ==
    ASSUME Inv, NEW r \in Requests, Begin(r) \/ Meter(r) \/ Say(r) PROVE Inv'
<1> USE DEF Inv
<1>1. /\ UNCHANGED <<now, on, imported, sessions, stamped, rates, home, scan>>
      /\ now \in Nat /\ now \in 0..now
    BY SMT DEF Begin, Meter, Say, ledger, TypeOK
<1>2. /\ began' = began \/ (began[r] = 0 /\ began' = [began EXCEPT ![r] = now])
      /\ metered' = metered \/ metered' = [metered EXCEPT ![r] = now]
      /\ said' = said \/ (/\ began[r] # 0 /\ said[r] = 0
                        /\ \E ts \in {now, NoTs} : said' = [said EXCEPT ![r] = ts])
      /\ said' = said \/ began' = began
    BY Zenon DEF Begin, Meter, Say
<1>3. TypeOK'
    <2>1. /\ began \in [Requests -> 0..now] /\ metered \in [Requests -> 0..now]
          /\ said \in [Requests -> 0..now]
        BY Zenon DEF TypeOK
    <2>2. now \in 0..now /\ NoTs \in 0..now
        BY <1>1, SMT DEF TypeOK, NoTs
    <2>3. /\ began' = began \/ began' = [began EXCEPT ![r] = now]
          /\ metered' = metered \/ metered' = [metered EXCEPT ![r] = now]
          /\ said' = said \/ \E ts \in {now, NoTs} : said' = [said EXCEPT ![r] = ts]
        BY <1>2
    <2>4. began' \in [Requests -> 0..now]
        BY ONLY <2>1, <2>2, <2>3, DateTyped
    <2>5. metered' \in [Requests -> 0..now]
        BY ONLY <2>1, <2>2, <2>3, DateTyped
    <2>6. said' \in [Requests -> 0..now]
        BY ONLY <2>1, <2>2, <2>3, DateTyped
    <2> QED
        BY <1>1, <2>4, <2>5, <2>6, Zenon DEF TypeOK
<1>4. SentBeforeSaid'
    BY <1>1, <1>2, SMT DEF SentBeforeSaid, TypeOK
<1>5. \A q \in Requests : said[q] # 0 => said'[q] # 0
    BY <1>1, <1>2, SMT DEF SentBeforeSaid, TypeOK, Begin, Meter, Say
<1>6. Imported' = Imported
    BY <1>1, Zenon DEF Imported
<1>7. Imported \subseteq Requests
    BY Zenon DEF Imported, TypeOK
<1>8. \A s \in Scanners : scan[s].left \subseteq Requests /\ scan[s].kept \subseteq Requests
    BY SMT DEF TypeOK
<1>9. ASSUME NEW q \in Requests, said[q] # 0, Early(q) PROVE Early(q)'
    <2> SUFFICES ASSUME NEW p \in Requests, said'[q] # NoTs, metered'[p] # 0
                 PROVE  began'[q] <= metered'[p]
        BY DEF Early
    <2>1. began[q] # 0 /\ began[q] \in 0..now
        BY <1>9, Zenon DEF SentBeforeSaid, TypeOK
    <2>2. began'[q] = began[q] /\ said'[q] = said[q]
        BY <1>2, <1>9, <2>1, SMT DEF TypeOK
    <2>3. metered'[p] = metered[p] \/ metered'[p] = now
        BY <1>2, SMT DEF TypeOK
    <2> QED
        BY <1>1, <1>9, <2>1, <2>2, <2>3, SMT DEF Early
<1>10. ScansHoldRows' /\ ImportsAreRows'
    BY <1>1, <1>5, <1>6, <1>7, <1>8, Zenon DEF ScansHoldRows, ImportsAreRows
<1>11. KeptIsOld'
    BY <1>1, <1>8, <1>9, Zenon DEF KeptIsOld, ScansHoldRows
<1>12. TwiceOnlyAtTheBoundary'
    <2>1. \A q \in Imported : Early(q)
        BY <1>7, Zenon DEF TwiceOnlyAtTheBoundary, Early
    <2>2. \A q \in Imported' : Early(q)'
        BY <1>6, <1>7, <1>9, <2>1, Zenon DEF ImportsAreRows
    <2> QED
        BY <2>2, Zenon DEF TwiceOnlyAtTheBoundary, Early
<1> QED
    BY <1>3, <1>4, <1>10, <1>11, <1>12

-----------------------------------------------------------------------------
(* A scan that moves on its own, without writing to the ledger.              *)
LEMMA ScanKeeps ==
    ASSUME Inv, NEW s \in Scanners, NEW l \in Scan,
           scan' = [scan EXCEPT ![s] = l],
           UNCHANGED <<now, traffic, ledger, rates, home>>,
           \A r \in l.left \cup l.kept : said[r] # 0,
           \A r \in l.kept : Early(r)
    PROVE  Inv'
<1> USE DEF Inv
<1>1. UNCHANGED <<now, began, on, metered, said, imported, sessions, stamped, rates, home>>
    BY Zenon DEF traffic, ledger
<1>2. scan \in [Scanners -> Scan]
    BY Zenon DEF TypeOK, Scan, ScanPlaces
<1>3. /\ scan' \in [Scanners -> Scan] /\ scan'[s] = l
      /\ \A n \in Scanners : n # s => scan'[n] = scan[n]
    BY <1>2, ScanTyped
<1>4. TypeOK'
    BY <1>1, <1>3, Zenon DEF TypeOK, Scan, ScanPlaces
<1>5. ScansHoldRows' /\ KeptIsOld'
    <2> SUFFICES ASSUME NEW n \in Scanners
                 PROVE  /\ \A r \in scan'[n].left \cup scan'[n].kept : said[r] # 0
                        /\ \A r \in scan'[n].kept : Early(r)
        BY <1>1, Zenon DEF ScansHoldRows, KeptIsOld, Early
    <2>1. CASE n = s
        BY <1>3, <2>1, Zenon
    <2>2. CASE n # s
        BY <1>3, <2>2, Zenon DEF ScansHoldRows, KeptIsOld
    <2> QED
        BY <2>1, <2>2
<1> QED
    BY <1>1, <1>4, <1>5, Zenon DEF SentBeforeSaid, ImportsAreRows, TwiceOnlyAtTheBoundary, Imported

(* A scan that writes what it kept, and holds no more than it did.           *)
LEMMA WriteKeeps ==
    ASSUME Inv, NEW s \in Scanners, NEW l \in Scan,
           scan' = [scan EXCEPT ![s] = l], l.left \subseteq scan[s].left, l.kept = {},
           WritesRows(s), sessions' \in {sessions, sessions \cup {home[s]}}, stamped' \in BOOLEAN,
           UNCHANGED <<now, traffic, rates, home>>
    PROVE  Inv'
<1> USE DEF Inv
<1>1. UNCHANGED <<now, began, on, metered, said, rates, home>>
    BY Zenon DEF traffic
<1>2. scan \in [Scanners -> Scan]
    BY Zenon DEF TypeOK, Scan, ScanPlaces
<1>3. /\ scan' \in [Scanners -> Scan] /\ scan'[s] = l
      /\ \A n \in Scanners : n # s => scan'[n] = scan[n]
    BY <1>2, ScanTyped
<1>4. scan[s].kept \subseteq Requests /\ scan[s].priced \in BOOLEAN
    BY <1>2, SMT DEF Scan
<1>5. imported' \subseteq [id : Requests, priced : BOOLEAN]
    BY <1>4, SMT DEF WritesRows, Upsert, TypeOK
<1>6. Imported' \subseteq Imported \cup scan[s].kept
    <2> DEFINE fresh == {[id |-> r, priced |-> scan[s].priced] : r \in scan[s].kept}
    <2>1. imported' = {row \in imported : row.id \notin scan[s].kept} \cup fresh
        BY Zenon DEF WritesRows, Upsert
    <2>2. \A row \in fresh : row.id \in scan[s].kept
        BY SMT
    <2> HIDE DEF fresh
    <2> QED
        BY <2>1, <2>2, Zenon DEF Imported
<1>7. TypeOK'
    <2>1. sessions' \subseteq Machines
        <3>1. home[s] \in Machines /\ sessions \subseteq Machines
            BY Zenon DEF TypeOK
        <3> QED
            BY <3>1, Zenon
    <2> QED
        BY <1>1, <1>3, <1>5, <2>1, Zenon DEF TypeOK, Scan, ScanPlaces
<1>8. ScansHoldRows' /\ KeptIsOld'
    <2> SUFFICES ASSUME NEW n \in Scanners
                 PROVE  /\ \A r \in scan'[n].left \cup scan'[n].kept : said[r] # 0
                        /\ \A r \in scan'[n].kept : Early(r)
        BY <1>1, Zenon DEF ScansHoldRows, KeptIsOld, Early
    <2>1. CASE n = s
        BY <1>3, <2>1, Zenon DEF ScansHoldRows
    <2>2. CASE n # s
        BY <1>3, <2>2, Zenon DEF ScansHoldRows, KeptIsOld
    <2> QED
        BY <2>1, <2>2
<1>9. ImportsAreRows' /\ TwiceOnlyAtTheBoundary'
    BY <1>1, <1>6, Zenon
    DEF ImportsAreRows, TwiceOnlyAtTheBoundary, ScansHoldRows, KeptIsOld, Early
<1> QED
    BY <1>1, <1>7, <1>8, <1>9, Zenon DEF SentBeforeSaid

LEMMA StartKeeps == ASSUME Inv, NEW s \in Scanners, Launch(s) \/ Import(s) PROVE Inv'
<1> USE DEF Inv
<1>1. PICK place \in ScanPlaces : Starts(s, place)
    BY Zenon DEF Launch, Import, ScanPlaces
<1>2. /\ UNCHANGED <<now, began, on, metered, said, imported, sessions, stamped, rates, home>>
      /\ scan' \in [Scanners -> Scan] /\ Empty(scan'[s])
      /\ \A t \in Scanners : t # s => Alike(scan'[t], scan[t])
    BY <1>1, Started, Zenon DEF traffic, ledger
<1>3. TypeOK'
    BY <1>2, Zenon DEF TypeOK, Scan, ScanPlaces
<1>4. ASSUME NEW n \in Scanners
      PROVE  /\ \A r \in scan'[n].left \cup scan'[n].kept : said[r] # 0
             /\ \A r \in scan'[n].kept : Early(r)
    <2>1. CASE n = s
        BY <1>2, <2>1, Zenon DEF Empty
    <2>2. CASE n # s
        BY <1>2, <2>2, Zenon DEF Alike, ScansHoldRows, KeptIsOld
    <2> QED
        BY <2>1, <2>2
<1>5. ScansHoldRows' /\ KeptIsOld'
    BY <1>2, <1>4, Zenon DEF ScansHoldRows, KeptIsOld, Early
<1> QED
    BY <1>2, <1>3, <1>5, Zenon DEF SentBeforeSaid, ImportsAreRows, TwiceOnlyAtTheBoundary, Imported

LEMMA ScanStep ==
    ASSUME Inv, NEW s \in Scanners,
           Launch(s) \/ Import(s) \/ Check(s) \/ ReadFiles(s) \/ Send(s) \/ Apply(s) \/ Fail(s)
    PROVE  Inv'
<1> USE DEF Inv
<1>1. scan[s] \in Scan /\ NoScan \in Scan
    BY NoScanTyped, Zenon DEF TypeOK, Scan, ScanPlaces
<1>2. /\ scan[s].left \subseteq Requests /\ scan[s].kept \subseteq Requests
      /\ scan[s].read \subseteq Requests /\ scan[s].chunk \subseteq Requests
    BY <1>1, SMT DEF Scan
<1>3. NoScan.left = {} /\ NoScan.kept = {}
    BY SMT DEF NoScan
<1>4. CASE Launch(s) \/ Import(s)
    BY <1>4, StartKeeps
<1>5. CASE Check(s)
    <2> DEFINE l == IF stamped THEN NoScan ELSE [scan[s] EXCEPT !.at = "reading"]
    <2>1. scan' = [scan EXCEPT ![s] = l] /\ UNCHANGED <<now, traffic, ledger, rates, home>>
        BY <1>5, Zenon DEF Check
    <2>2. /\ l \in Scan /\ l.left \subseteq scan[s].left /\ l.kept \subseteq scan[s].kept
        <3>1. CASE stamped
            BY <1>1, <1>3, <3>1, Zenon
        <3>2. CASE ~stamped
            BY <1>1, <3>2, Zenon DEF Scan, ScanPlaces
        <3> QED
            BY <3>1, <3>2
    <2> HIDE DEF l
    <2>3. /\ \A r \in l.left \cup l.kept : said[r] # 0
          /\ \A r \in l.kept : Early(r)
        BY <2>2, Zenon DEF ScansHoldRows, KeptIsOld
    <2> QED
        BY <2>1, <2>2, <2>3, ScanKeeps
<1>6. CASE ReadFiles(s)
    <2>1. PICK place \in ScanPlaces, priced \in BOOLEAN :
              scan' = [scan EXCEPT ![s] = [scan[s] EXCEPT !.at = place, !.read = Rows(home[s]),
                                                          !.left = Rows(home[s]), !.rated = priced]]
        BY <1>6, Zenon DEF ReadFiles, ScanPlaces, TypeOK
    <2> DEFINE l == [scan[s] EXCEPT !.at = place, !.read = Rows(home[s]), !.left = Rows(home[s]), !.rated = priced]
    <2>2. Rows(home[s]) \subseteq Requests /\ \A r \in Rows(home[s]) : said[r] # 0
        BY Zenon DEF Rows
    <2>3. l \in Scan /\ l.left = Rows(home[s]) /\ l.kept = scan[s].kept
        BY <1>1, <2>2, Zenon DEF Scan
    <2>4. scan' = [scan EXCEPT ![s] = l] /\ UNCHANGED <<now, traffic, ledger, rates, home>>
        BY <1>6, <2>1, Zenon DEF ReadFiles
    <2> HIDE DEF l
    <2>5. /\ \A r \in l.left \cup l.kept : said[r] # 0
          /\ \A r \in l.kept : Early(r)
        BY <2>2, <2>3, Zenon DEF ScansHoldRows, KeptIsOld
    <2> QED
        BY <2>3, <2>4, <2>5, ScanKeeps
<1>7. CASE Send(s)
    <2>1. PICK chunk \in SUBSET scan[s].left :
              scan' = [scan EXCEPT ![s] = [scan[s] EXCEPT !.at = "applying", !.chunk = chunk,
                                               !.kept = Older(chunk), !.priced = rates]]
        BY <1>7, Zenon DEF Send
    <2> DEFINE l == [scan[s] EXCEPT !.at = "applying", !.chunk = chunk, !.kept = Older(chunk),
                                    !.priced = rates]
    <2>2. Older(chunk) \subseteq chunk /\ chunk \subseteq scan[s].left
        BY Zenon DEF Older
    <2>3. l \in Scan /\ l.left = scan[s].left /\ l.kept = Older(chunk)
        BY <1>1, <1>2, <2>2, Zenon DEF Scan, ScanPlaces, TypeOK
    <2>4. scan' = [scan EXCEPT ![s] = l] /\ UNCHANGED <<now, traffic, ledger, rates, home>>
        BY <1>7, <2>1, Zenon DEF Send
    <2>5. ASSUME NEW r \in Older(chunk) PROVE Early(r)
        <3> SUFFICES ASSUME NEW q \in Requests, said[r] # NoTs, metered[q] # 0
                     PROVE  began[r] <= metered[q]
            BY DEF Early
        <3>1. r \in Requests /\ said[r] # 0 /\ said[r] < metered[q]
            BY <1>2, <2>2, <2>5, Zenon DEF Older, ScansHoldRows
        <3>2. began[r] <= said[r]
            BY <3>1, Zenon DEF SentBeforeSaid
        <3> QED
            BY <3>1, <3>2, SMT DEF TypeOK
    <2>6. \A r \in l.left \cup l.kept : said[r] # 0
        BY <2>2, <2>3, Zenon DEF ScansHoldRows
    <2> HIDE DEF l
    <2> QED
        BY <2>3, <2>4, <2>5, <2>6, ScanKeeps
<1>8. CASE Apply(s)
    <2> DEFINE left == scan[s].left \ scan[s].chunk
    <2>1. PICK place \in ScanPlaces :
              scan' = [scan EXCEPT ![s] = [scan[s] EXCEPT !.at = place, !.left = left, !.chunk = {},
                                                          !.kept = {}, !.first = FALSE,
                                                          !.priced = FALSE]]
        BY <1>8, Zenon DEF Apply, ScanPlaces
    <2> DEFINE l == [scan[s] EXCEPT !.at = place, !.left = left, !.chunk = {}, !.kept = {},
                                    !.first = FALSE, !.priced = FALSE]
    <2>2. left \subseteq scan[s].left
        BY Zenon
    <2> HIDE DEF left
    <2>3. l \in Scan /\ l.left = left /\ l.kept = {}
        BY <1>1, <1>2, <2>2, Zenon DEF Scan
    <2>4. scan' = [scan EXCEPT ![s] = l] /\ UNCHANGED <<now, traffic, rates, home>>
        BY <1>8, <2>1, Zenon DEF Apply
    <2>5. /\ WritesRows(s) /\ sessions' \in {sessions, sessions \cup {home[s]}} /\ stamped' \in BOOLEAN
        BY <1>8, Zenon DEF Apply, WritesSessions, TypeOK
    <2> HIDE DEF l
    <2> QED
        BY <2>2, <2>3, <2>4, <2>5, WriteKeeps
<1>9. CASE Fail(s)
    <2>1. scan' = [scan EXCEPT ![s] = NoScan] /\ UNCHANGED <<now, traffic, rates, home>>
        BY <1>9, Zenon DEF Fail
    <2>2. CASE UNCHANGED ledger
        BY <1>1, <1>3, <2>1, <2>2, ScanKeeps, Zenon
    <2>3. CASE ~UNCHANGED ledger
        <3>1. /\ WritesRows(s) /\ sessions' \in {sessions, sessions \cup {home[s]}} /\ stamped' \in BOOLEAN
            BY <1>9, <2>3, Zenon DEF Fail, WritesSessions, TypeOK
        <3> QED
            BY <1>1, <1>3, <2>1, <3>1, WriteKeeps, Zenon
    <2> QED
        BY <2>2, <2>3
<1> QED
    BY <1>4, <1>5, <1>6, <1>7, <1>8, <1>9

LEMMA StepHolds == Inv /\ [Next]_vars => Inv'
<1>1. ASSUME Inv, UNCHANGED vars PROVE Inv'
    <2>1. UNCHANGED <<now, began, on, metered, said, imported, sessions, stamped, rates, home, scan>>
        BY <1>1, Zenon DEF vars
    <2>2. TypeOK'
        BY <1>1, <2>1, Zenon DEF Inv, TypeOK
    <2> QED
        BY <1>1, <2>1, <2>2, Zenon DEF Inv, SentBeforeSaid, ScansHoldRows, KeptIsOld, Early,
                                     ImportsAreRows, TwiceOnlyAtTheBoundary, Imported
<1> QED
    BY <1>1, TickKeeps, SyncKeeps, TrafficKeeps, ScanStep DEF Next

LEMMA InvHolds == Spec => []Inv
BY InitHolds, StepHolds, PTL DEF Spec

(* The clock, the ledger and the scans keep their types, and no date is of   *)
(* the future.                                                               *)
THEOREM TypeCorrect == Spec => []TypeOK
<1>1. Inv => TypeOK
    BY DEF Inv
<1> QED
    BY <1>1, InvHolds, PTL

(* However any number of scans, of one machine or of several, interleave     *)
(* with each other and with traffic and are cut short, a request that is     *)
(* metered and whose row with a ts is imported was sent before the agent's   *)
(* first row was metered.                                                    *)
THEOREM NothingIsCountedTwice == Spec => []TwiceOnlyAtTheBoundary
<1>1. Inv => TwiceOnlyAtTheBoundary
    BY DEF Inv
<1> QED
    BY <1>1, InvHolds, PTL

-----------------------------------------------------------------------------
(* What a scan has done and has yet to do.  A row is to be read only while   *)
(* it precedes what is metered, and it is that less and less: what a chunk   *)
(* left out is not missed later.  Rows are of the machine that reads them,   *)
(* so only a scan of the same machine can take a price away.                 *)

Nested(s) ==
    /\ scan[s].kept \subseteq scan[s].chunk /\ scan[s].chunk \subseteq scan[s].left
    /\ scan[s].left \subseteq scan[s].read
    /\ \A r \in scan[s].read : on[r] = home[s] /\ said[r] # 0
    /\ scan[s].at # "applying" => scan[s].chunk = {}

SessionsGoFirst(s) ==
    /\ scan[s].at = "done" => scan[s].left = {} /\ (scan[s].read # {} => ~scan[s].first)
    /\ ~scan[s].first => home[s] \in sessions

ChunkIsKept(s) ==
    /\ \A r \in scan[s].chunk : Precedes(r) => r \in scan[s].kept
    /\ scan[s].rated => rates
    /\ scan[s].at = "applying" /\ scan[s].rated => scan[s].priced

RestIsImported(s) ==
    \A r \in scan[s].read \ scan[s].left : Precedes(r) =>
        /\ r \in Imported
        /\ scan[s].rated /\ scan[s].alone => \A row \in imported : row.id = r => row.priced

Sound(s) == Nested(s) /\ SessionsGoFirst(s) /\ ChunkIsKept(s) /\ RestIsImported(s)

RowsAreUnique == \A x, y \in imported : x.id = y.id => x = y

(* Two scans of one machine: either they overlapped, or what the later one   *)
(* writes has the prices the earlier one began with.                         *)
Busy(l) == l.at \notin {"idle", "done"}

Clear(a, b) ==
    /\ Busy(a) /\ Busy(b) => ~a.alone
    /\ ~Busy(a) /\ a.rated /\ a.alone /\ b.at = "applying" => b.priced

Apart ==
    \A s, t \in Scanners : s # t /\ home[s] = home[t] => Clear(scan[s], scan[t])

AllSound == \A s \in Scanners : Sound(s)

ScanInv == RowsAreUnique /\ AllSound /\ Apart

(* A step of a scan makes nothing of it that its start did not.              *)
Follows(l, a) ==
    /\ Busy(l) => Busy(a) /\ l.alone = a.alone
    /\ ~Busy(l) /\ l.rated /\ l.alone => Busy(a) /\ a.alone
    /\ l.at = "applying" => l.priced = rates

LEMMA MoveIsApart ==
    ASSUME Inv, ScanInv, NEW s \in Scanners, NEW l \in Scan,
           scan' = [scan EXCEPT ![s] = l], home' = home, Follows(l, scan[s])
    PROVE  Apart'
<1>1. scan'[s] = l /\ \A n \in Scanners : n # s => scan'[n] = scan[n]
    BY Zenon DEF Inv, TypeOK
<1>2. \A n \in Scanners : scan[n].rated => rates
    BY Zenon DEF ScanInv, AllSound, Sound, ChunkIsKept
<1>3. ASSUME NEW x \in Scanners, NEW y \in Scanners, x # y, home[x] = home[y]
      PROVE  Clear(scan'[x], scan'[y])
    <2>1. Clear(scan[x], scan[y]) /\ Clear(scan[y], scan[x])
        BY <1>3, Zenon DEF ScanInv, Apart
    <2>2. CASE x = s
        <3>1. scan'[x] = l /\ scan'[y] = scan[y]
            BY <1>1, <1>3, <2>2, Zenon
        <3> QED
            BY <2>1, <2>2, <3>1, Zenon DEF Clear, Follows, Busy
    <2>3. CASE y = s
        <3>1. scan'[y] = l /\ scan'[x] = scan[x]
            BY <1>1, <1>3, <2>3, Zenon
        <3> QED
            BY <1>2, <2>1, <2>3, <3>1, Zenon DEF Clear, Follows, Busy
    <2>4. CASE x # s /\ y # s
        BY <1>1, <2>1, <2>4, Zenon
    <2> QED
        BY <2>2, <2>3, <2>4
<1> QED
    BY <1>3, Zenon DEF Apart

LEMMA StartIsApart ==
    ASSUME Inv, ScanInv, NEW s \in Scanners, NEW place \in ScanPlaces, place # "applying",
           Starts(s, place)
    PROVE  Apart'
<1>1. /\ home' = home /\ scan'[s].rated = FALSE /\ scan'[s].at # "applying"
      /\ \A t \in Scanners : t # s => Alike(scan'[t], scan[t])
      /\ \A t \in Scanners : t # s /\ home[t] = home[s] /\ ~Resting(t) =>
             ~scan'[s].alone /\ ~scan'[t].alone
    <2>1. TypeOK
        BY DEF Inv
    <2>2. UNCHANGED <<now, traffic, ledger, rates, home>> /\ Empty(scan'[s])
        BY <2>1, Started
    <2>3. scan'[s].at = place
        BY <2>1, Started
    <2>4. \A t \in Scanners : t # s => Alike(scan'[t], scan[t])
        BY <2>1, Started
    <2>5. \A t \in Scanners : t # s /\ home[t] = home[s] /\ ~Resting(t) =>
              ~scan'[s].alone /\ ~scan'[t].alone
        BY <2>1, Started
    <2> QED
        BY <2>2, <2>3, <2>4, <2>5, Zenon DEF Empty
<1>2. ASSUME NEW x \in Scanners, NEW y \in Scanners, x # y, home[x] = home[y]
      PROVE  Clear(scan'[x], scan'[y])
    <2>1. Clear(scan[x], scan[y])
        BY <1>2, Zenon DEF ScanInv, Apart
    <2>2. CASE x = s
        BY <1>1, <1>2, <2>2, Zenon DEF Clear, Busy, Resting, Alike
    <2>3. CASE y = s
        BY <1>1, <1>2, <2>3, Zenon DEF Clear, Busy, Resting, Alike
    <2>4. CASE x # s /\ y # s
        BY <1>1, <2>1, <2>4, Zenon DEF Clear, Busy, Alike
    <2> QED
        BY <2>2, <2>3, <2>4
<1> QED
    BY <1>1, <1>2, Zenon DEF Apart

(* Another scan, or traffic: dates stay and the ledger only grows, but for   *)
(* rows of other machines and rows that have a price.                        *)
LEMMA OthersKeepSound ==
    ASSUME Inv, NEW s \in Scanners, Sound(s), Alike(scan'[s], scan[s]), on' = on, home' = home,
           \A r \in Requests : said[r] # 0 => said'[r] = said[r],
           \A q \in Requests : metered[q] # 0 => metered'[q] = metered[q],
           rates => rates', sessions \subseteq sessions', Imported \subseteq Imported',
           \A row \in imported' : \/ row \in imported \/ on[row.id] # home[s] \/ row.priced
                                  \/ ~(scan[s].rated /\ scan[s].alone)
    PROVE  Sound(s)'
<1>1. scan[s] \in Scan
    BY Zenon DEF Inv, TypeOK, Scan, ScanPlaces
<1>2. scan[s].read \subseteq Requests /\ scan[s].chunk \subseteq Requests
    BY <1>1, SMT DEF Scan
<1> USE DEF Alike
<1>3. \A r \in Requests : said[r] # 0 /\ Precedes(r)' => Precedes(r)
    BY Zenon DEF Precedes
<1>4. Nested(s)'
    BY <1>2, Zenon DEF Sound, Nested
<1>5. SessionsGoFirst(s)'
    BY Zenon DEF Sound, SessionsGoFirst
<1>6. ChunkIsKept(s)'
    BY <1>2, <1>3, Zenon DEF Sound, Nested, ChunkIsKept
<1>7. RestIsImported(s)'
    <2> SUFFICES ASSUME NEW r \in scan[s].read \ scan[s].left, Precedes(r)'
                 PROVE  /\ r \in Imported'
                        /\ scan[s].rated /\ scan[s].alone =>
                              \A row \in imported' : row.id = r => row.priced
        BY Zenon DEF RestIsImported
    <2>1. r \in Requests /\ said[r] # 0 /\ on[r] = home[s]
        BY <1>2, Zenon DEF Sound, Nested
    <2>2. Precedes(r)
        BY <1>3, <2>1
    <2> QED
        BY <2>1, <2>2, Zenon DEF Sound, RestIsImported
<1> QED
    BY <1>4, <1>5, <1>6, <1>7, Zenon DEF Sound

LEMMA NoScanFollows == ASSUME NEW a PROVE Follows(NoScan, a)
<1>1. NoScan.at = "idle" /\ NoScan.rated = FALSE
    BY Zenon DEF NoScan
<1> HIDE DEF NoScan
<1> QED
    BY <1>1, SMT DEF Follows, Busy

LEMMA NoScanIsSound ==
    ASSUME NEW s \in Scanners, scan'[s] = NoScan PROVE Sound(s)'
<1>1. /\ NoScan.at = "idle" /\ NoScan.read = {} /\ NoScan.left = {} /\ NoScan.chunk = {}
      /\ NoScan.kept = {} /\ NoScan.first = TRUE /\ NoScan.rated = FALSE
    BY Zenon DEF NoScan
<1> HIDE DEF NoScan
<1> QED
    BY <1>1, SMT DEF Sound, Nested, SessionsGoFirst, ChunkIsKept, RestIsImported

(* Nothing is written, and one scan moves.                                   *)
LEMMA MoveKeeps ==
    ASSUME Inv, ScanInv, NEW s \in Scanners, NEW l \in Scan,
           scan' = [scan EXCEPT ![s] = l], UNCHANGED <<now, traffic, ledger, rates, home>>,
           Follows(l, scan[s]), Sound(s)'
    PROVE  ScanInv'
<1>1. UNCHANGED <<on, said, metered, rates, imported, sessions, home>>
    BY Zenon DEF traffic, ledger
<1>2. \A n \in Scanners : n # s => scan'[n] = scan[n]
    BY Zenon DEF Inv, TypeOK
<1>3. RowsAreUnique' /\ Imported' = Imported
    BY <1>1, Zenon DEF ScanInv, RowsAreUnique, Imported
<1>4. ASSUME NEW n \in Scanners PROVE Sound(n)'
    <2>1. CASE n = s
        BY <2>1
    <2>2. CASE n # s
        <3>1. Sound(n) /\ Alike(scan'[n], scan[n])
            BY <1>2, <2>2, Zenon DEF ScanInv, AllSound, Alike
        <3> QED
            BY <1>1, <1>3, <3>1, OthersKeepSound
    <2> QED
        BY <2>1, <2>2
<1>5. Apart'
    BY <1>1, MoveIsApart
<1> QED
    BY <1>3, <1>4, <1>5, Zenon DEF ScanInv, AllSound

(* A scan starts, and others of its machine are no longer alone.             *)
LEMMA StartKeepsSound ==
    ASSUME Inv, ScanInv, NEW s \in Scanners, Launch(s) \/ Import(s) PROVE ScanInv'
<1>1. PICK place \in ScanPlaces : Starts(s, place) /\ place \in {"checking", "reading"}
    BY Zenon DEF Launch, Import, ScanPlaces
<1>2. place # "applying" /\ place # "done"
    BY <1>1
<1>3. /\ UNCHANGED <<now, traffic, ledger, rates, home>>
      /\ Empty(scan'[s]) /\ scan'[s].at = place
      /\ \A t \in Scanners : t # s => Alike(scan'[t], scan[t])
    BY <1>1, Started, Zenon DEF Inv
<1>4. UNCHANGED <<on, said, metered, rates, imported, sessions, home>>
    BY <1>3, Zenon DEF traffic, ledger
<1>5. RowsAreUnique' /\ Imported' = Imported
    BY <1>4, Zenon DEF ScanInv, RowsAreUnique, Imported
<1>6. ASSUME NEW n \in Scanners PROVE Sound(n)'
    <2>1. CASE n = s
        BY <1>2, <1>3, <2>1, Zenon
        DEF Empty, Sound, Nested, SessionsGoFirst, ChunkIsKept, RestIsImported
    <2>2. CASE n # s
        <3>1. Sound(n) /\ Alike(scan'[n], scan[n])
            BY <1>3, <2>2, Zenon DEF ScanInv, AllSound
        <3> QED
            BY <1>4, <1>5, <3>1, OthersKeepSound
    <2> QED
        BY <2>1, <2>2
<1>7. Apart'
    BY <1>1, <1>2, StartIsApart
<1> QED
    BY <1>5, <1>6, <1>7, Zenon DEF ScanInv, AllSound

(* What is written of a scan are rows of its own, each once.                 *)
LEMMA Written ==
    ASSUME Inv, ScanInv, NEW s \in Scanners, WritesRows(s)
    PROVE  /\ RowsAreUnique'
           /\ Imported' = Imported \cup scan[s].kept
           /\ \A row \in imported' : row \in imported \/ row.id \in scan[s].kept
           /\ \A row \in imported' :
                 IF row.id \in scan[s].kept THEN row.priced = scan[s].priced ELSE row \in imported
           /\ \A row \in imported' : row \in imported \/ on[row.id] = home[s]
<1> DEFINE fresh == {[id |-> r, priced |-> scan[s].priced] : r \in scan[s].kept}
<1>1. imported' = {row \in imported : row.id \notin scan[s].kept} \cup fresh
    BY Zenon DEF WritesRows, Upsert
<1>2. \A row \in fresh : row.id \in scan[s].kept /\ row.priced = scan[s].priced
    BY SMT
<1>3. \A r \in scan[s].kept : \E row \in fresh : row.id = r
    <2> SUFFICES ASSUME NEW r \in scan[s].kept PROVE \E row \in fresh : row.id = r
        OBVIOUS
    <2> WITNESS [id |-> r, priced |-> scan[s].priced] \in fresh
    <2> QED
        BY SMT
<1>4. \A x, y \in fresh : x.id = y.id => x = y
    BY SMT
<1> HIDE DEF fresh
<1>5. \A r \in scan[s].kept : on[r] = home[s]
    BY Zenon DEF ScanInv, AllSound, Sound, Nested
<1>6. RowsAreUnique'
    BY <1>1, <1>2, <1>4, Zenon DEF ScanInv, RowsAreUnique
<1>7. Imported' = Imported \cup scan[s].kept
    BY <1>1, <1>2, <1>3, Zenon DEF Imported
<1> QED
    BY <1>1, <1>2, <1>5, <1>6, <1>7, Zenon

(* One scan moves, having written what it kept.                              *)
LEMMA MoveAndWriteKeeps ==
    ASSUME Inv, ScanInv, NEW s \in Scanners, NEW l \in Scan,
           scan' = [scan EXCEPT ![s] = l], scan[s].at = "applying", WritesRows(s),
           sessions \subseteq sessions', UNCHANGED <<now, traffic, rates, home>>,
           Follows(l, scan[s]), Sound(s)'
    PROVE  ScanInv'
<1>1. UNCHANGED <<on, said, metered, rates, home>>
    BY Zenon DEF traffic
<1>2. \A n \in Scanners : n # s => scan'[n] = scan[n]
    BY Zenon DEF Inv, TypeOK
<1>3. /\ RowsAreUnique' /\ Imported \subseteq Imported'
      /\ \A row \in imported' : row \in imported \/ on[row.id] = home[s]
      /\ \A row \in imported' : row \in imported \/ row.priced = scan[s].priced
    BY Written, Zenon
<1>4. ASSUME NEW n \in Scanners PROVE Sound(n)'
    <2>1. CASE n = s
        BY <2>1
    <2>2. CASE n # s
        <3>1. Sound(n) /\ Alike(scan'[n], scan[n])
            BY <1>2, <2>2, Zenon DEF ScanInv, AllSound, Alike
        <3>2. home[n] = home[s] /\ scan[n].rated /\ scan[n].alone => scan[s].priced
            <4>1. home[n] = home[s] => Clear(scan[n], scan[s])
                BY <2>2, Zenon DEF ScanInv, Apart
            <4>2. Busy(scan[s])
                BY DEF Busy
            <4> QED
                BY <4>1, <4>2, Zenon DEF Clear
        <3>3. \A row \in imported' : \/ row \in imported \/ on[row.id] # home[n] \/ row.priced
                                     \/ ~(scan[n].rated /\ scan[n].alone)
            BY <1>3, <3>2, Zenon
        <3> QED
            BY <1>1, <1>3, <3>1, <3>3, OthersKeepSound
    <2> QED
        BY <2>1, <2>2
<1>5. Apart'
    BY <1>1, MoveIsApart
<1> QED
    BY <1>3, <1>4, <1>5, Zenon DEF ScanInv, AllSound

LEMMA InitSound == Init => ScanInv
<1> SUFFICES ASSUME Init PROVE ScanInv
    OBVIOUS
<1>1. RowsAreUnique
    BY Zenon DEF Init, RowsAreUnique
<1>2. ASSUME NEW s \in Scanners PROVE Sound(s)
    <2>1. scan[s] = NoScan
        BY Zenon DEF Init
    <2>2. /\ NoScan.at = "idle" /\ NoScan.read = {} /\ NoScan.left = {} /\ NoScan.chunk = {}
          /\ NoScan.kept = {} /\ NoScan.first = TRUE /\ NoScan.rated = FALSE
        BY Zenon DEF NoScan
    <2> HIDE DEF NoScan
    <2> QED
        BY <2>1, <2>2, SMT DEF Sound, Nested, SessionsGoFirst, ChunkIsKept, RestIsImported
<1>3. Apart
    <2>1. \A s \in Scanners : scan[s] = NoScan
        BY Zenon DEF Init
    <2>2. NoScan.at = "idle" /\ NoScan.rated = FALSE
        BY Zenon DEF NoScan
    <2> HIDE DEF NoScan
    <2>3. Clear(NoScan, NoScan)
        BY <2>2, SMT DEF Clear, Busy
    <2> QED
        BY <2>1, <2>3, Zenon DEF Apart
<1> QED
    BY <1>1, <1>2, <1>3 DEF ScanInv, AllSound

(* No scan moves: what is said and metered is dated once.                    *)
LEMMA TrafficKeepsSound ==
    ASSUME Inv, ScanInv, Tick \/ Sync \/ \E r \in Requests : Begin(r) \/ Meter(r) \/ Say(r)
    PROVE  ScanInv'
<1>1. /\ UNCHANGED <<scan, on, home, imported, sessions>>
      /\ \A r \in Requests : said[r] # 0 => said'[r] = said[r]
      /\ \A q \in Requests : metered[q] # 0 => metered'[q] = metered[q]
      /\ rates => rates'
    <2>1. CASE Tick
        BY <2>1, Zenon DEF Tick, traffic, ledger
    <2>2. CASE Sync
        BY <2>2, Zenon DEF Sync, traffic, ledger
    <2>3. ASSUME NEW r \in Requests, Begin(r) \/ Meter(r) \/ Say(r)
          PROVE  <1>1!1 /\ <1>1!2 /\ <1>1!3 /\ <1>1!4
        <3>1. UNCHANGED <<scan, on, home, imported, sessions, rates>>
            BY <2>3, Zenon DEF Begin, Meter, Say, ledger
        <3>2. /\ said' = said \/ (/\ said[r] = 0
                                /\ \E ts \in {now, NoTs} : said' = [said EXCEPT ![r] = ts])
              /\ metered' = metered \/ (metered[r] = 0 /\ metered' = [metered EXCEPT ![r] = now])
            BY <2>3, Zenon DEF Begin, Meter, Say
        <3> QED
            BY <3>1, <3>2, SMT DEF Inv, TypeOK
    <2> QED
        BY <2>1, <2>2, <2>3, Zenon
<1>2. RowsAreUnique' /\ Imported' = Imported
    BY <1>1, Zenon DEF ScanInv, RowsAreUnique, Imported
<1>3. ASSUME NEW s \in Scanners PROVE Sound(s)'
    <2>1. Sound(s) /\ Alike(scan'[s], scan[s])
        BY <1>1, Zenon DEF ScanInv, AllSound, Alike
    <2> QED
        BY <1>1, <1>2, <2>1, OthersKeepSound
<1>4. Apart'
    BY <1>1, Zenon DEF ScanInv, Apart
<1> QED
    BY <1>2, <1>3, <1>4, Zenon DEF ScanInv, AllSound

LEMMA ScanMovesSound ==
    ASSUME Inv, ScanInv, NEW s \in Scanners,
           Launch(s) \/ Import(s) \/ Check(s) \/ ReadFiles(s) \/ Send(s)
    PROVE  ScanInv'
<1>1. scan[s] \in Scan /\ NoScan \in Scan
    BY NoScanTyped, Zenon DEF Inv, TypeOK, Scan, ScanPlaces
<1>2. /\ scan[s].left \subseteq Requests /\ scan[s].kept \subseteq Requests
      /\ scan[s].read \subseteq Requests /\ scan[s].chunk \subseteq Requests
    BY <1>1, SMT DEF Scan
<1>3. Sound(s)
    BY DEF ScanInv, AllSound
<1>4. /\ UNCHANGED <<on, said, metered, rates, imported, sessions, home>>
      /\ UNCHANGED <<now, traffic, ledger, rates, home>>
    BY Zenon DEF Launch, Import, Starts, Check, ReadFiles, Send, traffic, ledger
<1>5. Imported' = Imported /\ \A r \in Requests : Precedes(r)' <=> Precedes(r)
    BY <1>4, Zenon DEF Imported, Precedes
<1>7. CASE Launch(s) \/ Import(s)
    BY <1>7, StartKeepsSound
<1>8. CASE Check(s)
    <2>1. CASE stamped
        <3>1. scan' = [scan EXCEPT ![s] = NoScan]
            BY <1>8, <2>1, Zenon DEF Check
        <3>2. scan'[s] = NoScan
            BY <3>1, Zenon DEF Inv, TypeOK
        <3> QED
            BY <1>1, <1>4, <3>1, <3>2, NoScanIsSound, NoScanFollows, MoveKeeps
    <2>2. CASE ~stamped
        <3> DEFINE l == [scan[s] EXCEPT !.at = "reading"]
        <3>1. scan' = [scan EXCEPT ![s] = l] /\ scan[s].at = "checking"
            BY <1>8, <2>2, Zenon DEF Check
        <3>2. /\ l \in Scan /\ l.at = "reading" /\ l.left = scan[s].left /\ l.read = scan[s].read
              /\ l.kept = scan[s].kept /\ l.chunk = scan[s].chunk /\ l.first = scan[s].first
              /\ l.rated = scan[s].rated /\ l.alone = scan[s].alone
            BY <1>1, Zenon DEF Scan, ScanPlaces
        <3> HIDE DEF l
        <3>3. scan'[s] = l
            BY <3>1, Zenon DEF Inv, TypeOK
        <3>4. Nested(s)' /\ SessionsGoFirst(s)'
            BY <1>3, <1>4, <3>1, <3>2, <3>3, SMT DEF Sound, Nested, SessionsGoFirst
        <3>5. ChunkIsKept(s)' /\ RestIsImported(s)'
            BY <1>2, <1>3, <1>4, <1>5, <3>2, <3>3, SMT
            DEF Sound, ChunkIsKept, RestIsImported
        <3>6. Sound(s)'
            BY <3>4, <3>5 DEF Sound
        <3>7. Follows(l, scan[s])
            BY <3>1, <3>2, SMT DEF Follows, Busy
        <3> QED
            BY <1>4, <3>1, <3>2, <3>6, <3>7, MoveKeeps
    <2> QED
        BY <2>1, <2>2
<1>9. CASE ReadFiles(s)
    <2>1. PICK place \in {"done", "sending"} :
              /\ scan' = [scan EXCEPT ![s] = [scan[s] EXCEPT !.at = place, !.read = Rows(home[s]),
                                                             !.left = Rows(home[s]), !.rated = rates]]
              /\ place = "done" => Rows(home[s]) = {}
        BY <1>9, Zenon DEF ReadFiles
    <2> DEFINE l == [scan[s] EXCEPT !.at = place, !.read = Rows(home[s]), !.left = Rows(home[s]), !.rated = rates]
    <2>2. /\ Rows(home[s]) \subseteq Requests /\ \A r \in Rows(home[s]) : on[r] = home[s] /\ said[r] # 0
          /\ place = "done" => Rows(home[s]) = {}
        BY <2>1, Zenon DEF Rows
    <2>3. place \in ScanPlaces /\ place # "applying" /\ rates \in BOOLEAN
        BY SMT DEF ScanPlaces, Inv, TypeOK
    <2>4. /\ l \in Scan /\ l.at = place /\ l.read = Rows(home[s]) /\ l.left = Rows(home[s])
          /\ l.kept = scan[s].kept /\ l.chunk = scan[s].chunk /\ l.first = scan[s].first
          /\ l.rated = rates /\ l.alone = scan[s].alone
        BY <1>1, <2>2, <2>3, Zenon DEF Scan
    <2>5. scan' = [scan EXCEPT ![s] = l] /\ scan[s].at = "reading"
        BY <1>9, <2>1, Zenon DEF ReadFiles
    <2> HIDE DEF l
    <2>6. scan'[s] = l
        BY <2>5, Zenon DEF Inv, TypeOK
    <2>7. l.chunk = {} /\ l.kept = {}
        BY <1>3, <2>4, <2>5, SMT DEF Sound, Nested
    <2>8. Nested(s)'
        BY <1>4, <2>2, <2>4, <2>6, <2>7, SMT DEF Nested
    <2>9. SessionsGoFirst(s)'
        BY <1>3, <1>4, <2>2, <2>4, <2>6, SMT DEF Sound, SessionsGoFirst
    <2>10. ChunkIsKept(s)' /\ RestIsImported(s)'
        BY <1>4, <2>3, <2>4, <2>6, <2>7, SMT DEF ChunkIsKept, RestIsImported
    <2>11. Sound(s)'
        BY <2>8, <2>9, <2>10 DEF Sound
    <2>12. Follows(l, scan[s])
        BY <2>3, <2>4, <2>5, SMT DEF Follows, Busy
    <2> QED
        BY <1>4, <2>4, <2>5, <2>11, <2>12, MoveKeeps
<1>10. CASE Send(s)
    <2>1. PICK chunk \in SUBSET scan[s].left :
              /\ scan[s].at = "sending"
              /\ scan' = [scan EXCEPT ![s] = [scan[s] EXCEPT !.at = "applying", !.chunk = chunk,
                                                  !.kept = Older(chunk), !.priced = rates]]
        BY <1>10, Zenon DEF Send
    <2> DEFINE l == [scan[s] EXCEPT !.at = "applying", !.chunk = chunk, !.kept = Older(chunk),
                                    !.priced = rates]
    <2>2. /\ Older(chunk) \subseteq chunk /\ chunk \subseteq scan[s].left
          /\ \A r \in chunk : Precedes(r) => r \in Older(chunk)
        BY Zenon DEF Older, Precedes
    <2>3. /\ l \in Scan /\ l.at = "applying" /\ l.read = scan[s].read /\ l.left = scan[s].left
          /\ l.kept = Older(chunk) /\ l.chunk = chunk /\ l.first = scan[s].first
          /\ l.rated = scan[s].rated /\ l.priced = rates /\ l.alone = scan[s].alone
        BY <1>1, <1>2, <2>2, Zenon DEF Scan, ScanPlaces, Inv, TypeOK
    <2>4. scan' = [scan EXCEPT ![s] = l]
        BY <2>1
    <2> HIDE DEF l
    <2>5. scan'[s] = l
        BY <2>4, Zenon DEF Inv, TypeOK
    <2>6. Nested(s)' /\ SessionsGoFirst(s)'
        BY <1>3, <1>4, <2>2, <2>3, <2>5, SMT DEF Sound, Nested, SessionsGoFirst
    <2>7. ChunkIsKept(s)'
        BY <1>2, <1>3, <1>4, <1>5, <2>2, <2>3, <2>5, Zenon DEF Sound, ChunkIsKept
    <2>8. RestIsImported(s)'
        BY <1>2, <1>3, <1>4, <1>5, <2>3, <2>5, Zenon DEF Sound, RestIsImported
    <2>9. Sound(s)'
        BY <2>6, <2>7, <2>8 DEF Sound
    <2>10. Follows(l, scan[s])
        BY <2>1, <2>3, SMT DEF Follows, Busy
    <2> QED
        BY <1>4, <2>3, <2>4, <2>9, <2>10, MoveKeeps
<1> QED
    BY <1>7, <1>8, <1>9, <1>10

LEMMA ApplySound == ASSUME Inv, ScanInv, NEW s \in Scanners, Apply(s) PROVE ScanInv'
<1>1. scan[s] \in Scan
    BY Zenon DEF Inv, TypeOK, Scan, ScanPlaces
<1>2. /\ scan[s].left \subseteq Requests /\ scan[s].kept \subseteq Requests
      /\ scan[s].read \subseteq Requests /\ scan[s].chunk \subseteq Requests
    BY <1>1, SMT DEF Scan
<1>3. Sound(s)
    BY DEF ScanInv, AllSound
<1>4. /\ scan[s].at = "applying" /\ WritesRows(s) /\ WritesSessions(s)
      /\ UNCHANGED <<now, traffic, rates, home>> /\ UNCHANGED <<on, said, metered, rates, home>>
    BY Zenon DEF Apply, traffic
<1> DEFINE left == scan[s].left \ scan[s].chunk
<1>5. PICK place \in {"done", "sending"} :
          /\ scan' = [scan EXCEPT ![s] = [scan[s] EXCEPT !.at = place, !.left = left, !.chunk = {},
                                                         !.kept = {}, !.first = FALSE,
                                                         !.priced = FALSE]]
          /\ place = "done" => left = {}
    BY Zenon DEF Apply
<1> DEFINE l == [scan[s] EXCEPT !.at = place, !.left = left, !.chunk = {}, !.kept = {},
                                !.first = FALSE, !.priced = FALSE]
<1>6. left \subseteq scan[s].left /\ \A r \in scan[s].read \ left :
          r \in scan[s].read \ scan[s].left \/ r \in scan[s].chunk
    BY Zenon
<1> HIDE DEF left
<1>7. /\ l \in Scan /\ l.at = place /\ l.read = scan[s].read /\ l.left = left /\ l.kept = {}
      /\ l.chunk = {} /\ l.first = FALSE /\ l.rated = scan[s].rated /\ l.alone = scan[s].alone
    BY <1>1, <1>2, <1>6, Zenon DEF Scan, ScanPlaces
<1>8. scan' = [scan EXCEPT ![s] = l]
    BY <1>5
<1> HIDE DEF l
<1>9. scan'[s] = l
    BY <1>8, Zenon DEF Inv, TypeOK
<1>10. /\ Imported' = Imported \cup scan[s].kept
       /\ \A row \in imported' :
             IF row.id \in scan[s].kept THEN row.priced = scan[s].priced ELSE row \in imported
    BY <1>4, Written, Zenon
<1>11. sessions \subseteq sessions' /\ home[s] \in sessions'
    BY <1>3, <1>4, Zenon DEF WritesSessions, Sound, SessionsGoFirst
<1>12. Nested(s)'
    BY <1>3, <1>4, <1>5, <1>6, <1>7, <1>9, SMT DEF Sound, Nested
<1>13. SessionsGoFirst(s)'
    <2>1. home' = home
        BY <1>4
    <2> QED
        BY <1>5, <1>7, <1>9, <1>11, <2>1, SMT DEF SessionsGoFirst
<1>14. ChunkIsKept(s)'
    BY <1>3, <1>4, <1>5, <1>7, <1>9, SMT DEF Sound, ChunkIsKept
<1>15. RestIsImported(s)'
    <2> SUFFICES ASSUME NEW r \in scan[s].read \ left, Precedes(r)'
                 PROVE  /\ r \in Imported'
                        /\ scan[s].rated /\ scan[s].alone =>
                              \A row \in imported' : row.id = r => row.priced
        BY <1>7, <1>9, Zenon DEF RestIsImported
    <2>1. Precedes(r)
        BY <1>4, Zenon DEF Precedes
    <2>2. CASE r \in scan[s].kept
        <3>1. scan[s].rated => scan[s].priced
            BY <1>3, <1>4, Zenon DEF Sound, ChunkIsKept
        <3> QED
            BY <1>10, <2>2, <3>1, Zenon
    <2>3. CASE r \notin scan[s].kept
        <3>1. r \in scan[s].read \ scan[s].left
            BY <1>3, <1>6, <2>1, <2>3, Zenon DEF Sound, ChunkIsKept
        <3> QED
            BY <1>3, <1>10, <2>1, <2>3, <3>1, Zenon DEF Sound, RestIsImported
    <2> QED
        BY <2>2, <2>3
<1>16. Sound(s)'
    BY <1>12, <1>13, <1>14, <1>15 DEF Sound
<1>17. Follows(l, scan[s])
    <2>1. Busy(scan[s]) /\ ~(place = "applying")
        BY <1>4, SMT DEF Busy
    <2> QED
        BY <1>7, <2>1, Zenon DEF Follows
<1> QED
    BY <1>4, <1>7, <1>8, <1>11, <1>16, <1>17, MoveAndWriteKeeps

LEMMA FailSound == ASSUME Inv, ScanInv, NEW s \in Scanners, Fail(s) PROVE ScanInv'
<1>1. scan' = [scan EXCEPT ![s] = NoScan] /\ UNCHANGED <<now, traffic, rates, home>>
    BY Zenon DEF Fail
<1>2. scan'[s] = NoScan /\ NoScan \in Scan
    BY <1>1, NoScanTyped, Zenon DEF Inv, TypeOK
<1>3. Sound(s)'
    BY <1>2, NoScanIsSound
<1>4. CASE UNCHANGED ledger
    BY <1>1, <1>2, <1>3, <1>4, NoScanFollows, MoveKeeps
<1>5. CASE ~UNCHANGED ledger
    <2>1. scan[s].at = "applying" /\ WritesRows(s) /\ sessions \subseteq sessions'
        BY <1>5, Zenon DEF Fail, WritesSessions
    <2> QED
        BY <1>1, <1>2, <1>3, <2>1, NoScanFollows, MoveAndWriteKeeps
<1> QED
    BY <1>4, <1>5

LEMMA ScanInvHolds == Spec => []ScanInv
<1>1. Inv /\ ScanInv /\ [Next]_vars => ScanInv'
    <2>1. ASSUME ScanInv, UNCHANGED vars PROVE ScanInv'
        <3>1. UNCHANGED <<on, metered, said, imported, sessions, rates, home, scan>>
            BY <2>1, Zenon DEF vars
        <3>2. RowsAreUnique'
            BY <2>1, <3>1, Zenon DEF ScanInv, RowsAreUnique
        <3>3. ASSUME NEW s \in Scanners PROVE Sound(s)'
            <4>1. Sound(s)
                BY <2>1 DEF ScanInv, AllSound
            <4> QED
                BY <3>1, <4>1 DEF Sound, Nested, SessionsGoFirst, ChunkIsKept, RestIsImported,
                                  Precedes, Imported
        <3>4. Apart'
            BY <2>1, <3>1, Zenon DEF ScanInv, Apart
        <3> QED
            BY <3>2, <3>3, <3>4 DEF ScanInv, AllSound
    <2> QED
        BY <2>1, TrafficKeepsSound, ScanMovesSound, ApplySound, FailSound, Zenon DEF Next
<1> QED
    BY <1>1, InitSound, InvHolds, PTL DEF Spec

(* A scan that was not cut short has all it read in the ledger that precedes *)
(* what was metered, once, and its machine's sessions, whatever other scans, *)
(* of other machines or its own, wrote meanwhile.                            *)
THEOREM WholeScansAreComplete == Spec => []ScansAreComplete
<1>1. Inv /\ ScanInv => ScansAreComplete
    <2> SUFFICES ASSUME Inv, ScanInv PROVE ScansAreComplete
        OBVIOUS
    <2>1. ASSUME NEW s \in Scanners, scan[s].at = "done"
          PROVE  /\ \A r \in scan[s].read : Precedes(r) => r \in Imported
                 /\ scan[s].read # {} => home[s] \in sessions
        BY <2>1, Zenon DEF ScanInv, AllSound, Sound, SessionsGoFirst, RestIsImported
    <2> QED
        BY <2>1, Zenon DEF ScansAreComplete, ScanInv, RowsAreUnique
<1> QED
    BY <1>1, InvHolds, ScanInvHolds, PTL

(* A scan that began with prices and that no other scan of its machine       *)
(* overlapped leaves no row it read without one, whatever earlier scans and  *)
(* those of other machines wrote, and no later scan takes a price from it.   *)
THEOREM ScansReprice == Spec => []RescansReprice
<1>1. Inv /\ ScanInv => RescansReprice
    <2> SUFFICES ASSUME Inv, ScanInv, NEW s \in Scanners, scan[s].at = "done", scan[s].rated,
                        scan[s].alone, NEW row \in imported, row.id \in scan[s].read, Precedes(row.id)
                 PROVE  row.priced
        BY DEF RescansReprice
    <2> QED
        BY Zenon DEF ScanInv, AllSound, Sound, SessionsGoFirst, RestIsImported
<1> QED
    BY <1>1, InvHolds, ScanInvHolds, PTL
=============================================================================
