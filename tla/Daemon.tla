-------------------------------- MODULE Daemon --------------------------------
(***************************************************************************)
(* The gateway's processes: daemons that take the data port and the admin   *)
(* socket, stop and give them back, and the clients that start, adopt, stop *)
(* and replace them: the desktop app with its watchdog, and the CLI.        *)
(* (gateway/src/main.rs, server/admin_ipc.rs, core/src/sidecar.rs,          *)
(* app/src-tauri/src/daemon.rs and lib.rs, cli/src/cmds/gateway.rs)         *)
(*                                                                          *)
(* The socket is a name in the file system: a daemon that closes its        *)
(* listener, or dies, leaves the name behind, and connecting to it then     *)
(* fails.  A slot of Daemons is a process; it is free again when it exits.  *)
(***************************************************************************)
EXTENDS Naturals

CONSTANTS
    Daemons,     \* process slots
    MaxVersion,  \* versions of the program that may be installed
    MaxStarts,   \* bound on how often the app is started
    MaxCommands, \* bound on the CLI's commands
    MaxCrashes   \* bound on the daemons that are killed

None   == "none"
Corpse == "corpse"   \* a socket file nobody listens on
Exited == "exited"   \* a child that is over

ASSUME DaemonAssumption ==
    /\ MaxVersion \in Nat \ {0} /\ MaxStarts \in Nat /\ MaxCommands \in Nat /\ MaxCrashes \in Nat
    /\ Daemons \cap {None, Corpse, Exited} = {}

Clients == {"app", "cli"}

VARIABLES
    at,        \* daemon -> where it is
    version,   \* daemon -> the version it was built from
    stopping,  \* daemons that were asked to stop
    accepting, \* daemons whose admin listener is open
    port,      \* who holds the data port
    file,      \* what the socket's path names
    app,       \* the desktop app: running or not, its child, its subscription
    watch,     \* its watchdog: where it is, and what it saw of the child
    job,       \* client -> what it is about to do with the daemon
    installed, \* the version of the program on disk
    starts, commands, crashes,
    raced      \* history: a daemon bound the socket under another's cleanup

daemonVars == <<at, version, stopping, accepting, port, file, app, watch, job, installed,
          starts, commands, crashes, raced>>

daemons == <<at, version, stopping, accepting, port, file, raced>>
clients == <<app, watch, job, installed, starts, commands>>

NoJob == [goal |-> None, at |-> "idle"]
Asleep == [at |-> "sleep", child |-> None]

(* Nobody, or one that was started long ago: a daemon outlives its clients.  *)
DaemonInit ==
    /\ \E up \in {None} \cup Daemons :
          /\ at = [d \in Daemons |-> IF d = up THEN "serving" ELSE "off"]
          /\ accepting = {up} \cap Daemons
          /\ port = up
          /\ file \in IF up = None THEN {None, Corpse} ELSE {up}
    /\ version = [d \in Daemons |-> 1] /\ stopping = {}
    /\ app = [up |-> FALSE, child |-> None, follows |-> None]
    /\ watch = Asleep
    /\ job = [c \in Clients |-> NoJob]
    /\ installed = 1
    /\ starts = 0 /\ commands = 0 /\ crashes = 0
    /\ raced = FALSE

(* A connect to the socket's path is accepted; ping_admin.                   *)
Answers == file \in Daemons

-----------------------------------------------------------------------------
(* A daemon.                                                                 *)

Goes(d, place) == at' = [at EXCEPT ![d] = place]

(* The process ends, and the system closes what it held.                     *)
Exits(d) ==
    /\ Goes(d, "off")
    /\ stopping' = stopping \ {d} /\ accepting' = accepting \ {d}
    /\ port' = IF port = d THEN None ELSE port
    /\ file' = IF file = d THEN Corpse ELSE file
    /\ app' = [app EXCEPT !.child = IF @ = d THEN Exited ELSE @,
                          !.follows = IF @ = d THEN None ELSE @]
    /\ UNCHANGED <<version, watch, job, installed, starts, commands, raced>>

(* The data port first: whoever has it is alone in what follows.             *)
BindData(d) ==
    /\ at[d] = "starting"
    /\ IF port # None
       THEN Exits(d)
       ELSE /\ port' = d /\ Goes(d, "binding")
            /\ UNCHANGED <<version, stopping, accepting, file, raced, clients>>
    /\ UNCHANGED crashes

Serves(d) ==
    /\ file' = d /\ accepting' = accepting \cup {d}
    /\ Goes(d, "serving")
    /\ raced' = (raced \/ \E e \in Daemons : at[e] = "unlinking")
    /\ UNCHANGED <<version, stopping, port, clients>>

(* AdminEndpoint::bind: a free name is taken, one that is in use is probed.  *)
BindAdmin(d) ==
    /\ at[d] = "binding"
    /\ IF file = None
       THEN Serves(d)
       ELSE /\ Goes(d, "probing")
            /\ UNCHANGED <<version, stopping, accepting, port, file, raced, clients>>
    /\ UNCHANGED crashes

Probe(d) ==
    /\ at[d] = "probing"
    /\ IF Answers
       THEN Exits(d)
       ELSE /\ Goes(d, "reclaiming")
            /\ UNCHANGED <<version, stopping, accepting, port, file, raced, clients>>
    /\ UNCHANGED crashes

(* A corpse is removed; one that has gone meanwhile is an error.             *)
Reclaim(d) ==
    /\ at[d] = "reclaiming"
    /\ IF file = None
       THEN Exits(d)
       ELSE /\ file' = None /\ Goes(d, "rebinding")
            /\ UNCHANGED <<version, stopping, accepting, port, raced, clients>>
    /\ UNCHANGED crashes

Rebind(d) ==
    /\ at[d] = "rebinding"
    /\ IF file = None THEN Serves(d) ELSE Exits(d)
    /\ UNCHANGED crashes

(* Asked to stop, the two serve loops drop their listeners, each on its own. *)
CloseData(d) ==
    /\ at[d] = "serving" /\ d \in stopping /\ port = d
    /\ port' = None
    /\ UNCHANGED <<at, version, stopping, accepting, file, raced, clients, crashes>>

CloseAdmin(d) ==
    /\ at[d] = "serving" /\ d \in stopping /\ d \in accepting
    /\ accepting' = accepting \ {d}
    /\ file' = IF file = d THEN Corpse ELSE file
    /\ UNCHANGED <<at, version, stopping, port, raced, clients, crashes>>

(* The loops return when every response is finished.  An /events stream is   *)
(* one that does not: it ends with its reader, or when its sender, which the *)
(* state holds as long as the process runs, is dropped.                      *)
Drain(d) ==
    /\ at[d] = "serving" /\ d \in stopping /\ port # d /\ d \notin accepting
    /\ app.follows # d
    /\ Goes(d, "cleaning")
    /\ UNCHANGED <<version, stopping, accepting, port, file, raced, clients, crashes>>

(* Faults: the name is removed unprobed; cleanup waits for a name of its own.*)
CleanupUnprobed(d) ==
    /\ at[d] = "cleaning"
    /\ IF file = None
       THEN Exits(d)
       ELSE /\ Goes(d, "unlinking")
            /\ UNCHANGED <<version, stopping, accepting, port, file, raced, clients>>
    /\ UNCHANGED crashes

CleanupWaits(d) ==
    /\ at[d] = "cleaning" /\ ~Answers
    /\ IF file = None
       THEN Exits(d)
       ELSE /\ Goes(d, "unlinking")
            /\ UNCHANGED <<version, stopping, accepting, port, file, raced, clients>>
    /\ UNCHANGED crashes

(* AdminEndpoint::cleanup: the name is removed if nobody answers at it.      *)
Cleanup(d) ==
    /\ at[d] = "cleaning"
    /\ IF file = None \/ Answers
       THEN Exits(d)
       ELSE /\ Goes(d, "unlinking")
            /\ UNCHANGED <<version, stopping, accepting, port, file, raced, clients>>
    /\ UNCHANGED crashes

Unlink(d) ==
    /\ at[d] = "unlinking"
    /\ Goes(d, "off")
    /\ file' = None
    /\ stopping' = stopping \ {d}
    /\ app' = [app EXCEPT !.child = IF @ = d THEN Exited ELSE @]
    /\ UNCHANGED <<version, accepting, port, raced, watch, job, installed, starts, commands, crashes>>

Run(d) ==
    \/ BindData(d) \/ BindAdmin(d) \/ Probe(d) \/ Reclaim(d) \/ Rebind(d)
    \/ CloseData(d) \/ CloseAdmin(d) \/ Drain(d) \/ Cleanup(d) \/ Unlink(d)

(* Killed, or out of memory, anywhere.                                       *)
Crash(d) ==
    /\ at[d] # "off" /\ crashes < MaxCrashes
    /\ crashes' = crashes + 1
    /\ Exits(d)

-----------------------------------------------------------------------------
(* What a client does with the daemon: the app when it starts, the CLI for a *)
(* command.                                                                  *)

Does(c, goal, place) == job' = [job EXCEPT ![c] = [goal |-> goal, at |-> place]]
Finishes(c) == job' = [job EXCEPT ![c] = NoJob]

(* The app may come back as a newer version of itself.                       *)
StartApp ==
    /\ ~app.up /\ starts < MaxStarts
    /\ starts' = starts + 1
    /\ installed' \in installed..MaxVersion
    /\ app' = [app EXCEPT !.up = TRUE]
    /\ Does("app", "start", "asking")
    /\ UNCHANGED <<daemons, watch, commands, crashes>>

(* The daemon is not the app's to kill: it keeps running.                    *)
QuitApp ==
    /\ app.up
    /\ app' = [up |-> FALSE, child |-> None, follows |-> None]
    /\ watch' = Asleep
    /\ Finishes("app")
    /\ UNCHANGED <<daemons, installed, starts, commands, crashes>>

Command(goal) ==
    /\ job["cli"] = NoJob /\ commands < MaxCommands
    /\ commands' = commands + 1
    /\ Does("cli", goal, IF goal = "start" THEN "asking" ELSE "stopping")
    /\ UNCHANGED <<daemons, app, watch, installed, starts, crashes>>

(* startup_action: nobody there, one of ours, or one to be replaced.         *)
Ask(c) ==
    /\ job[c].at = "asking"
    /\ IF ~Answers THEN Does(c, "start", "spawning")
       ELSE IF version[file] = installed THEN Finishes(c)
       ELSE Does(c, "restart", "stopping")
    /\ UNCHANGED <<daemons, app, watch, installed, starts, commands, crashes>>

(* request_shutdown; when nobody takes it, the command has failed.           *)
AskToStop(c) ==
    /\ job[c].at = "stopping"
    /\ IF Answers
       THEN stopping' = stopping \cup {file} /\ Does(c, job[c].goal, "waiting")
       ELSE Finishes(c) /\ UNCHANGED stopping
    /\ UNCHANGED <<at, version, accepting, port, file, raced, app, watch, installed, starts, commands,
                   crashes>>

(* It is polled until nobody answers, fifty times at most.                   *)
AwaitStop(c) ==
    /\ job[c].at = "waiting"
    /\ IF Answers \/ job[c].goal = "stop"
       THEN Finishes(c)
       ELSE Does(c, "restart", "spawning")
    /\ UNCHANGED <<daemons, app, watch, installed, starts, commands, crashes>>

Spawned(d) ==
    /\ at[d] = "off"
    /\ Goes(d, "starting")
    /\ version' = [version EXCEPT ![d] = installed]
    /\ UNCHANGED <<stopping, accepting, port, file, raced, installed, starts, commands, crashes>>

Spawn(c) ==
    /\ job[c].at = "spawning"
    /\ \E d \in Daemons :
          /\ Spawned(d)
          /\ app' = IF c = "app" THEN [app EXCEPT !.child = d] ELSE app
    /\ Finishes(c)
    /\ UNCHANGED watch

Act(c) == Ask(c) \/ AskToStop(c) \/ AwaitStop(c) \/ Spawn(c)

-----------------------------------------------------------------------------
(* The app while it runs.                                                    *)

Watches(place) == app.up /\ job["app"] = NoJob /\ watch.at = place

(* One tick: is the child over, does anyone answer, and what of it.          *)
WatchChild ==
    /\ Watches("sleep")
    /\ watch' = [at |-> "ping",
                 child |-> IF app.child \in Daemons THEN "running" ELSE app.child]
    /\ UNCHANGED <<daemons, app, job, installed, starts, commands, crashes>>

(* Fault: no child is no reason to spawn one.                                *)
WatchOwnChildOnly ==
    /\ Watches("ping")
    /\ IF watch.child = Exited /\ ~Answers
       THEN watch' = [watch EXCEPT !.at = "respawn"] /\ UNCHANGED app
       ELSE /\ watch' = Asleep
            /\ app' = IF watch.child = Exited THEN [app EXCEPT !.child = None] ELSE app
    /\ UNCHANGED <<daemons, job, installed, starts, commands, crashes>>

(* watchdog_decision.                                                        *)
WatchPing ==
    /\ Watches("ping")
    /\ IF watch.child # "running" /\ ~Answers
       THEN watch' = [watch EXCEPT !.at = "respawn"] /\ UNCHANGED app
       ELSE /\ watch' = Asleep
            /\ app' = IF watch.child = Exited THEN [app EXCEPT !.child = None] ELSE app
    /\ UNCHANGED <<daemons, job, installed, starts, commands, crashes>>

(* Asked again under the lock: it may have come up since.                    *)
WatchAgain ==
    /\ Watches("respawn")
    /\ IF Answers
       THEN watch' = Asleep /\ app' = [app EXCEPT !.child = None]
       ELSE watch' = [watch EXCEPT !.at = "spawn"] /\ UNCHANGED app
    /\ UNCHANGED <<daemons, job, installed, starts, commands, crashes>>

WatchSpawn ==
    /\ Watches("spawn")
    /\ \E d \in Daemons : Spawned(d) /\ app' = [app EXCEPT !.child = d]
    /\ watch' = Asleep
    /\ UNCHANGED job

Watch == WatchChild \/ WatchPing \/ WatchAgain \/ WatchSpawn

(* watch_events: one subscription, renewed when it has ended.                *)
Follow ==
    /\ app.up /\ job["app"] = NoJob /\ app.follows = None /\ Answers
    /\ app' = [app EXCEPT !.follows = file]
    /\ UNCHANGED <<daemons, watch, job, installed, starts, commands, crashes>>

DaemonNext ==
    \/ \E d \in Daemons : Run(d) \/ Crash(d)
    \/ StartApp \/ QuitApp
    \/ \E goal \in {"start", "stop", "restart"} : Command(goal)
    \/ \E c \in Clients : Act(c)
    \/ Watch
    \/ Follow

DaemonSpec == DaemonInit /\ [][DaemonNext]_daemonVars

(* Every process that runs gets to run: daemons, commands, the watchdog.     *)
FairDaemonSpec ==
    /\ DaemonSpec
    /\ \A d \in Daemons : WF_daemonVars(Run(d))
    /\ \A c \in Clients : WF_daemonVars(Act(c))
    /\ WF_daemonVars(Watch)

-----------------------------------------------------------------------------
Places == {"off", "starting", "binding", "probing", "reclaiming", "rebinding", "serving",
           "cleaning", "unlinking"}

DaemonTypeOK ==
    /\ at \in [Daemons -> Places] /\ version \in [Daemons -> 1..MaxVersion]
    /\ stopping \in SUBSET Daemons /\ accepting \in SUBSET Daemons
    /\ port \in {None} \cup Daemons /\ file \in {None, Corpse} \cup Daemons
    /\ app \in [up : BOOLEAN, child : {None, Exited} \cup Daemons, follows : {None} \cup Daemons]
    /\ watch \in [at : {"sleep", "ping", "respawn", "spawn"}, child : {None, Exited, "running"}]
    /\ job \in [Clients -> [goal : {None, "start", "stop", "restart"},
                            at : {"idle", "asking", "stopping", "waiting", "spawning"}]]
    /\ installed \in 1..MaxVersion /\ raced \in BOOLEAN
    /\ starts \in Nat /\ commands \in Nat /\ crashes \in Nat

(* Who holds what: the port and the socket are held by processes that run,   *)
(* and a child or a subscription is one of them or has been seen to end.     *)
HeldByTheLiving ==
    /\ \A d \in stopping : at[d] # "off"
    /\ \A d \in accepting : at[d] = "serving"
    /\ port # None => at[port] \in {"binding", "probing", "reclaiming", "rebinding", "serving"}
    /\ file \in Daemons => file \in accepting
    /\ app.child \in Daemons => at[app.child] # "off"
    /\ app.follows # None => at[app.follows] = "serving"

Serving(d) == at[d] = "serving" /\ d \notin stopping

(* "The new daemon kept serving the data plane, its admin plane became       *)
(* unreachable" (admin_ipc.rs:531) does not happen: whatever else starts,    *)
(* dies or cleans up, a daemon that serves is the one the socket names, but  *)
(* for the window admin_ipc.rs:542 owns up to.                               *)
ServesBothPlanes == \A d \in Daemons : Serving(d) => port = d /\ (file = d \/ raced)

Reachable == \E d \in Daemons : Serving(d) /\ file = d

(* A daemon that has stopped serving and cannot go: the app listens to it.   *)
Held == app.follows # None /\ app.follows \in stopping

(* "A watchdog must respawn it after a crash" (daemon.rs:18): however        *)
(* daemons die and commands cross, while the app runs there is a gateway     *)
(* again, unless the app itself holds on to one that was told to stop.       *)
BroughtBack == (app.up /\ ~Reachable) ~> (Reachable \/ ~app.up \/ Held \/ raced)

(* A daemon that was asked to stop and that nobody listens to exits.         *)
StopsUnlessFollowed ==
    \A d \in Daemons : (d \in stopping) ~> (at[d] = "off" \/ app.follows = d)

(* "It ends because the gateway stopped" (daemon.rs:74): a daemon that was   *)
(* asked to stop exits, and the app's subscription ends with it.             *)
Stops == \A d \in Daemons : (d \in stopping) ~> (at[d] = "off")
=============================================================================
