---------------------------- MODULE DebugSessions ----------------------------
(***************************************************************************)
(* The registry of Flutter debug sessions                                  *)
(* (data/repositories/flutter_debug_session_repository.py) and the file    *)
(* that outlives the server (infrastructure/debug_session_store.py).       *)
(*                                                                         *)
(* Every MCP process keeps a registry in memory and serves requests as     *)
(* asyncio tasks, which interleave only at an await that leaves the        *)
(* process: the launch of `flutter run', a probe of a VM service, the stop *)
(* of a daemon.  Processes interleave between the load and the rename of   *)
(* the store as well; no other task of a process runs between those two.   *)
(*                                                                         *)
(* A session id stands for its record: its VM service never changes.       *)
(* `stopped', `missed' and `cut' are history variables.                    *)
(***************************************************************************)
EXTENDS Naturals, Sequences, SequencesExt, Functions, FiniteSets

CONSTANTS Proc,   \* the MCP processes; one that ends may be started again
          Task,   \* the requests a process may have in flight
          Sid,    \* the debug session ids, each used once
          NoSid, NoProc

ASSUME NullsOK == NoSid \notin Sid /\ NoProc \notin Proc

VARIABLES
    up,        \* the processes that run
    sessions,  \* sessions[p]: the keys of _sessions, in insertion order
    clients,   \* clients[p]: those with a daemon client of their own
    reattach,  \* reattach[p]: _reattach, loaded from the store at start
    recent,    \* recent[p]: _most_recent
    writing,   \* writing[p]: {} or {the ids p loaded and changed, not yet renamed}
    task,      \* task[p][t]: where request t of p is suspended
    store,     \* the ids in the store's file
    vm,        \* vm[s]: the app whose VM service s talks to, named by its first session
    alive,     \* the apps that run
    daemon,    \* daemon[s]: the process that spawned the `flutter run' of s
    used,      \* the ids given out
    stopped,   \* the sessions some caller asked to stop
    missed,    \* those whose record a write left as it was, or a failed probe took
    cut        \* the daemons whose start or stop was cancelled, or that outlived a crash

registry == <<sessions, clients, reattach, recent>>
world    == <<vm, alive, daemon>>
history  == <<used, stopped, missed, cut>>
vars     == <<up, registry, writing, task, store, world, history>>
-----------------------------------------------------------------------------
Free == [pc |-> "free", sid |-> NoSid, todo |-> {}]

Registered(p) == Range(sessions[p])
At(p, t, pc) == p \in up /\ writing[p] = {} /\ task[p][t].pc = pc
Launching(p) == {task[p][t].sid : t \in {u \in Task : task[p][u].pc = "launch"}}
Become(p, t, state) == task' = [task EXCEPT ![p][t] = state]

(* Mutant: the file is written without having been loaded. *)
Upsert_noLoad(p, s) == writing' = [writing EXCEPT ![p] = {{s}}]

(* upsert and remove: load, change, and later rename over the file.         *)
Upsert(p, s) == writing' = [writing EXCEPT ![p] = {store \cup {s}}]
Erase(p, s) == writing' = [writing EXCEPT ![p] = {store \ {s}}]

(* A dict keeps the place of a key that is assigned again.                  *)
Keep(p, s) == IF s \in Registered(p) THEN sessions[p] ELSE Append(sessions[p], s)
Place(p, s) == CHOOSE i \in DOMAIN sessions[p] : sessions[p][i] = s
Without(p, s) == IF s \in Registered(p) THEN RemoveAt(sessions[p], Place(p, s)) ELSE sessions[p]
-----------------------------------------------------------------------------
Init ==
    /\ up = Proc
    /\ sessions = [p \in Proc |-> <<>>]
    /\ clients = [p \in Proc |-> {}]
    /\ reattach = [p \in Proc |-> {}]
    /\ recent = [p \in Proc |-> NoSid]
    /\ writing = [p \in Proc |-> {}]
    /\ task = [p \in Proc |-> [t \in Task |-> Free]]
    /\ store = {}
    /\ vm = [s \in Sid |-> NoSid]
    /\ alive = {}
    /\ daemon = [s \in Sid |-> NoProc]
    /\ used = {}
    /\ stopped = {}
    /\ missed = {}
    /\ cut = {}

(* _write: the renamed file replaces whatever is there by now; an OSError   *)
(* leaves the old one, and nobody is told.                                  *)
Differ(ids) == (ids \ store) \cup (store \ ids)

Rename(p) ==
    /\ p \in up
    /\ \E ids \in writing[p] :
         \/ store' = ids /\ UNCHANGED missed
         \/ missed' = missed \cup Differ(ids) /\ UNCHANGED store
    /\ writing' = [writing EXCEPT ![p] = {}]
    /\ UNCHANGED <<up, registry, task, world, used, stopped, cut>>

(* Session s enters the registry of p and becomes the default target.       *)
Enter(p, s) ==
    /\ sessions' = [sessions EXCEPT ![p] = Keep(p, s)]
    /\ recent' = [recent EXCEPT ![p] = s]
    /\ Upsert(p, s)

(***************************************************************************)
(* start: check the lock, launch `flutter run', register, upsert.  A device *)
(* whose lock another process holds (see DeviceLocks) refuses the start,   *)
(* which changes nothing; a web target has no lock.                        *)
(***************************************************************************)
StartBegin(p, t, s) ==
    /\ At(p, t, "free")
    /\ s \notin used
    /\ daemon' = [daemon EXCEPT ![s] = p]
    /\ Become(p, t, [Free EXCEPT !.pc = "launch", !.sid = s])
    /\ used' = used \cup {s}
    /\ UNCHANGED <<up, registry, writing, store, vm, alive, stopped, missed, cut>>

(* app.started arrived; an app built for release has no VM service.         *)
StartDone(p, t) ==
    /\ At(p, t, "launch")
    /\ LET s == task[p][t].sid IN
       /\ alive' = alive \cup {s}
       /\ vm' \in {vm, [vm EXCEPT ![s] = s]}
       /\ clients' = [clients EXCEPT ![p] = @ \cup {s}]
       /\ Enter(p, s)
    /\ Become(p, t, Free)
    /\ UNCHANGED <<up, reattach, store, daemon, history>>

(* Mutant: the subprocess is left running at a timeout. *)
StartTimeout_noStop(p, t) ==
    /\ At(p, t, "launch")
    /\ Become(p, t, Free)
    /\ UNCHANGED <<up, registry, writing, store, world, history>>

(* No app.started within the timeout: the client stops its subprocess.      *)
StartTimeout(p, t) ==
    /\ At(p, t, "launch")
    /\ daemon' = [daemon EXCEPT ![task[p][t].sid] = NoProc]
    /\ Become(p, t, Free)
    /\ UNCHANGED <<up, registry, writing, store, vm, alive, history>>

(* attach: the VM service of app a answers; a new session without client.   *)
Attach(p, t, s, a) ==
    /\ At(p, t, "free")
    /\ s \notin used
    /\ a \in alive /\ vm[a] = a
    /\ vm' = [vm EXCEPT ![s] = a]
    /\ reattach' = [reattach EXCEPT ![p] = @ \ {s}]
    /\ Enter(p, s)
    /\ used' = used \cup {s}
    /\ UNCHANGED <<up, clients, task, store, alive, daemon, stopped, missed, cut>>
-----------------------------------------------------------------------------
(***************************************************************************)
(* stop: out of the registry and the store; then stop the daemon, if any.  *)
(***************************************************************************)
(* Mutant: no other session becomes the default target. *)
Newest_none(q) == NoSid

Newest(q) == IF q = <<>> THEN NoSid ELSE q[Len(q)]

StopBegin(p, t, s) ==
    /\ At(p, t, "free")
    /\ s \in used
    /\ \A q \in up : s \notin Launching(q)       \* an id is given out when it has started
    /\ sessions' = [sessions EXCEPT ![p] = Without(p, s)]
    /\ clients' = [clients EXCEPT ![p] = @ \ {s}]
    /\ reattach' = [reattach EXCEPT ![p] = @ \ {s}]
    /\ recent' = [recent EXCEPT ![p] = IF @ = s THEN Newest(Without(p, s)) ELSE @]
    /\ Erase(p, s)
    /\ stopped' = stopped \cup {s}
    /\ IF s \in clients[p]
       THEN Become(p, t, [Free EXCEPT !.pc = "stop", !.sid = s])
       ELSE UNCHANGED task
    /\ UNCHANGED <<up, store, world, used, missed, cut>>

StopDone(p, t) ==
    /\ At(p, t, "stop")
    /\ LET s == task[p][t].sid IN
       /\ daemon' = [daemon EXCEPT ![s] = NoProc]
       /\ alive' = alive \ {s}
    /\ Become(p, t, Free)
    /\ UNCHANGED <<up, registry, writing, store, vm, history>>

(***************************************************************************)
(* list_sessions: revive or prune, one by one, the records loaded at start *)
(* that were not in the registry when the list began.                      *)
(***************************************************************************)
ListBegin(p, t) ==
    /\ At(p, t, "free")
    /\ reattach[p] \ Registered(p) # {}
    /\ Become(p, t, [Free EXCEPT !.pc = "list", !.todo = reattach[p] \ Registered(p)])
    /\ UNCHANGED <<up, registry, writing, store, world, history>>

(* Mutant: a dead record is forgotten in memory only. *)
Prune_memoryOnly(p, s) ==
    /\ reattach' = [reattach EXCEPT ![p] = @ \ {s}]
    /\ UNCHANGED <<sessions, clients, recent, writing>>

Prune(p, s) ==
    /\ reattach' = [reattach EXCEPT ![p] = @ \ {s}]
    /\ Erase(p, s)
    /\ UNCHANGED <<sessions, clients, recent>>

Revive(p, s) ==
    /\ sessions' = [sessions EXCEPT ![p] = Keep(p, s)]
    /\ clients' = [clients EXCEPT ![p] = @ \ {s}]
    /\ reattach' = [reattach EXCEPT ![p] = @ \ {s}]
    /\ recent' = [recent EXCEPT ![p] = IF @ = NoSid THEN s ELSE @]
    /\ UNCHANGED writing

Left(p, t, s) == IF task[p][t].todo = {s} THEN Free ELSE [task[p][t] EXCEPT !.todo = @ \ {s}]

(* Mutant: any outcome of the probe is taken for an answer. *)
ListNext_anyAnswer(p, t, s) ==
    /\ At(p, t, "list")
    /\ s \in task[p][t].todo
    /\ Revive(p, s)
    /\ Become(p, t, Left(p, t, s))
    /\ UNCHANGED <<up, store, world, history>>

(* The probe of the next record answers or fails; without a uri there is no *)
(* probe.  It may fail of an app that runs: its isolate is not there yet,   *)
(* the connection breaks, the websockets library is missing.                *)
ListNext(p, t, s) ==
    /\ At(p, t, "list")
    /\ s \in task[p][t].todo
    /\ \/ vm[s] \in alive /\ Revive(p, s) /\ UNCHANGED missed
       \/ Prune(p, s) /\ missed' = missed \cup (IF vm[s] \in alive THEN {s} ELSE {})
    /\ Become(p, t, Left(p, t, s))
    /\ UNCHANGED <<up, store, world, used, stopped, cut>>

(* A request is cancelled at its await.  Nothing there catches that: the    *)
(* daemon it was about to register, or had taken out of the registry, stays *)
(* unless it ends by itself, and the app of a launch may start nevertheless.*)
Cancel(p, t) ==
    /\ LET s == task[p][t].sid IN
       \/ At(p, t, "list") /\ UNCHANGED <<vm, alive, daemon, cut>>
       \/ /\ At(p, t, "launch") \/ At(p, t, "stop")
          /\ daemon' = [daemon EXCEPT ![s] = NoProc]
          /\ UNCHANGED <<vm, alive, cut>>
       \/ /\ At(p, t, "launch") \/ At(p, t, "stop")
          /\ cut' = cut \cup {s}
          /\ UNCHANGED <<vm, alive, daemon>>
       \/ /\ At(p, t, "launch")
          /\ cut' = cut \cup {s}
          /\ vm' = [vm EXCEPT ![s] = s]
          /\ alive' = alive \cup {s}
          /\ UNCHANGED daemon
    /\ Become(p, t, Free)
    /\ UNCHANGED <<up, registry, writing, store, used, stopped, missed>>
-----------------------------------------------------------------------------
(***************************************************************************)
(* The life of a process.  At a graceful exit the requests in flight are   *)
(* cancelled, then the exit hook (stop_all) stops the daemons of the       *)
(* registry; the store is left as it is.                                   *)
(***************************************************************************)
Forget(p) ==
    /\ up' = up \ {p}
    /\ sessions' = [sessions EXCEPT ![p] = <<>>]
    /\ clients' = [clients EXCEPT ![p] = {}]
    /\ reattach' = [reattach EXCEPT ![p] = {}]
    /\ recent' = [recent EXCEPT ![p] = NoSid]
    /\ writing' = [writing EXCEPT ![p] = {}]
    /\ task' = [task EXCEPT ![p] = [t \in Task |-> Free]]
    /\ UNCHANGED <<store, vm, used, stopped, missed>>

Stopping(p) == {task[p][t].sid : t \in {u \in Task : task[p][u].pc = "stop"}}
InFlight(p) == Launching(p) \cup Stopping(p)

Exit(p) ==
    /\ p \in up
    /\ writing[p] = {}
    /\ Forget(p)
    /\ daemon' = [s \in Sid |-> IF s \in clients[p] THEN NoProc ELSE daemon[s]]
    /\ alive' = alive \ clients[p]
    /\ cut' = cut \cup InFlight(p)

(* A process that is killed may leave its children running (__main__.py     *)
(* calls them orphans), or take them along.                                 *)
Crash(p) ==
    /\ p \in up
    /\ Forget(p)
    /\ \E orphans \in SUBSET {s \in Sid : daemon[s] = p} :
         /\ daemon' = [s \in Sid |-> IF daemon[s] = p /\ s \notin orphans THEN NoProc ELSE daemon[s]]
         /\ cut' = cut \cup orphans
    /\ UNCHANGED alive

Boot(p) ==
    /\ p \notin up
    /\ up' = up \cup {p}
    /\ reattach' = [reattach EXCEPT ![p] = store]
    /\ UNCHANGED <<sessions, clients, recent, writing, task, store, world, history>>

(* The world: an app ends by itself.                                        *)
AppDies(s) ==
    /\ s \in alive
    /\ alive' = alive \ {s}
    /\ UNCHANGED <<up, registry, writing, task, store, vm, daemon, history>>

Serve(p, t) ==
    \/ \E s \in Sid :
         \/ StartBegin(p, t, s)
         \/ \E a \in Sid : Attach(p, t, s, a)
         \/ StopBegin(p, t, s)
         \/ ListNext(p, t, s)
    \/ StartDone(p, t) \/ StartTimeout(p, t) \/ StopDone(p, t) \/ ListBegin(p, t)
    \/ Cancel(p, t)

Next ==
    \/ \E p \in Proc :
         \/ \E t \in Task : Serve(p, t)
         \/ Rename(p) \/ Exit(p) \/ Crash(p) \/ Boot(p)
    \/ \E s \in Sid : AppDies(s)

Safety == Init /\ [][Next]_vars

(* Every await ends, the operator starts a server that went down again, and *)
(* its agent lists the sessions again and again and lets some lists finish. *)
Fairness ==
    \A p \in Proc :
        /\ WF_vars(Boot(p)) /\ WF_vars(Rename(p))
        /\ \A t \in Task :
             /\ WF_vars(StartDone(p, t) \/ StartTimeout(p, t))
             /\ WF_vars(StopDone(p, t))
             /\ SF_vars(\E s \in Sid : ListNext(p, t, s))
             /\ SF_vars(ListBegin(p, t))

Spec == Safety /\ Fairness
-----------------------------------------------------------------------------
(* A call without a session id finds a session exactly when there is one.   *)
DefaultTarget ==
    \A p \in Proc : IF sessions[p] = <<>> THEN recent[p] = NoSid
                    ELSE recent[p] \in Registered(p)

(* A `flutter run' that a process spawned is in the hands of its registry   *)
(* or of a request, unless that request was cancelled or its server killed: *)
(* no timeout, failed stop or list of revived sessions loses one.           *)
InHand(s) == \E p \in up : s \in clients[p] \cup InFlight(p)
OrphansWereCut == \A s \in Sid : daemon[s] # NoProc => InHand(s) \/ s \in cut

(* A registered session whose app runs, and which nobody asked to stop, has *)
(* its record in the store, ready for the next start of the server, unless  *)
(* a write failed or a running app failed a probe.                          *)
SurvivesRestart ==
    \A p \in up : writing[p] = {} =>
        \A s \in Registered(p) \ (stopped \cup missed) : vm[s] \in alive => s \in store

(* Once no process ends any more, a record in the store whose app is gone,  *)
(* and which no registry holds, is pruned by the next lists, or the write   *)
(* that is to erase it fails.                                               *)
DeadRecord(s) == s \in store \ missed /\ vm[s] \notin alive
                   /\ \A p \in Proc : s \notin Registered(p)
DeadPruned == <>[](up = Proc) => \A s \in Sid : DeadRecord(s) ~> ~DeadRecord(s)
-----------------------------------------------------------------------------
(* What the agent of one server sees: a registered session is open, as soon *)
(* as the call that registers it is back from writing its record; a record  *)
(* of no registered session is asleep; any other id that is given out and   *)
(* not on its way is spent.                                                 *)
Opened == {s \in Sid : \E p \in Proc : s \in Registered(p)
                                       /\ s \in store \cup (Sid \ UNION writing[p])}
OnItsWay(s) == \E p \in Proc : s \in Launching(p) \cup UNION writing[p]
Spent == {s \in used \ (store \cup Opened) : ~OnItsWay(s)}
Reachable == {s \in Sid : vm[s] \in alive}

Agent == INSTANCE SessionService
           WITH open <- Opened, asleep <- store \ Opened, spent <- Spent,
                asked <- stopped, lapsed <- missed, reachable <- Reachable

(* The promise of SessionService, kept through launches that overlap lists  *)
(* and stops, cancelled requests, crashes between the registry and the      *)
(* file, failed writes and probes, and restarts: what the agent has open    *)
(* stays open until it asks or the server ends; no record is lost but those *)
(* of the cases named there, and none wakes that has no app.                *)
KeepsSessions == Agent!Spec
=============================================================================
