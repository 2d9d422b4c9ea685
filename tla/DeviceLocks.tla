------------------------------ MODULE DeviceLocks ------------------------------
(***************************************************************************)
(* The cross-process device lock of phone-controll: one file per device    *)
(* under ~/.mcp_phone_controll/locks, written by                           *)
(* FilesystemDeviceLockRepository and driven by the use cases of           *)
(* domain/usecases/devices.py.  Every MCP session is a process with a      *)
(* session id of its own.  Inside one process an operation runs without    *)
(* suspension, so a process has at most one operation in flight; between   *)
(* processes the operations interleave at every file-system call, which is *)
(* the grain of the actions below.                                         *)
(*                                                                         *)
(* `suspect' and `held' are history variables: what the callers were told, *)
(* and on which devices a force or a death interfered.                     *)
(***************************************************************************)
EXTENDS FiniteSets

CONSTANTS Session,    \* the MCP processes, each with its own session id and pid
          Device,     \* the device serials
          Survivor,   \* the sessions whose process never ends
          NoOne,      \* no session
          NoDevice    \* no device

ASSUME ConstantsOK ==
    /\ NoOne \notin Session
    /\ NoDevice \notin Device
    /\ Survivor \subseteq Session

VARIABLES
    file,      \* file[d]: the lock file of device d
    live,      \* the sessions whose process is running
    op,        \* op[s]: the operation session s has in flight
    selected,  \* selected[s]: the session's selected serial
    held,      \* <<s, d>>: s was told it holds d and has not been told otherwise
    suspect    \* devices touched by a force, or by a death others could see

vars == <<file, live, op, selected, held, suspect>>
-----------------------------------------------------------------------------
(* A lock file: who wrote it, and whether its content has been written yet. *)
NoFile   == [owner |-> NoOne, written |-> FALSE]
LockFile == [owner : Session, written : BOOLEAN]

Idle == [pc |-> "idle", dev |-> NoDevice, force |-> FALSE, seen |-> NoOne, todo |-> {}]

(* Operations that have read the file of their device and may yet remove it *)
(* or fill it in.                                                           *)
Pending == {"judge", "unlink", "write", "relUnlink", "scanJudge", "scanUnlink", "exitUnlink"}
PCs     == Pending \cup {"idle", "create", "scan", "exit"}

Operation == [pc : PCs, dev : Device \cup {NoDevice}, force : BOOLEAN,
              seen : Session \cup {NoOne}, todo : SUBSET Device]

(* _read: a missing file and one without its content both read as no lock.  *)
Read(d) == IF file[d].written THEN file[d].owner ELSE NoOne

Holders(d) == {s \in Session : <<s, d>> \in held}

(* The devices on which others can observe the end of session s: a file of  *)
(* s is left behind, or an operation in flight has read s as the holder.    *)
Observed(s) == {d \in Device : \/ file[d].owner = s
                               \/ \E t \in Session : op[t].dev = d /\ op[t].seen = s}

Ready(s) == s \in live /\ op[s] = Idle

(* Session s becomes engaged in operation o: goes on at pc (what it read has *)
(* been judged by then), looks at the file of d, or is done.                *)
Become(s, o) == op' = [op EXCEPT ![s] = o]
Goto(s, pc)  == Become(s, [op[s] EXCEPT !.pc = pc, !.seen = NoOne])
Look(s, d, pc, seen) ==
    Become(s, [op[s] EXCEPT !.pc = pc, !.dev = d, !.seen = seen, !.todo = @ \ {d}])
Done(s)      == Become(s, Idle)

Unlink(d) == file' = [file EXCEPT ![d] = NoFile]

(* SelectDevice after a successful acquire: the selected serial follows.    *)
Grant(s, d) ==
    /\ held' = held \cup {<<s, d>>}
    /\ selected' = [selected EXCEPT ![s] = d]

(* Mutant: the selection survives the release. *)
Withdraw_keepSelection(s, d) ==
    /\ held' = held \ {<<s, d>>}
    /\ UNCHANGED selected

(* ReleaseDevice after a successful release clears whatever was selected.   *)
Withdraw(s, d) ==
    /\ held' = held \ {<<s, d>>}
    /\ selected' = [selected EXCEPT ![s] = NoDevice]
-----------------------------------------------------------------------------
Init ==
    /\ file = [d \in Device |-> NoFile]
    /\ live = Session
    /\ op = [s \in Session |-> Idle]
    /\ selected = [s \in Session |-> NoDevice]
    /\ held = {}
    /\ suspect = {}

(***************************************************************************)
(* acquire: read, look at the holder's pid, unlink, create with O_EXCL,    *)
(* write.                                                                  *)
(***************************************************************************)
AcquireRead(s, d, force) ==
    /\ Ready(s)
    /\ \/ /\ Read(d) = s                       \* already ours: ok(existing)
          /\ Grant(s, d)
          /\ UNCHANGED op
       \/ /\ Read(d) # s
          /\ Become(s, [pc |-> IF Read(d) = NoOne THEN "create" ELSE "judge",
                        dev |-> d, force |-> force, seen |-> Read(d), todo |-> {}])
          /\ UNCHANGED <<held, selected>>
    /\ UNCHANGED <<file, live, suspect>>

(* Mutant: a holder whose pid is gone counts as busy. *)
AcquireJudge_deadIsBusy(s) ==
    /\ op[s].pc = "judge"
    /\ IF op[s].force THEN Goto(s, "unlink") ELSE Done(s)
    /\ suspect' = IF op[s].force THEN suspect \cup {op[s].dev} ELSE suspect
    /\ UNCHANGED <<file, live, selected, held>>

AcquireJudge(s) ==
    /\ op[s].pc = "judge"
    /\ \/ /\ op[s].seen \notin live            \* stale: reclaim
          /\ Goto(s, "unlink")
          /\ UNCHANGED suspect
       \/ /\ op[s].seen \in live
          /\ op[s].force                       \* taken over on request
          /\ Goto(s, "unlink")
          /\ suspect' = suspect \cup {op[s].dev}
       \/ /\ op[s].seen \in live
          /\ ~op[s].force                      \* DeviceBusyFailure
          /\ Done(s)
          /\ UNCHANGED suspect
    /\ UNCHANGED <<file, live, selected, held>>

AcquireUnlink(s) ==
    /\ op[s].pc = "unlink"
    /\ Unlink(op[s].dev)
    /\ Goto(s, "create")
    /\ UNCHANGED <<live, selected, held, suspect>>

(* Mutant: open without O_EXCL. *)
AcquireCreate_noExcl(s) ==
    /\ op[s].pc = "create"
    /\ file' = [file EXCEPT ![op[s].dev] = [owner |-> s, written |-> FALSE]]
    /\ Goto(s, "write")
    /\ UNCHANGED <<live, selected, held, suspect>>

AcquireCreate(s) ==
    /\ op[s].pc = "create"
    /\ LET d == op[s].dev IN
       \/ /\ file[d] = NoFile
          /\ file' = [file EXCEPT ![d] = [owner |-> s, written |-> FALSE]]
          /\ Goto(s, "write")
          /\ UNCHANGED <<selected, held>>
       \/ /\ file[d] # NoFile                  \* FileExistsError: reread
          /\ Done(s)
          /\ IF Read(d) = s THEN Grant(s, d)   \* else FilesystemFailure
                            ELSE UNCHANGED <<selected, held>>
          /\ UNCHANGED file
    /\ UNCHANGED <<live, suspect>>

(* The content goes to the file descriptor of the create: when the file was *)
(* unlinked meanwhile, it goes nowhere and the caller is still told ok.     *)
AcquireWrite(s) ==
    /\ op[s].pc = "write"
    /\ LET d == op[s].dev IN
       /\ file' = IF file[d] = [owner |-> s, written |-> FALSE]
                  THEN [file EXCEPT ![d] = [owner |-> s, written |-> TRUE]] ELSE file
       /\ Grant(s, d)
    /\ Done(s)
    /\ UNCHANGED <<live, suspect>>

(***************************************************************************)
(* release, for the serial given or the selected one.                      *)
(***************************************************************************)
(* Mutant: the holder's session id is not compared. *)
ReleaseRead_anyHolder(s, d) ==
    /\ Ready(s)
    /\ Read(d) # NoOne
    /\ Become(s, [Idle EXCEPT !.pc = "relUnlink", !.dev = d])
    /\ UNCHANGED <<file, live, selected, held, suspect>>

ReleaseRead(s, d) ==
    /\ Ready(s)
    /\ \/ /\ Read(d) = NoOne                   \* nothing to release: ok
          /\ Withdraw(s, d)
          /\ UNCHANGED op
       \/ /\ Read(d) = s
          /\ Become(s, [Idle EXCEPT !.pc = "relUnlink", !.dev = d])
          /\ UNCHANGED <<held, selected>>
       \* otherwise LockNotHeldFailure: nothing changes
    /\ UNCHANGED <<file, live, suspect>>

ReleaseUnlink(s) ==
    /\ op[s].pc = "relUnlink"
    /\ Unlink(op[s].dev)
    /\ Withdraw(s, op[s].dev)
    /\ Done(s)
    /\ UNCHANGED <<live, suspect>>

(* force_release_lock: one unlink, whoever the holder is.                   *)
ForceRelease(s, d) ==
    /\ Ready(s)
    /\ Unlink(d)
    /\ suspect' = suspect \cup {d}
    /\ UNCHANGED <<live, op, selected, held>>

(***************************************************************************)
(* list_locks walks the files of the directory, lock_for looks at one;     *)
(* both remove a lock whose process is gone.                               *)
(***************************************************************************)
ScanBegin(s, devs) ==
    /\ Ready(s)
    /\ devs # {}
    /\ Become(s, [Idle EXCEPT !.pc = "scan", !.todo = devs])
    /\ UNCHANGED <<file, live, selected, held, suspect>>

ListLocks(s)  == ScanBegin(s, {d \in Device : file[d] # NoFile})
LockFor(s, d) == ScanBegin(s, {d})

ScanRead(s) ==
    /\ op[s].pc = "scan"
    /\ \/ /\ op[s].todo = {}
          /\ Done(s)
       \/ \E d \in op[s].todo :
            Look(s, d, IF Read(d) = NoOne THEN "scan" ELSE "scanJudge", Read(d))
    /\ UNCHANGED <<file, live, selected, held, suspect>>

ScanJudge(s) ==
    /\ op[s].pc = "scanJudge"
    /\ IF op[s].seen \in live
       THEN Goto(s, "scan")
       ELSE Goto(s, "scanUnlink")
    /\ UNCHANGED <<file, live, selected, held, suspect>>

ScanUnlink(s) ==
    /\ op[s].pc = "scanUnlink"
    /\ Unlink(op[s].dev)
    /\ Goto(s, "scan")
    /\ UNCHANGED <<live, selected, held, suspect>>

(***************************************************************************)
(* The end of a process: once the server has stopped serving calls, the    *)
(* atexit hook removes the files that carry the session's id; a killed     *)
(* process removes nothing.                                                *)
(***************************************************************************)
StopServing(s) ==
    /\ s \notin Survivor
    /\ selected' = [selected EXCEPT ![s] = NoDevice]
    /\ held' = {h \in held : h[1] # s}

End(s) ==
    /\ live' = live \ {s}
    /\ Done(s)
    /\ suspect' = suspect \cup Observed(s)
    /\ UNCHANGED file

Crash(s) ==
    /\ s \in live
    /\ StopServing(s)
    /\ End(s)

ExitBegin(s) ==
    /\ Ready(s)
    /\ StopServing(s)
    /\ Become(s, [Idle EXCEPT !.pc = "exit", !.todo = {d \in Device : file[d] # NoFile}])
    /\ UNCHANGED <<file, live, suspect>>

(* Mutant: the exit hook removes every lock file. *)
ExitRead_allFiles(s) ==
    /\ op[s].pc = "exit"
    /\ \E d \in op[s].todo : Look(s, d, "exitUnlink", NoOne)
    /\ UNCHANGED <<file, live, selected, held, suspect>>

ExitRead(s) ==
    /\ op[s].pc = "exit"
    /\ \E d \in op[s].todo : Look(s, d, IF Read(d) = s THEN "exitUnlink" ELSE "exit", NoOne)
    /\ UNCHANGED <<file, live, selected, held, suspect>>

ExitUnlink(s) ==
    /\ op[s].pc = "exitUnlink"
    /\ Unlink(op[s].dev)
    /\ Goto(s, "exit")
    /\ UNCHANGED <<live, selected, held, suspect>>

ExitEnd(s) ==
    /\ op[s].pc = "exit"
    /\ op[s].todo = {}
    /\ End(s)
    /\ UNCHANGED <<selected, held>>
-----------------------------------------------------------------------------
(* No operation in flight can still act on an old reading of d's file, the  *)
(* file is not a dead process's, and whoever was told it holds d is the one *)
(* the file names.                                                          *)
Settled(d) ==
    /\ \A s \in live : op[s].dev = d => op[s].pc \notin Pending
    /\ file[d] # NoFile => file[d].owner \in live
    /\ \A s \in Holders(d) : file[d] = [owner |-> s, written |-> TRUE]

(* Bookkeeping of the history variable, no code runs: once d is settled it  *)
(* is no longer suspect.                                                    *)
Settle(d) ==
    /\ d \in suspect
    /\ Settled(d)
    /\ suspect' = suspect \ {d}
    /\ UNCHANGED <<file, live, op, selected, held>>

Continue(s) ==
    \/ AcquireJudge(s) \/ AcquireUnlink(s) \/ AcquireCreate(s) \/ AcquireWrite(s)
    \/ ReleaseUnlink(s)
    \/ ScanRead(s) \/ ScanJudge(s) \/ ScanUnlink(s)
    \/ ExitRead(s) \/ ExitUnlink(s) \/ ExitEnd(s)

Call(s) ==
    \/ \E d \in Device :
         \/ \E force \in BOOLEAN : AcquireRead(s, d, force)
         \/ ReleaseRead(s, d)
         \/ ForceRelease(s, d)
         \/ LockFor(s, d)
    \/ ListLocks(s)
    \/ ExitBegin(s)

Next ==
    \/ \E s \in Session : Call(s) \/ Continue(s) \/ Crash(s)
    \/ \E d \in Device : Settle(d)

Safety == Init /\ [][Next]_vars

(* A running process finishes the operation it is in (the handler has no    *)
(* suspension point), and a surviving agent goes on asking for the device,  *)
(* without force, as the DeviceBusy envelope's "wait_or_force" tells it to. *)
Fairness ==
    \A s \in Survivor :
        /\ WF_vars(Continue(s))
        /\ \A d \in Device : SF_vars(AcquireRead(s, d, FALSE))

Spec == Safety /\ Fairness
-----------------------------------------------------------------------------
TypeOK ==
    /\ file \in [Device -> LockFile \cup {NoFile}]
    /\ live \in SUBSET Session
    /\ op \in [Session -> Operation]
    /\ selected \in [Session -> Device \cup {NoDevice}]
    /\ held \in SUBSET (Session \X Device)
    /\ suspect \in SUBSET Device

(* The purpose of the lock: unless a force or a death interfered, no two    *)
(* sessions were both told that they hold a device.                         *)
Exclusive ==
    \A d \in Device \ suspect : \A s, t \in Holders(d) : s = t

(* Unless a force or a death interfered, the session that believes it holds *)
(* a device is the one the file on disk names, so others are turned away.   *)
HolderOnDisk ==
    \A d \in Device \ suspect : \A s \in Holders(d) : Read(d) = s

(* A session never works on a selected serial whose lock it gave back:      *)
(* select and release keep the selection inside what the session holds.     *)
SelectedHeld ==
    \A s \in Session : selected[s] # NoDevice => <<s, selected[s]>> \in held

(* A lock a dead process left behind is reclaimed by the agents that keep   *)
(* asking for the device.                                                   *)
Stale(d) == file[d].written /\ file[d].owner \notin live
StaleReclaimed == \A d \in Device : Stale(d) ~> ~Stale(d)

(* What the docstring says of exclusion, with stale reclaim but no force:   *)
(* a step that tells s it holds d finds no other session still told so.     *)
ReclaimExclusive ==
    [][\A d \in Device : \A s \in Session :
         /\ <<s, d>> \notin held
         /\ <<s, d>> \in held'
         => \A t \in Holders(d) : t = s]_vars

(* The lock as its callers see it.                                          *)
Service == INSTANCE LockService
ImplementsService == Service!Spec
=============================================================================
