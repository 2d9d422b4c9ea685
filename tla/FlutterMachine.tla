---------------------------- MODULE FlutterMachine ----------------------------
(***************************************************************************)
(* One `flutter run --machine' daemon, the client that owns it             *)
(* (infrastructure/flutter_machine_client.py) and the calls of one debug   *)
(* session that go through it (start, stop, restart, call_service_         *)
(* extension and tail_log of                                               *)
(* data/repositories/flutter_debug_session_repository.py).                 *)
(*                                                                         *)
(* Calls are asyncio tasks; the reader is a task of its own, which turns   *)
(* the daemon's lines into replies and events.  The daemon may answer in   *)
(* any order or never, hang and ignore SIGTERM, or die.  A request is      *)
(* small enough for the pipe, so drain() does not wait.  `by', `owed',     *)
(* `cancelled', `dropped' and `missed' are history.                        *)
(***************************************************************************)
EXTENDS Naturals, Sequences, FiniteSets

CONSTANTS Task,         \* the calls in flight
          NoTask,
          Capacity,     \* BUFFER_CAPACITY
          MaxRequests,  \* bound: the requests written to the daemon
          MaxDropped,   \* bound: the entries the ring drops before the log falls silent
          MaxOut,       \* bound: the lines in the daemon's pipe
          MaxCancelled  \* bound: the operations that a cancelled call was in

ASSUME ConfigOK ==
    /\ NoTask \notin Task
    /\ Capacity \in Nat \ {0} /\ MaxOut \in Nat \ {0}
    /\ MaxRequests \in Nat /\ MaxCancelled \in Nat /\ MaxDropped \in Nat

VARIABLES
    proc,        \* the subprocess: "none", "runs", "hung" or "gone"
    inbox,       \* the requests the daemon has not answered
    out,         \* the lines the daemon has written and nobody has read
    reader,      \* _read_loop runs
    started,     \* _started_event
    appId,       \* _app_id is known
    nextId,      \* _next_id
    pending,     \* pending[i]: the call whose future waits for reply i
    log,         \* _log_buffer; TRUE is an entry that a tail looks for
    registered,  \* the session is in the registry
    state,       \* its DebugSessionState
    call,        \* call[t]: where call t is suspended
    cancelled,   \* the operations a cancelled call was in
    dropped,     \* the entries the ring has dropped
    missed       \* a tail polled and did not find an entry that came while it ran

daemon  == <<proc, inbox, out>>
client  == <<reader, started, appId, nextId, pending, log>>
session == <<registered, state>>
history == <<cancelled, dropped, missed>>
vars    == <<daemon, client, session, call, history>>
-----------------------------------------------------------------------------
Id == 1..MaxRequests
Request == [id : Id, by : Task]
NoReply == [id |-> 0, by |-> NoTask, ok |-> FALSE]
Reply == [id : Id, by : Task, ok : BOOLEAN]

Line(event) == [event |-> event, reply |-> NoReply]
Answer(r, ok) == [event |-> "reply", reply |-> [id |-> r.id, by |-> r.by, ok |-> ok]]

Free == [pc |-> "free", op |-> "none", id |-> 0, got |-> NoReply, seen |-> 0, owed |-> FALSE]
Become(t, c) == call' = [call EXCEPT ![t] = c]
In(t, pc) == call[t].pc = pc

Init ==
    /\ proc = "none" /\ inbox = {} /\ out = <<>>
    /\ reader = FALSE /\ started = FALSE /\ appId = FALSE
    /\ nextId = 1
    /\ pending = [i \in Id |-> NoTask]
    /\ log = <<>>
    /\ registered = FALSE /\ state = "running"
    /\ call = [t \in Task |-> Free]
    /\ cancelled = {} /\ dropped = 0 /\ missed = FALSE
-----------------------------------------------------------------------------
(***************************************************************************)
(* send and what its callers do when it ends.                              *)
(***************************************************************************)
(* The subprocess is gone, or it is sent SIGTERM.                           *)
Leave(t) == reader' = FALSE /\ Become(t, Free)
Terminate(t) ==
    IF proc = "gone" THEN Leave(t)
    ELSE Become(t, [Free EXCEPT !.pc = "term", !.op = "stop"]) /\ UNCHANGED reader

(* Mutant: a failed restart leaves the state as it is. *)
Finish_keepsState(t, op, ok) ==
    \/ op = "reload" /\ state' = (IF ok THEN "running" ELSE state)
         /\ Become(t, Free) /\ UNCHANGED reader
    \/ op = "extension" /\ Become(t, Free) /\ UNCHANGED <<state, reader>>
    \/ op = "stop" /\ Terminate(t) /\ UNCHANGED state

(* The request of t has ended: with a result, with an error or an exception *)
Finish(t, op, ok) ==
    \/ op = "reload" /\ state' = (IF ok THEN "running" ELSE "errored")
         /\ Become(t, Free) /\ UNCHANGED reader
    \/ op = "extension" /\ Become(t, Free) /\ UNCHANGED <<state, reader>>
    \/ op = "stop" /\ Terminate(t) /\ UNCHANGED state

(* A write to a dead daemon is lost, or drain() raises and the future stays. *)
Write(t, op) ==
    \/ /\ Become(t, [Free EXCEPT !.pc = "wait", !.op = op, !.id = nextId])
       /\ inbox' = IF proc = "gone" THEN inbox ELSE inbox \cup {[id |-> nextId, by |-> t]}
       /\ state' = IF op = "reload" THEN "reloading" ELSE state
       /\ UNCHANGED reader
    \/ proc = "gone" /\ Finish(t, op, FALSE) /\ UNCHANGED inbox

(* Mutant: the id is taken but not counted up. *)
Send_sameId(t, op) ==
    /\ nextId \in Id
    /\ pending' = [pending EXCEPT ![nextId] = t]
    /\ UNCHANGED nextId
    /\ Write(t, op)

Send(t, op) ==
    /\ nextId \in Id
    /\ pending' = [pending EXCEPT ![nextId] = t]
    /\ nextId' = nextId + 1
    /\ Write(t, op)

(* Client.stop: app.stop when there is an app, then the signals.            *)
StopClient(t) ==
    \/ appId /\ Send(t, "stop")
    \/ ~appId /\ Terminate(t) /\ UNCHANGED <<inbox, nextId, pending, state>>
-----------------------------------------------------------------------------
(***************************************************************************)
(* start: spawn the daemon, wait for app.started and, on the web, a while  *)
(* for its VM service; a timeout of the first wait stops the client.       *)
(***************************************************************************)
Start(t) ==
    /\ In(t, "free") /\ proc = "none"
    /\ proc' = "runs" /\ reader' = TRUE
    /\ Become(t, [Free EXCEPT !.pc = "starting", !.op = "start"])
    /\ UNCHANGED <<inbox, out, started, appId, nextId, pending, log, session, history>>

Register(t) == registered' = TRUE /\ state' = "running" /\ Become(t, Free)

Started(t) ==
    /\ In(t, "starting") /\ started
    /\ \/ Register(t)
       \/ Become(t, [call[t] EXCEPT !.pc = "uri"]) /\ UNCHANGED session
    /\ UNCHANGED <<daemon, client, history>>

UriWaited(t) ==
    /\ In(t, "uri")
    /\ Register(t)
    /\ UNCHANGED <<daemon, client, history>>

StartTimeout(t) ==
    /\ In(t, "starting")
    /\ StopClient(t)
    /\ UNCHANGED <<proc, out, started, appId, log, registered, history>>

(***************************************************************************)
(* restart and call_service_extension, and the end of their request.       *)
(***************************************************************************)
Reload(t) ==
    /\ In(t, "free") /\ registered
    /\ \/ appId /\ Send(t, "reload")
       \/ ~appId /\ Finish(t, "reload", FALSE) /\ UNCHANGED <<inbox, nextId, pending>>
    /\ UNCHANGED <<proc, out, started, appId, log, registered, history>>

CallExtension(t) ==
    /\ In(t, "free") /\ registered /\ appId
    /\ Send(t, "extension")
    /\ UNCHANGED <<proc, out, started, appId, log, registered, history>>

EndRequest(t, ok) ==
    /\ pending' = [pending EXCEPT ![call[t].id] = NoTask]
    /\ Finish(t, call[t].op, ok)
    /\ UNCHANGED <<daemon, started, appId, nextId, log, registered, history>>

Replied(t) == In(t, "wait") /\ call[t].got # NoReply /\ EndRequest(t, call[t].got.ok)

(* Mutant: the reply is awaited without a timeout. *)
Timeout_none(t) == FALSE /\ UNCHANGED vars

Timeout(t) == In(t, "wait") /\ call[t].got = NoReply /\ EndRequest(t, FALSE)

(* stop: out of the registry, then the client is stopped.                   *)
Stop(t) ==
    /\ In(t, "free") /\ registered
    /\ registered' = FALSE
    /\ StopClient(t)
    /\ UNCHANGED <<proc, out, started, appId, log, history>>

Terminated(t) ==
    /\ In(t, "term") /\ proc = "gone"
    /\ Leave(t)
    /\ UNCHANGED <<daemon, started, appId, nextId, pending, log, session, history>>

(* Mutant: a daemon that ignores SIGTERM is given up. *)
Kill_givesUp(t) ==
    /\ In(t, "term") /\ proc # "gone"
    /\ Leave(t)
    /\ UNCHANGED <<daemon, started, appId, nextId, pending, log, session, history>>

Kill(t) ==
    /\ In(t, "term") /\ proc # "gone"
    /\ proc' = "gone" /\ inbox' = {}
    /\ Leave(t)
    /\ UNCHANGED <<out, started, appId, nextId, pending, log, session, history>>

(***************************************************************************)
(* tail_log: poll the ring for an entry past the length it last saw.       *)
(***************************************************************************)
(* Mutant: the next entry counts as seen. *)
TailBegin_skips(t) ==
    /\ In(t, "free") /\ registered
    /\ Become(t, [Free EXCEPT !.pc = "tail", !.op = "tail", !.seen = Len(log) + 1])
    /\ UNCHANGED <<daemon, client, session, history>>

TailBegin(t) ==
    /\ In(t, "free") /\ registered
    /\ Become(t, [Free EXCEPT !.pc = "tail", !.op = "tail", !.seen = Len(log)])
    /\ UNCHANGED <<daemon, client, session, history>>

Found(t) == \E k \in DOMAIN log : k > call[t].seen /\ log[k]

TailPoll(t) ==
    /\ In(t, "tail")
    /\ IF Found(t) THEN Become(t, Free) ELSE Become(t, [call[t] EXCEPT !.seen = Len(log)])
    /\ missed' = (missed \/ (call[t].owed /\ ~Found(t)))
    /\ UNCHANGED <<daemon, client, session, cancelled, dropped>>

TailDeadline(t) ==
    /\ In(t, "tail")
    /\ Become(t, Free)
    /\ UNCHANGED <<daemon, client, session, history>>

(* The operations that leave something behind when they are cut short.      *)
Lasting == {"start", "stop", "reload"}

(* The caller is cancelled: only the `finally' of send runs.                *)
Cancel(t) ==
    /\ ~In(t, "free")
    /\ pending' = [i \in Id |-> IF In(t, "wait") /\ i = call[t].id THEN NoTask ELSE pending[i]]
    /\ Become(t, Free)
    /\ cancelled' = cancelled \cup ({call[t].op} \cap Lasting)
    /\ Cardinality(cancelled') <= MaxCancelled
    /\ UNCHANGED <<daemon, reader, started, appId, nextId, log, session, dropped, missed>>
-----------------------------------------------------------------------------
(***************************************************************************)
(* _read_loop and _dispatch.                                               *)
(***************************************************************************)
Push(seq, e) == IF Len(seq) < Capacity THEN Append(seq, e) ELSE Append(Tail(seq), e)

Deliver(r) ==
    /\ call' = [t \in Task |-> IF pending[r.id] = t /\ In(t, "wait") /\ call[t].got = NoReply
                               THEN [call[t] EXCEPT !.got = r] ELSE call[t]]
    /\ UNCHANGED <<reader, started, appId, log, dropped>>

AppStarted(named) ==
    /\ started' = TRUE
    /\ appId' = (appId \/ named)
    /\ UNCHANGED <<reader, log, call, dropped>>

Logged(hit) ==
    /\ log' = Push(log, hit)
    /\ dropped' = dropped + (IF Len(log) = Capacity THEN 1 ELSE 0)
    /\ call' = [t \in Task |-> IF hit /\ In(t, "tail") THEN [call[t] EXCEPT !.owed = TRUE]
                               ELSE call[t]]
    /\ UNCHANGED <<reader, started, appId>>

(* A line beyond the stream's limit raises, and the loop ends for good.     *)
Overrun == reader' = FALSE /\ UNCHANGED <<started, appId, log, call, dropped>>

Read ==
    /\ reader /\ out # <<>>
    /\ out' = Tail(out)
    /\ LET line == Head(out) IN
         \/ line.event = "reply" /\ Deliver(line.reply)
         \/ line.event = "started" /\ AppStarted(TRUE)
         \/ line.event = "nameless" /\ AppStarted(FALSE)
         \/ line.event = "hit" /\ Logged(TRUE)
         \/ line.event = "other" /\ Logged(FALSE)
         \/ line.event = "long" /\ Overrun
    /\ UNCHANGED <<proc, inbox, nextId, pending, session, cancelled, missed>>

ReadEof ==
    /\ reader /\ out = <<>> /\ proc = "gone"
    /\ reader' = FALSE
    /\ UNCHANGED <<daemon, started, appId, nextId, pending, log, session, call, history>>

(***************************************************************************)
(* The daemon, as far as the client can tell.                              *)
(***************************************************************************)
Says(line) ==
    /\ proc = "runs" /\ Len(out) < MaxOut
    /\ out' = Append(out, line)
    /\ UNCHANGED <<proc, client, session, call, history>>

Answers(r, ok) == r \in inbox /\ inbox' = inbox \ {r} /\ Says(Answer(r, ok))
Reports(event) ==
    /\ event \in {"started", "nameless"} => ~started
    /\ event \in {"hit", "other"} => dropped < MaxDropped
    /\ Says(Line(event))
    /\ UNCHANGED inbox

Dies ==
    /\ proc = "runs"
    /\ proc' = "gone" /\ inbox' = {}
    /\ UNCHANGED <<out, client, session, call, history>>

Hangs ==
    /\ proc = "runs"
    /\ proc' = "hung"
    /\ UNCHANGED <<inbox, out, client, session, call, history>>
-----------------------------------------------------------------------------
Event == {"started", "nameless", "hit", "other", "long"}

Calls(t) ==
    \/ Start(t) \/ Started(t) \/ UriWaited(t) \/ StartTimeout(t)
    \/ Reload(t) \/ CallExtension(t) \/ Replied(t) \/ Timeout(t)
    \/ Stop(t) \/ Terminated(t) \/ Kill(t)
    \/ TailBegin(t) \/ TailPoll(t) \/ TailDeadline(t) \/ Cancel(t)

Daemon ==
    \/ \E r \in inbox, ok \in BOOLEAN : Answers(r, ok)
    \/ \E event \in Event : Reports(event)
    \/ Dies \/ Hangs

Next == (\E t \in Task : Calls(t)) \/ Read \/ ReadEof \/ Daemon

(* Every wait of a call has a timeout, and the event loop runs what is due. *)
Due(t) ==
    \/ Started(t) \/ UriWaited(t) \/ StartTimeout(t) \/ Replied(t) \/ Timeout(t)
    \/ Terminated(t) \/ Kill(t) \/ TailDeadline(t)

Fairness == \A t \in Task : WF_vars(Due(t))

Safety == Init /\ [][Next]_vars
Spec == Safety /\ Fairness
-----------------------------------------------------------------------------
(* A call receives the reply to its own request and no other, however late  *)
(* and in whatever order the daemon answers.                                *)
OwnAnswer ==
    \A t \in Task : call[t].got # NoReply => call[t].got.by = t /\ call[t].got.id = call[t].id

(* A session shows RELOADING only while a reload is under way, whatever the *)
(* daemon does and however reloads overlap; a cancelled reload may leave it. *)
NotStuck ==
    state = "reloading" =>
        "reload" \in cancelled \/ \E t \in Task : In(t, "wait") /\ call[t].op = "reload"

(* The daemon is in the hands of the registry or of a call that starts or   *)
(* stops it; a stop that has ended leaves no process, even one that ignores *)
(* SIGTERM, unless it was cancelled.                                        *)
NoStray ==
    proc \in {"runs", "hung"} =>
        \/ registered
        \/ \E t \in Task : call[t].op \in {"start", "stop"}
        \/ cancelled \cap {"start", "stop"} # {}

(* As long as the ring has dropped nothing, a poll of tail_log finds a      *)
(* matching entry that came after the tail began.                           *)
TailFinds == missed => dropped > 0

(* Every call ends, also when the daemon dies, hangs or loses its reader.   *)
CallsEnd == \A t \in Task : ~In(t, "free") ~> In(t, "free")
=============================================================================
