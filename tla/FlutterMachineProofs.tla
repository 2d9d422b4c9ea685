------------------------ MODULE FlutterMachineProofs ------------------------
(***************************************************************************)
(* What FlutterMachine promises its callers, proved for any number of      *)
(* calls and any length of the ring.  A step of a call changes the record  *)
(* of that call and no other: Effect says what it may do besides, once for *)
(* all fifteen of them, and each property follows from it.                 *)
(***************************************************************************)
EXTENDS FlutterMachine, SequenceTheorems, TLAPS

Requests == {"reload", "extension", "stop"}

\* The operation a call is in, where it is suspended.
Role(pc, op) ==
    \/ pc = "free" /\ op = "none"
    \/ pc \in {"starting", "uri"} /\ op = "start"
    \/ pc = "wait" /\ op \in Requests
    \/ pc = "term" /\ op = "stop"
    \/ pc = "tail" /\ op = "tail"

CallType == [pc : {"free", "starting", "uri", "wait", "term", "tail"},
             op : {"none", "start", "reload", "extension", "stop", "tail"},
             id : Id \cup {0}, got : Reply \cup {NoReply}, seen : Nat, owed : BOOLEAN]

Suited(c) == c \in CallType /\ Role(c.pc, c.op) /\ (c.pc = "wait" => c.id \in Id)

Typed ==
    /\ call \in [Task -> CallType] /\ \A t \in Task : Suited(call[t])
    /\ pending \in [Id -> Task \cup {NoTask}]
    /\ nextId \in Nat \ {0}
    /\ log \in Seq(BOOLEAN)
    /\ out \in Seq([event : {"reply"} \cup Event, reply : Reply \cup {NoReply}])
    /\ inbox \subseteq Request

\* A request that was sent: the call whose future it is still waits for it.
Known(r) ==
    /\ r.id < nextId
    /\ pending[r.id] # NoTask =>
         pending[r.id] = r.by /\ In(r.by, "wait") /\ call[r.by].id = r.id

Traced ==
    /\ \A r \in inbox : Known(r)
    /\ \A k \in DOMAIN out, r \in Reply \cup {NoReply} :
         out[k].event = "reply" /\ out[k].reply = r => r \in Reply /\ Known(r)

IInv == Typed /\ Traced /\ OwnAnswer /\ NotStuck /\ NoStray

-----------------------------------------------------------------------------
\* What a step of call t may do when it makes c of its record.
Forgets(t) ==
    /\ ~In(t, "wait") /\ pending' = pending /\ nextId' = nextId
    /\ inbox' \in {inbox, {}}
Asks(t, c) ==
    /\ ~In(t, "wait") /\ nextId \in Id
    /\ pending' = [pending EXCEPT ![nextId] = t] /\ nextId' = nextId + 1
    /\ \/ inbox' = inbox
       \/ /\ inbox' = inbox \cup {[id |-> nextId, by |-> t]}
          /\ c.pc = "wait" /\ c.id = nextId
Ends(t) ==
    /\ In(t, "wait") /\ nextId' = nextId /\ inbox' = inbox
    /\ pending' = [pending EXCEPT ![call[t].id] = NoTask]

Reloads(t, c) ==
    state' = "reloading" =>
      \/ c.pc = "wait" /\ c.op = "reload"
      \/ state = "reloading" /\ ~(In(t, "wait") /\ call[t].op = "reload")
      \/ "reload" \in cancelled'

InHand(c) == registered' \/ c.op \in {"start", "stop"} \/ cancelled' \cap {"start", "stop"} # {}
Hands(t, c) ==
    proc' \in {"runs", "hung"} =>
      InHand(c) \/ (proc' = proc /\ registered' = registered /\ call[t].op \notin {"start", "stop"})

Effect(t, c) ==
    /\ Become(t, c) /\ Suited(c)
    /\ c.got = NoReply \/ (c.got = call[t].got /\ c.id = call[t].id)
    /\ Forgets(t) \/ Asks(t, c) \/ Ends(t)
    /\ Reloads(t, c) /\ Hands(t, c)
    /\ out' = out /\ log' = log /\ cancelled \subseteq cancelled'

-----------------------------------------------------------------------------
LEMMA FreeSuited ==
    /\ Suited(Free) /\ Free.got = NoReply /\ Free.op = "none" /\ Free.pc = "free"
    /\ Suited([Free EXCEPT !.pc = "term", !.op = "stop"])
    /\ Suited([Free EXCEPT !.pc = "starting", !.op = "start"])
    /\ \A op \in Requests, i \in Id : Suited([Free EXCEPT !.pc = "wait", !.op = op, !.id = i])
    /\ \A n \in Nat : Suited([Free EXCEPT !.pc = "tail", !.op = "tail", !.seen = n])
  BY DEF Free, Suited, CallType, Role, Requests, NoReply

\* The end of a request: free again, or on to SIGTERM.
FinishEffect(t, op, c) ==
    /\ Become(t, c) /\ Suited(c) /\ c.got = NoReply
    /\ c.pc \in {"free", "term"}
    /\ (op = "stop" /\ proc # "gone") => c.op = "stop"
    /\ state' = "reloading" => state = "reloading" /\ op # "reload"

LEMMA TerminateMoves ==
    ASSUME NEW t \in Task, Terminate(t), UNCHANGED state
    PROVE  \E c : FinishEffect(t, "stop", c)
  <1>1. CASE proc = "gone"
    <2>1. FinishEffect(t, "stop", Free)
      BY <1>1, FreeSuited DEF Terminate, Leave, FinishEffect
    <2> QED BY <2>1
  <1>2. CASE proc # "gone"
    <2> DEFINE c == [Free EXCEPT !.pc = "term", !.op = "stop"]
    <2>1. c.got = NoReply /\ c.pc = "term" /\ c.op = "stop"
      BY DEF Free
    <2>2. FinishEffect(t, "stop", c)
      BY <1>2, <2>1, FreeSuited DEF Terminate, FinishEffect
    <2> QED BY <2>2
  <1> QED BY <1>1, <1>2

LEMMA FinishMoves ==
    ASSUME NEW t \in Task, NEW op \in Requests, NEW ok \in BOOLEAN, Finish(t, op, ok)
    PROVE  \E c : FinishEffect(t, op, c)
  <1>1. CASE op = "stop"
    BY <1>1, TerminateMoves DEF Finish
  <1>2. CASE op # "stop"
    <2>1. FinishEffect(t, op, Free)
      BY <1>2, FreeSuited DEF Finish, FinishEffect
    <2> QED BY <2>1
  <1> QED BY <1>1, <1>2

\* A request that is sent: it waits for its answer, or the daemon is gone.
SendEffect(t, op, c) ==
    /\ Become(t, c) /\ Suited(c) /\ c.got = NoReply
    /\ (c.pc = "wait" /\ c.op = op) \/ proc = "gone"
    /\ ~In(t, "wait") => Asks(t, c)
    /\ state' = "reloading" => (c.pc = "wait" /\ c.op = "reload") \/ (state = "reloading" /\ op # "reload")

LEMMA SendMoves ==
    ASSUME Typed, NEW t \in Task, NEW op \in Requests, Send(t, op)
    PROVE  \E c : SendEffect(t, op, c)
  <1>1. CASE proc = "gone" /\ Finish(t, op, FALSE) /\ UNCHANGED inbox
    <2>1. PICK c : FinishEffect(t, op, c)
      BY <1>1, FinishMoves
    <2>2. SendEffect(t, op, c)
      BY <1>1, <2>1 DEF SendEffect, FinishEffect, Send, Asks
    <2> QED BY <2>2
  <1>2. CASE ~(proc = "gone" /\ Finish(t, op, FALSE) /\ UNCHANGED inbox)
    <2> DEFINE c == [Free EXCEPT !.pc = "wait", !.op = op, !.id = nextId]
    <2>1. c.got = NoReply /\ c.pc = "wait" /\ c.op = op /\ c.id = nextId
      BY DEF Free
    <2>2. Suited(c)
      BY FreeSuited DEF Send
    <2>3. Become(t, c) /\ (inbox' = inbox \/ inbox' = inbox \cup {[id |-> nextId, by |-> t]})
      BY <1>2 DEF Send, Write
    <2>4. state' = (IF op = "reload" THEN "reloading" ELSE state)
      BY <1>2 DEF Send, Write
    <2> HIDE DEF c
    <2>5. SendEffect(t, op, c)
      BY <2>1, <2>2, <2>3, <2>4 DEF SendEffect, Send, Asks
    <2> QED BY <2>5
  <1> QED BY <1>1, <1>2

-----------------------------------------------------------------------------
(* Each step of a call has such an effect.                                  *)
LEMMA EndRequestMoves ==
    ASSUME Typed, NEW t \in Task, NEW ok \in BOOLEAN, In(t, "wait"), EndRequest(t, ok)
    PROVE  \E c : Effect(t, c)
  <1>1. call[t].op \in Requests /\ Suited(call[t])
    BY DEF Typed, Suited, Role, In
  <1>2. PICK c : FinishEffect(t, call[t].op, c)
    BY <1>1, FinishMoves DEF EndRequest
  <1>3. Ends(t)
    BY DEF Ends, EndRequest, daemon
  <1>4. Reloads(t, c)
    BY <1>2 DEF Reloads, FinishEffect
  <1>5. Hands(t, c)
    BY <1>1, <1>2 DEF Hands, InHand, FinishEffect, EndRequest, daemon, Requests
  <1>6. out' = out /\ log' = log /\ cancelled \subseteq cancelled'
    BY DEF EndRequest, daemon, history
  <1> QED BY <1>2, <1>3, <1>4, <1>5, <1>6 DEF Effect, FinishEffect

LEMMA StopClientMoves ==
    ASSUME Typed, NEW t \in Task, ~In(t, "wait"), StopClient(t),
           UNCHANGED <<proc, out, log, history>>
    PROVE  \E c : Effect(t, c)
  <1>1. CASE Send(t, "stop")
    <2>1. PICK c : SendEffect(t, "stop", c)
      BY <1>1, SendMoves DEF Requests
    <2>2. Reloads(t, c)
      BY <2>1 DEF Reloads, SendEffect
    <2>3. Hands(t, c)
      BY <2>1 DEF Hands, InHand, SendEffect
    <2> QED BY <2>1, <2>2, <2>3 DEF Effect, SendEffect, history
  <1>2. CASE Terminate(t) /\ UNCHANGED <<inbox, nextId, pending, state>>
    <2>1. PICK c : FinishEffect(t, "stop", c)
      BY <1>2, TerminateMoves
    <2>2. Reloads(t, c) /\ Forgets(t)
      BY <1>2, <2>1 DEF Reloads, FinishEffect, Forgets
    <2>3. Hands(t, c)
      BY <2>1 DEF Hands, InHand, FinishEffect
    <2> QED BY <2>1, <2>2, <2>3 DEF Effect, FinishEffect, history
  <1> QED BY <1>1, <1>2 DEF StopClient

\* A call that is not at its request: what it asks the daemon stays as it is.
LEMMA QuietMoves ==
    ASSUME Typed, NEW t \in Task, NEW c, ~In(t, "wait"), Become(t, c), Suited(c),
           c.got = NoReply \/ (c.got = call[t].got /\ c.id = call[t].id),
           UNCHANGED <<pending, nextId, out, log>>, inbox' \in {inbox, {}},
           cancelled \subseteq cancelled', Hands(t, c), state' = "reloading" => state = "reloading"
    PROVE  Effect(t, c)
  BY DEF Effect, Forgets, Reloads

LEMMA StartSteps ==
    ASSUME Typed, NEW t \in Task, Start(t) \/ Started(t) \/ UriWaited(t) \/ StartTimeout(t)
    PROVE  \E c : Effect(t, c)
  <1>1. CASE Start(t)
    <2> DEFINE c == [Free EXCEPT !.pc = "starting", !.op = "start"]
    <2>1. Suited(c) /\ c.got = NoReply /\ c.op = "start"
      BY FreeSuited DEF Free
    <2>2. ~In(t, "wait") /\ Become(t, c) /\ UNCHANGED <<pending, nextId, out, log, inbox, state, cancelled>>
      BY <1>1 DEF Start, In, session, history
    <2> HIDE DEF c
    <2>3. Hands(t, c)
      BY <2>1 DEF Hands, InHand
    <2>4. Effect(t, c)
      BY <2>1, <2>2, <2>3, QuietMoves
    <2> QED BY <2>4
  <1>2. CASE (Started(t) \/ UriWaited(t)) /\ Register(t)
    <2>1. ~In(t, "wait") /\ Become(t, Free) /\ UNCHANGED <<pending, nextId, out, log, inbox, cancelled>>
      BY <1>2 DEF Started, UriWaited, Register, In, daemon, client, history
    <2>2. registered' /\ state' = "running"
      BY <1>2 DEF Register
    <2>3. Hands(t, Free)
      BY <2>2 DEF Hands, InHand
    <2>4. Effect(t, Free)
      BY <2>1, <2>2, <2>3, FreeSuited, QuietMoves
    <2> QED BY <2>4
  <1>3. CASE Started(t) /\ ~Register(t)
    <2> DEFINE c == [call[t] EXCEPT !.pc = "uri"]
    <2>1. ~In(t, "wait") /\ Become(t, c) /\ UNCHANGED <<pending, nextId, out, log, inbox, cancelled, state>>
      BY <1>3 DEF Started, In, daemon, client, history, session
    <2>2. call[t].pc = "starting" /\ Suited(call[t])
      BY <1>3 DEF Started, In, Typed
    <2>3. Suited(c) /\ c.got = call[t].got /\ c.id = call[t].id /\ c.op = "start"
      BY <2>2 DEF Suited, CallType, Role
    <2> HIDE DEF c
    <2>4. Hands(t, c)
      BY <2>3 DEF Hands, InHand
    <2>5. Effect(t, c)
      BY <2>1, <2>3, <2>4, QuietMoves
    <2> QED BY <2>5
  <1>4. CASE StartTimeout(t)
    BY <1>4, StopClientMoves DEF StartTimeout, In
  <1> QED BY <1>1, <1>2, <1>3, <1>4 DEF UriWaited

LEMMA RequestSteps ==
    ASSUME Typed, NEW t \in Task, Reload(t) \/ CallExtension(t) \/ Replied(t) \/ Timeout(t)
    PROVE  \E c : Effect(t, c)
  <1>1. CASE Replied(t) \/ Timeout(t)
    <2>1. In(t, "wait") /\ \E ok \in BOOLEAN : EndRequest(t, ok)
      <3>1. call[t].got \in Reply \cup {NoReply}
        BY DEF Typed, CallType
      <3> QED BY <1>1, <3>1 DEF Replied, Timeout, Reply
    <2> QED BY <2>1, EndRequestMoves
  <1>2. CASE (Reload(t) \/ CallExtension(t)) /\ \E op \in {"reload", "extension"} : Send(t, op)
    <2>1. PICK op \in {"reload", "extension"} : Send(t, op)
      BY <1>2
    <2>2. PICK c : SendEffect(t, op, c)
      BY <2>1, SendMoves DEF Requests
    <2>3. call[t].pc = "free" /\ call[t].op = "none" /\ ~In(t, "wait")
      BY <1>2 DEF Reload, CallExtension, In, Typed, Suited, Role
    <2>4. UNCHANGED <<proc, registered, out, log, cancelled>>
      BY <1>2 DEF Reload, CallExtension, history
    <2>5. Reloads(t, c) /\ Hands(t, c)
      BY <2>2, <2>3, <2>4 DEF Reloads, Hands, InHand, SendEffect
    <2>6. Effect(t, c)
      BY <2>2, <2>3, <2>4, <2>5 DEF Effect, SendEffect
    <2> QED BY <2>6
  <1>3. CASE Reload(t) /\ Finish(t, "reload", FALSE) /\ UNCHANGED <<inbox, nextId, pending>>
    <2>1. PICK c : FinishEffect(t, "reload", c)
      BY <1>3, FinishMoves DEF Requests
    <2>2. call[t].pc = "free" /\ call[t].op = "none" /\ ~In(t, "wait")
      BY <1>3 DEF Reload, In, Typed, Suited, Role
    <2>3. UNCHANGED <<proc, registered, out, log, cancelled>>
      BY <1>3 DEF Reload, history
    <2>4. Hands(t, c)
      BY <2>2, <2>3 DEF Hands, InHand
    <2>5. Effect(t, c)
      BY <1>3, <2>1, <2>2, <2>3, <2>4, QuietMoves DEF FinishEffect
    <2> QED BY <2>5
  <1> QED BY <1>1, <1>2, <1>3 DEF Reload, CallExtension

LEMMA StopSteps ==
    ASSUME Typed, NEW t \in Task, Stop(t) \/ Terminated(t) \/ Kill(t)
    PROVE  \E c : Effect(t, c)
  <1>1. CASE Stop(t)
    BY <1>1, StopClientMoves DEF Stop, In
  <1>2. CASE Terminated(t) \/ Kill(t)
    <2>1. ~In(t, "wait") /\ Become(t, Free) /\ UNCHANGED <<pending, nextId, out, log, state, cancelled>>
      BY <1>2 DEF Terminated, Kill, Leave, In, daemon, session, history
    <2>2. inbox' \in {inbox, {}} /\ proc' = "gone"
      BY <1>2 DEF Terminated, Kill, daemon
    <2>3. Effect(t, Free)
      BY <2>1, <2>2, FreeSuited, QuietMoves DEF Hands
    <2> QED BY <2>3
  <1> QED BY <1>1, <1>2

LEMMA TailSteps ==
    ASSUME Typed, NEW t \in Task, TailBegin(t) \/ TailPoll(t) \/ TailDeadline(t)
    PROVE  \E c : Effect(t, c)
  <1>1. /\ ~In(t, "wait") /\ call[t].op \notin {"start", "stop"}
        /\ UNCHANGED <<proc, registered, pending, nextId, out, log, inbox, state, cancelled>>
    <2>1. In(t, "free") \/ In(t, "tail")
      BY DEF TailBegin, TailPoll, TailDeadline
    <2>2. ~In(t, "wait") /\ call[t].op \notin {"start", "stop"}
      BY <2>1 DEF In, Typed, Suited, Role
    <2> QED BY <2>2 DEF TailBegin, TailPoll, TailDeadline, daemon, client, session, history
  <1>2. \A c : Hands(t, c)
    BY <1>1 DEF Hands
  <1>3. Len(log) \in Nat /\ Suited(call[t])
    BY LenProperties DEF Typed
  <1>4. CASE Become(t, Free)
    <2>1. Effect(t, Free)
      BY <1>1, <1>2, <1>4, FreeSuited, QuietMoves
    <2> QED BY <2>1
  <1>5. CASE Become(t, [Free EXCEPT !.pc = "tail", !.op = "tail", !.seen = Len(log)])
    <2> DEFINE c == [Free EXCEPT !.pc = "tail", !.op = "tail", !.seen = Len(log)]
    <2>1. c.got = NoReply /\ Suited(c) /\ Become(t, c)
      BY <1>3, <1>5, FreeSuited DEF Free
    <2> HIDE DEF c
    <2>2. Effect(t, c)
      BY <1>1, <1>2, <2>1, QuietMoves
    <2> QED BY <2>2
  <1>6. CASE In(t, "tail") /\ Become(t, [call[t] EXCEPT !.seen = Len(log)])
    <2> DEFINE c == [call[t] EXCEPT !.seen = Len(log)]
    <2>1. c.got = call[t].got /\ c.id = call[t].id /\ Suited(c) /\ Become(t, c)
      BY <1>3, <1>6 DEF Suited, CallType, Role
    <2> HIDE DEF c
    <2>2. Effect(t, c)
      BY <1>1, <1>2, <2>1, QuietMoves
    <2> QED BY <2>2
  <1> QED BY <1>4, <1>5, <1>6 DEF TailBegin, TailPoll, TailDeadline

LEMMA CancelStep ==
    ASSUME Typed, NEW t \in Task, Cancel(t)
    PROVE  Effect(t, Free)
  <1>1. call[t].op \in Lasting => call[t].op \in cancelled'
    BY DEF Cancel
  <1>2. Reloads(t, Free)
    BY <1>1 DEF Reloads, Cancel, Lasting, session
  <1>3. Hands(t, Free)
    BY <1>1 DEF Hands, InHand, Cancel, Lasting, session, daemon
  <1>4. Forgets(t) \/ Ends(t)
    <2>1. CASE In(t, "wait")
      <3>1. pending' = [pending EXCEPT ![call[t].id] = NoTask]
        BY <2>1 DEF Cancel, Typed
      <3> QED BY <2>1, <3>1 DEF Ends, Cancel, daemon
    <2>2. CASE ~In(t, "wait")
      <3>1. pending' = pending
        BY <2>2 DEF Cancel, Typed
      <3> QED BY <2>2, <3>1 DEF Forgets, Cancel, daemon
    <2> QED BY <2>1, <2>2
  <1> QED BY <1>2, <1>3, <1>4, FreeSuited DEF Effect, Cancel, daemon

LEMMA CallSteps ==
    ASSUME Typed, NEW t \in Task, Calls(t)
    PROVE  \E c : Effect(t, c)
  BY StartSteps, RequestSteps, StopSteps, TailSteps, CancelStep DEF Calls

-----------------------------------------------------------------------------
(* What such an effect keeps.                                               *)
LEMMA Others ==
    ASSUME Typed, NEW t \in Task, NEW c, Become(t, c)
    PROVE  call'[t] = c /\ \A u \in Task \ {t} : call'[u] = call[u]
  BY DEF Become, Typed

LEMMA EffectTyped ==
    ASSUME Typed, NEW t \in Task, NEW c, Effect(t, c)
    PROVE  Typed'
  <1>1. call' \in [Task -> CallType] /\ \A u \in Task : Suited(call[u])'
    <2>1. call' \in [Task -> CallType]
      BY DEF Effect, Become, Suited, Typed
    <2>2. ASSUME NEW u \in Task PROVE Suited(call'[u])
      BY Others DEF Effect, Typed
    <2> QED BY <2>1, <2>2 DEF Suited, CallType, Role
  <1>2. pending' \in [Id -> Task \cup {NoTask}] /\ nextId' \in Nat \ {0}
    BY DEF Effect, Forgets, Asks, Ends, Typed
  <1>3. inbox' \subseteq Request
    BY DEF Effect, Forgets, Asks, Ends, Typed, Request
  <1> QED BY <1>1, <1>2, <1>3 DEF Effect, Typed

LEMMA EffectKnown ==
    ASSUME Typed, NEW t \in Task, NEW c, Effect(t, c),
           NEW r, r.id \in Id, r.by \in Task, Known(r)
    PROVE  Known(r)'
  <1>1. call'[t] = c /\ \A u \in Task \ {t} : call'[u] = call[u]
    BY Others DEF Effect
  <1>2. CASE Forgets(t)
    <2>1. pending[r.id] # NoTask => r.by # t
      BY <1>2 DEF Known, Forgets
    <2> QED BY <1>1, <1>2, <2>1 DEF Forgets, Known, In
  <1>3. CASE Asks(t, c)
    <2>1. r.id # nextId /\ r.id < nextId' /\ pending'[r.id] = pending[r.id]
      BY <1>3 DEF Asks, Known, Typed, Id
    <2>2. pending[r.id] # NoTask => r.by # t
      BY <1>3 DEF Known, Asks
    <2> QED BY <1>1, <2>1, <2>2 DEF Known, In
  <1>4. CASE Ends(t)
    <2>1. CASE pending[r.id] = t
      <3>1. r.id = call[t].id
        BY <2>1, ConfigOK DEF Known
      <3>2. pending'[r.id] = NoTask
        BY <1>4, <3>1 DEF Ends, Typed
      <3> QED BY <1>4, <3>2 DEF Known, Ends
    <2>2. CASE pending[r.id] # t
      <3>1. pending'[r.id] \in {pending[r.id], NoTask} /\ nextId' = nextId
        BY <1>4 DEF Ends, Typed
      <3>2. pending[r.id] # NoTask => r.by # t
        BY <2>2 DEF Known
      <3> QED BY <1>1, <3>1, <3>2 DEF Known, In
    <2> QED BY <2>1, <2>2
  <1> QED BY <1>2, <1>3, <1>4 DEF Effect

LEMMA EffectTraced ==
    ASSUME Typed, Traced, NEW t \in Task, NEW c, Effect(t, c)
    PROVE  Traced'
  <1>1. ASSUME NEW r \in inbox' PROVE Known(r)'
    <2>1. CASE r \in inbox
      <3>1. r.id \in Id /\ r.by \in Task /\ Known(r)
        BY <2>1 DEF Typed, Request, Traced
      <3> QED BY <3>1, EffectKnown
    <2>2. CASE r \notin inbox
      <3>1. Asks(t, c) /\ c.pc = "wait" /\ c.id = nextId /\ r = [id |-> nextId, by |-> t]
        BY <1>1, <2>2 DEF Effect, Forgets, Asks, Ends
      <3>2. r.id < nextId' /\ pending'[r.id] = t /\ r.by = t /\ r.id = nextId
        BY <3>1 DEF Asks, Typed
      <3>3. call'[t] = c
        BY Others DEF Effect
      <3> QED BY <3>1, <3>2, <3>3 DEF Known, In
    <2> QED BY <2>1, <2>2
  <1>2. ASSUME NEW k \in DOMAIN out', NEW r \in Reply \cup {NoReply},
               out'[k].event = "reply", out'[k].reply = r
        PROVE  r \in Reply /\ Known(r)'
    <2>1. r \in Reply /\ Known(r)
      BY <1>2 DEF Effect, Traced
    <2>2. r.id \in Id /\ r.by \in Task
      BY <2>1 DEF Reply
    <2> QED BY <2>1, <2>2, EffectKnown
  <1> QED BY <1>1, <1>2 DEF Traced

LEMMA EffectKeeps ==
    ASSUME Typed, OwnAnswer, NotStuck, NoStray, NEW t \in Task, NEW c, Effect(t, c)
    PROVE  OwnAnswer' /\ NotStuck' /\ NoStray'
  <1>1. call'[t] = c /\ \A u \in Task \ {t} : call'[u] = call[u]
    BY Others DEF Effect
  <1>2. OwnAnswer'
    BY <1>1 DEF Effect, OwnAnswer
  <1>3. NotStuck'
    <2>1. SUFFICES ASSUME state' = "reloading", "reload" \notin cancelled'
                   PROVE  \E u \in Task : call'[u].pc = "wait" /\ call'[u].op = "reload"
      BY DEF NotStuck, In
    <2>2. CASE c.pc = "wait" /\ c.op = "reload"
      BY <1>1, <2>2
    <2>3. CASE state = "reloading" /\ ~(In(t, "wait") /\ call[t].op = "reload")
      <3>1. PICK u \in Task : In(u, "wait") /\ call[u].op = "reload"
        BY <2>1, <2>3 DEF NotStuck, Effect
      <3> QED BY <1>1, <2>3, <3>1 DEF In
    <2> QED BY <2>1, <2>2, <2>3 DEF Effect, Reloads
  <1>4. NoStray'
    <2>1. SUFFICES ASSUME proc' \in {"runs", "hung"}, ~registered',
                          cancelled' \cap {"start", "stop"} = {}
                   PROVE  \E u \in Task : call'[u].op \in {"start", "stop"}
      BY DEF NoStray
    <2>2. CASE c.op \in {"start", "stop"}
      BY <1>1, <2>2
    <2>3. CASE proc' = proc /\ registered' = registered /\ call[t].op \notin {"start", "stop"}
      <3>1. PICK u \in Task : call[u].op \in {"start", "stop"}
        BY <2>1, <2>3 DEF NoStray, Effect
      <3> QED BY <1>1, <2>3, <3>1
    <2> QED BY <2>1, <2>2, <2>3 DEF Effect, Hands, InHand
  <1> QED BY <1>2, <1>3, <1>4

-----------------------------------------------------------------------------
(* The reader gives a call its answer; no call moves.                       *)
LEMMA PushTyped ==
    ASSUME log \in Seq(BOOLEAN), NEW e \in BOOLEAN
    PROVE  Push(log, e) \in Seq(BOOLEAN)
  <1>1. CASE Len(log) < Capacity
    BY <1>1, AppendProperties DEF Push
  <1>2. CASE ~(Len(log) < Capacity)
    <2>1. log # <<>>
      BY <1>2, ConfigOK
    <2>2. Tail(log) \in Seq(BOOLEAN)
      BY <2>1, HeadTailProperties
    <2> QED BY <1>2, <2>2, AppendProperties DEF Push
  <1> QED BY <1>1, <1>2

LEMMA ReadRecords ==
    ASSUME Typed, Traced, OwnAnswer, Read
    PROVE  /\ call' \in [Task -> CallType] /\ log' \in Seq(BOOLEAN)
           /\ \A t \in Task : /\ call'[t].pc = call[t].pc /\ call'[t].op = call[t].op
                              /\ call'[t].id = call[t].id
           /\ OwnAnswer'
  <1> DEFINE line == Head(out)
  <1>1. 1 \in DOMAIN out /\ line = out[1] /\ line.reply \in Reply \cup {NoReply}
    <2>1. out # <<>> /\ out \in Seq([event : {"reply"} \cup Event, reply : Reply \cup {NoReply}])
      BY DEF Read, Typed
    <2>2. 1 \in DOMAIN out /\ line = out[1]
      BY <2>1, HeadTailProperties, LenProperties
    <2>3. line \in [event : {"reply"} \cup Event, reply : Reply \cup {NoReply}]
      BY <2>1, HeadTailProperties
    <2> HIDE DEF line
    <2> QED BY <2>2, <2>3
  <1>2. CASE line.event = "reply" /\ Deliver(line.reply)
    <2>1. PICK r \in Reply \cup {NoReply} : r = line.reply /\ r \in Reply /\ Known(r)
      <3>1. PICK r \in Reply \cup {NoReply} : r = line.reply
        BY <1>1
      <3> QED BY <1>1, <1>2, <3>1 DEF Traced
    <2>2. Deliver(r)
      BY <1>2, <2>1
    <2>3. ASSUME NEW t \in Task
          PROVE  /\ call'[t] \in CallType
                 /\ call'[t].pc = call[t].pc /\ call'[t].op = call[t].op /\ call'[t].id = call[t].id
                 /\ call'[t].got = call[t].got \/
                      (call'[t].got = r /\ r.by = t /\ r.id = call[t].id)
      <3>1. call[t] \in CallType
        BY DEF Typed
      <3>2. CASE call'[t] = call[t]
        BY <3>1, <3>2
      <3>3. CASE pending[r.id] = t /\ call'[t] = [call[t] EXCEPT !.got = r]
        <4>1. r.by = t /\ r.id = call[t].id
          BY <2>1, <3>3, ConfigOK DEF Known
        <4> QED BY <2>1, <3>1, <3>3, <4>1 DEF CallType
      <3> QED BY <2>2, <3>2, <3>3 DEF Deliver
    <2>4. call' \in [Task -> CallType]
      BY <2>2, <2>3 DEF Deliver
    <2>5. OwnAnswer'
      BY <2>3 DEF OwnAnswer
    <2> QED BY <2>2, <2>3, <2>4, <2>5 DEF Deliver, Typed
  <1>3. CASE \E hit \in BOOLEAN : Logged(hit)
    <2>1. PICK hit \in BOOLEAN : Logged(hit)
      BY <1>3
    <2>2. ASSUME NEW t \in Task
          PROVE  /\ call'[t] \in CallType /\ call'[t].got = call[t].got
                 /\ call'[t].pc = call[t].pc /\ call'[t].op = call[t].op /\ call'[t].id = call[t].id
      <3>1. call[t] \in CallType
        BY DEF Typed
      <3>2. call'[t] = call[t] \/ call'[t] = [call[t] EXCEPT !.owed = TRUE]
        BY <2>1 DEF Logged
      <3> QED BY <3>1, <3>2 DEF CallType
    <2>3. call' \in [Task -> CallType]
      BY <2>1, <2>2 DEF Logged
    <2>4. OwnAnswer'
      BY <2>2 DEF OwnAnswer
    <2> QED BY <2>1, <2>2, <2>3, <2>4, PushTyped DEF Logged, Typed
  <1>4. CASE UNCHANGED <<call, log>>
    BY <1>4 DEF Typed, OwnAnswer
  <1>5. \/ line.event = "reply" /\ Deliver(line.reply)
        \/ \E hit \in BOOLEAN : Logged(hit)
        \/ UNCHANGED <<call, log>>
    BY DEF Read, AppStarted, Overrun
  <1> QED BY <1>2, <1>3, <1>4, <1>5

LEMMA ReadKeeps ==
    ASSUME IInv, Read
    PROVE  IInv'
  <1>1. /\ call' \in [Task -> CallType] /\ log' \in Seq(BOOLEAN)
        /\ \A t \in Task : /\ call'[t].pc = call[t].pc /\ call'[t].op = call[t].op
                           /\ call'[t].id = call[t].id
        /\ OwnAnswer'
    BY ReadRecords DEF IInv
  <1>2. UNCHANGED <<proc, inbox, nextId, pending, registered, state, cancelled>>
    BY DEF Read, session
  <1>3. out' = Tail(out) /\ out # <<>> /\ Len(out) \in Nat
    BY LenProperties DEF Read, IInv, Typed
  <1>4. /\ out' \in Seq([event : {"reply"} \cup Event, reply : Reply \cup {NoReply}])
        /\ \A k \in DOMAIN out' : k + 1 \in DOMAIN out /\ out'[k] = out[k + 1]
    <2>1. out \in Seq([event : {"reply"} \cup Event, reply : Reply \cup {NoReply}])
      BY DEF IInv, Typed
    <2>2. out' \in Seq([event : {"reply"} \cup Event, reply : Reply \cup {NoReply}])
      BY <1>3, <2>1, HeadTailProperties
    <2>3. Len(out') = Len(out) - 1 /\ DOMAIN out' = 1..(Len(out) - 1) /\ DOMAIN out = 1..Len(out)
      BY <1>3, <2>1, <2>2, HeadTailProperties, LenProperties
    <2>4. ASSUME NEW k \in DOMAIN out' PROVE k + 1 \in DOMAIN out /\ out'[k] = out[k + 1]
      BY <1>3, <2>1, <2>3, HeadTailProperties
    <2> QED BY <2>2, <2>4
  <1>5. Typed'
    <2>1. \A t \in Task : Suited(call[t])'
      BY <1>1 DEF Suited, IInv, Typed
    <2> QED BY <1>1, <1>2, <1>4, <2>1 DEF IInv, Typed
  <1>6. ASSUME NEW r, r.by \in Task, Known(r) PROVE Known(r)'
    BY <1>1, <1>2, <1>6 DEF Known, In
  <1>7. Traced'
    <2>1. ASSUME NEW r \in inbox' PROVE Known(r)'
      BY <1>2, <1>6, <2>1 DEF IInv, Traced, Typed, Request
    <2>2. ASSUME NEW k \in DOMAIN out', NEW r \in Reply \cup {NoReply},
                 out'[k].event = "reply", out'[k].reply = r
          PROVE  r \in Reply /\ Known(r)'
      <3>1. r \in Reply /\ Known(r)
        BY <1>4, <2>2 DEF IInv, Traced
      <3> QED BY <1>6, <3>1 DEF Reply
    <2> QED BY <2>1, <2>2 DEF Traced
  <1>8. NotStuck' /\ NoStray'
    BY <1>1, <1>2 DEF IInv, NotStuck, NoStray, In
  <1> QED BY <1>1, <1>5, <1>7, <1>8 DEF IInv

-----------------------------------------------------------------------------
(* The daemon answers what it was asked, in any order.                      *)
LEMMA SaysKeeps ==
    ASSUME IInv, NEW line, line \in [event : {"reply"} \cup Event, reply : Reply \cup {NoReply}],
           line.event = "reply" => line.reply \in Reply /\ Known(line.reply),
           Says(line), inbox' \subseteq inbox
    PROVE  IInv'
  <1>1. UNCHANGED <<proc, nextId, pending, log, registered, state, call, cancelled>>
    BY DEF Says, client, session, history
  <1>2. out' = Append(out, line)
    BY DEF Says
  <1>3. out' \in Seq([event : {"reply"} \cup Event, reply : Reply \cup {NoReply}])
    BY <1>2, AppendProperties DEF IInv, Typed
  <1>4. \A k \in DOMAIN out' : out'[k] = line \/ (k \in DOMAIN out /\ out'[k] = out[k])
    <2>1. out \in Seq([event : {"reply"} \cup Event, reply : Reply \cup {NoReply}])
      BY DEF IInv, Typed
    <2>2. Len(out) \in Nat /\ DOMAIN out = 1..Len(out) /\ DOMAIN out' = 1..(Len(out) + 1)
      BY <1>2, <1>3, <2>1, AppendProperties, LenProperties
    <2> QED BY <1>2, <2>1, <2>2, AppendProperties
  <1>5. Typed'
    BY <1>1, <1>3 DEF IInv, Typed
  <1>6. \A r : Known(r) => Known(r)'
    BY <1>1 DEF Known, In
  <1>7. Traced'
    <2>1. ASSUME NEW r \in inbox' PROVE Known(r)'
      BY <1>6 DEF IInv, Traced
    <2>2. ASSUME NEW k \in DOMAIN out', NEW r \in Reply \cup {NoReply},
                 out'[k].event = "reply", out'[k].reply = r
          PROVE  r \in Reply /\ Known(r)'
      BY <1>4, <1>6, <2>2 DEF IInv, Traced
    <2> QED BY <2>1, <2>2 DEF Traced
  <1>8. OwnAnswer' /\ NotStuck' /\ NoStray'
    BY <1>1 DEF IInv, OwnAnswer, NotStuck, NoStray, In
  <1> QED BY <1>5, <1>7, <1>8 DEF IInv

LEMMA DaemonKeeps ==
    ASSUME IInv, Daemon
    PROVE  IInv'
  <1>1. CASE \E r \in inbox, ok \in BOOLEAN : Answers(r, ok)
    <2>1. PICK r \in inbox, ok \in BOOLEAN : Answers(r, ok)
      BY <1>1
    <2>2. PICK line : line = Answer(r, ok)
      OBVIOUS
    <2>3. line.event = "reply" /\ line.reply \in Reply /\ Known(line.reply)
      BY <2>2 DEF Answer, Reply, Known, IInv, Traced, Typed, Request
    <2>4. line \in [event : {"reply"} \cup Event, reply : Reply \cup {NoReply}]
      BY <2>2, <2>3 DEF Answer
    <2>5. Says(line) /\ inbox' \subseteq inbox
      BY <2>1, <2>2 DEF Answers
    <2> QED BY <2>3, <2>4, <2>5, SaysKeeps
  <1>2. CASE \E event \in Event : Reports(event)
    <2>1. PICK event \in Event : Reports(event)
      BY <1>2
    <2>2. PICK line : line = Line(event)
      OBVIOUS
    <2>3. line.event # "reply" /\ line \in [event : {"reply"} \cup Event, reply : Reply \cup {NoReply}]
      BY <2>2 DEF Line, Event
    <2>4. Says(line) /\ inbox' \subseteq inbox
      BY <2>1, <2>2 DEF Reports
    <2> QED BY <2>3, <2>4, SaysKeeps
  <1>3. CASE Dies \/ Hangs
    <2>1. UNCHANGED <<out, nextId, pending, log, registered, state, call, cancelled>>
      BY <1>3 DEF Dies, Hangs, client, session, history
    <2>2. inbox' \subseteq inbox /\ (proc' \in {"runs", "hung"} => proc \in {"runs", "hung"})
      BY <1>3 DEF Dies, Hangs
    <2>3. Typed' /\ OwnAnswer' /\ NotStuck' /\ NoStray'
      BY <2>1, <2>2 DEF IInv, Typed, OwnAnswer, NotStuck, NoStray, In
    <2>4. \A r : Known(r) => Known(r)'
      BY <2>1 DEF Known, In
    <2>5. Traced'
      BY <2>1, <2>2, <2>4 DEF IInv, Traced
    <2> QED BY <2>3, <2>5 DEF IInv
  <1> QED BY <1>1, <1>2, <1>3 DEF Daemon

LEMMA Init_IInv == Init => IInv
  <1> SUFFICES ASSUME Init PROVE IInv
    OBVIOUS
  <1>1. \A t \in Task : call[t] = Free
    BY DEF Init
  <1>2. call \in [Task -> CallType] /\ \A t \in Task : Suited(call[t])
    BY <1>1, FreeSuited DEF Init, Suited
  <1>3. Typed
    BY <1>2 DEF Init, Typed
  <1>4. OwnAnswer
    BY <1>1, FreeSuited DEF OwnAnswer
  <1>5. DOMAIN out = {}
    BY DEF Init
  <1>6. Traced
    BY <1>5 DEF Init, Traced
  <1> QED BY <1>3, <1>4, <1>6 DEF IInv, Init, NotStuck, NoStray

LEMMA Next_IInv == IInv /\ [Next]_vars => IInv'
  <1> SUFFICES ASSUME IInv, [Next]_vars PROVE IInv'
    OBVIOUS
  <1>1. ASSUME NEW t \in Task, Calls(t) PROVE IInv'
    <2>1. PICK c : Effect(t, c)
      BY <1>1, CallSteps DEF IInv
    <2> QED BY <2>1, EffectTyped, EffectTraced, EffectKeeps DEF IInv
  <1>2. CASE ReadEof \/ UNCHANGED vars
    <2>1. UNCHANGED <<daemon, nextId, pending, log, session, call, history>>
      BY <1>2 DEF ReadEof, vars, client
    <2>2. UNCHANGED <<proc, inbox, out, nextId, pending, log, registered, state, call, cancelled>>
      BY <2>1 DEF daemon, session, history
    <2> QED BY <2>2 DEF IInv, Typed, Traced, Known, OwnAnswer, NotStuck, NoStray, In
  <1> QED BY <1>1, <1>2, ReadKeeps, DaemonKeeps DEF Next

LEMMA Inductive == Spec => []IInv
  BY Init_IInv, Next_IInv, PTL DEF Spec, Safety

(* However late and in whatever order the daemon answers, a call receives   *)
(* the reply to its own request and no other.                               *)
THEOREM OwnAnswers == Spec => []OwnAnswer
  BY Inductive, PTL DEF IInv

(* A session shows RELOADING only while a reload is under way, unless one   *)
(* was cancelled.                                                           *)
THEOREM Unstuck == Spec => []NotStuck
  BY Inductive, PTL DEF IInv

(* No call leaves a daemon behind that nobody is to stop, unless it was cut *)
(* short itself.                                                            *)
THEOREM NothingStrays == Spec => []NoStray
  BY Inductive, PTL DEF IInv

-----------------------------------------------------------------------------
(* The ring and the tails that poll it.  As long as it has dropped nothing, *)
(* a tail looks past a place the log has reached, and an entry it is owed   *)
(* lies past that place.                                                    *)
Tailing(t) == In(t, "tail") => call[t].seen <= Len(log) /\ (call[t].owed => Found(t))
RInv ==
    /\ Typed /\ dropped \in Nat /\ Len(log) <= Capacity
    /\ dropped = 0 => ~missed /\ \A t \in Task : Tailing(t)

\* A step of a call that is not the begin or the poll of a tail.
Elsewhere(t) == \E c : Become(t, c) /\ c.pc # "tail"

LEMMA Places ==
    /\ Free.pc # "tail" /\ [Free EXCEPT !.pc = "term", !.op = "stop"].pc # "tail"
    /\ [Free EXCEPT !.pc = "starting", !.op = "start"].pc # "tail"
    /\ \A op, i : [Free EXCEPT !.pc = "wait", !.op = op, !.id = i].pc # "tail"
  BY DEF Free

LEMMA FinishElsewhere ==
    ASSUME NEW t \in Task, NEW op, NEW ok, Finish(t, op, ok)
    PROVE  Elsewhere(t)
  BY Places DEF Finish, Terminate, Leave, Elsewhere

LEMMA SendElsewhere ==
    ASSUME NEW t \in Task, NEW op, Send(t, op)
    PROVE  Elsewhere(t)
  BY Places, FinishElsewhere DEF Send, Write, Elsewhere

LEMMA StopClientElsewhere ==
    ASSUME NEW t \in Task, StopClient(t)
    PROVE  Elsewhere(t)
  BY Places, SendElsewhere DEF StopClient, Terminate, Leave, Elsewhere

LEMMA CallsElsewhere ==
    ASSUME Typed, NEW t \in Task, Calls(t), ~ TailBegin(t), ~ TailPoll(t)
    PROVE  Elsewhere(t) /\ UNCHANGED <<log, dropped, missed>>
  <1>1. CASE Start(t) \/ Started(t) \/ UriWaited(t) \/ StartTimeout(t)
    <2>1. CASE Started(t)
      <3>1. call[t] \in CallType
        BY DEF Typed
      <3>2. [call[t] EXCEPT !.pc = "uri"].pc # "tail"
        BY <3>1 DEF CallType
      <3> QED BY <2>1, <3>2, Places DEF Started, Register, Elsewhere, client, history
    <2>2. CASE ~ Started(t)
      BY <1>1, <2>2, Places, StopClientElsewhere
         DEF Start, UriWaited, StartTimeout, Register, Elsewhere, client, history
    <2> QED BY <2>1, <2>2
  <1>2. CASE Reload(t) \/ CallExtension(t)
    BY <1>2, SendElsewhere, FinishElsewhere DEF Reload, CallExtension, history
  <1>3. CASE Replied(t) \/ Timeout(t)
    BY <1>3, FinishElsewhere DEF Replied, Timeout, EndRequest, history
  <1>4. CASE Stop(t)
    BY <1>4, StopClientElsewhere DEF Stop, history
  <1>5. CASE Terminated(t) \/ Kill(t) \/ TailDeadline(t) \/ Cancel(t)
    BY <1>5, Places DEF Terminated, Kill, TailDeadline, Cancel, Leave, Elsewhere, client, history
  <1> QED BY <1>1, <1>2, <1>3, <1>4, <1>5 DEF Calls

LEMMA ElsewhereKeeps ==
    ASSUME RInv, Typed', NEW t \in Task, Elsewhere(t), UNCHANGED <<log, dropped, missed>>
    PROVE  RInv'
  <1>1. PICK c : Become(t, c) /\ c.pc # "tail"
    BY DEF Elsewhere
  <1>2. call'[t].pc # "tail" /\ \A u \in Task \ {t} : call'[u] = call[u]
    BY <1>1, Others DEF RInv
  <1> QED BY <1>2 DEF RInv, Tailing, Found, In

LEMMA PollKeeps ==
    ASSUME RInv, Typed', NEW t \in Task, TailBegin(t) \/ TailPoll(t)
    PROVE  RInv'
  <1>1. log' = log /\ dropped' = dropped /\ Len(log) \in Nat /\ DOMAIN log = 1..Len(log)
    BY LenProperties DEF TailBegin, TailPoll, RInv, Typed, client, history
  <1>2. PICK c : Become(t, c)
    BY DEF TailBegin, TailPoll
  <1>3. call'[t] = c /\ \A u \in Task \ {t} : call'[u] = call[u]
    BY <1>2, Others DEF RInv
  <1>4. ASSUME NEW u \in Task \ {t}, dropped = 0 PROVE Tailing(u)'
    BY <1>1, <1>3, <1>4 DEF RInv, Tailing, Found, In
  <1>5. CASE TailBegin(t)
    <2>1. call'[t] = [Free EXCEPT !.pc = "tail", !.op = "tail", !.seen = Len(log)]
      BY <1>5, Others DEF TailBegin, RInv
    <2>2. call'[t].seen = Len(log) /\ call'[t].owed = FALSE
      BY <2>1 DEF Free
    <2>3. Tailing(t)'
      BY <1>1, <2>2 DEF Tailing
    <2>4. missed' = missed
      BY <1>5 DEF TailBegin, history
    <2> QED BY <1>1, <1>4, <2>3, <2>4 DEF RInv
  <1>6. CASE TailPoll(t)
    <2>1. dropped = 0 => (call[t].owed => Found(t)) /\ ~missed
      BY <1>6 DEF TailPoll, RInv, Tailing
    <2>2. dropped = 0 => ~missed'
      BY <1>6, <2>1 DEF TailPoll
    <2>3. CASE Found(t)
      <3>1. call'[t] = Free
        BY <1>6, <2>3, Others DEF TailPoll, RInv
      <3>2. Tailing(t)'
        BY <3>1, Places DEF Tailing, In
      <3> QED BY <1>1, <1>4, <2>2, <3>2 DEF RInv
    <2>4. CASE ~Found(t)
      <3>1. call'[t] = [call[t] EXCEPT !.seen = Len(log)]
        BY <1>6, <2>4, Others DEF TailPoll, RInv
      <3>2. call'[t].seen = Len(log) /\ call'[t].owed = call[t].owed
        BY <3>1 DEF RInv, Typed, CallType
      <3>3. dropped = 0 => Tailing(t)'
        BY <1>1, <2>1, <2>4, <3>2 DEF Tailing
      <3> QED BY <1>1, <1>4, <2>2, <3>3 DEF RInv
    <2> QED BY <2>3, <2>4
  <1> QED BY <1>5, <1>6

\* What is read moves no tail; an entry goes to the end of the log.
LEMMA ReadRing ==
    ASSUME RInv, Typed', Read
    PROVE  RInv'
  <1>1. missed' = missed
    BY DEF Read
  <1>2. CASE \E r : Deliver(r)
    <2>1. PICK r : Deliver(r)
      BY <1>2
    <2>2. log' = log /\ dropped' = dropped
      BY <2>1 DEF Deliver
    <2>3. ASSUME NEW t \in Task
          PROVE  /\ call'[t].pc = call[t].pc
                 /\ In(t, "tail") => call'[t] = call[t]
      <3>1. call[t] \in CallType
        BY DEF RInv, Typed
      <3>2. call'[t] = IF pending[r.id] = t /\ In(t, "wait") /\ call[t].got = NoReply
                       THEN [call[t] EXCEPT !.got = r] ELSE call[t]
        BY <2>1 DEF Deliver
      <3> QED BY <3>1, <3>2 DEF In, CallType
    <2> QED BY <1>1, <2>2, <2>3 DEF RInv, Tailing, Found, In
  <1>3. CASE \E hit \in BOOLEAN : Logged(hit)
    <2>1. PICK hit \in BOOLEAN : Logged(hit)
      BY <1>3
    <2>2. CASE Len(log) < Capacity
      <3>1. /\ log' = Append(log, hit) /\ dropped' = dropped /\ Len(log) \in Nat
            /\ DOMAIN log = 1..Len(log)
        BY <2>1, <2>2, ConfigOK, LenProperties DEF Logged, Push, RInv, Typed
      <3>2. /\ Len(log') = Len(log) + 1 /\ log'[Len(log) + 1] = hit
            /\ \A k \in 1..Len(log) : log'[k] = log[k]
            /\ DOMAIN log' = 1..(Len(log) + 1)
        <4>1. log \in Seq(BOOLEAN) /\ log' \in Seq(BOOLEAN)
          BY DEF RInv, Typed
        <4> QED BY <3>1, <4>1, AppendProperties, LenProperties
      <3>3. ASSUME NEW t \in Task, dropped = 0 PROVE Tailing(t)'
        <4>1. call[t] \in CallType
          BY DEF RInv, Typed
        <4>2. call'[t] = IF hit /\ In(t, "tail") THEN [call[t] EXCEPT !.owed = TRUE] ELSE call[t]
          BY <2>1 DEF Logged
        <4>3. /\ call'[t].pc = call[t].pc /\ call'[t].seen = call[t].seen
              /\ call'[t].owed => hit \/ call[t].owed
          BY <4>1, <4>2 DEF CallType
        <4>4. SUFFICES ASSUME In(t, "tail")
                       PROVE  call[t].seen <= Len(log') /\ (call'[t].owed =>
                                \E k \in DOMAIN log' : k > call[t].seen /\ log'[k])
          BY <4>3 DEF Tailing, Found, In
        <4>5. call[t].seen <= Len(log) /\ (call[t].owed => Found(t))
          BY <3>3, <4>4 DEF RInv, Tailing
        <4>6. call[t].seen \in Nat
          BY <4>1 DEF CallType
        <4>7. CASE hit
          BY <3>1, <3>2, <4>5, <4>6, <4>7
        <4>8. CASE ~hit
          BY <3>1, <3>2, <4>3, <4>5, <4>6, <4>8 DEF Found
        <4> QED BY <4>7, <4>8
      <3> QED BY <1>1, <2>2, <3>1, <3>2, <3>3, ConfigOK DEF RInv
    <2>3. CASE ~(Len(log) < Capacity)
      <3>1. /\ Len(log) = Capacity /\ log # <<>> /\ log' = Append(Tail(log), hit)
            /\ dropped' = dropped + 1
        BY <2>1, <2>3, ConfigOK DEF Logged, Push, RInv, Typed
      <3>2. Len(log') = Capacity
        <4>1. Tail(log) \in Seq(BOOLEAN) /\ Len(Tail(log)) = Len(log) - 1
          BY <3>1, HeadTailProperties DEF RInv, Typed
        <4> QED BY <3>1, <4>1, AppendProperties, ConfigOK
      <3> QED BY <3>1, <3>2, ConfigOK DEF RInv
    <2> QED BY <2>2, <2>3
  <1>4. CASE UNCHANGED <<call, log, dropped>>
    BY <1>1, <1>4 DEF RInv, Tailing, Found, In
  <1>5. \/ \E r : Deliver(r)
        \/ \E hit \in BOOLEAN : Logged(hit)
        \/ UNCHANGED <<call, log, dropped>>
    BY DEF Read, AppStarted, Overrun
  <1> QED BY <1>2, <1>3, <1>4, <1>5

LEMMA Next_RInv == RInv /\ Typed' /\ [Next]_vars => RInv'
  <1> SUFFICES ASSUME RInv, Typed', [Next]_vars PROVE RInv'
    OBVIOUS
  <1>1. ASSUME NEW t \in Task, Calls(t) PROVE RInv'
    <2>1. CASE TailBegin(t) \/ TailPoll(t)
      BY <2>1, PollKeeps
    <2>2. CASE ~(TailBegin(t) \/ TailPoll(t))
      BY <1>1, <2>2, CallsElsewhere, ElsewhereKeeps DEF RInv
    <2> QED BY <2>1, <2>2
  <1>2. CASE ReadEof \/ Daemon \/ UNCHANGED vars
    <2>1. UNCHANGED <<call, log, dropped, missed>>
      BY <1>2 DEF ReadEof, Daemon, Answers, Reports, Says, Dies, Hangs, vars, client, history
    <2> QED BY <2>1 DEF RInv, Tailing, Found, In
  <1> QED BY <1>1, <1>2, ReadRing DEF Next

LEMMA Init_RInv == Init => RInv
  <1> SUFFICES ASSUME Init PROVE RInv
    OBVIOUS
  <1>1. \A t \in Task : ~In(t, "tail")
    BY Places DEF Init, In
  <1>2. Typed
    BY Init_IInv DEF IInv
  <1> QED BY <1>1, <1>2, ConfigOK DEF Init, RInv, Tailing

(* As long as the ring has dropped nothing, a poll of tail_log finds an     *)
(* entry that came while the tail ran, however many calls and tails there   *)
(* are and however long the ring is.                                        *)
THEOREM TailsFind == Spec => []TailFinds
  <1>1. RInv => TailFinds
    BY DEF RInv, TailFinds
  <1>2. IInv => Typed
    BY DEF IInv
  <1> QED BY Inductive, Init_RInv, Next_RInv, <1>1, <1>2, PTL DEF Spec, Safety

=============================================================================
