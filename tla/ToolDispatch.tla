----------------------------- MODULE ToolDispatch -----------------------------
(***************************************************************************)
(* The dispatcher every tool call goes through (presentation/              *)
(* tool_registry.py, middleware.py), with the tools that call tools:       *)
(* `batch' and `replay_skill', and with the session trace and the skill    *)
(* library that `promote_sequence' links.                                  *)
(*                                                                         *)
(* A request is an asyncio task; it is a stack of dispatches, because a    *)
(* step of a batch or of a skill goes through the whole chain again.  In   *)
(* the code a task gives way to another one only while a use case waits    *)
(* for the device; the actions below are finer, which allows more          *)
(* interleavings and no fewer.                                             *)
(*                                                                         *)
(* A call stands for its tool and its arguments.  A plain tool is an act;  *)
(* what it does to the device is its name in `acts', a history variable.   *)
(* A batch has from 1 to 30 steps, as the code demands.                    *)
(***************************************************************************)
EXTENDS Naturals, Sequences, FiniteSets

CONSTANTS Task,          \* the requests in flight
          Act,           \* the plain tools
          Activating,    \* those that switch the Patrol guard on: prepare_for_test ...
          Deactivating,  \* those that switch it off: stop_app, release_device, new_session
          AppTap,        \* tap_text on the app: its `system' is false or converts to false
          Waved,         \* those of them whose `system' is a value Python holds for true
          Skill,         \* the names of the skill library
          Call,          \* what the agent may ask for
          MaxEntries,    \* the capacity of the trace
          MaxRequests,   \* bound: the requests the agent makes
          MaxNesting     \* bound: the dispatches nested in one request

ASSUME TaskAssumption == IsFiniteSet(Task) /\ Task # {}
ASSUME GuardAssumption == Activating \cap AppTap = {}
ASSUME EntriesAssumption == MaxEntries \in Nat

(* The calls name skills by their names; the steps of a batch are a list.   *)
Named(c) == c.tool \in {"replay", "promote"} => c.skill \in Skill
ASSUME CallAssumption ==
    \A c \in Call :
        /\ Named(c)
        /\ c.tool = "batch" =>
              /\ c.steps \in Seq({c.steps[i] : i \in DOMAIN c.steps})
              /\ \A i \in DOMAIN c.steps : Named(c.steps[i])

VARIABLES
    task,      \* task[t]: the dispatches request t is inside of, innermost first
    trace,     \* the session trace, a ring
    sequence,  \* the sequence number of its last entry
    library,   \* library[k]: the steps of skill k, <<>> when there is no such skill
    uses,      \* uses[k]: use_count and success_count of skill k
    patrol,    \* PatrolGuardMiddleware._active
    requests,  \* the requests made so far
    acts       \* the acts that succeeded, in the order they ended

vars == <<task, trace, sequence, library, uses, patrol, requests, acts>>
-----------------------------------------------------------------------------
Do(a)           == [tool |-> "act", act |-> a]
Look(at)        == [tool |-> "look", at |-> at]
Replay(k)       == [tool |-> "replay", skill |-> k]
Promote(k, all) == [tool |-> "promote", skill |-> k, only_ok |-> ~all]
Batch(steps, stop, capture) ==
    [tool |-> "batch", steps |-> steps, stop |-> stop, capture |-> capture]

(* A dispatch: the call, the steps it has yet to make, whether all of them  *)
(* went well so far, and whether the skill to replay was found.             *)
Frame(c) == [call  |-> c,
             todo  |-> CASE c.tool = "batch"  -> c.steps
                         [] c.tool = "replay" -> library[c.skill]
                         [] OTHER             -> <<>>,
             good  |-> TRUE,
             known |-> c.tool = "replay" => library[c.skill] # <<>>]

(* What a batch may call after a failed step to help the diagnosis.         *)
Diagnostics == <<Look("take_screenshot"), Look("read_logs")>>

Composite == {"batch", "replay"}

(* It looks only once a step has failed; what that yields is not a step.    *)
Diagnosis(stack, c) == c.tool = "look" /\ ~Head(stack).good

(* Mutant: a batch that goes on after a failed step forgets that it failed. *)
Deliver_forgets(stack, c, ok) ==
    IF stack = <<>> \/ ok \/ Diagnosis(stack, c) THEN stack
    ELSE LET top == Head(stack)
             goes == top.call.tool = "batch" /\ ~top.call.stop
         IN <<[top EXCEPT !.good = goes, !.todo = IF goes THEN @ ELSE <<>>]>> \o Tail(stack)

(* The outcome of call c reaches the dispatch that made it.  A failed step  *)
(* ends a replay, and a batch unless it goes on by request; a batch may     *)
(* look at the device first.                                                *)
Deliver(stack, c, ok) ==
    IF stack = <<>> \/ ok \/ Diagnosis(stack, c) THEN stack
    ELSE LET top == Head(stack)
             look == IF top.call.tool = "batch" /\ top.call.capture THEN Diagnostics ELSE <<>>
             rest == IF top.call.tool = "batch" /\ ~top.call.stop THEN top.todo ELSE <<>>
         IN <<[top EXCEPT !.good = FALSE, !.todo = look \o rest]>> \o Tail(stack)

Become(t, stack) == task' = [task EXCEPT ![t] = stack]
Top(t, tools) == task[t] # <<>> /\ Head(task[t]).call.tool \in tools
-----------------------------------------------------------------------------
Init ==
    /\ task = [t \in Task |-> <<>>]
    /\ trace = <<>>
    /\ sequence = 0
    /\ library = [k \in Skill |-> <<>>]
    /\ uses = [k \in Skill |-> [all |-> 0, won |-> 0]]
    /\ patrol = FALSE
    /\ requests = 0
    /\ acts = <<>>

(* PatrolGuardMiddleware.pre_dispatch sees the arguments before the         *)
(* coercion: the texts "false", "no" and "0" are true to it.                *)
Guarded == AppTap \ Waved

(* Mutant: the guard looks at requests only, not at the steps inside them. *)
Refused_requestsOnly(c, stack) ==
    stack = <<>> /\ patrol /\ c.tool = "act" /\ c.act \in Guarded

Refused(c, stack) == patrol /\ c.tool = "act" /\ c.act \in Guarded

(* The pre-dispatch hooks.  The rate limiter may refuse any call (see       *)
(* RateLimiter); a refusal does not reach the trace.                        *)
Begin(t, stack, c) ==
    /\ Len(stack) < MaxNesting
    /\ \/ Become(t, Deliver(stack, c, FALSE))
       \/ ~Refused(c, stack) /\ Become(t, <<Frame(c)>> \o stack)

Request(t, c) ==
    /\ task[t] = <<>>
    /\ requests < MaxRequests
    /\ requests' = requests + 1
    /\ Begin(t, <<>>, c)
    /\ UNCHANGED <<trace, sequence, library, uses, patrol, acts>>

(* The next step of a batch or a replay.  A batch refuses a batch.          *)
Step(t) ==
    /\ Top(t, Composite)
    /\ LET top == Head(task[t]) IN
       /\ top.todo # <<>>
       /\ LET c == Head(top.todo)
              stack == <<[top EXCEPT !.todo = Tail(@)]>> \o Tail(task[t])
          IN IF top.call.tool = "batch" /\ c.tool = "batch"
             THEN Become(t, Deliver(stack, c, FALSE))
             ELSE Begin(t, stack, c)
    /\ UNCHANGED <<trace, sequence, library, uses, patrol, requests, acts>>

(* The post-dispatch hooks of the innermost dispatch: it is recorded, and   *)
(* its outcome goes to the dispatch that made it.                           *)
Finish(t, ok) ==
    LET c == Head(task[t]).call
        entries == Append(trace, [seq |-> sequence + 1, call |-> c, ok |-> ok])
    IN /\ sequence' = sequence + 1
       /\ trace' = IF Len(entries) > MaxEntries THEN Tail(entries) ELSE entries
       /\ Become(t, Deliver(Tail(task[t]), c, ok))

(* A plain tool answers; the guard follows the ones that succeeded.         *)
Answer(t, ok) ==
    /\ Top(t, {"act"})
    /\ LET a == Head(task[t]).call.act IN
       /\ acts' = IF ok THEN Append(acts, a) ELSE acts
       /\ patrol' = (IF ok /\ a \in Activating THEN TRUE
                     ELSE IF ok /\ a \in Deactivating THEN FALSE ELSE patrol)
    /\ Finish(t, ok)
    /\ UNCHANGED <<library, uses, requests>>

Looked(t, ok) ==
    /\ Top(t, {"look"})
    /\ Finish(t, ok)
    /\ UNCHANGED <<library, uses, patrol, requests, acts>>

(* An exception no handler expects, or a cancelled request: no post hook    *)
(* runs, at any level.                                                      *)
Raise(t) ==
    /\ Top(t, {"act", "look"})
    /\ Become(t, <<>>)
    /\ UNCHANGED <<trace, sequence, library, uses, patrol, requests, acts>>

(* Mutant: failed calls are promoted although only_ok is set. *)
Wanted_all(c, e) == TRUE

(* only_ok leaves out the calls that failed.                                *)
Wanted(c, e) == c.only_ok => e.ok

(* promote_sequence leaves out the tools that work on the library.          *)
Promotable(e) == e.call.tool \notin {"promote", "replay"}

(* The elements of s that are in S, in their order.                         *)
Only(s, S) ==
    LET only[n \in 0 .. Len(s)] ==
            IF n = 0 THEN <<>>
            ELSE IF s[n] \in S THEN Append(only[n - 1], s[n]) ELSE only[n - 1]
    IN only[Len(s)]
Calls(entries) == [i \in DOMAIN entries |-> entries[i].call]
Eligible(c, e) == Promotable(e) /\ Wanted(c, e)

(* The window from_sequence .. to_sequence is the whole trace.              *)
PromoteSequence(t) ==
    /\ Top(t, {"promote"})
    /\ LET c == Head(task[t]).call
           kept == Only(trace, {trace[i] : i \in {i \in DOMAIN trace : Eligible(c, trace[i])}})
       IN /\ IF kept = <<>>
             THEN UNCHANGED <<library, uses>>
             ELSE /\ library' = [library EXCEPT ![c.skill] = Calls(kept)]
                  /\ uses' = [uses EXCEPT ![c.skill] = [all |-> 0, won |-> 0]]
          /\ Finish(t, kept # <<>>)
    /\ UNCHANGED <<patrol, requests, acts>>

(* The steps are done.  A batch answers whether all went well; a replay     *)
(* answers ok and keeps its verdict for the record of the skill.            *)
Complete(t) ==
    /\ Top(t, Composite)
    /\ LET top == Head(task[t])
           k == top.call.skill
       IN /\ top.todo = <<>>
          /\ \/ /\ top.call.tool = "batch"
                /\ Finish(t, top.good)
                /\ UNCHANGED uses
             \/ /\ top.call.tool = "replay"
                /\ Finish(t, top.known)
                /\ IF top.known /\ library[k] # <<>>
                   THEN uses' = [uses EXCEPT ![k].all = @ + 1,
                                             ![k].won = IF top.good THEN @ + 1 ELSE @]
                   ELSE UNCHANGED uses
    /\ UNCHANGED <<library, patrol, requests, acts>>

Progress(t) ==
    \/ Step(t) \/ PromoteSequence(t) \/ Complete(t) \/ Raise(t)
    \/ \E ok \in BOOLEAN : Answer(t, ok) \/ Looked(t, ok)

Next == \E t \in Task : Progress(t) \/ \E c \in Call : Request(t, c)

Spec == Init /\ [][Next]_vars

-----------------------------------------------------------------------------
(* What the trace says of a batch is true: before the entry of a batch that *)
(* is ok stand entries of all its steps, ok and in their order.             *)
BatchHonest ==
    sequence <= MaxEntries =>
        \A i \in DOMAIN trace :
            LET e == trace[i] IN
            e.call.tool = "batch" /\ e.ok =>
                \E at \in [DOMAIN e.call.steps -> 1 .. i - 1] :
                    /\ \A m, n \in DOMAIN at : m < n => at[m] < at[n]
                    /\ \A m \in DOMAIN at : trace[at[m]].ok /\ trace[at[m]].call = e.call.steps[m]

(* A skill promoted from the successful entries of a trace with no batch in *)
(* it does to the device what had been done, once and in that order,        *)
(* replays and overlapping requests included.  (With a batch in the trace   *)
(* the skill does the steps of the batch twice.)                            *)
ActsAmong(calls) == Only(calls, {calls[i] : i \in {i \in DOMAIN calls : calls[i].tool = "act"}})
Effect(calls) == [i \in DOMAIN ActsAmong(calls) |-> ActsAmong(calls)[i].act]
Repeats ==
    \A k \in Skill : \A t \in Task :
        /\ library'[k] # library[k] /\ sequence <= MaxEntries
        /\ Top(t, {"promote"}) /\ Head(task[t]).call.only_ok /\ task[t] # task'[t]
        /\ \A i \in DOMAIN trace : trace[i].call.tool # "batch"
        => Effect(library'[k]) = acts
FlowKept == [][Repeats]_vars

(* Replays nest in nothing but the request, and batches in replays, as long *)
(* as the agent puts no replay into a batch.  (A batch that replays a skill *)
(* may be promoted into that skill: promote_sequence leaves out replays,    *)
(* but does not look into a batch.)                                         *)
NestingBound == \A t \in Task : Len(task[t]) <= 3

(* The Patrol guard against overlapping requests: as long as it stays on    *)
(* there succeed at most the taps that were in flight when it was switched  *)
(* on, one of each other request, however the taps are nested. That is said *)
(* of the taps the guard knows; those of Waved pass it at any time, from a  *)
(* batch, a skill or the HTTP adapter, where nothing checks the schema.     *)
SinceOn == {i \in DOMAIN acts :
              \E j \in 1 .. i : /\ acts[j] \in Activating
                               /\ \A m \in j .. Len(acts) : acts[m] \notin Deactivating}
TapsInFlight == Cardinality({i \in SinceOn : acts[i] \in Guarded}) < Cardinality(Task)
=============================================================================
