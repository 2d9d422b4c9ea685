---------------------------- MODULE PlanExecutor ----------------------------
(***************************************************************************)
(* The interpreter of declarative test plans                               *)
(* (data/repositories/yaml_plan_executor.py) and the check a plan can pass *)
(* before it is run (domain/usecases/plan.py). A phase turns into calls of *)
(* tools; the first call that fails fails the phase. A failed phase of     *)
(* some kinds is tried again; a phase that stays failed blocks the plan,   *)
(* and a phase planned to decline ends it.                                 *)
(*                                                                         *)
(* A phase is what the executor reads of it: its name, the kind of its     *)
(* driver and whether the driver has a target, the planned outcome,        *)
(* whether a package and a project are known (the project of the phase or  *)
(* of the plan), whether there is an element to wait for or a marker, and  *)
(* the tools that capture evidence. A tool call answers ok, an error, or   *)
(* raises.                                                                 *)
(***************************************************************************)
EXTENDS Naturals, Sequences, SequencesExt

CONSTANTS
  Plans,            \* the plans that are run, sequences of phases
  Retries           \* MCP_REFLEXION_RETRIES

Phases ==
  [phase : STRING, driver : STRING, target : BOOLEAN, planned : STRING, package : BOOLEAN,
   project : BOOLEAN, waits : BOOLEAN, marker : BOOLEAN, capture : Seq(STRING)]

ASSUME RetriesAssumption == Retries \in Nat
ASSUME PlansAssumption == \A p \in Plans : p \in Seq(Phases)

VARIABLES
  plan,             \* the plan that runs
  at,               \* the index of the phase it is at
  stage,            \* "next" | "calling" | "capturing"
  todo,             \* the tools the phase has still to call
  attempt,          \* 0, or the number of the retry
  terminal,         \* the plan reached a terminal state
  outcomes,         \* what the run reports, in order
  ended             \* history: how each phase went, "ok" | "late" | "failed" |
                    \* "skipped", where late is ok at the second retry or after

vars == <<plan, at, stage, todo, attempt, terminal, outcomes, ended>>

TerminalPhases == {"VERDICT_DECLINED", "VERDICT_BLOCKED", "REPORT"}
IsGate(name) ==                                  \* names ending in _GATE
  name \in {"UMP_GATE", "PERM_CAMERA_GATE", "AR_PERMISSION_GATE"}
Retryable(name) == name \in {"UNDER_TEST", "HOT_RELOAD"} \/ IsGate(name)
Drives(name) == name = "UNDER_TEST" \/ IsGate(name)

----------------------------------------------------------------------------
\* The tool a driver calls; noop calls none.
DriverTool ==
  [patrol_test |-> <<"run_patrol_test">>, flutter_test |-> <<"run_integration_tests">>,
   tap_text |-> <<"tap_text">>, dev_session_action |-> <<"call_service_extension">>,
   read_debug_log |-> <<"read_debug_log">>, noop |-> <<>>]

If(holds, calls) == IF holds THEN calls ELSE <<>>

\* The calls of a phase, each of which must succeed.
PreparationCalls(p) ==
  CASE p.phase = "PRE_FLIGHT" -> <<"check_environment", "new_session">>
    [] p.phase = "CLEAN" -> <<"prepare_for_test">>
    [] p.phase = "LAUNCHED" -> <<"launch_app">> \o If(p.waits, <<"wait_for_element">>)

SessionCalls ==
  [OPEN_IDE |-> <<"open_project_in_ide">>,
   DEV_SESSION_START |-> <<"start_debug_session">>,
   HOT_RELOAD |-> <<"restart_debug_session">>,
   DEV_SESSION_STOP |-> <<"stop_debug_session">>]

SceneCalls(p) == <<"wait_for_ar_session_ready">> \o If(p.marker, <<"assert_pose_stable">>)

Calls(p) ==
  CASE p.phase \in {"PRE_FLIGHT", "CLEAN", "LAUNCHED"} -> PreparationCalls(p)
    [] p.phase \in DOMAIN SessionCalls -> SessionCalls[p.phase]
    [] p.phase = "AR_SCENE_READY" -> SceneCalls(p)
    [] Drives(p.phase) -> DriverTool[p.driver]
    [] OTHER -> <<>>

\* The calls that keep evidence; a failure of theirs is not looked at.
Captures(p) ==
  If(p.phase \in {"HOT_RELOAD", "AR_SCENE_READY", "VERDICT_DECLINED", "VERDICT_BLOCKED"}
       \/ Drives(p.phase), p.capture)

KnownPhases ==
  {"PRE_FLIGHT", "CLEAN", "LAUNCHED", "OPEN_IDE", "DEV_SESSION_START", "HOT_RELOAD",
   "DEV_SESSION_STOP", "AR_SCENE_READY", "UNDER_TEST", "VERDICT_DECLINED", "VERDICT_BLOCKED"}

\* What fails a phase before it calls a tool.
Malformed(p) ==
  \/ p.phase \notin KnownPhases /\ ~ IsGate(p.phase)
  \/ p.phase \in {"CLEAN", "LAUNCHED"} /\ ~ p.package
  \/ p.phase \in {"OPEN_IDE", "DEV_SESSION_START"} /\ ~ p.project
  \/ /\ Drives(p.phase)
     /\ \/ p.driver \notin DOMAIN DriverTool
        \/ p.driver \in {"patrol_test", "flutter_test"} /\ ~ p.project

\* The parameter builder of run_patrol_test refuses a target that is None.
CanSucceed(p, tool) == tool = "run_patrol_test" => p.target

----------------------------------------------------------------------------
\* The check of a plan that is not run: validate_test_plan.
Prerequisites ==
  [UNDER_TEST |-> {"PRE_FLIGHT", "LAUNCHED", "DEV_SESSION_START"},
   HOT_RELOAD |-> {"DEV_SESSION_START"},
   DEV_SESSION_STOP |-> {"DEV_SESSION_START"},
   AR_SCENE_READY |-> {"LAUNCHED", "DEV_SESSION_START"}]

Needs(name) == name \in DOMAIN Prerequisites

Validates(phases) ==
  /\ phases # <<>>
  /\ \A i \in DOMAIN phases :
       /\ Needs(phases[i].phase) =>
            \E j \in 1..(i - 1) : phases[j].phase \in Prerequisites[phases[i].phase]
       /\ phases[i].phase = "UNDER_TEST" => phases[i].driver # "none"

----------------------------------------------------------------------------
\* What the run reports of an attempt.
Outcome(name, good, actual) == [phase |-> name, ok |-> good, actual |-> actual]

\* A recovered phase: its most recent failure that is not marked yet is.
MarkRecovered(run, name) ==
  LET failed == {i \in DOMAIN run : /\ run[i].phase = name /\ ~ run[i].ok
                                    /\ run[i].actual # "recovered"}
      last == CHOOSE i \in failed : \A j \in failed : j <= i
  IN  [run EXCEPT ![last].actual = "recovered"]

\* Mutant: a phase that recovered once is forgiven wherever it occurs.
OverallOk_forgiving(run) ==
  \A i \in DOMAIN run :
    \/ run[i].ok \/ run[i].phase = "VERDICT_BLOCKED"
    \/ \E j \in DOMAIN run : run[j].phase = run[i].phase /\ run[j].actual = "recovered"

OverallOk(run) ==
  \A i \in DOMAIN run :
    run[i].phase # "VERDICT_BLOCKED" /\ run[i].actual # "recovered" => run[i].ok

Phase == plan[at]
Done == at > Len(plan)

Advance == at' = at + 1 /\ stage' = "next" /\ todo' = <<>> /\ attempt' = 0

\* After a terminal state a phase is reported and not run.
Skip ==
  /\ stage = "next" /\ ~ Done /\ terminal
  /\ outcomes' = Append(outcomes, Outcome(Phase.phase, FALSE, "skipped"))
  /\ ended' = Append(ended, "skipped")
  /\ Advance
  /\ UNCHANGED <<plan, terminal>>

\* Mutant: a blocked plan goes on.
Fail_on ==
  LET run == Append(outcomes, Outcome(Phase.phase, FALSE, "failed"))
  IN  IF Retryable(Phase.phase) /\ attempt < Retries
      THEN /\ outcomes' = Append(run, Outcome("REFLECTION", TRUE, "retry"))
           /\ stage' = "next" /\ todo' = <<>> /\ attempt' = attempt + 1
           /\ UNCHANGED <<plan, at, terminal, ended>>
      ELSE /\ outcomes' = Append(run, Outcome("VERDICT_BLOCKED", FALSE, "blocked"))
           /\ ended' = Append(ended, "failed")
           /\ Advance
           /\ UNCHANGED <<plan, terminal>>

\* Mutant: a retry is neither counted nor reported.
Fail_again ==
  LET run == Append(outcomes, Outcome(Phase.phase, FALSE, "failed"))
  IN  IF Retryable(Phase.phase)
      THEN /\ stage' = "next" /\ todo' = <<>>
           /\ UNCHANGED <<plan, at, attempt, terminal, outcomes, ended>>
      ELSE /\ outcomes' = Append(run, Outcome("VERDICT_BLOCKED", FALSE, "blocked"))
           /\ ended' = Append(ended, "failed")
           /\ terminal' = TRUE
           /\ Advance
           /\ UNCHANGED plan

\* A failed attempt: another one follows when the phase may be retried, after
\* a reflection; otherwise the plan is blocked.
Fail ==
  LET run == Append(outcomes, Outcome(Phase.phase, FALSE, "failed"))
  IN  IF Retryable(Phase.phase) /\ attempt < Retries
      THEN /\ outcomes' = Append(run, Outcome("REFLECTION", TRUE, "retry"))
           /\ stage' = "next" /\ todo' = <<>> /\ attempt' = attempt + 1
           /\ UNCHANGED <<plan, at, terminal, ended>>
      ELSE /\ outcomes' = Append(run, Outcome("VERDICT_BLOCKED", FALSE, "blocked"))
           /\ ended' = Append(ended, "failed")
           /\ terminal' = TRUE
           /\ Advance
           /\ UNCHANGED plan

\* An attempt that went well. Only the first one is asked whether the phase
\* ends the plan: a recovered phase goes on with the next one.
EndsPlan(p) == p.phase \in TerminalPhases \/ p.planned \in {"decline", "decided"}

Succeed ==
  LET run == Append(outcomes, Outcome(Phase.phase, TRUE, "passed"))
  IN  /\ outcomes' = IF attempt = 0 THEN run ELSE MarkRecovered(run, Phase.phase)
      /\ terminal' = (attempt = 0 /\ EndsPlan(Phase))
      /\ ended' = Append(ended, IF attempt <= 1 THEN "ok" ELSE "late")
      /\ Advance
      /\ UNCHANGED plan

Start ==
  /\ stage = "next" /\ ~ Done /\ ~ terminal
  /\ IF Malformed(Phase) THEN Fail
     ELSE /\ stage' = "calling"
          /\ todo' = Calls(Phase)
          /\ UNCHANGED <<plan, at, attempt, terminal, outcomes, ended>>

CallOk ==
  /\ stage = "calling" /\ todo # <<>>
  /\ CanSucceed(Phase, Head(todo))
  /\ todo' = Tail(todo)
  /\ UNCHANGED <<plan, at, stage, attempt, terminal, outcomes, ended>>

CallFails == stage = "calling" /\ todo # <<>> /\ Fail

BeginCaptures ==
  /\ stage = "calling" /\ todo = <<>>
  /\ stage' = "capturing"
  /\ todo' = Captures(Phase)
  /\ UNCHANGED <<plan, at, attempt, terminal, outcomes, ended>>

\* A capture that is answered, well or not.
Capture ==
  /\ stage = "capturing" /\ todo # <<>>
  /\ todo' = Tail(todo)
  /\ UNCHANGED <<plan, at, stage, attempt, terminal, outcomes, ended>>

CaptureRaises == stage = "capturing" /\ todo # <<>> /\ Fail
Finish == stage = "capturing" /\ todo = <<>> /\ Succeed

Init ==
  /\ plan \in Plans
  /\ at = 1 /\ stage = "next" /\ todo = <<>> /\ attempt = 0
  /\ terminal = FALSE
  /\ outcomes = <<>> /\ ended = <<>>

Next == Skip \/ Start \/ CallOk \/ CallFails \/ BeginCaptures \/ Capture
          \/ CaptureRaises \/ Finish
Spec == Init /\ [][Next]_vars /\ WF_vars(Next)

----------------------------------------------------------------------------
Went(i) == ended[i] \in {"ok", "late"}

\* A phase that was skipped because one before it ended the plan as planned.
Spared(i) ==
  ended[i] = "skipped" /\ \E j \in 1..(i - 1) : EndsPlan(plan[j]) /\ Went(j)

(***************************************************************************)
(* The verdict of a run is borne out by its phases, whatever failed, was   *)
(* retried and recovered on the way and however often a phase occurs (run  *)
(* in yaml_plan_executor.py). A run that passes has no phase that stayed   *)
(* failed, and none that was skipped but behind one that ends the plan; a  *)
(* verdict of blocked that the plan itself states does not count. And a    *)
(* run whose phases all went well, at once or at the first retry, passes.  *)
(* Nothing is said of the runs between the two, see the README.            *)
(***************************************************************************)
VerdictIsTrue ==
  Done =>
    /\ OverallOk(outcomes) =>
         \A i \in DOMAIN ended : plan[i].phase # "VERDICT_BLOCKED" => Went(i) \/ Spared(i)
    /\ (\A i \in DOMAIN ended : ended[i] = "ok") => OverallOk(outcomes)

(***************************************************************************)
(* A phase of a plan that validate_test_plan passes calls tools only when  *)
(* one of the phases it needs went well in this run, and not merely stands *)
(* before it in the plan: a debug session is reloaded or stopped only when *)
(* it started, an AR scene awaited only when the app was launched or a     *)
(* session started. A test may come after the pre-flight check alone.      *)
(***************************************************************************)
PrerequisiteRan ==
  Validates(plan) /\ stage = "calling" /\ Needs(Phase.phase) =>
    \E j \in 1..(at - 1) : plan[j].phase \in Prerequisites[Phase.phase] /\ Went(j)

(***************************************************************************)
(* Every run ends: the retries of a phase are limited.                     *)
(***************************************************************************)
PlanEnds == <>Done

=============================================================================
