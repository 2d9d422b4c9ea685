--------------------------- MODULE MCPlanExecutor ---------------------------
(***************************************************************************)
(* Instances of PlanExecutor: the templates of examples/templates, and     *)
(* plans a user may get wrong.                                             *)
(***************************************************************************)
EXTENDS PlanExecutor

P(name) ==
  [phase |-> name, driver |-> "none", target |-> TRUE, planned |-> "none",
   package |-> TRUE, project |-> TRUE, waits |-> FALSE, marker |-> FALSE, capture |-> <<>>]
Driven(name, kind) == [P(name) EXCEPT !.driver = kind]
Kept(phase, tools) == [phase EXCEPT !.capture = tools]

PreFlight == P("PRE_FLIGHT")
Clean == P("CLEAN")
Launched == [P("LAUNCHED") EXCEPT !.waits = TRUE]
Evidence == <<"take_screenshot", "read_logs">>
Test == Kept(Driven("UNDER_TEST", "patrol_test"), Evidence)
Reload == Kept(P("HOT_RELOAD"), <<"read_debug_log", "take_screenshot">>)
Gate(name, planned) == [Driven(name, "patrol_test") EXCEPT !.planned = planned]

Smoke == <<PreFlight, Clean, Launched>>
FlutterTest == Smoke \o <<Kept(Driven("UNDER_TEST", "flutter_test"), Evidence)>>
ArAnchor == Smoke \o <<Gate("PERM_CAMERA_GATE", "accept"), Test>>
UmpDecline == Smoke \o <<Gate("UMP_GATE", "decline"), Kept(P("VERDICT_DECLINED"), Evidence)>>
DevIteration ==
  <<P("OPEN_IDE"), PreFlight, Clean, P("DEV_SESSION_START"), Reload,
    Kept(Driven("UNDER_TEST", "flutter_test"), Evidence), P("DEV_SESSION_STOP")>>
ArDevLoop ==
  <<P("OPEN_IDE"), PreFlight, Clean, P("DEV_SESSION_START"), Reload,
    Gate("AR_PERMISSION_GATE", "accept"),
    [Kept(P("AR_SCENE_READY"), <<"take_screenshot">>) EXCEPT !.marker = TRUE],
    Test, P("DEV_SESSION_STOP")>>

\* A phase twice, a test without a driver, without a target, without a
\* project, a package that is missing, a phase nobody knows, a verdict stated.
Templates == {Smoke, FlutterTest, ArAnchor, UmpDecline, DevIteration, ArDevLoop}
EveryPlan == Templates \cup
  {<<PreFlight, Test, Reload, Test>>,
   <<P("DEV_SESSION_START"), Reload, Reload, Driven("UNDER_TEST", "tap_text"), Reload>>,
   <<PreFlight, P("UNDER_TEST")>>,
   <<PreFlight, [Test EXCEPT !.target = FALSE], P("DEV_SESSION_STOP")>>,
   <<PreFlight, [Test EXCEPT !.project = FALSE]>>,
   <<[Clean EXCEPT !.package = FALSE], Launched, Test>>,
   <<PreFlight, P("REPORT")>>,
   <<PreFlight, Kept(P("VERDICT_BLOCKED"), Evidence), Launched>>,
   <<Launched, Driven("UMP_GATE", "noop"), Driven("UNDER_TEST", "no_such_kind"), Test>>,
   <<Reload, P("DEV_SESSION_START")>>}

=============================================================================
