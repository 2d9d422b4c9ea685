----------------------------- MODULE TestPaths -----------------------------
(***************************************************************************)
(* The test paths recommend_test_path advises for a context                *)
(* (domain/usecases/recommend_test_path.py): sequences of tool calls with  *)
(* their arguments, the values of which are as in ToolCalls. The serial of *)
(* a device and the size baseline are arguments of the advice that may be  *)
(* missing. A step that proposes scenarios carries the focus and the       *)
(* number it asks for. Reasons, estimates and the texts of the result are  *)
(* left out; optional steps are taken.                                     *)
(***************************************************************************)
EXTENDS ToolCalls, Sequences, SequencesExt

Step(name, given) == [tool |-> name, args |-> given, asks |-> <<>>]
Asks(step, focus, top) == [step EXCEPT !.asks = <<[focus |-> focus, top |-> top]>>]

None == <<>>
Some == Str("word")
Few == Num("1")
Project == [project_path |-> Some]
Package == [package_id |-> Some]
Label == [label |-> Some]
Serial(device) == IF device THEN [serial |-> Some] ELSE None
Baseline(known) == IF known THEN [baseline_json_path |-> Some] ELSE None
ProposalArgs(focused) ==
  Project @@ [top_n |-> Few] @@ (IF focused THEN [focus_areas |-> List("word")] ELSE None)

PreCommit ==
  <<Step("dart_analyze", Project),
    Step("dart_format", Project @@ [check_only |-> Bool(TRUE)]),
    Step("run_widget_test", Project),
    Step("list_missing_widget_keys", Project)>>

\* Mutant: the device is not given back.
PrePr_held(device) ==
  <<Step("check_environment", None),
    Step("select_device", Serial(device)),
    Step("quality_gate", Project),
    Step("run_integration_tests", Project @@ Serial(device)),
    Step("audit_accessibility", Serial(device))>>

PrePr(device) ==
  <<Step("check_environment", None),
    Step("select_device", Serial(device)),
    Step("quality_gate", Project),
    Step("test_coverage_report", Project @@ [fail_under |-> Dec("1")]),
    Step("run_integration_tests", Project @@ Serial(device)),
    Step("audit_accessibility", Serial(device)),
    Step("release_device", Serial(device))>>

DailyDev(device) ==
  <<Step("mcp_ping", None),
    Step("select_device", Serial(device)),
    Step("new_session", None),
    Step("prepare_for_test", Serial(device)),
    Asks(Step("propose_test_scenarios", ProposalArgs(TRUE)), {"happy_path"}, 3),
    Step("start_debug_session", Project @@ Serial(device)),
    Step("memory_summary", None),
    Step("allocation_profile", [reset_accumulator |-> Bool(TRUE)]),
    Step("start_frame_profile", None),
    Step("stop_frame_profile", [target_fps |-> Few]),
    Step("detect_undisposed_controllers", None),
    Step("assert_no_errors_since", [since_s |-> Few]),
    Step("summarize_session", None),
    Step("stop_debug_session", None),
    Step("release_device", Serial(device))>>

Nightly(known) ==
  <<Step("check_environment", None),
    Asks(Step("propose_test_scenarios", ProposalArgs(FALSE)), {}, 50),
    Step("list_avds", None),
    Step("list_simulators", None),
    Step("build_app", Project @@ [mode |-> Str("release")]),
    Step("analyze_app_size", Project @@ [platform |-> Str("apk")] @@ Baseline(known)),
    Step("run_test_plan", [plan_path |-> Some]),
    Step("audit_accessibility", None),
    Step("disk_usage", None),
    Step("prune_originals", [older_than_days |-> Few, dry_run |-> Bool(FALSE)]),
    Step("summarize_session", None)>>

PreRelease(known) ==
  <<Step("check_environment", None),
    Step("quality_gate", Project),
    Step("test_coverage_report", Project @@ [fail_under |-> Dec("1")]),
    Step("build_app", Project @@ [mode |-> Str("release")]),
    Step("analyze_app_size", Project @@ Baseline(known)),
    Asks(Step("propose_test_scenarios", ProposalArgs(TRUE)),
         {"happy_path", "permission", "network", "lifecycle", "security"}, 20),
    Step("run_test_plan", [plan_path |-> Some]),
    Step("audit_accessibility", None),
    Step("memory_summary", None),
    Step("detect_undisposed_controllers", None),
    Step("capture_release_screenshot", Project),
    Step("session_summary", None)>>

Hotfix(device) ==
  <<Step("mcp_ping", None),
    Step("dart_analyze", Project),
    Step("run_widget_test", Project),
    Step("select_device", Serial(device)),
    Step("clear_app_data", Package),
    Step("launch_app", Package),
    Step("tap_and_verify", [text |-> Some]),
    Step("assert_no_errors_since", [since_s |-> Few]),
    Step("take_screenshot", Label),
    Step("release_device", Serial(device))>>

Postmortem(device) ==
  <<Step("check_environment", None),
    Step("new_session", None),
    Step("select_device", Serial(device)),
    Step("clear_app_data", Package),
    Step("start_debug_session", Project @@ Serial(device)),
    Step("start_frame_profile", None),
    Step("stop_frame_profile", [target_fps |-> Few]),
    Step("memory_summary", None),
    Step("read_debug_log", [since_s |-> Few]),
    Step("dump_widget_tree", None),
    Step("take_screenshot", Label),
    Step("session_summary", None)>>

Paths(device, known) ==
  [pre_commit |-> PreCommit, pre_pr |-> PrePr(device), daily_dev |-> DailyDev(device),
   nightly |-> Nightly(known), pre_release |-> PreRelease(known), hotfix |-> Hotfix(device),
   postmortem |-> Postmortem(device)]

=============================================================================
