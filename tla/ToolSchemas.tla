---------------------------- MODULE ToolSchemas ----------------------------
(***************************************************************************)
(* What the registry advertises of each tool: the arguments its input      *)
(* schema declares, with their JSON type, the options of an enumeration    *)
(* and whether the schema requires them (build_registry in                 *)
(* presentation/tool_registry.py, the helpers in descriptors/_shared.py).  *)
(* A tool is a record from the names of its arguments to their types; the  *)
(* tool without arguments is the empty record. Texts of descriptions and   *)
(* examples are left out. No schema lets an argument in that it does not   *)
(* name (additionalProperties is False).                                   *)
(***************************************************************************)
EXTENDS TLC

Declared(type) ==
  [type |-> type, options |-> {}, items |-> "any", least |-> 0, required |-> FALSE]
Text == Declared("string")
Whole == Declared("integer")
Number == Declared("number")
Flag == Declared("boolean")
ManyOf(type) == [Declared("array") EXCEPT !.items = type]
AtLeast(n, declared) == [declared EXCEPT !.least = n]      \* minItems
Mapping == Declared("object")
Choice(options) == [Text EXCEPT !.options = options]
Must(declared) == [declared EXCEPT !.required = TRUE]

Modes == {"debug", "profile", "release"}
Levels == {"junior", "mid", "senior", "staff"}
TestHosts == {"auto", "vm", "chrome"}
Scopes == {"skill", "docs", "code", "trace", "all"}
Profiles == {"claude", "default", "haiku", "llava", "qwen2.5-14b", "qwen2.5-7b"}
Contexts ==
  {"pre_commit", "pre_pr", "daily_dev", "nightly", "pre_release", "hotfix", "postmortem"}
FeatureKinds == {"auth", "form", "list", "detail", "payment", "settings",
                 "onboarding", "navigation", "generic"}
Markers == {"DICT_4X4_50", "DICT_5X5_50", "DICT_6X6_250", "DICT_ARUCO_ORIGINAL"}

\* Server, profile, housekeeping.
ServerTools ==
  [check_environment |-> <<>>,
   describe_capabilities |-> [level |-> Choice({"basic", "intermediate", "expert"})],
   describe_tool |-> [name |-> Must(Text)],
   mcp_ping |-> <<>>,
   set_agent_profile |->
      [name |-> Must(Choice(Profiles))],
   notify_webhook |-> [url |-> Must(Text), event |-> Must(Text), payload |-> Mapping,
      auth_bearer |-> Text, auth_header_name |-> Text, auth_header_value |-> Text,
      timeout_s |-> Number],
   disk_usage |-> <<>>,
   prune_originals |-> [older_than_days |-> Whole, dry_run |-> Flag]]

\* Images, the session, preparation and plans.
SessionTools ==
  [compress_png |-> [path |-> Must(Text), max_dim |-> Whole],
   inspect_image_safety |-> [path |-> Must(Text)],
   session_summary |-> [session_id |-> Text],
   tool_usage_report |-> [session_id |-> Text, top_n |-> Whole],
   prepare_for_test |-> [package_id |-> Must(Text), skip_clear |-> Flag,
      capture_evidence |-> Flag, serial |-> Text],
   run_test_plan |-> [plan_path |-> Text, plan_yaml |-> Text],
   batch |-> [steps |-> Must(ManyOf("object")), stop_on_error |-> Flag,
      capture_on_failure |-> Flag]]

\* Plans without a run, projects, devices and their locks.
DeviceTools ==
  [validate_test_plan |-> [plan_path |-> Text, plan_yaml |-> Text],
   inspect_project |-> [project_path |-> Must(Text)],
   list_devices |-> <<>>,
   select_device |-> [serial |-> Must(Text), force |-> Flag, note |-> Text],
   get_selected_device |-> <<>>,
   release_device |-> [serial |-> Text],
   list_locks |-> <<>>,
   force_release_lock |-> [serial |-> Must(Text)]]

\* Building, installing and starting an app.
AppTools ==
  [build_app |-> [project_path |-> Must(Text), mode |-> Choice(Modes),
      platform |-> Choice({"android", "ios"}), flavor |-> Text],
   install_app |-> [bundle_path |-> Text, apk_path |-> Text, project_path |-> Text,
      mode |-> Choice(Modes), platform |-> Choice({"android", "ios"}), flavor |-> Text,
      serial |-> Text],
   uninstall_app |-> [package_id |-> Must(Text), serial |-> Text],
   launch_app |-> [package_id |-> Must(Text), activity |-> Text, serial |-> Text],
   stop_app |-> [package_id |-> Must(Text), serial |-> Text],
   clear_app_data |-> [package_id |-> Must(Text), serial |-> Text],
   grant_permission |-> [package_id |-> Must(Text), permission |-> Must(Text),
      serial |-> Text]]

\* Acting on the screen and waiting for it.
UiInputTools ==
  [tap |-> [x |-> Whole, y |-> Whole, resource_id |-> Text, text |-> Text,
      class_name |-> Text, bounds |-> Text, exact |-> Flag, timeout_s |-> Number,
      serial |-> Text],
   tap_text |-> [text |-> Must(Text), exact |-> Flag, serial |-> Text],
   swipe |-> [x1 |-> Must(Whole), y1 |-> Must(Whole), x2 |-> Must(Whole), y2 |-> Must(Whole),
      duration_ms |-> Whole, serial |-> Text],
   type_text |-> [text |-> Must(Text), serial |-> Text],
   press_key |-> [keycode |-> Must(Text), serial |-> Text],
   find_element |-> [text |-> Text, resource_id |-> Text, class_name |-> Text,
      timeout_s |-> Number, serial |-> Text],
   wait_for_element |-> [text |-> Text, resource_id |-> Text, timeout_s |-> Number,
      serial |-> Text],
   wait_until |-> [text |-> Text, resource_id |-> Text, gone |-> Flag, timeout_s |-> Number,
      poll_interval_s |-> Number, serial |-> Text]]

\* Looking at the screen.
UiCheckTools ==
  [dump_ui |-> [serial |-> Text],
   assert_visible |-> [text |-> Text, resource_id |-> Text, timeout_s |-> Number,
      serial |-> Text],
   tap_and_verify |-> [text |-> Must(Text), expect_text |-> Text, expect_resource_id |-> Text,
      timeout_s |-> Number, exact |-> Flag, serial |-> Text],
   assert_no_errors_since |-> [since_s |-> Whole, tag |-> Text, serial |-> Text],
   extract_ui_graph |-> [max_nodes |-> Whole, serial |-> Text],
   ocr_screenshot |-> [path |-> Must(Text), languages |-> ManyOf("string"),
      min_confidence |-> Number],
   take_screenshot |-> [label |-> Text, serial |-> Text]]

\* Screenshots, recordings, logs.
CaptureTools ==
  [zoom_screenshot |-> [region |-> Must(AtLeast(4, ManyOf("integer"))), scale |-> Number,
      path |-> Text,
      label |-> Text, serial |-> Text],
   capture_release_screenshot |-> [label |-> Must(Text), thumbnail_long_edge |-> Whole,
      serial |-> Text],
   start_recording |-> [label |-> Text, serial |-> Text],
   stop_recording |-> [serial |-> Text],
   read_logs |-> [since_s |-> Whole, tag |-> Text,
      min_level |-> Choice({"V", "D", "I", "W", "E", "F"}), max_lines |-> Whole,
      serial |-> Text],
   tail_logs |-> [until_pattern |-> Must(Text), tag |-> Text, timeout_s |-> Number,
      serial |-> Text]]

\* Test runs on the host and on a device.
TestRunTools ==
  [run_unit_tests |-> [project_path |-> Must(Text), platform |-> Choice(TestHosts)],
   run_integration_tests |-> [project_path |-> Must(Text), test_path |-> Text,
      serial |-> Text],
   list_patrol_tests |-> [project_path |-> Must(Text)],
   run_patrol_test |-> [project_path |-> Must(Text), test_path |-> Must(Text),
      flavor |-> Text, build_mode |-> Choice(Modes), platform |-> Choice({"mobile", "web"}),
      ci |-> Flag, tags |-> Text, exclude_tags |-> Text, junit_path |-> Text,
      serial |-> Text],
   run_patrol_suite |-> [project_path |-> Must(Text), test_dir |-> Text, flavor |-> Text,
      build_mode |-> Choice(Modes), platform |-> Choice({"mobile", "web"}), ci |-> Flag,
      tags |-> Text, exclude_tags |-> Text, junit_path |-> Text, serial |-> Text]]

\* Golden images, markers, virtual devices.
VisionTools ==
  [compare_screenshot |-> [actual_path |-> Must(Text), golden_path |-> Must(Text),
      tolerance |-> Number, diff_output_path |-> Text],
   detect_markers |-> [image_path |-> Must(Text), dictionary |-> Choice(Markers)],
   infer_camera_pose |-> [image_path |-> Must(Text), marker_id |-> Must(Whole),
      marker_size_m |-> Must(Number)],
   wait_for_marker |-> [marker_id |-> Must(Whole), timeout_s |-> Number,
      poll_interval_s |-> Number, dictionary |-> Choice(Markers), serial |-> Text],
   list_avds |-> <<>>,
   start_emulator |-> [avd_name |-> Must(Text), headless |-> Flag],
   list_simulators |-> [include_shutdown |-> Flag],
   boot_simulator |-> [name_or_udid |-> Must(Text)],
   stop_virtual_device |-> [serial |-> Must(Text)]]

\* Debug sessions of an app.
DebugTools ==
  [start_debug_session |-> [project_path |-> Must(Text), mode |-> Choice(Modes),
      flavor |-> Text, target |-> Text, serial |-> Text],
   stop_debug_session |-> [session_id |-> Text],
   restart_debug_session |-> [session_id |-> Text, full_restart |-> Flag],
   list_debug_sessions |-> <<>>,
   attach_debug_session |-> [vm_service_uri |-> Must(Text), project_path |-> Must(Text)],
   read_debug_log |-> [session_id |-> Text, since_s |-> Whole,
      level |-> Choice({"all", "info", "warning", "error", "progress"}), max_lines |-> Whole],
   tail_debug_log |-> [until_pattern |-> Must(Text), session_id |-> Text,
      timeout_s |-> Number],
   call_service_extension |-> [method |-> Must(Text), args |-> Mapping, session_id |-> Text],
   dump_widget_tree |-> [session_id |-> Text]]

\* Inspector, IDE windows, the build of WebDriverAgent.
IdeTools ==
  [dump_render_tree |-> [session_id |-> Text],
   toggle_inspector |-> [enabled |-> Must(Flag), session_id |-> Text],
   open_project_in_ide |-> [project_path |-> Must(Text), ide |-> Choice({"vscode"}),
      new_window |-> Flag],
   list_ide_windows |-> <<>>,
   close_ide_window |-> [project_path |-> Text, window_id |-> Text],
   focus_ide_window |-> [project_path |-> Must(Text)],
   is_ide_available |-> [ide |-> Choice({"vscode"})],
   write_vscode_launch_config |-> [project_path |-> Must(Text), flavor |-> Text,
      target |-> Text, debug_mode |-> Choice(Modes), overwrite |-> Flag],
   setup_webdriveragent |-> [udid |-> Must(Text), wda_dir |-> Text, repo_url |-> Text,
      scheme |-> Text, skip_if_built |-> Flag, team_id |-> Text, is_simulator |-> Flag]]

\* WebDriverAgent and the dart tools.
WdaTools ==
  [start_wda_on_simulator |-> [udid |-> Must(Text), port |-> Whole, wda_dir |-> Text,
      scheme |-> Text, ready_timeout_s |-> Number],
   start_wda_on_device |-> [udid |-> Must(Text), port |-> Whole, wda_dir |-> Text,
      scheme |-> Text, team_id |-> Text, ready_timeout_s |-> Number],
   dart_analyze |-> [project_path |-> Must(Text),
      min_severity |-> Choice({"info", "warning", "error"})],
   dart_format |-> [target_path |-> Must(Text), dry_run |-> Flag],
   dart_fix |-> [project_path |-> Must(Text), apply |-> Flag],
   flutter_pub_get |-> [project_path |-> Must(Text)],
   flutter_pub_outdated |-> [project_path |-> Must(Text)]]

\* Gate, patch, scaffolds, logs.
QualityTools ==
  [quality_gate |-> [project_path |-> Must(Text), require_format_clean |-> Flag,
      run_unit_tests |-> Flag],
   patch_apply_safe |-> [project_path |-> Must(Text), diff |-> Must(Text), skip_gate |-> Flag,
      force |-> Flag],
   narrate |-> [envelope |-> Must(Mapping), tool |-> Text],
   scaffold_feature |-> [project_path |-> Must(Text), feature_name |-> Must(Text),
      overwrite |-> Flag],
   scaffold_patrol_test |-> [project_path |-> Must(Text), test_name |-> Text,
      root_widget |-> Text, overwrite |-> Flag],
   run_quick_check |-> [project_path |-> Must(Text)],
   grep_logs |-> [path |-> Must(Text), pattern |-> Must(Text), context_lines |-> Whole,
      max_matches |-> Whole],
   summarize_session |-> [session_id |-> Text, top_facts |-> Whole]]

\* Widgets and the index.
RecallTools ==
  [find_flutter_widget |-> [project_path |-> Must(Text), name_pattern |-> Must(Text),
      max_results |-> Whole],
   list_missing_widget_keys |-> [project_path |-> Must(Text),
      target_widgets |-> ManyOf("string"),
      max_results |-> Whole],
   recall |-> [query |-> Must(Text), k |-> Whole, scope |-> Choice(Scopes)],
   recall_corrective |-> [query |-> Must(Text), k |-> Whole, scope |-> Choice(Scopes),
      confidence_threshold |-> Number, max_retries |-> Whole],
   index_project |-> [project_path |-> Must(Text), collection |-> Text,
      include_globs |-> ManyOf("string"), exclude_globs |-> ManyOf("string")]]

\* Skills, camera, isolates.
SkillTools ==
  [promote_sequence |-> [name |-> Must(Text), description |-> Must(Text),
      from_sequence |-> Whole, to_sequence |-> Whole, only_ok |-> Flag],
   list_skills |-> <<>>,
   replay_skill |-> [name |-> Must(Text), overrides |-> Mapping],
   calibrate_camera |-> [image_paths |-> Must(ManyOf("string")), board_cols |-> Whole,
      board_rows |-> Whole, square_size_m |-> Number],
   assert_pose_stable |-> [marker_id |-> Must(Whole), samples |-> Whole,
      sample_interval_s |-> Number, max_translation_m |-> Number, max_rotation_deg |-> Number,
      marker_size_m |-> Number, serial |-> Text],
   wait_for_ar_session_ready |-> [timeout_s |-> Number, serial |-> Text],
   vm_list_isolates |-> [session_id |-> Text],
   vm_evaluate |-> [expression |-> Must(Text), isolate_id |-> Text, frame_index |-> Whole,
      session_id |-> Text]]

\* Memory and size of an app.
MemoryTools ==
  [memory_summary |-> [session_id |-> Text],
   allocation_profile |-> [isolate_id |-> Text, session_id |-> Text,
      reset_accumulator |-> Flag, top_n |-> Whole],
   detect_undisposed_controllers |-> [isolate_id |-> Text, session_id |-> Text,
      extra_classes |-> ManyOf("string")],
   find_retaining_path |-> [class_name |-> Must(Text), isolate_id |-> Text,
      session_id |-> Text, max_depth |-> Whole],
   take_heap_snapshot |-> [isolate_id |-> Text, session_id |-> Text, label |-> Text],
   analyze_app_size |-> [project_path |-> Must(Text),
      platform |-> Choice({"apk", "appbundle", "ios"}), mode |-> Choice(Modes),
      flavor |-> Text, top_n |-> Whole, baseline_json_path |-> Text]]

\* Widget tests.
WidgetTestTools ==
  [run_widget_test |-> [project_path |-> Must(Text), test_path |-> Text,
      name_pattern |-> Text, plain_name |-> Flag, tags |-> Text, coverage |-> Flag,
      update_goldens |-> Flag, platform |-> Choice(TestHosts)],
   list_widget_tests |-> [project_path |-> Must(Text), test_root |-> Text],
   update_goldens |-> [project_path |-> Must(Text), test_path |-> Text, name_pattern |-> Text,
      plain_name |-> Flag, tags |-> Text],
   test_coverage_report |-> [project_path |-> Must(Text), test_path |-> Text,
      coverage_filter_prefix |-> Text, fail_under |-> Number]]

\* Frames, scenarios, deep links.
FrameTools ==
  [start_frame_profile |-> [session_id |-> Text],
   stop_frame_profile |-> [session_id |-> Text, target_fps |-> Whole,
      tolerance_pct |-> Number],
   propose_test_scenarios |-> [project_path |-> Must(Text), app_description |-> Text,
      focus_areas |-> ManyOf("string"), top_n |-> Whole],
   test_deep_link |-> [uri |-> Must(Text), expect_screen_text |-> Text, serial |-> Text,
      cold_start |-> Flag, timeout_s |-> Number]]

\* Pausing, accessibility, the advisor.
AdvisorTools ==
  [pause_ui_automation |-> [serial |-> Text],
   resume_ui_automation |-> [serial |-> Text, settle_ms |-> Number],
   audit_accessibility |-> [serial |-> Text, include_log_signals |-> Flag,
      ignore_class_substrings |-> ManyOf("string")],
   recommend_test_path |-> [project_path |-> Must(Text),
      context |-> Must(Choice(Contexts)),
      device_serial |-> Text, size_baseline_path |-> Text, coverage_fail_under |-> Number]]

\* Audits of the source.
SourceAuditTools ==
  [audit_code_seniority |-> [project_path |-> Must(Text), paths |-> ManyOf("string"),
      min_level |-> Choice(Levels), autofix |-> Flag, max_findings |-> Number],
   audit_security |-> [project_path |-> Must(Text), paths |-> ManyOf("string"),
      min_severity |-> Choice({"critical", "high", "medium"}), max_findings |-> Number],
   audit_performance |-> [project_path |-> Must(Text), paths |-> ManyOf("string"),
      min_severity |-> Choice({"high", "medium", "low"}), max_findings |-> Number]]

\* Audits that a release asks for.
ReleaseAuditTools ==
  [audit_localization |-> [project_path |-> Must(Text), paths |-> ManyOf("string"),
      arb_dir |-> Text,
      min_level |-> Choice(Levels), max_findings |-> Number],
   audit_dependencies |-> [project_path |-> Must(Text), min_level |-> Choice(Levels),
      is_published |-> Flag, max_findings |-> Number],
   audit_release_readiness |-> [project_path |-> Must(Text), min_level |-> Choice(Levels),
      include_seniority |-> Flag, include_security |-> Flag, include_localization |-> Flag,
      include_dependencies |-> Flag, include_test_quality |-> Flag, include_web_app |-> Flag,
      maestro_report_path |-> Text, maestro_prior_report_path |-> Text,
      lighthouse_report_path |-> Text, is_published |-> Flag, weight_seniority |-> Number,
      weight_security |-> Number, weight_localization |-> Number,
      weight_dependencies |-> Number, weight_test_quality |-> Number,
      weight_test_execution |-> Number, max_top_actions |-> Number]]

\* Test plans and audits of tests.
TestAuditTools ==
  [design_test_plan |-> [user_story |-> Text, acceptance_criteria |-> ManyOf("string"),
      source_paths |-> ManyOf("string"), project_path |-> Text,
      feature_kind |-> Choice(FeatureKinds),
      team_style |-> Choice({"developer_heavy", "mixed_with_business"}),
      time_box_min |-> Number],
   audit_test_quality |-> [project_path |-> Must(Text), paths |-> ManyOf("string"),
      min_level |-> Choice(Levels), max_findings |-> Number],
   audit_maestro_flow |-> [project_path |-> Must(Text), paths |-> ManyOf("string"),
      min_level |-> Choice(Levels), max_findings |-> Number]]

\* Reports of other tools.
IngestTools ==
  [ingest_maestro_report |-> [report_path |-> Must(Text), prior_report_path |-> Text],
   audit_web_app |-> [project_path |-> Must(Text), web_dir |-> Text,
      min_level |-> Choice(Levels), max_findings |-> Number],
   ingest_lighthouse_report |-> [report_path |-> Must(Text), perf_good_threshold |-> Number],
   ingest_har |-> [har_path |-> Must(Text), backend_host |-> Text, slow_ms |-> Number]]

\* Frames, tokens, lighthouse.
BudgetTools ==
  [ingest_frame_timeline |-> [timeline_path |-> Must(Text), fps |-> Number,
      severe_factor |-> Number],
   estimate_tokens |-> [text |-> Text, path |-> Text, budget_tokens |-> Number,
      chars_per_token |-> Number],
   run_lighthouse |-> [url |-> Must(Text), output_path |-> Text,
      categories |-> ManyOf("string"),
      preset |-> Choice({"mobile", "desktop"}), perf_good_threshold |-> Number,
      timeout_s |-> Number]]

\* Golden images and artifacts.
ArtifactTools ==
  [save_golden_image |-> [label |-> Must(Text), project_path |-> Text, serial |-> Text],
   new_session |-> [label |-> Text],
   fetch_artifact |-> [path |-> Must(Text), max_bytes |-> Whole, encoding |-> Text],
   get_artifacts_dir |-> <<>>]

\* Every tool of the registry.
Schemas ==
  ServerTools @@ SessionTools @@ DeviceTools @@ AppTools @@ UiInputTools @@
  UiCheckTools @@ CaptureTools @@ TestRunTools @@ VisionTools @@
  DebugTools @@ IdeTools @@ WdaTools @@ QualityTools @@ RecallTools @@
  SkillTools @@ MemoryTools @@ WidgetTestTools @@ FrameTools @@
  AdvisorTools @@ SourceAuditTools @@ ReleaseAuditTools @@
  TestAuditTools @@ IngestTools @@ BudgetTools @@ ArtifactTools
============================================================================
