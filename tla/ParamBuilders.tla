--------------------------- MODULE ParamBuilders ---------------------------
(***************************************************************************)
(* What each parameter builder does with the arguments it gets             *)
(* (presentation/descriptors/_param_builders.py): for every argument, how  *)
(* it reads the value. The builders know nothing of the schemas; whether   *)
(* the two agree is what ToolCalls asks. A builder is named after the tool *)
(* the registry binds it to. A reader has                                  *)
(*   how      the conversion applied to the value,                         *)
(*   of       the members an enumeration class accepts,                    *)
(*   each     the conversion applied to the elements of a list,            *)
(*   needed   whether a missing argument is a KeyError (args["k"]),        *)
(*   alias    the argument read when this one is not there.                *)
(***************************************************************************)
EXTENDS TLC

Reader(how) == [how |-> how, of |-> {}, each |-> "raw", needed |-> FALSE, alias |-> ""]
Raw == Reader("raw")                    \* args.get(k), str(...) and the like
Truth == Reader("truth")                \* bool(...)
Integer == Reader("integer")            \* int(args.get(k, default))
Float == Reader("float")                \* float(args.get(k, default))
IntegerIf == Reader("integerIf")        \* int(v) if v is not None else None
FloatIf == Reader("floatIf")
Location == Reader("location")          \* Path(v).expanduser()
LocationIf == Reader("locationIf")      \* Path(v).expanduser() if v else None
Items == Reader("items")                \* tuple(v or default)
MapIf == Reader("mapIf")                \* dict(v or {})
Bounds == Reader("bounds")              \* _parse_bounds(v)
Steps == Reader("steps")                \* a list that is not empty, see _run_batch
Each(reader) == [Items EXCEPT !.each = reader.how]
OneOf(members) == [Reader("member") EXCEPT !.of = members]
OneOfIf(members) == [Reader("memberIf") EXCEPT !.of = members]
Key(reader) == [reader EXCEPT !.needed = TRUE]
Alias(reader, other) == [reader EXCEPT !.alias = other]

\* The enumeration classes of domain/entities.py the builders convert to.
BuildMode == {"debug", "profile", "release"}
Platform == {"android", "ios"}
LogLevel == {"V", "D", "I", "W", "E", "F"}
IdeKind == {"vscode"}
AnalyzerSeverity == {"info", "warning", "error"}

\* Devices and apps.
ReadDevicesAndApps ==
  [select_device |-> [serial |-> Key(Raw), force |-> Truth, note |-> Raw],
   release_device |-> [serial |-> Raw],
   force_release_lock |-> [serial |-> Key(Raw)],
   build_app |-> [project_path |-> Key(Location), mode |-> OneOf(BuildMode),
      platform |-> OneOf(Platform), flavor |-> Raw],
   install_app |-> [bundle_path |-> Alias(LocationIf, "apk_path"),
      project_path |-> LocationIf, mode |-> OneOf(BuildMode), platform |-> OneOfIf(Platform),
      flavor |-> Raw, serial |-> Raw],
   uninstall_app |-> [package_id |-> Key(Raw), serial |-> Raw],
   launch_app |-> [package_id |-> Key(Raw), activity |-> Raw, serial |-> Raw],
   stop_app |-> [package_id |-> Key(Raw), serial |-> Raw],
   clear_app_data |-> [package_id |-> Key(Raw), serial |-> Raw],
   grant_permission |-> [package_id |-> Key(Raw), permission |-> Key(Raw), serial |-> Raw]]

\* Screen.
ReadUi ==
  [tap |-> [x |-> IntegerIf, y |-> IntegerIf, resource_id |-> Raw, text |-> Raw,
      class_name |-> Raw, bounds |-> Bounds, exact |-> Truth, timeout_s |-> Float,
      serial |-> Raw],
   tap_text |-> [text |-> Key(Raw), exact |-> Truth, serial |-> Raw],
   swipe |-> [x1 |-> Alias(Key(Integer), "startX"), y1 |-> Alias(Key(Integer), "startY"),
      x2 |-> Alias(Key(Integer), "endX"), y2 |-> Alias(Key(Integer), "endY"),
      duration_ms |-> Integer, serial |-> Raw],
   type_text |-> [text |-> Key(Raw), serial |-> Raw],
   press_key |-> [keycode |-> Alias(Key(Raw), "key"), serial |-> Raw],
   find_element |-> [text |-> Raw, resource_id |-> Raw, class_name |-> Raw,
      timeout_s |-> Float, serial |-> Raw],
   wait_for_element |-> [text |-> Raw, resource_id |-> Raw, timeout_s |-> Float,
      serial |-> Raw],
   wait_until |-> [text |-> Raw, resource_id |-> Raw, gone |-> Truth, timeout_s |-> Float,
      poll_interval_s |-> Float, serial |-> Raw],
   dump_ui |-> [serial |-> Raw],
   assert_visible |-> [text |-> Raw, resource_id |-> Raw, timeout_s |-> Float,
      serial |-> Raw],
   tap_and_verify |-> [text |-> Key(Raw), expect_text |-> Raw, expect_resource_id |-> Raw,
      timeout_s |-> Float, exact |-> Truth, serial |-> Raw, capture_on_failure |-> Truth],
   extract_ui_graph |-> [max_nodes |-> Integer, serial |-> Raw],
   ocr_screenshot |-> [path |-> Key(Location), languages |-> Items, min_confidence |-> Float],
   assert_no_errors_since |-> [since_s |-> Integer, tag |-> Raw, serial |-> Raw]]

\* Captures, test runs, artifacts.
ReadCaptures ==
  [take_screenshot |-> [label |-> Raw, serial |-> Raw],
   zoom_screenshot |-> [region |-> Key(Each(Integer)), scale |-> Float, path |-> LocationIf,
      label |-> Raw, serial |-> Raw],
   start_recording |-> [label |-> Raw, serial |-> Raw],
   stop_recording |-> [serial |-> Raw],
   read_logs |-> [since_s |-> Integer, tag |-> Raw, min_level |-> OneOf(LogLevel),
      max_lines |-> Integer, serial |-> Raw],
   tail_logs |-> [until_pattern |-> Key(Raw), tag |-> Raw, timeout_s |-> Float,
      serial |-> Raw],
   run_unit_tests |-> [project_path |-> Key(Location), platform |-> Raw],
   run_integration_tests |-> [project_path |-> Key(Location), test_path |-> Raw,
      serial |-> Raw],
   new_session |-> [label |-> Raw],
   fetch_artifact |-> [path |-> Key(Location), max_bytes |-> Integer, encoding |-> Raw]]

\* Scaffolds, logs, widgets.
ReadProductivity ==
  [scaffold_feature |-> [project_path |-> Key(Location), feature_name |-> Key(Raw),
      overwrite |-> Truth],
   scaffold_patrol_test |-> [project_path |-> Key(Location), test_name |-> Raw,
      root_widget |-> Raw, overwrite |-> Truth],
   run_quick_check |-> [project_path |-> Key(Location)],
   grep_logs |-> [path |-> Key(Location), pattern |-> Key(Raw), context_lines |-> Integer,
      max_matches |-> Integer],
   summarize_session |-> [session_id |-> Raw, top_facts |-> Integer],
   find_flutter_widget |-> [project_path |-> Key(Location), name_pattern |-> Raw,
      max_results |-> Integer],
   list_missing_widget_keys |-> [project_path |-> Key(Location), target_widgets |-> Items,
      max_results |-> Integer]]

\* Index, skills, narration, patches.
ReadSkills ==
  [recall |-> [query |-> Key(Raw), k |-> Integer, scope |-> Raw],
   capture_release_screenshot |-> [label |-> Key(Raw), thumbnail_long_edge |-> Integer,
      serial |-> Raw],
   recall_corrective |-> [query |-> Key(Raw), k |-> Integer, scope |-> Raw,
      confidence_threshold |-> Float, max_retries |-> Integer],
   promote_sequence |-> [name |-> Key(Raw), description |-> Raw, from_sequence |-> Raw,
      to_sequence |-> Raw, only_ok |-> Truth],
   replay_skill |-> [name |-> Key(Raw), overrides |-> Raw],
   index_project |-> [project_path |-> Key(Location), collection |-> Raw,
      include_globs |-> Items, exclude_globs |-> Items],
   narrate |-> [envelope |-> MapIf, tool |-> Raw],
   patch_apply_safe |-> [project_path |-> Key(Location), diff |-> Key(Raw),
      skip_gate |-> Truth, force |-> Truth],
   inspect_project |-> [project_path |-> Key(Location)],
   list_patrol_tests |-> [project_path |-> Key(Location)]]

\* Patrol, plans, server.
ReadPlans ==
  [run_patrol_test |-> [project_path |-> Key(Location), test_path |-> Key(Location),
      flavor |-> Raw, build_mode |-> OneOf(BuildMode), platform |-> Raw, ci |-> Truth,
      tags |-> Raw, exclude_tags |-> Raw, junit_path |-> LocationIf, serial |-> Raw],
   run_patrol_suite |-> [project_path |-> Key(Location), test_dir |-> Location,
      flavor |-> Raw, build_mode |-> OneOf(BuildMode), platform |-> Raw, ci |-> Truth,
      tags |-> Raw, exclude_tags |-> Raw, junit_path |-> LocationIf, serial |-> Raw],
   run_test_plan |-> [plan_path |-> LocationIf, plan_yaml |-> Raw],
   validate_test_plan |-> [plan_path |-> LocationIf, plan_yaml |-> Raw],
   describe_capabilities |-> [level |-> Raw],
   describe_tool |-> [name |-> Key(Raw)],
   session_summary |-> [session_id |-> Raw],
   set_agent_profile |-> [name |-> Key(Raw)],
   notify_webhook |-> [url |-> Key(Raw), event |-> Key(Raw), payload |-> MapIf,
      auth_bearer |-> Raw, auth_header_name |-> Raw, auth_header_value |-> Raw,
      timeout_s |-> Float],
   prune_originals |-> [older_than_days |-> Integer, dry_run |-> Truth],
   compress_png |-> [path |-> Key(Location), max_dim |-> IntegerIf],
   inspect_image_safety |-> [path |-> Key(Location)],
   tool_usage_report |-> [session_id |-> Raw, top_n |-> Integer],
   prepare_for_test |-> [package_id |-> Key(Raw), skip_clear |-> Truth,
      capture_evidence |-> Truth, serial |-> Raw]]

\* Virtual devices, debug sessions, IDE.
ReadSessions ==
  [start_emulator |-> [avd_name |-> Key(Raw), headless |-> Truth],
   stop_virtual_device |-> [serial |-> Key(Raw)],
   list_simulators |-> [include_shutdown |-> Truth],
   boot_simulator |-> [name_or_udid |-> Key(Raw)],
   start_debug_session |-> [project_path |-> Key(Location), mode |-> OneOf(BuildMode),
      flavor |-> Raw, target |-> Raw, serial |-> Raw],
   stop_debug_session |-> [session_id |-> Raw],
   restart_debug_session |-> [session_id |-> Raw, full_restart |-> Truth],
   attach_debug_session |-> [vm_service_uri |-> Key(Raw), project_path |-> Key(Location)],
   read_debug_log |-> [session_id |-> Raw, since_s |-> Integer, level |-> Raw,
      max_lines |-> Integer],
   tail_debug_log |-> [until_pattern |-> Key(Raw), session_id |-> Raw, timeout_s |-> Float],
   call_service_extension |-> [method |-> Key(Raw), args |-> Raw, session_id |-> Raw],
   dump_widget_tree |-> [session_id |-> Raw],
   dump_render_tree |-> [session_id |-> Raw],
   toggle_inspector |-> [enabled |-> Key(Truth), session_id |-> Raw],
   open_project_in_ide |-> [project_path |-> Key(Location), ide |-> OneOf(IdeKind),
      new_window |-> Truth],
   close_ide_window |-> [project_path |-> LocationIf, window_id |-> Raw],
   focus_ide_window |-> [project_path |-> Key(Location)],
   is_ide_available |-> [ide |-> OneOf(IdeKind)],
   write_vscode_launch_config |-> [project_path |-> Key(Location), flavor |-> Raw,
      target |-> Raw, debug_mode |-> Raw, overwrite |-> Truth]]

\* Isolates, memory, size, widget tests.
ReadMemory ==
  [vm_list_isolates |-> [session_id |-> Raw],
   vm_evaluate |-> [expression |-> Key(Raw), isolate_id |-> Raw, frame_index |-> Integer,
      session_id |-> Raw],
   memory_summary |-> [session_id |-> Raw],
   allocation_profile |-> [isolate_id |-> Raw, session_id |-> Raw,
      reset_accumulator |-> Truth, top_n |-> Integer],
   detect_undisposed_controllers |-> [isolate_id |-> Raw, session_id |-> Raw,
      extra_classes |-> Items],
   find_retaining_path |-> [class_name |-> Key(Raw), isolate_id |-> Raw, session_id |-> Raw,
      max_depth |-> Integer],
   take_heap_snapshot |-> [isolate_id |-> Raw, session_id |-> Raw, label |-> Raw],
   analyze_app_size |-> [project_path |-> Key(Location), platform |-> Raw, mode |-> Raw,
      flavor |-> Raw, top_n |-> Integer, baseline_json_path |-> LocationIf],
   run_widget_test |-> [project_path |-> Key(Location), test_path |-> Raw,
      name_pattern |-> Raw, plain_name |-> Truth, tags |-> Raw, coverage |-> Truth,
      update_goldens |-> Truth, platform |-> Raw],
   list_widget_tests |-> [project_path |-> Key(Location), test_root |-> Raw],
   update_goldens |-> [project_path |-> Key(Location), test_path |-> Raw,
      name_pattern |-> Raw, plain_name |-> Truth, tags |-> Raw],
   test_coverage_report |-> [project_path |-> Key(Location), test_path |-> Raw,
      coverage_filter_prefix |-> Raw, fail_under |-> FloatIf]]

\* Frames, scenarios, advice, ingestion.
ReadAdvice ==
  [start_frame_profile |-> [session_id |-> Raw],
   stop_frame_profile |-> [session_id |-> Raw, target_fps |-> Integer,
      tolerance_pct |-> Float],
   propose_test_scenarios |-> [project_path |-> Key(Location), app_description |-> Raw,
      focus_areas |-> Items, top_n |-> Integer],
   test_deep_link |-> [uri |-> Key(Raw), expect_screen_text |-> Raw, serial |-> Raw,
      cold_start |-> Truth, timeout_s |-> Float],
   pause_ui_automation |-> [serial |-> Raw],
   resume_ui_automation |-> [serial |-> Raw, settle_ms |-> Integer],
   audit_accessibility |-> [serial |-> Raw, include_log_signals |-> Truth,
      ignore_class_substrings |-> Items],
   recommend_test_path |-> [project_path |-> Key(Location), context |-> Key(Raw),
      device_serial |-> Raw, size_baseline_path |-> LocationIf,
      coverage_fail_under |-> Float],
   audit_code_seniority |-> [project_path |-> Key(Location), paths |-> Items,
      min_level |-> Raw, autofix |-> Truth, max_findings |-> Integer],
   audit_dependencies |-> [project_path |-> Key(Location), min_level |-> Raw,
      is_published |-> Truth, max_findings |-> Integer],
   ingest_har |-> [har_path |-> Key(Location), backend_host |-> Raw, slow_ms |-> Float],
   ingest_frame_timeline |-> [timeline_path |-> Key(Location), fps |-> Integer,
      severe_factor |-> Float],
   estimate_tokens |-> [text |-> Raw, path |-> LocationIf, budget_tokens |-> IntegerIf,
      chars_per_token |-> Float],
   ingest_lighthouse_report |-> [report_path |-> Key(Location),
      perf_good_threshold |-> Float]]

\* Lighthouse and the audits.
ReadAudits ==
  [run_lighthouse |-> [url |-> Key(Raw), output_path |-> LocationIf, categories |-> Raw,
      preset |-> Raw, perf_good_threshold |-> Float, timeout_s |-> Float],
   audit_web_app |-> [project_path |-> Key(Location), web_dir |-> Raw, min_level |-> Raw,
      max_findings |-> Integer],
   ingest_maestro_report |-> [report_path |-> Key(Location),
      prior_report_path |-> LocationIf],
   audit_maestro_flow |-> [project_path |-> Key(Location), paths |-> Items, min_level |-> Raw,
      max_findings |-> Integer],
   audit_test_quality |-> [project_path |-> Key(Location), paths |-> Items, min_level |-> Raw,
      max_findings |-> Integer],
   design_test_plan |-> [user_story |-> Raw, acceptance_criteria |-> Items,
      source_paths |-> Items, project_path |-> LocationIf, feature_kind |-> Raw,
      team_style |-> Raw, time_box_min |-> Integer],
   audit_release_readiness |-> [project_path |-> Key(Location), min_level |-> Raw,
      include_seniority |-> Truth, include_security |-> Truth, include_localization |-> Truth,
      include_dependencies |-> Truth, include_test_quality |-> Truth,
      include_web_app |-> Truth, maestro_report_path |-> LocationIf,
      maestro_prior_report_path |-> LocationIf, lighthouse_report_path |-> LocationIf,
      is_published |-> Truth, weight_seniority |-> Float, weight_security |-> Float,
      weight_localization |-> Float, weight_dependencies |-> Float,
      weight_test_quality |-> Float, weight_test_execution |-> Float,
      max_top_actions |-> Integer, weight_web_app |-> Float, weight_web_vitals |-> Float],
   audit_localization |-> [project_path |-> Key(Location), paths |-> Items, arb_dir |-> Raw,
      min_level |-> Raw, max_findings |-> Integer]]

\* Source audits and vision.
ReadVision ==
  [audit_security |-> [project_path |-> Key(Location), paths |-> Items, min_severity |-> Raw,
      max_findings |-> Integer],
   audit_performance |-> [project_path |-> Key(Location), paths |-> Items,
      min_severity |-> Raw, max_findings |-> Integer],
   calibrate_camera |-> [image_paths |-> Each(Location), board_cols |-> Integer,
      board_rows |-> Integer, square_size_m |-> Float],
   assert_pose_stable |-> [marker_id |-> Key(Integer), samples |-> Integer,
      sample_interval_s |-> Float, max_translation_m |-> Float, max_rotation_deg |-> Float,
      marker_size_m |-> Float, serial |-> Raw],
   wait_for_ar_session_ready |-> [timeout_s |-> Float, serial |-> Raw],
   save_golden_image |-> [label |-> Key(Raw), project_path |-> LocationIf, serial |-> Raw],
   compare_screenshot |-> [actual_path |-> Key(Location), golden_path |-> Key(Location),
      tolerance |-> Float, diff_output_path |-> LocationIf],
   detect_markers |-> [image_path |-> Key(Location), dictionary |-> Raw],
   infer_camera_pose |-> [image_path |-> Key(Location), marker_id |-> Key(Integer),
      marker_size_m |-> Key(Float)],
   wait_for_marker |-> [marker_id |-> Key(Integer), timeout_s |-> Float,
      poll_interval_s |-> Float, dictionary |-> Raw, serial |-> Raw]]

\* Dart tools and WebDriverAgent.
ReadHost ==
  [dart_analyze |-> [project_path |-> Key(Location),
      min_severity |-> OneOfIf(AnalyzerSeverity)],
   dart_format |-> [target_path |-> Key(Location), dry_run |-> Truth],
   dart_fix |-> [project_path |-> Key(Location), apply |-> Truth],
   flutter_pub_get |-> [project_path |-> Key(Location)],
   flutter_pub_outdated |-> [project_path |-> Key(Location)],
   quality_gate |-> [project_path |-> Key(Location), require_format_clean |-> Truth,
      run_unit_tests |-> Truth],
   setup_webdriveragent |-> [udid |-> Key(Raw), wda_dir |-> LocationIf, repo_url |-> Raw,
      scheme |-> Raw, skip_if_built |-> Truth, team_id |-> Raw, is_simulator |-> Raw],
   start_wda_on_simulator |-> [udid |-> Key(Raw), port |-> Integer, wda_dir |-> LocationIf,
      scheme |-> Raw, ready_timeout_s |-> Float],
   start_wda_on_device |-> [udid |-> Key(Raw), port |-> Integer, wda_dir |-> LocationIf,
      scheme |-> Raw, team_id |-> Raw, ready_timeout_s |-> Float]]

\* _params_no: the tools that take no arguments.
ReadNothing ==
  [tool \in {"check_environment", "mcp_ping", "disk_usage", "list_devices",
             "get_selected_device", "list_locks", "list_avds", "list_debug_sessions",
             "list_ide_windows", "list_skills", "get_artifacts_dir"} |-> <<>>]

\* Mutant: capture_on_failure is always on.
ReadBatch_lost == [batch |-> [steps |-> Steps, stop_on_error |-> Truth]]

\* The dispatcher reads the arguments of a batch itself (_run_batch).
ReadBatch ==
  [batch |-> [steps |-> Steps, stop_on_error |-> Truth, capture_on_failure |-> Truth]]

\* Every builder.
Builders ==
  ReadNothing @@ ReadBatch @@ ReadDevicesAndApps @@ ReadUi @@ ReadCaptures @@
  ReadProductivity @@ ReadSkills @@ ReadPlans @@ ReadSessions @@
  ReadMemory @@ ReadAdvice @@ ReadAudits @@ ReadVision @@ ReadHost
============================================================================
