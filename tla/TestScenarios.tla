--------------------------- MODULE TestScenarios ---------------------------
(***************************************************************************)
(* propose_test_scenarios (domain/usecases/propose_test_scenarios.py): the *)
(* scenarios every app is tested with, those the features of a project     *)
(* add, the order and the cut. A project is what the three files of it say *)
(* that the detection looks for: the manifest, Info.plist and pubspec as   *)
(* sets of signals, and whether a router file has routes. A scenario is    *)
(* its category, its priority and the tools it calls, in order; names,     *)
(* texts and the arguments written behind a tool's name are left out.      *)
(***************************************************************************)
EXTENDS Naturals, Sequences, SequencesExt

Categories ==
  <<"accessibility", "data", "device_matrix", "happy_path", "input", "interruption",
    "lifecycle", "localization", "network", "performance", "permission", "security">>
Priorities == <<"P0", "P1", "P2">>

----------------------------------------------------------------------------
\* What tells a feature, in each of the files.
ManifestSignals ==
  [uses_camera |-> {"CAMERA"}, uses_location |-> {"FINE_LOCATION", "BACKGROUND_LOCATION"},
   uses_microphone |-> {"RECORD_AUDIO"}, uses_storage |-> {"EXTERNAL_STORAGE", "MEDIA_IMAGES"},
   uses_notifications |-> {"POST_NOTIFICATIONS"}, uses_contacts |-> {"CONTACTS"},
   uses_deep_links |-> {"view intent filter"},
   uses_background_services |-> {"FOREGROUND_SERVICE", "service"},
   uses_biometrics |-> {"USE_BIOMETRIC"}]

PlistSignals ==
  [uses_camera |-> {"NSCamera"}, uses_location |-> {"NSLocation"},
   uses_microphone |-> {"NSMicrophone"}, uses_storage |-> {"NSPhotoLibrary"},
   uses_contacts |-> {"NSContacts"}, uses_biometrics |-> {"NSFaceID"}]

\* A package can tell several features: firebase_messaging and firebase_auth
\* contain "firebase_" too.
PubspecSignals ==
  [uses_location |-> {"geolocator", "location"}, uses_camera |-> {"camera", "image_picker"},
   uses_notifications |-> {"flutter_local_notifications", "firebase_messaging"},
   uses_in_app_purchase |-> {"in_app_purchase"},
   uses_firebase |-> {"firebase_messaging", "firebase_auth"},
   uses_payments |-> {"google_pay", "stripe"}, uses_ml_kit |-> {"google_mlkit"},
   uses_ar |-> {"ar_flutter_plugin"}, uses_biometrics |-> {"local_auth"},
   has_login_flow |-> {"firebase_auth", "google_sign_in", "oauth2"},
   supports_localization |-> {"flutter_localizations", "intl"},
   supports_dark_mode |-> {"ThemeMode"}]

ToldBy(signals, file) == {f \in DOMAIN signals : signals[f] \cap file # {}}

Features(project) ==
  ToldBy(ManifestSignals, project.manifest) \cup ToldBy(PlistSignals, project.plist)
    \cup ToldBy(PubspecSignals, project.pubspec)
    \cup (IF project.routes THEN {"uses_deep_links"} ELSE {})

----------------------------------------------------------------------------
S(category, priority, tools) == [category |-> category, priority |-> priority, tools |-> tools]

CoreScenarios ==
  <<S("happy_path", "P0", <<"select_device", "prepare_for_test", "stop_app", "launch_app",
                            "wait_for_element", "assert_no_errors_since">>),
    S("happy_path", "P0", <<"launch_app", "tap_and_verify", "tap_and_verify",
                            "assert_no_errors_since">>),
    S("permission", "P0", <<"clear_app_data", "launch_app", "tap_text", "assert_no_errors_since">>),
    S("permission", "P1", <<"launch_app", "grant_permission", "stop_app", "press_key",
                            "launch_app", "launch_app", "assert_no_errors_since">>),
    S("network", "P0", <<"press_key", "stop_app", "launch_app", "wait_for_element",
                         "assert_no_errors_since">>),
    S("network", "P0", <<"type_text", "tap_text", "press_key", "wait_for_element",
                         "assert_no_errors_since">>),
    S("network", "P1", <<"launch_app", "tap_and_verify", "start_frame_profile",
                         "stop_frame_profile">>)>>

InputScenarios ==
  <<S("input", "P1", <<"tap_text", "assert_visible", "assert_no_errors_since">>),
    S("input", "P1", <<"tap_and_verify", "type_text", "assert_no_errors_since">>),
    S("input", "P2", <<"type_text", "tap_text", "assert_visible">>),
    S("interruption", "P1", <<"launch_app", "tap_text", "wait_for_element",
                              "assert_no_errors_since">>),
    S("interruption", "P0", <<"launch_app", "tap_and_verify", "press_key", "stop_app",
                              "launch_app", "assert_visible">>),
    S("lifecycle", "P0", <<"tap_text", "tap_text", "assert_no_errors_since">>)>>

AudienceScenarios ==
  <<S("accessibility", "P1", <<"dump_ui">>),
    S("accessibility", "P1", <<"dump_ui">>),
    S("accessibility", "P1", <<"launch_app", "read_logs", "take_screenshot">>),
    S("localization", "P1", <<"stop_app", "launch_app", "take_screenshot">>),
    S("localization", "P1", <<"stop_app", "launch_app", "take_screenshot">>),
    S("device_matrix", "P1", <<"start_emulator", "select_device", "launch_app",
                               "start_frame_profile", "stop_frame_profile", "memory_summary">>),
    S("device_matrix", "P2", <<"select_device", "launch_app", "take_screenshot">>)>>

QualityScenarios ==
  <<S("performance", "P1", <<"start_frame_profile", "swipe", "stop_frame_profile">>),
    S("performance", "P1", <<"allocation_profile", "allocation_profile",
                             "detect_undisposed_controllers">>),
    S("security", "P0", <<"build_app">>),
    S("data", "P1", <<"launch_app", "assert_visible", "assert_no_errors_since">>)>>

\* What a feature adds, in the order the features are looked at.
When(holds, scenarios) == IF holds THEN scenarios ELSE <<>>

DeviceEnrichers(features) ==
  When("uses_camera" \in features,
       <<S("permission", "P0", <<"tap_text", "tap_text", "assert_visible">>)>>)
  \o When("uses_location" \in features,
       <<S("permission", "P0", <<"launch_app", "launch_app", "tap_text", "assert_visible">>)>>)
  \o When("uses_notifications" \in features,
       <<S("permission", "P0", <<"launch_app", "tap_text", "assert_no_errors_since">>)>>)
  \o When("uses_deep_links" \in features,
       <<S("lifecycle", "P0", <<"stop_app", "wait_for_element", "assert_no_errors_since">>),
         S("lifecycle", "P1", <<"stop_app", "launch_app", "tap_and_verify", "assert_visible">>)>>)

ServiceEnrichers(features) ==
  When("uses_in_app_purchase" \in features,
       <<S("happy_path", "P0", <<"tap_text", "tap_text", "assert_visible">>),
         S("lifecycle", "P0", <<"clear_app_data", "launch_app", "tap_text", "assert_visible">>)>>)
  \o When("uses_biometrics" \in features,
       <<S("permission", "P1", <<"tap_text", "wait_for_element">>)>>)
  \o When("has_login_flow" \in features,
       <<S("security", "P1", <<"assert_visible">>),
         S("network", "P0", <<"tap_and_verify", "assert_no_errors_since">>)>>)
  \o When({"uses_ar", "uses_ml_kit"} \cap features # {},
       <<S("device_matrix", "P0", <<"launch_app", "wait_for_element">>)>>)
  \o When("uses_payments" \in features,
       <<S("network", "P0", <<"tap_text", "wait_for_element", "type_text", "assert_visible">>)>>)
  \o When("supports_localization" \in features, <<S("localization", "P1", <<>>)>>)
  \o When("supports_dark_mode" \in features,
       <<S("lifecycle", "P2", <<"launch_app", "take_screenshot">>)>>)

Scenarios(project) ==
  CoreScenarios \o InputScenarios \o AudienceScenarios \o QualityScenarios
    \o DeviceEnrichers(Features(project)) \o ServiceEnrichers(Features(project))

----------------------------------------------------------------------------
\* Areas nobody knows are dropped from the focus; a focus is not a focus when
\* it was empty to begin with.
InFocus(scenarios, focus) ==
  IF focus = {} THEN scenarios
  ELSE SelectSeq(scenarios, LAMBDA s : s.category \in focus \cap ToSet(Categories))

\* By priority, then by category, otherwise in the order they were in.
Sorted(scenarios) ==
  FlattenSeq([i \in DOMAIN Priorities |->
    FlattenSeq([j \in DOMAIN Categories |->
      SelectSeq(scenarios, LAMBDA s : s.priority = Priorities[i] /\ s.category = Categories[j])])])

\* Mutant: the last scenario that fits is cut too.
Cut_short(scenarios, top) ==
  LET most == top - 1
  IN  SubSeq(scenarios, 1, IF most < Len(scenarios) THEN most ELSE Len(scenarios))

Cut(scenarios, top) ==
  LET most == IF top < 1 THEN 1 ELSE top
  IN  SubSeq(scenarios, 1, IF most < Len(scenarios) THEN most ELSE Len(scenarios))

Proposal(project, focus, top) == Cut(Sorted(InFocus(Scenarios(project), focus)), top)

\* A proposal leaves out no scenario of that priority which the focus is on.
Keeps(proposal, project, focus, priority) ==
  LET Urgent(s) == s.priority = priority
  IN  SelectSeq(Sorted(InFocus(Scenarios(project), focus)), Urgent) = SelectSeq(proposal, Urgent)

=============================================================================
