--------------------------- MODULE MCProjectAudits ---------------------------
(* Instances of ProjectAudits for TLC. *)
EXTENDS ProjectAudits, TLC

Blank(places, t) == [x \in places |-> t]

(* A sound project, one with typical flaws, an empty one. *)
AllStarts ==
    [seniority |->
        {<<>>, "page" :> {"stateless", "tested", "print"},
         "bloc" :> {"tested", "no_base"} @@ "repository" :> {"future", "either", "tested"}},
     performance |->
        {<<>>, "list_page" :> {} @@ "animation_page" :> {"animation_controller", "repaint_boundary", "duration_zero"}},
     security |->
        {<<>>, "dart" :> {"auth_client"} @@ "manifest" :> {} @@ "env" :> {"present", "ignored"},
         "plist" :> {} @@ "gradle" :> {"debug_signing"} @@ "firebase_options" :> {"google_key", "firebase_ctor"}},
     test_quality |->
        {<<>>, "unit_test" :> {"test", "two_tests", "failure_assert"} @@ "integration_test" :> {"test", "Widget"}
                 @@ "suite" :> {"twenty_files", "helpers"},
         "fake_test" :> {"network"} @@ "unit_test" :> {"test", "network"}},
     dependencies |->
        {Blank({"dio", "share", "environment"}, {}),
         "dio" :> {"main", "imported"} @@ "build_runner" :> {"dev"} @@ "gpl_viewer" :> {"main"}
            @@ "flutter" :> {"main", "nested", "imported"}},
     localization |->
        {<<>>, "page" :> {"k1"} @@ "app" :> {"app", "supported", "en", "pl", "sdk_dep", "delegates"}
                 @@ "en" :> {"file", "k1"} @@ "pl" :> {"file", "k1"} @@ "ar" :> {},
         "page" :> {"hardcoded_twelve"} @@ "app" :> {"app"} @@ "en" :> {} @@ "pl" :> {} @@ "ar" :> {}},
     maestro_flow |->
        {<<>>, "login" :> {"steps", "appId", "tags", "assertion"} @@ "checkout" :> {"email"}
                 @@ "directory" :> {"five_flows", "negative_flow"}},
     accessibility |->
        {"button" :> {"clickable", "label"} @@ "icon" :> {"clickable", "small", "disabled"}, "ios" :> {}},
     web_app |->
        {"index" :> IndexTraits \ {"scaffold_description", "csp"} @@ "manifest" :> ManifestTraits
            @@ "headers" :> {"csp"} @@ "listing" :> {"favicon", "splash"},
         "index" :> {"exists", "text", "scaffold_description", "viewport", "apple_touch_icon", "favicon"}
            @@ "manifest" :> {"exists", "json", "fields", "icons", "maskable"}
            @@ "headers" :> {} @@ "listing" :> {"favicon"}}]

(* No paths, or one that may not be there. *)
NoneOrOne == {{}, {"plist"}}

AllAudits == DOMAIN AllStarts
=============================================================================
