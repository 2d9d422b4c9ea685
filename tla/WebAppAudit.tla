---------------------------- MODULE WebAppAudit ----------------------------
(***************************************************************************)
(* audit_web_app: the rules of domain/usecases/audit_web_app.py on the     *)
(* web/ directory: index.html, manifest.json, _headers and the listing.    *)
(***************************************************************************)
EXTENDS Findings

IndexTraits ==
    {"exists", "text", "lang", "viewport", "scaffold_description", "csp", "theme_color", "og_title",
     "apple_touch_icon", "loading", "favicon"}
ManifestTraits == {"exists", "json", "fields", "icons", "maskable", "real_name"}
HeadersTraits == {"csp"}
ListingTraits == {"favicon", "splash"}

HasCsp(p) == "csp" \in p["index"] \/ "csp" \in p["headers"]

(* An index.html with no text is not looked at.                             *)
IndexRules(p) ==
    LET t == p["index"]
        lacks(x) == "text" \in t /\ x \notin t
    IN  [html_no_lang_attr |-> Rule(2, Junior, lacks("lang"), {t \cup {"lang"}}),
         no_viewport_meta |-> Rule(2, Junior, lacks("viewport"), {t \cup {"viewport"}}),
         placeholder_meta_description |->
            Rule(3, Junior, {"text", "scaffold_description"} \subseteq t, {t \ {"scaffold_description"}}),
         no_csp |-> Rule(2, Mid, "text" \in t /\ ~HasCsp(p), {t \cup {"csp"}}),
         no_theme_color |-> Rule(3, Mid, lacks("theme_color"), {t \cup {"theme_color"}}),
         no_seo_meta |-> Rule(2, Senior, lacks("og_title"), {t \cup {"og_title"}}),
         no_apple_touch_icon |-> Rule(3, Senior, lacks("apple_touch_icon"), {t \cup {"apple_touch_icon"}})]

(* A manifest that is no JSON object yields nothing.                        *)
ManifestRules(t) ==
    LET parsed == {"exists", "json"} \subseteq t
        complete == t \cup {"exists", "json", "fields", "icons", "real_name"}
    IN  [manifest_missing_pwa_fields |->
            Rule(2, Mid, "exists" \notin t \/ (parsed /\ ~({"fields", "icons"} \subseteq t)), {complete}),
         manifest_no_maskable_icon |->
            Rule(3, Mid, parsed /\ "icons" \in t /\ "maskable" \notin t, {t \cup {"maskable"}}),
         placeholder_app_name |->
            Rule(2, Senior, parsed /\ "real_name" \notin t, {t \cup {"real_name"}})]

ListingRules(p) ==
    LET t == p["listing"]
    IN  [no_favicon |-> Rule(3, Junior, "favicon" \notin t /\ "favicon" \notin p["index"], {t \cup {"favicon"}}),
         no_loading_indicator |->
            Rule(3, Staff, "splash" \notin t /\ "loading" \notin p["index"], {t \cup {"splash"}})]

IsWebApp(p) == p # <<>> /\ "exists" \in p["index"]

HasPwaManifest(p) == {"exists", "json", "fields", "icons"} \subseteq p["manifest"]

WebFindings(p) ==
    IF IsWebApp(p)
    THEN At("index", IndexRules(p)) \cup At("manifest", ManifestRules(p["manifest"]))
            \cup At("listing", ListingRules(p))
    ELSE {}

WebWeights == <<10, 4, 1>>

(* 1 excellent or not_web_app, 2 acceptable, 3 needs_polish,                *)
(* 4 not_production_ready.                                                  *)
WebGrade(kept) ==
    IF kept[1] + kept[2] + kept[3] = 0 THEN 1
    ELSE IF kept[1] > 0 \/ kept[2] >= 3 THEN 4
    ELSE IF kept[2] > 0 THEN 3
    ELSE 2
=============================================================================
