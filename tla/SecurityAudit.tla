---------------------------- MODULE SecurityAudit ----------------------------
(***************************************************************************)
(* audit_security: the rules of domain/usecases/audit_security.py.  A file *)
(* is known by its kind; `env' is a .env file at the root of the           *)
(* repository, which is also looked at as such, scanned or not.  A hint    *)
(* that may leave the text to its pattern has the text itself among its    *)
(* fixes.                                                                  *)
(***************************************************************************)
EXTENDS Findings

SecurityKind ==
    [dart |-> "dart", firebase_options |-> "dart", manifest |-> "manifest", plist |-> "plist",
     gradle |-> "gradle", env |-> "env"]

SecurityTraits ==
    {"api_key", "google_key", "firebase_ctor", "jwt", "pem", "http", "webview_js", "nav_delegate",
     "prefs_secret", "print_secret", "clipboard_secret", "debug_comment", "mode_guard",
     "auth_client", "pinning", "local_auth", "biometric_only", "cleartext", "exported",
     "arbitrary_loads", "debug_signing", "present", "ignored"}

CriticalDartRules(place, t) ==
    [hardcoded_api_key |-> Rule(1, Junior, "api_key" \in t, {t \ {"api_key"}}),
     hardcoded_firebase_key |->
        Rule(1, Junior, "google_key" \in t /\ ~(place = "firebase_options" /\ "firebase_ctor" \in t),
             {t \ {"google_key"}}),
     hardcoded_jwt |-> Rule(1, Junior, "jwt" \in t, {t \ {"jwt"}}),
     hardcoded_pem |-> Rule(1, Junior, "pem" \in t, {t \ {"pem"}})]

(* Test files are not collected.  A local http:// may stay, marked.         *)
HighDartRules(t) ==
    [cleartext_http |-> Rule(2, Junior, "http" \in t, {t \ {"http"}}),
     webview_js_unguarded |->
        Rule(2, Junior, "webview_js" \in t /\ "nav_delegate" \notin t, {t \cup {"nav_delegate"}}),
     prefs_for_secrets |-> Rule(2, Junior, "prefs_secret" \in t, {t \ {"prefs_secret"}})]

(* A masked value is still a print of its name, and a clipboard that is     *)
(* cleared later is still written.                                          *)
MediumDartRules(t) ==
    [print_leaks_pii |-> Rule(3, Junior, "print_secret" \in t, {t, t \ {"print_secret"}}),
     clipboard_for_secrets |-> Rule(3, Junior, "clipboard_secret" \in t, {t, t \ {"clipboard_secret"}}),
     debug_only_unguarded |->
        Rule(3, Junior, "debug_comment" \in t /\ "mode_guard" \notin t, {t \cup {"mode_guard"}}),
     missing_cert_pinning |->
        Rule(3, Junior, "auth_client" \in t /\ "pinning" \notin t, {t \cup {"pinning"}}),
     biometric_no_fallback |->
        Rule(3, Junior, "local_auth" \in t /\ "biometric_only" \notin t, {t \cup {"biometric_only"}})]

(* exported=true passes only when a permission follows it on its line; the  *)
(* permission the hint asks for may stand on another.                       *)
PlatformRules(kind, t) ==
    [cleartext_traffic_allow |->
        Rule(2, Junior, kind = "manifest" /\ "cleartext" \in t, {t \ {"cleartext"}}),
     exported_component |->
        Rule(2, Junior, kind = "manifest" /\ "exported" \in t, {t, t \ {"exported"}}),
     ats_disabled |-> Rule(2, Junior, kind = "plist" /\ "arbitrary_loads" \in t, {t \ {"arbitrary_loads"}}),
     debug_signing_in_release |->
        Rule(2, Junior, kind = "gradle" /\ "debug_signing" \in t, {t \ {"debug_signing"}})]

(* What a .env file holds is reported whether git ignores it or not.        *)
EnvContentRules(t) ==
    [hardcoded_api_key |-> Rule(1, Junior, {"present", "api_key"} \subseteq t, {t \cup {"ignored"}}),
     hardcoded_pem |-> Rule(1, Junior, {"present", "pem"} \subseteq t, {t \cup {"ignored"}})]

EnvFileRules_any(t) ==
    [committed_env_file |-> Rule(1, Junior, "present" \in t, {t \cup {"ignored"}})]

EnvFileRules(t) ==
    [committed_env_file |->
        Rule(1, Junior, "present" \in t /\ "ignored" \notin t, {t \cup {"ignored"}})]

ScannedAt(place, t) ==
    CASE SecurityKind[place] = "dart" ->
            At(place, CriticalDartRules(place, t)) \cup At(place, HighDartRules(t))
                \cup At(place, MediumDartRules(t))
      [] SecurityKind[place] = "env" -> At(place, EnvContentRules(t))
      [] OTHER -> At(place, PlatformRules(SecurityKind[place], t))

RepoLevelAt(place, t) == IF SecurityKind[place] = "env" THEN At(place, EnvFileRules(t)) ELSE {}

(* The files the request is about: with `paths', those of them that exist.  *)
Scanned(paths, p) == IF paths = {} THEN DOMAIN p ELSE DOMAIN p \cap paths

SecurityAt(place, t, scanned) ==
    (IF place \in scanned THEN ScannedAt(place, t) ELSE {}) \cup RepoLevelAt(place, t)

SecurityFindings(p, scanned) == UNION {SecurityAt(x, p[x], scanned) : x \in DOMAIN p}

SecurityWeights == <<20, 6, 1>>

(* 1 secure, 2 acceptable, 3 at_risk, 4 critical.                           *)
SecurityGrade(kept, size, files) ==
    LET w == Weight(SecurityWeights, kept)
    IN  IF files = 0 THEN 1
        ELSE IF kept[1] > 0 THEN 4
        ELSE IF kept[2] >= 5 \/ AtLeast(w, 15, size) THEN 3
        ELSE IF kept[2] > 0 \/ AtLeast(w, 3, size) THEN 2
        ELSE 1
=============================================================================
