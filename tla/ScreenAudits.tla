---------------------------- MODULE ScreenAudits ----------------------------
(***************************************************************************)
(* Two audits of what a user sees.  audit_maestro_flow: the rules of       *)
(* domain/usecases/audit_maestro_flow.py on Maestro flows and on the       *)
(* directory they are in ("directory" has the traits of the directory;     *)
(* every other place is a flow in it).  audit_accessibility: the checks of *)
(* domain/usecases/audit_accessibility.py on the elements of an Android    *)
(* screen.  On iOS the dump has another form, no element is found and the  *)
(* screen is clean.                                                        *)
(***************************************************************************)
EXTENDS Findings

(* Tags below the first kilobyte are seen by the rule on a flow and not by   *)
(* the one on a directory.                                                   *)
FlowTraits ==
    {"steps", "appId", "tags", "late_tags", "assertion", "literal_tap", "vacuous", "wait",
     "long_script", "many_runFlow", "email"}

DirectoryTraits == {"five_flows", "ten_flows", "negative_flow", "fixtures"}

FlowsOf(p) == DOMAIN p \ {"directory"}

FlowRules(t) ==
    LET steps == t \cap {"steps", "literal_tap", "email"} # {}
    IN  [no_appId |-> Rule(2, Mid, steps /\ "appId" \notin t, {t \cup {"appId"}}),
         no_tags |->
            Rule(3, Mid, steps /\ t \cap {"tags", "late_tags"} = {}, {t \cup {"tags"}, t \cup {"late_tags"}}),
         no_assertions |->
            Rule(2, Junior, steps /\ t \cap {"assertion", "vacuous"} = {}, {t \cup {"assertion"}}),
         hardcoded_locale_string |->
            Rule(3, Junior, "literal_tap" \in t, {(t \ {"literal_tap"}) \cup {"steps"}}),
         vacuous_assertion |-> Rule(2, Junior, "vacuous" \in t, {(t \ {"vacuous"}) \cup {"assertion"}}),
         sleep_in_flow |->
            Rule(2, Junior, "wait" \in t, {t \ {"wait"}, (t \ {"wait"}) \cup {"assertion"}}),
         inline_script_too_long |-> Rule(3, Mid, "long_script" \in t, {t \ {"long_script"}}),
         nested_runFlow_deep |-> Rule(3, Staff, "many_runFlow" \in t, {t \ {"many_runFlow"}}),
         hardcoded_credentials_in_env |->
            Rule(3, Staff, "email" \in t, {(t \ {"email"}) \cup {"steps"}})]

(* The first rule only asks for tags on the flows.                           *)
UntaggedWhenMany(p) ==
    IF /\ p["directory"] \cap {"five_flows", "ten_flows"} # {}
       /\ \A f \in FlowsOf(p) : "tags" \notin p[f]
    THEN {[rule |-> "untagged_when_many", place |-> "directory", line |-> 0, sev |-> 3, lvl |-> Senior,
           fixes |-> {[f \in FlowsOf(p) |-> p[f] \cup {"tags"}]}]}
    ELSE {}

DirectoryRules(t) ==
    [missing_failure_path |->
        Rule(2, Senior, t \cap {"five_flows", "ten_flows"} # {} /\ "negative_flow" \notin t,
             {t \cup {"negative_flow"}}),
     no_test_data_factory_dir |->
        Rule(3, Staff, "ten_flows" \in t /\ "fixtures" \notin t, {t \cup {"fixtures"}})]

FlowFindings(p) ==
    IF p = <<>> THEN {}
    ELSE (UNION {At(f, FlowRules(p[f])) : f \in FlowsOf(p)})
            \cup UntaggedWhenMany(p) \cup At("directory", DirectoryRules(p["directory"]))

(* The score is per flow, in thousandths.                                    *)
FlowCount(p) ==
    IF p = <<>> THEN 0
    ELSE IF "ten_flows" \in p["directory"] THEN 10
    ELSE IF "five_flows" \in p["directory"] THEN 5
    ELSE Cardinality(FlowsOf(p))

FlowWeights == <<10, 4, 1>>

(* 1 excellent or not_using_maestro, 2 acceptable, 3 fragile, 4 unreliable.  *)
FlowGrade(kept, flows) ==
    LET w == Weight(FlowWeights, kept)
    IN  IF flows = 0 THEN 1
        ELSE IF kept[1] > 0 THEN 4
        ELSE IF AtLeast(w, 10, 1000 * flows) \/ kept[2] >= 5 THEN 3
        ELSE IF AtLeast(w, 3, 1000 * flows) \/ kept[2] > 0 THEN 2
        ELSE 1
-----------------------------------------------------------------------------
ElementTraits == {"clickable", "small", "label", "disabled", "ignored_class"}

(* One of the two hints for a disabled element, Semantics(enabled: false),   *)
(* leaves it as it is.                                                       *)
ElementChecks(t) ==
    LET checked == "clickable" \in t /\ "ignored_class" \notin t
    IN  [tap_target_too_small |-> Rule(2, Junior, checked /\ "small" \in t, {t \ {"small"}}),
         missing_accessible_label |-> Rule(1, Junior, checked /\ "label" \notin t, {t \cup {"label"}}),
         disabled_interactive_unmarked |->
            Rule(3, Junior, checked /\ "disabled" \in t, {t \ {"clickable"}, t})]

AccessibilityFindings(p) ==
    IF "ios" \in DOMAIN p THEN {} ELSE UNION {At(x, ElementChecks(p[x])) : x \in DOMAIN p}

(* 1 clean or only polish, 2 fix before the next release, 3 must be fixed.   *)
AccessibilityVerdict(found) ==
    IF found[1] > 0 THEN 3 ELSE IF found[2] > 0 THEN 2 ELSE 1
=============================================================================
