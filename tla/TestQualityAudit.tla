-------------------------- MODULE TestQualityAudit --------------------------
(***************************************************************************)
(* audit_test_quality: the rules of domain/usecases/audit_test_quality.py  *)
(* on a unit test file, a file of fakes and an integration test file, and  *)
(* on the suite as a whole.                                                *)
(***************************************************************************)
EXTENDS Findings

TestTraits ==
    {"bare_pump", "unawaited_pump", "pump", "find_text", "l10n", "sleep", "vacuous", "skip",
     "mocked_sut", "network", "firebase", "many_pumps", "golden", "verified", "test", "two_tests",
     "failure_assert", "testWidgets", "provider", "Bloc", "Widget", "setState", "pump_after",
     "long_settle", "tags", "random", "imports_test"}

SuiteTraits == {"integration_heavy", "twenty_files", "helpers"}

TestLineRules(t) ==
    [bare_pump |-> Rule(2, Junior, "bare_pump" \in t, {(t \ {"bare_pump"}) \cup {"pump"}}),
     await_missing_on_pump |->
        Rule(2, Junior, "unawaited_pump" \in t, {(t \ {"unawaited_pump"}) \cup {"pump"}}),
     hardcoded_locale_string |->
        Rule(3, Junior, "find_text" \in t /\ "l10n" \notin t, {t \ {"find_text"}, t \cup {"l10n"}}),
     sleep_in_test |-> Rule(2, Junior, "sleep" \in t, {t \ {"sleep"}, (t \ {"sleep"}) \cup {"pump"}}),
     vacuous_expect |-> Rule(2, Junior, "vacuous" \in t, {t \ {"vacuous"}}),
     untitled_skip |-> Rule(2, Junior, "skip" \in t, {t \ {"skip"}})]

(* A file of fakes may talk to the real thing.                              *)
IsolationRules(place, t) ==
    [mocked_sut |-> Rule(2, Mid, "mocked_sut" \in t, {t \ {"mocked_sut"}}),
     network_call_unmocked |->
        Rule(1, Mid, "network" \in t /\ place # "fake_test", {t \ {"network"}}),
     firestore_instance_unmocked |->
        Rule(1, Mid, "firebase" \in t /\ place # "fake_test", {t \ {"firebase"}}),
     pump_count_smell |-> Rule(3, Mid, "many_pumps" \in t, {(t \ {"many_pumps"}) \cup {"pump"}}),
     golden_no_verified_comment |->
        Rule(3, Mid, "golden" \in t /\ "verified" \notin t, {t \cup {"verified"}})]

TestDesignRules(place, t) ==
    [missing_failure_path |->
        Rule(2, Senior, "two_tests" \in t /\ "failure_assert" \notin t, {t \cup {"failure_assert"}}),
     widget_test_no_provider |->
        Rule(3, Senior, {"testWidgets", "Bloc"} \subseteq t /\ place # "integration_test" /\ "provider" \notin t,
             {t \cup {"provider"}}),
     no_pump_after_setstate |->
        Rule(3, Senior, {"setState", "testWidgets"} \subseteq t /\ "pump_after" \notin t,
             {t \cup {"pump_after"}}),
     flaky_tag_unused |->
        Rule(3, Senior, "long_settle" \in t /\ "tags" \notin t, {t \cup {"tags"}}),
     nondeterministic_random_seed |-> Rule(2, Staff, "random" \in t, {t \ {"random"}}),
     test_imports_test |-> Rule(3, Staff, "imports_test" \in t, {t \ {"imports_test"}})]

(* An integration test that touches no widget; the hint moves it to test/.  *)
MisplacedTests(p) ==
    LET t == p["integration_test"]
        moved == [integration_test |-> {}, unit_test |-> p["unit_test"] \cup t]
    IN  IF /\ "integration_test" \in DOMAIN p
           /\ t \cap {"test", "two_tests", "testWidgets"} # {}
           /\ t \cap {"Widget", "pump", "bare_pump", "unawaited_pump", "many_pumps", "long_settle"} = {}
        THEN {[rule |-> "e2e_doing_unit_work", place |-> "integration_test", line |-> 0,
               sev |-> 2, lvl |-> Senior, fixes |-> {moved}]}
        ELSE {}

(* "suite" holds what is counted over all files.                            *)
SuiteRules(t) ==
    [integration_test_count_dominates |->
        Rule(3, Staff, "integration_heavy" \in t, {t \ {"integration_heavy"}}),
     no_test_helpers_dir |->
        Rule(3, Staff, "twenty_files" \in t /\ "helpers" \notin t, {t \cup {"helpers"}})]

TestAt(place, t) ==
    IF place = "suite" THEN At(place, SuiteRules(t))
    ELSE At(place, TestLineRules(t)) \cup At(place, IsolationRules(place, t))
            \cup At(place, TestDesignRules(place, t))

TestFindings(p) == (UNION {TestAt(x, p[x]) : x \in DOMAIN p}) \cup MisplacedTests(p)

TestWeights == <<10, 4, 1>>

(* Blockers only weigh in.                                                  *)
TestGrade_weighted(kept, size, files) ==
    LET w == Weight(TestWeights, kept)
    IN  IF files = 0 THEN 1
        ELSE IF AtLeast(w, 15, size) \/ kept[2] >= 5 THEN 3
        ELSE IF AtLeast(w, 5, size) \/ kept[2] > 0 THEN 2
        ELSE 1

(* 1 excellent, 2 acceptable, 3 fragile, 4 unreliable.                      *)
TestGrade(kept, size, files) ==
    LET w == Weight(TestWeights, kept)
    IN  IF files = 0 THEN 1
        ELSE IF kept[1] > 0 THEN 4
        ELSE IF AtLeast(w, 15, size) \/ kept[2] >= 5 THEN 3
        ELSE IF AtLeast(w, 5, size) \/ kept[2] > 0 THEN 2
        ELSE 1
=============================================================================
