--------------------------- MODULE SeniorityAudit ---------------------------
(***************************************************************************)
(* audit_code_seniority: the rules of domain/usecases/                     *)
(* audit_code_seniority.py on the files of a Flutter project.  A file is   *)
(* known by the role its path gives it.                                    *)
(***************************************************************************)
EXTENDS Findings

SeniorityRole ==
    [page       |-> [widget |-> TRUE,  repo |-> FALSE, impl |-> FALSE, bloc |-> FALSE, di |-> FALSE, layer |-> "presentation"],
     repository |-> [widget |-> FALSE, repo |-> TRUE,  impl |-> FALSE, bloc |-> FALSE, di |-> FALSE, layer |-> "domain"],
     repository_impl
                |-> [widget |-> FALSE, repo |-> FALSE, impl |-> TRUE,  bloc |-> FALSE, di |-> FALSE, layer |-> "data"],
     bloc       |-> [widget |-> FALSE, repo |-> FALSE, impl |-> FALSE, bloc |-> TRUE,  di |-> FALSE, layer |-> "presentation"],
     injection  |-> [widget |-> FALSE, repo |-> FALSE, impl |-> FALSE, bloc |-> FALSE, di |-> TRUE,  layer |-> "core"]]

(* Generated files and excluded directories are no places of a project.      *)
(* `exempt' is a barrel, an entity, a model, a token or main.dart.           *)
SeniorityTraits ==
    {"print", "todo", "odd_null", "setState", "stateless", "stateful", "network", "throw", "getIt",
     "new_repo", "controller", "dispose", "debugPrint", "kDebugMode", "magic_numbers", "no_base",
     "future", "either", "tested", "exempt", "long_build", "deep_build", "no_key", "imports_data",
     "imports_presentation", "imports_other_data", "many_events"}

SeniorityLineRules(f, t) ==
    [print_in_lib |-> Rule(2, Junior, "print" \in t, {(t \ {"print"}) \cup {"debugPrint", "kDebugMode"}}),
     untitled_todo |-> Rule(3, Junior, "todo" \in t, {t \ {"todo"}}),
     double_question_mark |-> Rule(3, Junior, "odd_null" \in t, {t \ {"odd_null"}}),
     setstate_in_stateless |->
        Rule(1, Junior, {"setState", "stateless"} \subseteq t /\ "stateful" \notin t,
             {t \ {"setState"}, (t \ {"stateless"}) \cup {"stateful"}}),
     business_logic_in_widget |-> Rule(2, Mid, f.widget /\ "network" \in t, {t \ {"network"}}),
     throw_in_repo |-> Rule(2, Mid, (f.repo \/ f.impl) /\ "throw" \in t, {t \ {"throw"}}),
     direct_di_lookup |-> Rule(2, Senior, "getIt" \in t /\ ~f.di, {t \ {"getIt"}}),
     repo_in_widget |->
        Rule(1, Staff, f.widget /\ "new_repo" \in t,
             {t \ {"new_repo"}, (t \ {"new_repo"}) \cup {"getIt"}}),
     debugprint_in_release |->
        Rule(3, Senior, "debugPrint" \in t /\ "kDebugMode" \notin t, {t \cup {"kDebugMode"}})]

SeniorityFileRules(f, t) ==
    [magic_numbers |-> Rule(3, Junior, "magic_numbers" \in t, {t \ {"magic_numbers"}}),
     missing_dispose |->
        Rule(1, Mid, {"stateful", "controller"} \subseteq t /\ "dispose" \notin t, {t \cup {"dispose"}}),
     no_base_class |-> Rule(2, Senior, f.bloc /\ "no_base" \in t, {t \ {"no_base"}}),
     no_either_return |->
        Rule(2, Senior, f.repo /\ "future" \in t /\ "either" \notin t, {t \cup {"either"}}),
     orphan_source |->
        Rule(3, Senior, "tested" \notin t /\ "exempt" \notin t, {t \cup {"tested"}}),
     monolithic_bloc |-> Rule(3, Staff, f.bloc /\ "many_events" \in t, {t \ {"many_events"}})]

SeniorityBuildRules(t) ==
    [god_widget |-> Rule(2, Mid, "long_build" \in t, {t \ {"long_build"}}),
     deep_nesting |-> Rule(3, Mid, "deep_build" \in t, {t \ {"deep_build"}})]

SeniorityKeyRules(t) ==
    [missing_key_param |-> Rule(3, Senior, "no_key" \in t, {t \ {"no_key"}})]

(* An import of another feature's data layer is also one of a data layer.   *)
SeniorityLayerRules(f, t) ==
    [presentation_imports_data |->
        Rule(1, Staff, f.layer = "presentation" /\ t \cap {"imports_data", "imports_other_data"} # {},
             {t \ {"imports_data", "imports_other_data"}}),
     data_imports_presentation |->
        Rule(1, Staff, f.layer = "data" /\ "imports_presentation" \in t, {t \ {"imports_presentation"}}),
     cross_feature_data_import |->
        Rule(2, Staff, f.layer # "core" /\ "imports_other_data" \in t, {t \ {"imports_other_data"}})]

SeniorityAt(place, t) ==
    LET f == SeniorityRole[place]
    IN  At(place, SeniorityLineRules(f, t)) \cup At(place, SeniorityFileRules(f, t))
            \cup At(place, SeniorityBuildRules(t)) \cup At(place, SeniorityKeyRules(t))
            \cup At(place, SeniorityLayerRules(f, t))

SeniorityFindings(p) == UNION {SeniorityAt(x, p[x]) : x \in DOMAIN p}

(* What autofix=True proposes for a finding of place x: the text after the  *)
(* mechanical edit.                                                         *)
SeniorityPreview(p, x) ==
    CASE x.rule = "print_in_lib" ->
            [p EXCEPT ![x.place] = (@ \ {"print"}) \cup {"debugPrint"}]
      [] x.rule = "missing_key_param" -> [p EXCEPT ![x.place] = @ \ {"no_key"}]
      [] OTHER -> p

SeniorityWeights == <<10, 4, 1>>

(* 1 staff, 2 senior, 3 mid, 4 junior, 5 needs_review.                      *)
SeniorityGrade(kept, size, files) ==
    LET w == Weight(SeniorityWeights, kept)
    IN  IF files = 0 \/ AtLeast(w, 20, size) THEN 5
        ELSE IF AtLeast(w, 10, size) THEN 4
        ELSE IF AtLeast(w, 5, size) THEN 3
        ELSE IF AtLeast(w, 2, size) THEN 2
        ELSE 1
=============================================================================
