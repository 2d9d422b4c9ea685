--------------------------- MODULE DependencyAudit ---------------------------
(***************************************************************************)
(* audit_dependencies: the rules of domain/usecases/audit_dependencies.py  *)
(* on pubspec.yaml, pubspec.lock and the imports of lib/.  A place is a    *)
(* package: its traits say where it is declared, how its version is given  *)
(* and whether lib/ imports it.  "environment" is the SDK constraint.      *)
(***************************************************************************)
EXTENDS Findings

Version == {"caret", "any", "nested", "wide", "lock_ahead"}
PackageTraits == {"main", "dev", "imported"} \cup Version

(* The knowledge bases, a member or two each.                               *)
SecuritySensitive == {"dio", "url_launcher"}
DevOnly == {"build_runner", "freezed_annotation"}
KnownProblematic == {"share"}
CopyleftName == {"gpl_viewer"}
ImplicitDeps == {"flutter", "flutter_localizations"}

(* Only what is in dependencies counts as declared.                          *)
Declared_main(t) == "main" \in t

Declared(t) == t \cap {"main", "dev"} # {}

VersionRules(pkg, t) ==
    [pinned_to_caret_only |->
        Rule(3, Mid, pkg \in SecuritySensitive /\ "main" \in t /\ t \cap {"caret", "any"} # {},
             {t \ {"caret", "any"}}),
     outdated_majors |->
        Rule(3, Mid, {"main", "caret", "lock_ahead"} \subseteq t, {t \ {"lock_ahead"}}),
     wide_version_range |-> Rule(2, Mid, {"main", "wide"} \subseteq t, {t \ {"wide"}})]

(* A nested value counts as an override, only in a published app.           *)
OverrideRules(pkg, t, published) ==
    [git_or_path_override |->
        Rule(2, Junior, published /\ Declared(t) /\ "nested" \in t /\ pkg \notin ImplicitDeps,
             {(t \ {"nested"}) \cup {"caret"}})]

SectionRules(pkg, t) ==
    [dev_dep_in_dependencies |->
        Rule(2, Junior, "main" \in t /\ pkg \in DevOnly, {(t \ {"main"}) \cup {"dev"}}),
     unused_dependency |->
        Rule(3, Senior, "main" \in t /\ pkg \notin ImplicitDeps /\ "imported" \notin t,
             {t \ {"main"}, (t \ {"main"}) \cup {"dev"}}),
     transitive_used_as_direct |->
        Rule(2, Senior, "imported" \in t /\ ~Declared(t) /\ pkg \notin ImplicitDeps,
             {(t \ Version) \cup {"main"}, (t \ Version) \cup {"main", "caret"}}),
     duplicated_dependency |->
        Rule(2, Senior, {"main", "dev"} \subseteq t, {t \ {"main"}, t \ {"dev"}})]

SupplyRules(pkg, t) ==
    [known_vulnerable_package |->
        Rule(2, Staff, Declared(t) /\ pkg \in KnownProblematic, {t \ {"main", "dev", "imported"}}),
     license_blocklist |->
        Rule(3, Staff, Declared(t) /\ pkg \in CopyleftName, {t \ {"main", "dev", "imported"}})]

EnvironmentRules(t) ==
    [flutter_sdk_constraint_loose |-> Rule(3, Staff, "loose" \in t, {t \ {"loose"}})]

DependencyAt(pkg, t, published) ==
    IF pkg = "environment" THEN At(pkg, EnvironmentRules(t))
    ELSE At(pkg, VersionRules(pkg, t)) \cup At(pkg, OverrideRules(pkg, t, published))
            \cup At(pkg, SectionRules(pkg, t)) \cup At(pkg, SupplyRules(pkg, t))

DependencyFindings(p, published) == UNION {DependencyAt(x, p[x], published) : x \in DOMAIN p}

(* The score is per declared dependency, in thousandths.                    *)
DependencySize(p) ==
    LET n == Cardinality({x \in DOMAIN p : "main" \in p[x]})
    IN  1000 * (IF n = 0 THEN 1 ELSE n)

DependencyWeights == <<10, 4, 1>>

(* 1 clean, 2 acceptable, 3 at_risk, 4 blocked.                             *)
DependencyGrade(kept, size) ==
    LET w == Weight(DependencyWeights, kept)
    IN  IF kept[1] > 0 THEN 4
        ELSE IF kept[2] >= 5 \/ AtLeast(w, 4, size) THEN 3
        ELSE IF kept[2] > 0 \/ AtLeast(w, 1, size) THEN 2
        ELSE 1
=============================================================================
