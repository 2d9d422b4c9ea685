---------------------------- MODULE ProjectAudits ----------------------------
(***************************************************************************)
(* A team and one of the static audits.  The team edits its project, calls *)
(* the audit, which reads the project as it is, and follows the fix_hint   *)
(* of a finding it was shown, or applies the edit autofix proposes.  The   *)
(* audit keeps nothing: what it finds is a function of the project, what it *)
(* answers of that and of the request.                                     *)
(***************************************************************************)
EXTENDS SeniorityAudit, SecurityAudit, PerformanceAudit, TestQualityAudit, DependencyAudit,
        LocalizationAudit, WebAppAudit, ScreenAudits

CONSTANTS Audits,      \* the audits a team may use
          Start,       \* Start[a]: the projects a team starts from
          MinLevels,   \* the thresholds it asks for, 1 the lowest
          MaxFindings, \* the values of max_findings it asks for
          Paths,       \* the lists of paths it names to the security audit; {} is none
          LineCounts,  \* the lines a project may have that is not empty
          EnvSecrets,  \* what may stand in a .env file: a subset of {"api_key", "pem"}
          MaxEdits     \* edits of the project that follow no hint

AuditNames ==
    {"seniority", "performance", "security", "test_quality", "dependencies", "localization", "web_app",
     "maestro_flow", "accessibility"}

(* The schemas let max_findings be any number; a negative one, which would  *)
(* cut from the end of the list, is not modelled.                           *)
ASSUME TeamAssumption ==
    /\ Audits \subseteq AuditNames
    /\ MaxFindings \subseteq Nat
    /\ LineCounts \subseteq Nat
    /\ \A a \in Audits : \A p \in Start[a] : IsFiniteSet(DOMAIN p)

VARIABLES ask,      \* the request: the audit, its threshold, max_findings and paths
          project,  \* what each place of the project holds
          lines,    \* the lines it has, for an audit that counts them
          found,    \* what an audit of the project as it is finds
          edits     \* the edits so far

teamVars == <<ask, project, lines, found, edits>>

(* The audits whose score is per thousand lines.                            *)
CountLines == {"seniority", "performance", "security", "test_quality", "localization"}

(* An empty project has no places.                                          *)
TraitsOf(audit, place) ==
    CASE audit = "seniority" -> SeniorityTraits
      [] audit = "performance" -> PerformanceTraits
      [] audit = "security" -> IF place = "env" THEN EnvSecrets \cup {"present", "ignored"} ELSE SecurityTraits
      [] audit = "test_quality" -> IF place = "suite" THEN SuiteTraits ELSE TestTraits
      [] audit = "dependencies" -> IF place = "environment" THEN {"loose"} ELSE PackageTraits
      [] audit = "localization" ->
            IF place = "page" THEN PageTraits ELSE IF place = "app" THEN AppTraits ELSE Keys \cup {"file"}
      [] audit = "web_app" ->
            [index |-> IndexTraits, manifest |-> ManifestTraits, headers |-> HeadersTraits,
             listing |-> ListingTraits][place]
      [] audit = "maestro_flow" -> IF place = "directory" THEN DirectoryTraits ELSE FlowTraits
      [] audit = "accessibility" -> ElementTraits

(* Of the other audits a list of paths is not modelled.                     *)
AllFindings(audit, paths, p) ==
    CASE audit = "seniority" -> SeniorityFindings(p)
      [] audit = "performance" -> PerformanceFindings(p)
      [] audit = "security" -> SecurityFindings(p, Scanned(paths, p))
      [] audit = "test_quality" -> TestFindings(p)
      [] audit = "dependencies" -> DependencyFindings(p, TRUE)
      [] audit = "localization" -> LocalizationFindings(p)
      [] audit = "web_app" -> WebFindings(p)
      [] audit = "maestro_flow" -> FlowFindings(p)
      [] audit = "accessibility" -> AccessibilityFindings(p)

(* Security and performance filter by severity, the others by tier; their   *)
(* second threshold is high, the release audit's choice for senior.         *)
(* Accessibility takes no threshold and cuts nothing.                       *)
AboveThreshold(a, x) ==
    CASE a.audit \in {"security", "performance"} -> a.min >= Senior => x.sev <= 2
      [] a.audit = "accessibility" -> TRUE
      [] OTHER -> x.lvl >= a.min

Reported(a, all) == {x \in all : AboveThreshold(a, x)}

Kept(a, all) ==
    IF a.audit = "accessibility" THEN Counts(all) ELSE Cut(Counts(Reported(a, all)), a.max)

(* What a grade depends on besides the findings and the size of the project. *)
Besides(a, p) ==
    CASE a.audit = "dependencies" -> <<DependencySize(p)>>
      [] a.audit = "maestro_flow" -> <<FlowCount(p)>>
      [] a.audit = "localization" /\ p # <<>> -> <<Cardinality(ArbLocales(p)), Hardcoded(p)>>
      [] OTHER -> <<>>

Weights(a) ==
    CASE a.audit = "security" -> SecurityWeights
      [] a.audit = "performance" -> PerformanceWeights
      [] OTHER -> SeniorityWeights

Size(n) == IF n = 0 THEN 1 ELSE n

(* 1 is the best grade of every audit; n is the number of lines.            *)
Grade(a, p, n, all) ==
    LET kept == Kept(a, all)
        files == Cardinality(Scanned(a.paths, p))
    IN  CASE a.audit = "seniority" -> SeniorityGrade(kept, Size(n), files)
          [] a.audit = "performance" -> PerformanceGrade(kept, Size(n), files)
          [] a.audit = "security" -> SecurityGrade(kept, Size(n), files)
          [] a.audit = "test_quality" -> TestGrade(kept, Size(n), files)
          [] a.audit = "dependencies" -> DependencyGrade(kept, DependencySize(p))
          [] a.audit = "localization" ->
                IF p = <<>> THEN LocalizationGrade(kept, Size(n), 0, 0)
                ELSE LocalizationGrade(kept, Size(n), Cardinality(ArbLocales(p)), Hardcoded(p))
          [] a.audit = "web_app" -> WebGrade(kept)
          [] a.audit = "maestro_flow" -> FlowGrade(kept, FlowCount(p))
          [] a.audit = "accessibility" -> AccessibilityVerdict(kept)

(* Which of equally severe findings the cut leaves depends on file names.   *)
Shown(a, all) ==
    LET kept == Kept(a, all) IN {x \in Reported(a, all) : kept[x.sev] > 0}

TeamInit ==
    /\ \E a \in Audits, l \in MinLevels, n \in MaxFindings :
        \E paths \in (IF a = "security" THEN Paths ELSE {{}}) :
            ask = [audit |-> a, min |-> l, max |-> n, paths |-> paths]
    /\ project \in Start[ask.audit]
    /\ \E n \in LineCounts : lines = IF ask.audit \in CountLines /\ project # <<>> THEN n ELSE 0
    /\ found = AllFindings(ask.audit, ask.paths, project)
    /\ edits = 0

Audited == found' = AllFindings(ask.audit, ask.paths, project')

Toggle(s, t) == IF t \in s THEN s \ {t} ELSE s \cup {t}

(* What is written may bring a line along, and what is removed take one.    *)
LinesAfter(place, t) ==
    IF ask.audit \notin CountLines THEN {lines}
    ELSE IF t \in project[place] THEN {lines, lines - 1} \cap Nat
    ELSE {lines, lines + 1}

EditPlace ==
    /\ edits < MaxEdits
    /\ edits' = edits + 1
    /\ \E place \in DOMAIN project : \E t \in TraitsOf(ask.audit, place) :
            /\ project' = [project EXCEPT ![place] = Toggle(@, t)]
            /\ lines' \in LinesAfter(place, t)
    /\ Audited
    /\ UNCHANGED ask

(* The project after a hint's change of texts.                              *)
With(p, texts) == [y \in DOMAIN p \cup DOMAIN texts |-> IF y \in DOMAIN texts THEN texts[y] ELSE p[y]]

(* A hint or an edit of autofix is taken to leave the number of lines.      *)
FollowHint(x) ==
    /\ \E texts \in x.fixes : project' = With(project, texts)
    /\ Audited
    /\ UNCHANGED <<ask, lines, edits>>

Follow == \E x \in Shown(ask, found) : FollowHint(x)

ApplyPreview(x) ==
    /\ x.rule \in {"print_in_lib", "missing_key_param"}
    /\ project' = SeniorityPreview(project, x)
    /\ Audited
    /\ UNCHANGED <<ask, lines, edits>>

Autofix ==
    /\ ask.audit = "seniority"
    /\ \E x \in found : ApplyPreview(x)

TeamNext == EditPlace \/ Follow \/ Autofix

(* The team keeps following hints while it is shown findings.               *)
TeamSpec == TeamInit /\ [][TeamNext]_teamVars /\ WF_teamVars(Follow)
-----------------------------------------------------------------------------
(* A finding of the worst severity is never lost to max_findings: with one  *)
(* above the threshold, an audit that gates on it gives its worst grade     *)
(* (audit_security.py:206-220, audit_test_quality.py:183-204).  Only when   *)
(* the security audit is given paths without a file to scan is the project  *)
(* `secure' beside a .env file in git (audit_security.py:199, 731-732).     *)
WorstAlwaysCounts ==
    (/\ ask.audit \in {"security", "test_quality"}
     /\ Scanned(ask.paths, project) # {}
     /\ \E x \in Reported(ask, found) : x.sev = 1) => Grade(ask, project, lines, found) = 4

SameKind(x, y) == x.rule = y.rule /\ x.place = y.place /\ x.line = y.line

(* The rules with a hint that may be followed in a way they do not see      *)
(* (audit_security.py:535, 542, 604, audit_accessibility.py:338-342).       *)
DeafRules ==
    {"print_leaks_pii", "clipboard_for_secrets", "exported_component", "disabled_interactive_unmarked"}

(* What the team is told to do, but for the DeafRules.                      *)
Answered == {x \in Shown(ask, found) : x.rule \notin DeafRules}

(* There is something to do, and who does it is not told the same again.    *)
HintsChange == \A x \in Answered : \A texts \in x.fixes : With(project, texts) # project
HintsAnswer ==
    \A x \in Answered : (\E texts \in x.fixes : project' = With(project, texts)) =>
        \A y \in found' : ~SameKind(x, y)

(* Whatever the team has just done, every hint it is told asks for a change *)
(* and answers its finding, but those of the DeafRules; and a team that does *)
(* as the hints say ends with nothing to report, for no hint leads back to  *)
(* an earlier finding.  Of a hint of the DeafRules the team tries its other *)
(* way when it is told the same again (the fix_hint of every rule).         *)
HintsConverge ==
    /\ [][HintsAnswer /\ HintsChange']_teamVars
    /\ <>[](Reported(ask, found) = {})

(* The used keys are compared with the .arb of the default locale only when *)
(* that has any, so the first key put there, or another default locale, may *)
(* bring up missing ones (audit_localization.py:324-330, 497).              *)
SameComparison ==
    (ask.audit = "localization" /\ project # <<>>) =>
        (DefaultKeys(project) # {} /\ DefaultLocale(project)' = DefaultLocale(project))

(* A hint never leads to a worse weighted sum of what is shown, whatever    *)
(* the cut hid before.  (An edit of autofix may, for it is not filtered by  *)
(* min_level: the debugPrint it writes for a junior finding is a senior's.) *)
HintsNeverCostMore ==
    [][Follow /\ SameComparison =>
        Weight(Weights(ask), Kept(ask, found)') <= Weight(Weights(ask), Kept(ask, found))]_teamVars

Length(n) == n[1] + n[2] + n[3]

OnlyMore ==
    /\ Besides(ask, project)' = Besides(ask, project)
    /\ \A x \in Reported(ask, found) : \E y \in Reported(ask, found') : SameKind(x, y)
    /\ lines' - lines <= Length(Kept(ask, found)') - Length(Kept(ask, found))

(* An edit that only adds findings never buys a better grade, although the  *)
(* list is cut before it is graded and weighed against the lines of the     *)
(* project (execute of every audit): that is so as long as every line the   *)
(* edit adds brings a finding the list has room for.  When the list is full *)
(* a line with one more finding makes the score better, since the finding   *)
(* is cut and the line is not (audit_code_seniority.py:250-265).            *)
MoreIsNeverBetter ==
    [][OnlyMore => Grade(ask, project, lines, found)' >= Grade(ask, project, lines, found)]_teamVars
=============================================================================
