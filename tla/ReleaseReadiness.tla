-------------------------- MODULE ReleaseReadiness --------------------------
(***************************************************************************)
(* audit_release_readiness: the included domains are audited one after the *)
(* other, while others go on editing the project and writing reports; what *)
(* the domains answered is reduced to a score and a number of blockers     *)
(* each, and these to a verdict.                                           *)
(***************************************************************************)
EXTENDS SeniorityAudit, SecurityAudit, PerformanceAudit, TestQualityAudit, DependencyAudit,
        LocalizationAudit, WebAppAudit, SequencesExt

-----------------------------------------------------------------------------
(* ingest_maestro_report and ingest_lighthouse_report: what they make of a   *)
(* report another program wrote.  A Maestro report is a sequence of flows,   *)
(* each the set of the elements below its <testcase>, or its JSON status.    *)
(* A Lighthouse report says in which band each measure is, or "none".        *)

(* A failure with a <rerunFailure> beside it counts as flaky.                *)
JunitOutcome(elements) ==
    IF "skipped" \in elements THEN "skipped"
    ELSE IF elements \cap {"flaky-failure", "rerunFailure"} # {} THEN "flaky"
    ELSE IF elements \cap {"failure", "error"} # {} THEN "failed"
    ELSE "passed"

JsonOutcome(status) ==
    CASE status \in {"pass", "passed", "success"} -> "passed"
      [] status \in {"fail", "failed", "error"} -> "failed"
      [] status \in {"skip", "skipped"} -> "skipped"
      [] status \in {"flaky", "passed_with_retry"} -> "flaky"
      [] OTHER -> "unknown"

Outcome(flow) == IF flow.xml THEN JunitOutcome(flow.says) ELSE JsonOutcome(flow.says)

Flows(report, outcome) == Cardinality({i \in DOMAIN report : Outcome(report[i]) = outcome})

(* Passed in the prior report and failed in this one.  Flows with one name   *)
(* are one.                                                                  *)
Regressions(report, prior) ==
    {report[i].name : i \in {j \in DOMAIN report : Outcome(report[j]) = "failed"}}
        \cap {prior[i].name : i \in {j \in DOMAIN prior : Outcome(prior[j]) = "passed"}}

(* 1 clean, 2 acceptable, 3 at_risk, 4 blocked.  Unknown flows only count in *)
(* the total.                                                                *)
ExecutionGrade(report) ==
    LET total == Len(report)
        flaky == Flows(report, "flaky")
    IN  IF total = 0 THEN 1
        ELSE IF Flows(report, "failed") > 0 THEN 4
        ELSE IF 10 * flaky >= total THEN 3
        ELSE IF Flows(report, "passed") = 0 THEN 2
        ELSE 1

(* 1 good, 2 needs_improvement, 3 poor, 4 blocked.  TBT is not graded.       *)
VitalsGrade(measure) ==
    IF "poor" \in {measure.lcp, measure.cls, measure.accessibility} THEN 4
    ELSE IF measure.performance = "poor" THEN 3
    ELSE IF "middle" \in {measure.lcp, measure.cls, measure.performance} THEN 2
    ELSE 1
-----------------------------------------------------------------------------
(* The weights of the domains, doubled.                                      *)
DomainWeights ==
    [seniority |-> 2, security |-> 4, performance |-> 3, localization |-> 2, dependencies |-> 3,
     test_quality |-> 3, test_execution |-> 3, web_app |-> 2, web_vitals |-> 2]

CONSTANTS Requests,  \* the domains a run may include, in the order of their tasks
          Inputs,    \* Inputs[d][i]: what domain d may find: <<x>>, or <<>> when its audit fails
          MaxChanges \* changes while the domains are audited

(* What a domain that answers may find: how many findings of each severity,  *)
(* the flows of a test report, or the bands of the measures.                 *)
Flow ==
    [name : STRING, xml : {TRUE}, says : SUBSET STRING] \cup [name : STRING, xml : {FALSE}, says : STRING]

Bands == {"good", "middle", "poor", "none"}

AnswersOf(d) ==
    CASE d = "test_execution" -> Seq(Flow)
      [] d = "web_vitals" -> [lcp : Bands, cls : Bands, accessibility : Bands, performance : Bands]
      [] OTHER -> [Severities -> Nat]

ASSUME RequestsAssumption ==
    \A r \in Requests : r \in Seq(DOMAIN DomainWeights) /\ ToSet(r) \subseteq DOMAIN Inputs

ASSUME InputsAssumption ==
    \A d \in DOMAIN Inputs : \A i \in DOMAIN Inputs[d] :
        Inputs[d][i] = <<>> \/ (Len(Inputs[d][i]) = 1 /\ Inputs[d][i] \in Seq(AnswersOf(d)))

VARIABLES included, \* the domains of this run
          input,    \* which of its inputs each domain would find now
          looked,   \* what each domain audited so far has found
          verdict,  \* SHIP, HOLD, BLOCK or "none"
          changes   \* the changes so far

releaseVars == <<included, input, looked, verdict, changes>>

(* The kept findings of an audit by severity, a report, or its measures; the *)
(* audits are of one file of a thousand lines.                               *)
GradeOf(d, x) ==
    CASE d = "seniority" -> SeniorityGrade(x, 1000, 1)
      [] d = "security" -> SecurityGrade(x, 1000, 1)
      [] d = "performance" -> PerformanceGrade(x, 1000, 1)
      [] d = "localization" -> LocalizationGrade(x, 1000, 2, 0)
      [] d = "dependencies" -> DependencyGrade(x, 1000)
      [] d = "test_quality" -> TestGrade(x, 1000, 1)
      [] d = "test_execution" -> ExecutionGrade(x)
      [] d = "web_app" -> WebGrade(x)
      [] d = "web_vitals" -> VitalsGrade(x)

(* No entry for severe, nor for a web vital that is poor: unknown grades     *)
(* score 50.                                                                 *)
Scores_incomplete ==
    [seniority |-> <<100, 85, 65, 40, 0>>, security |-> <<100, 75, 40, 0>>,
     performance |-> <<100, 80, 45, 50>>, localization |-> <<100, 75, 50, 20>>,
     dependencies |-> <<100, 75, 40, 0>>, test_quality |-> <<100, 75, 40, 0>>,
     test_execution |-> <<100, 75, 40, 0>>, web_app |-> <<100, 80, 55, 20>>,
     web_vitals |-> <<100, 55, 50, 0>>]

Scores ==
    [seniority |-> <<100, 85, 65, 40, 0>>, security |-> <<100, 75, 40, 0>>,
     performance |-> <<100, 80, 45, 15>>, localization |-> <<100, 75, 50, 20>>,
     dependencies |-> <<100, 75, 40, 0>>, test_quality |-> <<100, 75, 40, 0>>,
     test_execution |-> <<100, 75, 40, 0>>, web_app |-> <<100, 80, 55, 20>>,
     web_vitals |-> <<100, 55, 25, 0>>]

(* Their fourth grade is called blocked, critical or unreliable.             *)
Gates == {"security", "dependencies", "test_quality", "test_execution", "web_vitals"}

(* The severities of these are called blocker or critical at their worst.    *)
BlockerFindings(d, x) ==
    IF d \in {"seniority", "security", "localization", "dependencies", "test_quality", "web_app"}
    THEN x[1] ELSE 0

(* Only findings count, and a report has none.                               *)
Blockers_findings(d, x) == BlockerFindings(d, x)

Blockers(d, x) ==
    LET counted == BlockerFindings(d, x)
    IN  IF counted > 0 \/ d \notin Gates \/ GradeOf(d, x) # 4 THEN counted
        ELSE IF d = "test_execution" /\ Flows(x, "failed") > 0 THEN Flows(x, "failed")
        ELSE 1

(* An exception, an error and a project without web/ all leave a domain out. *)
Reduce(d, found) ==
    IF found = <<>>
    THEN [ran |-> FALSE, score |-> 0, blockers |-> 0]
    ELSE [ran |-> TRUE, score |-> Scores[d][GradeOf(d, found[1])], blockers |-> Blockers(d, found[1])]

(* The sum of value[d] over a sequence of domains.                           *)
Total(value, domains) ==
    LET sum[n \in 0..Len(domains)] == IF n = 0 THEN 0 ELSE sum[n - 1] + value[domains[n]]
    IN  sum[Len(domains)]

(* found[d] is the input each domain d of the run has found.                 *)
VerdictFor(domains, found) ==
    LET results == [d \in DOMAIN found |-> Reduce(d, Inputs[d][found[d]])]
        blockers == [d \in DOMAIN found |-> results[d].blockers]
        weight == [d \in DOMAIN found |-> IF results[d].ran THEN DomainWeights[d] ELSE 0]
        score == [d \in DOMAIN found |-> results[d].score * weight[d]]
    IN  IF Total(blockers, domains) > 0 THEN "BLOCK"
        ELSE IF /\ Total(weight, domains) > 0
                /\ Total(score, domains) >= 80 * Total(weight, domains) THEN "SHIP"
        ELSE "HOLD"

ReleaseInit ==
    /\ included \in Requests
    /\ input \in {f \in [ToSet(included) -> UNION {DOMAIN Inputs[d] : d \in ToSet(included)}] :
                    \A d \in DOMAIN f : f[d] \in DOMAIN Inputs[d]}
    /\ looked = <<>>
    /\ verdict = "none"
    /\ changes = 0

(* The tasks run in the order they were created; none of them waits.         *)
Audit ==
    /\ Len(looked) < Len(included)
    /\ looked' = Append(looked, input[included[Len(looked) + 1]])
    /\ UNCHANGED <<included, input, verdict, changes>>

(* The input a domain was audited on.                                        *)
Looked == [d \in ToSet(included) |-> looked[CHOOSE i \in DOMAIN included : included[i] = d]]

Conclude ==
    /\ Len(looked) = Len(included) /\ verdict = "none"
    /\ verdict' = VerdictFor(included, Looked)
    /\ UNCHANGED <<included, input, looked, changes>>

Change(d) ==
    /\ changes < MaxChanges /\ verdict = "none"
    /\ changes' = changes + 1
    /\ \E x \in DOMAIN Inputs[d] : input' = [input EXCEPT ![d] = x]
    /\ UNCHANGED <<included, looked, verdict>>

ReleaseNext == Audit \/ Conclude \/ \E d \in ToSet(included) : Change(d)

ReleaseSpec == ReleaseInit /\ [][ReleaseNext]_releaseVars
-----------------------------------------------------------------------------
(* What must stop a release, told from what a domain has found and not from  *)
(* its grade.                                                                *)
Unfit(d, x) ==
    CASE d = "test_execution" -> \E i \in DOMAIN x : Outcome(x[i]) = "failed"
      [] d = "web_vitals" -> "poor" \in {x.lcp, x.cls, x.accessibility}
      [] d = "performance" -> FALSE
      [] OTHER -> x[1] > 0

(* No release ships over a blocker, a leaked secret, a failed flow or a web  *)
(* vital in the poor band, whatever the other domains score                  *)
(* (audit_release_readiness.py:501-521, 608-613).                            *)
NeverShipsUnfit ==
    verdict # "none" =>
        ((verdict = "BLOCK") <=>
            \E d \in ToSet(included) : \E x \in ToSet(Inputs[d][Looked[d]]) : Unfit(d, x))

(* x is at least as bad as y: more of each, and no way to make up for it.    *)
NoBetter(d, x, y) ==
    CASE d = "test_execution" ->
            /\ Len(x) = Len(y)
            /\ \A o \in {"failed", "flaky"} : Flows(x, o) >= Flows(y, o)
            /\ Flows(x, "passed") <= Flows(y, "passed")
      [] d = "web_vitals" ->
            LET rank(band) == CASE band = "poor" -> 3 [] band = "middle" -> 2 [] OTHER -> 1
            IN  \A v \in DOMAIN x : rank(x[v]) >= rank(y[v])
      [] OTHER -> \A s \in Severities : x[s] >= y[s]

Standing(v) == CASE v = "SHIP" -> 3 [] v = "HOLD" -> 2 [] v = "BLOCK" -> 1

(* With every domain answering, a worse answer of one never makes the        *)
(* verdict better: no grade, score or count rewards more findings            *)
(* (audit_release_readiness.py:171-208, 387-417).                            *)
WorseNeverShips ==
    verdict # "none" =>
        \A d \in ToSet(included) : \A i \in DOMAIN Inputs[d] :
            (\E x \in ToSet(Inputs[d][i]), y \in ToSet(Inputs[d][Looked[d]]) : NoBetter(d, x, y)) =>
                Standing(VerdictFor(included, [Looked EXCEPT ![d] = i])) <= Standing(verdict)
=============================================================================
