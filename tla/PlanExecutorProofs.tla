------------------------- MODULE PlanExecutorProofs -------------------------
(***************************************************************************)
(* Two results about a run, for every set of plans and every number of     *)
(* retries. No phase runs without what it needs: as long as the plan has   *)
(* not ended, each phase behind it went well, and the static check of the  *)
(* plan says which phases those are. And the verdict of a run is borne out *)
(* by its phases: between two phases the reports and the fates agree.      *)
(***************************************************************************)
EXTENDS PlanExecutor, SequenceTheorems, TLAPS

Fates == {"ok", "late", "failed", "skipped"}

\* The run keeps one fate for each phase that is behind it.
Kept ==
  /\ plan \in Seq(Phases) /\ at \in Nat \ {0}
  /\ ended \in Seq(Fates) /\ Len(ended) = at - 1
  /\ terminal \in BOOLEAN

AllWent == ~ terminal => \A i \in 1..(at - 1) : Went(i)
RunsOn == stage # "next" => ~ terminal /\ ~ Done
IInv == Kept /\ AllWent /\ RunsOn

\* A phase that is over: its fate is kept, and a bad one ends the plan.
Over(fate) ==
  /\ ended' = Append(ended, fate) /\ at' = at + 1 /\ stage' = "next" /\ plan' = plan
  /\ fate \in {"ok", "late"} \/ terminal' = TRUE
  /\ terminal' \in BOOLEAN

\* A phase that goes on.
Stays ==
  /\ plan' = plan /\ at' = at /\ ended' = ended /\ terminal' = terminal
  /\ stage' # "next" => ~ terminal /\ ~ Done

LEMMA OverKeeps ==
  ASSUME IInv, NEW fate \in Fates, Over(fate), terminal => terminal'
  PROVE  IInv'
  <1>1. /\ ended' \in Seq(Fates) /\ Len(ended') = Len(ended) + 1
        /\ \A i \in 1..Len(ended) : ended'[i] = ended[i]
        /\ ended'[Len(ended) + 1] = fate
    BY AppendProperties DEF Over, IInv, Kept
  <1>2. Kept'
    BY <1>1 DEF Over, IInv, Kept
  <1>3. AllWent'
    <2>1. SUFFICES ASSUME ~ terminal', NEW i \in 1..(at' - 1)
                   PROVE  ended'[i] \in {"ok", "late"}
      BY DEF AllWent, Went
    <2>2. CASE i = at
      BY <1>1, <2>1, <2>2 DEF Over, IInv, Kept
    <2>3. CASE i # at
      <3>1. i \in 1..(at - 1)
        BY <2>3 DEF Over, IInv, Kept
      <3>2. ended[i] \in {"ok", "late"}
        BY <2>1, <3>1 DEF IInv, AllWent, Went
      <3> QED BY <1>1, <3>1, <3>2 DEF IInv, Kept
    <2> QED BY <2>2, <2>3
  <1>4. RunsOn'
    BY DEF Over, RunsOn
  <1> QED BY <1>2, <1>3, <1>4 DEF IInv

LEMMA StaysKeeps ==
  ASSUME IInv, Stays
  PROVE  IInv'
  BY DEF Stays, IInv, Kept, AllWent, RunsOn, Went, Done

\* A failed attempt is tried again or blocks the plan.
LEMMA FailKeeps ==
  ASSUME IInv, Fail
  PROVE  IInv'
  <1>1. CASE Retryable(Phase.phase) /\ attempt < Retries
    <2>1. Stays
      BY <1>1 DEF Fail, Stays
    <2> QED BY <2>1, StaysKeeps
  <1>2. CASE ~ (Retryable(Phase.phase) /\ attempt < Retries)
    <2>1. Over("failed") /\ terminal'
      BY <1>2 DEF Fail, Over, Advance
    <2> QED BY <2>1, OverKeeps DEF Fates
  <1> QED BY <1>1, <1>2

LEMMA Next_IInv == IInv /\ [Next]_vars => IInv'
  <1> SUFFICES ASSUME IInv, [Next]_vars PROVE IInv'
    OBVIOUS
  <1>1. CASE Skip
    <2>1. Over("skipped") /\ terminal'
      BY <1>1 DEF Skip, Over, Advance, IInv, Kept
    <2> QED BY <2>1, OverKeeps DEF Fates
  <1>2. CASE Start
    <2>1. CASE Malformed(Phase)
      BY <1>2, <2>1, FailKeeps DEF Start
    <2>2. CASE ~ Malformed(Phase)
      <3>1. Stays
        BY <1>2, <2>2 DEF Start, Stays
      <3> QED BY <3>1, StaysKeeps
    <2> QED BY <2>1, <2>2
  <1>3. CASE CallFails \/ CaptureRaises
    BY <1>3, FailKeeps DEF CallFails, CaptureRaises
  <1>4. CASE CallOk \/ BeginCaptures \/ Capture \/ UNCHANGED vars
    <2>1. Stays
      BY <1>4 DEF CallOk, BeginCaptures, Capture, vars, Stays, IInv, RunsOn
    <2> QED BY <2>1, StaysKeeps
  <1>5. CASE Finish
    <2>1. stage # "next" /\ ~ terminal
      BY <1>5 DEF Finish, IInv, RunsOn
    <2>2. \E fate \in {"ok", "late"} : Over(fate)
      BY <1>5 DEF Finish, Succeed, Over, Advance
    <2> QED BY <2>1, <2>2, OverKeeps DEF Fates
  <1> QED BY <1>1, <1>2, <1>3, <1>4, <1>5 DEF Next

LEMMA Init_IInv == Init => IInv
  <1> SUFFICES ASSUME Init PROVE IInv
    OBVIOUS
  <1>1. ended \in Seq(Fates) /\ Len(ended) = 0
    <2>1. <<>> \in Seq(Fates) /\ Len(<<>>) = 0
      BY EmptySeq
    <2>2. ended = <<>>
      BY DEF Init
    <2> QED BY <2>1, <2>2, Zenon
  <1>2. plan \in Seq(Phases)
    BY PlansAssumption DEF Init
  <1>3. Kept
    <2>1. at = 1 /\ terminal \in BOOLEAN
      <3>1. terminal = FALSE
        BY DEF Init
      <3> QED BY <3>1 DEF Init
    <2> QED BY <1>1, <1>2, <2>1 DEF Kept
  <1>4. 1..(at - 1) = {}
    BY DEF Init
  <1> QED BY <1>3, <1>4 DEF Init, IInv, AllWent, RunsOn

LEMMA Inductive == Spec => []IInv
  BY Init_IInv, Next_IInv, PTL DEF Spec

LEMMA RanBefore == IInv => PrerequisiteRan
  <1> SUFFICES ASSUME IInv, Validates(plan), stage = "calling", Needs(Phase.phase)
               PROVE  \E j \in 1..(at - 1) :
                        plan[j].phase \in Prerequisites[Phase.phase] /\ Went(j)
    BY DEF PrerequisiteRan
  <1>1. ~ terminal /\ at \in DOMAIN plan
    <2>1. ~ terminal /\ ~ Done
      BY DEF IInv, RunsOn
    <2>2. Len(plan) \in Nat /\ DOMAIN plan = 1..Len(plan)
      BY LenProperties DEF IInv, Kept
    <2> QED BY <2>1, <2>2 DEF IInv, Kept, Done
  <1>2. PICK j \in 1..(at - 1) : plan[j].phase \in Prerequisites[Phase.phase]
    BY <1>1 DEF Validates, Phase
  <1>3. Went(j)
    BY <1>1 DEF IInv, AllWent
  <1> QED BY <1>2, <1>3

(***************************************************************************)
(* A phase of a plan that passes the check calls tools only when a phase   *)
(* it needs went well in this run, whatever failed and was retried.        *)
(***************************************************************************)
THEOREM NeededRan == Spec => []PrerequisiteRan
  BY Inductive, RanBefore, PTL

----------------------------------------------------------------------------
(***************************************************************************)
(* The verdict. Between two phases the reports and the fates agree; while  *)
(* a phase is tried again, the last two reports are its failure and the    *)
(* reflection, and an earlier failure of it, if there is one, stays        *)
(* unmarked: only the last one is marked when the phase recovers.          *)
(***************************************************************************)
Reports ==
  [phase : STRING \cup {"REFLECTION", "VERDICT_BLOCKED"}, ok : BOOLEAN,
   actual : {"passed", "failed", "skipped", "blocked", "retry", "recovered"}]
Fine(o) == o.phase # "VERDICT_BLOCKED" /\ o.actual # "recovered" => o.ok
FineUpTo(run, n) == \A i \in 1..n : Fine(run[i])
AllFine(p, fates) ==
  \A i \in DOMAIN fates : p[i].phase # "VERDICT_BLOCKED" => fates[i] = "ok"

\* The last two reports while a phase is tried again.
Retried(run, name) ==
  /\ Len(run) >= 2
  /\ run[Len(run) - 1] = Outcome(name, FALSE, "failed")
  /\ run[Len(run)] = Outcome("REFLECTION", TRUE, "retry")

Reported ==
  /\ outcomes \in Seq(Reports) /\ attempt \in Nat
  /\ attempt > 0 => ~ Done /\ ~ terminal /\ Retryable(Phase.phase)
                      /\ Retried(outcomes, Phase.phase)

Tells ==
  /\ attempt = 0 => (OverallOk(outcomes) <=> AllFine(plan, ended))
  /\ attempt = 1 => (FineUpTo(outcomes, Len(outcomes) - 2) <=> AllFine(plan, ended))
  /\ attempt > 1 => ~ FineUpTo(outcomes, Len(outcomes) - 2)

VInv == IInv /\ Reported /\ Tells

LEMMA Grown ==
  ASSUME NEW run \in Seq(Reports), NEW o \in Reports
  PROVE  /\ Append(run, o) \in Seq(Reports)
         /\ Len(run) \in Nat /\ Len(Append(run, o)) = Len(run) + 1
         /\ \A i \in 1..Len(run) : Append(run, o)[i] = run[i]
         /\ Append(run, o)[Len(run) + 1] = o
         /\ OverallOk(Append(run, o)) <=> OverallOk(run) /\ Fine(o)
  <1>1. /\ Append(run, o) \in Seq(Reports)
        /\ Len(run) \in Nat /\ Len(Append(run, o)) = Len(run) + 1
        /\ \A i \in 1..Len(run) : Append(run, o)[i] = run[i]
        /\ Append(run, o)[Len(run) + 1] = o
    BY AppendProperties, LenProperties
  <1>2. DOMAIN run = 1..Len(run) /\ DOMAIN Append(run, o) = 1..(Len(run) + 1)
    BY <1>1, LenProperties
  <1> HIDE DEF Reports
  <1>3. OverallOk(Append(run, o)) <=> \A i \in 1..(Len(run) + 1) : Fine(Append(run, o)[i])
    BY <1>2 DEF OverallOk, Fine
  <1>4. OverallOk(run) <=> \A i \in 1..Len(run) : Fine(run[i])
    BY <1>2 DEF OverallOk, Fine
  <1>5. (\A i \in 1..(Len(run) + 1) : Fine(Append(run, o)[i]))
           <=> (\A i \in 1..Len(run) : Fine(run[i])) /\ Fine(o)
    BY <1>1
  <1> QED BY <1>1, <1>3, <1>4, <1>5

LEMMA Fated ==
  ASSUME NEW p, NEW fates \in Seq(Fates), NEW fate \in Fates
  PROVE  AllFine(p, Append(fates, fate)) <=>
           /\ AllFine(p, fates)
           /\ p[Len(fates) + 1].phase # "VERDICT_BLOCKED" => fate = "ok"
  <1>1. /\ Len(fates) \in Nat /\ Len(Append(fates, fate)) = Len(fates) + 1
        /\ \A i \in 1..Len(fates) : Append(fates, fate)[i] = fates[i]
        /\ Append(fates, fate)[Len(fates) + 1] = fate
        /\ DOMAIN fates = 1..Len(fates)
        /\ DOMAIN Append(fates, fate) = 1..(Len(fates) + 1)
    BY AppendProperties, LenProperties
  <1> QED BY <1>1 DEF AllFine

\* The failure that is marked is the last one that is not marked yet.
LEMMA Marked ==
  ASSUME NEW run \in Seq(Reports), NEW name, NEW k \in 1..Len(run),
         run[k].phase = name, ~ run[k].ok, run[k].actual # "recovered",
         \A j \in (k + 1)..Len(run) : run[j].ok
  PROVE  MarkRecovered(run, name) = [run EXCEPT ![k].actual = "recovered"]
  <1> DEFINE failed == {i \in DOMAIN run : /\ run[i].phase = name /\ ~ run[i].ok
                                           /\ run[i].actual # "recovered"}
             last == CHOOSE i \in failed : \A j \in failed : j <= i
  <1>1. DOMAIN run = 1..Len(run) /\ Len(run) \in Nat
    BY LenProperties
  <1>2. k \in failed /\ \A j \in failed : j <= k
    BY <1>1
  <1>3. failed \subseteq Nat
    BY <1>1
  <1>4. last \in failed /\ \A j \in failed : j <= last
    <2> HIDE DEF failed
    <2> QED BY <1>2
  <1>5. last = k
    <2> HIDE DEF failed, last
    <2> QED BY <1>2, <1>3, <1>4
  <1>6. MarkRecovered(run, name) = [run EXCEPT ![last].actual = "recovered"]
    BY DEF MarkRecovered
  <1> HIDE DEF last
  <1> QED BY <1>5, <1>6

LEMMA Quiet ==
  ASSUME VInv, IInv',
         UNCHANGED <<plan, at, attempt, terminal, outcomes, ended>>
  PROVE  VInv'
  <1>1. Reported'
    BY DEF VInv, Reported, Retried, Outcome, Done, Phase, Retryable, IsGate
  <1>2. Tells'
    BY DEF VInv, Tells, OverallOk, AllFine, FineUpTo, Fine
  <1> QED BY <1>1, <1>2 DEF VInv

LEMMA ThePhase ==
  ASSUME VInv, ~ Done
  PROVE  /\ Phase.phase \in STRING /\ Phase = plan[Len(ended) + 1]
  <1>1. at \in DOMAIN plan
    BY LenProperties DEF VInv, IInv, Kept, Done
  <1>2. plan[at] \in Phases
    BY <1>1, ElementOfSeq DEF VInv, IInv, Kept
  <1>3. Phase.phase \in STRING
    BY <1>2 DEF Phase, Phases
  <1>4. at = Len(ended) + 1
    BY LenProperties DEF VInv, IInv, Kept
  <1> QED BY <1>3, <1>4 DEF Phase

\* A phase is over, at its first attempt or not: what its reports and its
\* fate must agree on.
LEMMA Settled ==
  ASSUME VInv, ~ Done, IInv', NEW fate \in Fates, NEW run \in Seq(Reports),
         outcomes' = run, ended' = Append(ended, fate), plan' = plan, attempt' = 0,
         OverallOk(run) <=>
           /\ AllFine(plan, ended)
           /\ Phase.phase # "VERDICT_BLOCKED" => fate = "ok"
  PROVE  VInv'
  <1>1. AllFine(plan, Append(ended, fate)) <=> OverallOk(run)
    BY Fated, ThePhase DEF VInv, IInv, Kept
  <1>2. Reported'
    BY DEF Reported
  <1>3. OverallOk(outcomes)' <=> AllFine(plan, ended)'
    <2>1. OverallOk(outcomes)' <=> OverallOk(run)
      BY DEF OverallOk
    <2>2. AllFine(plan, ended)' <=> AllFine(plan, Append(ended, fate))
      BY DEF AllFine
    <2> QED BY <1>1, <2>1, <2>2
  <1>4. Tells'
    BY <1>3 DEF Tells
  <1> QED BY <1>2, <1>4 DEF VInv

LEMMA RetryableName ==
  ASSUME NEW name, Retryable(name)
  PROVE  name # "VERDICT_BLOCKED" /\ name # "REFLECTION"
  BY DEF Retryable, IsGate

\* While a phase is tried again its last failure is not marked.
LEMMA Unsettled ==
  ASSUME VInv, attempt # 0
  PROVE  ~ OverallOk(outcomes)
  <1>1. Retried(outcomes, Phase.phase) /\ Retryable(Phase.phase)
    BY DEF VInv, Reported
  <1>2. Len(outcomes) - 1 \in DOMAIN outcomes
    BY <1>1, LenProperties DEF Retried, VInv, Reported
  <1>3. ~ Fine(outcomes[Len(outcomes) - 1])
    BY <1>1, RetryableName DEF Retried, Fine, Outcome
  <1> QED BY <1>2, <1>3 DEF OverallOk, Fine

LEMMA SkipTells ==
  ASSUME VInv, Skip, IInv'
  PROVE  VInv'
  <1>1. ~ Done /\ attempt = 0
    BY DEF Skip, VInv, Reported
  <1> DEFINE o == Outcome(Phase.phase, FALSE, "skipped")
  <1>2. o \in Reports
    BY <1>1, ThePhase DEF Outcome, Reports
  <1>3. Fine(o) <=> Phase.phase = "VERDICT_BLOCKED"
    BY DEF Fine, Outcome
  <1>4. /\ outcomes' = Append(outcomes, o) /\ ended' = Append(ended, "skipped")
        /\ plan' = plan /\ attempt' = 0
    BY DEF Skip, Advance
  <1>5. /\ Append(outcomes, o) \in Seq(Reports)
        /\ OverallOk(Append(outcomes, o)) <=> OverallOk(outcomes) /\ Fine(o)
    BY <1>2, Grown DEF VInv, Reported
  <1>6. OverallOk(outcomes) <=> AllFine(plan, ended)
    BY <1>1 DEF VInv, Tells
  <1> HIDE DEF o
  <1> QED BY <1>1, <1>3, <1>4, <1>5, <1>6, Settled DEF Fates

\* The reports after a failure, before what follows it.
LEMMA FailureReported ==
  ASSUME VInv, ~ Done, NEW next \in Reports
  PROVE  LET failure == Outcome(Phase.phase, FALSE, "failed")
             run == Append(Append(outcomes, failure), next)
         IN  /\ run \in Seq(Reports) /\ Len(run) = Len(outcomes) + 2
             /\ Len(outcomes) \in Nat
             /\ \A i \in 1..Len(outcomes) : run[i] = outcomes[i]
             /\ run[Len(outcomes) + 1] = failure /\ run[Len(outcomes) + 2] = next
             /\ OverallOk(run) <=> /\ OverallOk(outcomes)
                                   /\ Phase.phase = "VERDICT_BLOCKED"
                                   /\ Fine(next)
  <1> DEFINE failure == Outcome(Phase.phase, FALSE, "failed")
             one == Append(outcomes, failure)
             run == Append(one, next)
  <1>1. failure \in Reports
    BY ThePhase DEF Outcome, Reports
  <1>2. Fine(failure) <=> Phase.phase = "VERDICT_BLOCKED"
    BY DEF Fine, Outcome
  <1>3. /\ one \in Seq(Reports) /\ Len(outcomes) \in Nat /\ Len(one) = Len(outcomes) + 1
        /\ \A i \in 1..Len(outcomes) : one[i] = outcomes[i]
        /\ one[Len(outcomes) + 1] = failure
        /\ OverallOk(one) <=> OverallOk(outcomes) /\ Fine(failure)
    BY <1>1, Grown DEF VInv, Reported
  <1> HIDE DEF one
  <1>4. /\ run \in Seq(Reports) /\ Len(run) = Len(one) + 1
        /\ \A i \in 1..Len(one) : run[i] = one[i]
        /\ run[Len(one) + 1] = next
        /\ OverallOk(run) <=> OverallOk(one) /\ Fine(next)
    BY <1>3, Grown
  <1> HIDE DEF run, failure
  <1>5. /\ run \in Seq(Reports) /\ Len(run) = Len(outcomes) + 2 /\ Len(outcomes) \in Nat
        /\ \A i \in 1..Len(outcomes) : run[i] = outcomes[i]
        /\ run[Len(outcomes) + 1] = failure /\ run[Len(outcomes) + 2] = next
        /\ OverallOk(run) <=> /\ OverallOk(outcomes)
                              /\ Phase.phase = "VERDICT_BLOCKED"
                              /\ Fine(next)
    BY <1>2, <1>3, <1>4
  <1> QED BY <1>5 DEF run, one, failure

LEMMA FailTells ==
  ASSUME VInv, Fail, IInv', ~ Done, ~ terminal
  PROVE  VInv'
  <1> DEFINE failure == Outcome(Phase.phase, FALSE, "failed")
  <1>1. CASE Retryable(Phase.phase) /\ attempt < Retries
    <2> DEFINE again == Outcome("REFLECTION", TRUE, "retry")
               run == Append(Append(outcomes, failure), again)
    <2>1. again \in Reports
      BY DEF Outcome, Reports
    <2>2. /\ run \in Seq(Reports) /\ Len(run) = Len(outcomes) + 2
          /\ Len(outcomes) \in Nat
          /\ \A i \in 1..Len(outcomes) : run[i] = outcomes[i]
          /\ run[Len(outcomes) + 1] = failure /\ run[Len(outcomes) + 2] = again
      BY <2>1, FailureReported
    <2>3. /\ outcomes' = run /\ attempt' = attempt + 1 /\ attempt \in Nat
          /\ plan' = plan /\ at' = at /\ terminal' = terminal /\ ended' = ended
      BY <1>1 DEF Fail, VInv, Reported
    <2>4. Phase' = Phase /\ Done' = Done
      BY <2>3 DEF Phase, Done
    <2>5. Reported'
      <3> HIDE DEF run
      <3>1. Retried(outcomes', Phase.phase)
        <4>1. /\ Len(run) >= 2 /\ Len(run) - 1 = Len(outcomes) + 1
              /\ Len(run) = Len(outcomes) + 2
          BY <2>2
        <4> HIDE DEF failure, again
        <4>2. run[Len(run) - 1] = failure /\ run[Len(run)] = again
          BY <2>2, <4>1
        <4> QED BY <2>3, <4>1, <4>2 DEF Retried, failure, again
      <3>2. Retried(outcomes, Phase.phase)' <=> Retried(outcomes', Phase.phase)
        BY <2>4 DEF Retried
      <3> QED BY <1>1, <2>2, <2>3, <2>4, <3>1, <3>2 DEF Reported
    <2>6. FineUpTo(run, Len(run) - 2) <=> OverallOk(outcomes)
      <3>1. DOMAIN outcomes = 1..Len(outcomes)
        BY LenProperties DEF VInv, Reported
      <3> HIDE DEF run
      <3> QED BY <2>2, <3>1 DEF FineUpTo, OverallOk, Fine
    <2>7. Tells'
      <3> HIDE DEF run
      <3>1. attempt = 0 => (FineUpTo(run, Len(run) - 2) <=> AllFine(plan, ended))
        BY <2>6 DEF VInv, Tells
      <3>2. attempt # 0 => ~ FineUpTo(run, Len(run) - 2)
        BY <2>6, Unsettled
      <3>3. FineUpTo(outcomes, Len(outcomes) - 2)' <=> FineUpTo(run, Len(run) - 2)
        BY <2>3 DEF FineUpTo, Fine
      <3>4. AllFine(plan, ended)' <=> AllFine(plan, ended)
        BY <2>3 DEF AllFine
      <3>5. attempt' # 0 /\ (attempt' = 1 => attempt = 0) /\ (attempt' > 1 => attempt # 0)
        BY <2>3
      <3> QED BY <3>1, <3>2, <3>3, <3>4, <3>5 DEF Tells
    <2> QED BY <2>5, <2>7 DEF VInv
  <1>2. CASE ~ (Retryable(Phase.phase) /\ attempt < Retries)
    <2> DEFINE blocked == Outcome("VERDICT_BLOCKED", FALSE, "blocked")
               run == Append(Append(outcomes, failure), blocked)
    <2>1. blocked \in Reports /\ Fine(blocked)
      BY DEF Outcome, Reports, Fine
    <2>2. /\ run \in Seq(Reports)
          /\ OverallOk(run) <=> OverallOk(outcomes) /\ Phase.phase = "VERDICT_BLOCKED"
      BY <2>1, FailureReported
    <2>3. /\ outcomes' = run /\ ended' = Append(ended, "failed")
          /\ plan' = plan /\ attempt' = 0
      BY <1>2 DEF Fail, Advance
    <2>4. OverallOk(run) <=>
            AllFine(plan, ended) /\ (Phase.phase # "VERDICT_BLOCKED" => "failed" = "ok")
      <3>1. CASE attempt = 0
        BY <2>2, <3>1 DEF VInv, Tells
      <3>2. CASE attempt # 0
        <4>1. Phase.phase # "VERDICT_BLOCKED"
          BY <3>2, RetryableName DEF VInv, Reported
        <4> QED BY <2>2, <4>1
      <3> QED BY <3>1, <3>2
    <2> HIDE DEF run
    <2> QED BY <2>2, <2>3, <2>4, Settled DEF Fates
  <1> QED BY <1>1, <1>2

\* A phase that recovers: its last failure is marked, an earlier one is not.
LEMMA Recovered ==
  ASSUME VInv, ~ Done, attempt # 0
  PROVE  LET run == Append(outcomes, Outcome(Phase.phase, TRUE, "passed"))
         IN  /\ MarkRecovered(run, Phase.phase) \in Seq(Reports)
             /\ OverallOk(MarkRecovered(run, Phase.phase))
                  <=> FineUpTo(outcomes, Len(outcomes) - 2)
  <1> DEFINE passed == Outcome(Phase.phase, TRUE, "passed")
             run == Append(outcomes, passed)
             k == Len(outcomes) - 1
             marked == [run EXCEPT ![k].actual = "recovered"]
  <1>1. Retried(outcomes, Phase.phase) /\ Retryable(Phase.phase)
    BY DEF VInv, Reported
  <1>2. passed \in Reports
    BY ThePhase DEF Outcome, Reports
  <1>3. /\ run \in Seq(Reports) /\ Len(outcomes) \in Nat /\ Len(run) = Len(outcomes) + 1
        /\ \A i \in 1..Len(outcomes) : run[i] = outcomes[i]
        /\ run[Len(outcomes) + 1] = passed
    BY <1>2, Grown DEF VInv, Reported
  <1>4. passed.ok /\ Fine(passed)
    BY DEF Outcome, Fine
  <1> HIDE DEF run, passed
  <1>5. /\ k \in 1..Len(run)
        /\ run[k] = Outcome(Phase.phase, FALSE, "failed")
        /\ run[Len(outcomes)] = Outcome("REFLECTION", TRUE, "retry")
    <2>1. Len(outcomes) >= 2
      BY <1>1 DEF Retried
    <2>2. k \in 1..Len(run) /\ k \in 1..Len(outcomes) /\ Len(outcomes) \in 1..Len(outcomes)
      BY <1>3, <2>1
    <2>3. run[k] = outcomes[k] /\ run[Len(outcomes)] = outcomes[Len(outcomes)]
      BY <1>3, <2>2
    <2> QED BY <1>1, <2>2, <2>3 DEF Retried
  <1>6. /\ run[k].phase = Phase.phase /\ ~ run[k].ok /\ run[k].actual # "recovered"
        /\ run[Len(outcomes)].ok /\ Fine(run[Len(outcomes)])
    BY <1>5 DEF Outcome, Fine
  <1>7. \A j \in (k + 1)..Len(run) : run[j].ok
    BY <1>3, <1>4, <1>6
  <1>8. MarkRecovered(run, Phase.phase) = marked
    <2> HIDE DEF k
    <2>1. PICK name : name = Phase.phase
      OBVIOUS
    <2>2. /\ run \in Seq(Reports) /\ k \in 1..Len(run)
          /\ run[k].phase = name /\ ~ run[k].ok /\ run[k].actual # "recovered"
          /\ \A j \in (k + 1)..Len(run) : run[j].ok
      BY <1>3, <1>5, <1>6, <1>7, <2>1
    <2>3. MarkRecovered(run, name) = [run EXCEPT ![k].actual = "recovered"]
      BY <2>2, Marked
    <2> QED BY <2>1, <2>3
  <1>9. DOMAIN run = 1..Len(run) /\ \A i \in 1..Len(run) : run[i] \in Reports
    BY <1>3, LenProperties, ElementOfSeq
  <1>10. marked[k] = [run[k] EXCEPT !.actual = "recovered"]
    BY <1>5, <1>9
  <1>11. marked[k] \in Reports /\ Fine(marked[k])
    <2>1. run[k] \in Reports
      BY <1>5, <1>9
    <2>2. [run[k] EXCEPT !.actual = "recovered"] \in Reports
      BY <2>1 DEF Reports
    <2>3. [run[k] EXCEPT !.actual = "recovered"].actual = "recovered"
      BY <2>1 DEF Reports
    <2> QED BY <1>10, <2>2, <2>3 DEF Fine
  <1>12. /\ DOMAIN marked = 1..Len(run)
         /\ \A i \in 1..Len(run) : i # k => marked[i] = run[i]
    BY <1>9
  <1>13. marked \in Seq(Reports) /\ Len(marked) = Len(run)
    <2>1. \A i \in 1..Len(run) : marked[i] \in Reports
      BY <1>9, <1>11, <1>12
    <2>2. marked = [i \in 1..Len(run) |-> marked[i]]
      BY <1>9
    <2> HIDE DEF marked
    <2> QED BY <1>3, <2>1, <2>2, <1>12, IsASeq, LenProperties
  <1> HIDE DEF marked
  <1>14. OverallOk(marked) <=> \A i \in 1..Len(run) : Fine(marked[i])
    BY <1>12 DEF OverallOk, Fine
  <1>15. \A i \in 1..Len(run) :
           \/ i \in 1..(Len(outcomes) - 2) /\ marked[i] = outcomes[i]
           \/ Fine(marked[i])
    BY <1>3, <1>4, <1>6, <1>11, <1>12
  <1>16. \A i \in 1..(Len(outcomes) - 2) : i \in 1..Len(run) /\ marked[i] = outcomes[i]
    BY <1>3, <1>12
  <1>17. OverallOk(marked) <=> FineUpTo(outcomes, Len(outcomes) - 2)
    BY <1>14, <1>15, <1>16 DEF FineUpTo
  <1> QED BY <1>8, <1>13, <1>17 DEF run, passed

LEMMA SucceedTells ==
  ASSUME VInv, Succeed, IInv', ~ Done
  PROVE  VInv'
  <1> DEFINE run == Append(outcomes, Outcome(Phase.phase, TRUE, "passed"))
  <1>1. plan' = plan /\ attempt' = 0
    BY DEF Succeed, Advance
  <1>2. CASE attempt = 0
    <2>1. outcomes' = run /\ ended' = Append(ended, "ok")
      BY <1>2 DEF Succeed
    <2>2. Outcome(Phase.phase, TRUE, "passed") \in Reports
      BY ThePhase DEF Outcome, Reports
    <2>3. Fine(Outcome(Phase.phase, TRUE, "passed"))
      BY DEF Fine, Outcome
    <2>4. run \in Seq(Reports) /\ (OverallOk(run) <=> OverallOk(outcomes))
      BY <2>2, <2>3, Grown DEF VInv, Reported
    <2>5. OverallOk(outcomes) <=> AllFine(plan, ended)
      BY <1>2 DEF VInv, Tells
    <2> HIDE DEF run
    <2> QED BY <1>1, <2>1, <2>4, <2>5, Settled DEF Fates
  <1>3. CASE attempt # 0
    <2>1. PICK marked : marked = MarkRecovered(run, Phase.phase)
      OBVIOUS
    <2>2. /\ marked \in Seq(Reports)
          /\ OverallOk(marked) <=> FineUpTo(outcomes, Len(outcomes) - 2)
      BY <1>3, <2>1, Recovered
    <2>3. outcomes' = marked
      BY <1>3, <2>1 DEF Succeed
    <2>4. Phase.phase # "VERDICT_BLOCKED" /\ attempt \in Nat
      BY <1>3, RetryableName DEF VInv, Reported
    <2>5. CASE attempt = 1
      <3>1. ended' = Append(ended, "ok")
        BY <2>5 DEF Succeed
      <3>2. OverallOk(marked) <=> AllFine(plan, ended)
        BY <2>2, <2>5 DEF VInv, Tells
      <3> QED BY <1>1, <2>2, <2>3, <3>1, <3>2, Settled DEF Fates
    <2>6. CASE attempt # 1
      <3>1. ended' = Append(ended, "late")
        BY <1>3, <2>4, <2>6 DEF Succeed
      <3>2. ~ OverallOk(marked)
        BY <1>3, <2>2, <2>4, <2>6 DEF VInv, Tells
      <3> QED BY <1>1, <2>2, <2>3, <2>4, <3>1, <3>2, Settled DEF Fates
    <2> QED BY <2>5, <2>6
  <1> QED BY <1>2, <1>3

LEMMA Next_VInv == VInv /\ [Next]_vars => VInv'
  <1> SUFFICES ASSUME VInv, [Next]_vars PROVE VInv'
    OBVIOUS
  <1>1. IInv'
    BY Next_IInv DEF VInv
  <1>2. stage # "next" => ~ terminal /\ ~ Done
    BY DEF VInv, IInv, RunsOn
  <1>3. CASE Skip
    BY <1>1, <1>3, SkipTells
  <1>4. CASE Start
    <2>1. ~ Done /\ ~ terminal
      BY <1>4 DEF Start
    <2>2. CASE Malformed(Phase)
      BY <1>1, <1>4, <2>1, <2>2, FailTells DEF Start
    <2>3. CASE ~ Malformed(Phase)
      BY <1>1, <1>4, <2>3, Quiet DEF Start
    <2> QED BY <2>2, <2>3
  <1>5. CASE CallFails \/ CaptureRaises
    BY <1>1, <1>2, <1>5, FailTells DEF CallFails, CaptureRaises
  <1>6. CASE CallOk \/ BeginCaptures \/ Capture \/ UNCHANGED vars
    BY <1>1, <1>6, Quiet DEF CallOk, BeginCaptures, Capture, vars
  <1>7. CASE Finish
    BY <1>1, <1>2, <1>7, SucceedTells DEF Finish
  <1> QED BY <1>3, <1>4, <1>5, <1>6, <1>7 DEF Next

LEMMA Init_VInv == Init => VInv
  <1> SUFFICES ASSUME Init PROVE VInv
    OBVIOUS
  <1>1. /\ <<>> \in Seq(Reports) /\ DOMAIN <<>> = {}
        /\ outcomes = <<>> /\ ended = <<>> /\ attempt = 0
    BY EmptySeq DEF Init
  <1>2. Reported
    BY <1>1 DEF Reported
  <1>3. OverallOk(outcomes) /\ AllFine(plan, ended)
    BY <1>1 DEF OverallOk, AllFine
  <1> QED BY <1>1, <1>2, <1>3, Init_IInv DEF VInv, Tells

\* When the run is over, it passes exactly when each phase went well at once
\* or at its first retry: what the code does, and more than it should.
LEMMA SettledIsTrue == VInv => VerdictIsTrue
  <1> SUFFICES ASSUME VInv, Done PROVE VerdictIsTrue
    BY DEF VerdictIsTrue
  <1>1. attempt = 0
    BY DEF VInv, Reported
  <1>2. OverallOk(outcomes) <=> AllFine(plan, ended)
    BY <1>1 DEF VInv, Tells
  <1> QED BY <1>2 DEF VerdictIsTrue, AllFine, Went

(***************************************************************************)
(* A run that says overall_ok has no phase that stayed failed, and none    *)
(* skipped but behind one that ends the plan; a run whose phases all went  *)
(* well, at once or at the first retry, says overall_ok: for every plan,   *)
(* whatever is retried and however often.                                  *)
(***************************************************************************)
THEOREM RunTellsTruth == Spec => []VerdictIsTrue
  BY Init_VInv, Next_VInv, SettledIsTrue, PTL DEF Spec

=============================================================================
