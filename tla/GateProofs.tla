----------------------------- MODULE GateProofs -----------------------------
(***************************************************************************)
(* What the gates in front of a release hold back, proved for any number   *)
(* of calls, domains, findings and projects.  In this order:               *)
(*                                                                         *)
(*   PatchSafe         what a call found is in the tree or in a commit, by *)
(*                     where the call is (AsMade), as long as no other call *)
(*                     runs; a pending file is that of a call that holds it *)
(*   ReleaseReadiness  the verdict is that of what was looked at (RunInv), *)
(*                     and grades, scores and sums only ever grow worse    *)
(*                     with what a domain has found                        *)
(*   ProjectAudits     an audit answers about the project as it is         *)
(*                     (TeamInv); one place of a rule is one finding, and  *)
(*                     the rule alone says how severe it is (Sound), so    *)
(*                     findings that all have one of their kind afterwards *)
(*                     are no more than those, of each severity            *)
(*                                                                         *)
(* The three modules are proved about together, so their definitions have  *)
(* different names.                                                        *)
(***************************************************************************)
EXTENDS PatchSafe, ReleaseReadiness, ProjectAudits,
        FiniteSetTheorems, SequenceTheorems, WellFoundedInduction, TLAPS

-----------------------------------------------------------------------------
(* patch_apply_safe.                                                        *)

Places == {"idle", "status", "write", "check", "apply", "applied", "gate", "checkout", "clean"}
            \cup Answers

Typed ==
  /\ call \in [Call -> [pc : Places, patch : Patch \cup {NoPatch}, force : BOOLEAN, gated : BOOLEAN]]
  /\ DOMAIN before = Call /\ DOMAIN blind = Call

\* The pending file is that of a call between writing and unlinking it.
Attended == pending # NoPatch => \E d \in Call : Holding(d) /\ call[d].patch = pending

\* The work a call found, and its patch, by where the call is.
Untouched == {"status", "write", "check", "apply", "refused", "failed"}
Landed == {"applied", "gate", "kept", "checkout", "raised"}
Settled == Places \ {"idle", "status", "refused"}
AsMade(c) ==
  LET pc == call[c].pc  patch == call[c].patch IN
  /\ pc # "idle" /\ patch \in Patch
  /\ pc \in Untouched => before[c] \subseteq Present /\ (patch \in Present => patch \in before[c])
  /\ pc \in Landed => before[c] \subseteq Present /\ patch \in Present
  /\ pc \in {"check", "apply", "applied"} => pending = patch
  /\ pc \in Settled /\ ~ Forced(c) =>
       before[c] \subseteq Present /\ before[c] \subseteq head \cup Ignored
  /\ pc = "clean" /\ patch \in tree => patch \in New \cup Ignored \/ "checkout" \in blind[c]
  /\ pc = "rolled back" /\ patch \in tree => patch \in Ignored \/ Undoes(patch) \in blind[c]

Lone == \A c \in apart :
          /\ c \in Call /\ AsMade(c)
          /\ \A d \in Call \ {c} : ~ Runs(d)

AInv == Typed /\ Attended /\ Lone

LEMMA Init_AInv == Init => AInv
  BY DEF Init, AInv, Typed, Attended, Lone, Idle, Places

\* A step moves one call and leaves the arguments of all as they are.
Moves(c, pc) ==
  /\ call'[c].pc = pc
  /\ call'[c].patch = call[c].patch /\ call'[c].force = call[c].force
  /\ \A d \in Call \ {c} : call'[d] = call[d]

LEMMA StepMoves ==
  ASSUME Typed, NEW c \in Call, Step(c)
  PROVE  Typed' /\ Runs(c) /\ apart' = apart /\ \E pc \in Places : Goto(c, pc)
  <1>1. PICK pc \in Places : Goto(c, pc)
    BY DEF Step, Status, Write, WriteDiff, Check, Apply, Applied, Gate, Checkout, Clean,
           Places, Answers
  <1>2. call' \in [Call -> [pc : Places, patch : Patch \cup {NoPatch}, force : BOOLEAN, gated : BOOLEAN]]
    BY <1>1 DEF Goto, Typed
  <1>3. DOMAIN before' = Call /\ DOMAIN blind' = Call
    BY DEF Step, Status, Write, Check, Apply, Applied, Gate, Checkout, Clean, Missed, Typed
  <1>4. Runs(c) /\ apart' = apart
    BY DEF Step, Status, Write, Check, Apply, Applied, Gate, Checkout, Clean, Runs, Answers
  <1> QED BY <1>1, <1>2, <1>3, <1>4 DEF Typed

LEMMA GotoMoves ==
  ASSUME Typed, NEW c \in Call, NEW pc, Goto(c, pc)
  PROVE  Moves(c, pc)
  BY DEF Goto, Typed, Moves

\* The pending file goes when the call that wrote it goes on.
LEMMA StepAttends ==
  ASSUME AInv, NEW c \in Call, Step(c)
  PROVE  Attended'
  <1>1. SUFFICES ASSUME pending' # NoPatch
                 PROVE  \E d \in Call : Holding(d)' /\ call'[d].patch = pending'
    BY DEF Attended
  <1>2. CASE Write(c)
    <2>1. Goto(c, "check") /\ pending' = call[c].patch
      BY <1>2 DEF Write, WriteDiff
    <2>2. Moves(c, "check")
      BY <2>1, GotoMoves DEF AInv
    <2> QED BY <2>1, <2>2 DEF Moves, Holding
  <1>3. CASE ~ Write(c)
    <2>1. pending' = pending
      BY <1>1, <1>3 DEF Step, Status, Check, Apply, Applied, Gate, Checkout, Clean, Unlink
    <2>2. PICK d \in Call : Holding(d) /\ call[d].patch = pending
      BY <1>1, <2>1 DEF AInv, Attended
    <2>3. PICK pc \in Places : Goto(c, pc)
      BY StepMoves DEF AInv
    <2>4. Moves(c, pc)
      BY <2>3, GotoMoves DEF AInv
    <2>5. CASE d # c
      BY <2>1, <2>2, <2>4, <2>5 DEF Moves, Holding
    <2>6. CASE d = c
      <3>1. Check(c) \/ Apply(c) \/ Applied(c)
        BY <2>2, <2>6 DEF Step, Status, Write, Gate, Checkout, Clean, Holding
      <3>2. PICK to \in {"apply", "applied"} : Goto(c, to)
        BY <1>1, <3>1 DEF Check, Apply, Applied, Unlink
      <3>3. Moves(c, to)
        BY <3>2, GotoMoves DEF AInv
      <3> QED BY <2>1, <2>2, <2>6, <3>3 DEF Moves, Holding
    <2> QED BY <2>5, <2>6
  <1> QED BY <1>2, <1>3

\* A step of a call that is apart makes of the tree what AsMade says.
LEMMA StepMakes ==
  ASSUME AInv, NEW c \in Call, Step(c), c \in apart
  PROVE  AsMade(c)'
  <1>1. AsMade(c)
    BY DEF AInv, Lone
  <1>2. ASSUME NEW pc, Goto(c, pc) PROVE Moves(c, pc)
    BY <1>2, GotoMoves DEF AInv
  <1>3. CASE Status(c)
    <2>1. before'[c] = Present /\ tree' = tree /\ head' = head /\ call[c].pc = "status"
      BY <1>3 DEF Status, AInv, Typed
    <2>2. CASE Goto(c, IF Dirty THEN "refused" ELSE "write") /\ blind' = blind
      <3>1. Moves(c, IF Dirty THEN "refused" ELSE "write")
        BY <1>2, <2>2
      <3>2. CASE Dirty
        BY <1>1, <2>1, <3>1, <3>2 DEF AsMade, Moves, Present, Untouched, Landed, Settled
      <3>3. CASE ~ Dirty
        BY <1>1, <2>1, <3>1, <3>3 DEF AsMade, Moves, Present, Untouched, Landed, Settled, Dirty
      <3> QED BY <3>2, <3>3
    <2>3. CASE Goto(c, "write") /\ Missed(c, "status")
      <3>1. Moves(c, "write")
        BY <1>2, <2>3
      <3>2. Forced(c)'
        BY <2>3 DEF Missed, Forced, AInv, Typed
      <3> QED BY <1>1, <2>1, <3>1, <3>2 DEF AsMade, Moves, Present, Untouched, Landed, Settled
    <2> QED BY <1>3, <2>2, <2>3 DEF Status
  <1>4. CASE Write(c)
    <2>1. /\ call[c].pc = "write" /\ pending' = call[c].patch
          /\ UNCHANGED <<tree, head, before, blind>> /\ Moves(c, "check")
      BY <1>2, <1>4 DEF Write, WriteDiff
    <2> QED BY <1>1, <2>1 DEF AsMade, Moves, Present, Untouched, Landed, Settled, Forced, Places
  <1>5. CASE Check(c)
    <2>1. call[c].pc = "check" /\ UNCHANGED <<tree, head, before, blind>>
      BY <1>5 DEF Check
    <2>2. CASE Goto(c, "apply") /\ UNCHANGED pending
      <3>1. Moves(c, "apply")
        BY <1>2, <2>2
      <3> QED BY <1>1, <2>1, <2>2, <3>1 DEF AsMade, Moves, Present, Untouched, Landed, Settled, Forced, Places
    <2>3. CASE Goto(c, "refused")
      <3>1. Moves(c, "refused")
        BY <1>2, <2>3
      <3> QED BY <1>1, <2>1, <3>1 DEF AsMade, Moves, Present, Untouched, Landed, Settled
    <2> QED BY <1>5, <2>2, <2>3 DEF Check
  <1>6. CASE Apply(c)
    <2>1. call[c].pc = "apply" /\ UNCHANGED <<head, before, blind>>
      BY <1>6 DEF Apply
    <2>2. CASE Goto(c, "applied") /\ tree' = tree \cup {pending} /\ pending' = pending
      <3>1. Moves(c, "applied")
        BY <1>2, <2>2
      <3> QED BY <1>1, <2>1, <2>2, <3>1 DEF AsMade, Moves, Present, Untouched, Landed, Settled, Forced, Places
    <2>3. CASE Goto(c, "failed") /\ tree' = tree
      <3>1. Moves(c, "failed")
        BY <1>2, <2>3
      <3> QED BY <1>1, <2>1, <2>3, <3>1 DEF AsMade, Moves, Present, Untouched, Landed, Settled, Forced, Places
    <2> QED BY <1>6, <2>2, <2>3 DEF Apply
  <1>7. CASE Applied(c) \/ Gate(c)
    <2>1. /\ call[c].pc \in {"applied", "gate"} /\ UNCHANGED <<tree, head, before, blind>>
          /\ \E pc \in {"gate", "kept", "checkout", "raised"} : Goto(c, pc)
      BY <1>7 DEF Applied, Gate
    <2>2. PICK pc \in {"gate", "kept", "checkout", "raised"} : Moves(c, pc)
      BY <1>2, <2>1
    <2> QED BY <1>1, <2>1, <2>2 DEF AsMade, Moves, Present, Untouched, Landed, Settled, Forced, Places
  <1>8. CASE Checkout(c)
    <2>1. call[c].pc = "checkout" /\ UNCHANGED <<head, before>> /\ Moves(c, "clean")
      BY <1>2, <1>8 DEF Checkout
    <2>2. /\ tree \cap Ignored \subseteq tree'
          /\ tree' \subseteq New \cup Ignored \/ "checkout" \in blind'[c]
          /\ "status" \in blind[c] => "status" \in blind'[c]
      BY <1>8 DEF Checkout, Missed, AInv, Typed
    <2>3. ~ Forced(c)' => ~ Forced(c)
      BY <2>1, <2>2 DEF Forced, Moves
    <2> QED BY <1>1, <2>1, <2>2, <2>3 DEF AsMade, Moves, Present, Untouched, Landed, Settled, Places, Answers
  <1>9. CASE Clean(c)
    <2>1. call[c].pc = "clean" /\ UNCHANGED <<head, before>> /\ Moves(c, "rolled back")
      BY <1>2, <1>9 DEF Clean
    <2>2. /\ tree \ New \subseteq tree' /\ tree' \subseteq tree
          /\ \A x \in tree' : x \in New => "clean" \in blind'[c]
          /\ \A x \in tree \cap New : x \in tree' \/ x \notin tree'
          /\ blind[c] \subseteq blind'[c]
      BY <1>9 DEF Clean, Missed, AInv, Typed
    <2>3. ~ Forced(c)' => ~ Forced(c)
      BY <2>1, <2>2 DEF Forced, Moves
    <2>4. tree \cap Ignored \subseteq tree'
      BY <2>2, IgnoredAssumption
    <2> QED BY <1>1, <2>1, <2>2, <2>3, <2>4 DEF AsMade, Moves, Present, Untouched, Landed, Settled, Places, Answers, Undoes
  <1> QED BY <1>3, <1>4, <1>5, <1>6, <1>7, <1>8, <1>9 DEF Step

LEMMA StepKeepsLone ==
  ASSUME AInv, NEW c \in Call, Step(c)
  PROVE  Lone'
  <1>1. PICK pc \in Places : Goto(c, pc)
    BY StepMoves DEF AInv
  <1>2. Moves(c, pc) /\ Runs(c) /\ apart' = apart
    BY <1>1, GotoMoves, StepMoves DEF AInv
  <1>3. ASSUME NEW e \in apart' PROVE e \in Call /\ AsMade(e)' /\ \A d \in Call \ {e} : ~ Runs(d)'
    <2>1. e \in apart /\ e = c /\ \A d \in Call \ {c} : ~ Runs(d)
      BY <1>2 DEF AInv, Lone
    <2>2. AsMade(c)'
      BY <2>1, StepMakes
    <2> QED BY <1>2, <2>1, <2>2 DEF Runs, Moves
  <1> QED BY <1>3 DEF Lone

LEMMA BeginKeeps ==
  ASSUME AInv, NEW c \in Call, NEW patch \in Patch, NEW force \in BOOLEAN,
         NEW gated \in BOOLEAN, Begin(c, patch, force, gated)
  PROVE  AInv'
  <1>1. /\ call[c].pc = "idle" /\ call'[c].pc = (IF force THEN "write" ELSE "status")
        /\ call'[c].patch = patch /\ call'[c].force = force
        /\ \A d \in Call \ {c} : call'[d] = call[d]
        /\ before'[c] = Present /\ UNCHANGED <<tree, head, pending, blind>>
    BY DEF Begin, AInv, Typed
  <1>2. Typed'
    BY DEF Begin, AInv, Typed, Places
  <1>3. Attended'
    <2>1. ASSUME pending # NoPatch PROVE \E d \in Call : Holding(d)' /\ call'[d].patch = pending
      <3>1. PICK d \in Call : Holding(d) /\ call[d].patch = pending
        BY <2>1 DEF AInv, Attended
      <3> QED BY <1>1, <3>1 DEF Holding
    <2> QED BY <1>1, <2>1 DEF Attended
  <1>4. ASSUME NEW e \in apart' PROVE e = c /\ \A d \in Call \ {e} : ~ Runs(d)'
    BY <1>1, <1>4 DEF Begin, Runs
  <1>5. AsMade(c)'
    <2>1. call'[c].pc \in {"status", "write"} /\ (call'[c].pc = "write" => Forced(c)')
      BY <1>1 DEF Forced
    <2> QED BY <1>1, <2>1 DEF AsMade, Present, Untouched, Landed, Settled
  <1> QED BY <1>2, <1>3, <1>4, <1>5 DEF AInv, Lone

\* Others add what is no patch, and move what is not ignored to a commit.
LEMMA OthersKeep ==
  ASSUME AInv, (\E x \in Own : Edit(x)) \/ Commit \/ UNCHANGED vars
  PROVE  AInv'
  <1>1. UNCHANGED <<pending, call, before, blind, apart>>
    BY DEF Edit, Commit, vars
  <1>2. /\ Present \subseteq Present' /\ Present' \subseteq Present \cup Own
        /\ head \subseteq head' /\ tree' \subseteq tree \cup Own
    BY DEF Edit, Commit, vars, Present
  <1>3. ASSUME NEW c \in apart PROVE AsMade(c)'
    <2>1. AsMade(c) /\ call[c].patch \in Patch \ Own
      BY ChangesAssumption DEF AInv, Lone, AsMade
    <2>2. Forced(c)' <=> Forced(c)
      BY <1>1 DEF Forced
    <2>3. /\ call[c].patch \in Present' => call[c].patch \in Present
          /\ call[c].patch \in tree' => call[c].patch \in tree
      BY <1>2, <2>1
    <2> HIDE DEF Present
    <2> QED BY <1>1, <1>2, <2>1, <2>2, <2>3 DEF AsMade, Untouched, Landed, Settled
  <1> QED BY <1>1, <1>3 DEF AInv, Typed, Attended, Lone, Holding, Runs

LEMMA Next_AInv == AInv /\ [Next]_vars => AInv'
  <1>1. ASSUME AInv, NEW c \in Call, Step(c) PROVE AInv'
    BY <1>1, StepMoves, StepAttends, StepKeepsLone DEF AInv
  <1> QED BY <1>1, BeginKeeps, OthersKeep DEF Next

LEMMA Inductive == Spec => []AInv
  BY Init_AInv, Next_AInv, PTL DEF Spec

\* For any calls, patches, edits and commits: what a call that no other ran
\* beside answers is what has become of its patch and of the work it found.
THEOREM AnswersTell == Spec => []AnswerTellsTree
  <1>1. AInv => AnswerTellsTree
    <2>1. ASSUME AInv, NEW c \in apart, ~ Runs(c)
          PROVE  LET patch == call[c].patch  pc == call[c].pc IN
                 /\ pending = NoPatch
                 /\ pc = "rolled back" => \/ patch \notin tree \/ patch \in Ignored
                                          \/ Undoes(patch) \in blind[c]
                 /\ pc # "rolled back" \/ ~ Forced(c) => before[c] \subseteq Present
                 /\ pc \in {"kept", "raised"} => patch \in Present
                 /\ pc \in {"refused", "failed"} /\ patch \in Present => patch \in before[c]
      <3>1. AsMade(c) /\ c \in Call /\ \A d \in Call : ~ Runs(d)
        BY <2>1 DEF AInv, Lone
      <3>2. call[c].pc \in Answers
        BY <2>1, <3>1 DEF Runs, AsMade
      <3>3. pending = NoPatch
        BY <2>1, <3>1 DEF AInv, Attended, Runs, Answers, Holding
      <3> QED BY <3>1, <3>2, <3>3 DEF AsMade, Untouched, Landed, Settled, Places, Answers
    <2> QED BY <2>1 DEF AnswerTellsTree
  <1> QED BY <1>1, Inductive, PTL

\* For any calls, patches, edits and commits: a patch comes onto the tree
\* only while a call that brought it is between its write and its `finally'.
THEOREM PatchesLandInTime == Spec => LandsInTime
  <1>1. ASSUME AInv, [Next]_vars, NEW x \in Patch \cap (tree' \ tree)
        PROVE  \E c \in Call : Holding(c) /\ call[c].patch = x
    <2>1. CASE \E c \in Call : Step(c)
      <3>1. PICK c \in Call : Step(c)
        BY <2>1
      <3>2. ~ Apply(c) => tree' \subseteq tree
        BY <3>1 DEF Step, Status, Write, Check, Applied, Gate, Checkout, Clean
      <3>3. Apply(c) => tree' \subseteq tree \cup {pending}
        BY DEF Apply
      <3>4. Apply(c) /\ x = pending
        BY <1>1, <3>2, <3>3
      <3> QED BY <1>1, <3>4, ChangesAssumption DEF AInv, Attended
    <2>2. CASE \E c \in Call, patch \in Patch, force, gated \in BOOLEAN : Begin(c, patch, force, gated)
      BY <1>1, <2>2 DEF Begin
    <2>3. CASE (\E own \in Own : Edit(own)) \/ Commit \/ UNCHANGED vars
      BY <1>1, <2>3, ChangesAssumption DEF Edit, Commit, vars
    <2> QED BY <1>1, <2>1, <2>2, <2>3 DEF Next
  <1>2. AInv /\ [Next]_vars =>
          [\A x \in Patch \cap (tree' \ tree) : \E c \in Call : Holding(c) /\ call[c].patch = x]_vars
    BY <1>1
  <1> QED BY <1>2, Inductive, PTL DEF Spec, LandsInTime

-----------------------------------------------------------------------------
(* Induction on the natural numbers, over a set.                            *)
LEMMA SmallestOf ==
    ASSUME NEW S, S \subseteq Nat, S # {}
    PROVE  \E m \in S : \A n \in S : m <= n
  <1>1. IsWellFoundedOn(OpToRel(<, Nat), Nat)
    BY NatLessThanWellFounded
  <1>2. PICK m \in S : \A n \in S : ~(<<n, m>> \in OpToRel(<, Nat))
    BY <1>1, WFMin
  <1>3. \A n \in S : ~(n < m)
    BY <1>2 DEF OpToRel
  <1> QED
    BY <1>3

LEMMA Ind ==
    ASSUME NEW S, 0 \in S, \A n \in Nat : n \in S => n + 1 \in S
    PROVE  Nat \subseteq S
  <1> SUFFICES ASSUME ~(Nat \subseteq S) PROVE FALSE
    OBVIOUS
  <1>1. PICK m \in Nat \ S : \A n \in Nat \ S : m <= n
    BY SmallestOf
  <1>2. m # 0 /\ m - 1 \in Nat
    BY <1>1
  <1>3. m - 1 \in S
    BY <1>1, <1>2
  <1> QED
    BY <1>1, <1>2, <1>3
-----------------------------------------------------------------------------
(* Sums over a sequence of domains.                                         *)
Sums(g, v, s, m) == g = [n \in 0 .. m |-> IF n = 0 THEN 0 ELSE g[n - 1] + v[s[n]]]

LEMMA SumsExist ==
    ASSUME NEW v, NEW s, NEW k \in Nat
    PROVE  \E g : Sums(g, v, s, k)
  <1> DEFINE D == {m \in Nat : \E g : Sums(g, v, s, m)}
  <1>1. 0 \in D
    <2> DEFINE g == [n \in 0 .. 0 |-> 0]
    <2>1. Sums(g, v, s, 0)
      BY DEF Sums
    <2> QED
      BY <2>1
  <1>2. ASSUME NEW m \in Nat, m \in D PROVE m + 1 \in D
    <2>1. PICK g : Sums(g, v, s, m)
      BY <1>2
    <2> DEFINE h == [n \in 0 .. m + 1 |-> IF n <= m THEN g[n] ELSE g[n - 1] + v[s[n]]]
               k2 == [n \in 0 .. m + 1 |-> IF n = 0 THEN 0 ELSE h[n - 1] + v[s[n]]]
    <2>2. \A n \in 0 .. m : g[n] = IF n = 0 THEN 0 ELSE g[n - 1] + v[s[n]]
      BY <2>1 DEF Sums
    <2>3. ASSUME NEW n \in 0 .. m + 1 PROVE h[n] = k2[n]
      <3>1. CASE n = 0
        BY <3>1, <2>2
      <3>2. CASE n # 0
        <4>1. n - 1 \in 0 .. m /\ h[n - 1] = g[n - 1]
          BY <3>2
        <4>2. CASE n <= m
          BY <4>1, <4>2, <3>2, <2>2
        <4>3. CASE ~(n <= m)
          BY <4>1, <4>3, <3>2
        <4> QED
          BY <4>2, <4>3
      <3> QED
        BY <3>1, <3>2
    <2>4. h = k2
      BY <2>3
    <2>5. Sums(h, v, s, m + 1)
      BY <2>4 DEF Sums
    <2> HIDE DEF h
    <2> QED
      BY <2>5
  <1>3. Nat \subseteq D
    <2> HIDE DEF D
    <2> QED
      BY <1>1, <1>2, Ind
  <1> QED
    BY <1>3

LEMMA TotalSums ==
    ASSUME NEW v, NEW s, Len(s) \in Nat
    PROVE  \E g : Sums(g, v, s, Len(s)) /\ Total(v, s) = g[Len(s)]
  <1> DEFINE g == CHOOSE g : Sums(g, v, s, Len(s))
  <1>1. Sums(g, v, s, Len(s))
    BY SumsExist
  <1>2. Total(v, s) = g[Len(s)]
    BY DEF Total, Sums
  <1> HIDE DEF g
  <1> QED
    BY <1>1, <1>2

(* A sum of counts is a count, at least any one of them, and it grows with   *)
(* each.                                                                     *)
LEMMA SumsGrow ==
    ASSUME NEW v, NEW w, NEW s, NEW k \in Nat, NEW g, NEW h, Sums(g, v, s, k), Sums(h, w, s, k),
           \A n \in 1 .. k : v[s[n]] \in Nat /\ w[s[n]] \in Nat /\ v[s[n]] <= w[s[n]]
    PROVE  g[k] \in Nat /\ h[k] \in Nat /\ g[k] <= h[k]
  <1> DEFINE D == {i \in Nat : i <= k => g[i] \in Nat /\ h[i] \in Nat /\ g[i] <= h[i]}
  <1>1. \A i \in 0 .. k : g[i] = IF i = 0 THEN 0 ELSE g[i - 1] + v[s[i]]
    BY DEF Sums
  <1>2. \A i \in 0 .. k : h[i] = IF i = 0 THEN 0 ELSE h[i - 1] + w[s[i]]
    BY DEF Sums
  <1>3. 0 \in D
    BY <1>1, <1>2
  <1>4. ASSUME NEW i \in Nat, i \in D PROVE i + 1 \in D
    <2> SUFFICES ASSUME i + 1 <= k
                 PROVE  g[i + 1] \in Nat /\ h[i + 1] \in Nat /\ g[i + 1] <= h[i + 1]
      OBVIOUS
    <2>1. g[i] \in Nat /\ h[i] \in Nat /\ g[i] <= h[i]
      BY <1>4
    <2>2. i + 1 \in 1 .. k /\ i + 1 \in 0 .. k /\ i + 1 # 0 /\ i + 1 - 1 = i
      OBVIOUS
    <2>3. g[i + 1] = g[i] + v[s[i + 1]]
      BY <1>1, <2>2
    <2>4. h[i + 1] = h[i] + w[s[i + 1]]
      BY <1>2, <2>2
    <2>5. v[s[i + 1]] \in Nat /\ w[s[i + 1]] \in Nat /\ v[s[i + 1]] <= w[s[i + 1]]
      BY <2>2
    <2> QED
      BY <2>1, <2>3, <2>4, <2>5
  <1>5. Nat \subseteq D
    <2> HIDE DEF D
    <2> QED
      BY <1>3, <1>4, Ind
  <1> QED
    BY <1>5

LEMMA SumsHold ==
    ASSUME NEW v, NEW s, NEW k \in Nat, NEW g, Sums(g, v, s, k),
           \A n \in 1 .. k : v[s[n]] \in Nat, NEW j \in 1 .. k
    PROVE  v[s[j]] <= g[k]
  <1> DEFINE D == {i \in Nat : i <= k => g[i] \in Nat /\ (j <= i => v[s[j]] <= g[i])}
  <1>1. \A i \in 0 .. k : g[i] = IF i = 0 THEN 0 ELSE g[i - 1] + v[s[i]]
    BY DEF Sums
  <1>2. 0 \in D
    BY <1>1
  <1>3. ASSUME NEW i \in Nat, i \in D PROVE i + 1 \in D
    <2> SUFFICES ASSUME i + 1 <= k
                 PROVE  g[i + 1] \in Nat /\ (j <= i + 1 => v[s[j]] <= g[i + 1])
      OBVIOUS
    <2>1. g[i] \in Nat /\ (j <= i => v[s[j]] <= g[i])
      BY <1>3
    <2>2. i + 1 \in 1 .. k /\ i + 1 \in 0 .. k /\ i + 1 # 0 /\ i + 1 - 1 = i
      OBVIOUS
    <2>3. g[i + 1] = g[i] + v[s[i + 1]]
      BY <1>1, <2>2
    <2>4. v[s[i + 1]] \in Nat /\ v[s[j]] \in Nat
      BY <2>2
    <2>5. CASE j <= i
      BY <2>1, <2>3, <2>4, <2>5
    <2>6. CASE j = i + 1
      BY <2>1, <2>3, <2>4, <2>6
    <2>7. CASE j > i + 1
      BY <2>1, <2>3, <2>4, <2>7
    <2> QED
      BY <2>5, <2>6, <2>7
  <1>4. Nat \subseteq D
    <2> HIDE DEF D
    <2> QED
      BY <1>2, <1>3, Ind
  <1> QED
    BY <1>4

LEMMA SumsZero ==
    ASSUME NEW v, NEW s, NEW k \in Nat, NEW g, Sums(g, v, s, k), \A n \in 1 .. k : v[s[n]] = 0
    PROVE  g[k] = 0
  <1> DEFINE D == {i \in Nat : i <= k => g[i] = 0}
  <1>1. \A i \in 0 .. k : g[i] = IF i = 0 THEN 0 ELSE g[i - 1] + v[s[i]]
    BY DEF Sums
  <1>2. 0 \in D
    BY <1>1
  <1>3. ASSUME NEW i \in Nat, i \in D PROVE i + 1 \in D
    <2> SUFFICES ASSUME i + 1 <= k PROVE g[i + 1] = 0
      OBVIOUS
    <2>1. i + 1 \in 1 .. k /\ i + 1 \in 0 .. k /\ i + 1 # 0 /\ i + 1 - 1 = i
      OBVIOUS
    <2>2. g[i + 1] = g[i] + v[s[i + 1]] /\ v[s[i + 1]] = 0 /\ g[i] = 0
      BY <1>1, <1>3, <2>1
    <2> QED
      BY <2>2
  <1>4. Nat \subseteq D
    <2> HIDE DEF D
    <2> QED
      BY <1>2, <1>3, Ind
  <1> QED
    BY <1>4

LEMMA TotalGrows ==
    ASSUME NEW v, NEW w, NEW s, Len(s) \in Nat,
           \A n \in 1 .. Len(s) : v[s[n]] \in Nat /\ w[s[n]] \in Nat /\ v[s[n]] <= w[s[n]]
    PROVE  Total(v, s) \in Nat /\ Total(w, s) \in Nat /\ Total(v, s) <= Total(w, s)
  <1>1. PICK g : Sums(g, v, s, Len(s)) /\ Total(v, s) = g[Len(s)]
    BY TotalSums
  <1>2. PICK h : Sums(h, w, s, Len(s)) /\ Total(w, s) = h[Len(s)]
    BY TotalSums
  <1> QED
    BY <1>1, <1>2, SumsGrow

LEMMA TotalPositive ==
    ASSUME NEW v, NEW s, Len(s) \in Nat, \A n \in 1 .. Len(s) : v[s[n]] \in Nat
    PROVE  Total(v, s) > 0 <=> \E n \in 1 .. Len(s) : v[s[n]] > 0
  <1>1. PICK g : Sums(g, v, s, Len(s)) /\ Total(v, s) = g[Len(s)]
    BY TotalSums
  <1>2. g[Len(s)] \in Nat
    <2>1. \A n \in 1 .. Len(s) : v[s[n]] <= v[s[n]]
      OBVIOUS
    <2> QED
      BY <1>1, <2>1, SumsGrow
  <1>3. ASSUME NEW n \in 1 .. Len(s), v[s[n]] > 0 PROVE g[Len(s)] > 0
    <2>1. v[s[n]] <= g[Len(s)] /\ v[s[n]] \in Nat
      BY <1>1, <1>3, SumsHold
    <2> QED
      BY <1>2, <1>3, <2>1
  <1>4. ASSUME \A n \in 1 .. Len(s) : ~(v[s[n]] > 0) PROVE ~(g[Len(s)] > 0)
    <2>1. \A n \in 1 .. Len(s) : v[s[n]] = 0
      BY <1>4
    <2>2. g[Len(s)] = 0
      BY <1>1, <2>1, SumsZero
    <2> QED
      BY <2>2
  <1> QED
    BY <1>1, <1>3, <1>4
-----------------------------------------------------------------------------
(* The grades of what an audit has kept: it is Heavier when it has more of   *)
(* the worst, of the worst and bad, and of all.                              *)
CountsOf == [Severities -> Nat]

Heavier(x, y) ==
    /\ x[1] >= y[1]
    /\ x[1] + x[2] >= y[1] + y[2]
    /\ x[1] + x[2] + x[3] >= y[1] + y[2] + y[3]

LEMMA CountsAre ==
    ASSUME NEW x \in CountsOf PROVE x[1] \in Nat /\ x[2] \in Nat /\ x[3] \in Nat
  BY DEF CountsOf, Severities

LEMMA MoreIsHeavier ==
    ASSUME NEW x \in CountsOf, NEW y \in CountsOf, \A s \in Severities : x[s] >= y[s]
    PROVE  Heavier(x, y)
  <1>1. x[1] >= y[1] /\ x[2] >= y[2] /\ x[3] >= y[3]
    BY DEF Severities
  <1> QED
    BY <1>1, CountsAre DEF Heavier

LEMMA Weights1041 ==
    ASSUME NEW x \in CountsOf, NEW y \in CountsOf, Heavier(x, y)
    PROVE  /\ Weight(<<10, 4, 1>>, x) \in Nat
           /\ Weight(<<10, 4, 1>>, y) \in Nat
           /\ Weight(<<10, 4, 1>>, x) >= Weight(<<10, 4, 1>>, y)
  BY CountsAre DEF Weight, Heavier

LEMMA Weights2061 ==
    ASSUME NEW x \in CountsOf, NEW y \in CountsOf, Heavier(x, y)
    PROVE  /\ Weight(<<20, 6, 1>>, x) \in Nat
           /\ Weight(<<20, 6, 1>>, y) \in Nat
           /\ Weight(<<20, 6, 1>>, x) >= Weight(<<20, 6, 1>>, y)
  BY CountsAre DEF Weight, Heavier

LEMMA Weights621 ==
    ASSUME NEW x \in CountsOf, NEW y \in CountsOf, Heavier(x, y)
    PROVE  /\ Weight(<<6, 2, 1>>, x) \in Nat
           /\ Weight(<<6, 2, 1>>, y) \in Nat
           /\ Weight(<<6, 2, 1>>, x) >= Weight(<<6, 2, 1>>, y)
  BY CountsAre DEF Weight, Heavier

LEMMA SeniorityGrows ==
    ASSUME NEW x \in CountsOf, NEW y \in CountsOf, Heavier(x, y), NEW size \in Nat, NEW files \in Nat
    PROVE  /\ SeniorityGrade(x, size, files) \in 1 .. 5
           /\ SeniorityGrade(y, size, files) \in 1 .. 5
           /\ SeniorityGrade(x, size, files) >= SeniorityGrade(y, size, files)
  BY Weights1041 DEF SeniorityGrade, SeniorityWeights, AtLeast

LEMMA SecurityGrows ==
    ASSUME NEW x \in CountsOf, NEW y \in CountsOf, Heavier(x, y), NEW size \in Nat, NEW files \in Nat
    PROVE  /\ SecurityGrade(x, size, files) \in 1 .. 4
           /\ SecurityGrade(y, size, files) \in 1 .. 4
           /\ SecurityGrade(x, size, files) >= SecurityGrade(y, size, files)
  BY Weights2061, CountsAre DEF SecurityGrade, SecurityWeights, AtLeast, Heavier

LEMMA PerformanceGrows ==
    ASSUME NEW x \in CountsOf, NEW y \in CountsOf, Heavier(x, y), NEW size \in Nat, NEW files \in Nat
    PROVE  /\ PerformanceGrade(x, size, files) \in 1 .. 4
           /\ PerformanceGrade(y, size, files) \in 1 .. 4
           /\ PerformanceGrade(x, size, files) >= PerformanceGrade(y, size, files)
  BY Weights621, CountsAre DEF PerformanceGrade, PerformanceWeights, AtLeast, Heavier

LEMMA TestGrows ==
    ASSUME NEW x \in CountsOf, NEW y \in CountsOf, Heavier(x, y), NEW size \in Nat, NEW files \in Nat
    PROVE  /\ TestGrade(x, size, files) \in 1 .. 4
           /\ TestGrade(y, size, files) \in 1 .. 4
           /\ TestGrade(x, size, files) >= TestGrade(y, size, files)
  BY Weights1041, CountsAre DEF TestGrade, TestWeights, AtLeast, Heavier

LEMMA DependencyGrows ==
    ASSUME NEW x \in CountsOf, NEW y \in CountsOf, Heavier(x, y), NEW size \in Nat
    PROVE  /\ DependencyGrade(x, size) \in 1 .. 4
           /\ DependencyGrade(y, size) \in 1 .. 4
           /\ DependencyGrade(x, size) >= DependencyGrade(y, size)
  BY Weights1041, CountsAre DEF DependencyGrade, DependencyWeights, AtLeast, Heavier

LEMMA LocalizationGrows ==
    ASSUME NEW x \in CountsOf, NEW y \in CountsOf, Heavier(x, y), NEW size \in Nat,
           NEW locales \in Nat, NEW hardcoded \in Nat
    PROVE  /\ LocalizationGrade(x, size, locales, hardcoded) \in 1 .. 4
           /\ LocalizationGrade(y, size, locales, hardcoded) \in 1 .. 4
           /\ LocalizationGrade(x, size, locales, hardcoded) >= LocalizationGrade(y, size, locales, hardcoded)
  BY Weights1041 DEF LocalizationGrade, LocalizationWeights, AtLeast

LEMMA WebGrows ==
    ASSUME NEW x \in CountsOf, NEW y \in CountsOf, Heavier(x, y)
    PROVE  WebGrade(x) \in 1 .. 4 /\ WebGrade(y) \in 1 .. 4 /\ WebGrade(x) >= WebGrade(y)
  BY CountsAre DEF WebGrade, Heavier
-----------------------------------------------------------------------------
(* The grades of a test report and of the web vitals.                       *)
LEMMA FlowsAre ==
    ASSUME NEW x \in Seq(Flow), NEW o
    PROVE  Flows(x, o) \in Nat /\ (Flows(x, o) > 0 <=> \E i \in DOMAIN x : Outcome(x[i]) = o)
  <1> DEFINE F == {i \in DOMAIN x : Outcome(x[i]) = o}
  <1>1. Len(x) \in Nat /\ DOMAIN x = 1 .. Len(x)
    BY LenProperties
  <1>2. IsFiniteSet(DOMAIN x)
    BY <1>1, FS_Interval
  <1>3. F \subseteq DOMAIN x
    OBVIOUS
  <1>4. IsFiniteSet(F)
    BY <1>2, <1>3, FS_Subset
  <1>5. Cardinality(F) \in Nat /\ (Cardinality(F) = 0 <=> F = {})
    BY <1>4, FS_CardinalityType, FS_EmptySet
  <1>6. Flows(x, o) = Cardinality(F)
    BY DEF Flows
  <1>7. F # {} <=> \E i \in DOMAIN x : Outcome(x[i]) = o
    OBVIOUS
  <1> HIDE DEF F
  <1> QED
    BY <1>5, <1>6, <1>7

(* At least as many failed and flaky flows of as many, and no more passed.   *)
LEMMA ExecutionGrows ==
    ASSUME NEW x \in Seq(Flow), NEW y \in Seq(Flow), Len(x) = Len(y),
           Flows(x, "failed") >= Flows(y, "failed"), Flows(x, "flaky") >= Flows(y, "flaky"),
           Flows(x, "passed") <= Flows(y, "passed")
    PROVE  /\ ExecutionGrade(x) \in 1 .. 4
           /\ ExecutionGrade(y) \in 1 .. 4
           /\ ExecutionGrade(x) >= ExecutionGrade(y)
  <1>1. /\ Flows(x, "failed") \in Nat /\ Flows(x, "flaky") \in Nat /\ Flows(x, "passed") \in Nat
        /\ Flows(y, "failed") \in Nat /\ Flows(y, "flaky") \in Nat /\ Flows(y, "passed") \in Nat
    BY FlowsAre
  <1>2. Len(x) \in Nat
    BY LenProperties
  <1> QED
    BY <1>1, <1>2 DEF ExecutionGrade

LEMMA ExecutionBlocks ==
    ASSUME NEW x \in Seq(Flow)
    PROVE  ExecutionGrade(x) = 4 <=> Flows(x, "failed") > 0
  <1>1. Flows(x, "failed") \in Nat /\ Len(x) \in Nat /\ DOMAIN x = 1 .. Len(x)
    BY FlowsAre, LenProperties
  <1>2. Flows(x, "failed") > 0 => Len(x) # 0
    BY <1>1, FlowsAre
  <1> QED
    BY <1>1, <1>2 DEF ExecutionGrade

Measures == [lcp : Bands, cls : Bands, accessibility : Bands, performance : Bands]

(* No measure in a better band.                                             *)
Rank(band) == CASE band = "poor" -> 3 [] band = "middle" -> 2 [] OTHER -> 1

LEMMA RankedBelow ==
    ASSUME NEW a \in Bands, NEW b \in Bands, Rank(a) >= Rank(b)
    PROVE  /\ b = "poor" => a = "poor"
           /\ b = "middle" => a \in {"poor", "middle"}
  BY DEF Rank, Bands

LEMMA VitalsGrow ==
    ASSUME NEW x \in Measures, NEW y \in Measures, \A v \in DOMAIN x : Rank(x[v]) >= Rank(y[v])
    PROVE  /\ VitalsGrade(x) \in 1 .. 4
           /\ VitalsGrade(y) \in 1 .. 4
           /\ VitalsGrade(x) >= VitalsGrade(y)
  <1>1. DOMAIN x = {"lcp", "cls", "accessibility", "performance"}
    BY DEF Measures
  <1>2. /\ x.lcp \in Bands /\ x.cls \in Bands /\ x.accessibility \in Bands /\ x.performance \in Bands
        /\ y.lcp \in Bands /\ y.cls \in Bands /\ y.accessibility \in Bands /\ y.performance \in Bands
    BY DEF Measures
  <1>3. /\ Rank(x.lcp) >= Rank(y.lcp) /\ Rank(x.cls) >= Rank(y.cls)
        /\ Rank(x.accessibility) >= Rank(y.accessibility) /\ Rank(x.performance) >= Rank(y.performance)
    BY <1>1
  <1>4. /\ y.lcp = "poor" => x.lcp = "poor"
        /\ y.cls = "poor" => x.cls = "poor"
        /\ y.accessibility = "poor" => x.accessibility = "poor"
        /\ y.performance = "poor" => x.performance = "poor"
        /\ y.lcp = "middle" => x.lcp \in {"poor", "middle"}
        /\ y.cls = "middle" => x.cls \in {"poor", "middle"}
        /\ y.performance = "middle" => x.performance \in {"poor", "middle"}
    BY <1>2, <1>3, RankedBelow
  <1> QED
    BY <1>4 DEF VitalsGrade

LEMMA VitalsBlock ==
    ASSUME NEW x \in Measures
    PROVE  VitalsGrade(x) = 4 <=> "poor" \in {x.lcp, x.cls, x.accessibility}
  BY DEF VitalsGrade
-----------------------------------------------------------------------------
(* What a domain contributes to the verdict.                                *)
Domains == DOMAIN DomainWeights
FindingDomains == {"seniority", "security", "performance", "localization", "dependencies",
                   "test_quality", "web_app"}
GradesOf(d) == IF d = "seniority" THEN 1 .. 5 ELSE 1 .. 4

LEMMA DomainsAre == Domains = FindingDomains \cup {"test_execution", "web_vitals"}
  BY DEF Domains, FindingDomains, DomainWeights

LEMMA AnswersAre ==
    /\ \A d \in FindingDomains : AnswersOf(d) = CountsOf
    /\ AnswersOf("test_execution") = Seq(Flow)
    /\ AnswersOf("web_vitals") = Measures
  BY DEF AnswersOf, FindingDomains, CountsOf, Measures

(* A worse answer never has a better grade.                                 *)
LEMMA GradesGrow ==
    ASSUME NEW d \in Domains, NEW x \in AnswersOf(d), NEW y \in AnswersOf(d), NoBetter(d, x, y)
    PROVE  /\ GradeOf(d, x) \in GradesOf(d)
           /\ GradeOf(d, y) \in GradesOf(d)
           /\ GradeOf(d, x) >= GradeOf(d, y)
  <1>1. CASE d = "test_execution"
    <2>1. x \in Seq(Flow) /\ y \in Seq(Flow)
      BY <1>1, AnswersAre
    <2>2. /\ Len(x) = Len(y)
          /\ Flows(x, "failed") >= Flows(y, "failed") /\ Flows(x, "flaky") >= Flows(y, "flaky")
          /\ Flows(x, "passed") <= Flows(y, "passed")
      BY <1>1 DEF NoBetter
    <2>3. GradeOf(d, x) = ExecutionGrade(x) /\ GradeOf(d, y) = ExecutionGrade(y) /\ GradesOf(d) = 1 .. 4
      BY <1>1 DEF GradeOf, GradesOf
    <2> QED
      BY <2>1, <2>2, <2>3, ExecutionGrows
  <1>2. CASE d = "web_vitals"
    <2>1. x \in Measures /\ y \in Measures
      BY <1>2, AnswersAre
    <2>2. \A v \in DOMAIN x : Rank(x[v]) >= Rank(y[v])
      BY <1>2 DEF NoBetter, Rank
    <2>3. GradeOf(d, x) = VitalsGrade(x) /\ GradeOf(d, y) = VitalsGrade(y) /\ GradesOf(d) = 1 .. 4
      BY <1>2 DEF GradeOf, GradesOf
    <2> QED
      BY <2>1, <2>2, <2>3, VitalsGrow
  <1>3. CASE d \in FindingDomains
    <2>1. x \in CountsOf /\ y \in CountsOf
      BY <1>3, AnswersAre
    <2>2. \A s \in Severities : x[s] >= y[s]
      BY <1>3 DEF NoBetter, FindingDomains
    <2>3. Heavier(x, y)
      BY <2>1, <2>2, MoreIsHeavier
    <2>4. 1000 \in Nat /\ 0 \in Nat /\ 1 \in Nat /\ 2 \in Nat
      OBVIOUS
    <2>5. CASE d = "seniority"
      BY <2>1, <2>3, <2>4, <2>5, SeniorityGrows DEF GradeOf, GradesOf
    <2>6. CASE d = "security"
      BY <2>1, <2>3, <2>4, <2>6, SecurityGrows DEF GradeOf, GradesOf
    <2>7. CASE d = "performance"
      BY <2>1, <2>3, <2>4, <2>7, PerformanceGrows DEF GradeOf, GradesOf
    <2>8. CASE d = "localization"
      BY <2>1, <2>3, <2>4, <2>8, LocalizationGrows DEF GradeOf, GradesOf
    <2>9. CASE d = "dependencies"
      BY <2>1, <2>3, <2>4, <2>9, DependencyGrows DEF GradeOf, GradesOf
    <2>10. CASE d = "test_quality"
      BY <2>1, <2>3, <2>4, <2>10, TestGrows DEF GradeOf, GradesOf
    <2>11. CASE d = "web_app"
      BY <2>1, <2>3, <2>4, <2>11, WebGrows DEF GradeOf, GradesOf
    <2> QED
      BY <1>3, <2>5, <2>6, <2>7, <2>8, <2>9, <2>10, <2>11 DEF FindingDomains
  <1> QED
    BY <1>1, <1>2, <1>3, DomainsAre

(* And a worse grade never a better score.                                  *)
LEMMA ScoresFall ==
    ASSUME NEW d \in Domains, NEW g \in GradesOf(d), NEW h \in GradesOf(d), g >= h
    PROVE  Scores[d][g] \in Nat /\ Scores[d][h] \in Nat /\ Scores[d][g] <= Scores[d][h]
  <1>1. ASSUME NEW s, s \in {<<100, 75, 40, 0>>, <<100, 80, 45, 15>>, <<100, 75, 50, 20>>,
                             <<100, 80, 55, 20>>, <<100, 55, 25, 0>>},
               g \in 1 .. 4, h \in 1 .. 4
        PROVE  s[g] \in Nat /\ s[h] \in Nat /\ s[g] <= s[h]
    <2>1. /\ s[1] \in Nat /\ s[2] \in Nat /\ s[3] \in Nat /\ s[4] \in Nat
          /\ s[2] <= s[1] /\ s[3] <= s[2] /\ s[4] <= s[3]
      BY <1>1
    <2>2. g \in {1, 2, 3, 4} /\ h \in {1, 2, 3, 4}
      BY <1>1
    <2> QED
      BY <2>1, <2>2
  <1>2. CASE d = "seniority"
    <2> DEFINE s == <<100, 85, 65, 40, 0>>
    <2>1. s[1] = 100 /\ s[2] = 85 /\ s[3] = 65 /\ s[4] = 40 /\ s[5] = 0
      OBVIOUS
    <2>2. g \in {1, 2, 3, 4, 5} /\ h \in {1, 2, 3, 4, 5}
      BY <1>2 DEF GradesOf
    <2>3. Scores[d] = s
      BY <1>2 DEF Scores
    <2> HIDE DEF s
    <2> QED
      BY <2>1, <2>2, <2>3
  <1>3. CASE d # "seniority"
    <2>1. g \in 1 .. 4 /\ h \in 1 .. 4
      BY <1>3 DEF GradesOf
    <2>2. Scores[d] \in {<<100, 75, 40, 0>>, <<100, 80, 45, 15>>, <<100, 75, 50, 20>>,
                         <<100, 80, 55, 20>>, <<100, 55, 25, 0>>}
      BY <1>3, DomainsAre DEF Scores, FindingDomains
    <2> QED
      BY <1>1, <2>1, <2>2
  <1> QED
    BY <1>2, <1>3

(* What it counts as blockers.                                              *)
LEMMA BlockersAre ==
    ASSUME NEW d \in Domains, NEW x \in AnswersOf(d)
    PROVE  Blockers(d, x) = IF d = "test_execution" THEN Flows(x, "failed")
                            ELSE IF d = "web_vitals"
                                 THEN IF "poor" \in {x.lcp, x.cls, x.accessibility} THEN 1 ELSE 0
                            ELSE IF d = "performance" THEN 0
                            ELSE x[1]
  <1>1. CASE d = "test_execution"
    <2>1. x \in Seq(Flow)
      BY <1>1, AnswersAre
    <2>2. /\ Flows(x, "failed") \in Nat
          /\ ExecutionGrade(x) = 4 <=> Flows(x, "failed") > 0
      BY <2>1, FlowsAre, ExecutionBlocks
    <2> QED
      BY <1>1, <2>2 DEF Blockers, BlockerFindings, Gates, GradeOf
  <1>2. CASE d = "web_vitals"
    <2>1. VitalsGrade(x) = 4 <=> "poor" \in {x.lcp, x.cls, x.accessibility}
      BY <1>2, AnswersAre, VitalsBlock
    <2> QED
      BY <1>2, <2>1 DEF Blockers, BlockerFindings, Gates, GradeOf
  <1>3. CASE d \in FindingDomains
    <2>1. x[1] \in Nat /\ x[2] \in Nat /\ x[3] \in Nat
      BY <1>3, AnswersAre, CountsAre
    <2>2. CASE d \in {"seniority", "localization", "web_app", "performance"}
      BY <2>2 DEF Blockers, BlockerFindings, Gates
    <2>3. CASE d = "security"
      <3>1. SecurityGrade(x, 1000, 1) = 4 => x[1] > 0
        BY <2>1 DEF SecurityGrade
      <3> QED
        BY <2>1, <2>3, <3>1 DEF Blockers, BlockerFindings, GradeOf
    <2>4. CASE d = "dependencies"
      <3>1. DependencyGrade(x, 1000) = 4 => x[1] > 0
        BY <2>1 DEF DependencyGrade
      <3> QED
        BY <2>1, <2>4, <3>1 DEF Blockers, BlockerFindings, GradeOf
    <2>5. CASE d = "test_quality"
      <3>1. TestGrade(x, 1000, 1) = 4 => x[1] > 0
        BY <2>1 DEF TestGrade
      <3> QED
        BY <2>1, <2>5, <3>1 DEF Blockers, BlockerFindings, GradeOf
    <2> QED
      BY <1>3, <2>2, <2>3, <2>4, <2>5 DEF FindingDomains
  <1> QED
    BY <1>1, <1>2, <1>3, DomainsAre

LEMMA BlockersTell ==
    ASSUME NEW d \in Domains, NEW x \in AnswersOf(d)
    PROVE  Blockers(d, x) \in Nat /\ (Blockers(d, x) > 0 <=> Unfit(d, x))
  <1>1. CASE d = "test_execution"
    <2>1. x \in Seq(Flow)
      BY <1>1, AnswersAre
    <2> QED
      BY <1>1, <2>1, BlockersAre, FlowsAre DEF Unfit
  <1>2. CASE d = "web_vitals"
    BY <1>2, BlockersAre DEF Unfit
  <1>3. CASE d = "performance"
    BY <1>3, BlockersAre DEF Unfit
  <1>4. CASE d \in FindingDomains \ {"performance"}
    <2>1. x[1] \in Nat
      BY <1>4, AnswersAre, CountsAre
    <2>2. d \notin {"test_execution", "web_vitals", "performance"}
      BY <1>4 DEF FindingDomains
    <2> QED
      BY <2>1, <2>2, BlockersAre DEF Unfit
  <1> QED
    BY <1>1, <1>2, <1>3, <1>4, DomainsAre

LEMMA BlockersGrow ==
    ASSUME NEW d \in Domains, NEW x \in AnswersOf(d), NEW y \in AnswersOf(d), NoBetter(d, x, y)
    PROVE  Blockers(d, x) >= Blockers(d, y)
  <1>1. CASE d = "test_execution"
    BY <1>1, BlockersAre DEF NoBetter
  <1>2. CASE d = "web_vitals"
    <2>1. x \in Measures /\ y \in Measures
      BY <1>2, AnswersAre
    <2>2. VitalsGrade(x) \in 1 .. 4 /\ VitalsGrade(y) \in 1 .. 4 /\ VitalsGrade(x) >= VitalsGrade(y)
      BY <1>2, <2>1, VitalsGrow DEF NoBetter, Rank
    <2>3. VitalsGrade(y) = 4 => VitalsGrade(x) = 4
      BY <2>2
    <2> QED
      BY <1>2, <2>1, <2>3, VitalsBlock, BlockersAre
  <1>3. CASE d = "performance"
    BY <1>3, BlockersAre
  <1>4. CASE d \in FindingDomains \ {"performance"}
    <2>1. d \notin {"test_execution", "web_vitals", "performance"} /\ 1 \in Severities
      BY <1>4 DEF FindingDomains, Severities
    <2>2. x[1] >= y[1]
      BY <2>1 DEF NoBetter
    <2> QED
      BY <2>1, <2>2, BlockersAre
  <1> QED
    BY <1>1, <1>2, <1>3, <1>4, DomainsAre
-----------------------------------------------------------------------------
(* The verdict of a run of whatever domains.                                *)
LEMMA InputsAre ==
    ASSUME NEW d \in DOMAIN Inputs, NEW i \in DOMAIN Inputs[d]
    PROVE  \/ Inputs[d][i] = <<>> /\ ToSet(Inputs[d][i]) = {}
           \/ \E x \in AnswersOf(d) :
                 Inputs[d][i] # <<>> /\ Inputs[d][i][1] = x /\ ToSet(Inputs[d][i]) = {x}
  <1> DEFINE f == Inputs[d][i]
  <1>1. f = <<>> \/ (Len(f) = 1 /\ f \in Seq(AnswersOf(d)))
    BY InputsAssumption
  <1> HIDE DEF f
  <1>2. CASE f = <<>>
    <2>1. DOMAIN f = {}
      BY <1>2
    <2>2. ToSet(f) = {}
      BY <2>1 DEF ToSet
    <2> QED
      BY <1>2, <2>2 DEF f
  <1>3. CASE Len(f) = 1 /\ f \in Seq(AnswersOf(d))
    <2>1. DOMAIN f = {1} /\ f[1] \in AnswersOf(d) /\ f # <<>>
      BY <1>3, LenProperties, ElementOfSeq, EmptySeq
    <2>2. ToSet(f) = {f[1]}
      BY <2>1 DEF ToSet
    <2> QED
      BY <2>1, <2>2 DEF f
  <1> QED
    BY <1>1, <1>2, <1>3

LEMMA RequestsAre ==
    ASSUME NEW ds \in Requests
    PROVE  /\ Len(ds) \in Nat /\ DOMAIN ds = 1 .. Len(ds)
           /\ \A n \in 1 .. Len(ds) : ds[n] \in Domains /\ ds[n] \in DOMAIN Inputs /\ ds[n] \in ToSet(ds)
           /\ \A d \in ToSet(ds) : d \in Domains /\ d \in DOMAIN Inputs /\ \E n \in 1 .. Len(ds) : ds[n] = d
  <1>1. ds \in Seq(Domains) /\ ToSet(ds) \subseteq DOMAIN Inputs
    BY RequestsAssumption DEF Domains
  <1>2. Len(ds) \in Nat /\ DOMAIN ds = 1 .. Len(ds)
    BY <1>1, LenProperties
  <1>3. \A n \in 1 .. Len(ds) : ds[n] \in Domains
    BY <1>1, ElementOfSeq
  <1> QED
    BY <1>1, <1>2, <1>3 DEF ToSet

(* An input for each of the domains.                                        *)
Chosen(ds, choice) == DOMAIN choice = ToSet(ds) /\ \A d \in ToSet(ds) : choice[d] \in DOMAIN Inputs[d]

ResultsIn(choice) == [d \in DOMAIN choice |-> Reduce(d, Inputs[d][choice[d]])]
BlockersIn(choice) == [d \in DOMAIN choice |-> ResultsIn(choice)[d].blockers]
WeightIn(choice) == [d \in DOMAIN choice |-> IF ResultsIn(choice)[d].ran THEN DomainWeights[d] ELSE 0]
ScoreIn(choice) == [d \in DOMAIN choice |-> ResultsIn(choice)[d].score * WeightIn(choice)[d]]

LEMMA VerdictIs ==
    ASSUME NEW ds, NEW choice
    PROVE  VerdictFor(ds, choice) =
             IF Total(BlockersIn(choice), ds) > 0 THEN "BLOCK"
             ELSE IF Total(WeightIn(choice), ds) > 0
                     /\ Total(ScoreIn(choice), ds) >= 80 * Total(WeightIn(choice), ds) THEN "SHIP"
             ELSE "HOLD"
  BY DEF VerdictFor, BlockersIn, WeightIn, ScoreIn, ResultsIn

(* What each of them adds to the sums.                                      *)
LEMMA ShareOf ==
    ASSUME NEW ds \in Requests, NEW choice, Chosen(ds, choice), NEW d \in ToSet(ds)
    PROVE  \/ /\ ToSet(Inputs[d][choice[d]]) = {}
              /\ BlockersIn(choice)[d] = 0 /\ WeightIn(choice)[d] = 0 /\ ScoreIn(choice)[d] = 0
           \/ \E x \in AnswersOf(d) :
                 /\ ToSet(Inputs[d][choice[d]]) = {x}
                 /\ BlockersIn(choice)[d] = Blockers(d, x)
                 /\ WeightIn(choice)[d] = DomainWeights[d]
                 /\ ScoreIn(choice)[d] = Scores[d][GradeOf(d, x)] * DomainWeights[d]
  <1>1. d \in DOMAIN choice /\ d \in DOMAIN Inputs /\ choice[d] \in DOMAIN Inputs[d]
    BY RequestsAre DEF Chosen
  <1> DEFINE f == Inputs[d][choice[d]]
  <1>2. /\ BlockersIn(choice)[d] = Reduce(d, f).blockers
        /\ WeightIn(choice)[d] = IF Reduce(d, f).ran THEN DomainWeights[d] ELSE 0
        /\ ScoreIn(choice)[d] = Reduce(d, f).score * WeightIn(choice)[d]
    BY <1>1 DEF BlockersIn, WeightIn, ScoreIn, ResultsIn
  <1>3. \/ f = <<>> /\ ToSet(f) = {}
        \/ \E x \in AnswersOf(d) : f # <<>> /\ f[1] = x /\ ToSet(f) = {x}
    BY <1>1, InputsAre
  <1> HIDE DEF f
  <1>4. CASE f = <<>> /\ ToSet(f) = {}
    <2>1. Reduce(d, f).blockers = 0 /\ Reduce(d, f).ran = FALSE /\ Reduce(d, f).score = 0
      BY <1>4 DEF Reduce
    <2>2. WeightIn(choice)[d] = 0
      BY <1>2, <2>1
    <2>3. BlockersIn(choice)[d] = 0 /\ ScoreIn(choice)[d] = 0
      BY <1>2, <2>1, <2>2
    <2> QED
      BY <1>4, <2>2, <2>3 DEF f
  <1>5. ASSUME NEW x \in AnswersOf(d), f # <<>>, f[1] = x, ToSet(f) = {x}
        PROVE  /\ ToSet(f) = {x}
               /\ BlockersIn(choice)[d] = Blockers(d, x)
               /\ WeightIn(choice)[d] = DomainWeights[d]
               /\ ScoreIn(choice)[d] = Scores[d][GradeOf(d, x)] * DomainWeights[d]
    <2>1. /\ Reduce(d, f).blockers = Blockers(d, x) /\ Reduce(d, f).ran = TRUE
          /\ Reduce(d, f).score = Scores[d][GradeOf(d, x)]
      BY <1>5 DEF Reduce
    <2> QED
      BY <1>2, <1>5, <2>1
  <1> QED
    BY <1>3, <1>4, <1>5 DEF f

LEMMA WeightsAre == ASSUME NEW d \in Domains PROVE DomainWeights[d] \in 2 .. 4
  BY DomainsAre DEF DomainWeights, FindingDomains

(* NoBetter is reflexive, so the lemmas above say what they say of one x.   *)
LEMMA NoBetterSelf ==
    ASSUME NEW d \in Domains, NEW x \in AnswersOf(d) PROVE NoBetter(d, x, x)
  <1>1. CASE d = "test_execution"
    <2>1. x \in Seq(Flow)
      BY <1>1, AnswersAre
    <2>2. \A o : Flows(x, o) \in Nat
      BY <2>1, FlowsAre
    <2> QED
      BY <1>1, <2>2 DEF NoBetter
  <1>2. CASE d = "web_vitals"
    <2>1. \A v \in DOMAIN x : Rank(x[v]) >= Rank(x[v])
      BY DEF Rank
    <2> QED
      BY <1>2, <2>1 DEF NoBetter, Rank
  <1>3. CASE d \in FindingDomains
    <2>1. \A s \in Severities : x[s] \in Nat
      BY <1>3, AnswersAre DEF CountsOf
    <2> QED
      BY <1>3, <2>1 DEF NoBetter, FindingDomains
  <1> QED
    BY <1>1, <1>2, <1>3, DomainsAre

LEMMA SharesAreCounts ==
    ASSUME NEW ds \in Requests, NEW choice, Chosen(ds, choice), NEW d \in ToSet(ds)
    PROVE  BlockersIn(choice)[d] \in Nat /\ WeightIn(choice)[d] \in Nat /\ ScoreIn(choice)[d] \in Nat
  <1>1. d \in Domains
    BY RequestsAre
  <1>2. CASE BlockersIn(choice)[d] = 0 /\ WeightIn(choice)[d] = 0 /\ ScoreIn(choice)[d] = 0
    BY <1>2
  <1>3. ASSUME NEW x \in AnswersOf(d),
               BlockersIn(choice)[d] = Blockers(d, x), WeightIn(choice)[d] = DomainWeights[d],
               ScoreIn(choice)[d] = Scores[d][GradeOf(d, x)] * DomainWeights[d]
        PROVE  BlockersIn(choice)[d] \in Nat /\ WeightIn(choice)[d] \in Nat /\ ScoreIn(choice)[d] \in Nat
    <2>1. Blockers(d, x) \in Nat
      BY <1>1, BlockersTell
    <2>2. DomainWeights[d] \in Nat
      BY <1>1, WeightsAre
    <2>3. GradeOf(d, x) \in GradesOf(d) /\ GradeOf(d, x) >= GradeOf(d, x)
      BY <1>1, NoBetterSelf, GradesGrow
    <2>4. Scores[d][GradeOf(d, x)] \in Nat
      BY <1>1, <2>3, ScoresFall
    <2>5. Scores[d][GradeOf(d, x)] * DomainWeights[d] \in Nat
      BY <2>2, <2>4
    <2> QED
      BY <1>3, <2>1, <2>2, <2>5
  <1> QED
    BY <1>2, <1>3, ShareOf

LEMMA VerdictBlocks ==
    ASSUME NEW ds \in Requests, NEW choice, Chosen(ds, choice)
    PROVE  VerdictFor(ds, choice) = "BLOCK" <=>
             \E d \in ToSet(ds) : \E x \in ToSet(Inputs[d][choice[d]]) : Unfit(d, x)
  <1>1. VerdictFor(ds, choice) = "BLOCK" <=> Total(BlockersIn(choice), ds) > 0
    BY VerdictIs
  <1>2. Total(BlockersIn(choice), ds) > 0 <=> \E n \in 1 .. Len(ds) : BlockersIn(choice)[ds[n]] > 0
    BY RequestsAre, SharesAreCounts, TotalPositive
  <1>3. ASSUME NEW d \in ToSet(ds)
        PROVE  BlockersIn(choice)[d] > 0 <=> \E x \in ToSet(Inputs[d][choice[d]]) : Unfit(d, x)
    <2>1. d \in Domains
      BY RequestsAre
    <2>2. CASE ToSet(Inputs[d][choice[d]]) = {} /\ BlockersIn(choice)[d] = 0
      BY <2>2
    <2>3. ASSUME NEW x \in AnswersOf(d),
                 ToSet(Inputs[d][choice[d]]) = {x}, BlockersIn(choice)[d] = Blockers(d, x)
          PROVE  BlockersIn(choice)[d] > 0 <=> \E z \in ToSet(Inputs[d][choice[d]]) : Unfit(d, z)
      BY <2>1, <2>3, BlockersTell
    <2> QED
      BY <2>2, <2>3, ShareOf
  <1>4. (\E n \in 1 .. Len(ds) : BlockersIn(choice)[ds[n]] > 0) <=>
          \E d \in ToSet(ds) : BlockersIn(choice)[d] > 0
    BY RequestsAre
  <1> QED
    BY <1>1, <1>2, <1>3, <1>4

LEMMA ShareOfAnswer ==
    ASSUME NEW ds \in Requests, NEW choice, Chosen(ds, choice), NEW d \in ToSet(ds),
           NEW x \in ToSet(Inputs[d][choice[d]])
    PROVE  /\ x \in AnswersOf(d)
           /\ BlockersIn(choice)[d] = Blockers(d, x)
           /\ WeightIn(choice)[d] = DomainWeights[d]
           /\ ScoreIn(choice)[d] = Scores[d][GradeOf(d, x)] * DomainWeights[d]
  BY ShareOf

(* A worse answer of one domain, the others as they are.                    *)
LEMMA WorseShares ==
    ASSUME NEW ds \in Requests, NEW choice, Chosen(ds, choice), NEW d \in ToSet(ds),
           NEW worse, Chosen(ds, worse), \A e \in ToSet(ds) \ {d} : worse[e] = choice[e],
           NEW x \in ToSet(Inputs[d][worse[d]]), NEW y \in ToSet(Inputs[d][choice[d]]),
           NoBetter(d, x, y)
    PROVE  \A e \in ToSet(ds) :
             /\ BlockersIn(choice)[e] <= BlockersIn(worse)[e]
             /\ WeightIn(worse)[e] = WeightIn(choice)[e]
             /\ ScoreIn(worse)[e] <= ScoreIn(choice)[e]
  <1>1. d \in Domains
    BY RequestsAre
  <1>2. DOMAIN choice = ToSet(ds) /\ DOMAIN worse = ToSet(ds)
    BY DEF Chosen
  <1>3. ASSUME NEW e \in ToSet(ds) \ {d}
        PROVE  /\ BlockersIn(choice)[e] = BlockersIn(worse)[e]
               /\ WeightIn(worse)[e] = WeightIn(choice)[e]
               /\ ScoreIn(worse)[e] = ScoreIn(choice)[e]
    <2>1. ResultsIn(worse)[e] = ResultsIn(choice)[e]
      BY <1>2 DEF ResultsIn
    <2>2. WeightIn(worse)[e] = WeightIn(choice)[e] /\ BlockersIn(worse)[e] = BlockersIn(choice)[e]
      BY <1>2, <2>1 DEF WeightIn, BlockersIn
    <2> QED
      BY <1>2, <2>1, <2>2 DEF ScoreIn
  <1>4. /\ BlockersIn(choice)[d] <= BlockersIn(worse)[d]
        /\ WeightIn(worse)[d] = WeightIn(choice)[d]
        /\ ScoreIn(worse)[d] <= ScoreIn(choice)[d]
    <2>1. /\ y \in AnswersOf(d)
          /\ BlockersIn(choice)[d] = Blockers(d, y)
          /\ WeightIn(choice)[d] = DomainWeights[d]
          /\ ScoreIn(choice)[d] = Scores[d][GradeOf(d, y)] * DomainWeights[d]
      BY ShareOfAnswer
    <2>2. /\ x \in AnswersOf(d)
          /\ BlockersIn(worse)[d] = Blockers(d, x)
          /\ WeightIn(worse)[d] = DomainWeights[d]
          /\ ScoreIn(worse)[d] = Scores[d][GradeOf(d, x)] * DomainWeights[d]
      BY ShareOfAnswer
    <2>3. Blockers(d, y) <= Blockers(d, x) /\ Blockers(d, y) \in Nat /\ Blockers(d, x) \in Nat
      BY <1>1, <2>1, <2>2, BlockersGrow, BlockersTell
    <2>4. /\ GradeOf(d, x) \in GradesOf(d) /\ GradeOf(d, y) \in GradesOf(d)
          /\ GradeOf(d, x) >= GradeOf(d, y)
      BY <1>1, <2>1, <2>2, GradesGrow
    <2>5. /\ Scores[d][GradeOf(d, x)] \in Nat /\ Scores[d][GradeOf(d, y)] \in Nat
          /\ Scores[d][GradeOf(d, x)] <= Scores[d][GradeOf(d, y)]
      BY <1>1, <2>4, ScoresFall
    <2>6. DomainWeights[d] \in {2, 3, 4}
      BY <1>1, WeightsAre
    <2>7. Scores[d][GradeOf(d, x)] * DomainWeights[d] <= Scores[d][GradeOf(d, y)] * DomainWeights[d]
      BY <2>5, <2>6
    <2> QED
      BY <2>1, <2>2, <2>3, <2>7
  <1>5. \A e \in ToSet(ds) : BlockersIn(choice)[e] \in Nat /\ ScoreIn(choice)[e] \in Nat
    BY SharesAreCounts
  <1>6. ASSUME NEW e \in ToSet(ds)
        PROVE  /\ BlockersIn(choice)[e] <= BlockersIn(worse)[e]
               /\ WeightIn(worse)[e] = WeightIn(choice)[e]
               /\ ScoreIn(worse)[e] <= ScoreIn(choice)[e]
    <2>1. CASE e = d
      BY <1>4, <2>1
    <2>2. CASE e # d
      <3>1. /\ BlockersIn(choice)[e] = BlockersIn(worse)[e]
            /\ WeightIn(worse)[e] = WeightIn(choice)[e]
            /\ ScoreIn(worse)[e] = ScoreIn(choice)[e]
        BY <1>3, <2>2
      <3>2. BlockersIn(choice)[e] \in Nat /\ ScoreIn(choice)[e] \in Nat
        BY <1>5
      <3> QED
        BY <3>1, <3>2
    <2> QED
      BY <2>1, <2>2
  <1> QED
    BY <1>6

LEMMA VerdictFalls ==
    ASSUME NEW ds \in Requests, NEW choice, Chosen(ds, choice), NEW d \in ToSet(ds),
           NEW i \in DOMAIN Inputs[d], NEW x \in ToSet(Inputs[d][i]),
           NEW y \in ToSet(Inputs[d][choice[d]]), NoBetter(d, x, y)
    PROVE  Standing(VerdictFor(ds, [choice EXCEPT ![d] = i])) <= Standing(VerdictFor(ds, choice))
  <1> DEFINE worse == [choice EXCEPT ![d] = i]
  <1>1. /\ Chosen(ds, worse)
        /\ \A e \in ToSet(ds) :
             /\ BlockersIn(choice)[e] <= BlockersIn(worse)[e]
             /\ WeightIn(worse)[e] = WeightIn(choice)[e]
             /\ ScoreIn(worse)[e] <= ScoreIn(choice)[e]
    <2>1. DOMAIN choice = ToSet(ds) /\ \A e \in ToSet(ds) : choice[e] \in DOMAIN Inputs[e]
      BY DEF Chosen
    <2>2. DOMAIN worse = ToSet(ds) /\ worse[d] = i /\ \A e \in ToSet(ds) \ {d} : worse[e] = choice[e]
      BY <2>1
    <2> HIDE DEF worse
    <2>3. Chosen(ds, worse)
      BY <2>1, <2>2 DEF Chosen
    <2>4. x \in ToSet(Inputs[d][worse[d]])
      BY <2>2
    <2> QED
      BY <2>2, <2>3, <2>4, WorseShares
  <1> HIDE DEF worse
  <1>2. /\ Len(ds) \in Nat
        /\ \A n \in 1 .. Len(ds) : ds[n] \in ToSet(ds)
    BY RequestsAre
  <1>3. \A e \in ToSet(ds) :
          /\ BlockersIn(choice)[e] \in Nat /\ WeightIn(choice)[e] \in Nat /\ ScoreIn(choice)[e] \in Nat
          /\ BlockersIn(worse)[e] \in Nat /\ WeightIn(worse)[e] \in Nat /\ ScoreIn(worse)[e] \in Nat
    BY <1>1, SharesAreCounts
  <1>4. /\ Total(BlockersIn(choice), ds) \in Nat /\ Total(BlockersIn(worse), ds) \in Nat
        /\ Total(BlockersIn(choice), ds) <= Total(BlockersIn(worse), ds)
    BY <1>1, <1>2, <1>3, TotalGrows
  <1>5. /\ Total(ScoreIn(choice), ds) \in Nat /\ Total(ScoreIn(worse), ds) \in Nat
        /\ Total(ScoreIn(worse), ds) <= Total(ScoreIn(choice), ds)
    BY <1>1, <1>2, <1>3, TotalGrows
  <1>6. /\ Total(WeightIn(choice), ds) \in Nat /\ Total(WeightIn(worse), ds) \in Nat
        /\ Total(WeightIn(worse), ds) = Total(WeightIn(choice), ds)
    <2>1. \A n \in 1 .. Len(ds) :
            /\ WeightIn(choice)[ds[n]] \in Nat /\ WeightIn(worse)[ds[n]] \in Nat
            /\ WeightIn(choice)[ds[n]] <= WeightIn(worse)[ds[n]]
            /\ WeightIn(worse)[ds[n]] <= WeightIn(choice)[ds[n]]
      BY <1>1, <1>2, <1>3
    <2>2. /\ Total(WeightIn(choice), ds) \in Nat /\ Total(WeightIn(worse), ds) \in Nat
          /\ Total(WeightIn(choice), ds) <= Total(WeightIn(worse), ds)
      BY <1>2, <2>1, TotalGrows
    <2>3. Total(WeightIn(worse), ds) <= Total(WeightIn(choice), ds)
      BY <1>2, <2>1, TotalGrows
    <2> QED
      BY <2>2, <2>3
  <1>7. /\ VerdictFor(ds, choice) \in {"BLOCK", "SHIP", "HOLD"}
        /\ VerdictFor(ds, worse) \in {"BLOCK", "SHIP", "HOLD"}
        /\ VerdictFor(ds, choice) = "BLOCK" => VerdictFor(ds, worse) = "BLOCK"
        /\ VerdictFor(ds, worse) = "SHIP" => VerdictFor(ds, choice) = "SHIP"
    BY <1>4, <1>5, <1>6, VerdictIs
  <1>8. Standing(VerdictFor(ds, worse)) <= Standing(VerdictFor(ds, choice))
    BY <1>7 DEF Standing
  <1> QED
    BY <1>8 DEF worse
-----------------------------------------------------------------------------
(* A run: what its domains are audited on is an input of theirs, and the    *)
(* verdict is that of what was looked at, whatever has changed since.       *)
AllInputs == UNION {DOMAIN Inputs[d] : d \in ToSet(included)}

RunInv ==
    /\ included \in Requests
    /\ Chosen(included, input)
    /\ looked \in Seq(AllInputs) /\ Len(looked) <= Len(included)
    /\ \A n \in 1 .. Len(looked) : looked[n] \in DOMAIN Inputs[included[n]]
    /\ verdict # "none" => Len(looked) = Len(included) /\ verdict = VerdictFor(included, Looked)

LEMMA LookedAre ==
    ASSUME RunInv, Len(looked) = Len(included) PROVE Chosen(included, Looked)
  <1>1. DOMAIN Looked = ToSet(included)
    BY DEF Looked
  <1>2. ASSUME NEW d \in ToSet(included) PROVE Looked[d] \in DOMAIN Inputs[d]
    <2> DEFINE n == CHOOSE j \in DOMAIN included : included[j] = d
    <2>1. n \in DOMAIN included /\ included[n] = d
      BY DEF ToSet
    <2>2. DOMAIN included = 1 .. Len(looked)
      BY RequestsAre DEF RunInv
    <2>3. Looked[d] = looked[n]
      BY DEF Looked
    <2> HIDE DEF n
    <2> QED
      BY <2>1, <2>2, <2>3 DEF RunInv
  <1> QED
    BY <1>1, <1>2 DEF Chosen

LEMMA ReleaseInit_RunInv == ReleaseInit => RunInv
  <1> SUFFICES ASSUME ReleaseInit PROVE RunInv
    OBVIOUS
  <1>1. included \in Requests /\ Chosen(included, input)
    BY DEF ReleaseInit, Chosen
  <1>2. looked \in Seq(AllInputs) /\ Len(looked) = 0
    BY DEF ReleaseInit
  <1>3. Len(included) \in Nat
    BY <1>1, RequestsAre
  <1> QED
    BY <1>1, <1>2, <1>3 DEF ReleaseInit, RunInv

LEMMA AuditKeeps == ASSUME RunInv, Audit PROVE RunInv'
  <1> DEFINE n == Len(looked) + 1
             e == input[included[n]]
  <1>1. Len(looked) \in Nat /\ Len(included) \in Nat /\ n \in 1 .. Len(included)
    BY RequestsAre, LenProperties DEF RunInv, Audit
  <1>2. included[n] \in ToSet(included) /\ e \in DOMAIN Inputs[included[n]]
    BY <1>1, RequestsAre DEF RunInv, Chosen
  <1>3. e \in AllInputs
    BY <1>2 DEF AllInputs
  <1>4. looked' = Append(looked, e) /\ included' = included /\ input' = input /\ verdict' = verdict
    BY DEF Audit
  <1> HIDE DEF e
  <1>5. /\ looked' \in Seq(AllInputs) /\ Len(looked') = n
        /\ \A i \in 1 .. Len(looked) : looked'[i] = looked[i]
        /\ looked'[n] = e
    BY <1>1, <1>3, <1>4, AppendProperties DEF RunInv
  <1>6. \A i \in 1 .. n : looked'[i] \in DOMAIN Inputs[included[i]]
    BY <1>1, <1>2, <1>5 DEF RunInv
  <1>7. verdict = "none"
    BY <1>1 DEF RunInv
  <1>8. AllInputs' = AllInputs
    BY <1>4 DEF AllInputs
  <1>9. Chosen(included, input)'
    BY <1>4 DEF RunInv, Chosen
  <1> QED
    BY <1>1, <1>4, <1>5, <1>6, <1>7, <1>8, <1>9 DEF RunInv

LEMMA ConcludeKeeps == ASSUME RunInv, Conclude PROVE RunInv'
  <1>1. included' = included /\ input' = input /\ looked' = looked /\ Len(looked) = Len(included)
    BY DEF Conclude
  <1>2. AllInputs' = AllInputs /\ Looked' = Looked /\ Chosen(included, input)'
    BY <1>1 DEF AllInputs, Looked, RunInv, Chosen
  <1>3. verdict' = VerdictFor(included', Looked')
    BY <1>1, <1>2 DEF Conclude
  <1> QED
    BY <1>1, <1>2, <1>3 DEF RunInv

LEMMA ChangeKeeps == ASSUME RunInv, NEW d \in ToSet(included), Change(d) PROVE RunInv'
  <1>1. included' = included /\ looked' = looked /\ verdict' = verdict /\ verdict = "none"
    BY DEF Change
  <1>2. AllInputs' = AllInputs
    BY <1>1 DEF AllInputs
  <1>3. Chosen(included, input)'
    BY <1>1 DEF RunInv, Chosen, Change
  <1> QED
    BY <1>1, <1>2, <1>3 DEF RunInv

THEOREM RunsAreSound == ReleaseSpec => []RunInv
  <1>1. RunInv /\ [ReleaseNext]_releaseVars => RunInv'
    <2> SUFFICES ASSUME RunInv, [ReleaseNext]_releaseVars PROVE RunInv'
      OBVIOUS
    <2>1. CASE Audit
      BY <2>1, AuditKeeps
    <2>2. CASE Conclude
      BY <2>2, ConcludeKeeps
    <2>3. ASSUME NEW d \in ToSet(included), Change(d) PROVE RunInv'
      BY <2>3, ChangeKeeps
    <2>4. CASE UNCHANGED releaseVars
      <3>1. /\ included' = included /\ input' = input /\ looked' = looked /\ verdict' = verdict
        BY <2>4 DEF releaseVars
      <3>2. AllInputs' = AllInputs /\ Looked' = Looked /\ Chosen(included, input)'
        BY <3>1 DEF AllInputs, Looked, RunInv, Chosen
      <3> QED
        BY <3>1, <3>2 DEF RunInv
    <2> QED
      BY <2>1, <2>2, <2>3, <2>4 DEF ReleaseNext
  <1> QED
    BY <1>1, ReleaseInit_RunInv, PTL DEF ReleaseSpec

(* NeverShipsUnfit: a run is BLOCK exactly when one of its domains, any of   *)
(* the nine in any number and order, has found what must stop a release.    *)
THEOREM BlockIffUnfit == ReleaseSpec => []NeverShipsUnfit
  <1>1. RunInv => NeverShipsUnfit
    <2> SUFFICES ASSUME RunInv, verdict # "none"
                 PROVE  (verdict = "BLOCK") <=>
                          \E d \in ToSet(included) : \E x \in ToSet(Inputs[d][Looked[d]]) : Unfit(d, x)
      BY DEF NeverShipsUnfit
    <2>1. included \in Requests /\ verdict = VerdictFor(included, Looked) /\ Len(looked) = Len(included)
      BY DEF RunInv
    <2>2. Chosen(included, Looked)
      BY <2>1, LookedAre
    <2> QED
      BY <2>1, <2>2, VerdictBlocks
  <1> QED
    BY <1>1, RunsAreSound, PTL

(* WorseNeverShips: no grade, score, weight or count of the nine domains     *)
(* makes a worse answer of one a better verdict of the run.                 *)
THEOREM NoRewardForWorse == ReleaseSpec => []WorseNeverShips
  <1>1. RunInv => WorseNeverShips
    <2> SUFFICES ASSUME RunInv, verdict # "none",
                        NEW d \in ToSet(included), NEW i \in DOMAIN Inputs[d],
                        NEW x \in ToSet(Inputs[d][i]), NEW y \in ToSet(Inputs[d][Looked[d]]),
                        NoBetter(d, x, y)
                 PROVE  Standing(VerdictFor(included, [Looked EXCEPT ![d] = i])) <= Standing(verdict)
      BY DEF WorseNeverShips
    <2>1. included \in Requests /\ verdict = VerdictFor(included, Looked) /\ Len(looked) = Len(included)
      BY DEF RunInv
    <2>2. Chosen(included, Looked)
      BY <2>1, LookedAre
    <2>3. Standing(VerdictFor(included, [Looked EXCEPT ![d] = i])) <= Standing(VerdictFor(included, Looked))
      BY <2>1, <2>2, VerdictFalls
    <2> QED
      BY <2>1, <2>3
  <1> QED
    BY <1>1, RunsAreSound, PTL
-----------------------------------------------------------------------------
(* The audits.  What is found is Sound when there is no end of nothing in it *)
(* and one place of a rule is one finding; how severe it is depends on the   *)
(* rule alone, never on the text it fired on.                                *)
WorstRules ==
    {"setstate_in_stateless", "repo_in_widget", "missing_dispose", "presentation_imports_data",
     "data_imports_presentation", "hardcoded_api_key", "hardcoded_firebase_key", "hardcoded_jwt",
     "hardcoded_pem", "committed_env_file", "non_lazy_list", "opacity_animated",
     "setstate_in_animation", "controller_not_disposed", "network_call_unmocked",
     "firestore_instance_unmocked", "missing_accessible_label", "missing_l10n_key",
     "missing_flutter_localizations", "missing_localizations_delegates"}

BadRules ==
    {"print_in_lib", "business_logic_in_widget", "throw_in_repo", "direct_di_lookup",
     "no_base_class", "no_either_return", "god_widget", "cross_feature_data_import",
     "cleartext_http", "webview_js_unguarded", "prefs_for_secrets", "cleartext_traffic_allow",
     "exported_component", "ats_disabled", "debug_signing_in_release", "shrinkwrap_list",
     "image_no_cache_size", "nested_scroll_column", "heavy_work_in_build", "bare_pump",
     "await_missing_on_pump", "sleep_in_test", "vacuous_expect", "untitled_skip", "mocked_sut",
     "missing_failure_path", "nondeterministic_random_seed", "wide_version_range",
     "git_or_path_override", "dev_dep_in_dependencies", "transitive_used_as_direct",
     "duplicated_dependency", "known_vulnerable_package", "html_no_lang_attr", "no_viewport_meta",
     "no_csp", "no_seo_meta", "manifest_missing_pwa_fields", "placeholder_app_name", "no_appId",
     "no_assertions", "vacuous_assertion", "sleep_in_flow", "tap_target_too_small",
     "hardcoded_user_text", "missing_translation_for_locale", "supported_locales_mismatch",
     "right_to_left_unsupported", "e2e_doing_unit_work", "direct_text_concatenation",
     "pluralization_via_if"}

MildRules ==
    {"untitled_todo", "double_question_mark", "debugprint_in_release", "magic_numbers",
     "orphan_source", "monolithic_bloc", "deep_nesting", "missing_key_param", "print_leaks_pii",
     "clipboard_for_secrets", "debug_only_unguarded", "missing_cert_pinning",
     "biometric_no_fallback", "missing_repaint_boundary", "implicit_anim_zero",
     "hardcoded_locale_string", "pump_count_smell", "golden_no_verified_comment",
     "widget_test_no_provider", "no_pump_after_setstate", "flaky_tag_unused", "test_imports_test",
     "integration_test_count_dominates", "no_test_helpers_dir", "pinned_to_caret_only",
     "outdated_majors", "unused_dependency", "license_blocklist", "flutter_sdk_constraint_loose",
     "placeholder_meta_description", "no_theme_color", "no_apple_touch_icon",
     "manifest_no_maskable_icon", "no_favicon", "no_loading_indicator", "no_tags",
     "inline_script_too_long", "nested_runFlow_deep", "hardcoded_credentials_in_env",
     "no_test_data_factory_dir", "disabled_interactive_unmarked", "unused_l10n_key",
     "untagged_when_many"}

RuleNames == WorstRules \cup BadRules \cup MildRules
SeverityOf(rule) == IF rule \in WorstRules THEN 1 ELSE IF rule \in BadRules THEN 2 ELSE 3

Sound(F) ==
    /\ IsFiniteSet(F)
    /\ \A x \in F : x.sev = SeverityOf(x.rule)
    /\ \A x \in F : \A texts \in x.fixes : IsFiniteSet(DOMAIN texts)
    /\ \A x, y \in F : SameKind(x, y) => x = y

Apart(F, G) == \A x \in F, y \in G : ~SameKind(x, y)

LEMMA SoundUnion ==
    ASSUME NEW F, NEW G, Sound(F), Sound(G), Apart(F, G)
    PROVE  Sound(F \cup G)
  <1>1. IsFiniteSet(F \cup G)
    BY FS_Union DEF Sound
  <1>2. ASSUME NEW x \in F \cup G, NEW y \in F \cup G, SameKind(x, y)
        PROVE  x = y
    BY <1>2 DEF Sound, Apart, SameKind
  <1> QED
    BY <1>1, <1>2 DEF Sound

LEMMA ApartUnion ==
    ASSUME NEW F, NEW G, NEW H, Apart(F, H), Apart(G, H)
    PROVE  Apart(F \cup G, H)
  BY DEF Apart

LEMMA SoundNone == Sound({})
  BY FS_EmptySet DEF Sound

LEMMA SoundOne ==
    ASSUME NEW x, x.sev = SeverityOf(x.rule), \A texts \in x.fixes : IsFiniteSet(DOMAIN texts)
    PROVE  Sound({x})
  BY FS_Singleton DEF Sound

\* A rulebook with the right severities.
Ruled(book) == \A r \in DOMAIN book : r \in RuleNames /\ book[r].sev = SeverityOf(r)

LEMMA NineFinite ==
    ASSUME NEW a, NEW b, NEW c, NEW d, NEW e, NEW f, NEW g, NEW h, NEW i
    PROVE  IsFiniteSet({a, b, c, d, e, f, g, h, i})
  <1>1. IsFiniteSet({a} \cup {b}) /\ IsFiniteSet({c} \cup {d}) /\ IsFiniteSet({e} \cup {f})
        /\ IsFiniteSet({g} \cup {h}) /\ IsFiniteSet({i})
    BY FS_Singleton, FS_Union
  <1>2. IsFiniteSet(({a} \cup {b}) \cup ({c} \cup {d}))
    BY <1>1, FS_Union
  <1>3. IsFiniteSet((({a} \cup {b}) \cup ({c} \cup {d})) \cup ({e} \cup {f}))
    BY <1>1, <1>2, FS_Union
  <1>4. IsFiniteSet(((({a} \cup {b}) \cup ({c} \cup {d})) \cup ({e} \cup {f})) \cup ({g} \cup {h}))
    BY <1>1, <1>3, FS_Union
  <1>5. IsFiniteSet((((({a} \cup {b}) \cup ({c} \cup {d})) \cup ({e} \cup {f})) \cup ({g} \cup {h})) \cup {i})
    BY <1>1, <1>4, FS_Union
  <1>6. {a, b, c, d, e, f, g, h, i}
          = (((({a} \cup {b}) \cup ({c} \cup {d})) \cup ({e} \cup {f})) \cup ({g} \cup {h})) \cup {i}
    OBVIOUS
  <1> QED
    BY <1>5, <1>6

LEMMA WorstRulesFinite == IsFiniteSet(WorstRules)
  <1> DEFINE s1 ==
             {"setstate_in_stateless", "repo_in_widget", "missing_dispose",
              "presentation_imports_data", "data_imports_presentation", "hardcoded_api_key",
              "hardcoded_firebase_key", "hardcoded_jwt", "hardcoded_pem"}
             s2 ==
             {"committed_env_file", "non_lazy_list", "opacity_animated",
              "setstate_in_animation", "controller_not_disposed", "network_call_unmocked",
              "firestore_instance_unmocked", "missing_accessible_label", "missing_l10n_key"}
             s3 ==
             {"missing_flutter_localizations", "missing_localizations_delegates",
              "missing_localizations_delegates", "missing_localizations_delegates",
              "missing_localizations_delegates", "missing_localizations_delegates",
              "missing_localizations_delegates", "missing_localizations_delegates",
              "missing_localizations_delegates"}
  <1>1. IsFiniteSet(s1) /\ IsFiniteSet(s2) /\ IsFiniteSet(s3)
    BY NineFinite
  <1>2. WorstRules = s1 \cup s2 \cup s3
    BY DEF WorstRules
  <1> HIDE DEF s1, s2, s3
  <1> QED
    BY <1>1, <1>2, FS_Union

LEMMA BadRulesFinite == IsFiniteSet(BadRules)
  <1> DEFINE s1 ==
             {"print_in_lib", "business_logic_in_widget", "throw_in_repo", "direct_di_lookup",
              "no_base_class", "no_either_return", "god_widget", "cross_feature_data_import",
              "cleartext_http"}
             s2 ==
             {"webview_js_unguarded", "prefs_for_secrets", "cleartext_traffic_allow",
              "exported_component", "ats_disabled", "debug_signing_in_release",
              "shrinkwrap_list", "image_no_cache_size", "nested_scroll_column"}
             s3 ==
             {"heavy_work_in_build", "bare_pump", "await_missing_on_pump", "sleep_in_test",
              "vacuous_expect", "untitled_skip", "mocked_sut", "missing_failure_path",
              "nondeterministic_random_seed"}
             s4 ==
             {"wide_version_range", "git_or_path_override", "dev_dep_in_dependencies",
              "transitive_used_as_direct", "duplicated_dependency", "known_vulnerable_package",
              "html_no_lang_attr", "no_viewport_meta", "no_csp"}
             s5 ==
             {"no_seo_meta", "manifest_missing_pwa_fields", "placeholder_app_name", "no_appId",
              "no_assertions", "vacuous_assertion", "sleep_in_flow", "tap_target_too_small",
              "hardcoded_user_text"}
             s6 ==
             {"missing_translation_for_locale", "supported_locales_mismatch",
              "right_to_left_unsupported", "e2e_doing_unit_work", "direct_text_concatenation",
              "pluralization_via_if", "pluralization_via_if", "pluralization_via_if",
              "pluralization_via_if"}
  <1>1. IsFiniteSet(s1) /\ IsFiniteSet(s2) /\ IsFiniteSet(s3) /\ IsFiniteSet(s4) /\ IsFiniteSet(s5) /\ IsFiniteSet(s6)
    BY NineFinite
  <1>2. BadRules = s1 \cup s2 \cup s3 \cup s4 \cup s5 \cup s6
    BY DEF BadRules
  <1> HIDE DEF s1, s2, s3, s4, s5, s6
  <1> QED
    BY <1>1, <1>2, FS_Union

LEMMA MildRulesFinite == IsFiniteSet(MildRules)
  <1> DEFINE s1 ==
             {"untitled_todo", "double_question_mark", "debugprint_in_release", "magic_numbers",
              "orphan_source", "monolithic_bloc", "deep_nesting", "missing_key_param",
              "print_leaks_pii"}
             s2 ==
             {"clipboard_for_secrets", "debug_only_unguarded", "missing_cert_pinning",
              "biometric_no_fallback", "missing_repaint_boundary", "implicit_anim_zero",
              "hardcoded_locale_string", "pump_count_smell", "golden_no_verified_comment"}
             s3 ==
             {"widget_test_no_provider", "no_pump_after_setstate", "flaky_tag_unused",
              "test_imports_test", "integration_test_count_dominates", "no_test_helpers_dir",
              "pinned_to_caret_only", "outdated_majors", "unused_dependency"}
             s4 ==
             {"license_blocklist", "flutter_sdk_constraint_loose",
              "placeholder_meta_description", "no_theme_color", "no_apple_touch_icon",
              "manifest_no_maskable_icon", "no_favicon", "no_loading_indicator", "no_tags"}
             s5 ==
             {"inline_script_too_long", "nested_runFlow_deep", "hardcoded_credentials_in_env",
              "no_test_data_factory_dir", "disabled_interactive_unmarked", "unused_l10n_key",
              "untagged_when_many", "untagged_when_many", "untagged_when_many"}
  <1>1. IsFiniteSet(s1) /\ IsFiniteSet(s2) /\ IsFiniteSet(s3) /\ IsFiniteSet(s4) /\ IsFiniteSet(s5)
    BY NineFinite
  <1>2. MildRules = s1 \cup s2 \cup s3 \cup s4 \cup s5
    BY DEF MildRules
  <1> HIDE DEF s1, s2, s3, s4, s5
  <1> QED
    BY <1>1, <1>2, FS_Union

LEMMA NamesFinite == IsFiniteSet(RuleNames)
  BY WorstRulesFinite, BadRulesFinite, MildRulesFinite, FS_Union DEF RuleNames

LEMMA AtHolds ==
    ASSUME NEW place, NEW book, NEW x \in At(place, book)
    PROVE  x.rule \in DOMAIN book /\ x.place = place /\ x.sev = book[x.rule].sev
  BY DEF At

LEMMA AtFixes ==
    ASSUME NEW place, NEW book, NEW x \in At(place, book), NEW texts \in x.fixes
    PROVE  IsFiniteSet(DOMAIN texts)
  <1>1. DOMAIN texts = {place}
    BY DEF At
  <1> QED
    BY <1>1, FS_Singleton

LEMMA AtKinds ==
    ASSUME NEW place, NEW book, NEW x \in At(place, book), NEW y \in At(place, book), SameKind(x, y)
    PROVE  x = y
  <1> DEFINE finding(r) ==
               [rule |-> r, place |-> place, line |-> 0, sev |-> book[r].sev, lvl |-> book[r].lvl,
                fixes |-> {[w \in {place} |-> t] : t \in book[r].fixes}]
  <1>1. At(place, book) = {finding(r) : r \in {w \in DOMAIN book : book[w].fires}}
    BY DEF At
  <1>2. \A r : finding(r).rule = r
    OBVIOUS
  <1>3. x.rule = y.rule
    BY DEF SameKind
  <1> HIDE DEF finding
  <1> QED
    BY <1>1, <1>2, <1>3

LEMMA AtSound ==
    ASSUME NEW place, NEW book, Ruled(book)
    PROVE  Sound(At(place, book))
  <1> DEFINE rules == {r \in DOMAIN book : book[r].fires}
             finding(r) == [rule |-> r, place |-> place, line |-> 0, sev |-> book[r].sev, lvl |-> book[r].lvl,
                            fixes |-> {[w \in {place} |-> t] : t \in book[r].fixes}]
             f == [r \in rules |-> finding(r)]
  <1>1. IsFiniteSet(rules)
    <2>1. rules \in SUBSET RuleNames
      BY DEF Ruled
    <2> QED
      BY <2>1, NamesFinite, FS_Subset
  <1>2. At(place, book) = {f[r] : r \in rules}
    BY DEF At
  <1> HIDE DEF f, finding, rules
  <1>3. f \in Surjection(rules, At(place, book))
    <2>1. \A r \in rules : f[r] \in At(place, book)
      BY <1>2
    <2>2. f = [r \in rules |-> f[r]]
      BY DEF f
    <2>3. f \in [rules -> At(place, book)]
      BY <2>1, <2>2
    <2>4. \A x \in At(place, book) : \E r \in rules : f[r] = x
      BY <1>2
    <2> QED
      BY <2>3, <2>4 DEF Surjection
  <1>4. IsFiniteSet(At(place, book))
    BY <1>1, <1>3, FS_Surjection
  <1>5. ASSUME NEW x \in At(place, book)
        PROVE  x.sev = SeverityOf(x.rule) /\ \A texts \in x.fixes : IsFiniteSet(DOMAIN texts)
    <2>1. x.rule \in DOMAIN book /\ x.sev = book[x.rule].sev
      BY AtHolds
    <2> QED
      BY <2>1, AtFixes DEF Ruled
  <1>6. ASSUME NEW x \in At(place, book), NEW y \in At(place, book), SameKind(x, y)
        PROVE  x = y
    BY <1>6, AtKinds
  <1> QED
    BY <1>4, <1>5, <1>6 DEF Sound

LEMMA BooksApart ==
    ASSUME NEW place, NEW book, NEW other, DOMAIN book \cap DOMAIN other = {}
    PROVE  Apart(At(place, book), At(place, other))
  BY AtHolds DEF Apart, SameKind

\* What is found place by place.
LEMMA PlacesSound ==
    ASSUME NEW D, IsFiniteSet(D), NEW P, \A x \in D : Sound(P[x]), \A x \in D : \A w \in P[x] : w.place = x
    PROVE  Sound(UNION {P[x] : x \in D})
  <1> DEFINE f == [x \in D |-> P[x]]
             sets == {P[x] : x \in D}
  <1>1. f \in Surjection(D, sets)
    BY DEF Surjection
  <1>2. IsFiniteSet(sets)
    BY <1>1, FS_Surjection
  <1>3. \A S \in sets : IsFiniteSet(S)
    BY DEF Sound
  <1>4. IsFiniteSet(UNION sets)
    BY <1>2, <1>3, FS_UNION
  <1>5. ASSUME NEW v \in UNION sets, NEW w \in UNION sets, SameKind(v, w)
        PROVE  v = w
    BY <1>5 DEF SameKind, Sound
  <1>6. ASSUME NEW w \in UNION sets
        PROVE  w.sev = SeverityOf(w.rule) /\ \A texts \in w.fixes : IsFiniteSet(DOMAIN texts)
    BY DEF Sound
  <1> QED
    BY <1>4, <1>5, <1>6 DEF Sound


\* Findings that all have one of their kind elsewhere are no more than those.
OfSeverity(Z, s) == {x \in Z : x.sev = s}
Matched(R, S) == \A x \in R : \E y \in S : SameKind(x, y)

LEMMA KindsGrow ==
    ASSUME NEW F, NEW G, Sound(F), Sound(G), NEW R \in SUBSET F, NEW S \in SUBSET G,
           Matched(R, S), NEW s
    PROVE  /\ IsFiniteSet(OfSeverity(R, s)) /\ IsFiniteSet(OfSeverity(S, s))
           /\ Cardinality(OfSeverity(R, s)) <= Cardinality(OfSeverity(S, s))
  <1> DEFINE A == OfSeverity(R, s)
             B == OfSeverity(S, s)
             f == [x \in A |-> CHOOSE y \in S : SameKind(x, y)]
  <1>1. IsFiniteSet(A) /\ IsFiniteSet(B)
    <2>1. A \in SUBSET F /\ B \in SUBSET G /\ IsFiniteSet(F) /\ IsFiniteSet(G)
      BY DEF Sound, OfSeverity
    <2> QED
      BY <2>1, FS_Subset
  <1>2. ASSUME NEW x \in A
        PROVE  f[x] \in B /\ SameKind(x, f[x])
    <2>1. f[x] \in S /\ SameKind(x, f[x])
      BY DEF Matched, OfSeverity
    <2>2. f[x].sev = x.sev
      <3>1. x.rule = f[x].rule
        BY <2>1 DEF SameKind
      <3>2. x.sev = SeverityOf(x.rule) /\ f[x].sev = SeverityOf(f[x].rule)
        BY <2>1 DEF Sound, OfSeverity
      <3> QED
        BY <3>1, <3>2
    <2> QED
      BY <2>1, <2>2 DEF OfSeverity
  <1>3. ASSUME NEW x \in A, NEW y \in A, f[x] = f[y]
        PROVE  x = y
    <2>1. SameKind(x, y)
      BY <1>2, <1>3 DEF SameKind
    <2> QED
      BY <2>1 DEF Sound, OfSeverity
  <1>4. f \in [A -> B]
    BY <1>2
  <1> HIDE DEF f, A, B
  <1>5. f \in Injection(A, B)
    BY <1>3, <1>4 DEF Injection, IsInjective
  <1>6. Cardinality(A) <= Cardinality(B)
    BY <1>1, <1>5, FS_Injection
  <1> QED
    BY <1>1, <1>6 DEF A, B

LEMMA CountsGrow ==
    ASSUME NEW F, NEW G, Sound(F), Sound(G), NEW R \in SUBSET F, NEW S \in SUBSET G,
           Matched(R, S)
    PROVE  /\ Counts(R) \in CountsOf /\ Counts(S) \in CountsOf
           /\ \A s \in Severities : Counts(S)[s] >= Counts(R)[s]
  <1> DEFINE of(Z, s) == Cardinality(OfSeverity(Z, s))
  <1>1. ASSUME NEW s
        PROVE  of(R, s) \in Nat /\ of(S, s) \in Nat /\ of(R, s) <= of(S, s)
    <2>1. /\ IsFiniteSet(OfSeverity(R, s)) /\ IsFiniteSet(OfSeverity(S, s))
          /\ of(R, s) <= of(S, s)
      BY KindsGrow
    <2> QED
      BY <2>1, FS_CardinalityType
  <1>2. \A Z : Counts(Z) = <<of(Z, 1), of(Z, 2), of(Z, 3)>>
    BY DEF Counts, OfSeverity
  <1> HIDE DEF of
  <1> QED
    BY <1>1, <1>2 DEF CountsOf, Severities

LEMMA CutGrows ==
    ASSUME NEW x \in CountsOf, NEW y \in CountsOf, Heavier(x, y), NEW max \in Nat
    PROVE  Cut(x, max) \in CountsOf /\ Cut(y, max) \in CountsOf /\ Heavier(Cut(x, max), Cut(y, max))
  BY CountsAre DEF Cut, Least, Heavier, CountsOf, Severities

LEMMA FlowGrows ==
    ASSUME NEW x \in CountsOf, NEW y \in CountsOf, Heavier(x, y), NEW flows \in Nat
    PROVE  FlowGrade(x, flows) >= FlowGrade(y, flows)
  BY Weights1041, CountsAre DEF FlowGrade, FlowWeights, AtLeast, Heavier

LEMMA AccessibilityGrows ==
    ASSUME NEW x \in CountsOf, NEW y \in CountsOf, \A s \in Severities : x[s] >= y[s]
    PROVE  AccessibilityVerdict(x) >= AccessibilityVerdict(y)
  BY CountsAre DEF AccessibilityVerdict, Severities
LEMMA LineBook == ASSUME NEW f, NEW t PROVE Ruled(SeniorityLineRules(f, t))
  BY DEF SeniorityLineRules, Ruled, Rule, SeverityOf, RuleNames, WorstRules, BadRules, MildRules

LEMMA FileBook == ASSUME NEW f, NEW t PROVE Ruled(SeniorityFileRules(f, t))
  BY DEF SeniorityFileRules, Ruled, Rule, SeverityOf, RuleNames, WorstRules, BadRules, MildRules

LEMMA BuildBook == ASSUME NEW t PROVE Ruled(SeniorityBuildRules(t))
  BY DEF SeniorityBuildRules, Ruled, Rule, SeverityOf, RuleNames, WorstRules, BadRules, MildRules

LEMMA KeyBook == ASSUME NEW t PROVE Ruled(SeniorityKeyRules(t))
  BY DEF SeniorityKeyRules, Ruled, Rule, SeverityOf, RuleNames, WorstRules, BadRules, MildRules

LEMMA LayerBook == ASSUME NEW f, NEW t PROVE Ruled(SeniorityLayerRules(f, t))
  BY DEF SeniorityLayerRules, Ruled, Rule, SeverityOf, RuleNames, WorstRules, BadRules, MildRules

LEMMA CriticalBook == ASSUME NEW place, NEW t PROVE Ruled(CriticalDartRules(place, t))
  BY DEF CriticalDartRules, Ruled, Rule, SeverityOf, RuleNames, WorstRules, BadRules, MildRules

LEMMA HighBook == ASSUME NEW t PROVE Ruled(HighDartRules(t))
  BY DEF HighDartRules, Ruled, Rule, SeverityOf, RuleNames, WorstRules, BadRules, MildRules

LEMMA MediumBook == ASSUME NEW t PROVE Ruled(MediumDartRules(t))
  BY DEF MediumDartRules, Ruled, Rule, SeverityOf, RuleNames, WorstRules, BadRules, MildRules

LEMMA PlatformBook == ASSUME NEW kind, NEW t PROVE Ruled(PlatformRules(kind, t))
  BY DEF PlatformRules, Ruled, Rule, SeverityOf, RuleNames, WorstRules, BadRules, MildRules

LEMMA EnvContentBook == ASSUME NEW t PROVE Ruled(EnvContentRules(t))
  BY DEF EnvContentRules, Ruled, Rule, SeverityOf, RuleNames, WorstRules, BadRules, MildRules

LEMMA EnvFileBook == ASSUME NEW t PROVE Ruled(EnvFileRules(t))
  BY DEF EnvFileRules, Ruled, Rule, SeverityOf, RuleNames, WorstRules, BadRules, MildRules

LEMMA PerformanceLineBook == ASSUME NEW t PROVE Ruled(PerformanceLineRules(t))
  BY DEF PerformanceLineRules, Ruled, Rule, SeverityOf, RuleNames, WorstRules, BadRules, MildRules

LEMMA PerformanceFileBook == ASSUME NEW t PROVE Ruled(PerformanceFileRules(t))
  BY DEF PerformanceFileRules, Ruled, Rule, SeverityOf, RuleNames, WorstRules, BadRules, MildRules

LEMMA TestLineBook == ASSUME NEW t PROVE Ruled(TestLineRules(t))
  BY DEF TestLineRules, Ruled, Rule, SeverityOf, RuleNames, WorstRules, BadRules, MildRules

LEMMA IsolationBook == ASSUME NEW place, NEW t PROVE Ruled(IsolationRules(place, t))
  BY DEF IsolationRules, Ruled, Rule, SeverityOf, RuleNames, WorstRules, BadRules, MildRules

LEMMA TestDesignBook == ASSUME NEW place, NEW t PROVE Ruled(TestDesignRules(place, t))
  BY DEF TestDesignRules, Ruled, Rule, SeverityOf, RuleNames, WorstRules, BadRules, MildRules

LEMMA SuiteBook == ASSUME NEW t PROVE Ruled(SuiteRules(t))
  BY DEF SuiteRules, Ruled, Rule, SeverityOf, RuleNames, WorstRules, BadRules, MildRules

LEMMA VersionBook == ASSUME NEW pkg, NEW t PROVE Ruled(VersionRules(pkg, t))
  BY DEF VersionRules, Ruled, Rule, SeverityOf, RuleNames, WorstRules, BadRules, MildRules

LEMMA OverrideBook == ASSUME NEW pkg, NEW t, NEW published PROVE Ruled(OverrideRules(pkg, t, published))
  BY DEF OverrideRules, Ruled, Rule, SeverityOf, RuleNames, WorstRules, BadRules, MildRules

LEMMA SectionBook == ASSUME NEW pkg, NEW t PROVE Ruled(SectionRules(pkg, t))
  BY DEF SectionRules, Ruled, Rule, SeverityOf, RuleNames, WorstRules, BadRules, MildRules

LEMMA SupplyBook == ASSUME NEW pkg, NEW t PROVE Ruled(SupplyRules(pkg, t))
  BY DEF SupplyRules, Ruled, Rule, SeverityOf, RuleNames, WorstRules, BadRules, MildRules

LEMMA EnvironmentBook == ASSUME NEW t PROVE Ruled(EnvironmentRules(t))
  BY DEF EnvironmentRules, Ruled, Rule, SeverityOf, RuleNames, WorstRules, BadRules, MildRules

LEMMA IndexBook == ASSUME NEW p PROVE Ruled(IndexRules(p))
  BY DEF IndexRules, Ruled, Rule, SeverityOf, RuleNames, WorstRules, BadRules, MildRules

LEMMA ManifestBook == ASSUME NEW t PROVE Ruled(ManifestRules(t))
  BY DEF ManifestRules, Ruled, Rule, SeverityOf, RuleNames, WorstRules, BadRules, MildRules

LEMMA ListingBook == ASSUME NEW p PROVE Ruled(ListingRules(p))
  BY DEF ListingRules, Ruled, Rule, SeverityOf, RuleNames, WorstRules, BadRules, MildRules

LEMMA FlowBook == ASSUME NEW t PROVE Ruled(FlowRules(t))
  BY DEF FlowRules, Ruled, Rule, SeverityOf, RuleNames, WorstRules, BadRules, MildRules

LEMMA DirectoryBook == ASSUME NEW t PROVE Ruled(DirectoryRules(t))
  BY DEF DirectoryRules, Ruled, Rule, SeverityOf, RuleNames, WorstRules, BadRules, MildRules

LEMMA ElementBook == ASSUME NEW t PROVE Ruled(ElementChecks(t))
  BY DEF ElementChecks, Ruled, Rule, SeverityOf, RuleNames, WorstRules, BadRules, MildRules

\* What is found by some of the rules.
Of(F, names) == Sound(F) /\ \A x \in F : x.rule \in names

LEMMA AtOf == ASSUME NEW place, NEW book, Ruled(book) PROVE Of(At(place, book), DOMAIN book)
  BY AtSound, AtHolds DEF Of

LEMMA OfUnion ==
    ASSUME NEW F, NEW G, NEW names, NEW others, Of(F, names), Of(G, others),
           names \cap others = {}
    PROVE  Of(F \cup G, names \cup others)
  <1>1. Apart(F, G)
    BY DEF Apart, Of, SameKind
  <1>2. Sound(F \cup G)
    BY <1>1, SoundUnion DEF Of
  <1> QED
    BY <1>2 DEF Of

LEMMA SeniorityPlace ==
    ASSUME NEW place, NEW t
    PROVE  Sound(SeniorityAt(place, t)) /\ \A x \in SeniorityAt(place, t) : x.place = place
  <1> DEFINE f == SeniorityRole[place]
             b1 == SeniorityLineRules(f, t)
             b2 == SeniorityFileRules(f, t)
             b3 == SeniorityBuildRules(t)
             b4 == SeniorityKeyRules(t)
             b5 == SeniorityLayerRules(f, t)
  <1>1. /\ DOMAIN b1 \cap DOMAIN b2 = {}
        /\ (DOMAIN b1 \cup DOMAIN b2) \cap DOMAIN b3 = {}
        /\ (DOMAIN b1 \cup DOMAIN b2 \cup DOMAIN b3) \cap DOMAIN b4 = {}
        /\ (DOMAIN b1 \cup DOMAIN b2 \cup DOMAIN b3 \cup DOMAIN b4) \cap DOMAIN b5 = {}
    BY DEF SeniorityLineRules, SeniorityFileRules, SeniorityBuildRules, SeniorityKeyRules, SeniorityLayerRules
  <1>2. Ruled(b1) /\ Ruled(b2) /\ Ruled(b3) /\ Ruled(b4) /\ Ruled(b5)
    BY LineBook, FileBook, BuildBook, KeyBook, LayerBook
  <1>3. SeniorityAt(place, t) = At(place, b1) \cup At(place, b2) \cup At(place, b3) \cup At(place, b4) \cup At(place, b5)
    BY DEF SeniorityAt
  <1> HIDE DEF b1, b2, b3, b4, b5
  <1>4. Of(At(place, b1) \cup At(place, b2), DOMAIN b1 \cup DOMAIN b2)
    BY <1>1, <1>2, AtOf, OfUnion
  <1>5. Of(At(place, b1) \cup At(place, b2) \cup At(place, b3), DOMAIN b1 \cup DOMAIN b2 \cup DOMAIN b3)
    BY <1>1, <1>2, <1>4, AtOf, OfUnion
  <1>6. Of(At(place, b1) \cup At(place, b2) \cup At(place, b3) \cup At(place, b4),
           DOMAIN b1 \cup DOMAIN b2 \cup DOMAIN b3 \cup DOMAIN b4)
    BY <1>1, <1>2, <1>5, AtOf, OfUnion
  <1>7. Of(SeniorityAt(place, t),
           DOMAIN b1 \cup DOMAIN b2 \cup DOMAIN b3 \cup DOMAIN b4 \cup DOMAIN b5)
    BY <1>1, <1>2, <1>3, <1>6, AtOf, OfUnion
  <1> QED
    BY <1>3, <1>7, AtHolds DEF Of

LEMMA SenioritySound == ASSUME NEW p, IsFiniteSet(DOMAIN p) PROVE Sound(SeniorityFindings(p))
  <1> DEFINE P == [x \in DOMAIN p |-> SeniorityAt(x, p[x])]
  <1>1. SeniorityFindings(p) = UNION {P[x] : x \in DOMAIN p}
    BY DEF SeniorityFindings
  <1>2. \A x \in DOMAIN p : Sound(P[x]) /\ \A w \in P[x] : w.place = x
    BY SeniorityPlace
  <1> HIDE DEF P
  <1> QED
    BY <1>1, <1>2, PlacesSound

LEMMA SecurityPlace ==
    ASSUME NEW place, NEW t, NEW scanned
    PROVE  /\ Sound(SecurityAt(place, t, scanned))
           /\ \A x \in SecurityAt(place, t, scanned) : x.place = place
  <1> DEFINE b1 == CriticalDartRules(place, t)
             b2 == HighDartRules(t)
             b3 == MediumDartRules(t)
             b4 == EnvContentRules(t)
             b5 == EnvFileRules(t)
             b6 == PlatformRules(SecurityKind[place], t)
  <1>1. /\ DOMAIN b1 \cap DOMAIN b2 = {} /\ (DOMAIN b1 \cup DOMAIN b2) \cap DOMAIN b3 = {}
        /\ DOMAIN b4 \cap DOMAIN b5 = {}
    BY DEF CriticalDartRules, HighDartRules, MediumDartRules, EnvContentRules, EnvFileRules
  <1>2. Ruled(b1) /\ Ruled(b2) /\ Ruled(b3) /\ Ruled(b4) /\ Ruled(b5) /\ Ruled(b6)
    BY CriticalBook, HighBook, MediumBook, EnvContentBook, EnvFileBook, PlatformBook
  <1>3. \/ SecurityAt(place, t, scanned) = {}
        \/ SecurityAt(place, t, scanned) = At(place, b1) \cup At(place, b2) \cup At(place, b3)
        \/ SecurityAt(place, t, scanned) = At(place, b4) \cup At(place, b5)
        \/ SecurityAt(place, t, scanned) = At(place, b5)
        \/ SecurityAt(place, t, scanned) = At(place, b6)
    <2>1. CASE SecurityKind[place] = "dart"
      BY <2>1 DEF SecurityAt, ScannedAt, RepoLevelAt
    <2>2. CASE SecurityKind[place] = "env"
      BY <2>2 DEF SecurityAt, ScannedAt, RepoLevelAt
    <2>3. CASE SecurityKind[place] \notin {"dart", "env"}
      BY <2>3 DEF SecurityAt, ScannedAt, RepoLevelAt
    <2> QED
      BY <2>1, <2>2, <2>3
  <1> HIDE DEF b1, b2, b3, b4, b5, b6
  <1>4. Of(At(place, b1) \cup At(place, b2), DOMAIN b1 \cup DOMAIN b2)
    BY <1>1, <1>2, AtOf, OfUnion
  <1>5. Of(At(place, b1) \cup At(place, b2) \cup At(place, b3), DOMAIN b1 \cup DOMAIN b2 \cup DOMAIN b3)
    BY <1>1, <1>2, <1>4, AtOf, OfUnion
  <1>6. Of(At(place, b4) \cup At(place, b5), DOMAIN b4 \cup DOMAIN b5)
    BY <1>1, <1>2, AtOf, OfUnion
  <1>7. Of(At(place, b5), DOMAIN b5) /\ Of(At(place, b6), DOMAIN b6)
    BY <1>2, AtOf
  <1>8. \A x \in SecurityAt(place, t, scanned) : x.place = place
    BY <1>3, AtHolds
  <1> QED
    BY <1>3, <1>5, <1>6, <1>7, <1>8, SoundNone DEF Of

LEMMA SecuritySound ==
    ASSUME NEW p, IsFiniteSet(DOMAIN p), NEW scanned
    PROVE  Sound(SecurityFindings(p, scanned))
  <1> DEFINE P == [x \in DOMAIN p |-> SecurityAt(x, p[x], scanned)]
  <1>1. SecurityFindings(p, scanned) = UNION {P[x] : x \in DOMAIN p}
    BY DEF SecurityFindings
  <1>2. \A x \in DOMAIN p : Sound(P[x]) /\ \A w \in P[x] : w.place = x
    BY SecurityPlace
  <1> HIDE DEF P
  <1> QED
    BY <1>1, <1>2, PlacesSound

LEMMA PerformanceSound == ASSUME NEW p, IsFiniteSet(DOMAIN p) PROVE Sound(PerformanceFindings(p))
  <1> DEFINE P == [x \in DOMAIN p |-> At(x, PerformanceLineRules(p[x])) \cup At(x, PerformanceFileRules(p[x]))]
  <1>1. PerformanceFindings(p) = UNION {P[x] : x \in DOMAIN p}
    BY DEF PerformanceFindings
  <1>2. ASSUME NEW x \in DOMAIN p
        PROVE  Sound(P[x]) /\ \A w \in P[x] : w.place = x
    <2> DEFINE b1 == PerformanceLineRules(p[x])
               b2 == PerformanceFileRules(p[x])
    <2>1. DOMAIN b1 \cap DOMAIN b2 = {}
      BY DEF PerformanceLineRules, PerformanceFileRules
    <2>2. Ruled(b1) /\ Ruled(b2)
      BY PerformanceLineBook, PerformanceFileBook
    <2> HIDE DEF b1, b2
    <2>3. Of(At(x, b1) \cup At(x, b2), DOMAIN b1 \cup DOMAIN b2)
      BY <2>1, <2>2, AtOf, OfUnion
    <2> QED
      BY <2>3, AtHolds DEF Of, b1, b2
  <1> HIDE DEF P
  <1> QED
    BY <1>1, <1>2, PlacesSound

LEMMA TestPlace ==
    ASSUME NEW place, NEW t
    PROVE  /\ Sound(TestAt(place, t))
           /\ \A x \in TestAt(place, t) : x.place = place /\ x.rule # "e2e_doing_unit_work"
  <1> DEFINE b1 == TestLineRules(t)
             b2 == IsolationRules(place, t)
             b3 == TestDesignRules(place, t)
             b4 == SuiteRules(t)
  <1>1. DOMAIN b1 \cap DOMAIN b2 = {} /\ (DOMAIN b1 \cup DOMAIN b2) \cap DOMAIN b3 = {}
    BY DEF TestLineRules, IsolationRules, TestDesignRules
  <1>2. "e2e_doing_unit_work" \notin DOMAIN b1 \cup DOMAIN b2 \cup DOMAIN b3 \cup DOMAIN b4
    BY DEF TestLineRules, IsolationRules, TestDesignRules, SuiteRules
  <1>3. Ruled(b1) /\ Ruled(b2) /\ Ruled(b3) /\ Ruled(b4)
    BY TestLineBook, IsolationBook, TestDesignBook, SuiteBook
  <1>4. TestAt(place, t) \in {At(place, b1) \cup At(place, b2) \cup At(place, b3), At(place, b4)}
    BY DEF TestAt
  <1> HIDE DEF b1, b2, b3, b4
  <1>5. Of(At(place, b1) \cup At(place, b2), DOMAIN b1 \cup DOMAIN b2)
    BY <1>1, <1>3, AtOf, OfUnion
  <1>6. Of(At(place, b1) \cup At(place, b2) \cup At(place, b3), DOMAIN b1 \cup DOMAIN b2 \cup DOMAIN b3)
    BY <1>1, <1>3, <1>5, AtOf, OfUnion
  <1>7. Of(At(place, b4), DOMAIN b4)
    BY <1>3, AtOf
  <1>8. \A x \in TestAt(place, t) : x.place = place
    BY <1>4, AtHolds
  <1> QED
    BY <1>2, <1>4, <1>6, <1>7, <1>8 DEF Of

LEMMA MisplacedSound ==
    ASSUME NEW p
    PROVE  Sound(MisplacedTests(p)) /\ \A x \in MisplacedTests(p) : x.rule = "e2e_doing_unit_work"
  <1> DEFINE moved == [integration_test |-> {}, unit_test |-> p["unit_test"] \cup p["integration_test"]]
             x == [rule |-> "e2e_doing_unit_work", place |-> "integration_test", line |-> 0,
                   sev |-> 2, lvl |-> Senior, fixes |-> {moved}]
  <1>1. MisplacedTests(p) \in {{}, {x}}
    BY DEF MisplacedTests
  <1>2. x.sev = SeverityOf(x.rule)
    BY DEF SeverityOf, WorstRules, BadRules
  <1>3. IsFiniteSet(DOMAIN moved)
    <2>1. DOMAIN moved = {"integration_test"} \cup {"unit_test"}
      OBVIOUS
    <2>2. IsFiniteSet({"integration_test"} \cup {"unit_test"})
      BY FS_Singleton, FS_Union
    <2> HIDE DEF moved
    <2> QED
      BY <2>1, <2>2
  <1>4. \A texts \in x.fixes : IsFiniteSet(DOMAIN texts)
    BY <1>3
  <1>5. x.rule = "e2e_doing_unit_work"
    OBVIOUS
  <1> HIDE DEF x
  <1>6. Sound({x})
    BY <1>2, <1>4, SoundOne
  <1> QED
    BY <1>1, <1>5, <1>6, SoundNone

LEMMA TestSound == ASSUME NEW p, IsFiniteSet(DOMAIN p) PROVE Sound(TestFindings(p))
  <1> DEFINE P == [x \in DOMAIN p |-> TestAt(x, p[x])]
             F == UNION {P[x] : x \in DOMAIN p}
             G == MisplacedTests(p)
  <1>1. TestFindings(p) = F \cup G
    BY DEF TestFindings
  <1>2. \A x \in DOMAIN p : Sound(P[x]) /\ \A w \in P[x] : w.place = x /\ w.rule # "e2e_doing_unit_work"
    BY TestPlace
  <1>3. Sound(G) /\ \A w \in G : w.rule = "e2e_doing_unit_work"
    BY MisplacedSound
  <1> HIDE DEF P, G
  <1>4. Sound(F)
    BY <1>2, PlacesSound
  <1>5. Apart(F, G)
    BY <1>2, <1>3 DEF Apart, SameKind
  <1> HIDE DEF F
  <1> QED
    BY <1>1, <1>3, <1>4, <1>5, SoundUnion

LEMMA DependencyPlace ==
    ASSUME NEW pkg, NEW t, NEW published
    PROVE  Sound(DependencyAt(pkg, t, published)) /\ \A x \in DependencyAt(pkg, t, published) : x.place = pkg
  <1> DEFINE b1 == VersionRules(pkg, t)
             b2 == OverrideRules(pkg, t, published)
             b3 == SectionRules(pkg, t)
             b4 == SupplyRules(pkg, t)
             b5 == EnvironmentRules(t)
  <1>1. /\ DOMAIN b1 \cap DOMAIN b2 = {}
        /\ (DOMAIN b1 \cup DOMAIN b2) \cap DOMAIN b3 = {}
        /\ (DOMAIN b1 \cup DOMAIN b2 \cup DOMAIN b3) \cap DOMAIN b4 = {}
    BY DEF VersionRules, OverrideRules, SectionRules, SupplyRules
  <1>2. Ruled(b1) /\ Ruled(b2) /\ Ruled(b3) /\ Ruled(b4) /\ Ruled(b5)
    BY VersionBook, OverrideBook, SectionBook, SupplyBook, EnvironmentBook
  <1>3. DependencyAt(pkg, t, published) \in
           {At(pkg, b1) \cup At(pkg, b2) \cup At(pkg, b3) \cup At(pkg, b4), At(pkg, b5)}
    BY DEF DependencyAt
  <1> HIDE DEF b1, b2, b3, b4, b5
  <1>4. Of(At(pkg, b1) \cup At(pkg, b2), DOMAIN b1 \cup DOMAIN b2)
    BY <1>1, <1>2, AtOf, OfUnion
  <1>5. Of(At(pkg, b1) \cup At(pkg, b2) \cup At(pkg, b3), DOMAIN b1 \cup DOMAIN b2 \cup DOMAIN b3)
    BY <1>1, <1>2, <1>4, AtOf, OfUnion
  <1>6. Of(At(pkg, b1) \cup At(pkg, b2) \cup At(pkg, b3) \cup At(pkg, b4),
           DOMAIN b1 \cup DOMAIN b2 \cup DOMAIN b3 \cup DOMAIN b4)
    BY <1>1, <1>2, <1>5, AtOf, OfUnion
  <1>7. Of(At(pkg, b5), DOMAIN b5)
    BY <1>2, AtOf
  <1>8. \A x \in DependencyAt(pkg, t, published) : x.place = pkg
    BY <1>3, AtHolds
  <1> QED
    BY <1>3, <1>6, <1>7, <1>8 DEF Of

LEMMA DependencySound ==
    ASSUME NEW p, IsFiniteSet(DOMAIN p), NEW published
    PROVE  Sound(DependencyFindings(p, published))
  <1> DEFINE P == [x \in DOMAIN p |-> DependencyAt(x, p[x], published)]
  <1>1. DependencyFindings(p, published) = UNION {P[x] : x \in DOMAIN p}
    BY DEF DependencyFindings
  <1>2. \A x \in DOMAIN p : Sound(P[x]) /\ \A w \in P[x] : w.place = x
    BY DependencyPlace
  <1> HIDE DEF P
  <1> QED
    BY <1>1, <1>2, PlacesSound

LEMMA WebSound == ASSUME NEW p PROVE Sound(WebFindings(p))
  <1> DEFINE F == At("index", IndexRules(p))
             G == At("manifest", ManifestRules(p["manifest"]))
             H == At("listing", ListingRules(p))
  <1>1. Sound(F) /\ Sound(G) /\ Sound(H)
    BY IndexBook, ManifestBook, ListingBook, AtSound
  <1>2. /\ \A x \in F : x.place = "index"
        /\ \A x \in G : x.place = "manifest"
        /\ \A x \in H : x.place = "listing"
    BY AtHolds
  <1>3. WebFindings(p) \in {F \cup G \cup H, {}}
    BY DEF WebFindings
  <1> HIDE DEF F, G, H
  <1>4. Apart(F, G) /\ Apart(F, H) /\ Apart(G, H)
    BY <1>2 DEF Apart, SameKind
  <1>5. Sound(F \cup G) /\ Apart(F \cup G, H)
    BY <1>1, <1>4, SoundUnion, ApartUnion
  <1>6. Sound(F \cup G \cup H)
    BY <1>1, <1>5, SoundUnion
  <1> QED
    BY <1>3, <1>6, SoundNone

LEMMA UntaggedSound ==
    ASSUME NEW p, IsFiniteSet(DOMAIN p)
    PROVE  /\ Sound(UntaggedWhenMany(p))
           /\ \A x \in UntaggedWhenMany(p) : x.rule = "untagged_when_many" /\ x.place = "directory"
  <1> DEFINE texts == [f \in FlowsOf(p) |-> p[f] \cup {"tags"}]
             x == [rule |-> "untagged_when_many", place |-> "directory", line |-> 0, sev |-> 3,
                   lvl |-> Senior, fixes |-> {texts}]
  <1>1. UntaggedWhenMany(p) \in {{}, {x}}
    BY DEF UntaggedWhenMany
  <1>2. x.sev = SeverityOf(x.rule)
    BY DEF SeverityOf, WorstRules, BadRules
  <1>3. IsFiniteSet(DOMAIN texts)
    <2>1. FlowsOf(p) \in SUBSET DOMAIN p
      BY DEF FlowsOf
    <2>2. IsFiniteSet(FlowsOf(p))
      BY <2>1, FS_Subset
    <2> QED
      BY <2>2
  <1>4. \A w \in x.fixes : IsFiniteSet(DOMAIN w)
    BY <1>3
  <1>5. x.rule = "untagged_when_many" /\ x.place = "directory"
    OBVIOUS
  <1> HIDE DEF x
  <1>6. Sound({x})
    BY <1>2, <1>4, SoundOne
  <1> QED
    BY <1>1, <1>5, <1>6, SoundNone

LEMMA FlowSound == ASSUME NEW p, IsFiniteSet(DOMAIN p) PROVE Sound(FlowFindings(p))
  <1> DEFINE P == [f \in FlowsOf(p) |-> At(f, FlowRules(p[f]))]
             F == UNION {P[f] : f \in FlowsOf(p)}
             G == UntaggedWhenMany(p)
             H == At("directory", DirectoryRules(p["directory"]))
  <1>1. FlowFindings(p) = IF p = <<>> THEN {} ELSE F \cup G \cup H
    BY DEF FlowFindings
  <1>2. IsFiniteSet(FlowsOf(p)) /\ "directory" \notin FlowsOf(p)
    BY FS_Subset DEF FlowsOf
  <1>3. \A f \in FlowsOf(p) : Sound(P[f]) /\ \A x \in P[f] : x.place = f
    BY FlowBook, AtSound, AtHolds
  <1>4. Sound(H) /\ \A x \in H : x.place = "directory" /\ x.rule \in DOMAIN DirectoryRules(p["directory"])
    BY DirectoryBook, AtSound, AtHolds
  <1>5. "untagged_when_many" \notin DOMAIN DirectoryRules(p["directory"])
    BY DEF DirectoryRules
  <1>6. Sound(G) /\ \A x \in G : x.rule = "untagged_when_many" /\ x.place = "directory"
    BY UntaggedSound
  <1> HIDE DEF P, G, H
  <1>7. Sound(F)
    BY <1>2, <1>3, PlacesSound
  <1>8. \A x \in F : x.place # "directory"
    BY <1>2, <1>3
  <1> HIDE DEF F
  <1>9. Apart(F, G) /\ Apart(F, H) /\ Apart(G, H)
    BY <1>4, <1>5, <1>6, <1>8 DEF Apart, SameKind
  <1>10. Sound(F \cup G) /\ Apart(F \cup G, H)
    BY <1>6, <1>7, <1>9, SoundUnion, ApartUnion
  <1>11. Sound(F \cup G \cup H)
    BY <1>4, <1>10, SoundUnion
  <1> QED
    BY <1>1, <1>11, SoundNone

LEMMA AccessibilitySound == ASSUME NEW p, IsFiniteSet(DOMAIN p) PROVE Sound(AccessibilityFindings(p))
  <1> DEFINE P == [x \in DOMAIN p |-> At(x, ElementChecks(p[x]))]
  <1>1. AccessibilityFindings(p) \in {{}, UNION {P[x] : x \in DOMAIN p}}
    BY DEF AccessibilityFindings
  <1>2. \A x \in DOMAIN p : Sound(P[x]) /\ \A w \in P[x] : w.place = x
    BY ElementBook, AtSound, AtHolds
  <1> HIDE DEF P
  <1>3. Sound(UNION {P[x] : x \in DOMAIN p})
    BY <1>2, PlacesSound
  <1> QED
    BY <1>1, <1>3, SoundNone

\* What is found item by item, each item in a kind of its own.
LEMMA ImageOf ==
    ASSUME NEW S, IsFiniteSet(S), NEW m, NEW rule,
           \A i \in S : m[i].rule = rule /\ m[i].sev = SeverityOf(rule),
           \A i \in S : \A texts \in m[i].fixes : IsFiniteSet(DOMAIN texts),
           \A i, j \in S : m[i].place = m[j].place /\ m[i].line = m[j].line => i = j
    PROVE  Of({m[i] : i \in S}, {rule})
  <1> DEFINE F == {m[i] : i \in S}
             f == [i \in S |-> m[i]]
  <1>1. f \in Surjection(S, F)
    BY DEF Surjection
  <1>2. IsFiniteSet(F)
    BY <1>1, FS_Surjection
  <1>3. ASSUME NEW x \in F, NEW y \in F, SameKind(x, y)
        PROVE  x = y
    BY <1>3 DEF SameKind
  <1>4. ASSUME NEW x \in F
        PROVE  /\ x.rule = rule /\ x.sev = SeverityOf(x.rule)
               /\ \A texts \in x.fixes : IsFiniteSet(DOMAIN texts)
    OBVIOUS
  <1> HIDE DEF F, f
  <1>5. Of(F, {rule})
    BY <1>2, <1>3, <1>4 DEF Of, Sound
  <1> QED
    BY <1>5 DEF F

LEMMA OneOf ==
    ASSUME NEW x, x.sev = SeverityOf(x.rule), \A texts \in x.fixes : IsFiniteSet(DOMAIN texts), NEW condition
    PROVE  Of(When(condition, {x}), {x.rule})
  <1>1. Sound({x}) /\ Sound({})
    BY SoundOne, SoundNone
  <1> QED
    BY <1>1 DEF Of, When

LEMMA LocalesFinite ==
    /\ IsFiniteSet(Locales) /\ IsFiniteSet(Keys)
    /\ \A p : ArbLocales(p) \in SUBSET Locales /\ DefaultKeys(p) \in SUBSET Keys
  <1>1. Locales = {"en"} \cup {"pl"} \cup {"ar"} /\ Keys = {"k1"} \cup {"k2"}
    BY DEF Locales, Keys
  <1>2. IsFiniteSet({"en"} \cup {"pl"})
    BY FS_Singleton, FS_Union
  <1>3. IsFiniteSet({"en"} \cup {"pl"} \cup {"ar"}) /\ IsFiniteSet({"k1"} \cup {"k2"})
    BY <1>2, FS_Singleton, FS_Union
  <1>4. \A p : ArbLocales(p) \in SUBSET Locales /\ DefaultKeys(p) \in SUBSET Keys
    BY DEF ArbLocales, DefaultKeys
  <1> QED
    BY <1>1, <1>3, <1>4

\* The hints of this audit edit the places there are.
LEMMA TranslateFinite ==
    ASSUME NEW p, IsFiniteSet(DOMAIN p), NEW flaw, NEW texts \in Translate(p, flaw)
    PROVE  IsFiniteSet(DOMAIN texts)
  <1>1. DOMAIN texts = DOMAIN p
    BY DEF Translate
  <1> QED
    BY <1>1

LEMMA SeveritiesOfTexts ==
    /\ SeverityOf("hardcoded_user_text") = 2
    /\ SeverityOf("direct_text_concatenation") = 2
    /\ SeverityOf("pluralization_via_if") = 2
    /\ SeverityOf("missing_l10n_key") = 1
    /\ SeverityOf("missing_translation_for_locale") = 2
    /\ SeverityOf("unused_l10n_key") = 3
    /\ SeverityOf("missing_flutter_localizations") = 1
    /\ SeverityOf("supported_locales_mismatch") = 2
    /\ SeverityOf("missing_localizations_delegates") = 1
    /\ SeverityOf("right_to_left_unsupported") = 2
  BY DEF SeverityOf, WorstRules, BadRules

LEMMA HardcodedOf == ASSUME NEW p, IsFiniteSet(DOMAIN p) PROVE
    Of({Found("hardcoded_user_text", "page", 1, 2, Junior, Translate(p, "hardcoded"))
          : x \in p["page"] \cap {"hardcoded"}}
       \cup {Found("hardcoded_user_text", "page", 1 + i, 2, Junior, Translate(p, "hardcoded_twelve"))
          : i \in IF "hardcoded_twelve" \in p["page"] THEN 1..12 ELSE {}}, {"hardcoded_user_text"})
  <1> DEFINE S == p["page"] \cap {"hardcoded"}
             T == IF "hardcoded_twelve" \in p["page"] THEN 1..12 ELSE {}
             m == [x \in S |-> Found("hardcoded_user_text", "page", 1, 2, Junior, Translate(p, "hardcoded"))]
             n == [i \in T |-> Found("hardcoded_user_text", "page", 1 + i, 2, Junior,
                                     Translate(p, "hardcoded_twelve"))]
             F == {m[x] : x \in S}
             G == {n[i] : i \in T}
  <1>1. IsFiniteSet(S)
    BY FS_Singleton, FS_Intersection
  <1>2. IsFiniteSet(T) /\ T \subseteq 1..12
    <2>1. \A b \in Int : IsFiniteSet(1..b)
      BY FS_Interval
    <2>2. IsFiniteSet(1..12)
      <3>1. PICK b \in Int : b = 12
        OBVIOUS
      <3>2. IsFiniteSet(1..b)
        BY <2>1
      <3> QED
        BY <3>1, <3>2
    <2>3. T = 1..12 \/ T = {}
      OBVIOUS
    <2> HIDE DEF T
    <2> QED
      BY <2>2, <2>3, FS_EmptySet
  <1> HIDE DEF T
  <1>3. \A x \in S : /\ m[x].rule = "hardcoded_user_text" /\ m[x].sev = SeverityOf("hardcoded_user_text")
                     /\ m[x].place = "page" /\ m[x].line = 1
                     /\ m[x].fixes = Translate(p, "hardcoded")
    BY SeveritiesOfTexts DEF Found
  <1>4. \A i \in T : /\ n[i].rule = "hardcoded_user_text" /\ n[i].sev = SeverityOf("hardcoded_user_text")
                     /\ n[i].place = "page" /\ n[i].line = 1 + i
                     /\ n[i].fixes = Translate(p, "hardcoded_twelve")
    BY SeveritiesOfTexts DEF Found
  <1>5. \A x, y \in S : x = y
    OBVIOUS
  <1> HIDE DEF m, n, S
  <1>6. Of(F, {"hardcoded_user_text"})
    <2>1. \A x \in S : \A texts \in m[x].fixes : IsFiniteSet(DOMAIN texts)
      BY <1>3, TranslateFinite
    <2> QED
      BY <1>1, <1>3, <1>5, <2>1, ImageOf
  <1>7. Of(G, {"hardcoded_user_text"})
    <2>1. \A i \in T : \A texts \in n[i].fixes : IsFiniteSet(DOMAIN texts)
      BY <1>4, TranslateFinite
    <2>2. \A i, j \in T : n[i].place = n[j].place /\ n[i].line = n[j].line => i = j
      BY <1>2, <1>4
    <2>3. \A i \in T : n[i].rule = "hardcoded_user_text" /\ n[i].sev = SeverityOf("hardcoded_user_text")
      BY <1>4
    <2> QED
      BY <1>2, <2>1, <2>2, <2>3, ImageOf
  <1>8. Apart(F, G)
    BY <1>2, <1>3, <1>4 DEF Apart, SameKind
  <1>9. Of(F \cup G, {"hardcoded_user_text"})
    BY <1>6, <1>7, <1>8, SoundUnion DEF Of
  <1> QED
    BY <1>9 DEF m, n, S, T

LEMMA FlawOf ==
    ASSUME NEW p, IsFiniteSet(DOMAIN p), NEW flaw, NEW rule, SeverityOf(rule) = 2, NEW lvl
    PROVE  Of(Flaw(p, flaw, rule, lvl), {rule})
  <1> DEFINE x == Found(rule, "page", 0, 2, lvl, {[p EXCEPT !["page"] = @ \ {flaw}]})
  <1>1. x.rule = rule /\ x.sev = SeverityOf(x.rule)
    BY DEF Found
  <1>2. \A texts \in x.fixes : IsFiniteSet(DOMAIN texts)
    BY DEF Found
  <1>3. Flaw(p, flaw, rule, lvl) \in {{x}, {}}
    BY DEF Flaw
  <1> HIDE DEF x
  <1>4. Sound({x}) /\ Sound({})
    BY <1>1, <1>2, SoundOne, SoundNone
  <1> QED
    BY <1>1, <1>3, <1>4 DEF Of

LEMMA MissingOf ==
    ASSUME NEW p, IsFiniteSet(DOMAIN p), NEW S \in SUBSET Keys
    PROVE  Of({Found("missing_l10n_key", k, 0, 1, Mid, {[p EXCEPT ![DefaultLocale(p)] = @ \cup {k}]})
                 : k \in S}, {"missing_l10n_key"})
  <1> DEFINE m == [k \in S |-> Found("missing_l10n_key", k, 0, 1, Mid,
                                     {[p EXCEPT ![DefaultLocale(p)] = @ \cup {k}]})]
  <1>1. IsFiniteSet(S)
    BY LocalesFinite, FS_Subset
  <1>2. \A k \in S : m[k].rule = "missing_l10n_key" /\ m[k].sev = SeverityOf("missing_l10n_key")
    BY SeveritiesOfTexts DEF Found
  <1>3. \A k \in S : \A texts \in m[k].fixes : IsFiniteSet(DOMAIN texts)
    BY DEF Found
  <1>4. \A k \in S : m[k].place = k
    BY DEF Found
  <1>5. {m[k] : k \in S} = {Found("missing_l10n_key", k, 0, 1, Mid,
                                  {[p EXCEPT ![DefaultLocale(p)] = @ \cup {k}]}) : k \in S}
    OBVIOUS
  <1> HIDE DEF m
  <1>6. Of({m[k] : k \in S}, {"missing_l10n_key"})
    BY <1>1, <1>2, <1>3, <1>4, ImageOf
  <1> QED
    BY <1>5, <1>6

LEMMA UnusedOf == ASSUME NEW p, IsFiniteSet(DOMAIN p) PROVE Of(UnusedKeys(p), {"unused_l10n_key"})
  <1> DEFINE S == DefaultKeys(p) \ p["page"]
             m == [k \in S |-> Found("unused_l10n_key", k, 0, 3, Mid,
                                     {[p EXCEPT ![DefaultLocale(p)] = @ \ {k}], [p EXCEPT !["page"] = @ \cup {k}]})]
  <1>1. IsFiniteSet(S)
    <2>1. S \in SUBSET Keys
      BY LocalesFinite
    <2> QED
      BY <2>1, LocalesFinite, FS_Subset
  <1>2. \A k \in S : m[k].rule = "unused_l10n_key" /\ m[k].sev = SeverityOf("unused_l10n_key")
    BY SeveritiesOfTexts DEF Found
  <1>3. \A k \in S : \A texts \in m[k].fixes : IsFiniteSet(DOMAIN texts)
    BY DEF Found
  <1>4. \A k \in S : m[k].place = k
    BY DEF Found
  <1>5. UnusedKeys(p) = {m[k] : k \in S}
    BY DEF UnusedKeys
  <1> HIDE DEF m, S
  <1>6. Of({m[k] : k \in S}, {"unused_l10n_key"})
    BY <1>1, <1>2, <1>3, <1>4, ImageOf
  <1> QED
    BY <1>5, <1>6

LEMMA UntranslatedOf ==
    ASSUME NEW p, IsFiniteSet(DOMAIN p)
    PROVE  Of(MissingKeysPerLocale(p), {"missing_translation_for_locale"})
  <1> DEFINE D == ArbLocales(p) \ {DefaultLocale(p)}
             S(l) == DefaultKeys(p) \ p[l]
             item(l, k) == Found("missing_translation_for_locale", l, IF k = "k1" THEN 1 ELSE 2, 2, Mid,
                                 {[p EXCEPT ![l] = @ \cup {k}]})
             P == [l \in D |-> {item(l, k) : k \in S(l)}]
  <1>1. IsFiniteSet(D)
    <2>1. D \in SUBSET Locales
      BY LocalesFinite
    <2> QED
      BY <2>1, LocalesFinite, FS_Subset
  <1>2. MissingKeysPerLocale(p) = UNION {P[l] : l \in D}
    BY DEF MissingKeysPerLocale
  <1>3. ASSUME NEW l \in D
        PROVE  Of(P[l], {"missing_translation_for_locale"}) /\ \A x \in P[l] : x.place = l
    <2> DEFINE m == [k \in S(l) |-> item(l, k)]
    <2>1. S(l) \in SUBSET Keys
      BY LocalesFinite
    <2>2. IsFiniteSet(S(l))
      BY <2>1, LocalesFinite, FS_Subset
    <2>3. \A k \in S(l) : /\ m[k].rule = "missing_translation_for_locale"
                          /\ m[k].sev = SeverityOf("missing_translation_for_locale")
      BY SeveritiesOfTexts DEF Found
    <2>4. \A k \in S(l) : \A texts \in m[k].fixes : IsFiniteSet(DOMAIN texts)
      BY DEF Found
    <2>5. \A j, k \in S(l) : m[j].line = m[k].line => j = k
      BY <2>1 DEF Found, Keys
    <2>6. \A k \in S(l) : m[k].place = l
      BY DEF Found
    <2>7. P[l] = {m[k] : k \in S(l)}
      OBVIOUS
    <2> HIDE DEF m, S, P
    <2>8. Of({m[k] : k \in S(l)}, {"missing_translation_for_locale"})
      BY <2>2, <2>3, <2>4, <2>5, ImageOf
    <2> QED
      BY <2>6, <2>7, <2>8
  <1> HIDE DEF D, P
  <1>4. Sound(UNION {P[l] : l \in D})
    BY <1>1, <1>3, PlacesSound DEF Of
  <1>5. \A x \in UNION {P[l] : l \in D} : x.rule = "missing_translation_for_locale"
    BY <1>3 DEF Of
  <1> QED
    BY <1>2, <1>4, <1>5 DEF Of

LEMMA WiringSound ==
    ASSUME NEW p, IsFiniteSet(DOMAIN p)
    PROVE  Of(Wiring(p), {"missing_flutter_localizations", "supported_locales_mismatch",
                          "missing_localizations_delegates", "right_to_left_unsupported"})
  <1> DEFINE has(x) == x \in p["app"]
             locales == ArbLocales(p)
             extraInCode == (p["app"] \cap Locales) \ locales
             extraInArb == locales \ p["app"]
             wired(more) == [p EXCEPT !["app"] = @ \cup more]
             withArb == [l \in DOMAIN p |-> IF l \in extraInCode THEN {"file"} \cup DefaultKeys(p) ELSE p[l]]
             withoutArb == [l \in DOMAIN p |-> IF l \in extraInArb THEN {} ELSE p[l]]
             x1 == Found("missing_flutter_localizations", "pubspec", 0, 1, Senior, {wired({"sdk_dep"})})
             x2 == Found("supported_locales_mismatch", "app", 1, 2, Senior,
                         {withArb, [p EXCEPT !["app"] = @ \ extraInCode]})
             x3 == Found("supported_locales_mismatch", "app", 2, 2, Senior, {withoutArb, wired(extraInArb)})
             x4 == Found("missing_localizations_delegates", "app", 0, 1, Senior, {wired({"delegates"})})
             x5 == Found("right_to_left_unsupported", "app", 0, 2, Staff, {wired({"directionality"})})
             F1 == When(~has("sdk_dep"), {x1})
             F2 == When(has("app") /\ has("supported") /\ extraInCode # {}, {x2})
             F3 == When(has("app") /\ has("supported") /\ extraInArb # {}, {x3})
             F4 == When(has("app") /\ ~has("delegates"), {x4})
             F5 == When(has("app") /\ locales \cap RightToLeft # {} /\ ~has("directionality"), {x5})
  <1>1. Wiring(p) = F1 \cup F2 \cup F3 \cup F4 \cup F5
    BY DEF Wiring
  <1>2. /\ DOMAIN withArb = DOMAIN p /\ DOMAIN withoutArb = DOMAIN p
        /\ DOMAIN [p EXCEPT !["app"] = @ \ extraInCode] = DOMAIN p
        /\ \A more : DOMAIN wired(more) = DOMAIN p
    OBVIOUS
  <1> HIDE DEF withArb, withoutArb, wired
  <1>3. /\ x1.rule = "missing_flutter_localizations" /\ x1.sev = SeverityOf(x1.rule)
        /\ x2.rule = "supported_locales_mismatch" /\ x2.sev = SeverityOf(x2.rule) /\ x2.line = 1
        /\ x3.rule = "supported_locales_mismatch" /\ x3.sev = SeverityOf(x3.rule) /\ x3.line = 2
        /\ x4.rule = "missing_localizations_delegates" /\ x4.sev = SeverityOf(x4.rule)
        /\ x5.rule = "right_to_left_unsupported" /\ x5.sev = SeverityOf(x5.rule)
    BY SeveritiesOfTexts DEF Found
  <1>4. /\ \A texts \in x1.fixes : IsFiniteSet(DOMAIN texts)
        /\ \A texts \in x2.fixes : IsFiniteSet(DOMAIN texts)
        /\ \A texts \in x3.fixes : IsFiniteSet(DOMAIN texts)
        /\ \A texts \in x4.fixes : IsFiniteSet(DOMAIN texts)
        /\ \A texts \in x5.fixes : IsFiniteSet(DOMAIN texts)
    BY <1>2 DEF Found
  <1> HIDE DEF x1, x2, x3, x4, x5
  <1>5. /\ Of(F1, {x1.rule}) /\ Of(F2, {x2.rule}) /\ Of(F3, {x3.rule}) /\ Of(F4, {x4.rule}) /\ Of(F5, {x5.rule})
    BY <1>3, <1>4, OneOf
  <1>6. Apart(F2, F3)
    BY <1>3 DEF Apart, SameKind, When
  <1> HIDE DEF F1, F2, F3, F4, F5
  <1>7. Of(F2 \cup F3, {"supported_locales_mismatch"})
    BY <1>3, <1>5, <1>6, SoundUnion DEF Of
  <1>8. Of(F1 \cup (F2 \cup F3), {"missing_flutter_localizations"} \cup {"supported_locales_mismatch"})
    BY <1>3, <1>5, <1>7, OfUnion
  <1>9. Of(F1 \cup (F2 \cup F3) \cup F4,
           {"missing_flutter_localizations"} \cup {"supported_locales_mismatch"}
             \cup {"missing_localizations_delegates"})
    BY <1>3, <1>5, <1>8, OfUnion
  <1>10. Of(F1 \cup (F2 \cup F3) \cup F4 \cup F5,
            {"missing_flutter_localizations"} \cup {"supported_locales_mismatch"}
              \cup {"missing_localizations_delegates"} \cup {"right_to_left_unsupported"})
    BY <1>3, <1>5, <1>9, OfUnion
  <1> QED
    BY <1>1, <1>10

LEMMA DartOf ==
    ASSUME NEW p, IsFiniteSet(DOMAIN p)
    PROVE  Of(DartFindings(p), {"hardcoded_user_text", "direct_text_concatenation", "pluralization_via_if",
                                "missing_l10n_key"})
  <1> DEFINE S == IF DefaultKeys(p) = {} THEN {} ELSE (p["page"] \cap Keys) \ DefaultKeys(p)
             F1 == {Found("hardcoded_user_text", "page", 1, 2, Junior, Translate(p, "hardcoded"))
                      : x \in p["page"] \cap {"hardcoded"}}
                   \cup {Found("hardcoded_user_text", "page", 1 + i, 2, Junior, Translate(p, "hardcoded_twelve"))
                      : i \in IF "hardcoded_twelve" \in p["page"] THEN 1..12 ELSE {}}
             F2 == Flaw(p, "concatenation", "direct_text_concatenation", Mid)
             F3 == Flaw(p, "plural_if", "pluralization_via_if", Staff)
             F4 == {Found("missing_l10n_key", k, 0, 1, Mid, {[p EXCEPT ![DefaultLocale(p)] = @ \cup {k}]}) : k \in S}
  <1>1. DartFindings(p) = F1 \cup F2 \cup F3 \cup F4
    BY DEF DartFindings
  <1>2. Of(F1, {"hardcoded_user_text"})
    BY HardcodedOf
  <1>3. Of(F2, {"direct_text_concatenation"}) /\ Of(F3, {"pluralization_via_if"})
    BY FlawOf, SeveritiesOfTexts
  <1>4. Of(F4, {"missing_l10n_key"})
    <2>1. S \in SUBSET Keys
      OBVIOUS
    <2> HIDE DEF S
    <2> QED
      BY <2>1, MissingOf
  <1> HIDE DEF F1, F2, F3, F4
  <1>5. Of(F1 \cup F2, {"hardcoded_user_text"} \cup {"direct_text_concatenation"})
    BY <1>2, <1>3, OfUnion
  <1>6. Of(F1 \cup F2 \cup F3, {"hardcoded_user_text"} \cup {"direct_text_concatenation"}
                                \cup {"pluralization_via_if"})
    BY <1>3, <1>5, OfUnion
  <1>7. Of(F1 \cup F2 \cup F3 \cup F4, {"hardcoded_user_text"} \cup {"direct_text_concatenation"}
                                \cup {"pluralization_via_if"} \cup {"missing_l10n_key"})
    BY <1>4, <1>6, OfUnion
  <1> QED
    BY <1>1, <1>7

LEMMA LocalizationSound == ASSUME NEW p, IsFiniteSet(DOMAIN p) PROVE Sound(LocalizationFindings(p))
  <1> DEFINE dart == {"hardcoded_user_text", "direct_text_concatenation", "pluralization_via_if",
                      "missing_l10n_key"}
             wiring == {"missing_flutter_localizations", "supported_locales_mismatch",
                        "missing_localizations_delegates", "right_to_left_unsupported"}
             W == IF ArbLocales(p) = {} THEN {} ELSE Wiring(p)
             F == DartFindings(p) \cup MissingKeysPerLocale(p) \cup UnusedKeys(p)
  <1>1. LocalizationFindings(p) \in {{}, F \cup W}
    BY DEF LocalizationFindings
  <1>2. Of(W, wiring)
    <2>1. Of({}, wiring)
      BY SoundNone DEF Of
    <2>2. W \in {{}, Wiring(p)}
      OBVIOUS
    <2> HIDE DEF W
    <2> QED
      BY <2>1, <2>2, WiringSound
  <1>3. /\ dart \cap {"missing_translation_for_locale"} = {}
        /\ (dart \cup {"missing_translation_for_locale"}) \cap {"unused_l10n_key"} = {}
        /\ (dart \cup {"missing_translation_for_locale"} \cup {"unused_l10n_key"}) \cap wiring = {}
    OBVIOUS
  <1>4. Of(DartFindings(p), dart)
    BY DartOf
  <1> HIDE DEF W, dart, wiring
  <1>5. Of(DartFindings(p) \cup MissingKeysPerLocale(p), dart \cup {"missing_translation_for_locale"})
    BY <1>3, <1>4, UntranslatedOf, OfUnion
  <1>6. Of(F, dart \cup {"missing_translation_for_locale"} \cup {"unused_l10n_key"})
    BY <1>3, <1>5, UnusedOf, OfUnion
  <1> HIDE DEF F
  <1>7. Of(F \cup W, (dart \cup {"missing_translation_for_locale"} \cup {"unused_l10n_key"}) \cup wiring)
    BY <1>2, <1>3, <1>6, OfUnion
  <1> QED
    BY <1>1, <1>7, SoundNone DEF Of

\* Of any audit of any project.
LEMMA AllSound ==
    ASSUME NEW audit \in AuditNames, NEW paths, NEW p, IsFiniteSet(DOMAIN p)
    PROVE  Sound(AllFindings(audit, paths, p))
  BY SenioritySound, SecuritySound, PerformanceSound, TestSound, DependencySound, LocalizationSound, WebSound,
     FlowSound, AccessibilitySound DEF AllFindings, AuditNames

(* The audit reads the project as it is, and a project stays finite.         *)
TeamInv ==
    /\ ask.audit \in AuditNames /\ ask.max \in MaxFindings
    /\ ask.audit # "security" => ask.paths = {}
    /\ lines \in Nat
    /\ IsFiniteSet(DOMAIN project)
    /\ found = AllFindings(ask.audit, ask.paths, project)

LEMMA TeamInit_TeamInv == TeamInit => TeamInv
  BY TeamAssumption DEF TeamInit, TeamInv

LEMMA EditKeeps == ASSUME TeamInv, EditPlace PROVE TeamInv' /\ DOMAIN project' = DOMAIN project
  <1>1. DOMAIN project' = DOMAIN project
    BY DEF EditPlace
  <1>2. lines' \in Nat
    BY DEF EditPlace, LinesAfter, TeamInv
  <1> QED
    BY <1>1, <1>2 DEF EditPlace, TeamInv, Audited

LEMMA FollowKeeps ==
    ASSUME TeamInv, NEW x \in found, FollowHint(x)
    PROVE  TeamInv' /\ DOMAIN project \subseteq DOMAIN project'
  <1>1. PICK texts \in x.fixes : DOMAIN project' = DOMAIN project \cup DOMAIN texts
    BY DEF FollowHint, With
  <1>2. IsFiniteSet(DOMAIN texts)
    BY AllSound DEF TeamInv, Sound
  <1>3. IsFiniteSet(DOMAIN project')
    BY <1>1, <1>2, FS_Union DEF TeamInv
  <1> QED
    BY <1>1, <1>3 DEF FollowHint, TeamInv, Audited

LEMMA PreviewKeeps ==
    ASSUME TeamInv, NEW x \in found, ApplyPreview(x)
    PROVE  TeamInv' /\ DOMAIN project' = DOMAIN project
  <1>1. DOMAIN project' = DOMAIN project
    BY DEF ApplyPreview, SeniorityPreview
  <1> QED
    BY <1>1 DEF ApplyPreview, TeamInv, Audited

LEMMA TeamStep ==
    ASSUME TeamInv, TeamNext
    PROVE  TeamInv' /\ ask' = ask /\ DOMAIN project \subseteq DOMAIN project'
                    /\ (found = {} => DOMAIN project' = DOMAIN project)
  <1>1. CASE EditPlace
    BY <1>1, EditKeeps DEF EditPlace
  <1>2. CASE Follow
    <2>1. PICK x \in Shown(ask, found) : FollowHint(x)
      BY <1>2 DEF Follow
    <2>2. x \in found
      BY DEF Shown, Reported
    <2> QED
      BY <2>1, <2>2, FollowKeeps DEF FollowHint
  <1>3. CASE Autofix
    <2>1. PICK x \in found : ApplyPreview(x)
      BY <1>3 DEF Autofix
    <2> QED
      BY <2>1, PreviewKeeps DEF ApplyPreview
  <1> QED
    BY <1>1, <1>2, <1>3 DEF TeamNext

\* A hint of the security audit changes a file that is there.
LEMMA SecurityFixes ==
    ASSUME NEW p, NEW scanned, NEW x \in SecurityFindings(p, scanned), NEW texts \in x.fixes
    PROVE  DOMAIN texts \subseteq DOMAIN p
  <1>1. PICK place \in DOMAIN p : x \in SecurityAt(place, p[place], scanned)
    BY DEF SecurityFindings
  <1>2. \E book : x \in At(place, book)
    BY <1>1 DEF SecurityAt, ScannedAt, RepoLevelAt
  <1>3. DOMAIN texts = {place}
    BY <1>2 DEF At
  <1> QED
    BY <1>1, <1>3

LEMMA SecurityStays ==
    ASSUME TeamInv, TeamNext, ask.audit = "security"
    PROVE  DOMAIN project' = DOMAIN project
  <1>1. CASE EditPlace
    BY <1>1, EditKeeps
  <1>2. CASE Follow
    <2>1. PICK x \in Shown(ask, found) : FollowHint(x)
      BY <1>2 DEF Follow
    <2>2. x \in SecurityFindings(project, Scanned(ask.paths, project))
      BY DEF Shown, Reported, TeamInv, AllFindings
    <2>3. PICK texts \in x.fixes : DOMAIN project' = DOMAIN project \cup DOMAIN texts
      BY <2>1 DEF FollowHint, With
    <2>4. DOMAIN texts \subseteq DOMAIN project
      BY <2>2, SecurityFixes
    <2> QED
      BY <2>3, <2>4
  <1>3. CASE Autofix
    BY <1>3 DEF Autofix
  <1> QED
    BY <1>1, <1>2, <1>3 DEF TeamNext

(* For any audits, projects and edits: what an audit answers is about the    *)
(* project as it is (execute of every audit).                                *)
THEOREM AuditsAreFresh == TeamSpec => []TeamInv
  <1>1. ASSUME TeamInv, [TeamNext]_teamVars
        PROVE  TeamInv'
    <2>1. CASE TeamNext
      BY <1>1, <2>1, TeamStep
    <2>2. CASE UNCHANGED teamVars
      BY <1>1, <2>2 DEF teamVars, TeamInv
    <2> QED
      BY <1>1, <2>1, <2>2
  <1> QED
    BY <1>1, TeamInit_TeamInv, PTL DEF TeamSpec

FileAudits == {"seniority", "performance", "security", "test_quality"}

LEMMA NothingInNothing ==
    ASSUME NEW audit \in FileAudits, NEW paths, NEW p, DOMAIN p = {}
    PROVE  AllFindings(audit, paths, p) = {}
  <1>1. /\ SeniorityFindings(p) = {} /\ PerformanceFindings(p) = {}
        /\ SecurityFindings(p, Scanned(paths, p)) = {}
    BY DEF SeniorityFindings, PerformanceFindings, SecurityFindings
  <1>2. TestFindings(p) = {}
    BY DEF TestFindings, MisplacedTests
  <1> QED
    BY <1>1, <1>2 DEF AllFindings, FileAudits

\* What a request keeps of findings.
LEMMA KeptGrows ==
    ASSUME NEW a, a.max \in Nat, NEW F, NEW G, Sound(F), Sound(G), Matched(Reported(a, F), Reported(a, G))
    PROVE  /\ a.audit # "accessibility" =>
                 /\ Kept(a, F) \in CountsOf /\ Kept(a, G) \in CountsOf
                 /\ Heavier(Kept(a, G), Kept(a, F))
           /\ a.audit = "accessibility" =>
                 /\ Kept(a, F) \in CountsOf /\ Kept(a, G) \in CountsOf
                 /\ \A s \in Severities : Kept(a, G)[s] >= Kept(a, F)[s]
  <1>1. Reported(a, F) \in SUBSET F /\ Reported(a, G) \in SUBSET G
    BY DEF Reported
  <1>2. /\ Counts(Reported(a, F)) \in CountsOf /\ Counts(Reported(a, G)) \in CountsOf
        /\ \A s \in Severities : Counts(Reported(a, G))[s] >= Counts(Reported(a, F))[s]
    BY <1>1, CountsGrow
  <1>3. CASE a.audit # "accessibility"
    <2>1. Heavier(Counts(Reported(a, G)), Counts(Reported(a, F)))
      BY <1>2, MoreIsHeavier
    <2> QED
      BY <1>2, <1>3, <2>1, CutGrows DEF Kept
  <1>4. CASE a.audit = "accessibility"
    <2>1. Reported(a, F) = F /\ Reported(a, G) = G
      BY <1>4 DEF Reported, AboveThreshold
    <2> QED
      BY <1>2, <1>4, <2>1 DEF Kept
  <1> QED
    BY <1>3, <1>4

\* The list x of a project of m lines against the list y of one of n lines:
\* every line more has brought something into the list.
Roomy(x, y, m, n) == m <= n + (Length(x) - Length(y))

LEMMA WeightsRoomy ==
    ASSUME NEW x \in CountsOf, NEW y \in CountsOf, Heavier(x, y)
    PROVE  /\ Length(x) \in Nat /\ Length(y) \in Nat /\ Length(x) >= Length(y)
           /\ Weight(<<10, 4, 1>>, x) >= Weight(<<10, 4, 1>>, y) + (Length(x) - Length(y))
           /\ Weight(<<20, 6, 1>>, x) >= Weight(<<20, 6, 1>>, y) + (Length(x) - Length(y))
           /\ Weight(<<6, 2, 1>>, x) >= Weight(<<6, 2, 1>>, y) + (Length(x) - Length(y))
  BY CountsAre DEF Weight, Heavier, Length

LEMMA SizesRoomy ==
    ASSUME NEW x \in CountsOf, NEW y \in CountsOf, Heavier(x, y), NEW m \in Nat, NEW n \in Nat, Roomy(x, y, m, n)
    PROVE  Size(m) \in Nat /\ Size(n) \in Nat /\ Roomy(x, y, Size(m), Size(n))
  BY WeightsRoomy DEF Size, Roomy

\* A score that reached a bound of at most a thousand still reaches it.
Bounds == {1, 2, 3, 4, 5, 10, 12, 15, 20}

LEMMA DensityGrows ==
    ASSUME NEW v \in Nat, NEW w \in Nat, NEW more \in Nat, w >= v + more,
           NEW m \in Nat, NEW n \in Nat, m <= n + more, NEW bound \in Bounds, AtLeast(v, bound, n)
    PROVE  AtLeast(w, bound, m)
  BY DEF AtLeast, Bounds

LEMMA ScoreGrows ==
    ASSUME NEW x \in CountsOf, NEW y \in CountsOf, Heavier(x, y), NEW m \in Nat, NEW n \in Nat, Roomy(x, y, m, n),
           NEW weights \in {<<10, 4, 1>>, <<20, 6, 1>>, <<6, 2, 1>>},
           NEW bound \in Bounds, AtLeast(Weight(weights, y), bound, n)
    PROVE  AtLeast(Weight(weights, x), bound, m)
  <1> DEFINE v == Weight(weights, y)
             w == Weight(weights, x)
             more == Length(x) - Length(y)
  <1>1. v \in Nat /\ w \in Nat
    BY Weights1041, Weights2061, Weights621
  <1>2. more \in Nat /\ w >= v + more
    BY WeightsRoomy
  <1>3. m <= n + more
    BY DEF Roomy
  <1> HIDE DEF v, w, more
  <1>4. AtLeast(w, bound, m)
    BY <1>1, <1>2, <1>3, DensityGrows DEF v
  <1> QED
    BY <1>4 DEF w

LEMMA SeniorityDenser ==
    ASSUME NEW x \in CountsOf, NEW y \in CountsOf, Heavier(x, y), NEW m \in Nat, NEW n \in Nat, Roomy(x, y, m, n),
           NEW files, NEW others, files = 0 <=> others = 0
    PROVE  SeniorityGrade(x, m, files) >= SeniorityGrade(y, n, others)
  <1> DEFINE v == Weight(SeniorityWeights, y)
             w == Weight(SeniorityWeights, x)
  <1>1. \A b \in {2, 5, 10, 20} : AtLeast(v, b, n) => AtLeast(w, b, m)
    BY ScoreGrows DEF SeniorityWeights, Bounds
  <1> QED
    BY <1>1 DEF SeniorityGrade

LEMMA PerformanceDenser ==
    ASSUME NEW x \in CountsOf, NEW y \in CountsOf, Heavier(x, y), NEW m \in Nat, NEW n \in Nat, Roomy(x, y, m, n),
           NEW files, NEW others, files = 0 <=> others = 0
    PROVE  PerformanceGrade(x, m, files) >= PerformanceGrade(y, n, others)
  <1> DEFINE v == Weight(PerformanceWeights, y)
             w == Weight(PerformanceWeights, x)
  <1>1. \A b \in {1, 4, 12} : AtLeast(v, b, n) => AtLeast(w, b, m)
    BY ScoreGrows DEF PerformanceWeights, Bounds
  <1>2. /\ y[1] >= 5 => x[1] >= 5
        /\ y[1] > 0 => x[1] > 0
    BY CountsAre DEF Heavier
  <1> QED
    BY <1>1, <1>2 DEF PerformanceGrade

LEMMA SecurityDenser ==
    ASSUME NEW x \in CountsOf, NEW y \in CountsOf, Heavier(x, y), NEW m \in Nat, NEW n \in Nat, Roomy(x, y, m, n),
           NEW files, NEW others, files = 0 <=> others = 0
    PROVE  SecurityGrade(x, m, files) >= SecurityGrade(y, n, others)
  <1> DEFINE v == Weight(SecurityWeights, y)
             w == Weight(SecurityWeights, x)
  <1>1. \A b \in {3, 15} : AtLeast(v, b, n) => AtLeast(w, b, m)
    BY ScoreGrows DEF SecurityWeights, Bounds
  <1>2. /\ y[1] > 0 => x[1] > 0
        /\ y[2] >= 5 => x[1] > 0 \/ x[2] >= 5
        /\ y[2] > 0 => x[1] > 0 \/ x[2] > 0
    BY CountsAre DEF Heavier
  <1> QED
    BY <1>1, <1>2 DEF SecurityGrade

LEMMA TestDenser ==
    ASSUME NEW x \in CountsOf, NEW y \in CountsOf, Heavier(x, y), NEW m \in Nat, NEW n \in Nat, Roomy(x, y, m, n),
           NEW files, NEW others, files = 0 <=> others = 0
    PROVE  TestGrade(x, m, files) >= TestGrade(y, n, others)
  <1> DEFINE v == Weight(TestWeights, y)
             w == Weight(TestWeights, x)
  <1>1. \A b \in {5, 15} : AtLeast(v, b, n) => AtLeast(w, b, m)
    BY ScoreGrows DEF TestWeights, Bounds
  <1>2. /\ y[1] > 0 => x[1] > 0
        /\ y[2] >= 5 => x[1] > 0 \/ x[2] >= 5
        /\ y[2] > 0 => x[1] > 0 \/ x[2] > 0
    BY CountsAre DEF Heavier
  <1> QED
    BY <1>1, <1>2 DEF TestGrade

LEMMA LocalizationDenser ==
    ASSUME NEW x \in CountsOf, NEW y \in CountsOf, Heavier(x, y), NEW m \in Nat, NEW n \in Nat, Roomy(x, y, m, n),
           NEW locales, NEW hardcoded
    PROVE  LocalizationGrade(x, m, locales, hardcoded) >= LocalizationGrade(y, n, locales, hardcoded)
  <1> DEFINE v == Weight(LocalizationWeights, y)
             w == Weight(LocalizationWeights, x)
  <1>1. \A b \in {3, 10} : AtLeast(v, b, n) => AtLeast(w, b, m)
    BY ScoreGrows DEF LocalizationWeights, Bounds
  <1> QED
    BY <1>1 DEF LocalizationGrade

LEMMA SizesAre ==
    ASSUME NEW p, IsFiniteSet(DOMAIN p)
    PROVE  /\ DependencySize(p) \in Nat /\ FlowCount(p) \in Nat
           /\ Cardinality(ArbLocales(p)) \in Nat /\ Hardcoded(p) \in Nat
           /\ \A paths : Cardinality(Scanned(paths, p)) = 0 <=> Scanned(paths, p) = {}
  <1>1. \A paths : Cardinality(Scanned(paths, p)) = 0 <=> Scanned(paths, p) = {}
    <2>1. \A paths : Scanned(paths, p) \in SUBSET DOMAIN p
      BY DEF Scanned
    <2>2. \A paths : IsFiniteSet(Scanned(paths, p))
      BY <2>1, FS_Subset
    <2> QED
      BY <2>2, FS_EmptySet
  <1>2. Cardinality(ArbLocales(p)) \in Nat
    <2>1. IsFiniteSet(ArbLocales(p))
      BY LocalesFinite, FS_Subset
    <2> QED
      BY <2>1, FS_CardinalityType
  <1>3. Hardcoded(p) \in Nat
    BY DEF Hardcoded
  <1>4. FlowCount(p) \in Nat
    <2>1. IsFiniteSet(FlowsOf(p))
      BY FS_Difference DEF FlowsOf
    <2>2. Cardinality(FlowsOf(p)) \in Nat
      BY <2>1, FS_CardinalityType
    <2> QED
      BY <2>2 DEF FlowCount
  <1>5. DependencySize(p) \in Nat
    <2> DEFINE mains == {x \in DOMAIN p : "main" \in p[x]}
    <2>1. mains \in SUBSET DOMAIN p
      OBVIOUS
    <2>2. IsFiniteSet(mains)
      BY <2>1, FS_Subset
    <2>3. Cardinality(mains) \in Nat
      BY <2>2, FS_CardinalityType
    <2> QED
      BY <2>3 DEF DependencySize
  <1> QED
    BY <1>1, <1>2, <1>3, <1>4, <1>5

LEMMA GradeGrows ==
    ASSUME NEW a, a.audit \in AuditNames, a.max \in Nat,
           NEW p, NEW q, IsFiniteSet(DOMAIN p), IsFiniteSet(DOMAIN q),
           a.audit \in FileAudits => (Scanned(a.paths, p) = {} <=> Scanned(a.paths, q) = {}),
           NEW F, NEW G, Sound(F), Sound(G), Matched(Reported(a, F), Reported(a, G)),
           NEW m \in Nat, NEW n \in Nat, Roomy(Kept(a, G), Kept(a, F), n, m),
           Besides(a, p) = Besides(a, q)
    PROVE  Grade(a, q, n, G) >= Grade(a, p, m, F)
  <1> DEFINE x == Kept(a, G)
             y == Kept(a, F)
  <1>1. x \in CountsOf /\ y \in CountsOf
    BY KeptGrows
  <1>2. a.audit # "accessibility" => Heavier(x, y)
    BY KeptGrows
  <1>3. a.audit = "accessibility" => \A s \in Severities : x[s] >= y[s]
    BY KeptGrows
  <1>r. Roomy(x, y, n, m)
    OBVIOUS
  <1> HIDE DEF x, y
  <1>s. a.audit # "accessibility" => Size(n) \in Nat /\ Size(m) \in Nat /\ Roomy(x, y, Size(n), Size(m))
    BY <1>1, <1>2, <1>r, SizesRoomy
  <1>4. CASE a.audit \in FileAudits
    <2> DEFINE files == Cardinality(Scanned(a.paths, q))
               others == Cardinality(Scanned(a.paths, p))
    <2>1. Heavier(x, y)
      BY <1>2, <1>4 DEF FileAudits
    <2>2. files = 0 <=> others = 0
      BY <1>4, SizesAre
    <2>3. Size(n) \in Nat /\ Size(m) \in Nat /\ Roomy(x, y, Size(n), Size(m))
      BY <1>4, <1>s DEF FileAudits
    <2> HIDE DEF files, others
    <2>4. /\ SeniorityGrade(x, Size(n), files) >= SeniorityGrade(y, Size(m), others)
          /\ PerformanceGrade(x, Size(n), files) >= PerformanceGrade(y, Size(m), others)
          /\ SecurityGrade(x, Size(n), files) >= SecurityGrade(y, Size(m), others)
          /\ TestGrade(x, Size(n), files) >= TestGrade(y, Size(m), others)
      BY <1>1, <2>1, <2>2, <2>3, SeniorityDenser, PerformanceDenser, SecurityDenser, TestDenser
    <2> QED
      BY <1>4, <2>4 DEF FileAudits, Grade, x, y, files, others
  <1>5. CASE a.audit = "dependencies"
    <2>1. DependencySize(p) = DependencySize(q) /\ DependencySize(p) \in Nat
      BY <1>5, SizesAre DEF Besides
    <2>2. DependencyGrade(x, DependencySize(q)) >= DependencyGrade(y, DependencySize(p))
      BY <1>1, <1>2, <1>5, <2>1, DependencyGrows
    <2> QED
      BY <1>5, <2>2 DEF Grade, x, y
  <1>6. CASE a.audit = "localization"
    <2>1. (p = <<>> <=> q = <<>>) /\ (p # <<>> => /\ Cardinality(ArbLocales(p)) = Cardinality(ArbLocales(q))
                                                   /\ Hardcoded(p) = Hardcoded(q))
      BY <1>6 DEF Besides
    <2>2. \A l, h : LocalizationGrade(x, Size(n), l, h) >= LocalizationGrade(y, Size(m), l, h)
      BY <1>1, <1>2, <1>6, <1>s, LocalizationDenser
    <2>3. CASE p = <<>>
      BY <1>6, <2>1, <2>2, <2>3 DEF Grade, x, y
    <2>4. CASE p # <<>>
      <3>1. LocalizationGrade(x, Size(n), Cardinality(ArbLocales(q)), Hardcoded(q))
              >= LocalizationGrade(y, Size(m), Cardinality(ArbLocales(p)), Hardcoded(p))
        BY <2>1, <2>2, <2>4
      <3> QED
        BY <1>6, <2>1, <2>4, <3>1 DEF Grade, x, y
    <2> QED
      BY <2>3, <2>4
  <1>7. CASE a.audit = "web_app"
    <2>1. WebGrade(x) >= WebGrade(y)
      BY <1>1, <1>2, <1>7, WebGrows
    <2> QED
      BY <1>7, <2>1 DEF Grade, x, y
  <1>8. CASE a.audit = "maestro_flow"
    <2>1. FlowCount(p) = FlowCount(q) /\ FlowCount(p) \in Nat
      BY <1>8, SizesAre DEF Besides
    <2>2. FlowGrade(x, FlowCount(q)) >= FlowGrade(y, FlowCount(p))
      BY <1>1, <1>2, <1>8, <2>1, FlowGrows
    <2> QED
      BY <1>8, <2>2 DEF Grade, x, y
  <1>9. CASE a.audit = "accessibility"
    <2>1. AccessibilityVerdict(x) >= AccessibilityVerdict(y)
      BY <1>1, <1>3, <1>9, AccessibilityGrows
    <2> QED
      BY <1>9, <2>1 DEF Grade, x, y
  <1> QED
    BY <1>4, <1>5, <1>6, <1>7, <1>8, <1>9 DEF AuditNames, FileAudits

LEMMA StepNeverBetter ==
    ASSUME TeamInv, TeamInv', [TeamNext]_teamVars, OnlyMore
    PROVE  Grade(ask, project, lines, found)' >= Grade(ask, project, lines, found)
  <1>1. /\ ask' = ask /\ DOMAIN project \subseteq DOMAIN project'
        /\ found = {} => DOMAIN project' = DOMAIN project
        /\ ask.audit = "security" => DOMAIN project' = DOMAIN project
    <2>1. CASE TeamNext
      BY <2>1, TeamStep, SecurityStays
    <2>2. CASE UNCHANGED teamVars
      BY <2>2 DEF teamVars
    <2> QED
      BY <2>1, <2>2
  <1>2. ask.audit \in FileAudits => (Scanned(ask.paths, project) = {} <=> Scanned(ask.paths, project') = {})
    <2>1. CASE ask.audit = "security"
      BY <1>1, <2>1 DEF Scanned
    <2>2. CASE ask.audit \in FileAudits /\ ask.audit # "security"
      <3>1. ask.paths = {}
        BY <2>2 DEF TeamInv
      <3>2. DOMAIN project = {} <=> DOMAIN project' = {}
        BY <1>1, <2>2, NothingInNothing DEF TeamInv
      <3> QED
        BY <3>1, <3>2 DEF Scanned
    <2> QED
      BY <2>1, <2>2
  <1>3. /\ ask.audit \in AuditNames /\ ask.max \in Nat
        /\ IsFiniteSet(DOMAIN project) /\ IsFiniteSet(DOMAIN project')
        /\ lines \in Nat /\ lines' \in Nat
    BY TeamAssumption DEF TeamInv
  <1>4. Sound(found) /\ Sound(found')
    BY <1>1, <1>3, AllSound DEF TeamInv
  <1>5. Matched(Reported(ask, found), Reported(ask, found')) /\ Besides(ask, project) = Besides(ask, project')
    BY <1>1 DEF OnlyMore, Matched
  <1>6. Roomy(Kept(ask, found'), Kept(ask, found), lines', lines)
    <2>1. Kept(ask, found') \in CountsOf /\ Kept(ask, found) \in CountsOf
      BY <1>3, <1>4, <1>5, KeptGrows
    <2>2. Length(Kept(ask, found')) \in Nat /\ Length(Kept(ask, found)) \in Nat
      BY <2>1, CountsAre DEF Length
    <2>3. lines' - lines <= Length(Kept(ask, found')) - Length(Kept(ask, found))
      BY <1>1 DEF OnlyMore
    <2> QED
      BY <1>3, <2>2, <2>3 DEF Roomy
  <1>7. Grade(ask, project', lines', found') >= Grade(ask, project, lines, found)
    BY <1>2, <1>3, <1>4, <1>5, <1>6, GradeGrows
  <1> QED
    BY <1>1, <1>7

(* For any audits, thresholds, cuts, projects, lines and edits: a step that  *)
(* adds to what is reported and takes nothing from it never buys a better    *)
(* grade, although the list is cut before it is graded, as long as every     *)
(* line it adds brings a finding the list has room for (execute of every     *)
(* audit).                                                                   *)
THEOREM NoRewardForMore == TeamSpec => MoreIsNeverBetter
  <1>1. ASSUME TeamInv, TeamInv', [TeamNext]_teamVars
        PROVE  [OnlyMore => Grade(ask, project, lines, found)' >= Grade(ask, project, lines, found)]_teamVars
    BY <1>1, StepNeverBetter
  <1> QED
    BY <1>1, AuditsAreFresh, PTL DEF TeamSpec, MoreIsNeverBetter

LEMMA WorstIsGraded ==
    ASSUME TeamInv, ask.max # 0, ask.audit \in {"security", "test_quality"},
           Scanned(ask.paths, project) # {},
           NEW x \in Reported(ask, found), x.sev = 1
    PROVE  Grade(ask, project, lines, found) = 4
  <1> DEFINE R == Reported(ask, found)
             files == Cardinality(Scanned(ask.paths, project))
  <1>2. Sound(found) /\ R \in SUBSET found
    BY AllSound DEF TeamInv, Reported
  <1>3. files # 0
    BY SizesAre DEF TeamInv
  <1>4. Counts(R) \in CountsOf /\ IsFiniteSet(OfSeverity(R, 1))
    <2>1. Matched(R, R)
      BY DEF Matched, SameKind
    <2> HIDE DEF R
    <2> QED
      BY <1>2, <2>1, CountsGrow, KindsGrow
  <1>5. Counts(R)[1] > 0
    <2>1. x \in OfSeverity(R, 1)
      BY DEF OfSeverity
    <2>2. Cardinality(OfSeverity(R, 1)) # 0
      BY <1>4, <2>1, FS_EmptySet
    <2>3. Counts(R)[1] = Cardinality(OfSeverity(R, 1))
      BY DEF Counts, OfSeverity
    <2> HIDE DEF R
    <2>4. Counts(R)[1] \in Nat
      BY <1>4, CountsAre
    <2> QED
      BY <2>2, <2>3, <2>4
  <1>6. ask.max \in Nat /\ ask.max > 0
    <2>1. ask.max \in Nat
      BY TeamAssumption DEF TeamInv
    <2> QED
      BY <2>1
  <1>7. Kept(ask, found)[1] > 0
    <2>1. Kept(ask, found) = Cut(Counts(R), ask.max)
      BY DEF Kept
    <2> HIDE DEF R
    <2> QED
      BY <1>4, <1>5, <1>6, <2>1, CountsAre DEF Cut, Least
  <1>8. /\ SecurityGrade(Kept(ask, found), Size(lines), files) = 4
        /\ TestGrade(Kept(ask, found), Size(lines), files) = 4
    BY <1>3, <1>7 DEF SecurityGrade, TestGrade
  <1> QED
    BY <1>8 DEF Grade

(* For any projects, lines and edits, provided that the list is not cut to   *)
(* nothing and something is scanned: a finding of the worst severity above   *)
(* the threshold is never lost to max_findings (audit_security.py:206-220,   *)
(* audit_test_quality.py:183-204).                                           *)
THEOREM WorstIsNeverCut == ASSUME 0 \notin MaxFindings PROVE TeamSpec => []WorstAlwaysCounts
  <1>1. TeamInv => WorstAlwaysCounts
    BY WorstIsGraded DEF TeamInv, WorstAlwaysCounts
  <1> QED
    BY <1>1, AuditsAreFresh, PTL
=============================================================================
