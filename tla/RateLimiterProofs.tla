-------------------------- MODULE RateLimiterProofs --------------------------
(***************************************************************************)
(* Proofs about RateLimiter, for every number of callers and every         *)
(* configuration: type correctness, that the cooldown is served, and the   *)
(* bound on a burst.                                                       *)
(***************************************************************************)
EXTENDS RateLimiter, FiniteSetTheorems, SequenceTheorems, TLAPS

(* Of the last failed executions, counted from any of them on: either the   *)
(* breaker has not opened since and the counter still holds them all, or it *)
(* opened since and the rest of its cooldown covers what is left.           *)
Covered ==
    \A i \in DOMAIN bad : \/ failures >= Len(bad) - i + 1
                          \/ bad[i] + opensFor >= Cooldown

IInv == TypeOK /\ Covered

LEMMA RecordTypes ==
    ASSUME TypeOK, NEW ok \in BOOLEAN, Record(ok)
    PROVE  /\ timestamps' \in [Age -> 0 .. MaxPerWindow]
           /\ failures' \in 0 .. Threshold - 1
           /\ opensFor' \in 0 .. Cooldown
  <1>2. timestamps' \in [Age -> 0 .. MaxPerWindow]
    <2>1. \A n \in 0 .. MaxPerWindow : AtMost(n + 1, MaxPerWindow) \in 0 .. MaxPerWindow
      BY ConfigOK DEF AtMost
    <2>2. \A a \in Age : timestamps[a] \in 0 .. MaxPerWindow
      BY DEF TypeOK
    <2> QED
      BY <2>1, <2>2 DEF Record, Counted
  <1>3. failures' \in 0 .. Threshold - 1
    BY ConfigOK DEF TypeOK, Record
  <1>4. opensFor' \in 0 .. Cooldown
    BY ConfigOK DEF TypeOK, Record
  <1> QED
    BY <1>2, <1>3, <1>4

(* The record of a refusal or of a failure keeps every failure covered: it  *)
(* counts one more, or opens the breaker for the whole cooldown.            *)
LEMMA RecordFailure ==
    ASSUME TypeOK, Record(FALSE)
    PROVE  \/ failures' = failures + 1 /\ opensFor' = opensFor
           \/ opensFor' = Cooldown
  BY DEF Record

LEMMA InitInv == Init => IInv
  <1> SUFFICES ASSUME Init PROVE IInv
    OBVIOUS
  <1>1. timestamps \in [Age -> 0 .. MaxPerWindow] /\ started \in [Age -> Nat]
         /\ raised \in [Age -> Nat]
    BY ConfigOK DEF Init
  <1>2. bad \in Seq(0 .. Cooldown) /\ Len(bad) = 0 /\ DOMAIN bad = {}
    BY DEF Init
  <1> QED
    BY <1>1, <1>2, ConfigOK DEF Init, IInv, TypeOK, Covered

LEMMA StartInv == ASSUME IInv, NEW c \in Caller, Start(c) PROVE IInv'
  <1>2. started' \in [Age -> Nat]
    BY DEF IInv, TypeOK, Start, OneMore
  <1>3. TypeOK'
    BY <1>2 DEF IInv, TypeOK, Start
  <1>4. Covered'
    BY DEF IInv, Covered, Start
  <1> QED
    BY <1>3, <1>4 DEF IInv

LEMMA RefuseInv == ASSUME IInv, NEW c \in Caller, Refuse(c) PROVE IInv'
  <1>1. Record(FALSE) /\ UNCHANGED <<running, started, raised, bad>>
    BY DEF Refuse
  <1>2. TypeOK'
    BY <1>1, RecordTypes DEF IInv, TypeOK
  <1>3. ASSUME NEW i \in DOMAIN bad
        PROVE failures' >= Len(bad) - i + 1 \/ bad[i] + opensFor' >= Cooldown
    <2>1. /\ bad \in Seq(0 .. Cooldown) /\ Len(bad) \in Nat
          /\ DOMAIN bad = 1 .. Len(bad) /\ failures \in Nat
      BY ConfigOK DEF IInv, TypeOK
    <2>2. i \in 1 .. Len(bad)
      BY <2>1
    <2>3. bad[i] \in 0 .. Cooldown
      BY <2>1, <2>2, ElementOfSeq
    <2> QED
      BY <1>1, <2>1, <2>2, <2>3, RecordFailure, ConfigOK DEF IInv, TypeOK, Covered
  <1> QED
    BY <1>1, <1>2, <1>3 DEF IInv, Covered

LEMMA FinishInv ==
    ASSUME IInv, NEW c \in Caller, NEW ok \in BOOLEAN, Finish(c, ok) PROVE IInv'
  <1>1. Record(ok) /\ running' = running \ {c} /\ UNCHANGED <<started, raised>>
    BY DEF Finish
  <1>2. CASE ok
    <2>1. bad' = <<>>
      BY <1>2 DEF Finish
    <2>2. bad' \in Seq(0 .. Cooldown) /\ Len(bad') = 0 /\ DOMAIN bad' = {}
      BY <2>1
    <2>3. TypeOK'
      BY <1>1, <2>2, RecordTypes, ConfigOK DEF IInv, TypeOK
    <2> QED
      BY <2>2, <2>3 DEF IInv, Covered
  <1>3. CASE ~ok
    <2> DEFINE longer == Append(bad, 0)
    <2>1. /\ Record(FALSE)
          /\ bad' = IF Len(longer) > Threshold THEN Tail(longer) ELSE longer
      BY <1>1, <1>3 DEF Finish, LastFailures
    <2>2. /\ bad \in Seq(0 .. Cooldown) /\ Len(bad) \in Nat /\ Len(bad) <= Threshold
          /\ failures \in Nat /\ opensFor \in Nat
          /\ Threshold \in Nat \ {0} /\ Cooldown \in Nat
      BY ConfigOK DEF IInv, TypeOK
    <2>3. /\ longer \in Seq(0 .. Cooldown)
          /\ Len(longer) = Len(bad) + 1
          /\ \A i \in 1 .. Len(bad) : longer[i] = bad[i]
          /\ longer[Len(bad) + 1] = 0
      BY <2>2
    <2>4. PICK k \in {0, 1} :
            /\ Len(bad') = Len(bad) + 1 - k
            /\ \A i \in 1 .. Len(bad') : bad'[i] = longer[i + k]
            /\ bad' \in Seq(0 .. Cooldown)
            /\ Len(bad') <= Threshold
      <3>1. CASE Len(longer) > Threshold
        <4>1. bad' = Tail(longer) /\ longer # <<>>
          BY <2>1, <2>2, <2>3, <3>1
        <4>2. /\ Tail(longer) \in Seq(0 .. Cooldown)
              /\ Len(Tail(longer)) = Len(longer) - 1
              /\ \A i \in 1 .. Len(longer) - 1 : Tail(longer)[i] = longer[i + 1]
          BY <2>3, <4>1
        <4> QED
          BY <2>2, <2>3, <3>1, <4>1, <4>2
      <3>2. CASE ~(Len(longer) > Threshold)
        <4>1. bad' = longer
          BY <2>1, <3>2
        <4> QED
          BY <2>2, <2>3, <3>2, <4>1
      <3> QED
        BY <3>1, <3>2
    <2>5. TypeOK'
      BY <1>1, <2>4, RecordTypes DEF IInv, TypeOK
    <2>d. DOMAIN bad' = 1 .. Len(bad') /\ Len(bad') \in Nat
      BY <2>4
    <2>6. /\ \A i \in 1 .. Len(bad') : bad'[i] \in 0 .. Cooldown
          /\ k = 0 \/ k = 1
          /\ Len(bad') \in Nat
          /\ Len(bad') = Len(bad) + 1 - k
      BY <2>4, <2>d, ElementOfSeq
    <2>7. ASSUME NEW i \in 1 .. Len(bad')
          PROVE failures' >= Len(bad') - i + 1 \/ bad'[i] + opensFor' >= Cooldown
      <3>1. CASE opensFor' = Cooldown
        <4>1. bad'[i] \in 0 .. Cooldown
          BY <2>6
        <4> QED
          BY <2>2, <3>1, <4>1
      <3>2. CASE failures' = failures + 1 /\ opensFor' = opensFor
        <4>1. CASE i + k = Len(bad) + 1
          BY <2>2, <2>4, <3>2, <4>1
        <4>2. CASE i + k # Len(bad) + 1
          <5>1. i + k \in 1 .. Len(bad) /\ Len(bad') - i + 1 = Len(bad) - (i + k) + 2
            BY <2>2, <2>6, <4>2
          <5>2. bad'[i] = bad[i + k] /\ bad[i + k] \in 0 .. Cooldown
            BY <2>2, <2>3, <2>4, <5>1
          <5>3. failures >= Len(bad) - (i + k) + 1 \/ bad[i + k] + opensFor >= Cooldown
            BY <2>2, <5>1 DEF IInv, Covered
          <5> QED
            BY <2>2, <3>2, <5>1, <5>2, <5>3
        <4> QED
          BY <4>1, <4>2
      <3> QED
        BY <2>1, <3>1, <3>2, RecordFailure DEF IInv
    <2> QED
      BY <2>5, <2>7, <2>6 DEF IInv, Covered
  <1> QED
    BY <1>2, <1>3

LEMMA RaiseInv == ASSUME IInv, NEW c \in Caller, Raise(c) PROVE IInv'
  <1>2. raised' \in [Age -> Nat] /\ running' \in SUBSET Caller
    BY DEF IInv, TypeOK, Raise, OneMore
  <1>3. TypeOK'
    BY <1>2 DEF IInv, TypeOK, Raise
  <1>4. Covered'
    BY DEF IInv, Covered, Raise
  <1> QED
    BY <1>3, <1>4 DEF IInv

LEMMA TickInv == ASSUME IInv, Tick PROVE IInv'
  <1>1. ASSUME NEW S, 0 \in S, NEW f \in [Age -> S] PROVE Older(f) \in [Age -> S]
    <2>1. ASSUME NEW a \in Age, a # 0 PROVE a - 1 \in Age
      BY <2>1, ConfigOK DEF Age
    <2> QED
      BY <1>1, <2>1 DEF Older
  <1>2. timestamps' \in [Age -> 0 .. MaxPerWindow] /\ started' \in [Age -> Nat]
        /\ raised' \in [Age -> Nat]
    <2>1. 0 \in 0 .. MaxPerWindow /\ 0 \in Nat
      BY ConfigOK
    <2> QED
      BY <1>1, <2>1 DEF IInv, TypeOK, Tick
  <1>3. /\ bad \in Seq(0 .. Cooldown) /\ Len(bad) \in Nat
        /\ DOMAIN bad = 1 .. Len(bad)
        /\ failures \in Nat /\ opensFor \in 0 .. Cooldown /\ Cooldown \in Nat
    BY ConfigOK DEF IInv, TypeOK
  <1>4. /\ bad' = [i \in 1 .. Len(bad) |-> AtMost(bad[i] + 1, Cooldown)]
        /\ failures' = failures
        /\ opensFor' = IF opensFor > 0 THEN opensFor - 1 ELSE 0
    BY <1>3 DEF Tick
  <1>5. \A i \in 1 .. Len(bad) : /\ bad'[i] \in 0 .. Cooldown
                                 /\ bad'[i] = IF bad[i] + 1 > Cooldown THEN Cooldown
                                              ELSE bad[i] + 1
    BY <1>3, <1>4 DEF AtMost
  <1>6. bad' \in Seq(0 .. Cooldown) /\ Len(bad') = Len(bad)
    <2>1. bad' \in [1 .. Len(bad) -> 0 .. Cooldown]
      BY <1>4, <1>5
    <2> QED
      BY <1>3, <2>1
  <1>7. TypeOK'
    BY <1>2, <1>3, <1>4, <1>6 DEF IInv, TypeOK, Tick
  <1>8. ASSUME NEW i \in 1 .. Len(bad)
        PROVE failures' >= Len(bad) - i + 1 \/ bad'[i] + opensFor' >= Cooldown
    <2>1. failures >= Len(bad) - i + 1 \/ bad[i] + opensFor >= Cooldown
      BY <1>3 DEF IInv, Covered
    <2>2. bad[i] \in 0 .. Cooldown
      BY <1>3
    <2> QED
      BY <1>3, <1>4, <1>5, <2>1, <2>2
  <1> QED
    BY <1>4, <1>6, <1>7, <1>8 DEF IInv, Covered

(* The types and the coverage of failures hold in every reachable state.    *)
THEOREM Inductive == Spec => []IInv
  <1>1. IInv /\ [Next]_vars => IInv'
    <2> SUFFICES ASSUME IInv, [Next]_vars PROVE IInv'
      OBVIOUS
    <2>1. CASE UNCHANGED vars
      BY <2>1 DEF IInv, TypeOK, Covered, vars
    <2>2. CASE Next
      BY <2>2, StartInv, RefuseInv, RaiseInv, FinishInv, TickInv DEF Next
    <2> QED
      BY <2>1, <2>2
  <1> QED
    BY InitInv, <1>1, PTL DEF Spec

(* The limiter's state stays inside its types.                              *)
THEOREM TypeCorrect == Spec => []TypeOK
  BY Inductive, PTL DEF IInv

(* Once the tool has failed Threshold times in a row, no execution starts   *)
(* before Cooldown has passed since the first of those failures, whatever   *)
(* refusals and overlapping calls come in between.                          *)
THEOREM Cooldowns == Spec => CooldownServed
  <1>1. ASSUME IInv, [Next]_vars, running' # running, running \subseteq running'
        PROVE Len(bad) < Threshold \/ bad[1] = Cooldown
    <2>1. PICK c \in Caller : Start(c)
      <3>1. ASSUME NEW c \in Caller, NEW ok \in BOOLEAN, Finish(c, ok) PROVE FALSE
        BY <1>1, <3>1 DEF Finish
      <3> QED
        BY <1>1, <3>1 DEF Next, vars, Tick, Refuse, Raise
    <2>2. opensFor = 0
      BY <1>1, <2>1 DEF IInv, TypeOK, Start, Admitted, CircuitOpen
    <2>3. SUFFICES ASSUME ~(Len(bad) < Threshold) PROVE bad[1] = Cooldown
      OBVIOUS
    <2>4. Len(bad) = Threshold /\ 1 \in DOMAIN bad /\ bad[1] \in 0 .. Cooldown
      BY <1>1, <2>3, ConfigOK DEF IInv, TypeOK
    <2>5. ~(failures >= Len(bad) - 1 + 1)
      BY <1>1, <2>4, ConfigOK DEF IInv, TypeOK
    <2> QED
      BY <1>1, <2>2, <2>4, <2>5, ConfigOK DEF IInv, Covered
  <1>2. IInv /\ [Next]_vars => [running' # running /\ running \subseteq running'
                                 => Len(bad) < Threshold \/ bad[1] = Cooldown]_vars
    BY <1>1
  <1> QED
    BY Inductive, <1>2, PTL DEF Spec, CooldownServed
-----------------------------------------------------------------------------
(* The burst. Of the executions that began in the last a ticks, each is     *)
(* recorded, running or raised, unless the window has been full since; and  *)
(* what began before it was full stays within the bound, because nothing    *)
(* begins while it is.                                                      *)
Accounted ==
    \A a \in Age : \/ started[a] <= timestamps[a] + Cardinality(running) + raised[a]
                   \/ timestamps[a] = MaxPerWindow
Bounded ==
    \A a \in Age : started[a] < MaxPerWindow + Cardinality(Caller) + raised[a]
\* More ticks hold no fewer calls.
Cumulative == \A a, b \in Age : a <= b => timestamps[a] <= timestamps[b]

BInv == TypeOK /\ Cumulative /\ Accounted /\ Bounded

LEMMA Ages == Window - 1 \in Age /\ 0 \in Age /\ \A a \in Age : a = 0 \/ a - 1 \in Age
  BY ConfigOK DEF Age

(* What TypeOK says of one age, as the steps below use it.                  *)
LEMMA Numbers ==
    ASSUME TypeOK
    PROVE  /\ \A a \in Age : /\ timestamps[a] \in 0 .. MaxPerWindow
                             /\ started[a] \in Nat /\ raised[a] \in Nat
           /\ Cardinality(running) \in Nat /\ Cardinality(Caller) \in Nat
           /\ Cardinality(running) <= Cardinality(Caller)
           /\ MaxPerWindow \in Nat \ {0}
  <1>1. IsFiniteSet(Caller) /\ running \subseteq Caller
    BY ConfigOK DEF TypeOK
  <1>2. IsFiniteSet(running) /\ Cardinality(running) <= Cardinality(Caller)
    BY <1>1, FS_Subset
  <1>3. Cardinality(running) \in Nat /\ Cardinality(Caller) \in Nat
    BY <1>1, <1>2, FS_CardinalityType
  <1> QED
    BY <1>2, <1>3, ConfigOK DEF TypeOK

(* One request more or one fewer is in flight.                              *)
LEMMA InFlight ==
    ASSUME TypeOK, NEW c \in Caller
    PROVE  /\ c \notin running =>
               /\ Cardinality(running \cup {c}) = Cardinality(running) + 1
               /\ Cardinality(running) < Cardinality(Caller)
           /\ c \in running => Cardinality(running \ {c}) = Cardinality(running) - 1
  <1>1. IsFiniteSet(Caller) /\ IsFiniteSet(running) /\ running \subseteq Caller
    BY ConfigOK, FS_Subset DEF TypeOK
  <1>2. Cardinality(running) \in Nat /\ Cardinality(Caller) \in Nat
    BY <1>1, FS_CardinalityType
  <1>3. ASSUME c \notin running
        PROVE  /\ Cardinality(running \cup {c}) = Cardinality(running) + 1
               /\ Cardinality(running) < Cardinality(Caller)
    <2>1. Cardinality(running \cup {c}) = Cardinality(running) + 1
      BY <1>1, <1>3, FS_AddElement
    <2>2. running \cup {c} \subseteq Caller
      BY <1>1
    <2>3. Cardinality(running \cup {c}) <= Cardinality(Caller)
      BY <1>1, <2>2, FS_Subset
    <2> QED
      BY <1>2, <2>1, <2>3
  <1>4. ASSUME c \in running
        PROVE  Cardinality(running \ {c}) = Cardinality(running) - 1
    BY <1>1, <1>4, FS_RemoveElement
  <1> QED
    BY <1>3, <1>4

LEMMA BurstRecorded ==
    ASSUME BInv, NEW ok \in BOOLEAN, Record(ok)
    PROVE  /\ Cumulative'
           /\ \A a \in Age : \/ timestamps'[a] = MaxPerWindow
                            \/ timestamps'[a] = timestamps[a] + 1
           /\ \A a \in Age : timestamps[a] = MaxPerWindow => timestamps'[a] = MaxPerWindow
  <1>1. \A a \in Age : /\ timestamps[a] \in 0 .. MaxPerWindow
                       /\ timestamps'[a] = IF timestamps[a] + 1 > MaxPerWindow
                                           THEN MaxPerWindow ELSE timestamps[a] + 1
    BY Numbers DEF BInv, Record, Counted, AtMost
  <1>2. Cumulative'
    BY <1>1, ConfigOK DEF BInv, Cumulative
  <1> QED
    BY <1>1, <1>2, ConfigOK

LEMMA BurstStart == ASSUME BInv, NEW c \in Caller, Start(c) PROVE (Cumulative /\ Accounted /\ Bounded)'
  <1>1. /\ c \notin running /\ running' = running \cup {c}
        /\ timestamps' = timestamps /\ raised' = raised
        /\ \A a \in Age : started'[a] = started[a] + 1
        /\ timestamps[Window - 1] < MaxPerWindow
    BY Numbers, Ages DEF BInv, Start, OneMore, Admitted, RateLimited, Total
  <1>2. /\ Cardinality(running') = Cardinality(running) + 1
        /\ Cardinality(running) < Cardinality(Caller)
    BY <1>1, InFlight DEF BInv
  <1>3. ASSUME NEW a \in Age
        PROVE  /\ timestamps[a] < MaxPerWindow
               /\ started[a] <= timestamps[a] + Cardinality(running) + raised[a]
    <2>1. a <= Window - 1
      BY ConfigOK DEF Age
    <2>2. timestamps[a] <= timestamps[Window - 1]
      BY <2>1, Ages DEF BInv, Cumulative
    <2> QED
      BY <1>1, <2>2, Numbers, Ages DEF BInv, Accounted
  <1>4. Accounted'
    BY <1>1, <1>2, <1>3, Numbers DEF Accounted, BInv
  <1>5. Bounded'
    BY <1>1, <1>2, <1>3, Numbers DEF Bounded, BInv
  <1> QED
    BY <1>1, <1>4, <1>5 DEF BInv, Cumulative

LEMMA BurstFinish ==
    ASSUME BInv, NEW c \in Caller, NEW ok \in BOOLEAN, Finish(c, ok)
    PROVE  (Cumulative /\ Accounted /\ Bounded)'
  <1>1. /\ c \in running /\ running' = running \ {c} /\ Record(ok)
        /\ started' = started /\ raised' = raised
    BY DEF Finish
  <1>2. Cardinality(running') = Cardinality(running) - 1
    BY <1>1, InFlight DEF BInv
  <1>3. Accounted'
    BY <1>1, <1>2, BurstRecorded, Numbers DEF Accounted, BInv
  <1> QED
    BY <1>1, <1>3, BurstRecorded DEF BInv, Bounded

LEMMA BurstRefuse == ASSUME BInv, NEW c \in Caller, Refuse(c) PROVE (Cumulative /\ Accounted /\ Bounded)'
  <1>1. PICK ok \in BOOLEAN : Record(ok)
    BY DEF Refuse
  <1>2. running' = running /\ started' = started /\ raised' = raised
    BY DEF Refuse
  <1>3. Accounted'
    BY <1>1, <1>2, BurstRecorded, Numbers DEF Accounted, BInv
  <1> QED
    BY <1>1, <1>2, <1>3, BurstRecorded DEF BInv, Bounded

LEMMA BurstRaise == ASSUME BInv, NEW c \in Caller, Raise(c) PROVE (Cumulative /\ Accounted /\ Bounded)'
  <1>1. /\ c \in running /\ running' = running \ {c}
        /\ timestamps' = timestamps /\ started' = started
        /\ \A a \in Age : raised'[a] = raised[a] + 1
    BY DEF Raise, OneMore
  <1>2. Cardinality(running') = Cardinality(running) - 1
    BY <1>1, InFlight DEF BInv
  <1>3. Accounted' /\ Bounded'
    BY <1>1, <1>2, Numbers DEF Accounted, Bounded, BInv
  <1> QED
    BY <1>1, <1>3 DEF BInv, Cumulative

(* What is older by a tick is what was younger by one.                      *)
LEMMA BurstTick == ASSUME BInv, Tick PROVE (Cumulative /\ Accounted /\ Bounded)'
  <1>1. \A a \in Age :
          IF a = 0 THEN timestamps'[a] = 0 /\ started'[a] = 0 /\ raised'[a] = 0
          ELSE /\ timestamps'[a] = timestamps[a - 1] /\ started'[a] = started[a - 1]
               /\ raised'[a] = raised[a - 1]
    BY DEF Tick, Older
  <1>2. running' = running
    BY DEF Tick
  <1>3. Age \subseteq Nat
    BY DEF Age
  <1>4. Cumulative'
    <2>1. SUFFICES ASSUME NEW a \in Age, NEW b \in Age, a <= b
                   PROVE  timestamps'[a] <= timestamps'[b]
      BY DEF Cumulative
    <2>2. CASE a = 0
      <3>1. timestamps'[b] \in Nat
        BY <1>1, <1>3, Ages, Numbers DEF BInv
      <3> QED
        BY <1>1, <2>2, <3>1
    <2>3. CASE a # 0
      <3>1. b # 0 /\ a - 1 \in Age /\ b - 1 \in Age /\ a - 1 <= b - 1
        BY <1>3, <2>1, <2>3, Ages
      <3> QED
        BY <1>1, <2>3, <3>1 DEF BInv, Cumulative
    <2> QED
      BY <2>2, <2>3
  <1>5. ASSUME NEW a \in Age
        PROVE  /\ \/ started'[a] <= timestamps'[a] + Cardinality(running') + raised'[a]
                  \/ timestamps'[a] = MaxPerWindow
               /\ started'[a] < MaxPerWindow + Cardinality(Caller) + raised'[a]
    <2>1. CASE a = 0
      BY <1>1, <1>2, <2>1, Numbers DEF BInv
    <2>2. CASE a # 0
      <3>1. a - 1 \in Age
        BY <2>2, Ages
      <3> QED
        BY <1>1, <1>2, <2>2, <3>1 DEF BInv, Accounted, Bounded
    <2> QED
      BY <2>1, <2>2
  <1> QED
    BY <1>4, <1>5 DEF Accounted, Bounded

LEMMA Next_BInv == BInv /\ TypeOK' /\ [Next]_vars => BInv'
  <1> SUFFICES ASSUME BInv, [Next]_vars PROVE (Cumulative /\ Accounted /\ Bounded)'
    BY DEF BInv
  <1>1. CASE UNCHANGED vars
    BY <1>1 DEF BInv, vars, Cumulative, Accounted, Bounded
  <1>2. CASE Next
    BY <1>2, BurstStart, BurstRefuse, BurstRaise, BurstFinish, BurstTick DEF Next
  <1> QED
    BY <1>1, <1>2

LEMMA Init_BInv == Init => BInv
  <1> SUFFICES ASSUME Init PROVE BInv
    OBVIOUS
  <1>1. TypeOK
    BY InitInv DEF IInv
  <1>2. \A a \in Age : timestamps[a] = 0 /\ started[a] = 0 /\ raised[a] = 0
    BY DEF Init
  <1> QED
    BY <1>1, <1>2, Numbers, Ages DEF BInv, Cumulative, Accounted, Bounded

(* In a window start at most MaxPerWindow executions, and one more for each *)
(* other request that may be in flight at the check and for each execution  *)
(* that raised: for any number of requests and any configuration.           *)
THEOREM BurstsBounded == Spec => []BurstBound
  <1>1. BInv => BurstBound
    BY Ages DEF BInv, Bounded, BurstBound, Total
  <1> QED
    BY TypeCorrect, Init_BInv, Next_BInv, <1>1, PTL DEF Spec
=============================================================================
