------------------------- MODULE ToolDispatchProofs -------------------------
(***************************************************************************)
(* Proofs about ToolDispatch, for any requests, calls and skills: what the *)
(* trace says of batches, what a promoted skill does, which taps pass the  *)
(* Patrol guard and how deep dispatches nest.                              *)
(*                                                                         *)
(* All of it rests on the shape of requests, trace and skills (Shaped);    *)
(* each property adds the invariant that carries it:                       *)
(*   Watched   the taps of this period of the guard, done and in flight    *)
(*   Teller    what a batch has done is in the trace, the rest on its list *)
(*   Flowing   the promotable entries and the acts say the same            *)
(***************************************************************************)
EXTENDS ToolDispatch, FiniteSetTheorems, SequenceTheorems, WellFoundedInduction, TLAPS

-----------------------------------------------------------------------------
(* Sequences of whatever elements.                                          *)
IsSeq(s) == s \in Seq({s[i] : i \in DOMAIN s})

LEMMA SeqIsSeq == ASSUME NEW C, NEW s \in Seq(C) PROVE IsSeq(s)
  <1>1. Len(s) \in Nat /\ DOMAIN s = 1 .. Len(s) /\ s = [i \in 1 .. Len(s) |-> s[i]]
    BY LenProperties
  <1> DEFINE E == {s[i] : i \in DOMAIN s}
  <1>2. s \in [1 .. Len(s) -> E]
    BY <1>1
  <1>3. s \in Seq(E)
    BY <1>1, <1>2, SeqDef
  <1> QED
    BY <1>3 DEF IsSeq

LEMMA IsSeqFacts ==
    ASSUME NEW s, IsSeq(s)
    PROVE  /\ Len(s) \in Nat
           /\ DOMAIN s = 1 .. Len(s)
           /\ s = <<>> <=> Len(s) = 0
  BY LenProperties, EmptySeq DEF IsSeq

LEMMA IsSeqAppend ==
    ASSUME NEW s, IsSeq(s), NEW e
    PROVE  /\ IsSeq(Append(s, e))
           /\ Len(Append(s, e)) = Len(s) + 1
           /\ \A i \in 1 .. Len(s) : Append(s, e)[i] = s[i]
           /\ Append(s, e)[Len(s) + 1] = e
  <1> DEFINE C == {s[i] : i \in DOMAIN s} \cup {e}
  <1>1. s \in Seq(C)
    BY SeqMonotonic DEF IsSeq
  <1>2. e \in C
    OBVIOUS
  <1> HIDE DEF C
  <1>3. Append(s, e) \in Seq(C)
    BY <1>1, <1>2, AppendProperties
  <1>4. IsSeq(Append(s, e))
    BY <1>3, SeqIsSeq
  <1> QED
    BY <1>1, <1>2, <1>4, AppendProperties

LEMMA IsSeqTail ==
    ASSUME NEW s, IsSeq(s), s # <<>>
    PROVE  /\ IsSeq(Tail(s))
           /\ Len(Tail(s)) = Len(s) - 1
           /\ \A i \in 1 .. Len(s) - 1 : Tail(s)[i] = s[i + 1]
           /\ Head(s) = s[1]
  <1> DEFINE C == {s[i] : i \in DOMAIN s}
  <1>1. s \in Seq(C)
    BY DEF IsSeq
  <1> HIDE DEF C
  <1>2. Tail(s) \in Seq(C)
    BY <1>1, HeadTailProperties
  <1>3. IsSeq(Tail(s))
    BY <1>2, SeqIsSeq
  <1> QED
    BY <1>1, <1>3, HeadTailProperties

LEMMA IsSeqPush ==
    ASSUME NEW s, IsSeq(s), NEW f
    PROVE  /\ IsSeq(<<f>> \o s)
           /\ Len(<<f>> \o s) = Len(s) + 1
           /\ (<<f>> \o s)[1] = f
           /\ \A i \in 1 .. Len(s) : (<<f>> \o s)[i + 1] = s[i]
           /\ Head(<<f>> \o s) = f
           /\ Tail(<<f>> \o s) = s
  <1> DEFINE C == {s[i] : i \in DOMAIN s} \cup {f}
  <1>1. s \in Seq(C)
    BY SeqMonotonic DEF IsSeq
  <1>2. <<f>> \in Seq(C) /\ Len(<<f>>) = 1 /\ <<f>>[1] = f
    OBVIOUS
  <1> HIDE DEF C
  <1>3. /\ <<f>> \o s \in Seq(C)
        /\ Len(<<f>> \o s) = Len(s) + 1
        /\ \A i \in 1 .. 1 + Len(s) : (<<f>> \o s)[i] = IF i <= 1 THEN <<f>>[i] ELSE s[i - 1]
    BY <1>1, <1>2, ConcatProperties
  <1>4. IsSeq(<<f>> \o s)
    BY <1>3, SeqIsSeq
  <1>5. Len(s) \in Nat
    BY <1>1, LenProperties
  <1>6. (<<f>> \o s)[1] = f /\ \A i \in 1 .. Len(s) : (<<f>> \o s)[i + 1] = s[i]
    BY <1>2, <1>3, <1>5
  <1>7. <<f>> \o s # <<>> /\ Head(<<f>> \o s) = f
    BY <1>2, <1>3, <1>5, <1>6
  <1>8. Tail(<<f>> \o s) = s
    BY <1>1, <1>2, <1>3, <1>5, <1>6, <1>7, HeadTailProperties, SeqEqual
  <1> QED
    BY <1>3, <1>4, <1>6, <1>7, <1>8

(* Induction on the natural numbers, over a set.                            *)
LEMMA Least ==
    ASSUME NEW S, S \subseteq Nat, S # {}
    PROVE  \E m \in S : \A n \in S : m <= n
  <1>1. IsWellFoundedOn(OpToRel(<, Nat), Nat)
    BY NatLessThanWellFounded
  <1>2. PICK m \in S : \A n \in S : ~(<<n, m>> \in OpToRel(<, Nat))
    BY <1>1, WFMin
  <1>3. \A n \in S : ~(n < m)
    BY <1>2 DEF OpToRel
  <1> QED
    BY <1>3

LEMMA Ind ==
    ASSUME NEW S, 0 \in S, \A n \in Nat : n \in S => n + 1 \in S
    PROVE  Nat \subseteq S
  <1> SUFFICES ASSUME ~(Nat \subseteq S) PROVE FALSE
    OBVIOUS
  <1>1. PICK m \in Nat \ S : \A n \in Nat \ S : m <= n
    BY Least
  <1>2. m # 0 /\ m - 1 \in Nat
    BY <1>1
  <1>3. m - 1 \in S
    BY <1>1, <1>2
  <1> QED
    BY <1>1, <1>2, <1>3
-----------------------------------------------------------------------------
(* The elements of a sequence that are in a set.                            *)
Filters(g, s, S, m) ==
    g = [n \in 0 .. m |-> IF n = 0 THEN <<>>
                          ELSE IF s[n] \in S THEN Append(g[n - 1], s[n]) ELSE g[n - 1]]

LEMMA FilterExists ==
    ASSUME NEW s, NEW S, NEW k \in Nat
    PROVE  \E g : Filters(g, s, S, k)
  <1> DEFINE D == {m \in Nat : \E g : Filters(g, s, S, m)}
  <1>1. 0 \in D
    <2> DEFINE g == [n \in 0 .. 0 |-> <<>>]
    <2>1. Filters(g, s, S, 0)
      BY DEF Filters
    <2> QED
      BY <2>1
  <1>2. ASSUME NEW m \in Nat, m \in D PROVE m + 1 \in D
    <2>1. PICK g : Filters(g, s, S, m)
      BY <1>2
    <2> DEFINE h == [n \in 0 .. m + 1 |->
                       IF n <= m THEN g[n]
                       ELSE IF s[n] \in S THEN Append(g[n - 1], s[n]) ELSE g[n - 1]]
               k2 == [n \in 0 .. m + 1 |->
                       IF n = 0 THEN <<>>
                       ELSE IF s[n] \in S THEN Append(h[n - 1], s[n]) ELSE h[n - 1]]
    <2>2. \A n \in 0 .. m : g[n] = IF n = 0 THEN <<>>
                                   ELSE IF s[n] \in S THEN Append(g[n - 1], s[n]) ELSE g[n - 1]
      BY <2>1 DEF Filters
    <2>3. ASSUME NEW n \in 0 .. m + 1 PROVE h[n] = k2[n]
      <3>1. CASE n = 0
        BY <3>1, <2>2
      <3>2. CASE n # 0
        <4>1. n - 1 \in 0 .. m /\ h[n - 1] = g[n - 1]
          BY <3>2
        <4>2. CASE n <= m
          BY <4>1, <4>2, <3>2, <2>2
        <4>3. CASE ~(n <= m)
          BY <4>1, <4>3, <3>2
        <4> QED
          BY <4>2, <4>3
      <3> QED
        BY <3>1, <3>2
    <2>4. h = k2
      BY <2>3
    <2>5. Filters(h, s, S, m + 1)
      BY <2>4 DEF Filters
    <2> HIDE DEF h
    <2> QED
      BY <2>5
  <1>3. Nat \subseteq D
    <2> HIDE DEF D
    <2> QED
      BY <1>1, <1>2, Ind
  <1> QED
    BY <1>3

LEMMA OnlyFilters ==
    ASSUME NEW s, Len(s) \in Nat, NEW S
    PROVE  \E g : Filters(g, s, S, Len(s)) /\ Only(s, S) = g[Len(s)]
  <1> DEFINE g == CHOOSE g : Filters(g, s, S, Len(s))
  <1>1. Filters(g, s, S, Len(s))
    BY FilterExists
  <1>2. Only(s, S) = g[Len(s)]
    BY DEF Only, Filters
  <1> HIDE DEF g
  <1> QED
    BY <1>1, <1>2

(* What a filter has of a prefix depends on nothing but the prefix.         *)
LEMMA FilterAgrees ==
    ASSUME NEW s, NEW t, NEW S, NEW T, NEW m \in Nat, NEW n \in Nat, NEW g, NEW h,
           Filters(g, s, S, m), Filters(h, t, T, n), NEW k \in Nat, k <= m, k <= n,
           \A i \in 1 .. k : s[i] = t[i] /\ (s[i] \in S <=> t[i] \in T)
    PROVE  g[k] = h[k]
  <1> DEFINE D == {i \in Nat : i <= k => g[i] = h[i]}
  <1>1. \A i \in 0 .. m : g[i] = IF i = 0 THEN <<>>
                                 ELSE IF s[i] \in S THEN Append(g[i - 1], s[i]) ELSE g[i - 1]
    BY DEF Filters
  <1>2. \A i \in 0 .. n : h[i] = IF i = 0 THEN <<>>
                                 ELSE IF t[i] \in T THEN Append(h[i - 1], t[i]) ELSE h[i - 1]
    BY DEF Filters
  <1>3. 0 \in D
    BY <1>1, <1>2
  <1>4. ASSUME NEW i \in Nat, i \in D PROVE i + 1 \in D
    <2> SUFFICES ASSUME i + 1 <= k PROVE g[i + 1] = h[i + 1]
      OBVIOUS
    <2>1. g[i] = h[i]
      BY <1>4
    <2>2. i + 1 \in 1 .. k /\ i + 1 \in 0 .. m /\ i + 1 \in 0 .. n /\ i + 1 # 0 /\ i + 1 - 1 = i
      OBVIOUS
    <2>3. g[i + 1] = IF s[i + 1] \in S THEN Append(g[i], s[i + 1]) ELSE g[i]
      BY <1>1, <2>2
    <2>4. h[i + 1] = IF t[i + 1] \in T THEN Append(h[i], t[i + 1]) ELSE h[i]
      BY <1>2, <2>2
    <2>5. s[i + 1] = t[i + 1] /\ (s[i + 1] \in S <=> t[i + 1] \in T)
      BY <2>2
    <2> QED
      BY <2>1, <2>3, <2>4, <2>5
  <1>5. Nat \subseteq D
    <2> HIDE DEF D
    <2> QED
      BY <1>3, <1>4, Ind
  <1> QED
    BY <1>5

LEMMA OnlySame ==
    ASSUME NEW s, IsSeq(s), NEW S, NEW T, \A i \in 1 .. Len(s) : s[i] \in S <=> s[i] \in T
    PROVE  Only(s, S) = Only(s, T)
  <1>1. Len(s) \in Nat
    BY IsSeqFacts
  <1>2. PICK g : Filters(g, s, S, Len(s)) /\ Only(s, S) = g[Len(s)]
    BY <1>1, OnlyFilters
  <1>3. PICK h : Filters(h, s, T, Len(s)) /\ Only(s, T) = h[Len(s)]
    BY <1>1, OnlyFilters
  <1>4. g[Len(s)] = h[Len(s)]
    BY <1>1, <1>2, <1>3, FilterAgrees
  <1> QED
    BY <1>2, <1>3, <1>4

LEMMA OnlyEmpty ==
    ASSUME NEW S PROVE Only(<<>>, S) = <<>>
  <1>1. Len(<<>>) = 0 /\ Len(<<>>) \in Nat
    OBVIOUS
  <1>2. PICK g : Filters(g, <<>>, S, 0) /\ Only(<<>>, S) = g[0]
    BY <1>1, OnlyFilters
  <1> QED
    BY <1>2 DEF Filters

LEMMA OnlyAppend ==
    ASSUME NEW s, IsSeq(s), NEW e, NEW S, NEW T,
           \A i \in 1 .. Len(s) : s[i] \in S <=> s[i] \in T
    PROVE  Only(Append(s, e), T) = IF e \in T THEN Append(Only(s, S), e) ELSE Only(s, S)
  <1> DEFINE a == Append(s, e)
             n == Len(s)
  <1>1. /\ n \in Nat
        /\ Len(a) = n + 1
        /\ \A i \in 1 .. n : a[i] = s[i]
        /\ a[n + 1] = e
    BY IsSeqFacts, IsSeqAppend
  <1>2. PICK g : Filters(g, s, S, n) /\ Only(s, S) = g[n]
    BY <1>1, OnlyFilters
  <1> HIDE DEF a, n
  <1>3. PICK h : Filters(h, a, T, n + 1) /\ Only(a, T) = h[n + 1]
    BY <1>1, OnlyFilters
  <1>4. h[n] = g[n]
    <2>1. \A i \in 1 .. n : a[i] = s[i] /\ (a[i] \in T <=> s[i] \in S)
      BY <1>1 DEF n
    <2>2. n + 1 \in Nat /\ n <= n + 1 /\ n <= n
      BY <1>1
    <2> QED
      BY <1>1, <1>2, <1>3, <2>1, <2>2, FilterAgrees
  <1>5. h[n + 1] = IF a[n + 1] \in T THEN Append(h[n], a[n + 1]) ELSE h[n]
    <2>1. n + 1 \in 0 .. n + 1 /\ n + 1 # 0 /\ n + 1 - 1 = n
      BY <1>1
    <2>2. \A i \in 0 .. n + 1 : h[i] = IF i = 0 THEN <<>>
                                       ELSE IF a[i] \in T THEN Append(h[i - 1], a[i]) ELSE h[i - 1]
      BY <1>3 DEF Filters
    <2> QED
      BY <1>1, <2>1, <2>2
  <1> QED
    BY <1>1, <1>2, <1>3, <1>4, <1>5 DEF a

(* All that is left of a sequence was in it, and in the set.                *)
LEMMA OnlyFrom ==
    ASSUME NEW C, NEW s \in Seq(C), NEW S
    PROVE  Only(s, S) \in Seq({c \in C : c \in S})
  <1> DEFINE R == {c \in C : c \in S}
  <1>1. Len(s) \in Nat
    BY LenProperties
  <1>2. PICK g : Filters(g, s, S, Len(s)) /\ Only(s, S) = g[Len(s)]
    BY <1>1, OnlyFilters
  <1> DEFINE D == {i \in Nat : i <= Len(s) => g[i] \in Seq(R)}
  <1>3. \A i \in 0 .. Len(s) : g[i] = IF i = 0 THEN <<>>
                                      ELSE IF s[i] \in S THEN Append(g[i - 1], s[i]) ELSE g[i - 1]
    BY <1>2 DEF Filters
  <1>4. 0 \in D
    <2>1. <<>> \in Seq(R)
      OBVIOUS
    <2>2. g[0] = <<>>
      BY <1>1, <1>3
    <2> HIDE DEF R
    <2> QED
      BY <2>1, <2>2
  <1>5. ASSUME NEW i \in Nat, i \in D PROVE i + 1 \in D
    <2> SUFFICES ASSUME i + 1 <= Len(s) PROVE g[i + 1] \in Seq(R)
      OBVIOUS
    <2>1. g[i] \in Seq(R)
      BY <1>1, <1>5
    <2>2. i + 1 \in 1 .. Len(s) /\ i + 1 \in 0 .. Len(s) /\ i + 1 # 0 /\ i + 1 - 1 = i
      BY <1>1
    <2>3. g[i + 1] = IF s[i + 1] \in S THEN Append(g[i], s[i + 1]) ELSE g[i]
      BY <1>3, <2>2
    <2>4. s[i + 1] \in C
      BY <2>2, ElementOfSeq
    <2>5. CASE s[i + 1] \in S
      <3>1. s[i + 1] \in R
        BY <2>4, <2>5
      <3> HIDE DEF R
      <3> QED
        BY <2>1, <2>3, <2>5, <3>1, AppendProperties
    <2> QED
      BY <2>1, <2>3, <2>5
  <1>6. Nat \subseteq D
    <2> HIDE DEF D
    <2> QED
      BY <1>4, <1>5, Ind
  <1> QED
    BY <1>1, <1>2, <1>6
-----------------------------------------------------------------------------
(* The shape of a request.  Only a composite dispatch has another one on    *)
(* top of it, and a batch has no batch, a replay no replay.  A batch was    *)
(* asked for by the agent; what a skill holds is no replay.                 *)
Plain == \A c \in Call : c.tool = "batch" =>
            \A i \in DOMAIN c.steps : c.steps[i].tool # "replay"

Asked(c) == Named(c) /\ (c.tool = "batch" => c \in Call)

FrameOK(f) ==
    /\ f = [call |-> f.call, todo |-> f.todo, good |-> f.good, known |-> f.known]
    /\ Asked(f.call)
    /\ IsSeq(f.todo)
    /\ f.good \in BOOLEAN /\ f.known \in BOOLEAN
    /\ \A i \in 1 .. Len(f.todo) : Named(f.todo[i])
    /\ f.call.tool = "replay" =>
          \A i \in 1 .. Len(f.todo) : Asked(f.todo[i]) /\ f.todo[i].tool # "replay"
    /\ Plain /\ f.call.tool = "batch" =>
          \A i \in 1 .. Len(f.todo) : f.todo[i].tool # "replay"

Nests(lower, upper) ==
    /\ lower \in Composite
    /\ upper # lower
    /\ Plain /\ lower = "batch" => upper # "replay"

Stack(s) ==
    /\ IsSeq(s)
    /\ \A i \in 1 .. Len(s) : FrameOK(s[i])
    /\ \A i \in 1 .. Len(s) - 1 : Nests(s[i + 1].call.tool, s[i].call.tool)

(* What is below a dispatch.                                                *)
Lower(s) == Stack(s) /\ (s # <<>> => s[1].call.tool \in Composite)

Stepped(s) == <<[Head(s) EXCEPT !.todo = Tail(@)]>> \o Tail(s)

LEMMA EmptyStack == Lower(<<>>) /\ Stack(<<>>)
  <1>1. IsSeq(<<>>) /\ Len(<<>>) = 0
    BY DEF IsSeq
  <1>2. \A i \in 1 .. 0 : FALSE
    OBVIOUS
  <1>3. \A i \in 1 .. 0 - 1 : FALSE
    OBVIOUS
  <1> QED
    BY <1>1, <1>2, <1>3 DEF Lower, Stack

LEMMA TailLower ==
    ASSUME NEW s, Stack(s), s # <<>>
    PROVE  /\ Lower(Tail(s))
           /\ Tail(s) # <<>> => Nests(Tail(s)[1].call.tool, s[1].call.tool)
  <1>1. /\ IsSeq(Tail(s)) /\ Len(Tail(s)) = Len(s) - 1 /\ Len(s) \in Nat \ {0}
        /\ \A i \in 1 .. Len(s) - 1 : Tail(s)[i] = s[i + 1]
    BY IsSeqTail, IsSeqFacts DEF Stack
  <1>2. \A i \in 1 .. Len(Tail(s)) : FrameOK(Tail(s)[i])
    BY <1>1 DEF Stack
  <1>3. \A i \in 1 .. Len(Tail(s)) - 1 : Nests(Tail(s)[i + 1].call.tool, Tail(s)[i].call.tool)
    BY <1>1 DEF Stack
  <1>4. ASSUME Tail(s) # <<>> PROVE Nests(Tail(s)[1].call.tool, s[1].call.tool)
    <2>1. Len(Tail(s)) # 0
      BY <1>1, <1>4, IsSeqFacts
    <2>2. 1 \in 1 .. Len(s) - 1 /\ Tail(s)[1] = s[2] /\ 1 + 1 = 2
      BY <1>1, <2>1
    <2> QED
      BY <2>2 DEF Stack
  <1> QED
    BY <1>1, <1>2, <1>3, <1>4 DEF Lower, Stack, Nests

LEMMA PushStack ==
    ASSUME NEW s, Lower(s), NEW f, FrameOK(f), s # <<>> => Nests(s[1].call.tool, f.call.tool)
    PROVE  Stack(<<f>> \o s)
  <1> DEFINE p == <<f>> \o s
  <1>1. /\ IsSeq(s) /\ Len(s) \in Nat /\ (s = <<>> <=> Len(s) = 0)
        /\ \A i \in 1 .. Len(s) : FrameOK(s[i])
        /\ \A i \in 1 .. Len(s) - 1 : Nests(s[i + 1].call.tool, s[i].call.tool)
    BY IsSeqFacts DEF Lower, Stack
  <1>2. IsSeq(p) /\ Len(p) = Len(s) + 1 /\ p[1] = f /\ \A i \in 1 .. Len(s) : p[i + 1] = s[i]
    BY <1>1, IsSeqPush
  <1> HIDE DEF p
  <1>3. ASSUME NEW i \in 1 .. Len(p) PROVE FrameOK(p[i])
    <2>1. CASE i = 1
      BY <1>2, <2>1
    <2>2. CASE i # 1
      <3>1. i - 1 \in 1 .. Len(s) /\ i - 1 + 1 = i
        BY <1>1, <1>2, <2>2
      <3> QED
        BY <1>1, <1>2, <3>1
    <2> QED
      BY <2>1, <2>2
  <1>4. ASSUME NEW i \in 1 .. Len(p) - 1 PROVE Nests(p[i + 1].call.tool, p[i].call.tool)
    <2>1. i \in 1 .. Len(s) /\ p[i + 1] = s[i]
      BY <1>1, <1>2
    <2>2. CASE i = 1
      BY <1>1, <1>2, <2>1, <2>2
    <2>3. CASE i # 1
      <3>1. i - 1 \in 1 .. Len(s) - 1 /\ i - 1 \in 1 .. Len(s) /\ i - 1 + 1 = i
        BY <1>1, <2>1, <2>3
      <3>2. p[i] = s[i - 1]
        BY <1>2, <3>1
      <3> QED
        BY <1>1, <2>1, <3>1, <3>2
    <2> QED
      BY <2>2, <2>3
  <1> QED
    BY <1>2, <1>3, <1>4 DEF Stack, p

LEMMA NewTop ==
    ASSUME NEW s, Lower(s), s # <<>>, NEW f, FrameOK(f), f.call = s[1].call
    PROVE  Lower(<<f>> \o Tail(s))
  <1>1. Lower(Tail(s)) /\ (Tail(s) # <<>> => Nests(Tail(s)[1].call.tool, s[1].call.tool))
    BY TailLower DEF Lower
  <1>2. Stack(<<f>> \o Tail(s))
    BY <1>1, PushStack
  <1>3. (<<f>> \o Tail(s))[1] = f
    BY <1>1, IsSeqPush DEF Lower, Stack
  <1> QED
    BY <1>2, <1>3 DEF Lower
(* The top of a stack once its call has failed.                             *)
Failed(top) ==
    [top EXCEPT !.good = FALSE,
                !.todo = (IF top.call.tool = "batch" /\ top.call.capture THEN Diagnostics ELSE <<>>)
                          \o (IF top.call.tool = "batch" /\ ~top.call.stop THEN top.todo ELSE <<>>)]

LEMMA Delivered ==
    ASSUME NEW s, NEW c, NEW ok
    PROVE  Deliver(s, c, ok) = IF s = <<>> \/ ok \/ Diagnosis(s, c) THEN s
                               ELSE <<Failed(Head(s))>> \o Tail(s)
  BY DEF Deliver, Failed

LEMMA LooksFacts ==
    /\ IsSeq(Diagnostics) /\ Len(Diagnostics) = 2
    /\ \A i \in 1 .. 2 : Diagnostics[i].tool = "look"
  <1>1. Diagnostics = <<[tool |-> "look", at |-> "take_screenshot"], [tool |-> "look", at |-> "read_logs"]>>
    BY DEF Diagnostics, Look
  <1>2. Diagnostics \in Seq({[tool |-> "look", at |-> "take_screenshot"], [tool |-> "look", at |-> "read_logs"]})
    BY <1>1
  <1>3. IsSeq(Diagnostics)
    BY <1>2, SeqIsSeq
  <1> QED
    BY <1>1, <1>3

LEMMA IsSeqConcat ==
    ASSUME NEW s, IsSeq(s), NEW r, IsSeq(r)
    PROVE  /\ IsSeq(s \o r)
           /\ Len(s \o r) = Len(s) + Len(r)
           /\ \A i \in 1 .. Len(s) : (s \o r)[i] = s[i]
           /\ \A i \in 1 .. Len(r) : (s \o r)[Len(s) + i] = r[i]
  <1> DEFINE C == {s[i] : i \in DOMAIN s} \cup {r[i] : i \in DOMAIN r}
  <1>1. s \in Seq(C) /\ r \in Seq(C)
    BY SeqMonotonic DEF IsSeq
  <1> HIDE DEF C
  <1>2. /\ s \o r \in Seq(C)
        /\ Len(s \o r) = Len(s) + Len(r)
        /\ \A i \in 1 .. Len(s) + Len(r) : (s \o r)[i] = IF i <= Len(s) THEN s[i] ELSE r[i - Len(s)]
    BY <1>1, ConcatProperties
  <1>3. IsSeq(s \o r)
    BY <1>2, SeqIsSeq
  <1>4. Len(s) \in Nat /\ Len(r) \in Nat
    BY <1>1, LenProperties
  <1>5. ASSUME NEW i \in 1 .. Len(r) PROVE (s \o r)[Len(s) + i] = r[i]
    <2>1. Len(s) + i \in 1 .. Len(s) + Len(r) /\ ~(Len(s) + i <= Len(s)) /\ Len(s) + i - Len(s) = i
      BY <1>4
    <2> QED
      BY <1>2, <2>1
  <1> QED
    BY <1>2, <1>3, <1>4, <1>5

LEMMA FrameExcept ==
    ASSUME NEW c, NEW d, NEW g, NEW k, NEW b, NEW x
    PROVE  [[call |-> c, todo |-> d, good |-> g, known |-> k] EXCEPT !.good = b, !.todo = x]
             = [call |-> c, todo |-> x, good |-> b, known |-> k]
  <1>1. [[call |-> c, todo |-> d, good |-> g, known |-> k] EXCEPT !.good = b]
          = [call |-> c, todo |-> d, good |-> b, known |-> k]
    OBVIOUS
  <1>2. [[call |-> c, todo |-> d, good |-> b, known |-> k] EXCEPT !.todo = x]
          = [call |-> c, todo |-> x, good |-> b, known |-> k]
    OBVIOUS
  <1> QED
    BY <1>1, <1>2, Zenon

(* A frame with fewer, and other, steps to make.                            *)
LEMMA FailedOK ==
    ASSUME NEW f, FrameOK(f), f.call.tool \in Composite
    PROVE  FrameOK(Failed(f)) /\ Failed(f).call = f.call /\ Failed(f).good = FALSE
  <1> DEFINE look == IF f.call.tool = "batch" /\ f.call.capture THEN Diagnostics ELSE <<>>
             rest == IF f.call.tool = "batch" /\ ~f.call.stop THEN f.todo ELSE <<>>
  <1>1. Failed(f) = [call |-> f.call, todo |-> look \o rest, good |-> FALSE, known |-> f.known]
    <2>2. Failed(f) = [f EXCEPT !.good = FALSE, !.todo = look \o rest]
      BY DEF Failed
    <2> HIDE DEF look, rest
    <2>3. f = [call |-> f.call, todo |-> f.todo, good |-> f.good, known |-> f.known]
      BY DEF FrameOK
    <2> QED
      BY <2>2, <2>3, FrameExcept, Zenon
  <1>2. IsSeq(<<>>) /\ Len(<<>>) = 0
    BY DEF IsSeq
  <1>3. /\ IsSeq(look) /\ Len(look) \in Nat
        /\ \A i \in 1 .. Len(look) : look[i].tool = "look"
        /\ f.call.tool = "replay" => Len(look) = 0
    <2>1. \/ look = Diagnostics /\ f.call.tool = "batch"
          \/ look = <<>>
      OBVIOUS
    <2> HIDE DEF look
    <2>2. CASE look = Diagnostics /\ f.call.tool = "batch"
      BY <2>2, LooksFacts
    <2>3. CASE look = <<>>
      BY <2>3, <1>2
    <2> QED
      BY <2>1, <2>2, <2>3
  <1>4. /\ IsSeq(rest) /\ Len(rest) \in Nat
        /\ \A i \in 1 .. Len(rest) : rest[i] = f.todo[i] /\ i \in 1 .. Len(f.todo)
        /\ f.call.tool = "replay" => Len(rest) = 0
    <2>1. CASE rest = f.todo /\ f.call.tool = "batch"
      BY <2>1, IsSeqFacts DEF FrameOK
    <2>2. CASE rest = <<>>
      BY <2>2, <1>2
    <2> QED
      BY <2>1, <2>2
  <1> HIDE DEF look, rest
  <1>5. /\ IsSeq(look \o rest) /\ Len(look \o rest) = Len(look) + Len(rest)
        /\ \A i \in 1 .. Len(look) : (look \o rest)[i] = look[i]
        /\ \A i \in 1 .. Len(rest) : (look \o rest)[Len(look) + i] = rest[i]
    BY <1>3, <1>4, IsSeqConcat
  <1>6. ASSUME NEW i \in 1 .. Len(look \o rest)
        PROVE  \/ (look \o rest)[i].tool = "look"
               \/ \E j \in 1 .. Len(f.todo) : (look \o rest)[i] = f.todo[j]
    <2>1. CASE i \in 1 .. Len(look)
      BY <1>3, <1>5, <2>1
    <2>2. CASE i \notin 1 .. Len(look)
      <3>1. i - Len(look) \in 1 .. Len(rest) /\ Len(look) + (i - Len(look)) = i
        BY <1>3, <1>4, <1>5, <2>2
      <3> QED
        BY <1>4, <1>5, <3>1
    <2> QED
      BY <2>1, <2>2
  <1>7. f.call.tool = "replay" => Len(look \o rest) = 0
    BY <1>3, <1>4, <1>5
  <1>8. \A i \in 1 .. Len(look \o rest) : Named((look \o rest)[i])
    BY <1>6 DEF FrameOK, Named
  <1>9. Plain /\ f.call.tool = "batch" => \A i \in 1 .. Len(look \o rest) : (look \o rest)[i].tool # "replay"
    BY <1>6 DEF FrameOK
  <1> HIDE DEF Plain
  <1>10. FrameOK([call |-> f.call, todo |-> look \o rest, good |-> FALSE, known |-> f.known])
    BY <1>5, <1>7, <1>8, <1>9 DEF FrameOK
  <1> QED
    BY <1>1, <1>10

LEMMA DeliverLower ==
    ASSUME NEW s, Lower(s), NEW c, NEW ok PROVE Lower(Deliver(s, c, ok))
  <1>1. CASE s = <<>> \/ ok \/ Diagnosis(s, c)
    BY <1>1, Delivered
  <1>2. CASE ~(s = <<>> \/ ok \/ Diagnosis(s, c))
    <2>1. Head(s) = s[1] /\ FrameOK(s[1]) /\ s[1].call.tool \in Composite
      <3>1. 1 \in 1 .. Len(s)
        BY <1>2, IsSeqFacts DEF Lower, Stack
      <3> QED
        BY <1>2, <3>1, IsSeqTail DEF Lower, Stack
    <2>2. FrameOK(Failed(s[1])) /\ Failed(s[1]).call = s[1].call
      BY <2>1, FailedOK
    <2> QED
      BY <1>2, <2>1, <2>2, NewTop, Delivered
  <1> QED
    BY <1>1, <1>2

LEMMA StepLower ==
    ASSUME NEW s, Stack(s), s # <<>>, Head(s).call.tool \in Composite, Head(s).todo # <<>>
    PROVE  /\ Lower(Stepped(s)) /\ Stepped(s) # <<>>
           /\ Stepped(s)[1].call = Head(s).call
           /\ Head(s) = s[1] /\ FrameOK(s[1])
           /\ Head(Head(s).todo) = s[1].todo[1] /\ 1 \in 1 .. Len(s[1].todo)
  <1>1. Head(s) = s[1] /\ FrameOK(s[1])
    <2>1. 1 \in 1 .. Len(s)
      BY IsSeqFacts DEF Stack
    <2> QED
      BY <2>1, IsSeqTail DEF Stack
  <1> DEFINE todo == s[1].todo
             f == [call |-> s[1].call, todo |-> Tail(todo), good |-> s[1].good, known |-> s[1].known]
  <1>2. [Head(s) EXCEPT !.todo = Tail(@)] = f
    <2>1. s[1] = [call |-> s[1].call, todo |-> todo, good |-> s[1].good, known |-> s[1].known]
      BY <1>1 DEF FrameOK
    <2> QED
      BY <1>1, <2>1
  <1>3. /\ IsSeq(Tail(todo)) /\ Len(Tail(todo)) = Len(todo) - 1 /\ Head(todo) = todo[1]
        /\ \A i \in 1 .. Len(todo) - 1 : Tail(todo)[i] = todo[i + 1]
    BY <1>1, IsSeqTail DEF FrameOK
  <1>4. Len(todo) \in Nat \ {0}
    BY <1>1, IsSeqFacts DEF FrameOK
  <1>5. FrameOK(f)
    <2>1. \A i \in 1 .. Len(Tail(todo)) : i + 1 \in 1 .. Len(todo) /\ Tail(todo)[i] = todo[i + 1]
      BY <1>3, <1>4
    <2> HIDE DEF Plain
    <2> QED
      BY <1>1, <1>3, <2>1 DEF FrameOK
  <1>6. Lower(s)
    BY <1>1 DEF Lower
  <1>7. Lower(<<f>> \o Tail(s))
    BY <1>5, <1>6, NewTop
  <1>8. IsSeq(Tail(s)) /\ (<<f>> \o Tail(s))[1] = f /\ Len(<<f>> \o Tail(s)) = Len(Tail(s)) + 1 /\ Len(Tail(s)) \in Nat
    BY IsSeqPush, IsSeqTail, IsSeqFacts DEF Stack
  <1>9. Stepped(s) = <<f>> \o Tail(s)
    BY <1>2 DEF Stepped
  <1> HIDE DEF f
  <1>10. <<f>> \o Tail(s) # <<>>
    BY <1>7, <1>8, IsSeqFacts DEF Lower, Stack
  <1> QED
    BY <1>1, <1>3, <1>4, <1>7, <1>8, <1>9, <1>10 DEF f
-----------------------------------------------------------------------------
Types ==
    /\ task = [t \in Task |-> task[t]]
    /\ library = [k \in Skill |-> library[k]]
    /\ sequence \in Nat
    /\ patrol \in BOOLEAN
    /\ IsSeq(trace)
    /\ IsSeq(acts)
Stacks == \A t \in Task : Stack(task[t])
Recorded == \A i \in 1 .. Len(trace) : Asked(trace[i].call)
Learnt(steps) ==
    /\ IsSeq(steps)
    /\ \A i \in 1 .. Len(steps) : Asked(steps[i]) /\ steps[i].tool # "replay"
Skills == \A k \in Skill : Learnt(library[k])
Shaped == Types /\ Stacks /\ Recorded /\ Skills

LEMMA FrameShape ==
    ASSUME Shaped, NEW c, Asked(c)
    PROVE  FrameOK(Frame(c)) /\ Frame(c).call = c /\ Frame(c).good = TRUE
  <1> DEFINE todo == CASE c.tool = "batch"  -> c.steps
                       [] c.tool = "replay" -> library[c.skill]
                       [] OTHER             -> <<>>
             known == c.tool = "replay" => library[c.skill] # <<>>
  <1>1. Frame(c) = [call |-> c, todo |-> todo, good |-> TRUE, known |-> known]
    BY DEF Frame
  <1>5. known \in BOOLEAN
    OBVIOUS
  <1>2. CASE c.tool = "batch"
    <2>1. todo = c.steps /\ c \in Call
      BY <1>2 DEF Asked
    <2>2. IsSeq(todo) /\ \A i \in DOMAIN todo : Named(todo[i])
      BY <1>2, <2>1, CallAssumption DEF IsSeq
    <2>3. Plain => \A i \in DOMAIN todo : todo[i].tool # "replay"
      BY <1>2, <2>1 DEF Plain
    <2>4. DOMAIN todo = 1 .. Len(todo)
      BY <2>2, IsSeqFacts
    <2> HIDE DEF todo, known, Plain
    <2> QED
      BY <1>1, <1>2, <1>5, <2>2, <2>3, <2>4 DEF FrameOK
  <1>3. CASE c.tool = "replay"
    <2>1. todo = library[c.skill] /\ c.skill \in Skill
      BY <1>3 DEF Asked, Named
    <2>2. Learnt(todo)
      BY <2>1 DEF Shaped, Skills
    <2> HIDE DEF todo, known, Plain
    <2> QED
      BY <1>1, <1>3, <1>5, <2>2 DEF FrameOK, Learnt, Asked
  <1>4. CASE c.tool \notin Composite
    <2>1. todo = <<>> /\ IsSeq(<<>>) /\ Len(<<>>) = 0 /\ c.tool # "batch" /\ c.tool # "replay"
      BY <1>4 DEF Composite, IsSeq
    <2> HIDE DEF todo, known, Plain
    <2> QED
      BY <1>1, <1>5, <2>1 DEF FrameOK
  <1> QED
    BY <1>2, <1>3, <1>4 DEF Composite

LEMMA Becomes ==
    ASSUME Types, NEW t \in Task, NEW s, Become(t, s)
    PROVE  /\ task' = [u \in Task |-> task'[u]]
           /\ task'[t] = s
           /\ \A u \in Task \ {t} : task'[u] = task[u]
  BY DEF Types, Become

Entry(c, ok) == [seq |-> sequence + 1, call |-> c, ok |-> ok]

LEMMA FinishEffect ==
    ASSUME Types, NEW t \in Task, NEW ok, Finish(t, ok)
    PROVE  /\ Become(t, Deliver(Tail(task[t]), Head(task[t]).call, ok))
           /\ sequence' = sequence + 1
           /\ IsSeq(trace')
           /\ \A i \in 1 .. Len(trace') : \/ trace'[i] = Entry(Head(task[t]).call, ok)
                                          \/ \E j \in 1 .. Len(trace) : trace'[i] = trace[j]
           /\ Len(trace) < MaxEntries => trace' = Append(trace, Entry(Head(task[t]).call, ok))
  <1> DEFINE e == Entry(Head(task[t]).call, ok)
             a == Append(trace, e)
  <1>1. /\ Become(t, Deliver(Tail(task[t]), Head(task[t]).call, ok))
        /\ sequence' = sequence + 1
        /\ trace' = IF Len(a) > MaxEntries THEN Tail(a) ELSE a
    BY DEF Finish, Entry
  <1> HIDE DEF e
  <1>2. /\ IsSeq(a) /\ Len(a) = Len(trace) + 1 /\ a[Len(trace) + 1] = e
        /\ \A i \in 1 .. Len(trace) : a[i] = trace[i]
        /\ Len(trace) \in Nat
    BY IsSeqAppend, IsSeqFacts DEF Types
  <1> HIDE DEF a
  <1>3. ASSUME NEW i \in 1 .. Len(a) PROVE a[i] = e \/ \E j \in 1 .. Len(trace) : a[i] = trace[j]
    <2>1. i \in 1 .. Len(trace) \/ i = Len(trace) + 1
      BY <1>2
    <2> QED
      BY <1>2, <2>1
  <1>4. CASE trace' = a
    BY <1>1, <1>2, <1>3, <1>4, EntriesAssumption DEF a, e
  <1>5. CASE trace' = Tail(a) /\ Len(a) > MaxEntries
    <2>1. a # <<>>
      BY <1>2, IsSeqFacts
    <2>2. /\ IsSeq(Tail(a)) /\ Len(Tail(a)) = Len(a) - 1
          /\ \A i \in 1 .. Len(a) - 1 : Tail(a)[i] = a[i + 1]
      BY <1>2, <2>1, IsSeqTail
    <2>3. ASSUME NEW i \in 1 .. Len(trace') PROVE trace'[i] = e \/ \E j \in 1 .. Len(trace) : trace'[i] = trace[j]
      <3>1. i \in 1 .. Len(a) - 1 /\ i + 1 \in 1 .. Len(a) /\ trace'[i] = a[i + 1]
        BY <1>2, <1>5, <2>2
      <3> QED
        BY <1>3, <3>1
    <2>4. ~(Len(trace) < MaxEntries)
      BY <1>2, <1>5, EntriesAssumption
    <2> QED
      BY <1>1, <1>5, <2>2, <2>3, <2>4 DEF e
  <1> QED
    BY <1>1, <1>4, <1>5

LEMMA FinishShape ==
    ASSUME Shaped, NEW t \in Task, NEW ok, task[t] # <<>>, Finish(t, ok)
    PROVE  Stacks' /\ Recorded' /\ IsSeq(trace') /\ sequence' \in Nat /\ task' = [u \in Task |-> task'[u]]
  <1>1. Lower(Tail(task[t])) /\ Asked(Head(task[t]).call)
    <2>1. Stack(task[t])
      BY DEF Shaped, Stacks
    <2>2. Head(task[t]) = task[t][1] /\ 1 \in 1 .. Len(task[t])
      BY <2>1, IsSeqTail, IsSeqFacts DEF Stack
    <2> QED
      BY <2>1, <2>2, TailLower DEF Stack, FrameOK
  <1>2. Stack(Deliver(Tail(task[t]), Head(task[t]).call, ok))
    BY <1>1, DeliverLower DEF Lower
  <1>3. Types
    BY DEF Shaped
  <1>4. Become(t, Deliver(Tail(task[t]), Head(task[t]).call, ok))
    BY <1>3, FinishEffect
  <1>5. Stacks' /\ task' = [u \in Task |-> task'[u]]
    BY <1>2, <1>3, <1>4, Becomes DEF Shaped, Stacks
  <1>6. Recorded'
    <2>1. ASSUME NEW i \in 1 .. Len(trace') PROVE Asked(trace'[i].call)
      <3>1. CASE trace'[i] = Entry(Head(task[t]).call, ok)
        BY <1>1, <3>1 DEF Entry
      <3>2. CASE \E j \in 1 .. Len(trace) : trace'[i] = trace[j]
        BY <3>2 DEF Shaped, Recorded
      <3> QED
        BY <1>3, <3>1, <3>2, FinishEffect
    <2> QED
      BY <2>1 DEF Recorded
  <1>7. IsSeq(trace') /\ sequence' \in Nat
    BY <1>3, FinishEffect DEF Types
  <1> QED
    BY <1>5, <1>6, <1>7

LEMMA BeginShape ==
    ASSUME Shaped, NEW t \in Task, NEW s, Lower(s), NEW c, Asked(c),
           s # <<>> => Nests(s[1].call.tool, c.tool), Begin(t, s, c)
    PROVE  Stacks' /\ task' = [u \in Task |-> task'[u]]
  <1>1. CASE Become(t, Deliver(s, c, FALSE))
    <2>1. Stack(Deliver(s, c, FALSE))
      BY DeliverLower DEF Lower
    <2> QED
      BY <1>1, <2>1, Becomes DEF Shaped, Stacks
  <1>2. CASE Become(t, <<Frame(c)>> \o s)
    <2>1. Stack(<<Frame(c)>> \o s)
      BY FrameShape, PushStack
    <2> QED
      BY <1>2, <2>1, Becomes DEF Shaped, Stacks
  <1> QED
    BY <1>1, <1>2 DEF Begin
LEMMA TopFacts ==
    ASSUME Stacks, NEW t \in Task, task[t] # <<>>
    PROVE  /\ Stack(task[t]) /\ Head(task[t]) = task[t][1]
           /\ FrameOK(task[t][1]) /\ Asked(task[t][1].call)
           /\ Lower(Tail(task[t]))
  <1>1. Stack(task[t])
    BY DEF Stacks
  <1>2. Head(task[t]) = task[t][1] /\ 1 \in 1 .. Len(task[t])
    BY <1>1, IsSeqTail, IsSeqFacts DEF Stack
  <1> QED
    BY <1>1, <1>2, TailLower DEF Stack, FrameOK

(* Off the library, shape is kept by what keeps the stacks and the trace.   *)
LEMMA ShapeKept ==
    ASSUME Shaped, Stacks', Recorded', task' = [u \in Task |-> task'[u]],
           IsSeq(trace'), sequence' \in Nat, IsSeq(acts'), patrol' \in BOOLEAN, library' = library
    PROVE  Shaped'
  <1>1. Types'
    BY DEF Shaped, Types
  <1>2. Skills'
    BY DEF Shaped, Skills
  <1> QED
    BY <1>1, <1>2 DEF Shaped

LEMMA RequestShape == ASSUME Shaped, NEW t \in Task, NEW c \in Call, Request(t, c) PROVE Shaped'
  <1>1. Asked(c)
    BY CallAssumption DEF Asked
  <1>2. Stacks' /\ task' = [u \in Task |-> task'[u]]
    BY <1>1, EmptyStack, BeginShape DEF Request
  <1>3. UNCHANGED <<trace, sequence, library, patrol, acts>>
    BY DEF Request
  <1>4. Recorded' /\ IsSeq(trace') /\ sequence' \in Nat /\ IsSeq(acts')
    BY <1>3 DEF Shaped, Types, Recorded
  <1>5. patrol' \in BOOLEAN
    BY <1>3 DEF Shaped, Types
  <1> QED
    BY <1>2, <1>3, <1>4, <1>5, ShapeKept

(* The step a composite dispatch makes next, and where it makes it.         *)
LEMMA NextStep ==
    ASSUME Stacks, NEW t \in Task, Top(t, Composite), Head(task[t]).todo # <<>>
    PROVE  /\ Lower(Stepped(task[t])) /\ Stepped(task[t]) # <<>>
           /\ Stepped(task[t])[1].call = Head(task[t]).call
           /\ Named(Head(Head(task[t]).todo))
           /\ ~(Head(task[t]).call.tool = "batch" /\ Head(Head(task[t]).todo).tool = "batch") =>
                 /\ Asked(Head(Head(task[t]).todo))
                 /\ Nests(Head(task[t]).call.tool, Head(Head(task[t]).todo).tool)
  <1>1. Stack(task[t]) /\ task[t] # <<>> /\ Head(task[t]).call.tool \in Composite
    BY DEF Stacks, Top
  <1> DEFINE s == task[t]
  <1>2. /\ Lower(Stepped(s)) /\ Stepped(s) # <<>>
        /\ Stepped(s)[1].call = Head(s).call
        /\ Head(s) = s[1] /\ FrameOK(s[1])
        /\ Head(Head(s).todo) = s[1].todo[1] /\ 1 \in 1 .. Len(s[1].todo)
    BY <1>1, StepLower
  <1> DEFINE c == s[1].todo[1]
  <1>3. /\ Named(c)
        /\ s[1].call.tool = "replay" => Asked(c) /\ c.tool # "replay"
        /\ Plain /\ s[1].call.tool = "batch" => c.tool # "replay"
    BY <1>2 DEF FrameOK
  <1>4. ASSUME ~(s[1].call.tool = "batch" /\ c.tool = "batch")
        PROVE  Asked(c) /\ Nests(s[1].call.tool, c.tool)
    <2>1. s[1].call.tool \in Composite
      BY <1>1, <1>2
    <2> HIDE DEF c, s, Plain
    <2>2. CASE s[1].call.tool = "batch"
      BY <1>3, <1>4, <2>2, <2>1 DEF Asked, Nests
    <2>3. CASE s[1].call.tool = "replay"
      BY <1>3, <1>4, <2>3, <2>1 DEF Nests
    <2> QED
      BY <2>1, <2>2, <2>3 DEF Composite
  <1> HIDE DEF Plain
  <1> QED
    BY <1>2, <1>3, <1>4

LEMMA StepShape == ASSUME Shaped, NEW t \in Task, Step(t) PROVE Shaped'
  <1> DEFINE top == Head(task[t])
             c == Head(top.todo)
             s == Stepped(task[t])
  <1>1. /\ Top(t, Composite) /\ top.todo # <<>>
        /\ IF top.call.tool = "batch" /\ c.tool = "batch"
           THEN Become(t, Deliver(s, c, FALSE)) ELSE Begin(t, s, c)
    BY DEF Step, Stepped
  <1>2. /\ Lower(s) /\ s # <<>> /\ s[1].call = top.call
        /\ ~(top.call.tool = "batch" /\ c.tool = "batch") => Asked(c) /\ Nests(top.call.tool, c.tool)
    BY <1>1, NextStep DEF Shaped
  <1> HIDE DEF top, c, s
  <1>3. Stacks' /\ task' = [u \in Task |-> task'[u]]
    <2>1. CASE top.call.tool = "batch" /\ c.tool = "batch"
      <3>1. Stack(Deliver(s, c, FALSE)) /\ Become(t, Deliver(s, c, FALSE))
        BY <1>1, <1>2, <2>1, DeliverLower DEF Lower
      <3> QED
        BY <3>1, Becomes DEF Shaped, Stacks
    <2>2. CASE ~(top.call.tool = "batch" /\ c.tool = "batch")
      BY <1>1, <1>2, <2>2, BeginShape
    <2> QED
      BY <2>1, <2>2
  <1>4. UNCHANGED <<trace, sequence, library, patrol, acts>>
    BY DEF Step
  <1>5. Recorded' /\ IsSeq(trace') /\ sequence' \in Nat /\ IsSeq(acts')
    BY <1>4 DEF Shaped, Types, Recorded
  <1>6. patrol' \in BOOLEAN
    BY <1>4 DEF Shaped, Types
  <1> QED
    BY <1>3, <1>4, <1>5, <1>6, ShapeKept

LEMMA AnswerShape == ASSUME Shaped, NEW t \in Task, NEW ok \in BOOLEAN, Answer(t, ok) PROVE Shaped'
  <1>1. task[t] # <<>> /\ Finish(t, ok)
    BY DEF Answer, Top
  <1>2. Stacks' /\ Recorded' /\ IsSeq(trace') /\ sequence' \in Nat /\ task' = [u \in Task |-> task'[u]]
    BY <1>1, FinishShape
  <1>3. IsSeq(acts')
    BY IsSeqAppend DEF Answer, Shaped, Types
  <1>4. patrol' \in BOOLEAN
    BY DEF Answer, Shaped, Types
  <1>5. library' = library
    BY DEF Answer
  <1> QED
    BY <1>2, <1>3, <1>4, <1>5, ShapeKept

LEMMA LookedShape == ASSUME Shaped, NEW t \in Task, NEW ok \in BOOLEAN, Looked(t, ok) PROVE Shaped'
  <1>1. task[t] # <<>> /\ Finish(t, ok) /\ UNCHANGED <<library, patrol, acts>>
    BY DEF Looked, Top
  <1>2. Stacks' /\ Recorded' /\ IsSeq(trace') /\ sequence' \in Nat /\ task' = [u \in Task |-> task'[u]]
    BY <1>1, FinishShape
  <1>3. IsSeq(acts')
    BY <1>1 DEF Shaped, Types
  <1>4. patrol' \in BOOLEAN
    BY <1>1 DEF Shaped, Types
  <1> QED
    BY <1>1, <1>2, <1>3, <1>4, ShapeKept

LEMMA RaiseShape == ASSUME Shaped, NEW t \in Task, Raise(t) PROVE Shaped'
  <1>1. Become(t, <<>>) /\ UNCHANGED <<trace, sequence, library, patrol, acts>>
    BY DEF Raise
  <1>2. Stacks' /\ task' = [u \in Task |-> task'[u]]
    BY <1>1, EmptyStack, Becomes DEF Shaped, Stacks
  <1>3. Recorded' /\ IsSeq(trace') /\ sequence' \in Nat /\ IsSeq(acts')
    BY <1>1 DEF Shaped, Types, Recorded
  <1>4. patrol' \in BOOLEAN
    BY <1>1 DEF Shaped, Types
  <1> QED
    BY <1>1, <1>2, <1>3, <1>4, ShapeKept

LEMMA CompleteShape == ASSUME Shaped, NEW t \in Task, Complete(t) PROVE Shaped'
  <1>1. UNCHANGED <<library, patrol, acts>> /\ task[t] # <<>> /\ \E ok : Finish(t, ok)
    BY DEF Complete, Top
  <1>2. Stacks' /\ Recorded' /\ IsSeq(trace') /\ sequence' \in Nat /\ task' = [u \in Task |-> task'[u]]
    BY <1>1, FinishShape
  <1>3. IsSeq(acts')
    BY <1>1 DEF Shaped, Types
  <1>4. patrol' \in BOOLEAN
    BY <1>1 DEF Shaped, Types
  <1> QED
    BY <1>1, <1>2, <1>3, <1>4, ShapeKept

(* What is promoted are calls the trace recorded, and no replay.            *)
Kept(c) == Only(trace, {trace[i] : i \in {i \in DOMAIN trace : Eligible(c, trace[i])}})

LEMMA PromotedShape ==
    ASSUME Shaped, NEW c PROVE Learnt(Calls(Kept(c)))
  <1> DEFINE R == {trace[i] : i \in DOMAIN trace}
             S == {trace[i] : i \in {i \in DOMAIN trace : Eligible(c, trace[i])}}
             K == {e \in R : e \in S}
  <1>1. Kept(c) \in Seq(K)
    <2>1. trace \in Seq(R)
      BY DEF Shaped, Types, IsSeq
    <2> QED
      BY <2>1, OnlyFrom DEF Kept
  <1>2. ASSUME NEW e \in K PROVE Asked(e.call) /\ e.call.tool # "replay"
    <2>1. PICK i \in DOMAIN trace : e = trace[i] /\ Eligible(c, trace[i])
      OBVIOUS
    <2>2. i \in 1 .. Len(trace)
      BY IsSeqFacts DEF Shaped, Types
    <2> QED
      BY <2>1, <2>2 DEF Shaped, Recorded, Eligible, Promotable
  <1> HIDE DEF K
  <1> DEFINE kept == Kept(c)
  <1>3. Len(kept) \in Nat /\ DOMAIN kept = 1 .. Len(kept) /\ \A i \in 1 .. Len(kept) : kept[i] \in K
    BY <1>1, LenProperties, ElementOfSeq
  <1> HIDE DEF kept
  <1> DEFINE calls == [i \in 1 .. Len(kept) |-> kept[i].call]
  <1>4. Calls(kept) = calls
    BY <1>3 DEF Calls
  <1>5. calls \in Seq({calls[i] : i \in 1 .. Len(kept)})
    <2>1. calls \in [1 .. Len(kept) -> {calls[i] : i \in 1 .. Len(kept)}]
      OBVIOUS
    <2> QED
      BY <1>3, <2>1, SeqDef
  <1>6. IsSeq(calls) /\ Len(calls) = Len(kept)
    <2>1. IsSeq(calls)
      BY <1>5, SeqIsSeq
    <2>2. DOMAIN calls = 1 .. Len(kept)
      OBVIOUS
    <2>3. Len(calls) \in Nat /\ DOMAIN calls = 1 .. Len(calls)
      BY <2>1, IsSeqFacts
    <2> HIDE DEF calls
    <2> QED
      BY <1>3, <2>1, <2>2, <2>3
  <1>7. \A i \in 1 .. Len(calls) : Asked(calls[i]) /\ calls[i].tool # "replay"
    BY <1>2, <1>3, <1>6
  <1> QED
    BY <1>4, <1>6, <1>7 DEF Learnt, kept

LEMMA PromoteShape == ASSUME Shaped, NEW t \in Task, PromoteSequence(t) PROVE Shaped'
  <1> DEFINE c == Head(task[t]).call
  <1>1. /\ task[t] # <<>> /\ c.tool = "promote"
        /\ Finish(t, Kept(c) # <<>>)
        /\ UNCHANGED <<patrol, acts>>
        /\ \/ library' = library
           \/ library' = [library EXCEPT ![c.skill] = Calls(Kept(c))]
    BY DEF PromoteSequence, Top, Kept
  <1>2. Stacks' /\ Recorded' /\ IsSeq(trace') /\ sequence' \in Nat /\ task' = [u \in Task |-> task'[u]]
    BY <1>1, FinishShape
  <1>3. IsSeq(acts')
    BY <1>1 DEF Shaped, Types
  <1>4. patrol' \in BOOLEAN
    BY <1>1 DEF Shaped, Types
  <1>5. c.skill \in Skill
    BY <1>1, TopFacts DEF Shaped, Asked, Named
  <1>6. Learnt(Calls(Kept(c)))
    BY PromotedShape
  <1> HIDE DEF c
  <1>7. library' = [k \in Skill |-> library'[k]] /\ Skills'
    <2>1. CASE library' = library
      BY <2>1 DEF Shaped, Types, Skills
    <2>2. CASE library' = [library EXCEPT ![c.skill] = Calls(Kept(c))]
      <3>1. library' = [k \in Skill |-> IF k = c.skill THEN Calls(Kept(c)) ELSE library[k]]
        BY <1>5, <2>2 DEF Shaped, Types
      <3>2. \A k \in Skill : library'[k] = IF k = c.skill THEN Calls(Kept(c)) ELSE library[k]
        BY <3>1
      <3> QED
        BY <1>6, <3>1, <3>2 DEF Shaped, Skills
    <2> QED
      BY <1>1, <2>1, <2>2
  <1>8. Types'
    BY <1>2, <1>3, <1>4, <1>7 DEF Types
  <1> QED
    BY <1>2, <1>7, <1>8 DEF Shaped

LEMMA InitShape == Init => Shaped
  <1> SUFFICES ASSUME Init PROVE Shaped
    OBVIOUS
  <1>1. IsSeq(<<>>) /\ Len(<<>>) = 0
    BY DEF IsSeq
  <1>2. Learnt(<<>>)
    BY <1>1 DEF Learnt
  <1>3. Types
    BY <1>1 DEF Init, Types
  <1>4. Stacks
    BY EmptyStack DEF Init, Stacks
  <1>5. Recorded /\ Skills
    BY <1>1, <1>2 DEF Init, Recorded, Skills
  <1> QED
    BY <1>3, <1>4, <1>5 DEF Shaped

LEMMA ShapeStep == Shaped /\ [Next]_vars => Shaped'
  <1> SUFFICES ASSUME Shaped, [Next]_vars PROVE Shaped'
    OBVIOUS
  <1>1. ASSUME NEW t \in Task, NEW c \in Call, Request(t, c) PROVE Shaped'
    BY <1>1, RequestShape
  <1>2. ASSUME NEW t \in Task, Progress(t) PROVE Shaped'
    BY <1>2, StepShape, PromoteShape, CompleteShape, RaiseShape, AnswerShape, LookedShape DEF Progress
  <1>3. ASSUME UNCHANGED vars PROVE Shaped'
    <2>1. UNCHANGED <<task, trace, sequence, library, patrol, acts>>
      BY <1>3 DEF vars
    <2>2. Stacks' /\ Recorded' /\ Skills' /\ task' = [u \in Task |-> task'[u]]
      BY <2>1 DEF Shaped, Stacks, Recorded, Skills, Types
    <2>3. IsSeq(trace') /\ sequence' \in Nat /\ IsSeq(acts')
      BY <2>1 DEF Shaped, Types
    <2>4. patrol' \in BOOLEAN
      BY <2>1 DEF Shaped, Types
    <2> QED
      BY <2>1, <2>2, <2>3, <2>4, ShapeKept
  <1> QED
    BY <1>1, <1>2, <1>3 DEF Next
-----------------------------------------------------------------------------
(* NestingBound: three composite dispatches do not nest.                    *)
LEMMA ThreeHigh ==
    ASSUME Plain, NEW s, Stack(s) PROVE Len(s) <= 3
  <1> SUFFICES ASSUME ~(Len(s) <= 3) PROVE FALSE
    OBVIOUS
  <1>1. Len(s) \in Nat
    BY IsSeqFacts DEF Stack
  <1>2. 1 \in 1 .. Len(s) - 1 /\ 2 \in 1 .. Len(s) - 1 /\ 3 \in 1 .. Len(s) - 1
    BY <1>1
  <1>3. Nests(s[2].call.tool, s[1].call.tool) /\ Nests(s[3].call.tool, s[2].call.tool)
         /\ Nests(s[4].call.tool, s[3].call.tool)
    BY <1>2 DEF Stack
  <1> HIDE DEF Plain
  <1> QED
    BY <1>3 DEF Nests, Composite

(* Replays nest in nothing but the request and batches in replays, for any  *)
(* number of requests, calls and skills, as long as the agent puts no       *)
(* replay into a batch (a skill may hold a batch, and so its own replay).   *)
THEOREM NestingBounded == ASSUME Plain PROVE Spec => []NestingBound
  <1>1. Init => Shaped
    BY InitShape
  <1>2. Shaped /\ [Next]_vars => Shaped'
    BY ShapeStep
  <1>3. Shaped => NestingBound
    BY ThreeHigh DEF Shaped, Stacks, NestingBound
  <1>4. Spec => []Shaped
    BY <1>1, <1>2, PTL DEF Spec
  <1> QED
    BY <1>3, <1>4, PTL
-----------------------------------------------------------------------------
(* TapsInFlight.  While the guard is on, the taps that succeeded since and  *)
(* those still in flight are fewer than the requests: the request that      *)
(* switched it on was in flight with something else.                        *)
Tapping(s) == s # <<>> /\ s[1].call.tool = "act" /\ s[1].call.act \in Guarded
InFlight == {t \in Task : Tapping(task[t])}
Tapped == {i \in SinceOn : acts[i] \in Guarded}
Watched ==
    /\ ~patrol => SinceOn = {}
    /\ patrol => Cardinality(Tapped) + Cardinality(InFlight) < Cardinality(Task)

LEMMA LowerNotTapping == ASSUME NEW s, Lower(s) PROVE ~Tapping(s)
  BY DEF Lower, Tapping, Composite

LEMMA FiniteTaps ==
    ASSUME Types
    PROVE  IsFiniteSet(SinceOn) /\ IsFiniteSet(Tapped) /\ IsFiniteSet(InFlight)
  <1>1. DOMAIN acts = 1 .. Len(acts) /\ Len(acts) \in Nat
    BY IsSeqFacts DEF Types
  <1>2. IsFiniteSet(1 .. Len(acts))
    BY <1>1, FS_Interval
  <1>3. SinceOn \subseteq 1 .. Len(acts) /\ Tapped \subseteq 1 .. Len(acts)
    BY <1>1 DEF SinceOn, Tapped
  <1>4. InFlight \subseteq Task
    BY DEF InFlight
  <1> QED
    BY <1>2, <1>3, <1>4, TaskAssumption, FS_Subset

(* A step that only moves stacks, and pushes no tap while the guard is on.  *)
LEMMA WatchedKept ==
    ASSUME Types, Watched, UNCHANGED <<acts, patrol>>, patrol => InFlight' \subseteq InFlight
    PROVE  Watched'
  <1>1. SinceOn' = SinceOn /\ Tapped' = Tapped /\ patrol' = patrol
    BY DEF SinceOn, Tapped
  <1>2. ASSUME patrol
        PROVE  Cardinality(InFlight') <= Cardinality(InFlight) /\ Cardinality(InFlight') \in Nat
                /\ Cardinality(InFlight) \in Nat
    <2>1. IsFiniteSet(InFlight) /\ InFlight' \in SUBSET InFlight
      BY <1>2, FiniteTaps
    <2> QED
      BY <2>1, FS_Subset, FS_CardinalityType
  <1>3. Cardinality(Tapped) \in Nat /\ Cardinality(Task) \in Nat
    BY FiniteTaps, FS_CardinalityType, TaskAssumption
  <1> HIDE DEF InFlight, Tapped, SinceOn
  <1>4. ~patrol' => SinceOn' = {}
    BY <1>1 DEF Watched
  <1>5. patrol' => Cardinality(Tapped') + Cardinality(InFlight') < Cardinality(Task)
    BY <1>1, <1>2, <1>3 DEF Watched
  <1> QED
    BY <1>4, <1>5 DEF Watched

LEMMA BeginTaps ==
    ASSUME Shaped, NEW t \in Task, NEW s, Lower(s), NEW c, Asked(c), Begin(t, s, c), patrol
    PROVE  InFlight' \subseteq InFlight
  <1>1. ~Tapping(task'[t])
    <2>1. CASE Become(t, Deliver(s, c, FALSE))
      BY <2>1, DeliverLower, LowerNotTapping, Becomes DEF Shaped
    <2>2. CASE ~Refused(c, s) /\ Become(t, <<Frame(c)>> \o s)
      <3>1. task'[t] = <<Frame(c)>> \o s
        BY <2>2, Becomes DEF Shaped
      <3>2. (<<Frame(c)>> \o s)[1] = Frame(c)
        BY IsSeqPush DEF Lower, Stack
      <3>3. ~(c.tool = "act" /\ c.act \in Guarded)
        BY <2>2 DEF Refused
      <3> QED
        BY <3>1, <3>2, <3>3, FrameShape DEF Tapping
    <2> QED
      BY <2>1, <2>2 DEF Begin
  <1>2. \A u \in Task \ {t} : task'[u] = task[u]
    <2>1. CASE Become(t, Deliver(s, c, FALSE))
      BY <2>1, Becomes DEF Shaped
    <2>2. CASE Become(t, <<Frame(c)>> \o s)
      BY <2>2, Becomes DEF Shaped
    <2> QED
      BY <2>1, <2>2 DEF Begin
  <1> QED
    BY <1>1, <1>2 DEF InFlight

LEMMA MoveTaps ==
    ASSUME Shaped, NEW t \in Task, NEW s, Lower(s), Become(t, s)
    PROVE  InFlight' = InFlight \ {t}
  <1>1. ~Tapping(task'[t]) /\ \A u \in Task \ {t} : task'[u] = task[u]
    BY LowerNotTapping, Becomes DEF Shaped
  <1> QED
    BY <1>1 DEF InFlight

LEMMA FinishTaps ==
    ASSUME Shaped, NEW t \in Task, NEW ok, task[t] # <<>>, Finish(t, ok)
    PROVE  InFlight' = InFlight \ {t}
  <1>1. Lower(Deliver(Tail(task[t]), Head(task[t]).call, ok))
    BY TopFacts, DeliverLower DEF Shaped
  <1>2. Become(t, Deliver(Tail(task[t]), Head(task[t]).call, ok))
    BY DEF Finish
  <1> QED
    BY <1>1, <1>2, MoveTaps

LEMMA StepTaps ==
    ASSUME Shaped, NEW t \in Task, Step(t), patrol PROVE InFlight' \subseteq InFlight
  <1> DEFINE top == Head(task[t])
             c == Head(top.todo)
             s == Stepped(task[t])
  <1>1. /\ Top(t, Composite) /\ top.todo # <<>>
        /\ IF top.call.tool = "batch" /\ c.tool = "batch"
           THEN Become(t, Deliver(s, c, FALSE)) ELSE Begin(t, s, c)
    BY DEF Step, Stepped
  <1>2. /\ Lower(s)
        /\ ~(top.call.tool = "batch" /\ c.tool = "batch") => Asked(c)
    BY <1>1, NextStep DEF Shaped
  <1> HIDE DEF top, c, s
  <1>3. CASE top.call.tool = "batch" /\ c.tool = "batch"
    BY <1>1, <1>2, <1>3, DeliverLower, MoveTaps
  <1>4. CASE ~(top.call.tool = "batch" /\ c.tool = "batch")
    BY <1>1, <1>2, <1>4, BeginTaps
  <1> QED
    BY <1>3, <1>4

(* The acts since the guard was switched on, when one more act succeeds.    *)
LEMMA OneMoreAct ==
    ASSUME Types, NEW a, acts' = Append(acts, a)
    PROVE  /\ SinceOn' \subseteq SinceOn \cup {Len(acts) + 1}
           /\ a \in Deactivating => SinceOn' = {}
           /\ SinceOn = {} /\ a \notin Activating => SinceOn' = {}
           /\ \A i \in SinceOn : acts'[i] = acts[i]
           /\ acts'[Len(acts) + 1] = a
           /\ Len(acts) + 1 \notin SinceOn
  <1> DEFINE n == Len(acts)
  <1>1. /\ n \in Nat /\ DOMAIN acts = 1 .. n
        /\ DOMAIN acts' = 1 .. n + 1 /\ Len(acts') = n + 1
        /\ \A i \in 1 .. n : acts'[i] = acts[i]
        /\ acts'[n + 1] = a
    BY IsSeqFacts, IsSeqAppend DEF Types
  <1> HIDE DEF n
  <1>2. ASSUME NEW i \in SinceOn', i # n + 1 PROVE i \in SinceOn
    <2>1. i \in 1 .. n
      BY <1>1, <1>2 DEF SinceOn
    <2>2. PICK j \in 1 .. i : acts'[j] \in Activating /\ \A m \in j .. n + 1 : acts'[m] \notin Deactivating
      BY <1>1, <1>2 DEF SinceOn
    <2>3. j \in 1 .. n /\ \A m \in j .. n : m \in 1 .. n /\ m \in j .. n + 1
      BY <1>1, <2>1
    <2>4. acts[j] \in Activating /\ \A m \in j .. n : acts[m] \notin Deactivating
      BY <1>1, <2>2, <2>3
    <2> QED
      BY <1>1, <2>1, <2>4 DEF SinceOn, n
  <1>3. ASSUME a \in Deactivating, NEW i \in SinceOn' PROVE FALSE
    <2>1. i \in 1 .. n + 1
      BY <1>1, <1>3 DEF SinceOn
    <2>2. PICK j \in 1 .. i : \A m \in j .. n + 1 : acts'[m] \notin Deactivating
      BY <1>1, <1>3 DEF SinceOn
    <2>3. n + 1 \in j .. n + 1
      BY <1>1, <2>1
    <2> QED
      BY <1>1, <1>3, <2>2, <2>3
  <1>4. ASSUME SinceOn = {}, a \notin Activating, NEW i \in SinceOn' PROVE FALSE
    <2>1. i = n + 1
      BY <1>2, <1>4
    <2>2. PICK j \in 1 .. i : acts'[j] \in Activating /\ \A m \in j .. n + 1 : acts'[m] \notin Deactivating
      BY <1>1, <1>4 DEF SinceOn
    <2>3. j \in 1 .. n
      BY <1>1, <1>4, <2>1, <2>2
    <2>4. j \in SinceOn'
      <3>1. j \in DOMAIN acts' /\ j \in 1 .. j
        BY <1>1, <2>3
      <3> QED
        BY <1>1, <2>2, <3>1 DEF SinceOn
    <2>5. j # n + 1
      BY <1>1, <2>3
    <2> QED
      BY <1>2, <1>4, <2>4, <2>5
  <1>5. SinceOn \subseteq 1 .. n
    BY <1>1 DEF SinceOn
  <1>6. n + 1 \notin 1 .. n
    BY <1>1
  <1>7. SinceOn' \subseteq SinceOn \cup {n + 1}
    BY <1>2
  <1>8. /\ a \in Deactivating => SinceOn' = {}
        /\ SinceOn = {} /\ a \notin Activating => SinceOn' = {}
    BY <1>3, <1>4
  <1>9. \A i \in SinceOn : acts'[i] = acts[i]
    BY <1>1, <1>5
  <1> HIDE DEF SinceOn
  <1> QED
    BY <1>1, <1>5, <1>6, <1>7, <1>8, <1>9 DEF n

LEMMA AnswerTaps ==
    ASSUME Shaped, Watched, NEW t \in Task, NEW ok \in BOOLEAN, Answer(t, ok) PROVE Watched'
  <1> DEFINE a == Head(task[t]).call.act
  <1>1. /\ task[t] # <<>> /\ Head(task[t]).call.tool = "act" /\ Finish(t, ok)
        /\ acts' = IF ok THEN Append(acts, a) ELSE acts
        /\ patrol' = (IF ok /\ a \in Activating THEN TRUE
                      ELSE IF ok /\ a \in Deactivating THEN FALSE ELSE patrol)
    BY DEF Answer, Top
  <1>2. InFlight' = InFlight \ {t}
    BY <1>1, FinishTaps
  <1>3. a \in Guarded => t \in InFlight
    BY <1>1, TopFacts DEF InFlight, Tapping, Shaped
  <1>4. IsFiniteSet(InFlight) /\ IsFiniteSet(Tapped) /\ IsFiniteSet(Task) /\ Types
    BY FiniteTaps, TaskAssumption DEF Shaped
  <1>5. /\ Cardinality(InFlight') = IF t \in InFlight THEN Cardinality(InFlight) - 1 ELSE Cardinality(InFlight)
        /\ IsFiniteSet(InFlight')
    BY <1>2, <1>4, FS_RemoveElement
  <1>6. Cardinality(InFlight') \in Nat /\ Cardinality(InFlight) \in Nat /\ Cardinality(Tapped) \in Nat
         /\ Cardinality(Task) \in Nat
    BY <1>4, <1>5, FS_CardinalityType
  <1>7. Cardinality(InFlight') < Cardinality(Task)
    <2>1. InFlight' \subseteq Task /\ InFlight' # Task
      BY <1>2 DEF InFlight
    <2> QED
      BY <1>4, <1>6, <2>1, FS_Subset
  <1> HIDE DEF a
  <1>8. CASE ~ok
    <2>1. UNCHANGED <<acts, patrol>>
      BY <1>1, <1>8
    <2>2. InFlight' \subseteq InFlight
      BY <1>2
    <2> QED
      BY <1>4, <2>1, <2>2, WatchedKept
  <1>9. CASE ok
    <2>1. acts' = Append(acts, a)
      BY <1>1, <1>9
    <2>2. /\ SinceOn' \subseteq SinceOn \cup {Len(acts) + 1}
          /\ a \in Deactivating => SinceOn' = {}
          /\ SinceOn = {} /\ a \notin Activating => SinceOn' = {}
          /\ \A i \in SinceOn : acts'[i] = acts[i]
          /\ acts'[Len(acts) + 1] = a
          /\ Len(acts) + 1 \notin SinceOn
      BY <1>4, <2>1, OneMoreAct
    <2>3. /\ Tapped' \subseteq Tapped \cup {Len(acts) + 1}
          /\ a \notin Guarded => Tapped' \subseteq Tapped
          /\ SinceOn' = {} => Tapped' = {}
          /\ SinceOn = {} => Tapped = {}
      <3> HIDE DEF SinceOn
      <3> QED
        BY <2>2 DEF Tapped
    <2>4. /\ IsFiniteSet(Tapped') /\ Cardinality(Tapped') \in Nat
          /\ Cardinality(Tapped') <= Cardinality(Tapped) + 1
          /\ a \notin Guarded => Cardinality(Tapped') <= Cardinality(Tapped)
      <3>1. /\ IsFiniteSet(Tapped \cup {Len(acts) + 1})
            /\ Cardinality(Tapped \cup {Len(acts) + 1}) <= Cardinality(Tapped) + 1
            /\ Cardinality(Tapped \cup {Len(acts) + 1}) \in Nat
        <4> HIDE DEF Tapped
        <4>1. /\ IsFiniteSet(Tapped \cup {Len(acts) + 1})
              /\ Cardinality(Tapped \cup {Len(acts) + 1}) =
                    IF Len(acts) + 1 \in Tapped THEN Cardinality(Tapped) ELSE Cardinality(Tapped) + 1
          BY <1>4, FS_AddElement
        <4> QED
          BY <1>6, <4>1
      <3>2. IsFiniteSet(Tapped') /\ Cardinality(Tapped') <= Cardinality(Tapped \cup {Len(acts) + 1})
        BY <2>3, <3>1, FS_Subset
      <3>3. Cardinality(Tapped') \in Nat
        BY <3>2, FS_CardinalityType
      <3>4. a \notin Guarded => Cardinality(Tapped') <= Cardinality(Tapped)
        BY <1>4, <2>3, FS_Subset
      <3> QED
        BY <1>6, <3>1, <3>2, <3>3, <3>4
    <2>5. Cardinality({}) = 0
      BY FS_EmptySet
    <2> HIDE DEF SinceOn, Tapped, InFlight
    <2>6. CASE a \in Activating /\ ~patrol
      <3>1. a \notin Guarded /\ Tapped = {} /\ patrol'
        BY <1>1, <1>9, <2>3, <2>6, GuardAssumption DEF Watched, Guarded
      <3>2. Cardinality(Tapped') = 0
        BY <2>4, <2>5, <3>1
      <3> QED
        BY <1>6, <1>7, <3>1, <3>2 DEF Watched
    <2>7. CASE a \in Activating /\ patrol
      <3>1. a \notin Guarded /\ patrol'
        BY <1>1, <1>9, <2>7, GuardAssumption DEF Guarded
      <3>2. Cardinality(InFlight') <= Cardinality(InFlight)
        BY <1>5, <1>6
      <3>3. Cardinality(Tapped) + Cardinality(InFlight) < Cardinality(Task)
        BY <2>7 DEF Watched
      <3> QED
        BY <1>6, <2>4, <3>1, <3>2, <3>3 DEF Watched
    <2>8. CASE a \notin Activating /\ a \in Deactivating
      BY <1>1, <1>9, <2>2, <2>8 DEF Watched
    <2>9. CASE a \notin Activating /\ a \notin Deactivating /\ ~patrol
      BY <1>1, <1>9, <2>2, <2>9 DEF Watched
    <2>10. CASE a \notin Activating /\ a \notin Deactivating /\ patrol
      <3>1. patrol'
        BY <1>1, <1>9, <2>10
      <3>2. Cardinality(Tapped) + Cardinality(InFlight) < Cardinality(Task)
        BY <2>10 DEF Watched
      <3>3. Cardinality(Tapped') + Cardinality(InFlight') < Cardinality(Task)
        BY <1>3, <1>5, <1>6, <2>4, <3>2
      <3> QED
        BY <3>1, <3>3 DEF Watched
    <2> QED
      BY <2>6, <2>7, <2>8, <2>9, <2>10
  <1> QED
    BY <1>8, <1>9

LEMMA WatchedStep == Shaped /\ Watched /\ [Next]_vars => Watched'
  <1> SUFFICES ASSUME Shaped, Watched, [Next]_vars PROVE Watched'
    OBVIOUS
  <1> USE DEF Shaped
  <1>1. ASSUME NEW t \in Task, NEW c \in Call, Request(t, c) PROVE Watched'
    <2>1. Asked(c)
      BY CallAssumption DEF Asked
    <2>2. Begin(t, <<>>, c) /\ UNCHANGED <<acts, patrol>>
      BY <1>1 DEF Request
    <2> QED
      BY <2>1, <2>2, EmptyStack, BeginTaps, WatchedKept
  <1>2. ASSUME NEW t \in Task, Step(t) PROVE Watched'
    <2>1. UNCHANGED <<acts, patrol>>
      BY <1>2 DEF Step
    <2> QED
      BY <1>2, <2>1, StepTaps, WatchedKept
  <1>3. ASSUME NEW t \in Task, Raise(t) PROVE Watched'
    <2>1. UNCHANGED <<acts, patrol>> /\ Become(t, <<>>)
      BY <1>3 DEF Raise
    <2>2. InFlight' = InFlight \ {t}
      BY <2>1, EmptyStack, MoveTaps
    <2> QED
      BY <2>1, <2>2, WatchedKept
  <1>4. ASSUME NEW t \in Task, PromoteSequence(t) \/ Complete(t) \/ \E ok \in BOOLEAN : Looked(t, ok)
        PROVE  Watched'
    <2>1. UNCHANGED <<acts, patrol>> /\ task[t] # <<>> /\ \E ok : Finish(t, ok)
      BY <1>4 DEF PromoteSequence, Complete, Looked, Top
    <2>2. InFlight' = InFlight \ {t}
      BY <2>1, FinishTaps
    <2> QED
      BY <2>1, <2>2, WatchedKept
  <1>5. CASE UNCHANGED vars
    <2>1. UNCHANGED <<acts, patrol>> /\ InFlight' = InFlight
      BY <1>5 DEF vars, InFlight
    <2> QED
      BY <2>1, WatchedKept
  <1>6. ASSUME NEW t \in Task, NEW ok \in BOOLEAN, Answer(t, ok) PROVE Watched'
    BY <1>6, AnswerTaps
  <1> HIDE DEF Shaped
  <1> QED
    BY <1>1, <1>2, <1>3, <1>4, <1>5, <1>6 DEF Next, Progress

LEMMA InitWatched == Init => Watched
  <1> SUFFICES ASSUME Init PROVE Watched
    OBVIOUS
  <1>1. acts = <<>> /\ patrol = FALSE /\ DOMAIN <<>> = {}
    BY DEF Init
  <1>2. SinceOn = {}
    BY <1>1 DEF SinceOn
  <1> QED
    BY <1>1, <1>2 DEF Watched

(* As long as the guard stays on at most one tap of each other request      *)
(* succeeds, for any number of requests and whatever nests in them.         *)
THEOREM TapsBounded == Spec => []TapsInFlight
  <1>1. Init => Shaped /\ Watched
    BY InitShape, InitWatched
  <1>2. Shaped /\ Watched /\ [Next]_vars => Shaped' /\ Watched'
    BY ShapeStep, WatchedStep
  <1>3. Shaped /\ Watched => TapsInFlight
    <2> SUFFICES ASSUME Shaped, Watched PROVE Cardinality(Tapped) < Cardinality(Task)
      BY DEF TapsInFlight, Tapped
    <2>1. /\ Cardinality(Tapped) \in Nat /\ Cardinality(InFlight) \in Nat
          /\ Cardinality(Task) \in Nat /\ Cardinality(Task) # 0
      BY FiniteTaps, FS_CardinalityType, FS_EmptySet, TaskAssumption DEF Shaped
    <2>2. CASE patrol
      <3> HIDE DEF Tapped, InFlight
      <3> QED
        BY <2>1, <2>2 DEF Watched
    <2>3. CASE ~patrol
      <3>1. Tapped = {}
        BY <2>3 DEF Watched, Tapped
      <3> HIDE DEF Tapped
      <3> QED
        BY <2>1, <3>1, FS_EmptySet
    <2> QED
      BY <2>2, <2>3
  <1> QED
    BY <1>1, <1>2, <1>3, PTL DEF Spec
-----------------------------------------------------------------------------
(* BatchHonest.  A batch of which all went well so far has made its first   *)
(* d steps; the trace tr holds them, in their order; the others, or with a  *)
(* step in flight those after it, are to be made.                           *)
Did(steps, d, tr) ==
    \E at \in [1 .. d -> 1 .. Len(tr)] :
        /\ \A m, n \in 1 .. d : m < n => at[m] < at[n]
        /\ \A m \in 1 .. d : tr[at[m]].ok /\ tr[at[m]].call = steps[m]

Told(f, tr) ==
    f.call.tool = "batch" /\ f.good =>
        \E d \in Nat : /\ d + Len(f.todo) = Len(f.call.steps)
                       /\ \A j \in 1 .. Len(f.todo) : f.todo[j] = f.call.steps[d + j]
                       /\ Did(f.call.steps, d, tr)

Waits(f, c, tr) ==
    f.call.tool = "batch" /\ f.good =>
        \E d \in Nat : /\ d + 1 + Len(f.todo) = Len(f.call.steps)
                       /\ \A j \in 1 .. Len(f.todo) : f.todo[j] = f.call.steps[d + 1 + j]
                       /\ f.call.steps[d + 1] = c
                       /\ Did(f.call.steps, d, tr)

Below(s, tr) == \A i \in 1 .. Len(s) - 1 : Waits(s[i + 1], s[i].call, tr)
Telling(s, tr) == Below(s, tr) /\ (s # <<>> => Told(s[1], tr))
Waiting(s, c, tr) == Below(s, tr) /\ (s # <<>> => Waits(s[1], c, tr))

LEMMA DidMore ==
    ASSUME NEW tr, IsSeq(tr), NEW e, NEW steps, NEW d \in Nat, Did(steps, d, tr)
    PROVE  /\ Did(steps, d, Append(tr, e))
           /\ e.ok /\ e.call = steps[d + 1] => Did(steps, d + 1, Append(tr, e))
  <1> DEFINE b == Append(tr, e)
  <1>1. /\ Len(tr) \in Nat /\ Len(b) = Len(tr) + 1 /\ b[Len(tr) + 1] = e
        /\ \A i \in 1 .. Len(tr) : b[i] = tr[i]
    BY IsSeqFacts, IsSeqAppend
  <1> HIDE DEF b
  <1>2. PICK at \in [1 .. d -> 1 .. Len(tr)] :
           /\ \A m, n \in 1 .. d : m < n => at[m] < at[n]
           /\ \A m \in 1 .. d : tr[at[m]].ok /\ tr[at[m]].call = steps[m]
    BY DEF Did
  <1>3. \A m \in 1 .. d : at[m] \in 1 .. Len(tr) /\ b[at[m]] = tr[at[m]]
    BY <1>1, <1>2
  <1>4. Did(steps, d, b)
    <2>1. at \in [1 .. d -> 1 .. Len(b)]
      BY <1>1, <1>2
    <2>2. \A m \in 1 .. d : b[at[m]].ok /\ b[at[m]].call = steps[m]
      BY <1>2, <1>3
    <2> QED
      BY <1>2, <2>1, <2>2 DEF Did
  <1>5. ASSUME e.ok, e.call = steps[d + 1] PROVE Did(steps, d + 1, b)
    <2> DEFINE to == [m \in 1 .. d + 1 |-> IF m = d + 1 THEN Len(tr) + 1 ELSE at[m]]
    <2>1. \A m \in 1 .. d + 1 : m = d + 1 \/ m \in 1 .. d
      OBVIOUS
    <2>2. to \in [1 .. d + 1 -> 1 .. Len(b)]
      BY <1>1, <1>3, <2>1
    <2>3. \A m \in 1 .. d : to[m] = at[m]
      OBVIOUS
    <2>4. to[d + 1] = Len(tr) + 1
      OBVIOUS
    <2> HIDE DEF to
    <2>5. ASSUME NEW m \in 1 .. d + 1, NEW n \in 1 .. d + 1, m < n PROVE to[m] < to[n]
      <3>1. m \in 1 .. d /\ (n = d + 1 \/ n \in 1 .. d)
        BY <2>1, <2>5
      <3> QED
        BY <1>1, <1>2, <1>3, <2>3, <2>4, <2>5, <3>1
    <2>6. ASSUME NEW m \in 1 .. d + 1 PROVE b[to[m]].ok /\ b[to[m]].call = steps[m]
      <3>1. CASE m = d + 1
        BY <1>1, <1>5, <2>4, <3>1
      <3>2. CASE m \in 1 .. d
        BY <1>2, <1>3, <2>3, <3>2
      <3> QED
        BY <2>1, <3>1, <3>2
    <2> QED
      BY <2>2, <2>5, <2>6 DEF Did
  <1> QED
    BY <1>4, <1>5 DEF b

LEMMA TellMore ==
    ASSUME NEW tr, IsSeq(tr), NEW e
    PROVE  /\ \A f : Told(f, tr) => Told(f, Append(tr, e))
           /\ \A f, c : Waits(f, c, tr) => Waits(f, c, Append(tr, e))
           /\ \A s : Telling(s, tr) => Telling(s, Append(tr, e))
           /\ \A s, c : Waiting(s, c, tr) => Waiting(s, c, Append(tr, e))
  <1>1. \A f : Told(f, tr) => Told(f, Append(tr, e))
    BY DidMore DEF Told
  <1>2. \A f, c : Waits(f, c, tr) => Waits(f, c, Append(tr, e))
    BY DidMore DEF Waits
  <1>3. \A s : Below(s, tr) => Below(s, Append(tr, e))
    BY <1>2 DEF Below
  <1> QED
    BY <1>1, <1>2, <1>3 DEF Telling, Waiting

LEMMA TailTells ==
    ASSUME NEW s, IsSeq(s), s # <<>>, NEW tr, Telling(s, tr)
    PROVE  Waiting(Tail(s), s[1].call, tr)
  <1>1. /\ IsSeq(Tail(s)) /\ Len(Tail(s)) = Len(s) - 1 /\ Len(s) \in Nat \ {0}
        /\ \A i \in 1 .. Len(s) - 1 : Tail(s)[i] = s[i + 1]
    BY IsSeqTail, IsSeqFacts
  <1>2. \A i \in 1 .. Len(s) - 1 : Waits(s[i + 1], s[i].call, tr)
    BY DEF Telling, Below
  <1>3. Below(Tail(s), tr)
    <2>1. ASSUME NEW i \in 1 .. Len(Tail(s)) - 1 PROVE Waits(Tail(s)[i + 1], Tail(s)[i].call, tr)
      <3>1. i \in 1 .. Len(s) - 1 /\ i + 1 \in 1 .. Len(s) - 1
        BY <1>1
      <3> QED
        BY <1>1, <1>2, <3>1
    <2> QED
      BY <2>1 DEF Below
  <1>4. ASSUME Tail(s) # <<>> PROVE Waits(Tail(s)[1], s[1].call, tr)
    <2>1. 1 \in 1 .. Len(s) - 1 /\ Len(Tail(s)) # 0
      BY <1>1, <1>4, IsSeqFacts
    <2> QED
      BY <1>1, <1>2, <2>1
  <1> QED
    BY <1>3, <1>4 DEF Waiting

LEMMA PushTells ==
    ASSUME NEW s, IsSeq(s), NEW f, NEW tr, Below(s, tr), s # <<>> => Waits(s[1], f.call, tr)
    PROVE  Below(<<f>> \o s, tr) /\ (<<f>> \o s)[1] = f
  <1> DEFINE p == <<f>> \o s
  <1>1. /\ Len(p) = Len(s) + 1 /\ p[1] = f /\ Len(s) \in Nat /\ (s = <<>> <=> Len(s) = 0)
        /\ \A i \in 1 .. Len(s) : p[i + 1] = s[i]
    BY IsSeqPush, IsSeqFacts
  <1> HIDE DEF p
  <1>2. ASSUME NEW i \in 1 .. Len(p) - 1 PROVE Waits(p[i + 1], p[i].call, tr)
    <2>1. i \in 1 .. Len(s) /\ p[i + 1] = s[i]
      BY <1>1
    <2>2. CASE i = 1
      BY <1>1, <2>1, <2>2
    <2>3. CASE i # 1
      <3>1. i - 1 \in 1 .. Len(s) - 1 /\ i - 1 \in 1 .. Len(s) /\ i - 1 + 1 = i
        BY <1>1, <2>1, <2>3
      <3>2. p[i] = s[i - 1]
        BY <1>1, <3>1
      <3> QED
        BY <2>1, <3>1, <3>2 DEF Below
    <2> QED
      BY <2>2, <2>3
  <1> QED
    BY <1>1, <1>2 DEF Below, p

LEMMA NewTopTells ==
    ASSUME NEW s, IsSeq(s), s # <<>>, NEW f, f.call = s[1].call, NEW tr, Below(s, tr)
    PROVE  Below(<<f>> \o Tail(s), tr) /\ (<<f>> \o Tail(s))[1] = f
  <1>1. Telling(s, tr) => Waiting(Tail(s), s[1].call, tr)
    BY TailTells
  <1>2. /\ IsSeq(Tail(s)) /\ Len(Tail(s)) = Len(s) - 1 /\ Len(s) \in Nat \ {0}
        /\ \A i \in 1 .. Len(s) - 1 : Tail(s)[i] = s[i + 1]
    BY IsSeqTail, IsSeqFacts
  <1>3. Below(Tail(s), tr)
    <2>1. ASSUME NEW i \in 1 .. Len(Tail(s)) - 1 PROVE Waits(Tail(s)[i + 1], Tail(s)[i].call, tr)
      <3>1. i \in 1 .. Len(s) - 1 /\ i + 1 \in 1 .. Len(s) - 1
        BY <1>2
      <3> QED
        BY <1>2, <3>1 DEF Below
    <2> QED
      BY <2>1 DEF Below
  <1>4. Tail(s) # <<>> => Waits(Tail(s)[1], f.call, tr)
    <2> SUFFICES ASSUME Tail(s) # <<>> PROVE Waits(Tail(s)[1], f.call, tr)
      OBVIOUS
    <2>1. 1 \in 1 .. Len(s) - 1 /\ Len(Tail(s)) # 0
      BY <1>2, IsSeqFacts
    <2> QED
      BY <1>2, <2>1 DEF Below
  <1> QED
    BY <1>2, <1>3, <1>4, PushTells
(* A failure makes no promise; a success is the step that was waited for.   *)
LEMMA FailTells ==
    ASSUME NEW s, Lower(s), NEW c, NEW tr, Waiting(s, c, tr)
    PROVE  Telling(Deliver(s, c, FALSE), tr)
  <1>1. CASE s = <<>>
    BY <1>1, Delivered DEF Telling, Waiting
  <1>2. CASE s # <<>>
    <2>1. Head(s) = s[1] /\ FrameOK(s[1]) /\ s[1].call.tool \in Composite /\ IsSeq(s)
      <3>1. 1 \in 1 .. Len(s)
        BY <1>2, IsSeqFacts DEF Lower, Stack
      <3> QED
        BY <1>2, <3>1, IsSeqTail DEF Lower, Stack
    <2>2. CASE Diagnosis(s, c)
      <3>1. Deliver(s, c, FALSE) = s
        BY <2>2, Delivered
      <3>2. Told(s[1], tr)
        BY <2>1, <2>2 DEF Diagnosis, Told
      <3> QED
        BY <3>1, <3>2 DEF Telling, Waiting
    <2>3. CASE ~Diagnosis(s, c)
      <3>1. Deliver(s, c, FALSE) = <<Failed(s[1])>> \o Tail(s)
        BY <1>2, <2>1, <2>3, Delivered
      <3>2. Failed(s[1]).call = s[1].call /\ Failed(s[1]).good = FALSE
        BY <2>1, FailedOK
      <3>3. Below(<<Failed(s[1])>> \o Tail(s), tr) /\ (<<Failed(s[1])>> \o Tail(s))[1] = Failed(s[1])
        BY <1>2, <2>1, <3>2, NewTopTells DEF Waiting
      <3>4. Told(Failed(s[1]), tr)
        BY <3>2 DEF Told
      <3> QED
        BY <3>1, <3>3, <3>4 DEF Telling
    <2> QED
      BY <2>2, <2>3
  <1> QED
    BY <1>1, <1>2

LEMMA WaitsOver ==
    ASSUME NEW tr, IsSeq(tr), NEW e, NEW f, Waits(f, e.call, tr), e.ok
    PROVE  Told(f, Append(tr, e))
  <1> SUFFICES ASSUME f.call.tool = "batch", f.good
      PROVE  \E d \in Nat : /\ d + Len(f.todo) = Len(f.call.steps)
                            /\ \A j \in 1 .. Len(f.todo) : f.todo[j] = f.call.steps[d + j]
                            /\ Did(f.call.steps, d, Append(tr, e))
    BY DEF Told
  <1>1. PICK d \in Nat : /\ d + 1 + Len(f.todo) = Len(f.call.steps)
                         /\ \A j \in 1 .. Len(f.todo) : f.todo[j] = f.call.steps[d + 1 + j]
                         /\ f.call.steps[d + 1] = e.call
                         /\ Did(f.call.steps, d, tr)
    BY DEF Waits
  <1>2. Did(f.call.steps, d + 1, Append(tr, e))
    BY <1>1, DidMore
  <1>3. d + 1 \in Nat
    OBVIOUS
  <1> QED
    BY <1>1, <1>2, <1>3

LEMMA EndTells ==
    ASSUME NEW s, Lower(s), NEW tr, IsSeq(tr), NEW e, e.ok \in BOOLEAN, Waiting(s, e.call, tr)
    PROVE  Telling(Deliver(s, e.call, e.ok), Append(tr, e))
  <1>1. CASE e.ok = TRUE
    <2>1. Deliver(s, e.call, e.ok) = s
      BY <1>1, Delivered
    <2>2. s # <<>> => Told(s[1], Append(tr, e))
      BY <1>1, WaitsOver DEF Waiting
    <2>3. Below(s, Append(tr, e))
      BY TellMore DEF Waiting
    <2> QED
      BY <2>1, <2>2, <2>3 DEF Telling
  <1>2. CASE e.ok = FALSE
    <2>1. Waiting(s, e.call, Append(tr, e))
      BY TellMore
    <2> QED
      BY <1>2, <2>1, FailTells
  <1> QED
    BY <1>1, <1>2

LEMMA FirstOfRest ==
    ASSUME NEW steps, NEW todo, IsSeq(todo), todo # <<>>, NEW d \in Nat,
           d + Len(todo) = Len(steps), \A j \in 1 .. Len(todo) : todo[j] = steps[d + j]
    PROVE  /\ d + 1 + Len(Tail(todo)) = Len(steps)
           /\ steps[d + 1] = todo[1]
           /\ \A j \in 1 .. Len(Tail(todo)) : Tail(todo)[j] = steps[d + 1 + j]
  <1>1. /\ Len(Tail(todo)) = Len(todo) - 1 /\ Len(todo) \in Nat \ {0}
        /\ \A i \in 1 .. Len(todo) - 1 : Tail(todo)[i] = todo[i + 1]
    BY IsSeqTail, IsSeqFacts
  <1>2. d + 1 + (Len(todo) - 1) = Len(steps)
    BY <1>1
  <1>3. steps[d + 1] = todo[1]
    BY <1>1
  <1>4. ASSUME NEW j \in 1 .. Len(Tail(todo)) PROVE Tail(todo)[j] = steps[d + 1 + j]
    <2>1. j \in 1 .. Len(todo) - 1 /\ j + 1 \in 1 .. Len(todo) /\ d + (j + 1) = d + 1 + j
      BY <1>1
    <2> QED
      BY <1>1, <2>1
  <1> QED
    BY <1>1, <1>2, <1>3, <1>4

LEMMA StepTells ==
    ASSUME NEW s, Stack(s), s # <<>>, Head(s).call.tool \in Composite, Head(s).todo # <<>>,
           NEW tr, Telling(s, tr)
    PROVE  Waiting(Stepped(s), Head(Head(s).todo), tr)
  <1>1. Head(s) = s[1] /\ FrameOK(s[1])
    BY StepLower
  <1> DEFINE todo == s[1].todo
             f == [call |-> s[1].call, todo |-> Tail(todo), good |-> s[1].good, known |-> s[1].known]
  <1>2. [Head(s) EXCEPT !.todo = Tail(@)] = f
    <2>1. s[1] = [call |-> s[1].call, todo |-> todo, good |-> s[1].good, known |-> s[1].known]
      BY <1>1 DEF FrameOK
    <2> QED
      BY <1>1, <2>1
  <1>3. Stepped(s) = <<f>> \o Tail(s)
    BY <1>2 DEF Stepped
  <1>4. /\ Len(Tail(todo)) = Len(todo) - 1 /\ Head(todo) = todo[1] /\ Len(todo) \in Nat \ {0}
        /\ \A i \in 1 .. Len(todo) - 1 : Tail(todo)[i] = todo[i + 1]
    BY <1>1, IsSeqTail, IsSeqFacts DEF FrameOK
  <1>5. Below(<<f>> \o Tail(s), tr) /\ (<<f>> \o Tail(s))[1] = f
    <2>1. IsSeq(s) /\ f.call = s[1].call /\ Below(s, tr)
      BY DEF Stack, Telling
    <2> HIDE DEF f
    <2> QED
      BY <2>1, NewTopTells
  <1>6. Waits(f, todo[1], tr)
    <2> DEFINE steps == s[1].call.steps
    <2>1. f.call = s[1].call /\ f.todo = Tail(todo) /\ (f.good <=> s[1].good)
      OBVIOUS
    <2> SUFFICES ASSUME s[1].call.tool = "batch", s[1].good
        PROVE  \E d \in Nat : /\ d + 1 + Len(Tail(todo)) = Len(steps)
                              /\ \A j \in 1 .. Len(Tail(todo)) : Tail(todo)[j] = steps[d + 1 + j]
                              /\ steps[d + 1] = todo[1]
                              /\ Did(steps, d, tr)
      BY <2>1 DEF Waits
    <2>2. PICK d \in Nat : /\ d + Len(todo) = Len(steps)
                           /\ \A j \in 1 .. Len(todo) : todo[j] = steps[d + j]
                           /\ Did(steps, d, tr)
      BY DEF Telling, Told
    <2>3. /\ d + 1 + Len(Tail(todo)) = Len(steps)
          /\ steps[d + 1] = todo[1]
          /\ \A j \in 1 .. Len(Tail(todo)) : Tail(todo)[j] = steps[d + 1 + j]
      <3>1. IsSeq(todo) /\ todo # <<>>
        BY <1>1 DEF FrameOK
      <3> HIDE DEF todo, steps
      <3> QED
        BY <2>2, <3>1, FirstOfRest
    <2> QED
      BY <2>2, <2>3
  <1>7. Head(Head(s).todo) = todo[1]
    BY <1>1, <1>4
  <1> HIDE DEF f
  <1> QED
    BY <1>3, <1>5, <1>6, <1>7 DEF Waiting

LEMMA PushFrame ==
    ASSUME Shaped, NEW c, Asked(c), NEW s, IsSeq(s), NEW tr, IsSeq(tr), Waiting(s, c, tr)
    PROVE  Telling(<<Frame(c)>> \o s, tr)
  <1>1. Frame(c).call = c /\ Frame(c).good = TRUE
    BY FrameShape
  <1>2. Below(<<Frame(c)>> \o s, tr) /\ (<<Frame(c)>> \o s)[1] = Frame(c)
    BY <1>1, PushTells DEF Waiting
  <1>3. ASSUME c.tool = "batch" PROVE Told(Frame(c), tr)
    <2>1. Frame(c).todo = c.steps
      BY <1>3 DEF Frame
    <2>2. IsSeq(c.steps)
      BY <1>3, CallAssumption DEF Asked, IsSeq
    <2>3. Len(c.steps) \in Nat
      BY <2>2, IsSeqFacts
    <2>4. Did(c.steps, 0, tr)
      <3> DEFINE at == [m \in 1 .. 0 |-> 1]
      <3>1. at \in [1 .. 0 -> 1 .. Len(tr)] /\ \A m \in 1 .. 0 : FALSE
        OBVIOUS
      <3> HIDE DEF at
      <3> QED
        BY <3>1 DEF Did
    <2>5. 0 \in Nat /\ 0 + Len(c.steps) = Len(c.steps) /\ \A j \in 1 .. Len(c.steps) : c.steps[j] = c.steps[0 + j]
      BY <2>3
    <2> QED
      BY <1>1, <2>1, <2>4, <2>5 DEF Told
  <1>4. ASSUME c.tool # "batch" PROVE Told(Frame(c), tr)
    BY <1>1, <1>4 DEF Told
  <1> QED
    BY <1>2, <1>3, <1>4 DEF Telling
(* As long as the ring has dropped no entry.                                *)
Teller == sequence <= MaxEntries =>
            Len(trace) = sequence /\ \A t \in Task : Telling(task[t], trace)

LEMMA MoveTells ==
    ASSUME Shaped, Teller, BatchHonest, NEW t \in Task, NEW s, Become(t, s),
           UNCHANGED <<trace, sequence>>, sequence <= MaxEntries => Telling(s, trace)
    PROVE  Teller' /\ BatchHonest'
  <1>1. task'[t] = s /\ \A u \in Task \ {t} : task'[u] = task[u]
    BY Becomes DEF Shaped
  <1> QED
    BY <1>1 DEF Teller, BatchHonest

LEMMA BeginTells ==
    ASSUME Shaped, Teller, BatchHonest, NEW t \in Task, NEW s, Lower(s), NEW c, Asked(c),
           UNCHANGED <<trace, sequence>>, sequence <= MaxEntries => Waiting(s, c, trace), Begin(t, s, c)
    PROVE  Teller' /\ BatchHonest'
  <1>1. IsSeq(s) /\ IsSeq(trace)
    BY DEF Lower, Stack, Shaped, Types
  <1>2. CASE Become(t, Deliver(s, c, FALSE))
    BY <1>2, FailTells, MoveTells
  <1>3. CASE Become(t, <<Frame(c)>> \o s)
    BY <1>1, <1>3, PushFrame, MoveTells
  <1> QED
    BY <1>2, <1>3 DEF Begin

(* The entry of a batch that is ok.                                         *)
LEMMA BatchTells ==
    ASSUME NEW f, FrameOK(f), f.call.tool = "batch", f.good, f.todo = <<>>, NEW tr, Told(f, tr)
    PROVE  \E at \in [DOMAIN f.call.steps -> 1 .. Len(tr)] :
             /\ \A m, n \in DOMAIN at : m < n => at[m] < at[n]
             /\ \A m \in DOMAIN at : tr[at[m]].ok /\ tr[at[m]].call = f.call.steps[m]
  <1> DEFINE steps == f.call.steps
  <1>1. IsSeq(steps)
    BY CallAssumption DEF FrameOK, Asked, IsSeq
  <1>2. DOMAIN steps = 1 .. Len(steps) /\ Len(steps) \in Nat
    BY <1>1, IsSeqFacts
  <1>3. Did(steps, Len(steps), tr)
    <2>1. PICK d \in Nat : d + Len(f.todo) = Len(steps) /\ Did(steps, d, tr)
      BY DEF Told
    <2>2. d = Len(steps)
      <3>1. Len(f.todo) = 0
        OBVIOUS
      <3> HIDE DEF steps
      <3> QED
        BY <2>1, <3>1
    <2> QED
      BY <2>1, <2>2
  <1> HIDE DEF steps
  <1>4. \E at \in [1 .. Len(steps) -> 1 .. Len(tr)] :
             /\ \A m, n \in 1 .. Len(steps) : m < n => at[m] < at[n]
             /\ \A m \in 1 .. Len(steps) : tr[at[m]].ok /\ tr[at[m]].call = steps[m]
    BY <1>3 DEF Did
  <1>5. PICK at \in [1 .. Len(steps) -> 1 .. Len(tr)] :
             /\ \A m, n \in 1 .. Len(steps) : m < n => at[m] < at[n]
             /\ \A m \in 1 .. Len(steps) : tr[at[m]].ok /\ tr[at[m]].call = steps[m]
    BY <1>4
  <1>6. DOMAIN at = 1 .. Len(steps)
    OBVIOUS
  <1>7. at \in [DOMAIN steps -> 1 .. Len(tr)]
    BY <1>2
  <1> QED
    BY <1>5, <1>6, <1>7 DEF steps

HonestAt(tr, i) ==
    tr[i].call.tool = "batch" /\ tr[i].ok =>
        \E at \in [DOMAIN tr[i].call.steps -> 1 .. i - 1] :
            /\ \A m, n \in DOMAIN at : m < n => at[m] < at[n]
            /\ \A m \in DOMAIN at : tr[at[m]].ok /\ tr[at[m]].call = tr[i].call.steps[m]

LEMMA HonestStays ==
    ASSUME NEW tr, IsSeq(tr), NEW e, NEW i \in 1 .. Len(tr), HonestAt(tr, i)
    PROVE  HonestAt(Append(tr, e), i)
  <1> DEFINE b == Append(tr, e)
  <1>1. \A j \in 1 .. Len(tr) : b[j] = tr[j]
    BY IsSeqAppend
  <1>2. Len(tr) \in Nat
    BY IsSeqFacts
  <1> HIDE DEF b
  <1>3. b[i] = tr[i] /\ \A j \in 1 .. i - 1 : b[j] = tr[j]
    BY <1>1, <1>2
  <1> SUFFICES ASSUME tr[i].call.tool = "batch", tr[i].ok
      PROVE  \E at \in [DOMAIN tr[i].call.steps -> 1 .. i - 1] :
                /\ \A m, n \in DOMAIN at : m < n => at[m] < at[n]
                /\ \A m \in DOMAIN at : b[at[m]].ok /\ b[at[m]].call = tr[i].call.steps[m]
    BY <1>3 DEF HonestAt, b
  <1>4. PICK at \in [DOMAIN tr[i].call.steps -> 1 .. i - 1] :
           /\ \A m, n \in DOMAIN at : m < n => at[m] < at[n]
           /\ \A m \in DOMAIN at : tr[at[m]].ok /\ tr[at[m]].call = tr[i].call.steps[m]
    BY DEF HonestAt
  <1>5. \A m \in DOMAIN at : at[m] \in 1 .. i - 1
    OBVIOUS
  <1>6. \A m \in DOMAIN at : b[at[m]].ok /\ b[at[m]].call = tr[i].call.steps[m]
    BY <1>3, <1>4, <1>5
  <1> QED
    BY <1>4, <1>6

LEMMA FinishTells ==
    ASSUME Shaped, Teller, BatchHonest, NEW t \in Task, NEW ok \in BOOLEAN, task[t] # <<>>, Finish(t, ok),
           Head(task[t]).call.tool = "batch" /\ ok => Head(task[t]).good /\ Head(task[t]).todo = <<>>
    PROVE  Teller' /\ BatchHonest'
  <1> SUFFICES ASSUME sequence' <= MaxEntries PROVE Teller' /\ BatchHonest'
    BY DEF Teller, BatchHonest
  <1> DEFINE s == task[t]
             e == Entry(Head(s).call, ok)
  <1>1. /\ Types /\ IsSeq(trace) /\ sequence \in Nat /\ sequence' = sequence + 1
        /\ Become(t, Deliver(Tail(s), Head(s).call, ok))
    BY FinishEffect DEF Shaped, Types
  <1>2. sequence < MaxEntries /\ Len(trace) = sequence /\ \A u \in Task : Telling(task[u], trace)
    BY <1>1, EntriesAssumption DEF Teller
  <1>3. trace' = Append(trace, e)
    BY <1>1, <1>2, FinishEffect
  <1>4. e.call = Head(s).call /\ e.ok = ok
    BY DEF Entry
  <1>5. Head(s) = s[1] /\ FrameOK(s[1]) /\ Lower(Tail(s)) /\ IsSeq(s)
    BY TopFacts DEF Shaped, Stack
  <1>6. Telling(Deliver(Tail(s), Head(s).call, ok), trace')
    <2>1. Waiting(Tail(s), e.call, trace)
      BY <1>2, <1>4, <1>5, TailTells
    <2>2. e.ok \in BOOLEAN
      BY <1>4
    <2> HIDE DEF e
    <2>3. Telling(Deliver(Tail(s), e.call, e.ok), Append(trace, e))
      BY <1>1, <1>5, <2>1, <2>2, EndTells
    <2> QED
      BY <1>3, <1>4, <2>3
  <1> HIDE DEF e
  <1>7. \A u \in Task : Telling(task'[u], trace')
    <2>1. task'[t] = Deliver(Tail(s), Head(s).call, ok) /\ \A u \in Task \ {t} : task'[u] = task[u]
      BY <1>1, Becomes
    <2>2. \A u \in Task : Telling(task[u], trace')
      BY <1>1, <1>2, <1>3, TellMore
    <2> QED
      BY <1>6, <2>1, <2>2
  <1>8. /\ Len(trace') = Len(trace) + 1 /\ Len(trace) \in Nat /\ DOMAIN trace' = 1 .. Len(trace) + 1
        /\ \A j \in 1 .. Len(trace) : trace'[j] = trace[j]
        /\ trace'[Len(trace) + 1] = e /\ DOMAIN trace = 1 .. Len(trace)
    BY <1>1, <1>3, IsSeqAppend, IsSeqFacts
  <1>9. Teller'
    BY <1>1, <1>2, <1>7, <1>8 DEF Teller
  <1>10. ASSUME NEW i \in 1 .. Len(trace) PROVE HonestAt(trace', i)
    <2>1. HonestAt(trace, i)
      <3>1. sequence <= MaxEntries /\ i \in DOMAIN trace
        BY <1>1, <1>2, <1>8, EntriesAssumption
      <3> QED
        BY <3>1 DEF BatchHonest, HonestAt
    <2> QED
      BY <1>1, <1>3, <2>1, HonestStays
  <1>11. HonestAt(trace', Len(trace) + 1)
    <2> DEFINE n == Len(trace)
    <2> SUFFICES ASSUME e.call.tool = "batch", e.ok
        PROVE  \E at \in [DOMAIN e.call.steps -> 1 .. n] :
                  /\ \A k, l \in DOMAIN at : k < l => at[k] < at[l]
                  /\ \A k \in DOMAIN at : trace'[at[k]].ok /\ trace'[at[k]].call = e.call.steps[k]
      BY <1>8 DEF HonestAt
    <2>1. s[1].good /\ s[1].todo = <<>> /\ s[1].call = e.call
      BY <1>4, <1>5
    <2>2. Told(s[1], trace)
      BY <1>2 DEF Telling
    <2>3. PICK at \in [DOMAIN s[1].call.steps -> 1 .. n] :
             /\ \A k, l \in DOMAIN at : k < l => at[k] < at[l]
             /\ \A k \in DOMAIN at : trace[at[k]].ok /\ trace[at[k]].call = s[1].call.steps[k]
      BY <1>5, <2>1, <2>2, BatchTells
    <2>4. \A k \in DOMAIN at : at[k] \in 1 .. n /\ trace'[at[k]] = trace[at[k]]
      BY <1>8, <2>3
    <2>5. \A k \in DOMAIN at : trace'[at[k]].ok /\ trace'[at[k]].call = s[1].call.steps[k]
      BY <2>3, <2>4
    <2> QED
      BY <2>1, <2>3, <2>5
  <1>12. BatchHonest'
    <2>1. \A i \in DOMAIN trace' : i \in 1 .. Len(trace) \/ i = Len(trace) + 1
      BY <1>8
    <2>2. \A i \in DOMAIN trace' : HonestAt(trace', i)
      BY <1>10, <1>11, <2>1
    <2> QED
      BY <2>2 DEF BatchHonest, HonestAt
  <1> QED
    BY <1>9, <1>12
LEMMA TellerStep == Shaped /\ Teller /\ BatchHonest /\ [Next]_vars => Teller' /\ BatchHonest'
  <1> SUFFICES ASSUME Shaped, Teller, BatchHonest, [Next]_vars PROVE Teller' /\ BatchHonest'
    OBVIOUS
  <1>1. ASSUME NEW t \in Task, NEW c \in Call, Request(t, c) PROVE Teller' /\ BatchHonest'
    <2>1. Asked(c)
      BY CallAssumption DEF Asked
    <2>2. Begin(t, <<>>, c) /\ UNCHANGED <<trace, sequence>>
      BY <1>1 DEF Request
    <2>3. Waiting(<<>>, c, trace)
      <3>1. \A i \in 1 .. Len(<<>>) - 1 : FALSE
        OBVIOUS
      <3> QED
        BY <3>1 DEF Waiting, Below
    <2> QED
      BY <2>1, <2>2, <2>3, EmptyStack, BeginTells
  <1>2. ASSUME NEW t \in Task, Step(t) PROVE Teller' /\ BatchHonest'
    <2> DEFINE top == Head(task[t])
               c == Head(top.todo)
               s == Stepped(task[t])
    <2>1. /\ Top(t, Composite) /\ top.todo # <<>> /\ UNCHANGED <<trace, sequence>>
          /\ IF top.call.tool = "batch" /\ c.tool = "batch"
             THEN Become(t, Deliver(s, c, FALSE)) ELSE Begin(t, s, c)
      BY <1>2 DEF Step, Stepped
    <2>2. /\ Lower(s)
          /\ ~(top.call.tool = "batch" /\ c.tool = "batch") => Asked(c)
      BY <2>1, NextStep DEF Shaped
    <2>3. sequence <= MaxEntries => Waiting(s, c, trace)
      <3>1. Stack(task[t]) /\ task[t] # <<>> /\ top.call.tool \in Composite
        BY <2>1 DEF Shaped, Stacks, Top
      <3>2. sequence <= MaxEntries => Telling(task[t], trace)
        BY DEF Teller
      <3> QED
        BY <2>1, <3>1, <3>2, StepTells
    <2> HIDE DEF top, c, s
    <2>4. CASE top.call.tool = "batch" /\ c.tool = "batch"
      BY <2>1, <2>2, <2>3, <2>4, FailTells, MoveTells
    <2>5. CASE ~(top.call.tool = "batch" /\ c.tool = "batch")
      BY <2>1, <2>2, <2>3, <2>5, BeginTells
    <2> QED
      BY <2>4, <2>5
  <1>3. ASSUME NEW t \in Task, Raise(t) PROVE Teller' /\ BatchHonest'
    <2>1. Become(t, <<>>) /\ UNCHANGED <<trace, sequence>>
      BY <1>3 DEF Raise
    <2>2. Telling(<<>>, trace)
      <3>1. \A i \in 1 .. Len(<<>>) - 1 : FALSE
        OBVIOUS
      <3> QED
        BY <3>1 DEF Telling, Below
    <2> QED
      BY <2>1, <2>2, MoveTells
  <1>4. ASSUME NEW t \in Task, NEW ok \in BOOLEAN, Answer(t, ok) \/ Looked(t, ok) PROVE Teller' /\ BatchHonest'
    <2>1. task[t] # <<>> /\ Finish(t, ok) /\ Head(task[t]).call.tool # "batch"
      BY <1>4 DEF Answer, Looked, Top
    <2> QED
      BY <2>1, FinishTells
  <1>5. ASSUME NEW t \in Task, PromoteSequence(t) PROVE Teller' /\ BatchHonest'
    <2>1. task[t] # <<>> /\ Head(task[t]).call.tool # "batch" /\ \E ok \in BOOLEAN : Finish(t, ok)
      <3>1. task[t] # <<>> /\ Head(task[t]).call.tool = "promote"
        BY <1>5 DEF PromoteSequence, Top
      <3>2. Finish(t, Kept(Head(task[t]).call) # <<>>)
        BY <1>5 DEF PromoteSequence, Kept
      <3>3. (Kept(Head(task[t]).call) # <<>>) \in BOOLEAN
        OBVIOUS
      <3> QED
        BY <3>1, <3>2, <3>3
    <2> QED
      BY <2>1, FinishTells
  <1>6. ASSUME NEW t \in Task, Complete(t) PROVE Teller' /\ BatchHonest'
    <2>1. task[t] # <<>> /\ FrameOK(Head(task[t])) /\ Head(task[t]).todo = <<>>
      BY <1>6, TopFacts DEF Complete, Top, Shaped
    <2>2. CASE Head(task[t]).call.tool = "batch" /\ Finish(t, Head(task[t]).good)
      <3>1. Head(task[t]).good \in BOOLEAN
        BY <2>1 DEF FrameOK
      <3> QED
        BY <2>1, <2>2, <3>1, FinishTells
    <2>3. CASE Head(task[t]).call.tool = "replay" /\ Finish(t, Head(task[t]).known)
      <3>1. Head(task[t]).known \in BOOLEAN
        BY <2>1 DEF FrameOK
      <3> QED
        BY <2>1, <2>3, <3>1, FinishTells
    <2> QED
      BY <1>6, <2>2, <2>3 DEF Complete
  <1>7. CASE UNCHANGED vars
    BY <1>7 DEF vars, Teller, BatchHonest
  <1> QED
    BY <1>1, <1>2, <1>3, <1>4, <1>5, <1>6, <1>7 DEF Next, Progress

LEMMA InitTells == Init => Teller /\ BatchHonest
  <1> SUFFICES ASSUME Init PROVE Teller /\ BatchHonest
    OBVIOUS
  <1>1. trace = <<>> /\ sequence = 0 /\ Len(<<>>) = 0 /\ DOMAIN <<>> = {}
    BY DEF Init
  <1>2. \A t \in Task : task[t] = <<>>
    BY DEF Init
  <1>3. \A i \in 1 .. 0 - 1 : FALSE
    OBVIOUS
  <1>4. Telling(<<>>, trace)
    BY <1>1, <1>3 DEF Telling, Below
  <1> QED
    BY <1>1, <1>2, <1>4 DEF Teller, BatchHonest

(* A batch the trace says was ok is preceded by its steps, all ok and in    *)
(* their order, for any calls and however the requests overlap.             *)
THEOREM BatchesTell == Spec => []BatchHonest
  <1>1. Init => Shaped /\ Teller /\ BatchHonest
    BY InitShape, InitTells
  <1>2. Shaped /\ Teller /\ BatchHonest /\ [Next]_vars => Shaped' /\ Teller' /\ BatchHonest'
    BY ShapeStep, TellerStep
  <1> QED
    BY <1>1, <1>2, PTL DEF Spec
-----------------------------------------------------------------------------
(* FlowKept.  What the promoted entries of the trace do is what was done.   *)
Fine(e) == Promotable(e) /\ e.ok
FineAmong(tr) == {tr[i] : i \in {i \in DOMAIN tr : Fine(tr[i])}}
Flow(tr) == Calls(Only(tr, FineAmong(tr)))
Flowing ==
    sequence <= MaxEntries /\ (\A i \in DOMAIN trace : trace[i].call.tool # "batch") =>
        Effect(Flow(trace)) = acts

LEMMA OnlyIsSeq == ASSUME NEW s, IsSeq(s), NEW S PROVE IsSeq(Only(s, S))
  <1> DEFINE C == {s[i] : i \in DOMAIN s}
  <1>1. s \in Seq(C)
    BY DEF IsSeq
  <1> HIDE DEF C
  <1>2. Only(s, S) \in Seq({c \in C : c \in S})
    BY <1>1, OnlyFrom
  <1> QED
    BY <1>2, SeqIsSeq

(* Two sequences with the same elements.                                    *)
LEMMA SameSeq ==
    ASSUME NEW s, IsSeq(s), NEW r, IsSeq(r), Len(s) = Len(r), \A i \in 1 .. Len(s) : s[i] = r[i]
    PROVE  s = r
  <1> DEFINE C == {s[i] : i \in DOMAIN s} \cup {r[i] : i \in DOMAIN r}
  <1>1. s \in Seq(C) /\ r \in Seq(C)
    BY SeqMonotonic DEF IsSeq
  <1> HIDE DEF C
  <1> QED
    BY <1>1, SeqEqual

LEMMA MapIsSeq ==
    ASSUME NEW s, IsSeq(s), NEW r, r = [i \in DOMAIN s |-> r[i]]
    PROVE  IsSeq(r) /\ Len(r) = Len(s)
  <1>1. DOMAIN s = 1 .. Len(s) /\ Len(s) \in Nat
    BY IsSeqFacts
  <1>2. DOMAIN r = 1 .. Len(s)
    BY <1>1
  <1>3. r \in [1 .. Len(s) -> {r[i] : i \in DOMAIN r}]
    BY <1>1, <1>2
  <1>4. IsSeq(r)
    BY <1>1, <1>3, SeqDef DEF IsSeq
  <1>5. Len(r) \in Nat /\ DOMAIN r = 1 .. Len(r)
    BY <1>4, IsSeqFacts
  <1> QED
    BY <1>1, <1>2, <1>4, <1>5

LEMMA CallsAppend ==
    ASSUME NEW s, IsSeq(s), NEW e
    PROVE  IsSeq(Calls(s)) /\ Calls(Append(s, e)) = Append(Calls(s), e.call)
  <1> DEFINE a == Append(s, e)
             r == Calls(s)
             q == Calls(a)
             p == Append(r, e.call)
  <1>1. /\ IsSeq(a) /\ Len(a) = Len(s) + 1 /\ Len(s) \in Nat
        /\ \A i \in 1 .. Len(s) : a[i] = s[i]
        /\ a[Len(s) + 1] = e
        /\ DOMAIN a = 1 .. Len(s) + 1 /\ DOMAIN s = 1 .. Len(s)
    BY IsSeqAppend, IsSeqFacts
  <1> HIDE DEF a
  <1>2. /\ r = [i \in DOMAIN s |-> r[i]] /\ \A i \in DOMAIN s : r[i] = s[i].call
        /\ q = [i \in DOMAIN a |-> q[i]] /\ \A i \in DOMAIN a : q[i] = a[i].call
    BY DEF Calls
  <1> HIDE DEF r, q
  <1>3. IsSeq(r) /\ Len(r) = Len(s) /\ IsSeq(q) /\ Len(q) = Len(a)
    BY <1>1, <1>2, MapIsSeq
  <1>4. /\ IsSeq(p) /\ Len(p) = Len(s) + 1
        /\ \A i \in 1 .. Len(s) : p[i] = r[i]
        /\ p[Len(s) + 1] = e.call
    BY <1>3, IsSeqAppend
  <1> HIDE DEF p
  <1>5. ASSUME NEW i \in 1 .. Len(q) PROVE q[i] = p[i]
    <2>1. i \in 1 .. Len(s) \/ i = Len(s) + 1
      BY <1>1, <1>3
    <2> QED
      BY <1>1, <1>2, <1>4, <2>1
  <1>6. q = p
    BY <1>1, <1>3, <1>4, <1>5, SameSeq
  <1> QED
    BY <1>3, <1>6 DEF a, r, q, p

LEMMA FlowAppend ==
    ASSUME NEW tr, IsSeq(tr), NEW e
    PROVE  /\ IsSeq(Flow(tr))
           /\ Flow(Append(tr, e)) = IF Fine(e) THEN Append(Flow(tr), e.call) ELSE Flow(tr)
  <1> DEFINE a == Append(tr, e)
             S == FineAmong(tr)
             T == FineAmong(a)
  <1>1. /\ DOMAIN a = 1 .. Len(tr) + 1 /\ DOMAIN tr = 1 .. Len(tr) /\ Len(tr) \in Nat
        /\ \A i \in 1 .. Len(tr) : a[i] = tr[i]
        /\ a[Len(tr) + 1] = e
    BY IsSeqAppend, IsSeqFacts
  <1> HIDE DEF a
  <1>2. \A i \in 1 .. Len(tr) : tr[i] \in S <=> Fine(tr[i])
    BY <1>1 DEF FineAmong
  <1>3. \A i \in DOMAIN a : a[i] \in T <=> Fine(a[i])
    BY DEF FineAmong
  <1>4. (\A i \in 1 .. Len(tr) : tr[i] \in S <=> tr[i] \in T) /\ (e \in T <=> Fine(e))
    <2>1. \A i \in 1 .. Len(tr) : i \in DOMAIN a /\ a[i] = tr[i]
      BY <1>1
    <2>2. Len(tr) + 1 \in DOMAIN a
      BY <1>1
    <2> QED
      BY <1>1, <1>2, <1>3, <2>1, <2>2
  <1> HIDE DEF S, T
  <1>5. Only(a, T) = IF e \in T THEN Append(Only(tr, S), e) ELSE Only(tr, S)
    BY <1>4, OnlyAppend DEF a
  <1>6. IsSeq(Only(tr, S))
    BY OnlyIsSeq
  <1>7. IsSeq(Calls(Only(tr, S))) /\ Calls(Append(Only(tr, S), e)) = Append(Calls(Only(tr, S)), e.call)
    BY <1>6, CallsAppend
  <1>8. Flow(tr) = Calls(Only(tr, S)) /\ Flow(a) = Calls(Only(a, T))
    BY DEF Flow, S, T
  <1>9. CASE Fine(e)
    BY <1>4, <1>5, <1>7, <1>8, <1>9 DEF a
  <1>10. CASE ~Fine(e)
    BY <1>4, <1>5, <1>7, <1>8, <1>10 DEF a
  <1> QED
    BY <1>9, <1>10

LEMMA EffectAppend ==
    ASSUME NEW cs, IsSeq(cs), NEW c
    PROVE  Effect(Append(cs, c)) = IF c.tool = "act" THEN Append(Effect(cs), c.act) ELSE Effect(cs)
  <1> DEFINE a == Append(cs, c)
             S == {cs[i] : i \in {i \in DOMAIN cs : cs[i].tool = "act"}}
             T == {a[i] : i \in {i \in DOMAIN a : a[i].tool = "act"}}
  <1>1. /\ DOMAIN a = 1 .. Len(cs) + 1 /\ DOMAIN cs = 1 .. Len(cs) /\ Len(cs) \in Nat
        /\ \A i \in 1 .. Len(cs) : a[i] = cs[i]
        /\ a[Len(cs) + 1] = c
    BY IsSeqAppend, IsSeqFacts
  <1> HIDE DEF a
  <1>2. \A i \in 1 .. Len(cs) : cs[i] \in S <=> cs[i].tool = "act"
    BY <1>1
  <1>3. \A i \in DOMAIN a : a[i] \in T <=> a[i].tool = "act"
    OBVIOUS
  <1>4. (\A i \in 1 .. Len(cs) : cs[i] \in S <=> cs[i] \in T) /\ (c \in T <=> c.tool = "act")
    <2>1. \A i \in 1 .. Len(cs) : i \in DOMAIN a /\ a[i] = cs[i]
      BY <1>1
    <2>2. Len(cs) + 1 \in DOMAIN a
      BY <1>1
    <2> HIDE DEF S, T
    <2> QED
      BY <1>1, <1>2, <1>3, <2>1, <2>2
  <1>5. ActsAmong(cs) = Only(cs, S) /\ ActsAmong(a) = Only(a, T)
    BY DEF ActsAmong
  <1> HIDE DEF S, T
  <1>6. Only(a, T) = IF c \in T THEN Append(Only(cs, S), c) ELSE Only(cs, S)
    BY <1>4, OnlyAppend DEF a
  <1> DEFINE A == ActsAmong(cs)
             B == Append(A, c)
             r == Effect(cs)
             q == Effect(a)
             p == Append(r, c.act)
  <1>7. IsSeq(A)
    BY <1>5, OnlyIsSeq
  <1>8. CASE c.tool # "act"
    BY <1>4, <1>5, <1>6, <1>8 DEF Effect, a
  <1>9. CASE c.tool = "act"
    <2>1. ActsAmong(a) = B
      BY <1>4, <1>5, <1>6, <1>9
    <2>2. /\ IsSeq(B) /\ Len(B) = Len(A) + 1 /\ Len(A) \in Nat
          /\ \A i \in 1 .. Len(A) : B[i] = A[i]
          /\ B[Len(A) + 1] = c
          /\ DOMAIN B = 1 .. Len(A) + 1 /\ DOMAIN A = 1 .. Len(A)
      BY <1>7, IsSeqAppend, IsSeqFacts
    <2> HIDE DEF A, B
    <2>3. /\ r = [i \in DOMAIN A |-> r[i]] /\ \A i \in DOMAIN A : r[i] = A[i].act
          /\ q = [i \in DOMAIN B |-> q[i]] /\ \A i \in DOMAIN B : q[i] = B[i].act
      BY <2>1 DEF Effect, A
    <2> HIDE DEF r, q
    <2>4. IsSeq(r) /\ Len(r) = Len(A) /\ IsSeq(q) /\ Len(q) = Len(B)
      BY <1>7, <2>2, <2>3, MapIsSeq
    <2>5. /\ IsSeq(p) /\ Len(p) = Len(A) + 1
          /\ \A i \in 1 .. Len(A) : p[i] = r[i]
          /\ p[Len(A) + 1] = c.act
      BY <2>4, IsSeqAppend
    <2> HIDE DEF p
    <2>6. ASSUME NEW i \in 1 .. Len(q) PROVE q[i] = p[i]
      <3>1. i \in 1 .. Len(A) \/ i = Len(A) + 1
        BY <2>2, <2>4
      <3> QED
        BY <2>2, <2>3, <2>5, <3>1
    <2>7. q = p
      BY <2>2, <2>4, <2>5, <2>6, SameSeq
    <2> QED
      BY <1>9, <2>7 DEF q, p, r, a
  <1> QED
    BY <1>8, <1>9

(* An entry that is no batch adds to the flow what it added to the acts.    *)
LEMMA FlowFinish ==
    ASSUME Shaped, Teller, Flowing, NEW t \in Task, NEW ok \in BOOLEAN, task[t] # <<>>, Finish(t, ok),
           acts' = IF Head(task[t]).call.tool = "act" /\ ok
                   THEN Append(acts, Head(task[t]).call.act) ELSE acts
    PROVE  Flowing'
  <1> DEFINE c == Head(task[t]).call
             e == Entry(c, ok)
             f == Flow(trace)
  <1> SUFFICES ASSUME sequence' <= MaxEntries, \A i \in DOMAIN trace' : trace'[i].call.tool # "batch"
               PROVE  Effect(Flow(trace')) = acts'
    BY DEF Flowing
  <1>1. Types /\ IsSeq(trace) /\ sequence \in Nat /\ sequence' = sequence + 1
    BY FinishEffect DEF Shaped, Types
  <1>2. sequence < MaxEntries /\ sequence <= MaxEntries /\ Len(trace) = sequence
    BY <1>1, EntriesAssumption DEF Teller
  <1>3. trace' = Append(trace, e)
    BY <1>1, <1>2, FinishEffect
  <1>4. e.call = c /\ e.ok = ok
    BY DEF Entry
  <1> HIDE DEF c, e
  <1>5. /\ DOMAIN trace' = 1 .. Len(trace) + 1 /\ DOMAIN trace = 1 .. Len(trace) /\ Len(trace) \in Nat
        /\ \A i \in 1 .. Len(trace) : trace'[i] = trace[i]
    BY <1>1, <1>3, IsSeqAppend, IsSeqFacts
  <1>6. \A i \in DOMAIN trace : trace[i].call.tool # "batch"
    <2> SUFFICES ASSUME NEW i \in DOMAIN trace PROVE trace[i].call.tool # "batch"
      OBVIOUS
    <2>1. i \in DOMAIN trace' /\ trace'[i] = trace[i]
      BY <1>5
    <2> QED
      BY <2>1
  <1>7. Effect(f) = acts
    BY <1>2, <1>6 DEF Flowing
  <1>8. IsSeq(f) /\ Flow(trace') = IF Fine(e) THEN Append(f, c) ELSE f
    BY <1>1, <1>3, <1>4, FlowAppend
  <1> HIDE DEF f
  <1>9. Effect(Append(f, c)) = IF c.tool = "act" THEN Append(Effect(f), c.act) ELSE Effect(f)
    BY <1>8, EffectAppend
  <1>10. c.tool = "act" => (Fine(e) <=> ok)
    BY <1>4 DEF Fine, Promotable
  <1>11. acts' = IF c.tool = "act" /\ ok THEN Append(acts, c.act) ELSE acts
    BY DEF c
  <1>12. CASE c.tool = "act" /\ ok
    BY <1>7, <1>8, <1>9, <1>10, <1>11, <1>12
  <1>13. CASE ~(c.tool = "act" /\ ok)
    BY <1>7, <1>8, <1>9, <1>10, <1>11, <1>13
  <1> QED
    BY <1>12, <1>13

LEMMA FlowingStep == Shaped /\ Teller /\ Flowing /\ [Next]_vars => Flowing'
  <1> SUFFICES ASSUME Shaped, Teller, Flowing, [Next]_vars PROVE Flowing'
    OBVIOUS
  <1>1. ASSUME UNCHANGED <<trace, sequence, acts>> PROVE Flowing'
    BY <1>1 DEF Flowing
  <1>2. ASSUME NEW t \in Task, NEW ok \in BOOLEAN, task[t] # <<>>, Finish(t, ok),
               Head(task[t]).call.tool # "act", acts' = acts PROVE Flowing'
    BY <1>2, FlowFinish
  <1>3. ASSUME NEW t \in Task, NEW c \in Call, Request(t, c) PROVE Flowing'
    BY <1>1, <1>3 DEF Request
  <1>4. ASSUME NEW t \in Task, Step(t) \/ Raise(t) PROVE Flowing'
    BY <1>1, <1>4 DEF Step, Raise
  <1>5. ASSUME NEW t \in Task, NEW ok \in BOOLEAN, Answer(t, ok) PROVE Flowing'
    <2>1. /\ task[t] # <<>> /\ Finish(t, ok)
          /\ acts' = IF Head(task[t]).call.tool = "act" /\ ok
                     THEN Append(acts, Head(task[t]).call.act) ELSE acts
      BY <1>5 DEF Answer, Top
    <2> QED
      BY <2>1, FlowFinish
  <1>6. ASSUME NEW t \in Task, NEW ok \in BOOLEAN, Looked(t, ok) PROVE Flowing'
    <2>1. task[t] # <<>> /\ Finish(t, ok) /\ Head(task[t]).call.tool # "act" /\ acts' = acts
      BY <1>6 DEF Looked, Top
    <2> QED
      BY <1>2, <2>1
  <1>7. ASSUME NEW t \in Task, PromoteSequence(t) PROVE Flowing'
    <2>1. task[t] # <<>> /\ Head(task[t]).call.tool # "act" /\ acts' = acts
      BY <1>7 DEF PromoteSequence, Top
    <2>2. Finish(t, Kept(Head(task[t]).call) # <<>>)
      BY <1>7 DEF PromoteSequence, Kept
    <2>3. (Kept(Head(task[t]).call) # <<>>) \in BOOLEAN
      OBVIOUS
    <2> QED
      BY <1>2, <2>1, <2>2, <2>3
  <1>8. ASSUME NEW t \in Task, Complete(t) PROVE Flowing'
    <2>1. task[t] # <<>> /\ FrameOK(Head(task[t])) /\ Head(task[t]).call.tool \in Composite /\ acts' = acts
      BY <1>8, TopFacts DEF Complete, Top, Shaped
    <2>2. Finish(t, Head(task[t]).good) \/ Finish(t, Head(task[t]).known)
      BY <1>8 DEF Complete
    <2>3. Head(task[t]).good \in BOOLEAN /\ Head(task[t]).known \in BOOLEAN
      BY <2>1 DEF FrameOK
    <2>4. Head(task[t]).call.tool # "act"
      BY <2>1 DEF Composite
    <2> QED
      BY <1>2, <2>1, <2>2, <2>3, <2>4
  <1>9. CASE UNCHANGED vars
    BY <1>1, <1>9 DEF vars
  <1> QED
    BY <1>3, <1>4, <1>5, <1>6, <1>7, <1>8, <1>9 DEF Next, Progress

LEMMA InitFlow == Init => Flowing
  <1> SUFFICES ASSUME Init PROVE Flowing
    OBVIOUS
  <1>1. trace = <<>> /\ acts = <<>> /\ DOMAIN <<>> = {}
    BY DEF Init
  <1>2. Only(<<>>, FineAmong(<<>>)) = <<>>
    BY OnlyEmpty
  <1>3. Calls(<<>>) = <<>>
    BY <1>1 DEF Calls
  <1>4. ActsAmong(<<>>) = <<>>
    BY OnlyEmpty DEF ActsAmong
  <1>5. Effect(<<>>) = <<>>
    BY <1>1, <1>4 DEF Effect
  <1> QED
    BY <1>1, <1>2, <1>3, <1>5 DEF Flowing, Flow

(* Only promote_sequence writes to the library, of one skill.               *)
LEMMA LearnsOne ==
    ASSUME Shaped, [Next]_vars, NEW k \in Skill, library'[k] # library[k],
           NEW t \in Task, task[t] # task'[t]
    PROVE  PromoteSequence(t) /\ library'[k] = Calls(Kept(Head(task[t]).call))
  <1>1. ~UNCHANGED vars
    BY DEF vars
  <1>2. ASSUME NEW u \in Task, NEW c \in Call PROVE ~Request(u, c)
    BY DEF Request
  <1>3. PICK u \in Task : PromoteSequence(u)
    <2>1. PICK u \in Task : Progress(u)
      BY <1>1, <1>2 DEF Next
    <2>2. ~Step(u) /\ ~Complete(u) /\ ~Raise(u)
      BY DEF Step, Complete, Raise
    <2>3. ASSUME NEW ok \in BOOLEAN PROVE ~Answer(u, ok) /\ ~Looked(u, ok)
      BY DEF Answer, Looked
    <2> QED
      BY <2>1, <2>2, <2>3 DEF Progress
  <1> DEFINE c == Head(task[u]).call
  <1>4. /\ task[u] # <<>> /\ c.tool = "promote"
        /\ Finish(u, Kept(c) # <<>>)
        /\ \/ library' = library
           \/ library' = [library EXCEPT ![c.skill] = Calls(Kept(c))]
    BY <1>3 DEF PromoteSequence, Top, Kept
  <1>5. u = t
    <2>1. Types
      BY DEF Shaped
    <2>2. \E s : Become(u, s)
      BY <1>4, <2>1, FinishEffect
    <2> QED
      BY <2>1, <2>2, Becomes
  <1>6. c.skill \in Skill
    BY <1>4, TopFacts DEF Shaped, Asked, Named
  <1> HIDE DEF c
  <1>7. library' = [library EXCEPT ![c.skill] = Calls(Kept(c))]
    BY <1>4
  <1>8. library'[k] = IF k = c.skill THEN Calls(Kept(c)) ELSE library[k]
    <2>1. library = [l \in Skill |-> library[l]]
      BY DEF Shaped, Types
    <2> QED
      BY <1>7, <2>1
  <1> QED
    BY <1>3, <1>5, <1>8 DEF c

LEMMA RepeatsStep == Shaped /\ Flowing /\ [Next]_vars => Repeats
  <1> SUFFICES ASSUME Shaped, Flowing, [Next]_vars, NEW k \in Skill, NEW t \in Task,
                      library'[k] # library[k], sequence <= MaxEntries,
                      Head(task[t]).call.only_ok, task[t] # task'[t],
                      \A i \in DOMAIN trace : trace[i].call.tool # "batch"
               PROVE  Effect(library'[k]) = acts
    BY DEF Repeats
  <1> DEFINE c == Head(task[t]).call
  <1>1. library'[k] = Calls(Kept(c))
    BY LearnsOne
  <1>2. \A e : Eligible(c, e) <=> Fine(e)
    BY DEF Eligible, Wanted, Fine
  <1> HIDE DEF c
  <1>3. Kept(c) = Only(trace, FineAmong(trace))
    BY <1>2 DEF Kept, FineAmong
  <1>4. Effect(Flow(trace)) = acts
    BY DEF Flowing
  <1> QED
    BY <1>1, <1>3, <1>4 DEF Flow

(* A skill promoted from the successful entries does to the device what had *)
(* been done, once and in that order, for any requests, calls and skills,   *)
(* as long as the trace has dropped no entry and holds no batch.            *)
THEOREM FlowsKept == Spec => FlowKept
  <1>1. Init => Shaped /\ Teller /\ BatchHonest /\ Flowing
    BY InitShape, InitTells, InitFlow
  <1>2. Shaped /\ Teller /\ BatchHonest /\ Flowing /\ [Next]_vars => Shaped' /\ Teller' /\ BatchHonest' /\ Flowing'
    BY ShapeStep, TellerStep, FlowingStep
  <1>3. Shaped /\ Flowing /\ [Next]_vars => Repeats
    BY RepeatsStep
  <1> QED
    BY <1>1, <1>2, <1>3, PTL DEF Spec, FlowKept
=============================================================================
