------------------------ MODULE DebugSessionsProofs ------------------------
(***************************************************************************)
(* The registry of debug sessions, proved for any number of processes,     *)
(* requests and sessions: the default target is a registered session, and  *)
(* no daemon is lost by a timeout, a stop or a list.  For one process,     *)
(* also that a restart finds the records, and that it implements           *)
(* SessionService.                                                         *)
(***************************************************************************)
EXTENDS DebugSessions, SequenceTheorems, TLAPS

TaskType == [pc : {"free", "launch", "stop", "list"}, sid : Sid \cup {NoSid},
             todo : SUBSET Sid]

Targets == sessions \in [Proc -> Seq(Sid)] /\ recent \in [Proc -> Sid \cup {NoSid}]

-----------------------------------------------------------------------------
(* The default target: what enters and what leaves the registry.            *)
LEMMA RangeOf ==
    ASSUME NEW q \in Seq(Sid)
    PROVE  /\ DOMAIN q = 1..Len(q) /\ Len(q) \in Nat
           /\ \A x : x \in Range(q) <=> \E i \in 1..Len(q) : q[i] = x
  BY LenProperties DEF Range

LEMMA KeepRange ==
    ASSUME Targets, NEW p \in Proc, NEW s \in Sid
    PROVE  /\ Keep(p, s) \in Seq(Sid) /\ Keep(p, s) # <<>>
           /\ s \in Range(Keep(p, s)) /\ Registered(p) \subseteq Range(Keep(p, s))
           /\ Range(Keep(p, s)) \subseteq Registered(p) \cup {s}
  <1> DEFINE q == sessions[p]
  <1>1. q \in Seq(Sid)
    BY DEF Targets
  <1> HIDE DEF q
  <1>2. CASE s \in Range(q)
    <2>1. q # <<>>
      BY <1>1, <1>2, RangeOf, EmptySeq
    <2> QED BY <1>1, <1>2, <2>1 DEF Keep, Registered, q
  <1>3. CASE s \notin Range(q)
    <2>1. PICK k : k = Append(q, s)
      OBVIOUS
    <2>2. k \in Seq(Sid) /\ Len(k) = Len(q) + 1 /\ k[Len(q) + 1] = s
          /\ \A i \in 1..Len(q) : k[i] = q[i]
      BY <1>1, <2>1, AppendProperties
    <2>3. Len(q) \in Nat
      BY <1>1, RangeOf
    <2>4. s \in Range(k) /\ Range(q) \subseteq Range(k) /\ Range(k) \subseteq Range(q) \cup {s}
      BY <1>1, <2>2, <2>3, RangeOf
    <2>5. k # <<>>
      BY <2>2, <2>3, EmptySeq
    <2> QED BY <1>3, <2>1, <2>2, <2>4, <2>5 DEF Keep, Registered, q
  <1> QED BY <1>2, <1>3

\* What a key that leaves makes of the sequence of keys.
LEMMA WithoutIs ==
    ASSUME Targets, NEW p \in Proc, NEW s \in Registered(p)
    PROVE  LET q == sessions[p]
               w == Without(p, s)
           IN  /\ w \in Seq(Sid) /\ Len(w) = Len(q) - 1
               /\ \E n \in 1..Len(q) : /\ q[n] = s
                                       /\ \A i \in 1..Len(w) : w[i] = IF i < n THEN q[i] ELSE q[i + 1]
  <1> DEFINE q == sessions[p]
  <1>1. q \in Seq(Sid)
    BY DEF Targets
  <1>2. PICK n : n = Place(p, s)
    OBVIOUS
  <1>3. n \in 1..Len(q) /\ q[n] = s
    <2>1. \E i \in DOMAIN q : q[i] = s
      BY <1>1, RangeOf DEF Registered
    <2>2. n \in DOMAIN q /\ q[n] = s
      BY <1>2, <2>1 DEF Place
    <2> QED BY <1>1, <2>2, RangeOf
  <1>4. PICK front : front = SubSeq(q, 1, n - 1)
    OBVIOUS
  <1>5. PICK back : back = SubSeq(q, n + 1, Len(q))
    OBVIOUS
  <1>6. Without(p, s) = front \o back
    BY <1>2, <1>4, <1>5 DEF Without, RemoveAt, q
  <1> HIDE DEF q
  <1>7. Len(q) \in Nat
    BY <1>1, RangeOf
  <1>8. front \in Seq(Sid) /\ Len(front) = n - 1 /\ \A i \in 1..(n - 1) : front[i] = q[i]
    <2>1. \A i \in 1..(n - 1) : q[i] \in Sid
      BY <1>1, <1>3, <1>7, ElementOfSeq
    <2> QED BY <1>1, <1>3, <1>4, <1>7, <2>1, SubSeqProperties
  <1>9. /\ back \in Seq(Sid) /\ Len(back) = Len(q) - n
        /\ \A i \in 1..(Len(q) - n) : back[i] = q[n + i]
    BY <1>1, <1>3, <1>5, <1>7, SubSeqProperties
  <1>10. PICK w : w = front \o back
    OBVIOUS
  <1>11. /\ w \in Seq(Sid) /\ Len(w) = Len(q) - 1
         /\ \A i \in 1..Len(w) : w[i] = IF i <= Len(front) THEN front[i] ELSE back[i - Len(front)]
    <2>1. w \in Seq(Sid) /\ Len(w) = Len(front) + Len(back)
      BY <1>8, <1>9, <1>10, ConcatProperties
    <2>2. \A i \in 1..(Len(front) + Len(back)) :
            w[i] = IF i <= Len(front) THEN front[i] ELSE back[i - Len(front)]
      BY <1>8, <1>9, <1>10, ConcatProperties
    <2> QED BY <1>3, <1>7, <1>8, <1>9, <2>1, <2>2
  <1>12. ASSUME NEW i \in 1..Len(w) PROVE w[i] = IF i < n THEN q[i] ELSE q[i + 1]
    <2>1. CASE i < n
      BY <1>3, <1>7, <1>8, <1>11, <2>1
    <2>2. CASE ~ (i < n)
      <3>1. ~ (i <= Len(front)) /\ i - Len(front) \in 1..(Len(q) - n) /\ n + (i - Len(front)) = i + 1
        BY <1>3, <1>7, <1>8, <1>11, <2>2
      <3> QED BY <1>9, <1>11, <2>2, <3>1
    <2> QED BY <2>1, <2>2
  <1> QED BY <1>3, <1>6, <1>10, <1>11, <1>12 DEF q

LEMMA WithoutRange ==
    ASSUME Targets, NEW p \in Proc, NEW s \in Sid
    PROVE  /\ Without(p, s) \in Seq(Sid)
           /\ \A x \in Registered(p) \ {s} : x \in Range(Without(p, s))
           /\ Range(Without(p, s)) \subseteq Registered(p)
  <1> DEFINE q == sessions[p]
             w == Without(p, s)
  <1>1. q \in Seq(Sid) /\ Registered(p) = Range(q)
    BY DEF Targets, Registered
  <1>2. CASE s \notin Registered(p)
    BY <1>1, <1>2 DEF Without, Registered
  <1>3. CASE s \in Registered(p)
    <2>1. /\ w \in Seq(Sid) /\ Len(w) = Len(q) - 1
          /\ \E n \in 1..Len(q) : /\ q[n] = s
                                  /\ \A i \in 1..Len(w) : w[i] = IF i < n THEN q[i] ELSE q[i + 1]
      BY <1>3, WithoutIs
    <2>2. PICK n \in 1..Len(q) :
            q[n] = s /\ \A i \in 1..Len(w) : w[i] = IF i < n THEN q[i] ELSE q[i + 1]
      BY <2>1
    <2> HIDE DEF q, w
    <2>3. Len(q) \in Nat
      BY <1>1, RangeOf
    <2>4. ASSUME NEW x \in Range(q) \ {s} PROVE x \in Range(w)
      <3>1. PICK i \in 1..Len(q) : q[i] = x
        BY <1>1, <2>4, RangeOf
      <3>2. PICK j : j = IF i < n THEN i ELSE i - 1
        OBVIOUS
      <3>3. i # n
        BY <2>2, <2>4, <3>1
      <3>4. j \in 1..Len(w) /\ (j < n <=> i < n) /\ (~ (i < n) => j + 1 = i)
        BY <2>1, <2>3, <3>1, <3>2, <3>3
      <3>5. w[j] = x
        BY <2>2, <3>1, <3>2, <3>4
      <3> QED BY <2>1, <3>4, <3>5, RangeOf
    <2>5. ASSUME NEW x \in Range(w) PROVE x \in Range(q)
      <3>1. PICK i \in 1..Len(w) : w[i] = x
        BY <2>1, <2>5, RangeOf
      <3>2. PICK j : j = IF i < n THEN i ELSE i + 1
        OBVIOUS
      <3>3. j \in 1..Len(q)
        BY <2>1, <2>3, <3>1, <3>2
      <3>4. q[j] = x
        BY <2>2, <3>1, <3>2
      <3> QED BY <1>1, <3>3, <3>4, RangeOf
    <2> QED BY <1>1, <2>1, <2>4, <2>5 DEF w
  <1> QED BY <1>2, <1>3

\* The keys of a dict are distinct, whatever enters and leaves.
Distinct(q) == \A i, j \in 1..Len(q) : q[i] = q[j] => i = j

LEMMA KeepDistinct ==
    ASSUME Targets, NEW p \in Proc, NEW s \in Sid, Distinct(sessions[p])
    PROVE  Distinct(Keep(p, s))
  <1>1. PICK q \in Seq(Sid) : q = sessions[p]
    BY DEF Targets
  <1>2. CASE s \in Range(q)
    BY <1>1, <1>2 DEF Keep, Registered
  <1>3. CASE s \notin Range(q)
    <2>1. PICK k : k = Append(q, s)
      OBVIOUS
    <2>2. Len(k) = Len(q) + 1 /\ k[Len(q) + 1] = s /\ \A i \in 1..Len(q) : k[i] = q[i]
      BY <1>1, <2>1, AppendProperties
    <2>3. Len(q) \in Nat /\ \A i \in 1..Len(q) : q[i] # s
      BY <1>1, <1>3, RangeOf
    <2>4. Distinct(k)
      BY <1>1, <2>2, <2>3 DEF Distinct
    <2> QED BY <1>1, <1>3, <2>1, <2>4 DEF Keep, Registered
  <1> QED BY <1>2, <1>3

LEMMA WithoutDistinct ==
    ASSUME Targets, NEW p \in Proc, NEW s \in Sid, Distinct(sessions[p])
    PROVE  Distinct(Without(p, s)) /\ s \notin Range(Without(p, s))
  <1> DEFINE q == sessions[p]
             w == Without(p, s)
  <1>1. q \in Seq(Sid) /\ Registered(p) = Range(q) /\ Distinct(q)
    BY DEF Targets, Registered
  <1>2. CASE s \notin Registered(p)
    BY <1>1, <1>2 DEF Without, Registered
  <1>3. CASE s \in Registered(p)
    <2>1. /\ w \in Seq(Sid) /\ Len(w) = Len(q) - 1
          /\ \E n \in 1..Len(q) : /\ q[n] = s
                                  /\ \A i \in 1..Len(w) : w[i] = IF i < n THEN q[i] ELSE q[i + 1]
      BY <1>3, WithoutIs
    <2>2. PICK n \in 1..Len(q) :
            q[n] = s /\ \A i \in 1..Len(w) : w[i] = IF i < n THEN q[i] ELSE q[i + 1]
      BY <2>1
    <2> HIDE DEF q, w
    <2>3. Len(q) \in Nat
      BY <1>1, RangeOf
    <2>4. Distinct(w)
      BY <1>1, <2>1, <2>2, <2>3 DEF Distinct
    <2>5. \A i \in 1..Len(w) : w[i] # s
      BY <1>1, <2>1, <2>2, <2>3 DEF Distinct
    <2>6. s \notin Range(w)
      BY <2>1, <2>5, RangeOf
    <2> QED BY <2>4, <2>6 DEF w
  <1> QED BY <1>2, <1>3

-----------------------------------------------------------------------------
DInv == Targets /\ DefaultTarget

\* One process changes its registry.
Turns(p, q, r) ==
    sessions' = [sessions EXCEPT ![p] = q] /\ recent' = [recent EXCEPT ![p] = r]

LEMMA TurnsKeep ==
    ASSUME DInv, NEW p \in Proc, NEW q \in Seq(Sid), NEW r \in Sid \cup {NoSid}, Turns(p, q, r),
           IF q = <<>> THEN r = NoSid ELSE r \in Range(q)
    PROVE  DInv'
  <1>1. Targets'
    BY DEF Turns, DInv, Targets
  <1>2. ASSUME NEW u \in Proc
        PROVE  IF sessions'[u] = <<>> THEN recent'[u] = NoSid ELSE recent'[u] \in Range(sessions'[u])
    <2>1. CASE u = p
      <3>1. sessions'[u] = q /\ recent'[u] = r
        BY <2>1 DEF Turns, DInv, Targets
      <3> QED BY <3>1
    <2>2. CASE u # p
      <3>1. sessions'[u] = sessions[u] /\ recent'[u] = recent[u]
        BY <2>2 DEF Turns, DInv, Targets
      <3>2. IF sessions[u] = <<>> THEN recent[u] = NoSid ELSE recent[u] \in Range(sessions[u])
        BY DEF DInv, DefaultTarget, Registered
      <3> QED BY <3>1, <3>2
    <2> QED BY <2>1, <2>2
  <1> QED BY <1>1, <1>2 DEF DInv, DefaultTarget, Registered

LEMMA EnterKeeps ==
    ASSUME DInv, NEW p \in Proc, NEW s \in Sid, Enter(p, s)
    PROVE  DInv'
  <1>1. PICK q : q = Keep(p, s)
    OBVIOUS
  <1>2. q \in Seq(Sid) /\ q # <<>> /\ s \in Range(q)
    BY <1>1, KeepRange DEF DInv
  <1>3. Turns(p, q, s)
    BY <1>1 DEF Enter, Turns
  <1> QED BY <1>2, <1>3, TurnsKeep

LEMMA StopBeginKeeps ==
    ASSUME DInv, NEW p \in Proc, NEW t \in Task, NEW s \in Sid, StopBegin(p, t, s)
    PROVE  DInv'
  <1>1. PICK q : q = Without(p, s)
    OBVIOUS
  <1>2. q \in Seq(Sid) /\ \A x \in Registered(p) \ {s} : x \in Range(q)
    BY <1>1, WithoutRange DEF DInv
  <1>3. PICK r : r = IF recent[p] = s THEN Newest(q) ELSE recent[p]
    OBVIOUS
  <1>4. Turns(p, q, r)
    BY <1>1, <1>3 DEF StopBegin, Turns, DInv, Targets
  <1>5. q # <<>> => Newest(q) \in Range(q) /\ Newest(q) \in Sid
    <2>1. SUFFICES ASSUME q # <<>> PROVE Newest(q) \in Range(q) /\ Newest(q) \in Sid
      OBVIOUS
    <2>2. Len(q) \in Nat \ {0}
      BY <1>2, <2>1, EmptySeq
    <2>3. q[Len(q)] \in Sid /\ q[Len(q)] \in Range(q)
      BY <1>2, <2>2, RangeOf, ElementOfSeq
    <2> QED BY <2>1, <2>3 DEF Newest
  <1>6. IF q = <<>> THEN r = NoSid ELSE r \in Range(q)
    <2>1. CASE recent[p] = s
      BY <1>3, <1>5, <2>1 DEF Newest
    <2>2. CASE recent[p] # s
      <3>1. CASE sessions[p] = <<>>
        <4>1. recent[p] = NoSid /\ q = <<>>
          <5>1. ~ \E x : x \in Registered(p)
            BY <3>1 DEF Registered, Range
          <5>2. q = sessions[p]
            BY <1>1, <5>1 DEF Without
          <5> QED BY <3>1, <5>2 DEF DInv, DefaultTarget
        <4> QED BY <1>3, <2>2, <4>1
      <3>2. CASE sessions[p] # <<>>
        <4>1. recent[p] \in Range(q)
          BY <1>2, <2>2, <3>2 DEF DInv, DefaultTarget
        <4>2. q # <<>>
          BY <1>2, <4>1, RangeOf, EmptySeq
        <4> QED BY <1>3, <2>2, <4>1, <4>2
      <3> QED BY <3>1, <3>2
    <2> QED BY <2>1, <2>2
  <1>7. r \in Sid \cup {NoSid}
    BY <1>3, <1>5 DEF DInv, Targets, Newest
  <1> QED BY <1>2, <1>4, <1>6, <1>7, TurnsKeep

LEMMA ListNextKeeps ==
    ASSUME DInv, NEW p \in Proc, NEW t \in Task, NEW s \in Sid, ListNext(p, t, s)
    PROVE  DInv'
  <1>1. CASE Prune(p, s)
    <2>1. UNCHANGED <<sessions, recent>>
      BY <1>1 DEF Prune
    <2> QED BY <2>1 DEF DInv, Targets, DefaultTarget, Registered
  <1>2. CASE Revive(p, s)
    <2>1. PICK q : q = Keep(p, s)
      OBVIOUS
    <2>2. q \in Seq(Sid) /\ q # <<>> /\ s \in Range(q) /\ Registered(p) \subseteq Range(q)
      BY <2>1, KeepRange DEF DInv
    <2>3. PICK r : r = IF recent[p] = NoSid THEN s ELSE recent[p]
      OBVIOUS
    <2>4. Turns(p, q, r)
      BY <1>2, <2>1, <2>3 DEF Revive, Turns, DInv, Targets
    <2>5. r \in Range(q)
      BY <2>2, <2>3 DEF DInv, DefaultTarget
    <2>6. r \in Sid \cup {NoSid}
      BY <2>3 DEF DInv, Targets
    <2> QED BY <2>2, <2>4, <2>5, <2>6, TurnsKeep
  <1> QED BY <1>1, <1>2 DEF ListNext

LEMMA ForgetKeeps ==
    ASSUME DInv, NEW p \in Proc, Forget(p)
    PROVE  DInv'
  <1>1. <<>> \in Seq(Sid)
    BY EmptySeq
  <1>2. Turns(p, <<>>, NoSid)
    BY DEF Forget, Turns
  <1> QED BY <1>1, <1>2, TurnsKeep

-----------------------------------------------------------------------------
(* Daemons.  Only ids that were given out are anywhere (InUse); a record    *)
(* that waits for a probe is no session of a client or a launch of that     *)
(* process (Apart); what a process has in hand no other one spawned (Ours); *)
(* a process that ended holds nothing (Down).                               *)
Typed ==
    /\ up \subseteq Proc
    /\ task \in [Proc -> [Task -> TaskType]]
    /\ clients \in [Proc -> SUBSET Sid] /\ reattach \in [Proc -> SUBSET Sid]
    /\ writing \in [Proc -> SUBSET SUBSET Sid] /\ store \subseteq Sid /\ used \subseteq Sid
    /\ daemon \in [Sid -> Proc \cup {NoProc}]

InUse ==
    /\ store \subseteq used
    /\ \A p \in Proc :
         /\ clients[p] \subseteq used /\ reattach[p] \subseteq used
         /\ \A w \in writing[p] : w \subseteq used
         /\ \A t \in Task : /\ task[p][t].todo \subseteq used
                            /\ task[p][t].pc \in {"launch", "stop"} => task[p][t].sid \in used

Waits(p, s) == s \in reattach[p] \/ \E t \in Task : s \in task[p][t].todo
Works(p, t, s) == task[p][t].pc \in {"launch", "stop"} /\ task[p][t].sid = s
Launches(p, t, s) == task[p][t].pc = "launch" /\ task[p][t].sid = s

Apart ==
    \A p \in Proc, s \in Sid :
      (s \in clients[p] \/ \E t \in Task : Launches(p, t, s)) => ~ Waits(p, s)

Ours ==
    \A p \in Proc, s \in Sid :
      (s \in clients[p] \/ \E t \in Task : Works(p, t, s)) => daemon[s] \in {p, NoProc}

Held(s) == \E p \in up : s \in clients[p] \/ \E t \in Task : Works(p, t, s)
Tended == \A s \in Sid : daemon[s] # NoProc => Held(s) \/ s \in cut

Down == \A p \in Proc \ up : clients[p] = {} /\ \A t \in Task : task[p][t] = Free

OInv == Typed /\ InUse /\ Apart /\ Ours /\ Tended /\ Down

\* One request of one process: what it may change.
Effect(p, t, st) ==
    /\ up' = up /\ p \in up /\ st \in TaskType /\ Become(p, t, st)
    /\ \A q \in Proc \ {p} : UNCHANGED <<clients[q], reattach[q], writing[q]>>
    /\ clients' \in [Proc -> SUBSET Sid] /\ reattach' \in [Proc -> SUBSET Sid]
    /\ writing' \in [Proc -> SUBSET SUBSET Sid] /\ store' = store
    /\ used' \subseteq Sid /\ used \subseteq used' /\ cut \subseteq cut'
    /\ daemon' \in [Sid -> Proc \cup {NoProc}]

\* What a process waits to probe only becomes less; a launch is of a new id.
Narrows(p, t, st) ==
    /\ \A s \in Sid : s \in reattach'[p] \/ s \in st.todo => Waits(p, s)
    /\ \A s \in clients'[p] : s \in clients[p] \/ Launches(p, t, s)
    /\ st.pc = "launch" => st.sid \in used' \ used
    /\ st.pc = "stop" => st.sid \in clients[p]
    /\ \A w \in writing'[p] : w \subseteq used'

\* A daemon is spawned by a launch and given up with what it was in.
Spawns(p, t, st) ==
    /\ \A s \in Sid : \/ daemon'[s] \in {daemon[s], NoProc}
                      \/ daemon'[s] = p /\ s \notin used /\ st.pc = "launch" /\ st.sid = s
    /\ st.pc = "launch" => daemon'[st.sid] = p
    /\ \A s \in Sid : daemon'[s] # NoProc /\ (s \in clients[p] \/ Works(p, t, s)) =>
         s \in clients'[p] \cup cut' \/ (st.pc \in {"launch", "stop"} /\ st.sid = s)

LEMMA OneMoves ==
    ASSUME Typed, NEW p \in Proc, NEW t \in Task, NEW st, Effect(p, t, st)
    PROVE  /\ task' \in [Proc -> [Task -> TaskType]] /\ task'[p][t] = st
           /\ \A u \in Task \ {t} : task'[p][u] = task[p][u]
           /\ \A q \in Proc \ {p} : task'[q] = task[q]
  BY DEF Effect, Become, Typed

LEMMA EffectKeeps ==
    ASSUME OInv, NEW p \in Proc, NEW t \in Task, NEW st,
           Effect(p, t, st), Narrows(p, t, st), Spawns(p, t, st)
    PROVE  OInv'
  <1>1. /\ task' \in [Proc -> [Task -> TaskType]] /\ task'[p][t] = st
        /\ \A u \in Task \ {t} : task'[p][u] = task[p][u]
        /\ \A q \in Proc \ {p} : task'[q] = task[q]
    BY OneMoves DEF OInv
  <1>2. Typed'
    BY <1>1 DEF Effect, OInv, Typed
  <1>3. InUse'
    <2>1. ASSUME NEW q \in Proc
          PROVE  /\ clients'[q] \subseteq used' /\ reattach'[q] \subseteq used'
                 /\ \A w \in writing'[q] : w \subseteq used'
      <3>1. CASE q = p
        <4>1. clients'[p] \subseteq used'
          BY DEF Narrows, Effect, OInv, InUse, Launches
        <4>2. reattach'[p] \subseteq used'
          BY DEF Narrows, Effect, OInv, InUse, Waits
        <4> QED BY <3>1, <4>1, <4>2 DEF Narrows
      <3>2. CASE q # p
        <4>1. UNCHANGED <<clients[q], reattach[q], writing[q]>>
          BY <3>2 DEF Effect
        <4> QED BY <4>1 DEF Effect, OInv, InUse
      <3> QED BY <3>1, <3>2
    <2>2. ASSUME NEW q \in Proc, NEW u \in Task
          PROVE  /\ task'[q][u].todo \subseteq used'
                 /\ task'[q][u].pc \in {"launch", "stop"} => task'[q][u].sid \in used'
      <3>1. CASE q = p /\ u = t
        <4>1. st.todo \subseteq used'
          BY DEF Narrows, Effect, OInv, InUse, Waits, TaskType
        <4>2. st.pc \in {"launch", "stop"} => st.sid \in used'
          BY DEF Narrows, Effect, OInv, InUse
        <4> QED BY <1>1, <3>1, <4>1, <4>2
      <3>2. CASE ~ (q = p /\ u = t)
        <4>1. task'[q][u] = task[q][u]
          BY <1>1, <3>2
        <4> QED BY <4>1 DEF Effect, OInv, InUse
      <3> QED BY <3>1, <3>2
    <2> QED BY <2>1, <2>2 DEF Effect, OInv, InUse
  <1>4. ASSUME NEW q \in Proc \ {p}, NEW s \in Sid
        PROVE  /\ (s \in clients'[q] <=> s \in clients[q]) /\ (Waits(q, s)' <=> Waits(q, s))
               /\ \A u \in Task : (Launches(q, u, s)' <=> Launches(q, u, s))
                                  /\ (Works(q, u, s)' <=> Works(q, u, s))
    BY <1>1 DEF Effect, Waits, Launches, Works
  <1>5. Apart'
    <2>1. ASSUME NEW s \in Sid, Waits(p, s)' PROVE Waits(p, s)
      BY <1>1, <2>1 DEF Narrows, Waits
    <2>2. ASSUME NEW s \in Sid, s \in clients'[p] \/ \E u \in Task : Launches(p, u, s)'
          PROVE  ~ Waits(p, s)
      <3>1. CASE s \in clients[p] \/ \E u \in Task : Launches(p, u, s)
        BY <3>1 DEF OInv, Apart
      <3>2. CASE ~ (s \in clients[p] \/ \E u \in Task : Launches(p, u, s))
        <4>1. s \notin used
          BY <1>1, <2>2, <3>2 DEF Narrows, Launches
        <4> QED BY <4>1 DEF OInv, InUse, Waits
      <3> QED BY <3>1, <3>2
    <2>3. ASSUME NEW q \in Proc, NEW s \in Sid,
                 s \in clients'[q] \/ \E u \in Task : Launches(q, u, s)'
          PROVE  ~ Waits(q, s)'
      <3>1. CASE q = p
        BY <2>1, <2>2, <2>3, <3>1
      <3>2. CASE q # p
        BY <1>4, <2>3, <3>2 DEF OInv, Apart
      <3> QED BY <3>1, <3>2
    <2> QED BY <2>3 DEF Apart
  <1>6. Ours'
    <2>1. ASSUME NEW q \in Proc, NEW s \in Sid, s \in clients[q] \/ \E u \in Task : Works(q, u, s)
          PROVE  daemon'[s] \in {q, NoProc}
      <3>1. s \in used /\ daemon[s] \in {q, NoProc}
        BY <2>1 DEF OInv, InUse, Ours, Works
      <3> QED BY <3>1 DEF Spawns
    <2>2. ASSUME NEW s \in Sid, s \in clients'[p] \/ \E u \in Task : Works(p, u, s)'
          PROVE  daemon'[s] \in {p, NoProc}
      <3>1. CASE s \in clients[p] \/ \E u \in Task : Works(p, u, s)
        BY <2>1, <3>1
      <3>2. CASE ~ (s \in clients[p] \/ \E u \in Task : Works(p, u, s))
        <4>1. st.pc = "launch" /\ st.sid = s
          BY <1>1, <2>2, <3>2 DEF Narrows, Launches, Works
        <4> QED BY <4>1 DEF Spawns
      <3> QED BY <3>1, <3>2
    <2>3. ASSUME NEW q \in Proc, NEW s \in Sid,
                 s \in clients'[q] \/ \E u \in Task : Works(q, u, s)'
          PROVE  daemon'[s] \in {q, NoProc}
      <3>1. CASE q = p
        BY <2>2, <2>3, <3>1
      <3>2. CASE q # p
        BY <1>4, <2>1, <2>3, <3>2
      <3> QED BY <3>1, <3>2
    <2> QED BY <2>3 DEF Ours
  <1>7. Tended'
    <2>1. ASSUME NEW s \in Sid, daemon'[s] # NoProc, s \notin cut' PROVE Held(s)'
      <3>1. CASE st.pc = "launch" /\ st.sid = s
        BY <1>1, <3>1 DEF Held, Works, Effect
      <3>2. CASE ~ (st.pc = "launch" /\ st.sid = s)
        <4>1. daemon[s] # NoProc
          BY <2>1, <3>2 DEF Spawns
        <4>2. PICK q \in up : s \in clients[q] \/ \E u \in Task : Works(q, u, s)
          BY <2>1, <4>1 DEF OInv, Tended, Held, Effect
        <4>3. q \in Proc /\ q \in up'
          BY DEF OInv, Typed, Effect
        <4>4. CASE q # p
          BY <1>4, <4>2, <4>3, <4>4 DEF Held
        <4>5. CASE q = p
          <5>1. CASE s \in clients[p] \/ Works(p, t, s)
            <6>1. s \in clients'[p] \/ (st.pc \in {"launch", "stop"} /\ st.sid = s)
              BY <2>1, <5>1 DEF Spawns
            <6> QED BY <1>1, <4>3, <4>5, <6>1 DEF Held, Works
          <5>2. CASE \E u \in Task \ {t} : Works(p, u, s)
            <6>1. \E u \in Task : Works(p, u, s)'
              BY <1>1, <5>2 DEF Works
            <6> QED BY <4>3, <4>5, <6>1 DEF Held
          <5> QED BY <4>2, <4>5, <5>1, <5>2
        <4> QED BY <4>4, <4>5
      <3> QED BY <3>1, <3>2
    <2> QED BY <2>1 DEF Tended, Effect
  <1>8. Down'
    BY <1>1 DEF Effect, OInv, Down
  <1> QED BY <1>2, <1>3, <1>5, <1>6, <1>7, <1>8 DEF OInv

-----------------------------------------------------------------------------
(* The requests, one by one.                                                *)
LEMMA FreeTyped == Free \in TaskType /\ Free.pc = "free" /\ Free.todo = {}
  BY DEF Free, TaskType

\* The registries of the other processes stay; this one's are well typed.
LEMMA Local ==
    ASSUME Typed, NEW p \in Proc, NEW C \in SUBSET Sid, NEW R \in SUBSET Sid, NEW W \in SUBSET SUBSET Sid,
           clients' = [clients EXCEPT ![p] = C], reattach' = [reattach EXCEPT ![p] = R],
           writing' = [writing EXCEPT ![p] = W]
    PROVE  /\ \A q \in Proc \ {p} : UNCHANGED <<clients[q], reattach[q], writing[q]>>
           /\ clients' \in [Proc -> SUBSET Sid] /\ reattach' \in [Proc -> SUBSET Sid]
           /\ writing' \in [Proc -> SUBSET SUBSET Sid]
           /\ clients'[p] = C /\ reattach'[p] = R /\ writing'[p] = W
  BY DEF Typed

LEMMA Same ==
    ASSUME Typed, NEW p \in Proc, NEW t \in Task
    PROVE  /\ clients = [clients EXCEPT ![p] = clients[p]] /\ clients[p] \in SUBSET Sid
           /\ reattach = [reattach EXCEPT ![p] = reattach[p]] /\ reattach[p] \in SUBSET Sid
           /\ writing = [writing EXCEPT ![p] = writing[p]] /\ writing[p] \in SUBSET SUBSET Sid
           /\ task = [task EXCEPT ![p][t] = task[p][t]] /\ task[p][t] \in TaskType
  BY DEF Typed

LEMMA StartBeginKeeps ==
    ASSUME OInv, NEW p \in Proc, NEW t \in Task, NEW s \in Sid, StartBegin(p, t, s)
    PROVE  OInv'
  <1>1. PICK st : st = [Free EXCEPT !.pc = "launch", !.sid = s]
    OBVIOUS
  <1>2. st \in TaskType /\ st.pc = "launch" /\ st.sid = s /\ st.todo = {}
    BY <1>1 DEF Free, TaskType
  <1>3. daemon' \in [Sid -> Proc \cup {NoProc}] /\ daemon'[s] = p
        /\ \A x \in Sid \ {s} : daemon'[x] = daemon[x]
    BY DEF StartBegin, OInv, Typed
  <1>4. UNCHANGED <<clients, reattach, writing>> /\ used' = used \cup {s} /\ s \notin used
        /\ Become(p, t, st) /\ At(p, t, "free") /\ UNCHANGED <<up, store, cut>>
    BY <1>1 DEF StartBegin, registry
  <1>5. Effect(p, t, st)
    BY <1>2, <1>3, <1>4 DEF Effect, At, OInv, Typed
  <1>6. Narrows(p, t, st)
    BY <1>2, <1>4 DEF Narrows, Waits, OInv, InUse
  <1>7. Spawns(p, t, st)
    BY <1>2, <1>3, <1>4 DEF Spawns, Works, At
  <1> QED BY <1>5, <1>6, <1>7, EffectKeeps

LEMMA StartDoneKeeps ==
    ASSUME OInv, NEW p \in Proc, NEW t \in Task, StartDone(p, t)
    PROVE  OInv'
  <1>1. PICK s : s = task[p][t].sid
    OBVIOUS
  <1>2. At(p, t, "launch") /\ s \in used /\ s \in Sid
    BY <1>1 DEF StartDone, At, OInv, InUse, Typed
  <1>3. /\ clients' = [clients EXCEPT ![p] = clients[p] \cup {s}] /\ UNCHANGED reattach
        /\ writing' = [writing EXCEPT ![p] = {store \cup {s}}]
        /\ Become(p, t, Free) /\ UNCHANGED <<up, store, daemon, used, cut>>
    BY <1>1 DEF StartDone, Enter, Upsert, history, OInv, Typed
  <1>4. /\ \A q \in Proc \ {p} : UNCHANGED <<clients[q], reattach[q], writing[q]>>
        /\ clients' \in [Proc -> SUBSET Sid] /\ reattach' \in [Proc -> SUBSET Sid]
        /\ writing' \in [Proc -> SUBSET SUBSET Sid]
        /\ clients'[p] = clients[p] \cup {s} /\ reattach'[p] = reattach[p]
        /\ writing'[p] = {store \cup {s}}
    <2>1. PICK C \in SUBSET Sid, R \in SUBSET Sid, W \in SUBSET SUBSET Sid :
            C = clients[p] \cup {s} /\ R = reattach[p] /\ W = {store \cup {s}}
      BY <1>2 DEF OInv, Typed
    <2>2. reattach' = [reattach EXCEPT ![p] = R]
      BY <1>3, <2>1, Same DEF OInv
    <2>3. clients' = [clients EXCEPT ![p] = C] /\ writing' = [writing EXCEPT ![p] = W]
      BY <1>3, <2>1
    <2>4. Typed
      BY DEF OInv
    <2> QED BY <2>1, <2>2, <2>3, <2>4, Local
  <1>5. Effect(p, t, Free)
    BY <1>2, <1>3, <1>4, FreeTyped DEF Effect, At, OInv, Typed
  <1>6. Narrows(p, t, Free)
    BY <1>1, <1>2, <1>3, <1>4, FreeTyped DEF Narrows, Waits, Launches, At, OInv, InUse
  <1>7. Spawns(p, t, Free)
    BY <1>1, <1>3, <1>4, FreeTyped DEF Spawns, Works
  <1> QED BY <1>5, <1>6, <1>7, EffectKeeps

\* A request that ends and gives its daemon up.
LEMMA GivesUpKeeps ==
    ASSUME OInv, NEW p \in Proc, NEW t \in Task, StartTimeout(p, t) \/ StopDone(p, t)
    PROVE  OInv'
  <1>1. PICK s : s = task[p][t].sid
    OBVIOUS
  <1>2. p \in up /\ daemon' = [daemon EXCEPT ![s] = NoProc] /\ Become(p, t, Free)
        /\ UNCHANGED <<clients, reattach, writing, up, store, used, cut>>
    BY <1>1 DEF StartTimeout, StopDone, At, registry, history
  <1>3. /\ daemon' \in [Sid -> Proc \cup {NoProc}]
        /\ \A x \in Sid : daemon'[x] \in {daemon[x], NoProc} /\ (x = s => daemon'[x] = NoProc)
    BY <1>2 DEF OInv, Typed
  <1>4. Effect(p, t, Free)
    BY <1>2, <1>3, FreeTyped DEF Effect, OInv, Typed
  <1>5. Narrows(p, t, Free)
    BY <1>2, FreeTyped DEF Narrows, Waits, OInv, InUse
  <1>6. Spawns(p, t, Free)
    BY <1>1, <1>2, <1>3, FreeTyped DEF Spawns, Works
  <1> QED BY <1>4, <1>5, <1>6, EffectKeeps

LEMMA AttachKeeps ==
    ASSUME OInv, NEW p \in Proc, NEW t \in Task, NEW s \in Sid, NEW a \in Sid, Attach(p, t, s, a)
    PROVE  OInv'
  <1>1. PICK st : st = task[p][t]
    OBVIOUS
  <1>2. /\ At(p, t, "free") /\ UNCHANGED <<clients, up, store, daemon, cut, task>>
        /\ reattach' = [reattach EXCEPT ![p] = reattach[p] \ {s}]
        /\ writing' = [writing EXCEPT ![p] = {store \cup {s}}] /\ used' = used \cup {s}
    BY DEF Attach, Enter, Upsert, OInv, Typed
  <1>3. /\ \A q \in Proc \ {p} : UNCHANGED <<clients[q], reattach[q], writing[q]>>
        /\ clients' \in [Proc -> SUBSET Sid] /\ reattach' \in [Proc -> SUBSET Sid]
        /\ writing' \in [Proc -> SUBSET SUBSET Sid]
        /\ clients'[p] = clients[p] /\ reattach'[p] = reattach[p] \ {s}
        /\ writing'[p] = {store \cup {s}}
    <2>1. PICK C \in SUBSET Sid, R \in SUBSET Sid, W \in SUBSET SUBSET Sid :
            C = clients[p] /\ R = reattach[p] \ {s} /\ W = {store \cup {s}}
      BY DEF OInv, Typed
    <2>2. clients' = [clients EXCEPT ![p] = C]
      BY <1>2, <2>1, Same DEF OInv
    <2>3. reattach' = [reattach EXCEPT ![p] = R] /\ writing' = [writing EXCEPT ![p] = W]
      BY <1>2, <2>1
    <2>4. Typed
      BY DEF OInv
    <2> QED BY <2>1, <2>2, <2>3, <2>4, Local
  <1>4. st \in TaskType /\ st.pc = "free" /\ Become(p, t, st)
    BY <1>1, <1>2, Same DEF At, Become, OInv
  <1>5. Effect(p, t, st)
    BY <1>2, <1>3, <1>4 DEF Effect, At, OInv, Typed
  <1>6. Narrows(p, t, st)
    BY <1>1, <1>2, <1>3, <1>4 DEF Narrows, Waits, OInv, InUse
  <1>7. Spawns(p, t, st)
    BY <1>1, <1>2, <1>3, <1>4 DEF Spawns, Works
  <1> QED BY <1>5, <1>6, <1>7, EffectKeeps

LEMMA StopBeginTends ==
    ASSUME OInv, NEW p \in Proc, NEW t \in Task, NEW s \in Sid, StopBegin(p, t, s)
    PROVE  OInv'
  <1>1. PICK st : st = IF s \in clients[p] THEN [Free EXCEPT !.pc = "stop", !.sid = s] ELSE task[p][t]
    OBVIOUS
  <1>2. /\ At(p, t, "free") /\ UNCHANGED <<up, store, daemon, used, cut>> /\ s \in used
        /\ clients' = [clients EXCEPT ![p] = clients[p] \ {s}]
        /\ reattach' = [reattach EXCEPT ![p] = reattach[p] \ {s}]
        /\ writing' = [writing EXCEPT ![p] = {store \ {s}}]
    BY DEF StopBegin, Erase, world, OInv, Typed
  <1>3. /\ \A q \in Proc \ {p} : UNCHANGED <<clients[q], reattach[q], writing[q]>>
        /\ clients' \in [Proc -> SUBSET Sid] /\ reattach' \in [Proc -> SUBSET Sid]
        /\ writing' \in [Proc -> SUBSET SUBSET Sid]
        /\ clients'[p] = clients[p] \ {s} /\ reattach'[p] = reattach[p] \ {s}
        /\ writing'[p] = {store \ {s}}
    <2>1. PICK C \in SUBSET Sid, R \in SUBSET Sid, W \in SUBSET SUBSET Sid :
            C = clients[p] \ {s} /\ R = reattach[p] \ {s} /\ W = {store \ {s}}
      BY DEF OInv, Typed
    <2>2. /\ clients' = [clients EXCEPT ![p] = C] /\ reattach' = [reattach EXCEPT ![p] = R]
          /\ writing' = [writing EXCEPT ![p] = W]
      BY <1>2, <2>1
    <2>3. Typed
      BY DEF OInv
    <2> QED BY <2>1, <2>2, <2>3, Local
  <1>4. /\ st \in TaskType /\ Become(p, t, st) /\ st.pc \in {"free", "stop"}
        /\ s \in clients[p] => st.pc = "stop" /\ st.sid = s /\ st.todo = {}
        /\ s \notin clients[p] => st = task[p][t] /\ st.pc = "free"
    <2>1. CASE s \in clients[p]
      <3>1. st = [Free EXCEPT !.pc = "stop", !.sid = s]
        BY <1>1, <2>1
      <3>2. st \in TaskType /\ st.pc = "stop" /\ st.sid = s /\ st.todo = {}
        BY <3>1 DEF Free, TaskType
      <3>3. Become(p, t, st)
        BY <2>1, <3>1 DEF StopBegin
      <3> QED BY <2>1, <3>2, <3>3
    <2>2. CASE s \notin clients[p]
      <3>1. st = task[p][t] /\ task' = task
        BY <1>1, <2>2 DEF StopBegin
      <3> QED BY <1>2, <2>2, <3>1, Same DEF Become, At, OInv
    <2> QED BY <2>1, <2>2
  <1>5. Effect(p, t, st)
    BY <1>2, <1>3, <1>4 DEF Effect, At, OInv, Typed
  <1>6. Narrows(p, t, st)
    <2>1. \A x \in Sid : x \in reattach'[p] \/ x \in st.todo => Waits(p, x)
      BY <1>3, <1>4 DEF Waits
    <2>2. \A w \in writing'[p] : w \subseteq used'
      BY <1>2, <1>3 DEF OInv, InUse
    <2> QED BY <1>3, <1>4, <2>1, <2>2 DEF Narrows
  <1>7. Spawns(p, t, st)
    <2>1. \A x \in Sid : x \in clients[p] \/ Works(p, t, x) => x \in clients'[p] \/ (st.pc = "stop" /\ st.sid = x)
      BY <1>2, <1>3, <1>4 DEF Works, At
    <2>2. daemon' = daemon /\ st.pc # "launch"
      BY <1>2, <1>4
    <2> QED BY <2>1, <2>2 DEF Spawns
  <1> QED BY <1>5, <1>6, <1>7, EffectKeeps

LEMMA ListTends ==
    ASSUME OInv, NEW p \in Proc, NEW t \in Task,
           ListBegin(p, t) \/ \E s \in Sid : ListNext(p, t, s)
    PROVE  OInv'
  <1>1. CASE ListBegin(p, t)
    <2>1. PICK st : st = [Free EXCEPT !.pc = "list", !.todo = reattach[p] \ Registered(p)]
      OBVIOUS
    <2>2. st \in TaskType /\ st.pc = "list" /\ st.todo \subseteq reattach[p]
      BY <2>1 DEF Free, TaskType, OInv, Typed
    <2>3. /\ At(p, t, "free") /\ Become(p, t, st)
          /\ UNCHANGED <<clients, reattach, writing, up, store, daemon, used, cut>>
      BY <1>1, <2>1 DEF ListBegin, registry, world, history
    <2>4. Effect(p, t, st)
      BY <2>2, <2>3 DEF Effect, At, OInv, Typed
    <2>5. Narrows(p, t, st)
      BY <2>2, <2>3 DEF Narrows, Waits, OInv, InUse
    <2>6. Spawns(p, t, st)
      BY <2>2, <2>3 DEF Spawns, Works, At
    <2> QED BY <2>4, <2>5, <2>6, EffectKeeps
  <1>2. CASE \E s \in Sid : ListNext(p, t, s)
    <2>1. PICK s \in Sid : ListNext(p, t, s)
      BY <1>2
    <2>2. PICK st : st = Left(p, t, s)
      OBVIOUS
    <2>3. /\ At(p, t, "list") /\ s \in task[p][t].todo /\ Become(p, t, st)
          /\ UNCHANGED <<up, store, daemon, used, cut>>
      BY <2>1, <2>2 DEF ListNext, world, history
    <2>4. st \in TaskType /\ st.pc \in {"free", "list"} /\ st.todo \subseteq task[p][t].todo
      <3>1. task[p][t] \in TaskType /\ task[p][t].pc = "list"
        BY <2>3 DEF At, OInv, Typed
      <3> QED BY <2>2, <3>1, FreeTyped DEF TaskType, Left
    <2>5. s \notin clients[p]
      BY <2>3 DEF OInv, Apart, Waits
    <2>6. clients' = clients
      <3>1. clients \in [Proc -> SUBSET Sid] /\ clients[p] \ {s} = clients[p]
        BY <2>5 DEF OInv, Typed
      <3>2. clients' = clients \/ clients' = [clients EXCEPT ![p] = clients[p] \ {s}]
        BY <2>1 DEF ListNext, Prune, Revive
      <3> QED BY <3>1, <3>2
    <2>7. /\ reattach' = [reattach EXCEPT ![p] = reattach[p] \ {s}]
          /\ \/ writing' = writing
             \/ writing' = [writing EXCEPT ![p] = {store \ {s}}]
      BY <2>1 DEF ListNext, Prune, Revive, Erase
    <2>8. /\ \A q \in Proc \ {p} : UNCHANGED <<clients[q], reattach[q], writing[q]>>
          /\ clients' \in [Proc -> SUBSET Sid] /\ reattach' \in [Proc -> SUBSET Sid]
          /\ writing' \in [Proc -> SUBSET SUBSET Sid]
          /\ clients'[p] = clients[p] /\ reattach'[p] = reattach[p] \ {s}
          /\ writing'[p] \in {writing[p], {store \ {s}}}
      <3>1. PICK C \in SUBSET Sid, R \in SUBSET Sid, W \in SUBSET SUBSET Sid :
              /\ C = clients[p] /\ R = reattach[p] \ {s} /\ W \in {writing[p], {store \ {s}}}
              /\ writing' = [writing EXCEPT ![p] = W]
        <4>1. CASE writing' = writing
          <5>1. writing = [writing EXCEPT ![p] = writing[p]] /\ writing[p] \in SUBSET SUBSET Sid
            BY DEF OInv, Typed
          <5>2. clients[p] \in SUBSET Sid /\ reattach[p] \ {s} \in SUBSET Sid
            BY DEF OInv, Typed
          <5> QED BY <4>1, <5>1, <5>2
        <4>2. CASE writing' = [writing EXCEPT ![p] = {store \ {s}}]
          BY <4>2 DEF OInv, Typed
        <4> QED BY <2>7, <4>1, <4>2
      <3>2. clients' = [clients EXCEPT ![p] = C] /\ reattach' = [reattach EXCEPT ![p] = R]
        BY <2>6, <2>7, <3>1, Same DEF OInv
      <3>3. Typed /\ writing' = [writing EXCEPT ![p] = W]
        BY <3>1 DEF OInv
      <3>4. /\ \A q \in Proc \ {p} : UNCHANGED <<clients[q], reattach[q], writing[q]>>
            /\ clients' \in [Proc -> SUBSET Sid] /\ reattach' \in [Proc -> SUBSET Sid]
            /\ writing' \in [Proc -> SUBSET SUBSET Sid]
            /\ clients'[p] = C /\ reattach'[p] = R /\ writing'[p] = W
        BY <3>2, <3>3, Local
      <3> QED BY <3>1, <3>4
    <2>9. Effect(p, t, st)
      BY <2>3, <2>4, <2>8 DEF Effect, At, OInv, Typed
    <2>10. Narrows(p, t, st)
      <3>1. \A x \in Sid : x \in reattach'[p] \/ x \in st.todo => Waits(p, x)
        BY <2>4, <2>8 DEF Waits
      <3>2. \A w \in writing'[p] : w \subseteq used'
        BY <2>3, <2>8 DEF OInv, InUse
      <3> QED BY <2>4, <2>8, <3>1, <3>2 DEF Narrows
    <2>11. Spawns(p, t, st)
      BY <2>3, <2>4, <2>8 DEF Spawns, Works, At
    <2> QED BY <2>9, <2>10, <2>11, EffectKeeps
  <1> QED BY <1>1, <1>2

LEMMA CancelKeeps ==
    ASSUME OInv, NEW p \in Proc, NEW t \in Task, Cancel(p, t)
    PROVE  OInv'
  <1>1. PICK s : s = task[p][t].sid
    OBVIOUS
  <1>2. /\ p \in up /\ Become(p, t, Free)
        /\ UNCHANGED <<clients, reattach, writing, up, store, used>> /\ cut \subseteq cut'
        /\ daemon' \in {daemon, [daemon EXCEPT ![s] = NoProc]}
        /\ \A x \in Sid : Works(p, t, x) /\ daemon'[x] # NoProc => x \in cut'
    BY <1>1 DEF Cancel, At, registry, Works, OInv, Typed
  <1>3. /\ daemon' \in [Sid -> Proc \cup {NoProc}]
        /\ \A x \in Sid : daemon'[x] \in {daemon[x], NoProc}
    BY <1>2 DEF OInv, Typed
  <1>4. Effect(p, t, Free)
    BY <1>2, <1>3, FreeTyped DEF Effect, OInv, Typed
  <1>5. Narrows(p, t, Free)
    BY <1>2, FreeTyped DEF Narrows, Waits, OInv, InUse
  <1>6. Spawns(p, t, Free)
    BY <1>2, <1>3, FreeTyped DEF Spawns
  <1> QED BY <1>4, <1>5, <1>6, EffectKeeps

LEMMA ServeKeeps ==
    ASSUME OInv, NEW p \in Proc, NEW t \in Task, Serve(p, t)
    PROVE  OInv'
  BY CancelKeeps,  StartBeginKeeps, StartDoneKeeps, GivesUpKeeps, AttachKeeps, StopBeginTends, ListTends DEF Serve

-----------------------------------------------------------------------------
(* The other steps.                                                         *)
\* A process ends: nothing is left in its hands, and what is out of hand is cut.
LEMMA ForgetTends ==
    ASSUME OInv, NEW p \in Proc, Forget(p),
           \A s \in Sid : daemon'[s] \in {daemon[s], NoProc},
           daemon' \in [Sid -> Proc \cup {NoProc}],
           \A s \in Sid : daemon'[s] # NoProc /\ (s \in clients[p] \/ \E t \in Task : Works(p, t, s))
                            => s \in cut',
           cut \subseteq cut'
    PROVE  OInv'
  <1>1. /\ clients'[p] = {} /\ reattach'[p] = {} /\ writing'[p] = {}
        /\ \A t \in Task : task'[p][t] = Free
        /\ \A q \in Proc \ {p} : UNCHANGED <<clients[q], reattach[q], writing[q], task[q]>>
        /\ UNCHANGED <<store, used>> /\ up' = up \ {p}
    BY DEF Forget, OInv, Typed
  <1>2. Typed'
    <2>1. /\ clients' \in [Proc -> SUBSET Sid] /\ reattach' \in [Proc -> SUBSET Sid]
          /\ writing' \in [Proc -> SUBSET SUBSET Sid]
      BY DEF Forget, OInv, Typed
    <2>2. task' \in [Proc -> [Task -> TaskType]]
      BY FreeTyped DEF Forget, OInv, Typed
    <2> QED BY <1>1, <2>1, <2>2 DEF OInv, Typed
  <1>3. InUse'
    <2>1. ASSUME NEW q \in Proc
          PROVE  /\ clients'[q] \subseteq used /\ reattach'[q] \subseteq used
                 /\ \A w \in writing'[q] : w \subseteq used
                 /\ \A t \in Task : /\ task'[q][t].todo \subseteq used
                                    /\ task'[q][t].pc \in {"launch", "stop"} => task'[q][t].sid \in used
      <3>1. CASE q = p
        BY <1>1, <3>1, FreeTyped
      <3>2. CASE q # p
        BY <1>1, <3>2 DEF OInv, InUse
      <3> QED BY <3>1, <3>2
    <2> QED BY <1>1, <2>1 DEF OInv, InUse
  <1>4. ASSUME NEW s \in Sid
        PROVE  ~ (s \in clients'[p]) /\ ~ Waits(p, s)' /\ \A t \in Task : ~ Works(p, t, s)' /\ ~ Launches(p, t, s)'
    BY <1>1, FreeTyped DEF Waits, Works, Launches
  <1>5. ASSUME NEW q \in Proc \ {p}, NEW s \in Sid
        PROVE  /\ (s \in clients'[q] <=> s \in clients[q]) /\ (Waits(q, s)' <=> Waits(q, s))
               /\ \A u \in Task : (Launches(q, u, s)' <=> Launches(q, u, s))
                                  /\ (Works(q, u, s)' <=> Works(q, u, s))
    BY <1>1 DEF Waits, Launches, Works
  <1>6. Apart'
    BY <1>4, <1>5 DEF OInv, Apart
  <1>7. Ours'
    <2>1. ASSUME NEW q \in Proc, NEW s \in Sid, s \in clients'[q] \/ \E t \in Task : Works(q, t, s)'
          PROVE  daemon'[s] \in {q, NoProc}
      <3>1. q # p
        BY <1>4, <2>1
      <3>2. daemon[s] \in {q, NoProc}
        BY <1>5, <2>1, <3>1 DEF OInv, Ours
      <3> QED BY <3>2
    <2> QED BY <2>1 DEF Ours
  <1>8. Tended'
    <2>1. ASSUME NEW s \in Sid, daemon'[s] # NoProc, s \notin cut' PROVE Held(s)'
      <3>1. daemon[s] # NoProc /\ s \notin cut
        BY <2>1
      <3>2. PICK q \in up : s \in clients[q] \/ \E u \in Task : Works(q, u, s)
        BY <3>1 DEF OInv, Tended, Held
      <3>3. q # p
        BY <2>1, <3>2
      <3>4. q \in Proc /\ q \in up'
        BY <1>1, <3>3 DEF OInv, Typed
      <3> QED BY <1>5, <3>2, <3>3, <3>4 DEF Held
    <2> QED BY <2>1 DEF Tended
  <1>9. Down'
    BY <1>1 DEF OInv, Down
  <1> QED BY <1>2, <1>3, <1>6, <1>7, <1>8, <1>9 DEF OInv

\* What a process has in flight, as the module counts it.
LEMMA FlightIsWork ==
    ASSUME NEW p \in Proc, NEW s
    PROVE  s \in InFlight(p) <=> \E t \in Task : Works(p, t, s)
  BY DEF InFlight, Launching, Stopping, Works

LEMMA ExitKeeps ==
    ASSUME OInv, NEW p \in Proc, Exit(p)
    PROVE  OInv'
  <1>1. daemon' = [s \in Sid |-> IF s \in clients[p] THEN NoProc ELSE daemon[s]]
        /\ cut' = cut \cup InFlight(p) /\ Forget(p)
    BY DEF Exit
  <1>2. daemon' \in [Sid -> Proc \cup {NoProc}] /\ \A s \in Sid : daemon'[s] \in {daemon[s], NoProc}
    BY <1>1 DEF OInv, Typed
  <1>3. \A s \in clients[p] : s \in Sid => daemon'[s] = NoProc
    BY <1>1
  <1>4. \A s \in Sid : (\E t \in Task : Works(p, t, s)) => s \in cut'
    BY <1>1, FlightIsWork
  <1>5. cut \subseteq cut'
    BY <1>1
  <1> QED BY <1>1, <1>2, <1>3, <1>4, <1>5, ForgetTends

LEMMA CrashKeeps ==
    ASSUME OInv, NEW p \in Proc, Crash(p)
    PROVE  OInv'
  <1>1. PICK orphans \in SUBSET {s \in Sid : daemon[s] = p} :
          /\ daemon' = [s \in Sid |-> IF daemon[s] = p /\ s \notin orphans THEN NoProc ELSE daemon[s]]
          /\ cut' = cut \cup orphans
    BY DEF Crash
  <1>2. daemon' \in [Sid -> Proc \cup {NoProc}] /\ \A s \in Sid : daemon'[s] \in {daemon[s], NoProc}
    BY <1>1 DEF OInv, Typed
  <1>3. \A s \in Sid : daemon'[s] # NoProc /\ (s \in clients[p] \/ \E t \in Task : Works(p, t, s))
                         => s \in cut'
    BY <1>1 DEF OInv, Ours
  <1>4. Forget(p) /\ cut \subseteq cut'
    BY <1>1 DEF Crash
  <1> QED BY <1>2, <1>3, <1>4, ForgetTends

LEMMA BootKeeps ==
    ASSUME OInv, NEW p \in Proc, Boot(p)
    PROVE  OInv'
  <1>1. /\ up' = up \cup {p} /\ p \notin up /\ UNCHANGED <<clients, writing, task, store, daemon, used, cut>>
        /\ reattach' \in [Proc -> SUBSET Sid] /\ reattach'[p] = store
        /\ \A q \in Proc \ {p} : reattach'[q] = reattach[q]
    BY DEF Boot, world, history, OInv, Typed
  <1>2. Typed'
    BY <1>1 DEF OInv, Typed
  <1>3. InUse'
    BY <1>1 DEF OInv, InUse
  <1>4. Apart'
    <2>1. ASSUME NEW q \in Proc, NEW s \in Sid, s \in clients[q] \/ \E t \in Task : Launches(q, t, s)
          PROVE  ~ Waits(q, s)'
      <3>1. q # p
        BY <1>1, <2>1, FreeTyped DEF OInv, Down, Launches
      <3>2. ~ Waits(q, s)
        BY <2>1 DEF OInv, Apart
      <3> QED BY <1>1, <3>1, <3>2 DEF Waits
    <2> QED BY <1>1, <2>1 DEF Apart, Launches
  <1>5. Ours' /\ Down'
    BY <1>1 DEF OInv, Ours, Works, Down
  <1>6. Tended'
    <2>1. ASSUME NEW s \in Sid, Held(s) PROVE Held(s)'
      BY <1>1, <2>1 DEF Held, Works
    <2> QED BY <1>1, <2>1 DEF OInv, Tended
  <1> QED BY <1>2, <1>3, <1>4, <1>5, <1>6 DEF OInv

LEMMA RenameKeeps ==
    ASSUME OInv, NEW p \in Proc, Rename(p)
    PROVE  OInv'
  <1>1. /\ UNCHANGED <<up, clients, reattach, task, daemon, used, cut>>
        /\ store' \in writing[p] \cup {store}
        /\ writing' = [writing EXCEPT ![p] = {}]
    BY DEF Rename, registry, world, history
  <1>2. Typed'
    BY <1>1 DEF OInv, Typed
  <1>3. InUse'
    <2>1. store' \subseteq used
      BY <1>1 DEF OInv, InUse
    <2>2. \A q \in Proc : \A w \in writing'[q] : w \in writing[q]
      BY <1>1 DEF OInv, Typed
    <2> QED BY <1>1, <2>1, <2>2 DEF OInv, InUse
  <1>4. Apart' /\ Ours' /\ Down'
    BY <1>1 DEF OInv, Apart, Waits, Launches, Ours, Works, Down
  <1>5. Tended'
    BY <1>1 DEF OInv, Tended, Held, Works
  <1> QED BY <1>2, <1>3, <1>4, <1>5 DEF OInv

LEMMA OutsideKeeps ==
    ASSUME OInv, UNCHANGED <<up, clients, reattach, writing, task, store, daemon, used, cut>>
    PROVE  OInv'
  <1>1. Typed' /\ InUse' /\ Apart' /\ Ours' /\ Down'
    BY DEF OInv, Typed, InUse, Apart, Waits, Launches, Ours, Works, Down
  <1>2. Tended'
    BY DEF OInv, Tended, Held, Works
  <1> QED BY <1>1, <1>2 DEF OInv

-----------------------------------------------------------------------------
LEMMA Started == Init => DInv /\ OInv
  <1>1. SUFFICES ASSUME Init PROVE DInv /\ OInv
    OBVIOUS
  <1>2. DInv
    BY <1>1, EmptySeq DEF Init, DInv, Targets, DefaultTarget
  <1>3. Typed
    BY <1>1, FreeTyped DEF Init, Typed
  <1>4. InUse /\ Apart /\ Ours /\ Tended /\ Down
    BY <1>1, FreeTyped DEF Init, InUse, Apart, Waits, Launches, Ours, Works, Tended, Held, Down
  <1> QED BY <1>2, <1>3, <1>4 DEF OInv

LEMMA TargetsKept == OInv /\ DInv /\ [Next]_vars => DInv'
  <1>1. ASSUME OInv, DInv, Next PROVE DInv'
    <2>1. CASE UNCHANGED <<sessions, recent>>
      BY <1>1, <2>1 DEF DInv, Targets, DefaultTarget, Registered
    <2>2. ASSUME NEW p \in Proc, NEW t \in Task, Serve(p, t) PROVE DInv'
      <3>1. ASSUME NEW s \in Sid, StartBegin(p, t, s) PROVE DInv'
        BY <2>1, <3>1 DEF StartBegin, registry
      <3>2. ASSUME NEW s \in Sid, NEW a \in Sid, Attach(p, t, s, a) PROVE DInv'
        BY <1>1, <3>2, EnterKeeps DEF Attach
      <3>3. CASE StartDone(p, t)
        <4>1. task[p][t].sid \in Sid
          BY <1>1, <3>3 DEF StartDone, At, OInv, Typed, InUse
        <4> QED BY <1>1, <3>3, <4>1, EnterKeeps DEF StartDone
      <3>4. CASE StartTimeout(p, t) \/ StopDone(p, t) \/ ListBegin(p, t) \/ Cancel(p, t)
        BY <2>1, <3>4 DEF StartTimeout, StopDone, ListBegin, Cancel, registry
      <3> QED BY <1>1, <2>2, <3>1, <3>2, <3>3, <3>4, StopBeginKeeps, ListNextKeeps DEF Serve
    <2>3. ASSUME NEW p \in Proc, Rename(p) \/ Exit(p) \/ Crash(p) \/ Boot(p) PROVE DInv'
      <3>1. CASE Rename(p) \/ Boot(p)
        BY <2>1, <3>1 DEF Rename, Boot, registry
      <3>2. CASE Exit(p) \/ Crash(p)
        BY <1>1, <3>2, ForgetKeeps DEF Exit, Crash
      <3> QED BY <2>3, <3>1, <3>2
    <2>4. ASSUME NEW s \in Sid, AppDies(s) PROVE DInv'
      BY <2>1, <2>4 DEF AppDies, registry
    <2> QED BY <1>1, <2>2, <2>3, <2>4 DEF Next
  <1>2. ASSUME DInv, UNCHANGED vars PROVE DInv'
    BY <1>2 DEF vars, registry, DInv, Targets, DefaultTarget, Registered
  <1> QED BY <1>1, <1>2

LEMMA HandsKept == OInv /\ [Next]_vars => OInv'
  <1>1. ASSUME OInv, Next PROVE OInv'
    <2>1. ASSUME NEW s \in Sid, AppDies(s) PROVE OInv'
      BY <1>1, <2>1, OutsideKeeps DEF AppDies, registry, history
    <2>2. ASSUME NEW p \in Proc, Rename(p) \/ Exit(p) \/ Crash(p) \/ Boot(p) PROVE OInv'
      BY <1>1, <2>2, RenameKeeps, ExitKeeps, CrashKeeps, BootKeeps
    <2> QED BY <1>1, <2>1, <2>2, ServeKeeps DEF Next
  <1>2. ASSUME OInv, UNCHANGED vars PROVE OInv'
    BY <1>2, OutsideKeeps DEF vars, registry, world, history
  <1> QED BY <1>1, <1>2

(* For any processes, requests and sessions: a call without a session id    *)
(* finds a session exactly when there is one.                               *)
THEOREM DefaultFound == Spec => []DefaultTarget
  <1>1. DInv => DefaultTarget
    BY DEF DInv
  <1>2. Init => DInv /\ OInv
    BY Started
  <1> QED BY <1>1, <1>2, HandsKept, TargetsKept, PTL DEF Spec, Safety

(* For any processes, requests and sessions: no daemon is out of hand but   *)
(* one whose start or stop was cancelled, or whose server was killed.       *)
THEOREM NoOrphans == Spec => []OrphansWereCut
  <1>1. OInv => OrphansWereCut
    <2>1. ASSUME OInv, NEW s \in Sid, daemon[s] # NoProc PROVE InHand(s) \/ s \in cut
      <3>1. CASE s \in cut
        BY <3>1
      <3>2. CASE Held(s)
        <4>1. PICK p \in up : s \in clients[p] \/ \E t \in Task : Works(p, t, s)
          BY <3>2 DEF Held
        <4>2. p \in Proc
          BY <2>1 DEF OInv, Typed
        <4>3. s \in clients[p] \cup InFlight(p)
          BY <4>1, <4>2, FlightIsWork
        <4> QED BY <4>3 DEF InHand
      <3> QED BY <2>1, <3>1, <3>2 DEF OInv, Tended
    <2> QED BY <2>1 DEF OrphansWereCut
  <1>2. Init => OInv
    BY Started
  <1> QED BY <1>1, <1>2, HandsKept, PTL DEF Spec, Safety
-----------------------------------------------------------------------------
(* The store of the only process.  A launch is of an app that no record     *)
(* talks to yet, so that an app that ended stays ended (Fresh); what a list *)
(* is to probe, and what is registered, is in the file, or in the one that  *)
(* is about to be renamed (Stored); what is registered was given out and is *)
(* no launch (Named); a process that ended writes nothing.                  *)
Single == \A p, q \in Proc : p = q

Fresh ==
    /\ vm \in [Sid -> Sid \cup {NoSid}] /\ alive \subseteq Sid
    /\ \A x \in Sid : vm[x] # NoSid => vm[x] \in used
    /\ \A p \in Proc, t \in Task, s \in Sid : Launches(p, t, s) =>
         /\ \A x \in Sid : vm[x] # s
         /\ \A q \in Proc, u \in Task : Launches(q, u, s) => q = p /\ u = t

Named ==
    \A p \in Proc : /\ Registered(p) \subseteq used
                    /\ \A t \in Task, s \in Sid : Launches(p, t, s) => s \notin Registered(p)

File(p) == IF writing[p] = {} THEN {store} ELSE writing[p]
Needed(p, s) ==
    (s \in Registered(p) \/ Waits(p, s)) /\ s \notin stopped \cup missed /\ vm[s] \in alive
Stored == \A p \in Proc, s \in Sid : Needed(p, s) => \A w \in File(p) : s \in w
Calm == \A p \in Proc \ up : writing[p] = {}

SInv == OInv /\ Targets /\ Fresh /\ Named /\ Stored /\ Calm

LEMMA FreshKeeps ==
    ASSUME OInv, Fresh, NEW p \in Proc, NEW t \in Task, NEW st, st \in TaskType, st.pc # "launch",
           Become(p, t, st), vm' \in [Sid -> Sid \cup {NoSid}], alive' \subseteq Sid,
           used \subseteq used',
           \A x \in Sid : \/ vm'[x] = vm[x]
                          \/ \E y \in Sid : vm'[x] = vm[y]
                          \/ Launches(p, t, vm'[x])
    PROVE  Fresh'
  <1>1. /\ task'[p][t] = st /\ \A u \in Task \ {t} : task'[p][u] = task[p][u]
        /\ \A q \in Proc \ {p} : task'[q] = task[q]
    BY DEF Become, OInv, Typed
  <1>2. \A q \in Proc, u \in Task, s \in Sid :
          task'[q][u].pc = "launch" /\ task'[q][u].sid = s => Launches(q, u, s) /\ ~ (q = p /\ u = t)
    BY <1>1 DEF Launches
  <1>3. ASSUME NEW x \in Sid, vm'[x] # NoSid PROVE vm'[x] \in used'
    <2>1. CASE Launches(p, t, vm'[x])
      BY <2>1 DEF Launches, OInv, InUse
    <2>2. CASE \E y \in Sid : vm'[x] = vm[y]
      BY <1>3, <2>2 DEF Fresh
    <2> QED BY <2>1, <2>2
  <1>4. ASSUME NEW q \in Proc, NEW u \in Task, NEW s \in Sid, Launches(q, u, s), ~ (q = p /\ u = t),
               NEW x \in Sid
        PROVE  vm'[x] # s
    <2>1. \A y \in Sid : vm[y] # s
      BY <1>4 DEF Fresh
    <2>2. ~ Launches(p, t, s)
      BY <1>4 DEF Fresh
    <2> QED BY <2>1, <2>2
  <1>5. ASSUME NEW q \in Proc, NEW u \in Task, NEW s \in Sid,
               task'[q][u].pc = "launch", task'[q][u].sid = s
        PROVE  /\ \A x \in Sid : vm'[x] # s
               /\ \A o \in Proc, v \in Task :
                    task'[o][v].pc = "launch" /\ task'[o][v].sid = s => o = q /\ v = u
    BY <1>2, <1>4, <1>5 DEF Fresh
  <1> QED BY <1>3, <1>5 DEF Fresh, Launches

\* What another step leaves needed was needed before, and its file stays.
LEMMA StoredOf ==
    ASSUME Single, NEW p \in Proc,
           \A s \in Sid : Needed(p, s)' => \A w \in File(p)' : s \in w
    PROVE  Stored'
  BY DEF Stored, Single

LEMMA RegistryOf ==
    ASSUME Targets, NEW p \in Proc, NEW q, sessions' = [sessions EXCEPT ![p] = q]
    PROVE  Range(sessions'[p]) = Range(q)
  BY DEF Targets

LEMMA WritingOf ==
    ASSUME OInv, NEW p \in Proc, NEW w, writing' = [writing EXCEPT ![p] = {w}]
    PROVE  writing'[p] = {w} /\ File(p)' = {w}
  BY DEF File, OInv, Typed

\* A session enters the registry: its file holds it and all it held before.
LEMMA EnterStores ==
    ASSUME SInv, NEW p \in Proc, NEW s \in Sid, writing[p] = {}, Enter(p, s), store' = store,
           \A x \in Sid : Waits(p, x)' => Waits(p, x), UNCHANGED <<stopped, missed>>,
           \A x \in Sid \ {s} : vm'[x] \in alive' => vm[x] \in alive
    PROVE  \A x \in Sid : Needed(p, x)' => \A w \in File(p)' : x \in w
  <1>1. File(p)' = {store \cup {s}}
    BY WritingOf DEF Enter, Upsert, SInv
  <1>2. Registered(p)' \subseteq Registered(p) \cup {s}
    BY KeepRange, RegistryOf DEF Enter, Registered, SInv
  <1>3. ASSUME NEW x \in Sid \ {s}, Needed(p, x)' PROVE x \in store
    <2>1. Needed(p, x)
      BY <1>2, <1>3 DEF Needed
    <2> QED BY <2>1 DEF SInv, Stored, File
  <1> QED BY <1>1, <1>3

LEMMA StartBeginStores ==
    ASSUME SInv, Single, OInv', Named', NEW p \in Proc, NEW t \in Task, NEW s \in Sid, StartBegin(p, t, s)
    PROVE  SInv'
  <1>1. PICK st : st = [Free EXCEPT !.pc = "launch", !.sid = s]
    OBVIOUS
  <1>2. st.pc = "launch" /\ st.sid = s /\ st.todo = {}
    BY <1>1 DEF Free
  <1>3. /\ Become(p, t, st) /\ s \notin used /\ used' = used \cup {s}
        /\ UNCHANGED <<up, sessions, recent, clients, reattach, writing, store, vm, alive>>
        /\ UNCHANGED <<stopped, missed>>
    BY <1>1 DEF StartBegin, registry
  <1>4. /\ task'[p][t] = st /\ \A u \in Task \ {t} : task'[p][u] = task[p][u]
        /\ \A q \in Proc \ {p} : task'[q] = task[q]
    BY <1>3 DEF Become, SInv, OInv, Typed
  <1>5. Fresh'
    <2>1. \A x \in Sid : vm[x] # s
      BY <1>3, NullsOK DEF SInv, Fresh
    <2>2. \A q \in Proc, u \in Task : ~ Launches(q, u, s)
      BY <1>3 DEF Launches, SInv, OInv, InUse
    <2>3. \A q \in Proc, u \in Task, x \in Sid :
            task'[q][u].pc = "launch" /\ task'[q][u].sid = x =>
              \/ q = p /\ u = t /\ x = s
              \/ Launches(q, u, x) /\ x # s
      BY <1>2, <1>4, <2>2 DEF Launches
    <2>4. ASSUME NEW q \in Proc, NEW u \in Task, NEW x \in Sid,
                 task'[q][u].pc = "launch", task'[q][u].sid = x
          PROVE  /\ \A y \in Sid : vm[y] # x
                 /\ \A o \in Proc, v \in Task :
                      task'[o][v].pc = "launch" /\ task'[o][v].sid = x => o = q /\ v = u
      BY <2>1, <2>3, <2>4 DEF SInv, Fresh
    <2> QED BY <1>3, <2>4 DEF SInv, Fresh, Launches
  <1>6. \A x \in Sid : Waits(p, x)' => Waits(p, x)
    BY <1>2, <1>3, <1>4 DEF Waits
  <1>7. \A x \in Sid : Needed(p, x)' => \A w \in File(p)' : x \in w
    BY <1>3, <1>6 DEF Needed, Registered, File, SInv, Stored
  <1>8. Targets' /\ Calm'
    BY <1>3 DEF SInv, Targets, Calm
  <1> QED BY <1>5, <1>7, <1>8, StoredOf DEF SInv

LEMMA StartDoneStores ==
    ASSUME SInv, Single, OInv', Targets', Named', NEW p \in Proc, NEW t \in Task, StartDone(p, t)
    PROVE  SInv'
  <1>1. PICK s : s = task[p][t].sid
    OBVIOUS
  <1>2. /\ writing[p] = {} /\ p \in up /\ Launches(p, t, s) /\ s \in Sid
        /\ alive' = alive \cup {s} /\ vm' \in {vm, [vm EXCEPT ![s] = s]} /\ Enter(p, s)
        /\ Become(p, t, Free) /\ UNCHANGED <<up, reattach, store, used, stopped, missed>>
    BY <1>1 DEF StartDone, At, Launches, history, SInv, OInv, InUse, Typed
  <1>3. vm' \in [Sid -> Sid \cup {NoSid}] /\ \A x \in Sid : vm'[x] = vm[x] \/ (x = s /\ vm'[x] = s)
    BY <1>2 DEF SInv, Fresh
  <1>4. Fresh'
    <2>1. \A x \in Sid : vm'[x] = vm[x] \/ Launches(p, t, vm'[x])
      BY <1>2, <1>3
    <2>2. alive' \subseteq Sid /\ used \subseteq used'
      BY <1>2 DEF SInv, Fresh
    <2> QED BY <1>2, <1>3, <2>1, <2>2, FreeTyped, FreshKeeps DEF SInv
  <1>5. \A x \in Sid : Waits(p, x)' => Waits(p, x)
    <2>1. task'[p][t] = Free /\ \A u \in Task \ {t} : task'[p][u] = task[p][u]
      BY <1>2 DEF Become, SInv, OInv, Typed
    <2> QED BY <1>2, <2>1, FreeTyped DEF Waits
  <1>6. \A x \in Sid \ {s} : vm'[x] \in alive' => vm[x] \in alive
    BY <1>2, <1>3 DEF SInv, Fresh
  <1>7. \A x \in Sid : Needed(p, x)' => \A w \in File(p)' : x \in w
    BY <1>2, <1>5, <1>6, EnterStores
  <1>8. Calm'
    BY <1>2 DEF SInv, Calm, Enter, Upsert, OInv, Typed
  <1> QED BY <1>4, <1>7, <1>8, StoredOf DEF SInv

LEMMA AttachStores ==
    ASSUME SInv, Single, OInv', Targets', Named', NEW p \in Proc, NEW t \in Task, NEW s \in Sid, NEW a \in Sid,
           Attach(p, t, s, a)
    PROVE  SInv'
  <1>1. /\ writing[p] = {} /\ p \in up /\ task[p][t].pc = "free" /\ a \in alive /\ vm[a] = a
        /\ vm' = [vm EXCEPT ![s] = a] /\ Enter(p, s) /\ task' = task
        /\ reattach' = [reattach EXCEPT ![p] = reattach[p] \ {s}]
        /\ used' = used \cup {s} /\ UNCHANGED <<up, store, alive, stopped, missed>>
    BY DEF Attach, At
  <1>2. vm' \in [Sid -> Sid \cup {NoSid}] /\ \A x \in Sid : vm'[x] = vm[x] \/ (x = s /\ vm'[x] = vm[a])
    BY <1>1 DEF SInv, Fresh
  <1>3. Fresh'
    <2>1. Become(p, t, task[p][t]) /\ task[p][t] \in TaskType /\ task[p][t].pc # "launch"
      BY <1>1, Same DEF Become, SInv, OInv
    <2>2. alive' \subseteq Sid /\ used \subseteq used'
      BY <1>1 DEF SInv, Fresh
    <2> QED BY <1>2, <2>1, <2>2, FreshKeeps DEF SInv
  <1>4. \A x \in Sid : Waits(p, x)' => Waits(p, x)
    BY <1>1 DEF Waits, SInv, OInv, Typed
  <1>5. \A x \in Sid \ {s} : vm'[x] \in alive' => vm[x] \in alive
    BY <1>1, <1>2
  <1>6. \A x \in Sid : Needed(p, x)' => \A w \in File(p)' : x \in w
    BY <1>1, <1>4, <1>5, EnterStores
  <1>7. Calm'
    BY <1>1 DEF SInv, Calm, Enter, Upsert, OInv, Typed
  <1> QED BY <1>3, <1>6, <1>7, StoredOf DEF SInv

\* A request that touches no record that an open app needs.
LEMMA QuietStores ==
    ASSUME SInv, Single, OInv', Targets', Named', NEW p \in Proc, NEW t \in Task, NEW st, st \in TaskType,
           st.pc # "launch", Become(p, t, st), UNCHANGED <<up, store, vm, stopped, missed, used>>,
           alive' \subseteq alive,
           Registered(p)' \subseteq Registered(p), \A x \in Sid : Waits(p, x)' => Waits(p, x),
           writing' = writing
    PROVE  SInv'
  <1>1. Fresh'
    BY FreshKeeps DEF SInv, Fresh
  <1>2. \A x \in Sid : Needed(p, x)' => \A w \in File(p)' : x \in w
    BY DEF Needed, File, SInv, Stored
  <1>3. Calm'
    BY DEF SInv, Calm
  <1> QED BY <1>1, <1>2, <1>3, StoredOf DEF SInv

LEMMA WaitsLess ==
    ASSUME OInv, NEW p \in Proc, NEW t \in Task, NEW st, Become(p, t, st),
           reattach'[p] \subseteq reattach[p], \A x \in Sid : x \in st.todo => Waits(p, x)
    PROVE  \A x \in Sid : Waits(p, x)' => Waits(p, x)
  <1>1. task'[p][t] = st /\ \A u \in Task \ {t} : task'[p][u] = task[p][u]
    BY DEF Become, OInv, Typed
  <1> QED BY <1>1 DEF Waits

LEMMA EndsStore ==
    ASSUME SInv, Single, OInv', Targets', Named', NEW p \in Proc, NEW t \in Task,
           StartTimeout(p, t) \/ StopDone(p, t)
    PROVE  SInv'
  <1>1. /\ Become(p, t, Free) /\ UNCHANGED <<up, store, vm, stopped, missed, used, writing, sessions, reattach>>
        /\ alive' \subseteq alive
    BY DEF StartTimeout, StopDone, registry, history
  <1>2. \A x \in Sid : Waits(p, x)' => Waits(p, x)
    BY <1>1, FreeTyped, WaitsLess DEF SInv
  <1>3. Registered(p)' = Registered(p)
    BY <1>1 DEF Registered
  <1> QED BY <1>1, <1>2, <1>3, FreeTyped, QuietStores

LEMMA ListBeginStores ==
    ASSUME SInv, Single, OInv', Targets', Named', NEW p \in Proc, NEW t \in Task, ListBegin(p, t)
    PROVE  SInv'
  <1>1. PICK st : st = [Free EXCEPT !.pc = "list", !.todo = reattach[p] \ Registered(p)]
    OBVIOUS
  <1>2. st \in TaskType /\ st.pc = "list" /\ st.todo = reattach[p] \ Registered(p)
    <2>1. reattach[p] \ Registered(p) \in SUBSET Sid
      BY DEF SInv, OInv, Typed
    <2> QED BY <1>1, <2>1 DEF Free, TaskType
  <1>3. /\ Become(p, t, st) /\ UNCHANGED <<up, store, vm, alive, stopped, missed, used, writing>>
        /\ UNCHANGED <<sessions, reattach>>
    BY <1>1 DEF ListBegin, registry, world, history
  <1>4. \A x \in Sid : Waits(p, x)' => Waits(p, x)
    <2>1. \A x \in Sid : x \in st.todo => Waits(p, x)
      BY <1>2 DEF Waits
    <2> QED BY <1>3, <2>1, WaitsLess DEF SInv
  <1>5. Registered(p)' = Registered(p)
    BY <1>3 DEF Registered
  <1> QED BY <1>2, <1>3, <1>4, <1>5, QuietStores

\* A record that leaves the file is of a session nobody needs.
LEMMA EraseStores ==
    ASSUME SInv, NEW p \in Proc, NEW s \in Sid, writing[p] = {}, Erase(p, s),
           s \in stopped' \cup missed' \/ vm[s] \notin alive,
           stopped \subseteq stopped', missed \subseteq missed', UNCHANGED <<vm, alive>>,
           Registered(p)' \subseteq Registered(p), \A x \in Sid : Waits(p, x)' => Waits(p, x)
    PROVE  \A x \in Sid : Needed(p, x)' => \A w \in File(p)' : x \in w
  <1>1. File(p)' = {store \ {s}}
    BY WritingOf DEF Erase, SInv
  <1>2. ASSUME NEW x \in Sid, Needed(p, x)' PROVE x \in store \ {s}
    <2>1. Needed(p, x) /\ x # s
      BY <1>2 DEF Needed
    <2> QED BY <2>1 DEF SInv, Stored, File
  <1> QED BY <1>1, <1>2

LEMMA StopBeginStores ==
    ASSUME SInv, Single, OInv', Targets', Named', NEW p \in Proc, NEW t \in Task, NEW s \in Sid,
           StopBegin(p, t, s)
    PROVE  SInv'
  <1>1. PICK st : st = IF s \in clients[p] THEN [Free EXCEPT !.pc = "stop", !.sid = s] ELSE task[p][t]
    OBVIOUS
  <1>2. /\ writing[p] = {} /\ p \in up /\ task[p][t].pc = "free" /\ Erase(p, s)
        /\ sessions' = [sessions EXCEPT ![p] = Without(p, s)]
        /\ reattach' = [reattach EXCEPT ![p] = reattach[p] \ {s}]
        /\ stopped' = stopped \cup {s} /\ UNCHANGED <<up, store, vm, alive, used, missed>>
    BY DEF StopBegin, At, world
  <1>3. st \in TaskType /\ st.pc # "launch" /\ \A x \in Sid : x \in st.todo => Waits(p, x)
    BY <1>1, <1>2, Same DEF Free, TaskType, Waits, SInv, OInv
  <1>4. Become(p, t, st)
    BY <1>1, Same DEF StopBegin, Become, SInv, OInv
  <1>5. \A x \in Sid : Waits(p, x)' => Waits(p, x)
    BY <1>2, <1>3, <1>4, WaitsLess DEF SInv, OInv, Typed
  <1>6. Registered(p)' \subseteq Registered(p)
    BY <1>2, WithoutRange, RegistryOf DEF Registered, SInv
  <1>7. \A x \in Sid : Needed(p, x)' => \A w \in File(p)' : x \in w
    BY <1>2, <1>5, <1>6, EraseStores
  <1>8. Fresh'
    BY <1>2, <1>3, <1>4, FreshKeeps DEF SInv, Fresh
  <1>9. Calm'
    BY <1>2 DEF SInv, Calm, Erase, OInv, Typed
  <1> QED BY <1>7, <1>8, <1>9, StoredOf DEF SInv

LEMMA ListNextStores ==
    ASSUME SInv, Single, OInv', Targets', Named', NEW p \in Proc, NEW t \in Task, NEW s \in Sid,
           ListNext(p, t, s)
    PROVE  SInv'
  <1>1. PICK st : st = Left(p, t, s)
    OBVIOUS
  <1>2. /\ writing[p] = {} /\ p \in up /\ task[p][t].pc = "list" /\ s \in task[p][t].todo
        /\ reattach' = [reattach EXCEPT ![p] = reattach[p] \ {s}]
        /\ missed \subseteq missed'
        /\ UNCHANGED <<up, store, vm, alive, used, stopped>>
    BY DEF ListNext, At, Prune, Revive, world
  <1>3. /\ st \in TaskType /\ st.pc # "launch" /\ \A x \in Sid : x \in st.todo => Waits(p, x)
        /\ Waits(p, s)
    <2>1. task[p][t] \in TaskType
      BY Same DEF SInv, OInv
    <2>2. CASE task[p][t].todo = {s}
      BY <1>1, <1>2, <2>2, FreeTyped DEF Waits, Left
    <2>3. CASE task[p][t].todo # {s}
      <3>1. st = [task[p][t] EXCEPT !.todo = task[p][t].todo \ {s}]
        BY <1>1, <2>3 DEF Left
      <3>2. st \in TaskType /\ st.pc = "list" /\ st.todo = task[p][t].todo \ {s}
        BY <1>2, <2>1, <3>1 DEF TaskType
      <3> QED BY <1>2, <3>2 DEF Waits
    <2> QED BY <2>2, <2>3
  <1>4. Become(p, t, st)
    BY <1>1 DEF ListNext
  <1>5. \A x \in Sid : Waits(p, x)' => Waits(p, x)
    BY <1>2, <1>3, <1>4, WaitsLess DEF SInv, OInv, Typed
  <1>6. Fresh'
    BY <1>2, <1>3, <1>4, FreshKeeps DEF SInv, Fresh
  <1>7. CASE Revive(p, s)
    <2>1. sessions' = [sessions EXCEPT ![p] = Keep(p, s)] /\ writing' = writing
      BY <1>7 DEF Revive
    <2>2. Registered(p)' \subseteq Registered(p) \cup {s}
      BY <2>1, KeepRange, RegistryOf DEF Registered, SInv
    <2>3. \A x \in Sid : Needed(p, x)' => Needed(p, x)
      BY <1>2, <1>3, <1>5, <2>2 DEF Needed
    <2>4. \A x \in Sid : Needed(p, x)' => \A w \in File(p)' : x \in w
      BY <1>2, <2>1, <2>3 DEF File, SInv, Stored
    <2>5. Calm'
      BY <1>2, <2>1 DEF SInv, Calm
    <2> QED BY <1>6, <2>4, <2>5, StoredOf DEF SInv
  <1>8. CASE Prune(p, s) /\ missed' = missed \cup (IF vm[s] \in alive THEN {s} ELSE {})
    <2>1. sessions' = sessions /\ Erase(p, s)
      BY <1>8 DEF Prune
    <2>2. Registered(p)' = Registered(p) /\ (s \in stopped' \cup missed' \/ vm[s] \notin alive)
      BY <1>8, <2>1 DEF Registered
    <2>3. \A x \in Sid : Needed(p, x)' => \A w \in File(p)' : x \in w
      BY <1>2, <1>5, <2>1, <2>2, EraseStores
    <2>4. Calm'
      BY <1>2, <2>1 DEF SInv, Calm, Erase, OInv, Typed
    <2> QED BY <1>6, <2>3, <2>4, StoredOf DEF SInv
  <1> QED BY <1>7, <1>8 DEF ListNext

\* A cancelled launch may leave an app behind that no session knows of.
LEMMA CancelStores ==
    ASSUME SInv, Single, OInv', Targets', Named', NEW p \in Proc, NEW t \in Task, Cancel(p, t)
    PROVE  SInv'
  <1>1. PICK s : s = task[p][t].sid
    OBVIOUS
  <1>2. /\ writing[p] = {} /\ p \in up /\ Become(p, t, Free)
        /\ UNCHANGED <<up, store, stopped, missed, used, writing, sessions, reattach>>
        /\ \/ UNCHANGED <<vm, alive>>
           \/ Launches(p, t, s) /\ vm' = [vm EXCEPT ![s] = s] /\ alive' = alive \cup {s}
    BY <1>1 DEF Cancel, At, registry, Launches
  <1>3. \A x \in Sid : Waits(p, x)' => Waits(p, x)
    BY <1>2, FreeTyped, WaitsLess DEF SInv
  <1>4. Registered(p)' = Registered(p)
    BY <1>2 DEF Registered
  <1>5. CASE UNCHANGED <<vm, alive>>
    BY <1>2, <1>3, <1>4, <1>5, FreeTyped, QuietStores
  <1>6. CASE Launches(p, t, s) /\ vm' = [vm EXCEPT ![s] = s] /\ alive' = alive \cup {s}
    <2>1. s \in Sid
      BY <1>6 DEF Launches, SInv, OInv, InUse, Typed
    <2>2. vm' \in [Sid -> Sid \cup {NoSid}] /\ \A x \in Sid : vm'[x] = vm[x] \/ (x = s /\ vm'[x] = s)
      BY <1>6, <2>1 DEF SInv, Fresh
    <2>3. Fresh'
      <3>1. \A x \in Sid : vm'[x] = vm[x] \/ Launches(p, t, vm'[x])
        BY <1>6, <2>2
      <3>2. alive' \subseteq Sid /\ used \subseteq used'
        BY <1>2, <1>6, <2>1 DEF SInv, Fresh
      <3> QED BY <1>2, <2>2, <3>1, <3>2, FreeTyped, FreshKeeps DEF SInv
    <2>4. \A x \in Sid \ {s} : vm'[x] \in alive' => vm[x] \in alive
      BY <1>6, <2>2 DEF SInv, Fresh
    <2>5. s \notin Registered(p) /\ ~ Waits(p, s)
      BY <1>6, <2>1 DEF SInv, Named, OInv, Apart
    <2>6. \A x \in Sid : Needed(p, x)' => Needed(p, x)
      BY <1>2, <1>3, <1>4, <2>4, <2>5 DEF Needed
    <2>7. \A x \in Sid : Needed(p, x)' => \A w \in File(p)' : x \in w
      BY <1>2, <2>6 DEF File, SInv, Stored
    <2>8. Calm'
      BY <1>2 DEF SInv, Calm
    <2> QED BY <2>3, <2>7, <2>8, StoredOf DEF SInv
  <1> QED BY <1>2, <1>5, <1>6

\* A process ends with nothing registered, and starts with what is stored.
LEMMA LifeStores ==
    ASSUME SInv, Single, OInv', Targets', Named', NEW p \in Proc, Rename(p) \/ Exit(p) \/ Crash(p) \/ Boot(p)
    PROVE  SInv'
  <1>1. /\ vm' = vm /\ alive' \subseteq alive /\ used' = used /\ stopped' = stopped
        /\ missed \subseteq missed'
        /\ \A q \in Proc, u \in Task : task'[q][u] \in {task[q][u], Free}
    BY DEF Rename, Exit, Crash, Boot, Forget, world, history, SInv, OInv, Typed
  <1>2. Fresh'
    <2>1. \A q \in Proc, u \in Task, x \in Sid : Launches(q, u, x)' => Launches(q, u, x)
      BY <1>1, FreeTyped DEF Launches
    <2> QED BY <1>1, <2>1 DEF SInv, Fresh
  <1>3. CASE Exit(p) \/ Crash(p)
    <2>1. /\ sessions'[p] = <<>> /\ reattach'[p] = {} /\ writing'[p] = {} /\ up' = up \ {p}
          /\ \A u \in Task : task'[p][u] = Free
      BY <1>3 DEF Exit, Crash, Forget, SInv, OInv, Typed, Targets
    <2>2. Registered(p)' = {}
      BY <2>1, EmptySeq DEF Registered, Range
    <2>3. \A x \in Sid : ~ Needed(p, x)'
      BY <2>1, <2>2, FreeTyped DEF Needed, Waits
    <2>4. Calm'
      BY <1>3, <2>1 DEF Calm, SInv, Single
    <2> QED BY <1>2, <2>3, <2>4, StoredOf DEF SInv
  <1>4. CASE Boot(p)
    <2>1. /\ writing[p] = {} /\ reattach' = [reattach EXCEPT ![p] = store] /\ up' = up \cup {p}
          /\ UNCHANGED <<sessions, writing, task, store>>
      BY <1>4 DEF Boot, SInv, Calm
    <2>2. \A x \in Sid : Needed(p, x)' => Needed(p, x) \/ x \in store
      BY <1>1, <2>1 DEF Needed, Waits, Registered, SInv, OInv, Typed
    <2>3. \A x \in Sid : Needed(p, x)' => \A w \in File(p)' : x \in w
      BY <2>1, <2>2 DEF File, SInv, Stored
    <2>4. Calm'
      BY <2>1 DEF Calm, SInv
    <2> QED BY <1>2, <2>3, <2>4, StoredOf DEF SInv
  <1>5. CASE Rename(p)
    <2>1. PICK ids \in writing[p] :
                 \/ store' = ids /\ UNCHANGED missed
                 \/ missed' = missed \cup Differ(ids) /\ UNCHANGED store
      BY <1>5 DEF Rename
    <2>2. /\ writing' = [writing EXCEPT ![p] = {}] /\ writing'[p] = {}
          /\ missed \subseteq missed' /\ UNCHANGED <<up, sessions, reattach, task, alive>>
      BY <1>5, <2>1 DEF Rename, registry, world, SInv, OInv, Typed
    <2>3. ASSUME NEW x \in Sid, Needed(p, x)' PROVE x \in store'
      <3>1. Needed(p, x)
        BY <1>1, <2>2, <2>3 DEF Needed, Waits, Registered
      <3>2. x \in ids
        BY <3>1 DEF File, SInv, Stored
      <3>3. x \in Differ(ids) \/ x \in store
        BY <3>2 DEF Differ
      <3> QED BY <2>1, <2>3, <3>2, <3>3 DEF Needed
    <2>4. \A x \in Sid : Needed(p, x)' => \A w \in File(p)' : x \in w
      BY <2>2, <2>3 DEF File
    <2>5. Calm'
      BY <2>2 DEF Calm, SInv, OInv, Typed
    <2> QED BY <1>2, <2>4, <2>5, StoredOf DEF SInv
  <1> QED BY <1>3, <1>4, <1>5

LEMMA StillStored ==
    ASSUME SInv, OInv', Targets', Named',
           UNCHANGED <<up, sessions, reattach, writing, task, store, vm, used, stopped, missed>>,
           alive' \subseteq alive
    PROVE  SInv'
  <1>1. Fresh'
    BY DEF SInv, Fresh, Launches
  <1>2. \A p \in Proc, x \in Sid : Needed(p, x)' => Needed(p, x)
    BY DEF Needed, Waits, Registered
  <1>3. Stored' /\ Calm'
    BY <1>2 DEF SInv, Stored, File, Calm
  <1> QED BY <1>1, <1>3 DEF SInv

\* What enters the registry was given out, and is launched no more.
LEMMA NamedOf ==
    ASSUME Single, NEW p \in Proc, Registered(p)' \subseteq used',
           \A s \in Sid : (\E t \in Task : Launches(p, t, s)') => s \notin Registered(p)'
    PROVE  Named'
  BY DEF Named, Single

LEMMA LaunchesOf ==
    ASSUME OInv, NEW p \in Proc, NEW t \in Task, NEW st, Become(p, t, st)
    PROVE  \A s : (\E u \in Task : Launches(p, u, s)') =>
                    (\E u \in Task \ {t} : Launches(p, u, s)) \/ (st.pc = "launch" /\ st.sid = s)
  <1>1. task'[p][t] = st /\ \A u \in Task \ {t} : task'[p][u] = task[p][u]
    BY DEF Become, OInv, Typed
  <1> QED BY <1>1 DEF Launches

LEMMA LeftEnds ==
    ASSUME OInv, NEW p \in Proc, NEW t \in Task, NEW s \in Sid, At(p, t, "list")
    PROVE  Left(p, t, s).pc # "launch"
  <1>1. task[p][t] \in TaskType /\ task[p][t].pc = "list"
    BY Same DEF At, OInv
  <1>2. CASE Left(p, t, s) = Free
    BY <1>2, FreeTyped
  <1>3. CASE Left(p, t, s) = [task[p][t] EXCEPT !.todo = task[p][t].todo \ {s}]
    BY <1>1, <1>3 DEF TaskType
  <1> QED BY <1>2, <1>3 DEF Left

LEMMA ServeNames ==
    ASSUME Single, SInv, NEW p \in Proc, NEW t \in Task, Serve(p, t)
    PROVE  Named'
  <1>1. Registered(p) \subseteq used /\ \A u \in Task, x \in Sid : Launches(p, u, x) => x \notin Registered(p)
    BY DEF SInv, Named
  <1>2. ASSUME NEW s \in Sid, StartBegin(p, t, s) PROVE Named'
    <2>1. PICK st : st = [Free EXCEPT !.pc = "launch", !.sid = s]
      OBVIOUS
    <2>2. st.pc = "launch" /\ st.sid = s
      BY <2>1 DEF Free
    <2>3. Become(p, t, st) /\ s \notin used /\ used' = used \cup {s} /\ Registered(p)' = Registered(p)
      BY <1>2, <2>1 DEF StartBegin, registry, Registered
    <2>4. \A x : (\E u \in Task : Launches(p, u, x)') => (\E u \in Task : Launches(p, u, x)) \/ x = s
      BY <2>2, <2>3, LaunchesOf DEF SInv
    <2> QED BY <1>1, <2>3, <2>4, NamedOf
  <1>3. ASSUME NEW s \in Sid, NEW a \in Sid, Attach(p, t, s, a) PROVE Named'
    <2>1. Enter(p, s) /\ s \notin used /\ used' = used \cup {s} /\ task' = task
      BY <1>3 DEF Attach
    <2>2. Registered(p)' \subseteq Registered(p) \cup {s}
      BY <2>1, KeepRange, RegistryOf DEF Enter, Registered, SInv
    <2>3. \A u \in Task : \A x : Launches(p, u, x)' => Launches(p, u, x) /\ x \in used
      BY <2>1 DEF Launches, SInv, OInv, InUse
    <2> QED BY <1>1, <2>1, <2>2, <2>3, NamedOf
  <1>4. ASSUME NEW s \in Sid, StopBegin(p, t, s) PROVE Named'
    <2>1. sessions' = [sessions EXCEPT ![p] = Without(p, s)] /\ used' = used
      BY <1>4 DEF StopBegin
    <2>2. Registered(p)' \subseteq Registered(p)
      BY <2>1, WithoutRange, RegistryOf DEF Registered, SInv
    <2>3. \A x : (\E u \in Task : Launches(p, u, x)') => \E u \in Task : Launches(p, u, x)
      <3>1. CASE task' = task
        BY <3>1 DEF Launches
      <3>2. CASE Become(p, t, [Free EXCEPT !.pc = "stop", !.sid = s])
        <4>1. [Free EXCEPT !.pc = "stop", !.sid = s].pc = "stop"
          BY DEF Free
        <4> QED BY <3>2, <4>1, LaunchesOf DEF SInv
      <3> QED BY <1>4, <3>1, <3>2 DEF StopBegin
    <2> QED BY <1>1, <2>1, <2>2, <2>3, NamedOf
  <1>5. ASSUME NEW s \in Sid, ListNext(p, t, s) PROVE Named'
    <2>1. /\ At(p, t, "list") /\ s \in task[p][t].todo /\ used' = used /\ Become(p, t, Left(p, t, s))
          /\ sessions' = sessions \/ sessions' = [sessions EXCEPT ![p] = Keep(p, s)]
      BY <1>5 DEF ListNext, Revive, Prune
    <2>2. Registered(p)' \subseteq Registered(p) \cup {s}
      BY <2>1, KeepRange, RegistryOf DEF Registered, SInv
    <2>3. \A x : (\E u \in Task : Launches(p, u, x)') => \E u \in Task : Launches(p, u, x)
      BY <2>1, LeftEnds, LaunchesOf DEF SInv
    <2>4. s \in used /\ \A u \in Task : ~ Launches(p, u, s)
      BY <2>1 DEF SInv, OInv, InUse, Apart, Waits
    <2> QED BY <1>1, <2>1, <2>2, <2>3, <2>4, NamedOf
  <1>6. ASSUME StartDone(p, t) PROVE Named'
    <2>1. PICK s : s = task[p][t].sid
      OBVIOUS
    <2>2. /\ Launches(p, t, s) /\ s \in used /\ s \in Sid /\ Enter(p, s) /\ used' = used
          /\ Become(p, t, Free)
      BY <1>6, <2>1 DEF StartDone, At, Launches, history, SInv, OInv, InUse, Typed
    <2>3. Registered(p)' \subseteq Registered(p) \cup {s}
      BY <2>2, KeepRange, RegistryOf DEF Enter, Registered, SInv
    <2>4. \A x : (\E u \in Task : Launches(p, u, x)') => \E u \in Task \ {t} : Launches(p, u, x)
      BY <2>2, FreeTyped, LaunchesOf DEF SInv
    <2>5. \A u \in Task : Launches(p, u, s) => u = t
      BY <2>2 DEF SInv, Fresh
    <2> QED BY <1>1, <2>2, <2>3, <2>4, <2>5, NamedOf
  <1>7. ASSUME StartTimeout(p, t) \/ StopDone(p, t) \/ Cancel(p, t) PROVE Named'
    <2>1. Become(p, t, Free) /\ used' = used /\ Registered(p)' = Registered(p)
      BY <1>7 DEF StartTimeout, StopDone, Cancel, registry, history, Registered
    <2>2. \A x : (\E u \in Task : Launches(p, u, x)') => \E u \in Task : Launches(p, u, x)
      BY <2>1, FreeTyped, LaunchesOf DEF SInv
    <2> QED BY <1>1, <2>1, <2>2, NamedOf
  <1>8. ASSUME ListBegin(p, t) PROVE Named'
    <2>1. PICK st : st = [Free EXCEPT !.pc = "list", !.todo = reattach[p] \ Registered(p)]
      OBVIOUS
    <2>2. st.pc = "list"
      BY <2>1 DEF Free
    <2>3. Become(p, t, st) /\ used' = used /\ Registered(p)' = Registered(p)
      BY <1>8, <2>1 DEF ListBegin, registry, history, Registered
    <2>4. \A x : (\E u \in Task : Launches(p, u, x)') => \E u \in Task : Launches(p, u, x)
      BY <2>2, <2>3, LaunchesOf DEF SInv
    <2> QED BY <1>1, <2>3, <2>4, NamedOf
  <1> QED BY <1>2, <1>3, <1>4, <1>5, <1>6, <1>7, <1>8 DEF Serve

LEMMA NextNames ==
    ASSUME Single, SInv, [Next]_vars
    PROVE  Named'
  <1>1. ASSUME NEW p \in Proc, Exit(p) \/ Crash(p) PROVE Named'
    <2>1. sessions'[p] = <<>>
      BY <1>1 DEF Exit, Crash, Forget, SInv, Targets
    <2>2. Registered(p)' = {}
      BY <2>1, EmptySeq DEF Registered, Range
    <2> QED BY <2>2, NamedOf
  <1>2. CASE UNCHANGED <<sessions, task, used>>
    BY <1>2 DEF SInv, Named, Registered, Launches
  <1>3. ASSUME NEW p \in Proc, Rename(p) \/ Boot(p) PROVE UNCHANGED <<sessions, task, used>>
    BY <1>3 DEF Rename, Boot, registry, history
  <1>4. ASSUME (\E s \in Sid : AppDies(s)) \/ UNCHANGED vars PROVE UNCHANGED <<sessions, task, used>>
    BY <1>4 DEF AppDies, vars, registry, history
  <1> QED BY <1>1, <1>2, <1>3, <1>4, ServeNames DEF Next

LEMMA Next_SInv == Single /\ SInv /\ OInv' /\ Targets' /\ [Next]_vars => SInv'
  <1> SUFFICES ASSUME Single, SInv, OInv', Targets', [Next]_vars PROVE SInv'
    OBVIOUS
  <1>1. Named'
    BY NextNames
  <1>2. ASSUME NEW p \in Proc, NEW t \in Task, Serve(p, t) PROVE SInv'
    BY <1>1, <1>2, StartBeginStores, AttachStores, StopBeginStores, ListNextStores, StartDoneStores,
       EndsStore, ListBeginStores, CancelStores DEF Serve
  <1>3. CASE (\E s \in Sid : AppDies(s)) \/ UNCHANGED vars
    BY <1>1, <1>3, StillStored DEF AppDies, vars, registry, world, history
  <1> QED BY <1>1, <1>2, <1>3, LifeStores DEF Next

LEMMA Init_SInv == Init => SInv
  <1> SUFFICES ASSUME Init PROVE SInv
    OBVIOUS
  <1>1. OInv /\ Targets
    BY Started DEF DInv
  <1>2. Fresh
    BY FreeTyped DEF Init, Fresh, Launches
  <1>3. Named
    BY EmptySeq DEF Init, Named, Registered, Range
  <1>4. Stored /\ Calm
    BY DEF Init, Stored, Needed, Calm
  <1> QED BY <1>1, <1>2, <1>3, <1>4 DEF SInv

(* Under one server: a registered session whose app runs, and which nobody  *)
(* asked to stop, has its record in the store, unless a write failed or a   *)
(* running app failed a probe; through every crash, graceful exit and       *)
(* restart, and for any number of requests and sessions.                    *)
THEOREM RecordsSurvive == ASSUME Single PROVE Spec => []SurvivesRestart
  <1>1. SInv => SurvivesRestart
    <2>1. ASSUME SInv, NEW p \in up, writing[p] = {}, NEW s \in Registered(p) \ (stopped \cup missed),
                 vm[s] \in alive
          PROVE  s \in store
      <3>1. p \in Proc /\ s \in Sid
        <4>1. p \in Proc
          BY <2>1 DEF SInv, OInv, Typed
        <4>2. sessions[p] \in Seq(Sid)
          BY <2>1, <4>1 DEF SInv, Targets
        <4>3. s \in Sid
          BY <4>2, RangeOf, ElementOfSeq DEF Registered
        <4> QED BY <4>1, <4>3
      <3> QED BY <2>1, <3>1 DEF SInv, Stored, Needed, File
    <2> QED BY <2>1 DEF SurvivesRestart
  <1>2. Init => SInv /\ DInv /\ OInv
    BY Init_SInv, Started
  <1>3. DInv => Targets
    BY DEF DInv
  <1>4. SInv /\ OInv' /\ Targets' /\ [Next]_vars => SInv'
    BY Next_SInv
  <1> QED BY <1>1, <1>2, <1>3, <1>4, HandsKept, TargetsKept, PTL DEF Spec, Safety

-----------------------------------------------------------------------------
(***************************************************************************)
(* What the agent of one server sees (SessionService).  A launch is of an  *)
(* id that is in no file (Unwritten); a write in flight adds a session     *)
(* that is registered, or takes one away that was stopped, lapsed, or has  *)
(* no app (Awaits).  So the rename of a new record opens a session, that   *)
(* of another one may close it, the end of the server sends all to sleep   *)
(* that have a record, and only a list opens one that has no record.       *)
(***************************************************************************)
Unwritten ==
    \A p \in Proc, t \in Task, s \in Sid :
        Launches(p, t, s) => s \notin store /\ \A w \in writing[p] : s \notin w

Writes(p, s) ==
    \/ writing[p] = {store \cup {s}} /\ s \in Registered(p)
    \/ writing[p] = {store \ {s}} /\ (s \in stopped \cup missed \/ vm[s] \notin alive)
Awaits(p) == writing[p] = {} \/ \E s \in Sid : Writes(p, s)

Unique == \A p \in Proc : Distinct(sessions[p])

Underway == Unwritten /\ Unique /\ missed \subseteq Sid /\ \A p \in Proc : Awaits(p)

LInv == SInv /\ Underway

\* With one server, its registry and its writes decide what is open and what is spent.
Way(p, s) == (\E t \in Task : Launches(p, t, s)) \/ \E w \in writing[p] : s \in w
Shows(p, s) == s \in Registered(p) /\ (s \in store \/ \A w \in writing[p] : s \notin w)
Gone(p, s) == s \in used /\ s \notin store /\ s \notin Registered(p) /\ ~ Way(p, s)

LEMMA RegisteredIn ==
    ASSUME Targets, NEW p \in Proc
    PROVE  Registered(p) \subseteq Sid
  <1>1. sessions[p] \in Seq(Sid)
    BY DEF Targets
  <1> QED BY <1>1, RangeOf, ElementOfSeq DEF Registered

LEMMA Seen ==
    ASSUME Single, NEW p \in Proc, store \subseteq Sid, used \subseteq Sid
    PROVE  /\ \A s \in Sid : s \in Opened <=> Shows(p, s)
           /\ \A s \in Sid : s \in Spent <=> Gone(p, s)
  <1>1. \A s \in Sid : s \in Opened <=> Shows(p, s)
    BY DEF Opened, Shows, Single
  <1>2. ASSUME NEW s \in Sid PROVE OnItsWay(s) <=> Way(p, s)
    <2>1. OnItsWay(s) <=> s \in Launching(p) \cup UNION writing[p]
      BY DEF OnItsWay, Single
    <2>2. s \in Launching(p) <=> \E t \in Task : Launches(p, t, s)
      BY DEF Launching, Launches
    <2> QED BY <2>1, <2>2 DEF Way
  <1>3. \A s \in Sid : s \in Spent <=> s \in used /\ s \notin store /\ s \notin Opened /\ ~ Way(p, s)
    BY <1>2 DEF Spent
  <1>4. \A s \in Sid : s \notin store /\ ~ Way(p, s) => (Shows(p, s) <=> s \in Registered(p))
    BY DEF Shows, Way
  <1> QED BY <1>1, <1>3, <1>4 DEF Gone

LEMMA SeenNext ==
    ASSUME Single, NEW p \in Proc, store' \subseteq Sid, used' \subseteq Sid
    PROVE  /\ \A s \in Sid : s \in Opened' <=> Shows(p, s)'
           /\ \A s \in Sid : s \in Spent' <=> Gone(p, s)'
  <1>1. \A s \in Sid : s \in Opened' <=> Shows(p, s)'
    BY DEF Opened, Shows, Single
  <1>2. ASSUME NEW s \in Sid PROVE OnItsWay(s)' <=> Way(p, s)'
    <2>1. OnItsWay(s)' <=> s \in Launching(p)' \cup UNION writing'[p]
      BY DEF OnItsWay, Single
    <2>2. s \in Launching(p)' <=> \E t \in Task : Launches(p, t, s)'
      BY DEF Launching, Launches
    <2> QED BY <2>1, <2>2 DEF Way
  <1>3. \A s \in Sid : s \in Spent' <=> s \in used' /\ s \notin store' /\ s \notin Opened' /\ ~ Way(p, s)'
    BY <1>2 DEF Spent
  <1>4. \A s \in Sid : s \notin store' /\ ~ Way(p, s)' => (Shows(p, s)' <=> s \in Registered(p)')
    BY DEF Shows, Way
  <1> QED BY <1>1, <1>3, <1>4 DEF Gone

LEMMA InSid ==
    /\ Opened \subseteq Sid /\ Opened' \subseteq Sid
    /\ used \subseteq Sid => Spent \subseteq Sid
    /\ used' \subseteq Sid => Spent' \subseteq Sid
    /\ Spent \cap (Opened \cup (store \ Opened)) = {}
    /\ Spent' \cap (Opened' \cup (store' \ Opened')) = {}
  BY DEF Opened, Spent

LEMMA UnderwayOf ==
    ASSUME Single, NEW p \in Proc, Awaits(p)', Distinct(sessions'[p]), missed' \subseteq Sid,
           \A s \in Sid : (\E t \in Task : Launches(p, t, s)') =>
             s \notin store' /\ \A w \in writing'[p] : s \notin w
    PROVE  Underway'
  BY DEF Underway, Unwritten, Unique, Single

\* The apps of sessions only ever go away.
Fades == \A s \in Sid : s \in Opened \cup store /\ vm'[s] \in alive' => vm[s] \in alive

LEMMA FadesIsApps == Fades /\ store \subseteq Sid => Agent!Apps
  BY InSid DEF Fades, Agent!Apps, Agent!Lasting, Reachable

\* A step that leaves the file and what is open.
LEMMA Looks ==
    ASSUME LInv, OInv', Single, NEW p \in Proc, store' = store, stopped' = stopped, Fades,
           missed \subseteq missed', missed' \subseteq Sid,
           \A s \in Sid : Shows(p, s)' <=> Shows(p, s),
           \A s \in Sid : Gone(p, s) => Gone(p, s)'
    PROVE  Agent!World
  <1>1. store \subseteq Sid /\ used \subseteq Sid /\ used' \subseteq Sid
    BY DEF LInv, SInv, OInv, Typed
  <1>2. Opened' = Opened
    <2>1. \A s \in Sid : s \in Opened' <=> s \in Opened
      BY <1>1, Seen, SeenNext
    <2> QED BY <2>1, InSid
  <1>3. Spent \subseteq Spent'
    <2>1. \A s \in Sid : s \in Spent => s \in Spent'
      BY <1>1, Seen, SeenNext
    <2> QED BY <1>1, <2>1, InSid
  <1>4. Agent!Ids
    BY <1>1, <1>3, InSid DEF Agent!Ids
  <1>5. Agent!Lapses
    BY DEF Agent!Lapses
  <1> QED BY <1>1, <1>2, <1>4, <1>5, FadesIsApps DEF Agent!World

LEMMA RegistryKeys ==
    ASSUME Targets, NEW p \in Proc, NEW q, sessions' = [sessions EXCEPT ![p] = q]
    PROVE  sessions'[p] = q
  BY DEF Targets

LEMMA StartBeginShows ==
    ASSUME LInv, Single, OInv', NEW p \in Proc, NEW t \in Task, NEW s \in Sid, StartBegin(p, t, s)
    PROVE  Underway' /\ Agent!World
  <1>1. PICK st : st = [Free EXCEPT !.pc = "launch", !.sid = s]
    OBVIOUS
  <1>2. st.pc = "launch" /\ st.sid = s
    BY <1>1 DEF Free
  <1>3. /\ Become(p, t, st) /\ s \notin used /\ used' = used \cup {s} /\ writing[p] = {}
        /\ UNCHANGED <<sessions, writing, store, vm, alive, stopped, missed>>
    BY <1>1 DEF StartBegin, registry, At
  <1>4. \A x : (\E u \in Task : Launches(p, u, x)') => (\E u \in Task : Launches(p, u, x)) \/ x = s
    BY <1>2, <1>3, LaunchesOf DEF LInv, SInv
  <1>5. s \notin store /\ missed \subseteq Sid
    BY <1>3 DEF LInv, SInv, OInv, InUse, Underway
  <1>6. Underway'
    <2>1. Awaits(p)'
      BY <1>3 DEF Awaits
    <2>2. ASSUME NEW x \in Sid, \E u \in Task : Launches(p, u, x)'
          PROVE  x \notin store' /\ \A w \in writing'[p] : x \notin w
      BY <1>3, <1>4, <1>5, <2>2 DEF LInv, Underway, Unwritten
    <2>3. Distinct(sessions'[p])
      BY <1>3 DEF LInv, Underway, Unique
    <2> QED BY <1>3, <1>5, <2>1, <2>2, <2>3, UnderwayOf
  <1>7. Registered(p)' = Registered(p)
    BY <1>3 DEF Registered
  <1>8. \A x \in Sid : Shows(p, x)' <=> Shows(p, x)
    BY <1>3, <1>7 DEF Shows
  <1>9. \A x \in Sid : Gone(p, x) => Gone(p, x)'
    BY <1>3, <1>4, <1>7 DEF Gone, Way
  <1>10. Fades
    BY <1>3 DEF Fades
  <1> QED BY <1>3, <1>5, <1>6, <1>8, <1>9, <1>10, Looks

\* A new session enters the registry; it shows when its record is written.
LEMMA EnterShows ==
    ASSUME LInv, Single, OInv', NEW p \in Proc, NEW s \in Sid, Enter(p, s), writing[p] = {},
           UNCHANGED <<store, stopped, missed>>, s \notin store, s \notin Registered(p), ~ Gone(p, s),
           \A x : (\E u \in Task : Launches(p, u, x)') => x # s /\ \E u \in Task : Launches(p, u, x),
           used \subseteq used', Fades
    PROVE  Underway' /\ Agent!World
  <1>1. writing'[p] = {store \cup {s}} /\ sessions' = [sessions EXCEPT ![p] = Keep(p, s)]
    BY DEF Enter, Upsert, LInv, SInv, OInv, Typed
  <1>2. s \in Registered(p)' /\ Registered(p)' \subseteq Registered(p) \cup {s}
        /\ Registered(p) \subseteq Registered(p)'
    BY <1>1, KeepRange, RegistryOf DEF Registered, LInv, SInv
  <1>3. Underway'
    <2>1. Awaits(p)'
      BY <1>1, <1>2 DEF Awaits, Writes
    <2>2. ASSUME NEW x \in Sid, \E u \in Task : Launches(p, u, x)'
          PROVE  x \notin store' /\ \A w \in writing'[p] : x \notin w
      BY <1>1, <2>2 DEF LInv, Underway, Unwritten
    <2>3. Distinct(sessions'[p])
      BY <1>1, KeepDistinct, RegistryKeys DEF LInv, SInv, Underway, Unique
    <2> QED BY <2>1, <2>2, <2>3, UnderwayOf DEF LInv, Underway
  <1>4. \A x \in Sid : Shows(p, x)' <=> Shows(p, x)
    BY <1>1, <1>2 DEF Shows
  <1>5. \A x \in Sid : Gone(p, x) => Gone(p, x)'
    BY <1>1, <1>2 DEF Gone, Way
  <1> QED BY <1>3, <1>4, <1>5, Looks DEF LInv, Underway

LEMMA StartDoneShows ==
    ASSUME LInv, Single, OInv', NEW p \in Proc, NEW t \in Task, StartDone(p, t)
    PROVE  Underway' /\ Agent!World
  <1>1. PICK s : s = task[p][t].sid
    OBVIOUS
  <1>2. Launches(p, t, s) /\ s \in used /\ s \in Sid
    BY <1>1 DEF StartDone, At, Launches, LInv, SInv, OInv, InUse, Typed
  <1>3. /\ Become(p, t, Free) /\ Enter(p, s) /\ UNCHANGED <<store, used, stopped, missed>>
        /\ writing[p] = {} /\ vm' \in {vm, [vm EXCEPT ![s] = s]} /\ alive' = alive \cup {s}
    BY <1>1 DEF StartDone, At, history
  <1>4. \A x : (\E u \in Task : Launches(p, u, x)') => x # s /\ \E u \in Task : Launches(p, u, x)
    <2>1. \A x : (\E u \in Task : Launches(p, u, x)') => \E u \in Task \ {t} : Launches(p, u, x)
      BY <1>3, FreeTyped, LaunchesOf DEF LInv, SInv
    <2>2. \A u \in Task : Launches(p, u, s) => u = t
      BY <1>2 DEF LInv, SInv, Fresh
    <2> QED BY <2>1, <2>2
  <1>5. s \notin store /\ s \notin Registered(p) /\ ~ Gone(p, s) /\ s \notin Opened
    BY <1>2 DEF LInv, Underway, Unwritten, SInv, Named, Gone, Way, Opened, Single
  <1>6. Fades
    <2>1. \A x \in Sid : vm[x] # s
      BY <1>2 DEF LInv, SInv, Fresh
    <2>2. \A x \in Sid \ {s} : vm'[x] = vm[x]
      BY <1>3 DEF LInv, SInv, Fresh
    <2> QED BY <1>3, <1>5, <2>1, <2>2 DEF Fades
  <1> QED BY <1>2, <1>3, <1>4, <1>5, <1>6, EnterShows

LEMMA AttachShows ==
    ASSUME LInv, Single, OInv', NEW p \in Proc, NEW t \in Task, NEW s \in Sid, NEW a \in Sid,
           Attach(p, t, s, a)
    PROVE  Underway' /\ Agent!World
  <1>1. /\ Enter(p, s) /\ UNCHANGED <<store, alive, stopped, missed, task>> /\ s \notin used
        /\ used' = used \cup {s} /\ vm' = [vm EXCEPT ![s] = a] /\ writing[p] = {}
    BY DEF Attach, At
  <1>2. s \notin store /\ s \notin Registered(p) /\ ~ Gone(p, s) /\ s \notin Opened
    BY <1>1 DEF LInv, SInv, OInv, InUse, Named, Gone, Opened, Single
  <1>3. \A x : (\E u \in Task : Launches(p, u, x)') => x # s /\ \E u \in Task : Launches(p, u, x)
    BY <1>1 DEF Launches, LInv, SInv, OInv, InUse
  <1>4. Fades
    BY <1>1, <1>2 DEF Fades, LInv, SInv, Fresh
  <1> QED BY <1>1, <1>2, <1>3, <1>4, EnterShows

\* A request that ends or begins to list: nothing it knows of is in a file.
LEMMA QuietShows ==
    ASSUME LInv, Single, OInv', NEW p \in Proc, NEW t \in Task, NEW st, st.pc # "launch", Become(p, t, st),
           UNCHANGED <<store, stopped, missed, used, sessions, writing>>,
           Awaits(p)', Fades
    PROVE  Underway' /\ Agent!World
  <1>1. \A x : (\E u \in Task : Launches(p, u, x)') => \E u \in Task : Launches(p, u, x)
    BY LaunchesOf DEF LInv, SInv
  <1>2. Registered(p)' = Registered(p) /\ missed \subseteq Sid
    BY DEF Registered, LInv, Underway
  <1>3. Underway'
    <2>1. \A x \in Sid : (\E u \in Task : Launches(p, u, x)') =>
            x \notin store' /\ \A w \in writing'[p] : x \notin w
      BY <1>1 DEF LInv, Underway, Unwritten
    <2>2. Distinct(sessions'[p])
      BY DEF LInv, Underway, Unique
    <2> QED BY <1>2, <2>1, <2>2, UnderwayOf
  <1>4. \A x \in Sid : Shows(p, x)' <=> Shows(p, x)
    BY <1>2 DEF Shows
  <1>5. \A x \in Sid : Gone(p, x) => Gone(p, x)'
    BY <1>1, <1>2 DEF Gone, Way
  <1> QED BY <1>2, <1>3, <1>4, <1>5, Looks

LEMMA EndsShow ==
    ASSUME LInv, Single, OInv', NEW p \in Proc, NEW t \in Task,
           StartTimeout(p, t) \/ StopDone(p, t) \/ ListBegin(p, t)
    PROVE  Underway' /\ Agent!World
  <1>1. CASE StartTimeout(p, t) \/ StopDone(p, t)
    <2>1. /\ Become(p, t, Free) /\ UNCHANGED <<store, vm, stopped, missed, used, writing, sessions>>
          /\ alive' \subseteq alive /\ writing[p] = {}
      BY <1>1 DEF StartTimeout, StopDone, At, registry, history, world
    <2>2. Awaits(p)' /\ Fades
      BY <2>1 DEF Awaits, Fades
    <2> QED BY <2>1, <2>2, FreeTyped, QuietShows
  <1>2. CASE ListBegin(p, t)
    <2>1. PICK st : st = [Free EXCEPT !.pc = "list", !.todo = reattach[p] \ Registered(p)]
      OBVIOUS
    <2>2. st.pc # "launch"
      BY <2>1 DEF Free
    <2>3. /\ Become(p, t, st) /\ writing[p] = {}
          /\ UNCHANGED <<store, vm, alive, stopped, missed, used, writing, sessions>>
      BY <1>2, <2>1 DEF ListBegin, At, registry, world, history
    <2>4. Awaits(p)' /\ Fades
      BY <2>3 DEF Awaits, Fades
    <2> QED BY <2>2, <2>3, <2>4, QuietShows
  <1> QED BY <1>1, <1>2

LEMMA CancelShows ==
    ASSUME LInv, Single, OInv', NEW p \in Proc, NEW t \in Task, Cancel(p, t)
    PROVE  Underway' /\ Agent!World
  <1>1. PICK s : s = task[p][t].sid
    OBVIOUS
  <1>2. /\ Become(p, t, Free) /\ writing[p] = {}
        /\ UNCHANGED <<store, stopped, missed, used, writing, sessions>>
        /\ \/ UNCHANGED <<vm, alive>>
           \/ Launches(p, t, s) /\ vm' = [vm EXCEPT ![s] = s] /\ alive' = alive \cup {s}
    BY <1>1 DEF Cancel, At, registry, Launches
  <1>3. Awaits(p)'
    BY <1>2 DEF Awaits
  <1>4. Fades
    <2>1. CASE UNCHANGED <<vm, alive>>
      BY <2>1 DEF Fades
    <2>2. CASE Launches(p, t, s) /\ vm' = [vm EXCEPT ![s] = s] /\ alive' = alive \cup {s}
      <3>1. s \in Sid
        BY <2>2 DEF Launches, LInv, SInv, OInv, InUse, Typed
      <3>2. s \notin store /\ s \notin Opened
        BY <2>2, <3>1 DEF LInv, Underway, Unwritten, SInv, Named, Opened, Single
      <3>3. \A x \in Sid : vm[x] # s
        BY <2>2, <3>1 DEF LInv, SInv, Fresh
      <3>4. \A x \in Sid \ {s} : vm'[x] = vm[x]
        BY <2>2 DEF LInv, SInv, Fresh
      <3> QED BY <2>2, <3>2, <3>3, <3>4 DEF Fades
    <2> QED BY <1>2, <2>1, <2>2
  <1> QED BY <1>2, <1>3, <1>4, FreeTyped, QuietShows

\* A registered or awaited session without a record is one that may go.
LEMMA LooseIs ==
    ASSUME LInv, NEW p \in Proc, NEW s \in Sid, s \notin store,
           s \in Registered(p) \/ Waits(p, s), \A w \in writing[p] : s \notin w
    PROVE  s \in Agent!Loose
  <1>1. ~ Needed(p, s)
    BY DEF LInv, SInv, Stored, File
  <1> QED BY <1>1 DEF Needed, Agent!Loose, Reachable

LEMMA StopBeginShows ==
    ASSUME LInv, Single, OInv', NEW p \in Proc, NEW t \in Task, NEW s \in Sid, StopBegin(p, t, s)
    PROVE  Underway' /\ Agent!Ask(s)
  <1>1. /\ UNCHANGED <<store, vm, alive, used, missed>> /\ stopped' = stopped \cup {s}
        /\ writing[p] = {} /\ writing'[p] = {store \ {s}} /\ s \in used
        /\ sessions' = [sessions EXCEPT ![p] = Without(p, s)]
    BY DEF StopBegin, At, Erase, world, LInv, SInv, OInv, Typed
  <1>2. \A x : (\E u \in Task : Launches(p, u, x)') <=> \E u \in Task : Launches(p, u, x)
    <2>1. CASE task' = task
      BY <2>1 DEF Launches
    <2>2. CASE Become(p, t, [Free EXCEPT !.pc = "stop", !.sid = s])
      <3>1. /\ task'[p][t].pc = "stop" /\ task[p][t].pc = "free"
            /\ \A u \in Task \ {t} : task'[p][u] = task[p][u]
        BY <2>2 DEF Become, Free, StopBegin, At, LInv, SInv, OInv, Typed
      <3> QED BY <3>1 DEF Launches
    <2> QED BY <2>1, <2>2 DEF StopBegin
  <1>3. /\ Registered(p)' \subseteq Registered(p) /\ s \notin Registered(p)'
        /\ \A x \in Registered(p) \ {s} : x \in Registered(p)'
    <2>1. Targets /\ Distinct(sessions[p])
      BY DEF LInv, SInv, Underway, Unique
    <2>2. Registered(p)' = Range(Without(p, s))
      BY <1>1, <2>1, RegistryOf DEF Registered
    <2> QED BY <2>1, <2>2, WithoutRange, WithoutDistinct
  <1>4. Underway'
    <2>1. Awaits(p)'
      BY <1>1 DEF Awaits, Writes
    <2>2. ASSUME NEW x \in Sid, \E u \in Task : Launches(p, u, x)'
          PROVE  x \notin store' /\ \A w \in writing'[p] : x \notin w
      BY <1>1, <1>2, <2>2 DEF LInv, Underway, Unwritten
    <2>3. Distinct(sessions'[p])
      BY <1>1, WithoutDistinct, RegistryKeys DEF LInv, SInv, Underway, Unique
    <2> QED BY <1>1, <2>1, <2>2, <2>3, UnderwayOf DEF LInv, Underway
  <1>5. store \subseteq Sid /\ used \subseteq Sid
    BY DEF LInv, SInv, OInv, Typed
  <1>6. \A x \in Sid : x \in Opened <=> x \in Registered(p)
    BY <1>1, <1>5, Seen DEF Shows
  <1>7. Opened' = Opened \ {s}
    <2>1. \A x \in Sid : x \in Opened' <=> x \in Registered(p)'
      BY <1>1, <1>3, <1>5, SeenNext DEF Shows
    <2>2. \A x \in Sid : x \in Opened' <=> x \in Opened /\ x # s
      BY <1>3, <1>6, <2>1
    <2> QED BY <2>2, InSid
  <1>8. \A x \in Sid : x # s \/ s \in store \/ s \notin Registered(p) => (Gone(p, x)' <=> Gone(p, x))
    BY <1>1, <1>2, <1>3 DEF Gone, Way
  <1>9. Reachable' = Reachable
    BY <1>1 DEF Reachable
  <1>10. CASE s \in store \/ s \notin Registered(p)
    <2>1. store' \ Opened' = (store \ Opened) \cup (Opened \cap {s})
      BY <1>1, <1>6, <1>7, <1>10
    <2>2. Spent' = Spent
      <3>1. \A x \in Sid : x \in Spent' <=> x \in Spent
        BY <1>1, <1>5, <1>8, <1>10, Seen, SeenNext
      <3> QED BY <1>1, <1>5, <3>1, InSid
    <2> QED BY <1>1, <1>4, <1>7, <1>9, <2>1, <2>2 DEF Agent!Ask
  <1>11. CASE s \notin store /\ s \in Registered(p)
    <2>1. store' \ Opened' = store \ Opened
      BY <1>1, <1>7, <1>11
    <2>2. Spent' = Spent \cup {s}
      <3>1. Gone(p, s)'
        BY <1>1, <1>2, <1>3, <1>11 DEF Gone, Way, LInv, SInv, Named
      <3>2. \A x \in Sid : x \in Spent' <=> x \in Spent \/ x = s
        BY <1>1, <1>5, <1>8, <3>1, Seen, SeenNext
      <3> QED BY <1>1, <1>5, <3>2, InSid
    <2>3. s \in Agent!Loose
      BY <1>1, <1>11, LooseIs
    <2> QED BY <1>1, <1>4, <1>7, <1>9, <2>1, <2>2, <2>3 DEF Agent!Ask
  <1> QED BY <1>10, <1>11

LEMMA ListNextShows ==
    ASSUME LInv, Single, OInv', NEW p \in Proc, NEW t \in Task, NEW s \in Sid, ListNext(p, t, s)
    PROVE  Underway' /\ (Agent!World \/ Agent!Wake(s) \/ Agent!Return(s))
  <1>1. /\ At(p, t, "list") /\ s \in task[p][t].todo /\ Become(p, t, Left(p, t, s))
        /\ writing[p] = {} /\ UNCHANGED <<store, vm, alive, used, stopped>>
    BY DEF ListNext, At, world
  <1>2. Left(p, t, s).pc # "launch" /\ task[p][t].pc = "list"
    BY <1>1, LeftEnds DEF LInv, SInv, At
  <1>3. \A x : (\E u \in Task : Launches(p, u, x)') <=> \E u \in Task : Launches(p, u, x)
    <2>1. /\ task'[p][t] = Left(p, t, s) /\ \A u \in Task \ {t} : task'[p][u] = task[p][u]
      BY <1>1 DEF Become, LInv, SInv, OInv, Typed
    <2> QED BY <1>2, <2>1 DEF Launches
  <1>4. store \subseteq Sid /\ used \subseteq Sid /\ missed \subseteq Sid
    BY DEF LInv, SInv, OInv, Typed, Underway
  <1>5. Fades /\ Reachable' = Reachable
    BY <1>1 DEF Fades, Reachable
  <1>6. CASE vm[s] \in alive /\ Revive(p, s) /\ UNCHANGED missed
    <2>1. sessions' = [sessions EXCEPT ![p] = Keep(p, s)] /\ writing' = writing
      BY <1>6 DEF Revive
    <2>2. /\ s \in Registered(p)' /\ Registered(p) \subseteq Registered(p)'
          /\ Registered(p)' \subseteq Registered(p) \cup {s}
      BY <2>1, KeepRange, RegistryOf DEF Registered, LInv, SInv
    <2>3. Underway'
      <3>1. Awaits(p)'
        BY <1>1, <2>1 DEF Awaits
      <3>2. ASSUME NEW x \in Sid, \E u \in Task : Launches(p, u, x)'
            PROVE  x \notin store' /\ \A w \in writing'[p] : x \notin w
        BY <1>1, <1>3, <2>1, <3>2 DEF LInv, Underway, Unwritten
      <3>3. Distinct(sessions'[p])
        BY <2>1, KeepDistinct, RegistryKeys DEF LInv, SInv, Underway, Unique
      <3> QED BY <1>4, <1>6, <3>1, <3>2, <3>3, UnderwayOf
    <2>4. CASE s \in Registered(p)
      <3>1. Registered(p)' = Registered(p)
        BY <2>2, <2>4
      <3>2. \A x \in Sid : Shows(p, x)' <=> Shows(p, x)
        BY <1>1, <2>1, <3>1 DEF Shows
      <3>3. \A x \in Sid : Gone(p, x) => Gone(p, x)'
        BY <1>1, <1>3, <2>1, <3>1 DEF Gone, Way
      <3> QED BY <1>1, <1>4, <1>5, <1>6, <2>3, <3>2, <3>3, Looks
    <2>5. CASE s \notin Registered(p)
      <3>1. Opened' = Opened \cup {s}
        <4>1. \A x \in Sid : Shows(p, x)' <=> Shows(p, x) \/ x = s
          BY <1>1, <2>1, <2>2 DEF Shows
        <4>2. \A x \in Sid : x \in Opened' <=> x \in Opened \/ x = s
          BY <1>1, <1>4, <4>1, Seen, SeenNext
        <4> QED BY <4>2, InSid
      <3>2. \A x \in Sid : x \in Spent' <=> x \in Spent /\ x # s
        <4>1. \A x \in Sid : Gone(p, x)' <=> Gone(p, x) /\ x # s
          BY <1>1, <1>3, <2>1, <2>2 DEF Gone, Way
        <4> QED BY <1>1, <1>4, <4>1, Seen, SeenNext
      <3>3. s \in Reachable /\ s \notin Opened
        BY <1>6, <2>5 DEF Reachable, Opened, Single
      <3>4. CASE s \in store
        <4>1. store' \ Opened' = (store \ Opened) \ {s} /\ s \in store \ Opened
          BY <1>1, <3>1, <3>3, <3>4
        <4>2. Spent' = Spent
          <5>1. s \notin Spent
            BY <3>4 DEF Spent
          <5> QED BY <1>1, <1>4, <3>2, <5>1, InSid
        <4>3. Agent!Wake(s)
          BY <1>1, <1>5, <1>6, <3>1, <3>3, <4>1, <4>2 DEF Agent!Wake
        <4> QED BY <2>3, <4>3
      <3>5. CASE s \notin store
        <4>1. store' \ Opened' = store \ Opened
          BY <1>1, <3>1, <3>5
        <4>2. Spent' = Spent \ {s}
          BY <1>1, <1>4, <3>2, InSid
        <4>3. s \in Spent
          <5>1. Waits(p, s) /\ s \in used
            BY <1>1 DEF Waits, LInv, SInv, OInv, InUse
          <5>2. \A u \in Task : ~ Launches(p, u, s)
            BY <5>1 DEF LInv, SInv, OInv, Apart
          <5> QED BY <1>1, <1>4, <2>5, <3>5, <5>1, <5>2, Seen DEF Gone, Way
        <4>4. s \in stopped \cup missed
          <5>1. Waits(p, s)
            BY <1>1 DEF Waits
          <5>2. s \in Agent!Loose
            BY <1>1, <3>5, <5>1, LooseIs
          <5> QED BY <3>3, <5>2 DEF Agent!Loose
        <4>5. Agent!Return(s)
          BY <1>1, <1>5, <1>6, <3>1, <3>3, <4>1, <4>2, <4>3, <4>4 DEF Agent!Return
        <4> QED BY <2>3, <4>5
      <3> QED BY <3>4, <3>5
    <2> QED BY <2>4, <2>5
  <1>7. CASE Prune(p, s) /\ missed' = missed \cup (IF vm[s] \in alive THEN {s} ELSE {})
    <2>1. sessions' = sessions /\ writing'[p] = {store \ {s}}
      BY <1>7 DEF Prune, Erase, LInv, SInv, OInv, Typed
    <2>2. missed \subseteq missed' /\ missed' \subseteq Sid /\ (s \in missed' \/ vm[s] \notin alive)
      BY <1>4, <1>7
    <2>3. Underway'
      <3>1. Awaits(p)'
        BY <1>1, <2>1, <2>2 DEF Awaits, Writes
      <3>2. ASSUME NEW x \in Sid, \E u \in Task : Launches(p, u, x)'
            PROVE  x \notin store' /\ \A w \in writing'[p] : x \notin w
        BY <1>1, <1>3, <2>1, <3>2 DEF LInv, Underway, Unwritten
      <3>3. Distinct(sessions'[p])
        BY <2>1 DEF LInv, Underway, Unique
      <3> QED BY <2>2, <3>1, <3>2, <3>3, UnderwayOf
    <2>4. Registered(p)' = Registered(p)
      BY <2>1 DEF Registered
    <2>5. \A x \in Sid : Shows(p, x)' <=> Shows(p, x)
      BY <1>1, <2>1, <2>4 DEF Shows
    <2>6. \A x \in Sid : Gone(p, x) => Gone(p, x)'
      BY <1>1, <1>3, <2>1, <2>4 DEF Gone, Way
    <2> QED BY <1>1, <1>5, <2>2, <2>3, <2>5, <2>6, Looks
  <1> QED BY <1>6, <1>7 DEF ListNext

LEMMA RenameShows ==
    ASSUME LInv, Single, OInv', NEW p \in Proc, Rename(p)
    PROVE  Underway' /\ (Agent!World \/ \E s \in Sid : Agent!Open(s) \/ Agent!Close(s))
  <1>1. PICK ids \in writing[p] :
               \/ store' = ids /\ UNCHANGED missed
               \/ missed' = missed \cup Differ(ids) /\ UNCHANGED store
    BY DEF Rename
  <1>2. writing'[p] = {} /\ UNCHANGED <<sessions, task, vm, alive, used, stopped>>
    BY DEF Rename, registry, world, LInv, SInv, OInv, Typed
  <1>3. PICK s \in Sid : Writes(p, s)
    BY <1>1 DEF LInv, Underway, Awaits
  <1>4. \A x : (\E u \in Task : Launches(p, u, x)') <=> \E u \in Task : Launches(p, u, x)
    BY <1>2 DEF Launches
  <1>5. Registered(p)' = Registered(p) /\ Reachable' = Reachable /\ Fades
    BY <1>2 DEF Registered, Reachable, Fades
  <1>6. /\ store \subseteq Sid /\ store' \subseteq Sid /\ used \subseteq Sid /\ used' \subseteq Sid
        /\ ids \subseteq Sid /\ missed \subseteq Sid
    BY DEF LInv, SInv, OInv, Typed, Underway
  <1>7. missed \subseteq missed' /\ missed' \subseteq Sid
    BY <1>1, <1>6 DEF Differ
  <1>8. Underway'
    <2>1. Awaits(p)' /\ Distinct(sessions'[p])
      BY <1>2 DEF Awaits, LInv, Underway, Unique
    <2>2. ASSUME NEW x \in Sid, \E u \in Task : Launches(p, u, x)'
          PROVE  x \notin store' /\ \A w \in writing'[p] : x \notin w
      BY <1>1, <1>2, <1>4, <2>2 DEF LInv, Underway, Unwritten
    <2> QED BY <1>7, <2>1, <2>2, UnderwayOf
  <1>9. \A x \in Sid : x \in Opened' <=> x \in Registered(p)
    BY <1>2, <1>5, <1>6, SeenNext DEF Shows
  <1>10. \A x \in Sid : (\E u \in Task : Launches(p, u, x)) => x \notin Registered(p) /\ x \notin store
    BY DEF LInv, SInv, Named, Underway, Unwritten
  <1>11. CASE writing[p] = {store \cup {s}} /\ s \in Registered(p) /\ s \notin store
    <2>1. ids = store \cup {s} /\ store' \in {store, store \cup {s}}
      BY <1>1, <1>11
    <2>2. Opened' = Opened \cup {s} /\ s \notin Opened
      <3>1. \A x \in Sid : x \in Opened <=> x \in Registered(p) /\ x # s
        BY <1>6, <1>11, Seen DEF Shows
      <3> QED BY <1>9, <1>11, <3>1, InSid
    <2>3. store' \ Opened' = store \ Opened
      BY <1>11, <2>1, <2>2
    <2>4. Spent' = Spent /\ s \notin Spent
      <3>1. \A x \in Sid : Gone(p, x)' <=> Gone(p, x)
        BY <1>2, <1>4, <1>5, <1>11, <2>1 DEF Gone, Way
      <3>2. ~ Gone(p, s)
        BY <1>11 DEF Gone
      <3>3. \A x \in Sid : (x \in Spent' <=> x \in Spent) /\ s \notin Spent
        BY <1>6, <3>1, <3>2, Seen, SeenNext
      <3> QED BY <1>6, <3>3, InSid
    <2>5. s \notin Opened \cup (store \ Opened) \cup Spent
      BY <1>11, <2>2, <2>4
    <2>6. Agent!Lapses
      BY <1>7 DEF Agent!Lapses
    <2>7. Agent!Open(s)
      BY <1>2, <1>5, <2>2, <2>3, <2>4, <2>5, <2>6 DEF Agent!Open, Agent!Lasting
    <2> QED BY <1>8, <2>7
  <1>12. CASE ~ (writing[p] = {store \cup {s}} /\ s \in Registered(p) /\ s \notin store)
    <2>1. \A x \in Sid : x \in Opened <=> x \in Registered(p)
      <3>1. (writing[p] = {store \cup {s}} /\ s \in store) \/ writing[p] = {store \ {s}}
        BY <1>3, <1>12 DEF Writes
      <3>2. \A x \in Sid : Shows(p, x) <=> x \in Registered(p)
        BY <3>1 DEF Shows
      <3> QED BY <1>6, <3>2, Seen
    <2>2. Opened' = Opened
      BY <1>9, <2>1, InSid
    <2>3. CASE store' = store
      <3>1. \A x \in Sid : Shows(p, x)' <=> Shows(p, x)
        BY <1>6, <2>2, Seen, SeenNext
      <3>2. \A x \in Sid : Gone(p, x) => Gone(p, x)'
        BY <1>2, <1>4, <1>5, <2>3 DEF Gone, Way
      <3> QED BY <1>2, <1>5, <1>7, <1>8, <2>3, <3>1, <3>2, Looks
    <2>4. CASE store' # store
      <3>1. /\ s \in store /\ store' = store \ {s} /\ missed' = missed
            /\ writing[p] = {store \ {s}} /\ (s \in stopped \cup missed \/ vm[s] \notin alive)
        <4>1. ids # store /\ store' = ids /\ missed' = missed
          BY <1>1, <2>4
        <4>2. writing[p] # {store \cup {s}} \/ s \in store
          BY <1>3, <1>12, <4>1 DEF Writes
        <4>3. s \in store => store \cup {s} = store
          OBVIOUS
        <4>4. s \notin store => store \ {s} = store
          OBVIOUS
        <4> QED BY <1>3, <4>1, <4>2, <4>3, <4>4 DEF Writes
      <3>2. CASE s \in Registered(p)
        <4>1. store' \ Opened' = store \ Opened
          BY <2>1, <2>2, <3>1, <3>2
        <4>2. Spent \subseteq Spent'
          <5>1. \A x \in Sid : Gone(p, x) => Gone(p, x)'
            BY <1>2, <1>4, <1>5, <3>1 DEF Gone, Way
          <5>2. \A x \in Sid : x \in Spent => x \in Spent'
            BY <1>6, <5>1, Seen, SeenNext
          <5> QED BY <1>6, <5>2, InSid
        <4>3. Agent!Ids
          BY <1>6, <4>2, InSid DEF Agent!Ids
        <4>4. Agent!Apps /\ Agent!Lapses
          BY <1>5, <1>6, <1>7, FadesIsApps DEF Agent!Lapses
        <4>5. Agent!World
          BY <1>2, <2>2, <4>1, <4>3, <4>4 DEF Agent!World
        <4> QED BY <1>8, <4>5
      <3>3. CASE s \notin Registered(p)
        <4>1. store' \ Opened' = (store \ Opened) \ {s} /\ s \in store \ Opened
          BY <2>1, <2>2, <3>1, <3>3
        <4>2. Spent' = Spent \cup {s}
          <5>1. Gone(p, s)'
            <6>1. s \in used /\ \A u \in Task : ~ Launches(p, u, s)
              BY <1>10, <3>1 DEF LInv, SInv, OInv, InUse
            <6> QED BY <1>2, <1>4, <1>5, <3>1, <3>3, <6>1 DEF Gone, Way
          <5>2. \A x \in Sid \ {s} : Gone(p, x)' <=> Gone(p, x)
            BY <1>2, <1>4, <1>5, <3>1 DEF Gone, Way
          <5>3. \A x \in Sid : x \in Spent' <=> x \in Spent \/ x = s
            BY <1>6, <5>1, <5>2, Seen, SeenNext
          <5> QED BY <1>6, <5>3, InSid
        <4>3. s \in Agent!Loose
          BY <3>1 DEF Agent!Loose, Reachable
        <4>4. Agent!Close(s)
          BY <1>2, <1>5, <2>2, <3>1, <4>1, <4>2, <4>3 DEF Agent!Close
        <4> QED BY <1>8, <4>4
      <3> QED BY <3>2, <3>3
    <2> QED BY <2>3, <2>4
  <1> QED BY <1>11, <1>12

LEMMA EndShows ==
    ASSUME LInv, Single, OInv', NEW p \in Proc, Exit(p) \/ Crash(p)
    PROVE  Underway' /\ Agent!ServerEnds
  <1>1. /\ sessions'[p] = <<>> /\ writing'[p] = {} /\ \A u \in Task : task'[p][u] = Free
        /\ UNCHANGED <<store, vm, used, stopped, missed>> /\ alive' \subseteq alive
    BY DEF Exit, Crash, Forget, LInv, SInv, OInv, Typed, Targets
  <1>2. Registered(p)' = {} /\ Distinct(sessions'[p])
    BY <1>1, EmptySeq DEF Registered, Range, Distinct
  <1>3. \A x : ~ Way(p, x)' /\ ~ \E u \in Task : Launches(p, u, x)'
    BY <1>1, FreeTyped DEF Way, Launches
  <1>4. store \subseteq Sid /\ used \subseteq Sid /\ missed \subseteq Sid
    BY DEF LInv, SInv, OInv, Typed, Underway
  <1>5. Underway'
    BY <1>1, <1>2, <1>3, <1>4, UnderwayOf DEF Awaits
  <1>6. Opened' = {}
    <2>1. \A x \in Sid : x \notin Opened'
      BY <1>1, <1>2, <1>4, SeenNext DEF Shows
    <2> QED BY <2>1, InSid
  <1>7. \A x \in used : x \notin store => x \in Spent'
    BY <1>1, <1>2, <1>3, <1>4, SeenNext DEF Gone
  <1>8. Agent!Ids
    <2>1. \A x \in Spent : x \in used /\ x \notin store
      BY DEF Spent
    <2> QED BY <1>1, <1>4, <1>7, <2>1, InSid DEF Agent!Ids
  <1>9. Agent!Apps
    <2>1. Fades
      BY <1>1 DEF Fades
    <2> QED BY <1>4, <2>1, FadesIsApps
  <1>10. store' \ Opened' = store
    BY <1>1, <1>6
  <1>11. ASSUME NEW x \in Opened, x \notin store PROVE x \in Agent!Loose /\ x \in Spent'
    <2>1. x \in Sid /\ Shows(p, x)
      BY <1>4, Seen, InSid
    <2>2. x \in used
      BY <2>1 DEF Shows, LInv, SInv, Named
    <2>3. x \in Agent!Loose
      BY <1>11, <2>1, LooseIs DEF Shows
    <2> QED BY <1>7, <1>11, <2>2, <2>3
  <1> QED BY <1>1, <1>5, <1>6, <1>8, <1>9, <1>10, <1>11 DEF Agent!ServerEnds, Agent!Lasting

\* A start, and what happens outside.
LEMMA OutsideShows ==
    ASSUME LInv, Single, OInv', NEW p \in Proc, alive' \subseteq alive,
           UNCHANGED <<sessions, writing, task, store, vm, used, stopped, missed>>
    PROVE  Underway' /\ Agent!World
  <1>1. Underway'
    BY DEF LInv, Underway, Unwritten, Unique, Awaits, Writes, Launches, Registered
  <1>2. \A x \in Sid : Shows(p, x)' <=> Shows(p, x)
    BY DEF Shows, Registered
  <1>3. \A x \in Sid : Gone(p, x) => Gone(p, x)'
    BY DEF Gone, Way, Launches, Registered
  <1>4. Fades /\ missed \subseteq Sid
    BY DEF Fades, LInv, Underway
  <1> QED BY <1>1, <1>2, <1>3, <1>4, Looks

LEMMA StepShows ==
    ASSUME Single, LInv, OInv', [Next]_vars
    PROVE  Underway' /\ [Agent!Next]_(Agent!vars)
  <1>1. ASSUME NEW p \in Proc, NEW t \in Task, Serve(p, t)
        PROVE  Underway' /\ Agent!Next
    <2>1. ASSUME NEW s \in Sid, StartBegin(p, t, s)
          PROVE  Underway' /\ Agent!World
      BY <2>1, StartBeginShows
    <2>2. ASSUME NEW s \in Sid, NEW a \in Sid, Attach(p, t, s, a) PROVE Underway' /\ Agent!World
      BY <2>2, AttachShows
    <2>3. ASSUME NEW s \in Sid, StopBegin(p, t, s) PROVE Underway' /\ Agent!Ask(s)
      BY <2>3, StopBeginShows
    <2>4. ASSUME NEW s \in Sid, ListNext(p, t, s)
          PROVE  Underway' /\ (Agent!World \/ Agent!Wake(s) \/ Agent!Return(s))
      BY <2>4, ListNextShows
    <2>5. ASSUME StartDone(p, t) \/ Cancel(p, t) PROVE Underway' /\ Agent!World
      BY <2>5, StartDoneShows, CancelShows
    <2>6. ASSUME StartTimeout(p, t) \/ StopDone(p, t) \/ ListBegin(p, t)
          PROVE  Underway' /\ Agent!World
      BY <2>6, EndsShow
    <2> QED BY <1>1, <2>1, <2>2, <2>3, <2>4, <2>5, <2>6 DEF Serve, Agent!Next
  <1>2. ASSUME NEW p \in Proc, Rename(p) PROVE Underway' /\ Agent!Next
    BY <1>2, RenameShows DEF Agent!Next
  <1>3. ASSUME NEW p \in Proc, Exit(p) \/ Crash(p) PROVE Underway' /\ Agent!Next
    BY <1>3, EndShows DEF Agent!Next
  <1>4. ASSUME NEW p \in Proc, Boot(p) PROVE Underway' /\ Agent!Next
    BY <1>4, OutsideShows DEF Boot, world, history, Agent!Next
  <1>5. CASE \E s \in Sid : AppDies(s)
    <2>1. /\ UNCHANGED <<sessions, writing, task, store, vm, used, stopped, missed>>
          /\ alive' \subseteq alive
      BY <1>5 DEF AppDies, registry, history
    <2>2. CASE Proc = {}
      <3>1. Underway'
        BY <2>1, <2>2 DEF Underway, Unwritten, Unique, LInv
      <3>2. Opened' = Opened /\ Spent' = Spent /\ Opened = {} /\ store \subseteq Sid
        BY <2>1, <2>2 DEF Opened, Spent, OnItsWay, LInv, SInv, OInv, Typed
      <3>3. Fades
        BY <2>1 DEF Fades
      <3>4. Agent!Ids /\ Agent!Lapses
        BY <2>1, <3>2, InSid DEF Agent!Ids, Agent!Lapses, LInv, SInv, OInv, Typed, Underway
      <3>5. Agent!World
        BY <2>1, <3>2, <3>3, <3>4, FadesIsApps DEF Agent!World
      <3> QED BY <3>1, <3>5 DEF Agent!Next
    <2>3. CASE Proc # {}
      BY <2>1, <2>3, OutsideShows DEF Agent!Next
    <2> QED BY <2>2, <2>3
  <1>6. CASE UNCHANGED vars
    <2>1. UNCHANGED <<sessions, writing, task, store, vm, alive, used, stopped, missed>>
      BY <1>6 DEF vars, registry, world, history
    <2>2. Underway'
      BY <2>1 DEF LInv, Underway, Unwritten, Unique, Awaits, Writes, Launches, Registered
    <2>3. UNCHANGED <<Opened, Spent, Reachable>>
      BY <2>1 DEF Opened, Spent, OnItsWay, Launching, Registered, Reachable
    <2> QED BY <2>1, <2>2, <2>3 DEF Agent!vars
  <1> QED BY <1>1, <1>2, <1>3, <1>4, <1>5, <1>6 DEF Next

\* The invariant of one server, with what is in flight.
LEMMA LInvKept ==
    ASSUME Single
    PROVE  Spec => [](LInv /\ OInv)
  <1>1. Init => SInv /\ DInv /\ OInv
    BY Init_SInv, Started
  <1>2. Init => Underway
    <2>1. Init => Unwritten /\ Unique
      BY FreeTyped, EmptySeq DEF Init, Unwritten, Unique, Distinct, Launches
    <2>2. Init => missed \subseteq Sid /\ \A p \in Proc : Awaits(p)
      BY DEF Init, Awaits
    <2> QED BY <2>1, <2>2 DEF Underway
  <1>3. DInv => Targets
    BY DEF DInv
  <1>4. SInv /\ OInv' /\ Targets' /\ [Next]_vars => SInv'
    BY Next_SInv
  <1>5. SInv /\ Underway /\ OInv' /\ [Next]_vars => Underway'
    BY StepShows DEF LInv
  <1>6. SInv /\ Underway <=> LInv
    BY DEF LInv
  <1> QED BY <1>1, <1>2, <1>3, <1>4, <1>5, <1>6, HandsKept, TargetsKept, PTL DEF Spec, Safety

(* Under one server, for any number of requests and sessions: every step of *)
(* the registry and its file is a step of SessionService or none.           *)
THEOREM SessionsKept == ASSUME Single PROVE Spec => KeepsSessions
  <1>1. Init => Agent!Init
    <2>1. ASSUME Init PROVE Agent!Init
      <3>1. store = {} /\ used = {} /\ stopped = {} /\ missed = {} /\ alive = {}
            /\ \A p \in Proc : sessions[p] = <<>>
        BY <2>1 DEF Init
      <3>2. \A p \in Proc : Registered(p) = {}
        BY <3>1, EmptySeq DEF Registered, Range
      <3>3. Opened = {} /\ Spent = {} /\ Reachable = {}
        BY <3>1, <3>2 DEF Opened, Spent, Reachable
      <3> QED BY <3>1, <3>3 DEF Agent!Init
    <2> QED BY <2>1
  <1>2. LInv /\ OInv' /\ [Next]_vars => [Agent!Next]_(Agent!vars)
    BY StepShows
  <1> QED BY <1>1, <1>2, LInvKept, PTL DEF Spec, Safety, KeepsSessions, Agent!Spec
=============================================================================
