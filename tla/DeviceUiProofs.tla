--------------------------- MODULE DeviceUiProofs ---------------------------
(***************************************************************************)
(* Proofs about DeviceUi, for any number of clients, calls, faults and     *)
(* server incarnations: the three invariants of the run and the safety     *)
(* half of the promise UiService makes.                                    *)
(*                                                                         *)
(* The actions only change what their own call is, so each is first        *)
(* reduced to what it makes of that call (the ...Effect lemmas), and the   *)
(* parts of the inductive invariant are shown from those:                  *)
(*   Calls     where a call can be and how often its action landed by then *)
(*   Switches  what the helper packages are while a pause is under way     *)
(*   Dumps     what the cached dump, and every dump in flight, shows       *)
(*   Sessions  which WDA session a call works with that nothing disturbed  *)
(***************************************************************************)
EXTENDS DeviceUi, SequenceTheorems, TLAPS

(* What is left of a tool's operations, with the tap that the Android       *)
(* driver puts in the place of a tap_text it could not carry out.           *)
Rest ==
    [tap |-> {<<"tap">>}, tap_element |-> {<<"find", "tap">>, <<"tap">>},
     tap_text |-> {<<"tap_text">>, <<"tap">>}, gesture |-> {<<"gesture">>},
     find_element |-> {<<"find">>}, wait_for |-> {<<"find">>},
     wait_visible |-> {<<"find", "find">>, <<"find">>},
     wait_gone |-> {<<"find", "find">>, <<"find">>},
     tap_and_verify |-> {<<"tap_text", "find">>, <<"tap", "find">>, <<"find">>},
     dump_ui |-> {<<"dump_ui">>}, pause |-> {<<"pause">>}, resume |-> {<<"resume">>}]

Ops == Acts \cup {"find", "dump_ui", "pause", "resume"}
ActingTools == {"tap", "tap_element", "tap_text", "gesture", "tap_and_verify"}

(* The action of the tool is still to come, or under way.                   *)
Ahead(k) == k.tool \in ActingTools /\ ~(k.tool = "tap_and_verify" /\ k.todo = <<"find">>)

LEMMA RestOf ==
    ASSUME NEW t \in DOMAIN Steps
    PROVE  /\ t \in DOMAIN Rest /\ Steps[t] \in Rest[t]
           /\ IsAct(t) <=> t \in ActingTools
  <1>1. t \in {"tap", "tap_element", "tap_text", "gesture", "find_element", "wait_for",
               "wait_visible", "wait_gone", "tap_and_verify", "dump_ui", "pause", "resume"}
    BY DEF Steps
  <1>2. t \in DOMAIN Rest /\ Steps[t] \in Rest[t]
    BY <1>1 DEF Steps, Rest
  <1>3. IsAct(t) <=> t \in ActingTools
    BY <1>1 DEF IsAct, Steps, ActingTools, Acts
  <1> QED BY <1>2, <1>3

LEMMA OneOrTwo ==
    /\ \A x : <<x>> # <<>> /\ Len(<<x>>) = 1 /\ Head(<<x>>) = x
    /\ \A x, y : <<x, y>> # <<>> /\ Len(<<x, y>>) = 2 /\ Head(<<x, y>>) = x
                /\ Tail(<<x, y>>) = <<y>>
    /\ \A x, y, z : <<x, y>> # <<z>>
    /\ \A x, z : <<x>> = <<z>> <=> x = z
  OBVIOUS

LEMMA Instead ==
    /\ <<"tap">> \o Tail(<<"tap_text">>) = <<"tap">>
    /\ <<"tap">> \o Tail(<<"tap_text", "find">>) = <<"tap", "find">>
  <1>1. <<"tap">> \o Tail(<<"tap_text">>) = <<"tap">>
    <2>1. <<"tap">> \in Seq({"tap"}) /\ Tail(<<"tap_text">>) = <<>>
      OBVIOUS
    <2> QED BY <2>1, ConcatEmptySeq
  <1>2. <<"tap">> \o Tail(<<"tap_text", "find">>) = <<"tap", "find">>
    <2>1. PICK a, b, c : a = <<"tap">> /\ b = <<"find">> /\ c = <<"tap", "find">>
      OBVIOUS
    <2>2. /\ a \in Seq({"tap", "find"}) /\ b \in Seq({"tap", "find"}) /\ c \in Seq({"tap", "find"})
          /\ Len(a) = 1 /\ Len(b) = 1 /\ Len(c) = 2
          /\ a[1] = "tap" /\ b[1] = "find" /\ c[1] = "tap" /\ c[2] = "find"
      BY <2>1
    <2>3. PICK s : s = a \o b
      OBVIOUS
    <2>4. s \in Seq({"tap", "find"}) /\ Len(s) = 2 /\ s[1] = "tap" /\ s[2] = "find"
      BY <2>2, <2>3, ConcatProperties
    <2>5. s = c
      <3>1. \A i \in 1..Len(s) : s[i] = c[i]
        BY <2>2, <2>4
      <3> QED BY <2>2, <2>4, <3>1, SeqEqual
    <2>6. Tail(<<"tap_text", "find">>) = b
      BY <2>1
    <2> QED BY <2>1, <2>3, <2>5, <2>6
  <1> QED BY <1>1, <1>2

(* Which operations are left, by the next of them.                          *)
LEMMA Remains ==
    ASSUME NEW t \in DOMAIN Steps, NEW q \in Rest[t]
    PROVE  \/ q = <<t>> /\ t \in {"tap", "tap_text", "gesture", "dump_ui", "pause", "resume"}
           \/ q = <<"tap">> /\ t \in {"tap_element", "tap_text"}
           \/ q = <<"find">> /\ t \in {"find_element", "wait_for", "wait_visible", "wait_gone", "tap_and_verify"}
           \/ q = <<"find", "find">> /\ t \in {"wait_visible", "wait_gone"}
           \/ q = <<"find", "tap">> /\ t = "tap_element"
           \/ q = <<"tap_text", "find">> /\ t = "tap_and_verify"
           \/ q = <<"tap", "find">> /\ t = "tap_and_verify"
  BY DEF Steps, Rest

LEMMA HeadAndTail ==
    ASSUME NEW t \in DOMAIN Steps, NEW q \in Rest[t]
    PROVE  /\ q # <<>> /\ Len(q) \in 1..2
           /\ Head(q) \in Ops
           /\ Len(q) > 1 => Tail(q) \in Rest[t]
           /\ Len(q) > 1 /\ t = "tap_and_verify" => Tail(q) = <<"find">>
           /\ Head(q) \in Acts => t \in ActingTools /\ q # <<"find">>
           /\ Head(q) \notin Acts /\ Len(q) = 1 /\ t \in ActingTools
                => t = "tap_and_verify" /\ q = <<"find">>
           /\ Head(q) \notin Acts /\ Len(q) > 1 => t # "tap_and_verify"
           /\ Head(q) \in Acts /\ Len(q) > 1 => t = "tap_and_verify"
           /\ Head(q) = "tap_text" => <<"tap">> \o Tail(q) \in Rest[t]
           /\ Head(q) \in {"pause", "resume", "dump_ui"} => Head(q) = t /\ Len(q) = 1
           /\ t \in {"pause", "resume", "tap", "dump_ui"} => Head(q) = t
  <1>1. CASE q = <<t>> /\ t \in {"tap", "tap_text", "gesture", "dump_ui", "pause", "resume"}
    BY <1>1, OneOrTwo, Instead DEF Ops, Acts, ActingTools, Rest
  <1>2. CASE q = <<"tap">> /\ t \in {"tap_element", "tap_text"}
    BY <1>2, OneOrTwo DEF Ops, Acts, ActingTools
  <1>3. CASE q = <<"find">> /\ t \in {"find_element", "wait_for", "wait_visible", "wait_gone", "tap_and_verify"}
    BY <1>3, OneOrTwo DEF Ops, Acts, ActingTools
  <1>4. CASE q = <<"find", "find">> /\ t \in {"wait_visible", "wait_gone"}
    BY <1>4, OneOrTwo DEF Ops, Acts, ActingTools, Rest
  <1>5. CASE q = <<"find", "tap">> /\ t = "tap_element"
    BY <1>5, OneOrTwo DEF Ops, Acts, ActingTools, Rest
  <1>6. CASE q = <<"tap_text", "find">> /\ t = "tap_and_verify"
    BY <1>6, OneOrTwo, Instead DEF Ops, Acts, ActingTools, Rest
  <1>7. CASE q = <<"tap", "find">> /\ t = "tap_and_verify"
    BY <1>7, OneOrTwo DEF Ops, Acts, ActingTools, Rest
  <1> QED BY <1>1, <1>2, <1>3, <1>4, <1>5, <1>6, <1>7, Remains
-----------------------------------------------------------------------------
(* The calls, one by one.                                                   *)
IosAt == {"get", "connect", "settle", "send", "broken"}
AdbAt == {"adb_first", "click", "adb_last"}
Places == {"idle", "enter", "reply", "android", "package", "switch"} \cup IosAt \cup AdbAt
Todos == {<<>>} \cup UNION {Rest[t] : t \in DOMAIN Steps}

CallType ==
    [tool : DOMAIN Steps \cup {"none"}, todo : Todos, at : Places, tries : 0..1, sess : Nat,
     got : {"none", "ok", "hit", "present", "absent", "err"}, hits : Nat, saw : Nat,
     raced : BOOLEAN, calm : BOOLEAN, ans : {"none", "ok", "err"}, nth : 1..2]

TypeOK ==
    /\ call \in [Clients -> CallType]
    /\ plat \in {"android", "ios", "web"}
    /\ screen \in Nat /\ epoch \in Nat /\ session \in Nat
    /\ serving \in BOOLEAN /\ booted \in BOOLEAN /\ known \in BOOLEAN
    /\ lock \in Clients \cup {Nobody}
    /\ simCache \in {"unread", "yes", "no"}
    /\ quiet \in {"yes", "no", "moving", "mixed"}
    /\ anew \subseteq {"uiautomator", "uiautomator.test"}
    /\ helper \in [{"uiautomator", "uiautomator.test"} -> {"enabled", "disabled", "absent"}]
    /\ cache \in [age : Nat, ver : Nat, raced : BOOLEAN]
    /\ own \in [Clients -> Nat]

(* Where a call on platform p can be, and with what left to do.             *)
Placed(p, k) ==
    k.at # "idle" =>
        /\ k.tool \in DOMAIN Steps /\ k.todo \in Rest[k.tool]
        /\ k.at \in IosAt => p = "ios"
        /\ k.at \in AdbAt \cup {"android"} => p = "android"
        /\ k.at \in AdbAt => Head(k.todo) = "tap"
        /\ k.at \in {"package", "switch"} => Head(k.todo) \in {"pause", "resume"}
        /\ k.at = "enter" => k.tries = 0

(* How often the action of a call can have landed by then.                  *)
Landed(p, k) ==
    /\ k.hits <= 3 /\ (p = "ios" => k.hits <= 2)
    /\ k.at = "idle" \/ k.tool \notin ActingTools => k.hits = 0
    /\ k.at # "idle" /\ k.tool \in ActingTools /\ ~Ahead(k) => k.hits > 0
    /\ k.at # "idle" /\ Ahead(k) =>
        /\ Head(k.todo) \notin Acts \/ k.at \in {"enter", "android", "adb_first"} => k.hits = 0
        /\ k.at \in IosAt \ {"broken"} => k.hits <= k.tries
        /\ k.at = "broken" => k.hits <= k.tries + 1
        /\ k.at = "click" => k.hits <= 1
        /\ k.at = "adb_last" => k.hits <= 2
        /\ k.at = "reply" /\ Head(k.todo) \in Acts => k.got = "err" \/ k.hits > 0

Sound(p, k) == Placed(p, k) /\ Landed(p, k)

Calls == \A c \in Clients : Sound(plat, call[c])

(* uiautomator2 installs a helper under some call.                          *)
Installs == \E c \in Clients : Install(c) /\ UNCHANGED <<calls, wda, front>>

(* The switching of the helper packages.                                    *)
Moving(c) == call[c].at \in {"package", "switch"}
Off(pkg) == helper[pkg] = "enabled" => pkg \in anew
On(pkg) == helper[pkg] = "disabled" => pkg = "uiautomator" /\ "uiautomator.test" \in anew

Switches ==
    /\ quiet \in {"yes", "no"} => \A c \in Clients : ~Moving(c)
    /\ quiet = "moving" => /\ \E c \in Clients : Moving(c)
                           /\ \A c, d \in Clients : Moving(c) /\ Moving(d) => c = d
    /\ quiet = "moving" => \A c \in Clients : Moving(c) =>
        IF call[c].tool = "pause"
        THEN call[c].nth = 2 => Off("uiautomator")
        ELSE IF call[c].nth = 2 THEN On("uiautomator")
             ELSE \/ \A p \in DOMAIN helper : Off(p)
                  \/ \A p \in DOMAIN helper : On(p)

(* What a dump has to show, unless an action was in flight: what every      *)
(* client left on the screen.                                               *)
Flies(k, ops) == k.at \notin {"idle", "enter"} /\ Head(k.todo) \in ops
Shows(ver, k, left) ==
    /\ ~Flies(k, Acts)
    /\ left <= ver
    /\ k.at # "idle" /\ k.hits > 0 => k.saw <= ver

Past ==
    /\ \A c \in Clients : call[c].saw <= screen /\ own[c] <= screen
    /\ cache.ver <= screen

CacheShows ==
    cache.ver # 0 /\ ~cache.raced => \A e \in Clients : Shows(cache.ver, call[e], own[e])

DumpShows ==
    \A c, e \in Clients :
        Flies(call[c], {"dump_ui"}) /\ ~call[c].raced =>
            /\ ~Flies(call[e], Acts)
            /\ call[c].at = "reply" /\ call[c].got # "err" => Shows(call[c].saw, call[e], own[e])

Dumps == Past /\ CacheShows /\ DumpShows

(* Who shakes hands holds the lock.                                         *)
Locked == \A c \in Clients : call[c].at \in {"connect", "settle"} => lock = c

(* What lets a call be calm.                                                *)
Calm(c) == call[c].at # "idle" /\ call[c].calm /\ simCache # "no"
Premises ==
    /\ plat = "ios" => (serving => booted)
    /\ \A c \in Clients : call[c].at # "idle" /\ call[c].tool = "gesture" => plat = "android"
    /\ \A c \in Clients : Calm(c) => plat = "ios" /\ serving /\ known

(* The WDA session a calm tap works with: after a broken one it was         *)
(* dropped, and whatever is kept since is of the running server.            *)
Taps ==
    \A c \in Clients : Calm(c) /\ call[c].tool = "tap" =>
        /\ call[c].at = "settle" => call[c].sess = epoch
        /\ call[c].tries = 1 => /\ session \in {0, epoch}
                                /\ \A d \in Clients : call[d].at = "settle" => call[d].sess = epoch
                                /\ call[c].at = "send" => call[c].sess = epoch
        /\ call[c].at = "broken" => call[c].tries = 0
        /\ call[c].at = "reply" => call[c].got # "err"

Sessions == Locked /\ Premises /\ Taps

IInv == TypeOK /\ Calls /\ Switches /\ Dumps /\ Sessions /\ PauseResume
          /\ NeverBeforeOwnAction /\ SelfHeals
-----------------------------------------------------------------------------
(* A step of a driver, for client c: its call becomes n.                    *)
Still(k, n) ==
    /\ n.hits = k.hits /\ n.saw = k.saw
    /\ screen' = screen
    /\ Head(k.todo) = "dump_ui" /\ n.at = "reply" => n.got = "err"

Strikes(k, n) ==
    /\ Head(k.todo) \in Acts
    /\ n.hits = k.hits + 1 /\ n.saw = screen + 1
    /\ screen' = screen + 1

Reads(k, n) ==
    /\ Head(k.todo) = "dump_ui"
    /\ n.hits = k.hits /\ n.saw = screen /\ n.at = "reply" /\ n.got = "ok"
    /\ screen' = screen

DriverStep(c, k, n) ==
    /\ k = call[c] /\ k.at \notin {"idle", "enter"}
    /\ n \in CallType /\ n.at \notin {"idle", "enter"}
    /\ call' = [call EXCEPT ![c] = n]
    /\ n.tool = k.tool /\ n.ans = k.ans /\ n.raced = k.raced /\ (n.calm => k.calm)
    /\ Head(n.todo) = Head(k.todo) \/ {Head(n.todo), Head(k.todo)} \subseteq Acts
    /\ Sound(plat, n)
    /\ Still(k, n) \/ Strikes(k, n) \/ Reads(k, n)
    /\ UNCHANGED front

Gots == {"none", "ok", "hit", "present", "absent", "err"}

(* Only where the call is, what it got, how calm and in which session.      *)
Shifts(k, n) ==
    /\ n \in CallType
    /\ n.tool = k.tool /\ n.todo = k.todo /\ n.ans = k.ans /\ n.raced = k.raced
    /\ n.hits = k.hits /\ n.saw = k.saw

LEMMA GetEffect ==
    ASSUME TypeOK, Calls, NEW c \in Clients, Get(c), UNCHANGED front
    PROVE  \E n : /\ DriverStep(c, call[c], n) /\ n.calm = call[c].calm
                  /\ n.tries = call[c].tries /\ n.at \in {"send", "connect"}
                  /\ n.at = "send" => n.sess = session /\ session # 0 /\ lock' = lock
                  /\ n.at = "connect" => lock' = c
  <1>1. PICK k : k = call[c]
    OBVIOUS
  <1>2. k \in CallType /\ Sound(plat, k) /\ k.at = "get"
    BY <1>1 DEF TypeOK, Calls, Get, At
  <1>3. PICK n : /\ call' = [call EXCEPT ![c] = n]
                 /\ \/ /\ n = [k EXCEPT !.at = "send", !.sess = session]
                       /\ session # 0 /\ lock' = lock
                    \/ n = [k EXCEPT !.at = "connect"] /\ lock' = c
    BY <1>1 DEF Get, Become, Goto
  <1>4. /\ Shifts(k, n) /\ n.calm = k.calm /\ n.tries = k.tries
        /\ n.at \in {"send", "connect"} /\ (n.at = "send" => n.sess = session /\ session # 0 /\ lock' = lock)
        /\ (n.at = "connect" => lock' = c)
    BY <1>2, <1>3 DEF Shifts, CallType, TypeOK, Places, IosAt
  <1>5. Sound(plat, n)
    BY <1>2, <1>4 DEF Sound, Placed, Landed, Ahead, Shifts, IosAt, AdbAt, CallType
  <1>6. DriverStep(c, k, n)
    BY <1>1, <1>2, <1>3, <1>4, <1>5 DEF DriverStep, Still, Shifts, Get
  <1> QED BY <1>1, <1>4, <1>6

LEMMA ConnectEffect ==
    ASSUME TypeOK, Calls, NEW c \in Clients, Connect(c), UNCHANGED front
    PROVE  \E n : /\ DriverStep(c, call[c], n) /\ n.calm \in {FALSE, call[c].calm}
                  /\ n.tries = call[c].tries
                  /\ \/ n.at = "settle" /\ n.sess = epoch /\ lock' = lock
                     \/ /\ n.at = "reply" /\ lock' = Nobody
                        /\ n.calm => ~(Known = "yes" /\ serving)
  <1>1. PICK k : k = call[c]
    OBVIOUS
  <1>2. k \in CallType /\ Sound(plat, k) /\ k.at = "connect"
    BY <1>1 DEF TypeOK, Calls, Connect, At
  <1>3. PICK n : /\ call' = [call EXCEPT ![c] = n]
                 /\ \/ n = [k EXCEPT !.at = "settle", !.sess = epoch] /\ lock' = lock
                    \/ /\ n = [k EXCEPT !.at = "reply", !.got = "err"] /\ lock' = Nobody
                       /\ ~(Known = "yes" /\ serving)
                    \/ n = [k EXCEPT !.at = "reply", !.got = "err", !.calm = FALSE] /\ lock' = Nobody
                 /\ screen' = screen
    BY <1>1 DEF Connect, Become, Got, Fail, Release
  <1>4. /\ Shifts(k, n) /\ n.calm \in {FALSE, k.calm} /\ n.tries = k.tries
        /\ n.at \in {"settle", "reply"} /\ (n.at = "reply" => n.got = "err")
        /\ \/ n.at = "settle" /\ n.sess = epoch /\ lock' = lock
           \/ n.at = "reply" /\ lock' = Nobody /\ (n.calm => ~(Known = "yes" /\ serving))
    BY <1>2, <1>3 DEF Shifts, CallType, TypeOK, Places, IosAt
  <1>5. Sound(plat, n)
    BY <1>2, <1>4 DEF Sound, Placed, Landed, Ahead, Shifts, IosAt, AdbAt, CallType
  <1>6. DriverStep(c, k, n)
    BY <1>1, <1>2, <1>3, <1>4, <1>5 DEF DriverStep, Still, Shifts, CallType
  <1> QED BY <1>1, <1>4, <1>6

LEMMA SettleEffect ==
    ASSUME TypeOK, Calls, NEW c \in Clients, Settle(c), UNCHANGED front
    PROVE  \E n : /\ DriverStep(c, call[c], n) /\ n.calm = call[c].calm
                  /\ n.tries = call[c].tries /\ n.at = "send" /\ n.sess = call[c].sess
  <1>1. PICK k : k = call[c]
    OBVIOUS
  <1>2. k \in CallType /\ Sound(plat, k) /\ k.at = "settle"
    BY <1>1 DEF TypeOK, Calls, Settle, At
  <1>3. PICK n : call' = [call EXCEPT ![c] = n] /\ n = [k EXCEPT !.at = "send"] /\ screen' = screen
    BY <1>1 DEF Settle, Become, Goto
  <1>4. /\ Shifts(k, n) /\ n.calm = k.calm /\ n.tries = k.tries
        /\ n.at = "send" /\ n.sess = k.sess
    BY <1>2, <1>3 DEF Shifts, CallType, TypeOK, Places, IosAt
  <1>5. Sound(plat, n)
    BY <1>2, <1>4 DEF Sound, Placed, Landed, Ahead, Shifts, IosAt, AdbAt, CallType
  <1>6. DriverStep(c, k, n)
    BY <1>1, <1>2, <1>3, <1>4, <1>5 DEF DriverStep, Still, Shifts, CallType
  <1> QED BY <1>1, <1>4, <1>6

(* What the three ways an operation on the device can go make of a call.    *)
Lands(k, n) ==
    /\ n \in CallType
    /\ n.tool = k.tool /\ n.todo = k.todo /\ n.ans = k.ans /\ n.raced = k.raced
    /\ n.tries = k.tries /\ n.sess = k.sess
    /\ n.hits = k.hits + 1 /\ n.saw = screen + 1

Uneasy(n) == n.calm = FALSE

LEMMA Struck ==
    ASSUME TypeOK, NEW c \in Clients, NEW at \in Places, NEW r \in Gots, Strike(c, at, r)
    PROVE  \E n : /\ call' = [call EXCEPT ![c] = n] /\ Lands(call[c], n)
                  /\ n.at = at /\ n.got = r /\ n.calm = call[c].calm /\ screen' = screen + 1
  <1>1. PICK k : k = call[c]
    OBVIOUS
  <1>2. PICK n : n = [k EXCEPT !.at = at, !.got = r, !.hits = @ + 1, !.saw = screen + 1]
    OBVIOUS
  <1>3. call' = [call EXCEPT ![c] = n] /\ screen' = screen + 1
    BY <1>1, <1>2 DEF Strike, Become
  <1>4. k \in CallType /\ screen \in Nat
    BY <1>1 DEF TypeOK
  <1>5. k.hits + 1 \in Nat /\ screen + 1 \in Nat
    BY <1>4 DEF CallType
  <1>6. Lands(k, n) /\ n.at = at /\ n.got = r /\ n.calm = k.calm
    BY <1>2, <1>4, <1>5 DEF Lands, CallType, Gots
  <1> QED BY <1>1, <1>3, <1>6

LEMMA StruckAndFailed ==
    ASSUME TypeOK, NEW c \in Clients, NEW at \in Places, NEW r \in Gots, StrikeAndFail(c, at, r)
    PROVE  \E n : /\ call' = [call EXCEPT ![c] = n] /\ Lands(call[c], n)
                  /\ n.at = at /\ n.got = r /\ Uneasy(n) /\ screen' = screen + 1
  <1>1. PICK k : k = call[c]
    OBVIOUS
  <1>2. PICK n : n = [k EXCEPT !.at = at, !.got = r, !.hits = @ + 1, !.saw = screen + 1,
                               !.calm = FALSE]
    OBVIOUS
  <1>3. call' = [call EXCEPT ![c] = n] /\ screen' = screen + 1
    BY <1>1, <1>2 DEF StrikeAndFail, Become
  <1>4. k \in CallType /\ screen \in Nat
    BY <1>1 DEF TypeOK
  <1>5. k.hits + 1 \in Nat /\ screen + 1 \in Nat
    BY <1>4 DEF CallType
  <1>6. Lands(k, n) /\ n.at = at /\ n.got = r /\ Uneasy(n)
    BY <1>2, <1>4, <1>5 DEF Lands, CallType, Gots, Uneasy
  <1> QED BY <1>1, <1>3, <1>6

LEMMA Failed ==
    ASSUME TypeOK, NEW c \in Clients, NEW at \in Places, NEW r \in Gots, Fail(c, at, r)
    PROVE  \E n : /\ call' = [call EXCEPT ![c] = n] /\ Shifts(call[c], n) /\ Uneasy(n)
                  /\ n.tries = call[c].tries /\ n.sess = call[c].sess
                  /\ n.at = at /\ n.got = r /\ screen' = screen
  <1>1. PICK k : k = call[c]
    OBVIOUS
  <1>2. PICK n : n = [k EXCEPT !.at = at, !.got = r, !.calm = FALSE]
    OBVIOUS
  <1>3. call' = [call EXCEPT ![c] = n] /\ screen' = screen
    BY <1>1, <1>2 DEF Fail, Become
  <1>4. /\ Shifts(k, n) /\ Uneasy(n) /\ n.at = at /\ n.got = r
        /\ n.tries = k.tries /\ n.sess = k.sess
    BY <1>1, <1>2 DEF CallType, TypeOK, Gots, Shifts, Uneasy
  <1> QED BY <1>1, <1>3, <1>4

LEMMA ShiftStep ==
    ASSUME TypeOK, Calls, NEW c \in Clients, NEW k, NEW n, k = call[c],
           Shifts(k, n), call' = [call EXCEPT ![c] = n], screen' = screen, UNCHANGED front,
           k.at \notin {"idle", "enter"}, n.at \notin {"idle", "enter"},
           n.calm \in {FALSE, k.calm}, Sound(plat, n),
           Head(k.todo) = "dump_ui" /\ n.at = "reply" => n.got = "err"
    PROVE  DriverStep(c, k, n)
  BY DEF DriverStep, Still, Shifts, CallType

LEMMA StrikeStep ==
    ASSUME TypeOK, Calls, NEW c \in Clients, NEW k, NEW n, k = call[c],
           Lands(k, n), call' = [call EXCEPT ![c] = n], screen' = screen + 1, UNCHANGED front,
           k.at \notin {"idle", "enter"}, n.at \notin {"idle", "enter"},
           n.calm \in {FALSE, k.calm}, Sound(plat, n), Head(k.todo) \in Acts
    PROVE  DriverStep(c, k, n)
  BY DEF DriverStep, Strikes, Lands, CallType

SendEnds(c, k, n) ==
    /\ n.tries = k.tries /\ n.at \in {"broken", "reply"}
    /\ n.calm /\ n.at = "broken" => ~Alive(c)
    /\ n.calm /\ n.at = "reply" /\ k.tool = "tap" => n.got # "err"

LEMMA SendEffect ==
    ASSUME TypeOK, Calls, NEW c \in Clients, Send(c), UNCHANGED front
    PROVE  \E n : DriverStep(c, call[c], n) /\ SendEnds(c, call[c], n)
  <1>1. PICK k : k = call[c]
    OBVIOUS
  <1>2. k \in CallType /\ Sound(plat, k) /\ k.at = "send"
    BY <1>1 DEF TypeOK, Calls, Send, At
  <1>3. /\ k.tool \in DOMAIN Steps /\ k.todo \in Rest[k.tool] /\ plat = "ios"
        /\ Head(k.todo) = Op(c)
    BY <1>1, <1>2 DEF Sound, Placed, IosAt, Op
  <1>4. {"broken", "reply"} \subseteq Places /\ {"none", "ok", "err", "present", "absent"} \subseteq Gots
    BY DEF Places, IosAt, Gots
  <1>5. CASE ~Alive(c) /\ Goto(c, "broken") /\ UNCHANGED <<screen, faults>>
    <2>1. PICK n : n = [k EXCEPT !.at = "broken"]
      OBVIOUS
    <2>2. Shifts(k, n) /\ n.at = "broken" /\ n.calm = k.calm /\ n.tries = k.tries
      BY <1>2, <1>4, <2>1 DEF Shifts, CallType
    <2>3. Sound(plat, n)
      BY <1>2, <2>2 DEF Sound, Placed, Landed, Ahead, Shifts, IosAt, AdbAt, CallType
    <2>4. DriverStep(c, k, n)
      BY <1>1, <1>2, <1>5, <2>1, <2>2, <2>3, ShiftStep DEF Goto, Become
    <2> QED BY <1>1, <1>5, <2>2, <2>4 DEF SendEnds
  <1>6. CASE Op(c) \in Acts /\ Strike(c, "reply", "ok")
    <2>1. PICK n : /\ call' = [call EXCEPT ![c] = n] /\ Lands(k, n) /\ n.calm = k.calm
                   /\ n.at = "reply" /\ n.got = "ok" /\ screen' = screen + 1
      BY <1>1, <1>4, <1>6, Struck
    <2>2. Sound(plat, n)
      BY <1>2, <1>3, <1>6, <2>1, HeadAndTail
         DEF Sound, Placed, Landed, Ahead, Lands, IosAt, AdbAt, CallType
    <2>3. DriverStep(c, k, n)
      BY <1>1, <1>2, <1>3, <1>6, <2>1, <2>2, StrikeStep
    <2> QED BY <1>1, <2>1, <2>3 DEF SendEnds, Lands
  <1>7. CASE Op(c) \in Acts /\ StrikeAndFail(c, "broken", "none")
    <2>1. PICK n : /\ call' = [call EXCEPT ![c] = n] /\ Lands(k, n) /\ Uneasy(n)
                   /\ n.at = "broken" /\ n.got = "none" /\ screen' = screen + 1
      <3>1. "broken" \in Places /\ "none" \in Gots
        BY <1>4
      <3> QED BY <1>1, <1>7, <3>1, StruckAndFailed
    <2>2. Sound(plat, n)
      BY <1>2, <1>3, <1>7, <2>1, HeadAndTail
         DEF Sound, Placed, Landed, Ahead, Lands, IosAt, AdbAt, CallType
    <2>3. DriverStep(c, k, n)
      BY <1>1, <1>2, <1>3, <1>7, <2>1, <2>2, StrikeStep DEF Uneasy
    <2> QED BY <1>1, <2>1, <2>3 DEF SendEnds, Lands, Uneasy
  <1>8. CASE /\ UNCHANGED <<screen, faults>>
             /\ \/ Op(c) \in {"tap_text"} /\ Got(c, "err")
                \/ Op(c) = "find" /\ \E r \in {"present", "absent"} : Got(c, r)
    <2>1. PICK r \in {"present", "absent", "err"} :
            Got(c, r) /\ Op(c) \in {"tap_text", "find"} /\ (Op(c) = "tap_text" => r = "err")
      BY <1>8
    <2>2. PICK n : n = [k EXCEPT !.at = "reply", !.got = r]
      OBVIOUS
    <2>3. Shifts(k, n) /\ n.at = "reply" /\ n.got = r /\ n.calm = k.calm /\ n.tries = k.tries
      BY <1>2, <1>4, <2>2 DEF Shifts, CallType, Gots
    <2>4. Sound(plat, n)
      BY <1>2, <1>3, <2>1, <2>3 DEF Sound, Placed, Landed, Ahead, Shifts, IosAt, AdbAt, CallType, Acts
    <2>5. DriverStep(c, k, n)
      BY <1>1, <1>2, <1>3, <1>8, <2>1, <2>2, <2>3, <2>4, ShiftStep DEF Got, Become
    <2>6. k.tool # "tap"
      BY <1>3, <2>1, HeadAndTail
    <2> QED BY <1>1, <2>3, <2>5, <2>6 DEF SendEnds
  <1>9. CASE /\ Op(c) = "dump_ui" /\ UNCHANGED <<screen, faults>>
             /\ Become(c, [call[c] EXCEPT !.at = "reply", !.got = "ok", !.saw = screen])
    <2>1. PICK n : n = [k EXCEPT !.at = "reply", !.got = "ok", !.saw = screen]
      OBVIOUS
    <2>2. screen \in Nat
      BY DEF TypeOK
    <2>3. /\ n \in CallType /\ n.tool = k.tool /\ n.todo = k.todo /\ n.ans = k.ans
          /\ n.raced = k.raced /\ n.hits = k.hits /\ n.saw = screen /\ n.tries = k.tries
          /\ n.at = "reply" /\ n.got = "ok" /\ n.calm = k.calm
      BY <1>2, <1>4, <2>1, <2>2 DEF CallType, Gots
    <2>4. Sound(plat, n)
      BY <1>2, <1>3, <1>9, <2>3 DEF Sound, Placed, Landed, Ahead, IosAt, AdbAt, CallType, Acts
    <2>5. DriverStep(c, k, n)
      BY <1>1, <1>2, <1>3, <1>9, <2>1, <2>3, <2>4 DEF DriverStep, Reads, Become
    <2> QED BY <1>1, <2>3, <2>5 DEF SendEnds
  <1>10. CASE Fail(c, "broken", "none")
    <2>1. "broken" \in Places /\ "none" \in Gots
      BY <1>4
    <2>2. PICK n : /\ call' = [call EXCEPT ![c] = n] /\ Shifts(k, n) /\ Uneasy(n)
                   /\ n.tries = k.tries /\ screen' = screen /\ n.at = "broken"
      BY <1>1, <1>10, <2>1, Failed
    <2>3. Sound(plat, n)
      BY <1>2, <1>3, <2>2 DEF Sound, Placed, Landed, Ahead, Shifts, IosAt, AdbAt, CallType
    <2>4. DriverStep(c, k, n)
      BY <1>1, <1>2, <2>2, <2>3, ShiftStep DEF Uneasy
    <2> QED BY <1>1, <2>2, <2>4 DEF SendEnds, Uneasy
  <1>11. CASE Fail(c, "reply", "err")
    <2>1. "reply" \in Places /\ "err" \in Gots
      BY <1>4
    <2>2. PICK n : /\ call' = [call EXCEPT ![c] = n] /\ Shifts(k, n) /\ Uneasy(n)
                   /\ n.tries = k.tries /\ screen' = screen /\ n.at = "reply" /\ n.got = "err"
      BY <1>1, <1>11, <2>1, Failed
    <2>3. Sound(plat, n)
      BY <1>2, <1>3, <2>2 DEF Sound, Placed, Landed, Ahead, Shifts, IosAt, AdbAt, CallType
    <2>4. DriverStep(c, k, n)
      BY <1>1, <1>2, <2>2, <2>3, ShiftStep DEF Uneasy
    <2> QED BY <1>1, <2>2, <2>4 DEF SendEnds, Uneasy
  <1> QED BY <1>5, <1>6, <1>7, <1>8, <1>9, <1>10, <1>11 DEF Send

LEMMA RecoverEffect ==
    ASSUME TypeOK, Calls, NEW c \in Clients, Recover(c), UNCHANGED front
    PROVE  \E n : /\ DriverStep(c, call[c], n) /\ n.calm = call[c].calm
                  /\ \/ /\ n.at = "reply" /\ n.tries = call[c].tries /\ UNCHANGED session
                        /\ call[c].tool = "tap" => call[c].tries = 1
                     \/ n.at = "get" /\ lock = Nobody /\ session' = 0
  <1>1. PICK k : k = call[c]
    OBVIOUS
  <1>2. k \in CallType /\ Sound(plat, k) /\ k.at = "broken"
    BY <1>1 DEF TypeOK, Calls, Recover, At
  <1>3. /\ k.tool \in DOMAIN Steps /\ k.todo \in Rest[k.tool] /\ plat = "ios"
        /\ Head(k.todo) = Op(c)
    BY <1>1, <1>2 DEF Sound, Placed, IosAt, Op
  <1>4. {"get", "reply"} \subseteq Places
    BY DEF Places, IosAt
  <1>5. CASE (Op(c) = "dump_ui" \/ call[c].tries = 1) /\ Got(c, "err") /\ UNCHANGED session
    <2>1. PICK n : n = [k EXCEPT !.at = "reply", !.got = "err"]
      OBVIOUS
    <2>2. Shifts(k, n) /\ n.at = "reply" /\ n.got = "err" /\ n.calm = k.calm /\ n.tries = k.tries
      BY <1>2, <1>4, <2>1 DEF Shifts, CallType, Gots
    <2>3. Sound(plat, n)
      BY <1>2, <1>3, <2>2 DEF Sound, Placed, Landed, Ahead, Shifts, IosAt, AdbAt, CallType
    <2>4. DriverStep(c, k, n)
      BY <1>1, <1>2, <1>5, <2>1, <2>2, <2>3, ShiftStep DEF Got, Become, Recover
    <2>5. k.tool = "tap" => k.tries = 1
      BY <1>1, <1>3, <1>5, HeadAndTail
    <2> QED BY <1>1, <1>5, <2>2, <2>4, <2>5
  <1>6. CASE call[c].tries # 1 /\ lock = Nobody /\ Drop(c)
    <2>1. PICK n : n = [k EXCEPT !.at = "get", !.tries = 1]
      OBVIOUS
    <2>2. Shifts(k, n) /\ n.at = "get" /\ n.calm = k.calm /\ n.tries = 1 /\ k.tries = 0
      <3>1. "get" \in Places /\ 1 \in 0..1 /\ k.tries \in 0..1
        BY <1>2, <1>4 DEF CallType
      <3>2. n \in CallType
        BY <1>2, <2>1, <3>1 DEF CallType
      <3>3. n.at = "get" /\ n.calm = k.calm /\ n.tries = 1
        BY <1>2, <2>1 DEF CallType
      <3>4. k.tries = 0
        BY <1>1, <1>6, <3>1
      <3> QED BY <1>2, <2>1, <3>2, <3>3, <3>4 DEF Shifts, CallType
    <2>3. Sound(plat, n)
      BY <1>2, <1>3, <2>2 DEF Sound, Placed, Landed, Ahead, Shifts, IosAt, AdbAt, CallType
    <2>4. DriverStep(c, k, n)
      BY <1>1, <1>2, <1>6, <2>1, <2>2, <2>3, ShiftStep DEF Drop, Become, Recover
    <2> QED BY <1>1, <1>6, <2>2, <2>4 DEF Drop
  <1> QED BY <1>5, <1>6 DEF Recover
-----------------------------------------------------------------------------
(* The steps of the Android driver.                                         *)
AtOnce(c, k, n) ==
    /\ DriverStep(c, k, n)
    /\ k.at \notin {"package", "switch"} /\ n.at \notin {"package", "switch"} \cup IosAt

LEMMA MakerEffect ==
    ASSUME TypeOK, Calls, NEW c \in Clients, AskMaker(c) \/ ChooseTap(c), UNCHANGED front
    PROVE  \E n : AtOnce(c, call[c], n)
  <1>1. PICK k : k = call[c]
    OBVIOUS
  <1>2. k \in CallType /\ Sound(plat, k) /\ k.at = "android"
    BY <1>1 DEF TypeOK, Calls, AskMaker, ChooseTap, At
  <1>3. k.tool \in DOMAIN Steps /\ k.todo \in Rest[k.tool] /\ Head(k.todo) = "tap"
    BY <1>1, <1>2 DEF Sound, Placed, Op, AskMaker, ChooseTap
  <1>4. CASE AskMaker(c)
    <2>1. call' = [call EXCEPT ![c] = k] /\ screen' = screen
      BY <1>1, <1>4 DEF AskMaker, TypeOK
    <2>2. DriverStep(c, k, k)
      BY <1>1, <1>2, <1>3, <2>1 DEF DriverStep, Still
    <2> QED BY <1>1, <1>2, <2>2 DEF AtOnce, IosAt
  <1>5. CASE ChooseTap(c)
    <2>1. PICK at \in {"adb_first", "click"} : Goto(c, at) /\ UNCHANGED <<screen, faults, android>>
      BY <1>5 DEF ChooseTap
    <2>2. PICK n : n = [k EXCEPT !.at = at]
      OBVIOUS
    <2>3. at \in Places /\ at \notin {"idle", "enter", "reply", "package", "switch"} \cup IosAt
      BY <2>1 DEF Places, AdbAt, IosAt
    <2>4. Shifts(k, n) /\ n.at = at /\ n.calm = k.calm
      BY <1>2, <2>2, <2>3 DEF Shifts, CallType
    <2>5. Sound(plat, n)
      <3>1. k.hits = 0 /\ Ahead(k) /\ plat = "android"
        BY <1>2, <1>3, HeadAndTail DEF Sound, Placed, Landed, Ahead, Acts
      <3>2. Placed(plat, n)
        BY <1>2, <1>3, <2>1, <2>4, <3>1 DEF Sound, Placed, Shifts, IosAt, AdbAt
      <3>3. n.hits = 0 /\ n.at \in {"adb_first", "click"} /\ n.tool \in ActingTools /\ Ahead(n)
        BY <2>1, <2>4, <3>1 DEF Shifts, Ahead
      <3>4. Landed(plat, n)
        BY <2>4, <3>3 DEF Landed, Ahead, IosAt, Shifts, CallType
      <3> QED BY <3>2, <3>4 DEF Sound
    <2>6. DriverStep(c, k, n)
      BY <1>1, <1>2, <2>1, <2>2, <2>3, <2>4, <2>5, ShiftStep DEF Goto, Become
    <2> QED BY <1>1, <1>2, <2>3, <2>4, <2>6 DEF AtOnce
  <1> QED BY <1>4, <1>5

(* Where a call k that lands, and one that does not, may go from where it is. *)
HitLeads(k, at) ==
    /\ Head(k.todo) \in Acts
    /\ \/ k.at = "android" /\ at = "reply"
       \/ k.at = "adb_first" /\ at \in {"click", "reply"}
       \/ k.at = "click" /\ at \in {"adb_last", "reply"}
       \/ k.at = "adb_last" /\ at = "reply"

MissLeads(k, at, r) ==
    /\ \/ k.at = "android" /\ at = "reply"
       \/ k.at = "adb_first" /\ at = "click"
       \/ k.at = "click" /\ at = "adb_last"
       \/ k.at = "adb_last" /\ at = "reply"
    /\ at = "reply" => r = "err" \/ Head(k.todo) \notin Acts \cup {"dump_ui"}

LEMMA StrikeEffect ==
    ASSUME TypeOK, Calls, NEW c \in Clients, UNCHANGED front,
           NEW at \in Places, NEW r \in Gots, HitLeads(call[c], at),
           Strike(c, at, r) \/ StrikeAndFail(c, at, r)
    PROVE  \E n : AtOnce(c, call[c], n)
  <1>1. PICK k : k = call[c]
    OBVIOUS
  <1>2. k \in CallType /\ Sound(plat, k)
    BY <1>1 DEF TypeOK, Calls
  <1>3. /\ k.tool \in DOMAIN Steps /\ k.todo \in Rest[k.tool] /\ Head(k.todo) \in Acts
        /\ plat = "android"
    BY <1>1, <1>2 DEF Sound, Placed, AdbAt, HitLeads
  <1>4. PICK n : /\ call' = [call EXCEPT ![c] = n] /\ Lands(k, n) /\ n.at = at /\ n.got = r
                 /\ n.calm = k.calm \/ Uneasy(n)
                 /\ screen' = screen + 1
    <2>1. CASE Strike(c, at, r)
      <3>1. PICK n : /\ call' = [call EXCEPT ![c] = n] /\ Lands(k, n) /\ n.at = at /\ n.got = r
                     /\ n.calm = k.calm /\ screen' = screen + 1
        BY <1>1, <2>1, Struck
      <3> QED BY <3>1
    <2>2. CASE StrikeAndFail(c, at, r)
      <3>1. PICK n : /\ call' = [call EXCEPT ![c] = n] /\ Lands(k, n) /\ n.at = at /\ n.got = r
                     /\ Uneasy(n) /\ screen' = screen + 1
        BY <1>1, <2>2, StruckAndFailed
      <3> QED BY <3>1
    <2> QED BY <2>1, <2>2
  <1>5. k.tool \in ActingTools /\ Ahead(k) /\ Ahead(n)
    BY <1>3, <1>4, HeadAndTail DEF Ahead, Lands
  <1>6. k.hits \in Nat /\ n.hits = k.hits + 1
    BY <1>2, <1>4 DEF Lands, CallType
  <1>7. n.hits <= 3 /\ (at = "click" => n.hits <= 1) /\ (at = "adb_last" => n.hits <= 2)
    <2>1. CASE k.at = "android"
      BY <1>1, <1>2, <1>5, <1>6, <2>1 DEF HitLeads, Sound, Landed, Ahead, CallType
    <2>2. CASE k.at = "adb_first"
      BY <1>1, <1>2, <1>5, <1>6, <2>2 DEF HitLeads, Sound, Landed, Ahead, CallType
    <2>3. CASE k.at = "click"
      BY <1>1, <1>2, <1>5, <1>6, <2>3 DEF HitLeads, Sound, Landed, Ahead, CallType
    <2>4. CASE k.at = "adb_last"
      BY <1>1, <1>2, <1>5, <1>6, <2>4 DEF HitLeads, Sound, Landed, Ahead, CallType
    <2> QED BY <1>1, <2>1, <2>2, <2>3, <2>4 DEF HitLeads
  <1>8. Placed(plat, n)
    BY <1>1, <1>2, <1>3, <1>4 DEF Sound, Placed, Lands, IosAt, AdbAt, HitLeads
  <1>9. Landed(plat, n)
    BY <1>1, <1>3, <1>4, <1>5, <1>6, <1>7 DEF Landed, Ahead, Lands, IosAt, AdbAt, HitLeads, CallType
  <1>10. DriverStep(c, k, n)
    BY <1>1, <1>2, <1>3, <1>4, <1>8, <1>9, StrikeStep DEF Uneasy, Sound, HitLeads
  <1> QED BY <1>1, <1>2, <1>4, <1>10 DEF AtOnce, IosAt, HitLeads

LEMMA MissEffect ==
    ASSUME TypeOK, Calls, NEW c \in Clients, UNCHANGED front,
           NEW at \in Places, NEW r \in Gots, MissLeads(call[c], at, r), screen' = screen,
           Fail(c, at, r) \/ Become(c, [call[c] EXCEPT !.at = at, !.got = r])
    PROVE  \E n : AtOnce(c, call[c], n)
  <1>1. PICK k : k = call[c]
    OBVIOUS
  <1>2. k \in CallType /\ Sound(plat, k)
    BY <1>1 DEF TypeOK, Calls
  <1>3. /\ k.tool \in DOMAIN Steps /\ k.todo \in Rest[k.tool] /\ plat = "android"
        /\ (k.at \in AdbAt => Head(k.todo) = "tap")
    BY <1>1, <1>2 DEF Sound, Placed, AdbAt, MissLeads
  <1>4. PICK n : /\ call' = [call EXCEPT ![c] = n] /\ Shifts(k, n) /\ n.at = at /\ n.got = r
                 /\ n.calm = k.calm \/ Uneasy(n)
    <2>1. CASE Fail(c, at, r)
      <3>1. PICK n : /\ call' = [call EXCEPT ![c] = n] /\ Shifts(k, n) /\ n.at = at /\ n.got = r
                     /\ Uneasy(n)
        BY <1>1, <2>1, Failed
      <3> QED BY <3>1
    <2>2. CASE Become(c, [call[c] EXCEPT !.at = at, !.got = r])
      <3>1. PICK n : n = [k EXCEPT !.at = at, !.got = r]
        OBVIOUS
      <3>2. call' = [call EXCEPT ![c] = n]
        BY <1>1, <2>2, <3>1 DEF Become
      <3>3. Shifts(k, n) /\ n.at = at /\ n.got = r /\ n.calm = k.calm
        BY <1>2, <3>1 DEF Shifts, CallType, Gots
      <3> QED BY <3>2, <3>3
    <2> QED BY <2>1, <2>2
  <1>5. Placed(plat, n)
    BY <1>1, <1>2, <1>3, <1>4 DEF Sound, Placed, Shifts, IosAt, AdbAt, MissLeads
  <1>6. Landed(plat, n)
    <2>1. k.hits \in Nat /\ n.hits = k.hits /\ (Ahead(n) <=> Ahead(k)) /\ n.todo = k.todo /\ n.tool = k.tool
      BY <1>2, <1>4 DEF Shifts, Ahead, CallType
    <2>2. Ahead(k) /\ at = "click" => k.hits = 0
      BY <1>1, <1>2 DEF Sound, Landed, Ahead, MissLeads
    <2>3. Ahead(k) /\ at = "adb_last" => k.hits <= 1
      BY <1>1, <1>2 DEF Sound, Landed, Ahead, MissLeads
    <2>4. Ahead(k) /\ Head(k.todo) \notin Acts => k.hits = 0
      BY <1>1, <1>2 DEF Sound, Landed, Ahead, MissLeads
    <2>5. k.hits <= 3 /\ (plat = "ios" => k.hits <= 2) /\ (k.tool \notin ActingTools => k.hits = 0)
          /\ (k.tool \in ActingTools /\ ~Ahead(k) => k.hits > 0)
      BY <1>1, <1>2 DEF Sound, Landed, Ahead, MissLeads
    <2>6. at \in {"click", "adb_last", "reply"}
          /\ (at = "reply" /\ Head(k.todo) \in Acts => r = "err")
      BY <1>1 DEF MissLeads
    <2> QED BY <1>4, <2>1, <2>2, <2>3, <2>4, <2>5, <2>6 DEF Landed, Ahead, AdbAt, IosAt, Shifts, CallType
  <1>7. DriverStep(c, k, n)
    BY <1>1, <1>2, <1>3, <1>4, <1>5, <1>6, ShiftStep DEF Uneasy, Sound, MissLeads
  <1> QED BY <1>1, <1>2, <1>4, <1>7 DEF AtOnce, IosAt, MissLeads

LEMMA TapEffect ==
    ASSUME TypeOK, Calls, NEW c \in Clients, TapViaAdb(c) \/ Click(c), UNCHANGED front
    PROVE  \E n : AtOnce(c, call[c], n)
  <1>1. Sound(plat, call[c]) /\ call[c].at \in AdbAt
    BY DEF Calls, TapViaAdb, Click, At, AdbAt
  <1>2. Head(call[c].todo) = "tap" /\ Head(call[c].todo) \in Acts
    BY <1>1 DEF Sound, Placed, AdbAt, Acts
  <1>3. {"adb_first", "click", "adb_last", "reply"} \subseteq Places /\ {"none", "ok", "err"} \subseteq Gots
    BY DEF Places, AdbAt, Gots
  <1>4. CASE TapViaAdb(c)
    <2>1. PICK at \in {"click", "reply"}, r \in {"none", "err"} :
            /\ IF call[c].at = "adb_first" THEN at = "click"
               ELSE call[c].at = "adb_last" /\ at = "reply" /\ r = "err"
            /\ \/ Strike(c, "reply", "ok")
               \/ Fail(c, at, r) \/ StrikeAndFail(c, at, r)
      <3>1. CASE At(c, "adb_first")
        BY <1>4, <3>1 DEF TapViaAdb, At
      <3>2. CASE At(c, "adb_last")
        BY <1>4, <3>2 DEF TapViaAdb, At
      <3> QED BY <1>4, <3>1, <3>2 DEF TapViaAdb
    <2>2. CASE Strike(c, "reply", "ok")
      <3>1. HitLeads(call[c], "reply")
        BY <1>2, <2>1 DEF HitLeads
      <3>2. "reply" \in Places /\ "ok" \in Gots
        BY <1>3
      <3> QED BY <2>2, <3>1, <3>2, StrikeEffect
    <2>3. CASE Fail(c, at, r)
      <3>1. MissLeads(call[c], at, r)
        BY <2>1 DEF MissLeads
      <3>2. at \in Places /\ r \in Gots
        BY <1>3, <2>1
      <3>3. screen' = screen
        BY <2>3 DEF Fail
      <3> QED BY <2>3, <3>1, <3>2, <3>3, MissEffect
    <2>4. CASE StrikeAndFail(c, at, r)
      <3>1. HitLeads(call[c], at)
        BY <1>2, <2>1 DEF HitLeads
      <3>2. at \in Places /\ r \in Gots
        BY <1>3, <2>1
      <3> QED BY <2>4, <3>1, <3>2, StrikeEffect
    <2> QED BY <2>1, <2>2, <2>3, <2>4
  <1>5. CASE Click(c)
    <2>1. call[c].at = "click"
      BY <1>5 DEF Click, At
    <2>2. /\ HitLeads(call[c], "reply") /\ HitLeads(call[c], "adb_last")
          /\ MissLeads(call[c], "adb_last", "none")
      BY <1>2, <2>1 DEF HitLeads, MissLeads
    <2>3. "reply" \in Places /\ "adb_last" \in Places /\ "ok" \in Gots /\ "none" \in Gots
      BY <1>3
    <2>4. CASE Strike(c, "reply", "ok")
      BY <2>2, <2>3, <2>4, StrikeEffect
    <2>5. CASE StrikeAndFail(c, "adb_last", "none")
      BY <2>2, <2>3, <2>5, StrikeEffect
    <2>6. CASE Raises(c, "adb_last", "none")
      <3>1. /\ screen' = screen
            /\ \/ Fail(c, "adb_last", "none")
               \/ Become(c, [call[c] EXCEPT !.at = "adb_last", !.got = "none"])
        BY <2>6 DEF Raises, Fail
      <3> QED BY <2>2, <2>3, <3>1, MissEffect
    <2> QED BY <1>5, <2>4, <2>5, <2>6 DEF Click
  <1> QED BY <1>4, <1>5

LEMMA RaisesEffect ==
    ASSUME TypeOK, Calls, NEW c \in Clients, At(c, "android"), Raises(c, "reply", "err"),
           UNCHANGED front
    PROVE  \E n : AtOnce(c, call[c], n)
  <1>1. MissLeads(call[c], "reply", "err")
    BY DEF MissLeads, At
  <1>2. "reply" \in Places /\ "err" \in Gots
    BY DEF Places, Gots
  <1>3. /\ screen' = screen
        /\ \/ Fail(c, "reply", "err")
           \/ Become(c, [call[c] EXCEPT !.at = "reply", !.got = "err"])
    BY DEF Raises, Fail
  <1> QED BY <1>1, <1>2, <1>3, MissEffect

LEMMA GestureEffect ==
    ASSUME TypeOK, Calls, NEW c \in Clients, UNCHANGED front, At(c, "android"),
           Op(c) \in Acts, Strike(c, "reply", "ok") \/ StrikeAndFail(c, "reply", "err")
    PROVE  \E n : AtOnce(c, call[c], n)
  <1>1. HitLeads(call[c], "reply")
    BY DEF HitLeads, At, Op
  <1>2. "reply" \in Places /\ "err" \in Gots /\ "ok" \in Gots
    BY DEF Places, Gots
  <1> QED BY <1>1, <1>2, StrikeEffect

LEMMA TapTextEffect ==
    ASSUME TypeOK, Calls, NEW c \in Clients, TapText(c) \/ Gesture(c), UNCHANGED front
    PROVE  \E n : AtOnce(c, call[c], n)
  <1>1. At(c, "android") /\ Op(c) \in {"tap_text", "gesture"} /\ Op(c) \in Acts
    BY DEF TapText, Gesture, Acts
  <1>2. CASE Strike(c, "reply", "ok") \/ StrikeAndFail(c, "reply", "err")
    BY <1>1, <1>2, GestureEffect
  <1>3. CASE Raises(c, "reply", "err")
    BY <1>1, <1>3, RaisesEffect
  <1>4. CASE Got(c, "err") /\ UNCHANGED <<screen, faults>>
    <2>1. MissLeads(call[c], "reply", "err")
      BY <1>1 DEF MissLeads, At
    <2>2. "reply" \in Places /\ "err" \in Gots
      BY DEF Places, Gots
    <2> QED BY <1>4, <2>1, <2>2, MissEffect DEF Got
  <1>5. CASE /\ Op(c) = "tap_text" /\ UNCHANGED <<screen, faults>>
             /\ Become(c, [call[c] EXCEPT !.todo = <<"tap">> \o Tail(@)])
    <2>1. PICK k : k = call[c]
      OBVIOUS
    <2>2. /\ k \in CallType /\ Sound(plat, k) /\ k.at = "android" /\ Head(k.todo) = "tap_text"
          /\ k.tool \in DOMAIN Steps /\ k.todo \in Rest[k.tool]
      BY <1>1, <1>5, <2>1 DEF TypeOK, Calls, At, Op, Sound, Placed
    <2>3. PICK q : q = <<"tap">> \o Tail(k.todo)
      OBVIOUS
    <2>4. q \in Rest[k.tool] /\ Head(q) = "tap" /\ q # <<"find">>
      <3>1. q \in Rest[k.tool]
        BY <2>2, <2>3, HeadAndTail
      <3>2. k.todo \in {<<"tap_text">>, <<"tap_text", "find">>}
        BY <2>2, Remains, OneOrTwo
      <3>3. q \in {<<"tap">>, <<"tap", "find">>}
        BY <2>3, <3>2, Instead
      <3> QED BY <3>1, <3>3, OneOrTwo
    <2>5. PICK n : n = [k EXCEPT !.todo = q]
      OBVIOUS
    <2>6. call' = [call EXCEPT ![c] = n]
      BY <1>5, <2>1, <2>3, <2>5 DEF Become
    <2>7. q \in Todos
      BY <2>2, <2>4 DEF Todos
    <2>8. n \in CallType /\ n.todo = q
      BY <2>2, <2>5, <2>7 DEF CallType
    <2>9. /\ n.tool = k.tool /\ n.at = "android" /\ n.ans = k.ans /\ n.raced = k.raced
          /\ n.hits = k.hits /\ n.saw = k.saw /\ n.calm = k.calm
      BY <2>2, <2>5 DEF CallType
    <2>10. k.tool \in ActingTools /\ k.todo # <<"find">>
      BY <2>2, HeadAndTail DEF Acts
    <2>11. Sound(plat, n)
      BY <2>2, <2>4, <2>8, <2>9, <2>10
         DEF Sound, Placed, Landed, Ahead, IosAt, AdbAt, CallType, Acts
    <2>12. DriverStep(c, k, n)
      BY <1>5, <2>1, <2>2, <2>4, <2>6, <2>8, <2>9, <2>11 DEF DriverStep, Still, Acts
    <2> QED BY <2>1, <2>2, <2>9, <2>12 DEF AtOnce, IosAt
  <1> QED BY <1>1, <1>2, <1>3, <1>4, <1>5 DEF TapText, Gesture

LEMMA LookEffect ==
    ASSUME TypeOK, Calls, NEW c \in Clients, Look(c), UNCHANGED front
    PROVE  \E n : AtOnce(c, call[c], n)
  <1>1. At(c, "android") /\ Op(c) \in {"find", "dump_ui"}
    BY DEF Look
  <1>2. CASE Raises(c, "reply", "err")
    BY <1>1, <1>2, RaisesEffect
  <1>3. CASE /\ UNCHANGED <<screen, faults>> /\ Op(c) = "find"
             /\ \E r \in {"present", "absent", "err"} : Got(c, r)
    <2>1. PICK r \in {"present", "absent", "err"} : Got(c, r)
      BY <1>3
    <2>2. MissLeads(call[c], "reply", r)
      BY <1>1, <1>3 DEF MissLeads, At, Op, Acts
    <2>3. "reply" \in Places /\ r \in Gots
      BY <2>1 DEF Places, Gots
    <2> QED BY <1>3, <2>1, <2>2, <2>3, MissEffect DEF Got
  <1>4. CASE /\ UNCHANGED <<screen, faults>> /\ Op(c) = "dump_ui"
             /\ Become(c, [call[c] EXCEPT !.at = "reply", !.got = "ok", !.saw = screen])
    <2>1. PICK k : k = call[c]
      OBVIOUS
    <2>2. /\ k \in CallType /\ Sound(plat, k) /\ k.at = "android" /\ Head(k.todo) = "dump_ui"
          /\ screen \in Nat
      BY <1>1, <1>4, <2>1 DEF TypeOK, Calls, At, Op
    <2>3. PICK n : n = [k EXCEPT !.at = "reply", !.got = "ok", !.saw = screen]
      OBVIOUS
    <2>4. "reply" \in Places /\ "ok" \in Gots
      BY DEF Places, Gots
    <2>5. /\ n \in CallType /\ n.tool = k.tool /\ n.todo = k.todo /\ n.ans = k.ans
          /\ n.raced = k.raced /\ n.hits = k.hits /\ n.saw = screen
          /\ n.at = "reply" /\ n.got = "ok" /\ n.calm = k.calm
      BY <2>2, <2>3, <2>4 DEF CallType, Gots
    <2>6. Sound(plat, n)
      BY <2>2, <2>5 DEF Sound, Placed, Landed, Ahead, IosAt, AdbAt, CallType, Acts
    <2>7. DriverStep(c, k, n)
      BY <1>4, <2>1, <2>2, <2>3, <2>5, <2>6 DEF DriverStep, Reads, Become
    <2> QED BY <2>1, <2>2, <2>5, <2>7 DEF AtOnce, IosAt
  <1> QED BY <1>2, <1>3, <1>4 DEF Look
-----------------------------------------------------------------------------
(* The steps that switch the helper packages.                               *)
Passes(c, k, n) ==
    \/ /\ k.nth = 2 /\ n.at = "reply"
       /\ quiet' = (IF quiet = "mixed" THEN quiet ELSE IF k.tool = "pause" THEN "yes" ELSE "no")
    \/ k.nth = 1 /\ n.at = "package" /\ n.nth = 2 /\ quiet' = quiet

Packs(c, k, n) ==
    /\ DriverStep(c, k, n)
    /\ k.tool \in {"pause", "resume"} /\ Op(c) = k.tool
    /\ n.at \in {"package", "switch", "reply"} /\ anew' = anew
    /\ \/ quiet' = "mixed" /\ n.at = "reply" /\ helper' = helper
       \/ /\ k.at = "package" /\ n.at = "switch" /\ n.nth = k.nth
          /\ Status(Package(c)) = From(k.tool) /\ UNCHANGED <<quiet, helper>>
       \/ /\ k.at = "package" /\ Status(Package(c)) # From(k.tool)
          /\ helper' = helper /\ Passes(c, k, n)
       \/ /\ k.at = "switch" /\ helper[Package(c)] # "absent"
          /\ helper' = [helper EXCEPT ![Package(c)] = To(k.tool)] /\ Passes(c, k, n)

LEMMA PackageStep ==
    ASSUME TypeOK, Calls, NEW c \in Clients, NEW k, NEW n, k = call[c],
           k.at \in {"package", "switch"}, k.tool \in {"pause", "resume"},
           Shifts(k, n), call' = [call EXCEPT ![c] = n], screen' = screen, UNCHANGED front,
           n.at \in {"package", "switch", "reply"}, n.calm \in {FALSE, k.calm}
    PROVE  DriverStep(c, k, n)
  <1>1. k \in CallType /\ Sound(plat, k)
    BY DEF TypeOK, Calls
  <1>2. k.tool \in DOMAIN Steps /\ k.todo \in Rest[k.tool] /\ Head(k.todo) \in {"pause", "resume"}
    BY <1>1 DEF Sound, Placed
  <1>3. Sound(plat, n)
    BY <1>1, <1>2 DEF Sound, Placed, Landed, Ahead, ActingTools, Shifts, IosAt, AdbAt, CallType
  <1> QED BY <1>2, <1>3, ShiftStep

LEMMA NextEffect ==
    ASSUME TypeOK, Calls, NEW c \in Clients, NextPackage(c), screen' = screen, UNCHANGED front,
           call[c].at \in {"package", "switch"}, call[c].tool \in {"pause", "resume"},
           Op(c) = call[c].tool
    PROVE  \E n : /\ DriverStep(c, call[c], n) /\ Passes(c, call[c], n)
                  /\ n.at \in {"package", "reply"}
  <1>1. PICK k : k = call[c]
    OBVIOUS
  <1>2. k \in CallType /\ k.nth \in {1, 2} /\ Len(Packages) = 2
    BY <1>1 DEF TypeOK, CallType, Packages
  <1>3. "package" \in Places /\ "reply" \in Places /\ "ok" \in Gots
    BY DEF Places, Gots
  <1>4. CASE k.nth = 2
    <2>1. PICK n : n = [k EXCEPT !.at = "reply", !.got = "ok"]
      OBVIOUS
    <2>2. /\ call' = [call EXCEPT ![c] = n]
          /\ quiet' = (IF quiet = "mixed" THEN quiet ELSE IF k.tool = "pause" THEN "yes" ELSE "no")
      BY <1>1, <1>2, <1>4, <2>1 DEF NextPackage, Got, Become
    <2>3. Shifts(k, n) /\ n.at = "reply" /\ n.calm = k.calm
      BY <1>2, <1>3, <2>1 DEF Shifts, CallType, Gots
    <2>4. DriverStep(c, k, n)
      BY <1>1, <2>2, <2>3, PackageStep
    <2> QED BY <1>1, <1>4, <2>2, <2>3, <2>4 DEF Passes
  <1>5. CASE k.nth = 1
    <2>1. PICK n : n = [k EXCEPT !.at = "package", !.nth = @ + 1]
      OBVIOUS
    <2>2. call' = [call EXCEPT ![c] = n] /\ quiet' = quiet
      BY <1>1, <1>2, <1>5, <2>1 DEF NextPackage, Become
    <2>3. PICK j \in 1..2 : j = k.nth + 1 /\ j = 2
      BY <1>5
    <2>4. Shifts(k, n) /\ n.at = "package" /\ n.calm = k.calm /\ n.nth = 2
      <3>1. n = [k EXCEPT !.at = "package", !.nth = j]
        BY <2>1, <2>3
      <3>2. n \in CallType
        BY <1>2, <1>3, <3>1 DEF CallType
      <3>3. n.at = "package" /\ n.calm = k.calm /\ n.nth = j
        BY <1>2, <3>1 DEF CallType
      <3> QED BY <1>2, <2>3, <3>1, <3>2, <3>3 DEF Shifts, CallType
    <2>5. DriverStep(c, k, n)
      BY <1>1, <2>2, <2>4, PackageStep
    <2> QED BY <1>1, <1>5, <2>2, <2>4, <2>5 DEF Passes
  <1> QED BY <1>2, <1>4, <1>5

LEMMA PackageEffect ==
    ASSUME TypeOK, Calls, NEW c \in Clients, LookAtPackage(c) \/ Switch(c), UNCHANGED front
    PROVE  \E n : Packs(c, call[c], n)
  <1>1. PICK k : k = call[c]
    OBVIOUS
  <1>2. /\ k \in CallType /\ Sound(plat, k) /\ k.at \in {"package", "switch"}
        /\ screen' = screen /\ anew' = anew
    BY <1>1 DEF TypeOK, Calls, LookAtPackage, Switch, At
  <1>3. k.tool \in {"pause", "resume"} /\ Op(c) = k.tool
    BY <1>1, <1>2, HeadAndTail DEF Sound, Placed, Op
  <1>4. "switch" \in Places /\ "reply" \in Places /\ "err" \in Gots
    BY DEF Places, Gots
  <1>5. CASE /\ NextPackage(c)
             /\ \/ k.at = "package" /\ Status(Package(c)) # From(k.tool) /\ helper' = helper
                \/ /\ k.at = "switch" /\ helper[Package(c)] # "absent"
                   /\ helper' = [helper EXCEPT ![Package(c)] = To(k.tool)]
    <2>1. PICK n : DriverStep(c, k, n) /\ Passes(c, k, n) /\ n.at \in {"package", "reply"}
      BY <1>1, <1>2, <1>3, <1>5, NextEffect
    <2> QED BY <1>1, <1>2, <1>3, <1>5, <2>1 DEF Packs
  <1>6. CASE /\ k.at = "package" /\ Goto(c, "switch") /\ Status(Package(c)) = From(k.tool)
             /\ UNCHANGED <<quiet, helper>>
    <2>1. PICK n : n = [k EXCEPT !.at = "switch"]
      OBVIOUS
    <2>2. Shifts(k, n) /\ n.at = "switch" /\ n.calm = k.calm /\ n.nth = k.nth
      BY <1>2, <1>4, <2>1 DEF Shifts, CallType
    <2>3. call' = [call EXCEPT ![c] = n]
      BY <1>1, <1>6, <2>1 DEF Goto, Become
    <2>4. DriverStep(c, k, n)
      BY <1>1, <1>2, <1>3, <2>2, <2>3, PackageStep
    <2> QED BY <1>1, <1>2, <1>3, <1>6, <2>2, <2>4 DEF Packs
  <1>7. CASE /\ quiet' = "mixed" /\ helper' = helper
             /\ Got(c, "err") \/ Fail(c, "reply", "err")
    <2>1. PICK n : /\ call' = [call EXCEPT ![c] = n] /\ Shifts(k, n) /\ n.at = "reply"
                   /\ n.calm \in {FALSE, k.calm}
      <3>1. CASE Fail(c, "reply", "err")
        <4>1. PICK n : /\ call' = [call EXCEPT ![c] = n] /\ Shifts(k, n) /\ n.at = "reply"
                       /\ Uneasy(n)
          BY <1>1, <1>4, <3>1, Failed
        <4> QED BY <4>1 DEF Uneasy
      <3>2. CASE Got(c, "err")
        <4>1. PICK n : n = [k EXCEPT !.at = "reply", !.got = "err"]
          OBVIOUS
        <4>2. call' = [call EXCEPT ![c] = n]
          BY <1>1, <3>2, <4>1 DEF Got, Become
        <4>3. Shifts(k, n) /\ n.at = "reply" /\ n.calm = k.calm
          BY <1>2, <1>4, <4>1 DEF Shifts, CallType, Gots
        <4> QED BY <4>2, <4>3
      <3> QED BY <1>7, <3>1, <3>2
    <2>2. DriverStep(c, k, n)
      BY <1>1, <1>2, <1>3, <2>1, PackageStep
    <2> QED BY <1>1, <1>2, <1>3, <1>7, <2>1, <2>2 DEF Packs
  <1>8. CASE LookAtPackage(c)
    <2>1. k.at = "package" /\ helper' = helper
      BY <1>1, <1>8 DEF LookAtPackage, At
    <2> QED BY <1>3, <1>5, <1>6, <1>7, <1>8, <2>1 DEF LookAtPackage
  <1>9. CASE Switch(c)
    <2>1. k.at = "switch"
      BY <1>1, <1>9 DEF Switch, At
    <2> QED BY <1>3, <1>5, <1>7, <1>9, <2>1 DEF Switch, SwitchFails
  <1> QED BY <1>8, <1>9

LEMMA AndroidEffect ==
    ASSUME TypeOK, Calls, NEW c \in Clients, AndroidStep(c), UNCHANGED front
    PROVE  \E n : \/ AtOnce(c, call[c], n) /\ UNCHANGED <<helper, quiet, anew>>
                  \/ Packs(c, call[c], n)
  <1>1. CASE LookAtPackage(c) \/ Switch(c)
    BY <1>1, PackageEffect
  <1>2. CASE AskMaker(c) \/ ChooseTap(c)
    BY <1>2, MakerEffect DEF AskMaker, ChooseTap, android
  <1>3. CASE TapViaAdb(c) \/ Click(c)
    BY <1>3, TapEffect DEF TapViaAdb, Click, android
  <1>4. CASE TapText(c) \/ Gesture(c)
    BY <1>4, TapTextEffect DEF TapText, Gesture, android
  <1>5. CASE Look(c)
    BY <1>5, LookEffect DEF Look, android
  <1> QED BY <1>1, <1>2, <1>3, <1>4, <1>5 DEF AndroidStep

LEMMA WdaEffect ==
    ASSUME TypeOK, Calls, NEW c \in Clients, WdaStep(c), UNCHANGED front
    PROVE  \E n : /\ DriverStep(c, call[c], n)
                  /\ call[c].at \in IosAt /\ n.at \in IosAt \cup {"reply"}
  <1>1. CASE Get(c)
    BY <1>1, GetEffect DEF Get, At, IosAt
  <1>2. CASE Connect(c)
    <2>1. PICK n : DriverStep(c, call[c], n) /\ n.at \in {"settle", "reply"}
      BY <1>2, ConnectEffect
    <2> QED BY <1>2, <2>1 DEF Connect, At, IosAt
  <1>3. CASE Settle(c)
    BY <1>3, SettleEffect DEF Settle, At, IosAt
  <1>4. CASE Send(c)
    BY <1>4, SendEffect DEF Send, SendEnds, At, IosAt
  <1>5. CASE Recover(c)
    <2>1. PICK n : DriverStep(c, call[c], n) /\ n.at \in {"get", "reply"}
      BY <1>5, RecoverEffect
    <2> QED BY <1>5, <2>1 DEF Recover, At, IosAt
  <1> QED BY <1>1, <1>2, <1>3, <1>4, <1>5 DEF WdaStep
-----------------------------------------------------------------------------
(* A call enters the cache and the routing, or leaves them.                 *)
Fields(k, n) ==
    /\ n \in CallType
    /\ n.tool = k.tool /\ n.todo = k.todo /\ n.at = k.at /\ n.tries = k.tries
    /\ n.sess = k.sess /\ n.got = k.got /\ n.hits = k.hits /\ n.saw = k.saw
    /\ n.ans = k.ans /\ n.nth = k.nth /\ (n.calm => k.calm) /\ (k.raced => n.raced)

(* What Enter(c) makes of the call k; of the others, only whether they are  *)
(* raced can change.                                                        *)
Enters(c, k, n) ==
    /\ k = call[c] /\ k.at = "enter" /\ n \in CallType
    /\ n.at \in {"reply", "get", "android", "package"}
    /\ n.tool = k.tool /\ n.todo = k.todo /\ n.ans = k.ans /\ n.hits = k.hits
    /\ n.tries = k.tries /\ n.calm = k.calm
    /\ n.at = "reply" => n.got = "hit" \/ (n.got = "err" /\ (plat = "web" \/ ~known))
    /\ Sound(plat, n)

Rivals(c, n) ==
    \/ /\ Op(c) \in Acts /\ n.saw = call[c].saw /\ cache' = NoDump
       /\ \A d \in Clients \ {c} : /\ Fields(call[d], call'[d]) /\ call'[d].calm = call[d].calm
                                   /\ InFlight(d, {"dump_ui"}) => call'[d].raced
    \/ /\ Op(c) \notin Acts /\ \A d \in Clients \ {c} : call'[d] = call[d]
       /\ cache' = cache
       /\ \/ /\ ~(n.at = "reply" /\ n.got = "hit")
             /\ n.saw = call[c].saw
             /\ Op(c) = "dump_ui" => (n.raced <=> \E d \in Clients : InFlight(d, Acts))
          \/ /\ n.at = "reply" /\ n.got = "hit" /\ Op(c) = "dump_ui" /\ cache.ver # 0
             /\ n.saw = cache.ver /\ n.raced = cache.raced

LEMMA RoutedTo ==
    ASSUME TypeOK, Calls, NEW c \in Clients, At(c, "enter"), NEW k, NEW n, k = call[c], n = Routed(c)
    PROVE  /\ Shifts(k, n) /\ n.calm = k.calm /\ n.tries = k.tries /\ Sound(plat, n)
           /\ n.at \in {"reply", "get", "android"}
           /\ n.at = "reply" => n.got = "err" /\ (plat = "web" \/ ~known)
  <1>1. k \in CallType /\ Sound(plat, k) /\ k.at = "enter" /\ plat \in {"android", "ios", "web"}
    BY DEF TypeOK, Calls, At
  <1>2. \/ n = [k EXCEPT !.at = "reply", !.got = "err"] /\ (plat = "web" \/ ~known)
        \/ n = [k EXCEPT !.at = "get"] /\ plat = "ios"
        \/ n = [k EXCEPT !.at = "android"] /\ plat = "android"
    BY <1>1 DEF Routed
  <1>3. "reply" \in Places /\ "get" \in Places /\ "android" \in Places /\ "err" \in Gots
    BY DEF Places, IosAt, Gots
  <1>4. /\ Shifts(k, n) /\ n.calm = k.calm /\ n.tries = k.tries
        /\ \/ n.at = "reply" /\ n.got = "err" /\ (plat = "web" \/ ~known)
           \/ n.at = "get" /\ plat = "ios"
           \/ n.at = "android" /\ plat = "android"
    <2>1. CASE n = [k EXCEPT !.at = "reply", !.got = "err"] /\ (plat = "web" \/ ~known)
      BY <1>1, <1>3, <2>1 DEF Shifts, CallType, Gots
    <2>2. CASE n = [k EXCEPT !.at = "get"] /\ plat = "ios"
      BY <1>1, <1>3, <2>2 DEF Shifts, CallType
    <2>3. CASE n = [k EXCEPT !.at = "android"] /\ plat = "android"
      BY <1>1, <1>3, <2>3 DEF Shifts, CallType
    <2> QED BY <1>2, <2>1, <2>2, <2>3
  <1>5. Placed(plat, n)
    BY <1>1, <1>4 DEF Sound, Placed, Shifts, IosAt, AdbAt
  <1>6. Landed(plat, n)
    BY <1>1, <1>4 DEF Sound, Placed, Landed, Ahead, Shifts, IosAt, AdbAt, CallType
  <1> QED BY <1>4, <1>5, <1>6 DEF Sound

LEMMA EnterEffect ==
    ASSUME TypeOK, Calls, NEW c \in Clients, Enter(c)
    PROVE  \E n : /\ Enters(c, call[c], n) /\ Rivals(c, n) /\ call'[c] = n
                  /\ n.at # "package" => UNCHANGED <<quiet, anew>>
                  /\ n.at = "package" => SwitchBegins(c) /\ n.nth = 1
                                         /\ n.tool \in {"pause", "resume"}
  <1>1. PICK k : k = call[c]
    OBVIOUS
  <1>2. /\ k \in CallType /\ Sound(plat, k) /\ k.at = "enter" /\ At(c, "enter")
        /\ k.tool \in DOMAIN Steps /\ k.todo \in Rest[k.tool] /\ Head(k.todo) = Op(c)
        /\ call \in [Clients -> CallType]
    BY <1>1 DEF TypeOK, Calls, Enter, At, Sound, Placed, Op
  <1>3. CASE /\ Op(c) \in Acts /\ Invalidate /\ UNCHANGED <<quiet, anew>>
             /\ call' = [d \in Clients |->
                           IF d = c THEN Routed(c)
                           ELSE [call[d] EXCEPT !.raced = @ \/ InFlight(d, {"dump_ui"})]]
    <2>1. PICK n : n = Routed(c)
      OBVIOUS
    <2>2. /\ Shifts(k, n) /\ n.calm = k.calm /\ n.tries = k.tries /\ Sound(plat, n)
          /\ n.at \in {"reply", "get", "android"}
          /\ n.at = "reply" => n.got = "err" /\ (plat = "web" \/ ~known)
      BY <1>1, <1>2, <2>1, RoutedTo
    <2>3. call'[c] = n
      BY <1>3, <2>1
    <2>4. ASSUME NEW d \in Clients \ {c}
          PROVE  /\ Fields(call[d], call'[d]) /\ call'[d].calm = call[d].calm
                 /\ InFlight(d, {"dump_ui"}) => call'[d].raced
      <3>1. PICK b \in BOOLEAN : b <=> InFlight(d, {"dump_ui"})
        OBVIOUS
      <3>2. PICK m : m = call[d]
        OBVIOUS
      <3>3. m \in CallType
        BY <1>2, <3>2
      <3>4. PICK v \in BOOLEAN : v <=> (m.raced \/ b)
        OBVIOUS
      <3>5. call'[d] = [m EXCEPT !.raced = m.raced \/ InFlight(d, {"dump_ui"})]
        BY <1>3, <3>2
      <3>6. (m.raced \/ InFlight(d, {"dump_ui"})) = v
        BY <3>1, <3>3, <3>4 DEF CallType
      <3>7. call'[d] = [m EXCEPT !.raced = v]
        BY <3>5, <3>6
      <3>8. Fields(m, call'[d]) /\ call'[d].calm = m.calm /\ call'[d].raced = v
        BY <3>3, <3>4, <3>7 DEF Fields, CallType
      <3> QED BY <3>1, <3>2, <3>4, <3>8
    <2>5. Enters(c, k, n)
      BY <1>1, <1>2, <2>2 DEF Enters, Shifts
    <2>6. Rivals(c, n)
      BY <1>1, <1>3, <2>2, <2>4 DEF Rivals, Shifts, Invalidate
    <2> QED BY <1>1, <1>3, <2>2, <2>3, <2>5, <2>6
  <1>4. CASE /\ Op(c) = "dump_ui" /\ Fresh /\ UNCHANGED <<cache, quiet, anew>>
             /\ Become(c, [call[c] EXCEPT !.at = "reply", !.got = "hit", !.saw = cache.ver,
                                          !.raced = cache.raced])
    <2>1. PICK n : n = [k EXCEPT !.at = "reply", !.got = "hit", !.saw = cache.ver,
                                 !.raced = cache.raced]
      OBVIOUS
    <2>2. /\ call' = [call EXCEPT ![c] = n] /\ cache' = cache
          /\ cache.ver \in Nat /\ cache.raced \in BOOLEAN /\ cache.ver # 0
      BY <1>1, <1>4, <2>1 DEF Become, TypeOK, Fresh
    <2>3. "reply" \in Places /\ "hit" \in Gots
      BY DEF Places, Gots
    <2>4. /\ n \in CallType /\ n.tool = k.tool /\ n.todo = k.todo /\ n.ans = k.ans
          /\ n.hits = k.hits /\ n.tries = k.tries /\ n.calm = k.calm /\ n.at = "reply"
          /\ n.got = "hit" /\ n.saw = cache.ver /\ n.raced = cache.raced
      BY <1>2, <2>1, <2>2, <2>3 DEF CallType, Gots
    <2>5. Sound(plat, n)
      BY <1>2, <1>4, <2>4 DEF Sound, Placed, Landed, Ahead, IosAt, AdbAt, CallType, Acts
    <2>6. Enters(c, k, n)
      BY <1>1, <1>2, <2>4, <2>5 DEF Enters
    <2>7. Rivals(c, n) /\ call'[c] = n
      BY <1>1, <1>2, <1>4, <2>2, <2>4 DEF Rivals, Acts
    <2> QED BY <1>1, <1>4, <2>4, <2>6, <2>7
  <1>5. CASE /\ Op(c) = "dump_ui" /\ UNCHANGED <<cache, quiet, anew>>
             /\ Become(c, [Routed(c) EXCEPT !.raced = \E d \in Clients : InFlight(d, Acts)])
    <2>1. PICK m : m = Routed(c)
      OBVIOUS
    <2>2. /\ Shifts(k, m) /\ m.calm = k.calm /\ m.tries = k.tries /\ Sound(plat, m)
          /\ m.at \in {"reply", "get", "android"}
          /\ m.at = "reply" => m.got = "err" /\ (plat = "web" \/ ~known)
      BY <1>1, <1>2, <2>1, RoutedTo
    <2>3. PICK b \in BOOLEAN : b <=> \E d \in Clients : InFlight(d, Acts)
      OBVIOUS
    <2>4. b = \E d \in Clients : InFlight(d, Acts)
      BY <2>3
    <2>5. PICK n : n = [m EXCEPT !.raced = b]
      OBVIOUS
    <2>6. call' = [call EXCEPT ![c] = n] /\ cache' = cache
      BY <1>5, <2>1, <2>4, <2>5 DEF Become
    <2>7. /\ n \in CallType /\ n.tool = m.tool /\ n.todo = m.todo /\ n.ans = m.ans
          /\ n.hits = m.hits /\ n.tries = m.tries /\ n.calm = m.calm /\ n.at = m.at
          /\ n.got = m.got /\ n.saw = m.saw /\ n.raced = b
      BY <2>2, <2>5 DEF CallType, Shifts
    <2>8. Sound(plat, n)
      BY <2>2, <2>7 DEF Sound, Placed, Landed, Ahead, IosAt, AdbAt
    <2>9. Enters(c, k, n)
      BY <1>1, <1>2, <2>2, <2>7, <2>8 DEF Enters, Shifts
    <2>10. ~(n.at = "reply" /\ n.got = "hit") /\ n.saw = k.saw
      BY <2>2, <2>7 DEF Shifts
    <2>11. /\ call'[c] = n /\ \A d \in Clients \ {c} : call'[d] = call[d]
           /\ Op(c) \notin Acts
      BY <1>2, <1>5, <2>6 DEF Acts
    <2>12. Rivals(c, n)
      BY <1>1, <1>5, <2>3, <2>6, <2>7, <2>10, <2>11 DEF Rivals
    <2> QED BY <1>1, <1>5, <2>2, <2>7, <2>9, <2>11, <2>12
  <1>6. CASE Op(c) = "find" /\ Become(c, Routed(c)) /\ UNCHANGED <<cache, quiet, anew>>
    <2>1. PICK n : n = Routed(c)
      OBVIOUS
    <2>2. /\ Shifts(k, n) /\ n.calm = k.calm /\ n.tries = k.tries /\ Sound(plat, n)
          /\ n.at \in {"reply", "get", "android"}
          /\ n.at = "reply" => n.got = "err" /\ (plat = "web" \/ ~known)
      BY <1>1, <1>2, <2>1, RoutedTo
    <2>3. call' = [call EXCEPT ![c] = n] /\ cache' = cache
      BY <1>6, <2>1 DEF Become
    <2>4. /\ call'[c] = n /\ \A d \in Clients \ {c} : call'[d] = call[d]
          /\ Op(c) \notin Acts /\ Op(c) # "dump_ui" /\ n.saw = k.saw
          /\ ~(n.at = "reply" /\ n.got = "hit")
      BY <1>2, <1>6, <2>2, <2>3 DEF Acts, Shifts
    <2>5. Enters(c, k, n)
      BY <1>1, <1>2, <2>2 DEF Enters, Shifts
    <2>6. Rivals(c, n)
      BY <1>1, <2>3, <2>4 DEF Rivals
    <2> QED BY <1>1, <1>6, <2>2, <2>4, <2>5, <2>6
  <1>7. CASE Op(c) \in {"pause", "resume"} /\ SwitchBegins(c) /\ UNCHANGED cache
    <2>1. PICK n : n = [k EXCEPT !.at = "package", !.nth = 1]
      OBVIOUS
    <2>2. call' = [call EXCEPT ![c] = n] /\ cache' = cache
      BY <1>1, <1>7, <2>1 DEF SwitchBegins, Become
    <2>3. "package" \in Places /\ 1 \in 1..2
      BY DEF Places
    <2>4. Shifts(k, n) /\ n.at = "package" /\ n.nth = 1 /\ n.calm = k.calm /\ n.tries = k.tries
      BY <1>2, <2>1, <2>3 DEF Shifts, CallType
    <2>5. k.tool \in {"pause", "resume"}
      BY <1>2, <1>7, HeadAndTail
    <2>6. Sound(plat, n)
      BY <1>2, <1>7, <2>4, <2>5
         DEF Sound, Placed, Landed, Ahead, ActingTools, Shifts, IosAt, AdbAt, CallType
    <2>7. /\ call'[c] = n /\ \A d \in Clients \ {c} : call'[d] = call[d]
          /\ Op(c) \notin Acts /\ Op(c) # "dump_ui" /\ n.saw = k.saw
          /\ ~(n.at = "reply" /\ n.got = "hit")
      BY <1>2, <1>7, <2>2, <2>4 DEF Acts, Shifts
    <2>8. Enters(c, k, n)
      BY <1>1, <1>2, <2>4, <2>6 DEF Enters, Shifts
    <2>9. Rivals(c, n)
      BY <1>1, <2>2, <2>7 DEF Rivals
    <2> QED BY <1>1, <1>7, <2>4, <2>5, <2>7, <2>8, <2>9 DEF Shifts
  <1> QED BY <1>3, <1>4, <1>5, <1>6, <1>7 DEF Enter

(* What Leave(c) makes of the call k.                                       *)
GoesOn(k, n) ==
    /\ n.at = "enter" /\ n.hits = k.hits /\ n.saw = k.saw /\ n.ans = k.ans
    /\ Len(k.todo) > 1 /\ n.todo = Tail(k.todo)

Ends(k, n) ==
    /\ n.at = "idle" /\ n.hits = 0 /\ n.ans \in {"ok", "err"}
    /\ n.saw = (IF k.tool \in ActingTools THEN 0 ELSE k.saw)
    /\ n.ans = "ok" => k.got # "err" /\ (k.tool \in ActingTools => k.hits > 0)
    /\ k.got = "err" \/ k.tool \notin {"tap", "gesture"} \/ n.ans = "ok"

LEMMA LeaveEffect ==
    ASSUME TypeOK, Calls, NEW c \in Clients, Leave(c)
    PROVE  \E n : /\ call[c].at = "reply" /\ call' = [call EXCEPT ![c] = n]
                  /\ n \in CallType /\ Sound(plat, n)
                  /\ n.tool = call[c].tool /\ n.raced = call[c].raced /\ n.calm = call[c].calm
                  /\ n.tries = 0
                  /\ GoesOn(call[c], n) \/ Ends(call[c], n)
  <1>1. PICK k : k = call[c]
    OBVIOUS
  <1>2. /\ k \in CallType /\ Sound(plat, k) /\ k.at = "reply"
        /\ k.tool \in DOMAIN Steps /\ k.todo \in Rest[k.tool]
    BY <1>1 DEF TypeOK, Calls, Leave, At, Sound, Placed
  <1>3. PICK v : v = Verdict(k.tool, k.got, Len(k.todo) > 1)
    OBVIOUS
  <1>4. /\ v \in {"ok", "err", "next"}
        /\ v = "next" => Len(k.todo) > 1
        /\ v \in {"ok", "next"} => k.got # "err"
        /\ v = "ok" /\ k.tool \in ActingTools => ~(Len(k.todo) > 1)
        /\ v = "err" /\ k.tool \in {"tap", "gesture"} => k.got = "err"
    <2>0. PICK more \in BOOLEAN : more <=> Len(k.todo) > 1
      OBVIOUS
    <2>1. more = (Len(k.todo) > 1)
      BY <2>0
    <2>2. v = Verdict(k.tool, k.got, more)
      BY <1>3, <2>1
    <2>3. CASE k.got = "err"
      <3>1. v = "err"
        BY <1>2, <2>2, <2>3 DEF Verdict, CallType
      <3> QED BY <2>3, <3>1
    <2>4. CASE k.got # "err" /\ k.tool \in ActingTools
      BY <2>1, <2>2, <2>4 DEF Verdict, ActingTools
    <2>5. CASE k.got # "err" /\ k.tool \notin ActingTools
      BY <2>1, <2>2, <2>5 DEF Verdict, ActingTools
    <2> QED BY <2>3, <2>4, <2>5
  <1>5. CASE v = "next"
    <2>1. PICK n : n = [k EXCEPT !.at = "enter", !.todo = Tail(@), !.tries = 0, !.sess = 0,
                                 !.got = "none"]
      OBVIOUS
    <2>2. call' = [call EXCEPT ![c] = n]
      BY <1>1, <1>3, <1>5, <2>1 DEF Leave, Conclude, Become
    <2>3. PICK q : q = Tail(k.todo)
      OBVIOUS
    <2>4. q \in Rest[k.tool] /\ q \in Todos /\ (k.tool = "tap_and_verify" => q = <<"find">>)
      BY <1>2, <1>4, <1>5, <2>3, HeadAndTail DEF Todos
    <2>5. n = [k EXCEPT !.at = "enter", !.todo = q, !.tries = 0, !.sess = 0, !.got = "none"]
      BY <2>1, <2>3
    <2>6. "enter" \in Places /\ 0 \in 0..1 /\ 0 \in Nat
      BY DEF Places
    <2>7. n \in CallType
      BY <1>2, <2>4, <2>5, <2>6 DEF CallType
    <2>8. /\ n.tool = k.tool /\ n.todo = q /\ n.at = "enter" /\ n.tries = 0 /\ n.hits = k.hits
          /\ n.saw = k.saw /\ n.ans = k.ans /\ n.raced = k.raced /\ n.calm = k.calm
      BY <1>2, <2>5 DEF CallType
    <2>9. Placed(plat, n)
      BY <1>2, <2>4, <2>8 DEF Placed, IosAt, AdbAt
    <2>10. k.tool \in ActingTools /\ k.tool # "tap_and_verify" => k.hits = 0
      <3>1. k.tool \in ActingTools /\ k.tool # "tap_and_verify" => Ahead(k) /\ Head(k.todo) \notin Acts
        BY <1>2, <1>4, <1>5, HeadAndTail DEF Ahead
      <3> QED BY <1>2, <3>1 DEF Sound, Landed, Ahead, CallType
    <2>11. k.tool = "tap_and_verify" => k.hits > 0
      <3>1. k.tool = "tap_and_verify" => Ahead(k) /\ Head(k.todo) \in Acts
        BY <1>2, <1>4, <1>5, HeadAndTail DEF Ahead, ActingTools
      <3> QED BY <1>2, <1>4, <1>5, <3>1 DEF Sound, Landed, Ahead, CallType
    <2>12. Landed(plat, n)
      BY <1>2, <2>4, <2>8, <2>10, <2>11 DEF Sound, Landed, Ahead, IosAt, AdbAt, CallType, ActingTools
    <2> QED BY <1>1, <1>2, <1>4, <1>5, <2>2, <2>3, <2>7, <2>8, <2>9, <2>12 DEF GoesOn, Sound
  <1>6. CASE v # "next"
    <2>1. IsAct(k.tool) <=> k.tool \in ActingTools
      BY <1>2, RestOf
    <2>2. PICK w : w = IF k.tool \in ActingTools THEN 0 ELSE k.saw
      OBVIOUS
    <2>3. PICK n : n = [Idle EXCEPT !.tool = k.tool, !.ans = v, !.calm = k.calm,
                                    !.saw = w, !.raced = k.raced]
      OBVIOUS
    <2>4. call' = [call EXCEPT ![c] = n]
      BY <1>1, <1>3, <1>6, <2>1, <2>2, <2>3 DEF Leave, Conclude, Become
    <2>5. /\ n.tool = k.tool /\ n.at = "idle" /\ n.hits = 0 /\ n.ans = v /\ n.saw = w
          /\ n.raced = k.raced /\ n.calm = k.calm /\ n.tries = 0
      BY <2>3 DEF Idle
    <2>6. n \in CallType
      <3>1. Idle \in CallType
        BY DEF Idle, CallType, Todos, Places
      <3>2. k.tool \in DOMAIN Steps \cup {"none"} /\ k.saw \in Nat /\ w \in Nat
            /\ k.raced \in BOOLEAN /\ k.calm \in BOOLEAN /\ v \in {"none", "ok", "err"}
        BY <1>2, <1>4, <1>6, <2>2 DEF CallType
      <3> QED BY <2>3, <3>1, <3>2 DEF CallType
    <2>7. Sound(plat, n)
      BY <2>5 DEF Sound, Placed, Landed, Ahead
    <2>8. v = "ok" /\ k.tool \in ActingTools => k.hits > 0
      <3>1. v = "ok" /\ k.tool \in ActingTools =>
              \/ Ahead(k) /\ Head(k.todo) \in Acts
              \/ ~Ahead(k)
        <4>1. k.todo \in Rest[k.tool] /\ Len(k.todo) \in 1..2
          BY <1>2, HeadAndTail
        <4> QED BY <1>2, <1>4, <4>1, HeadAndTail DEF Ahead
      <3> QED BY <1>2, <1>4, <3>1 DEF Sound, Landed, Ahead, CallType
    <2>9. Ends(k, n)
      BY <1>4, <1>6, <2>2, <2>5, <2>8 DEF Ends
    <2> QED BY <1>1, <1>2, <2>4, <2>5, <2>6, <2>7, <2>9
  <1> QED BY <1>5, <1>6

LEMMA BeginEffect ==
    ASSUME TypeOK, Calls, NEW c \in Clients, NEW tool \in Tools, Begin(c, tool)
    PROVE  \E n : /\ call[c].at = "idle" /\ call' = [call EXCEPT ![c] = n]
                  /\ n \in CallType /\ Sound(plat, n)
                  /\ n.tool = tool /\ n.tool \in DOMAIN Steps /\ n.at = "enter" /\ n.hits = 0
                  /\ n.ans = "none" /\ n.tries = 0 /\ n.saw = 0
                  /\ n.calm => plat = "ios" /\ serving /\ known
                  /\ tool \in {"pause", "resume", "gesture"} => plat = "android"
  <1>1. tool \in DOMAIN Steps /\ Steps[tool] \in Rest[tool]
    BY ToolsAreKnown, RestOf
  <1>2. PICK b \in BOOLEAN : b <=> (plat = "ios" /\ serving /\ known)
    OBVIOUS
  <1>3. b = (plat = "ios" /\ serving /\ known)
    BY <1>2 DEF TypeOK
  <1>4. PICK q : q = Steps[tool]
    OBVIOUS
  <1>5. PICK n : n = [Idle EXCEPT !.tool = tool, !.todo = q, !.at = "enter", !.calm = b]
    OBVIOUS
  <1>6. call' = [call EXCEPT ![c] = n]
    BY <1>3, <1>4, <1>5 DEF Begin, Become
  <1>7. /\ n.tool = tool /\ n.todo = q /\ n.at = "enter" /\ n.hits = 0 /\ n.ans = "none"
        /\ n.tries = 0 /\ n.calm = b /\ n.saw = 0
    BY <1>5 DEF Idle
  <1>8. n \in CallType
    <2>1. Idle \in CallType
      BY DEF Idle, CallType, Todos, Places
    <2>2. tool \in DOMAIN Steps \cup {"none"} /\ q \in Todos /\ "enter" \in Places
      BY <1>1, <1>4 DEF Todos, Places
    <2> QED BY <1>5, <2>1, <2>2 DEF CallType
  <1>9. Placed(plat, n)
    BY <1>1, <1>4, <1>7 DEF Placed, IosAt, AdbAt
  <1>10. tool = "tap_and_verify" => q # <<"find">>
    BY <1>4, OneOrTwo DEF Steps
  <1>11. Landed(plat, n)
    BY <1>7, <1>10 DEF Landed, Ahead, IosAt
  <1>12. call[c].at = "idle"
    BY DEF Begin, Busy, At
  <1> QED BY <1>1, <1>2, <1>6, <1>7, <1>8, <1>9, <1>11, <1>12 DEF Sound, Begin
-----------------------------------------------------------------------------
(* Every step keeps the types and the shape of the calls.                   *)
LEMMA OneCall ==
    ASSUME TypeOK, Calls, NEW c \in Clients, NEW n \in CallType, Sound(plat, n),
           call' = [call EXCEPT ![c] = n], plat' = plat
    PROVE  /\ call' \in [Clients -> CallType] /\ Calls'
           /\ call'[c] = n /\ \A d \in Clients \ {c} : call'[d] = call[d]
  <1>1. call \in [Clients -> CallType]
    BY DEF TypeOK
  <1>2. call'[c] = n /\ \A d \in Clients \ {c} : call'[d] = call[d]
    BY <1>1
  <1>3. call' \in [Clients -> CallType]
    BY <1>1
  <1>4. \A d \in Clients : Sound(plat', call'[d])
    BY <1>2 DEF Calls
  <1> QED BY <1>2, <1>3, <1>4 DEF Calls

LEMMA DriverOneCall ==
    ASSUME TypeOK, Calls, NEW c \in Clients, NEW n, DriverStep(c, call[c], n)
    PROVE  /\ call' \in [Clients -> CallType] /\ Calls'
           /\ call'[c] = n /\ \A d \in Clients \ {c} : call'[d] = call[d]
           /\ n \in CallType /\ UNCHANGED front /\ screen' \in Nat
  <1>1. /\ n \in CallType /\ call' = [call EXCEPT ![c] = n] /\ Sound(plat, n) /\ UNCHANGED front
        /\ screen' \in {screen, screen + 1}
    BY DEF DriverStep, Still, Strikes, Reads
  <1>2. plat' = plat
    BY <1>1 DEF front
  <1>3. screen' \in Nat
    BY <1>1 DEF TypeOK
  <1> QED BY <1>1, <1>2, <1>3, OneCall

LEMMA EnterCalls ==
    ASSUME TypeOK, Calls, NEW c \in Clients, Enter(c)
    PROVE  call' \in [Clients -> CallType] /\ Calls'
  <1>1. PICK n : Enters(c, call[c], n) /\ Rivals(c, n) /\ call'[c] = n
    BY EnterEffect
  <1>2. DOMAIN call' = Clients /\ call' = [d \in DOMAIN call' |-> call'[d]]
    BY DEF Enter, Become, SwitchBegins, TypeOK
  <1>3. plat' = plat
    BY DEF Enter
  <1>4. \A d \in Clients : call'[d] \in CallType /\ Sound(plat, call'[d])
    <2>1. TAKE d \in Clients
    <2>2. CASE d = c
      BY <1>1, <2>2 DEF Enters
    <2>3. CASE d # c /\ call'[d] = call[d]
      BY <2>3 DEF Calls, TypeOK
    <2>4. CASE d # c /\ Fields(call[d], call'[d])
      <3>1. Sound(plat, call[d])
        BY DEF Calls
      <3>2. PICK k, m : k = call[d] /\ m = call'[d]
        OBVIOUS
      <3>3. Fields(k, m) /\ Sound(plat, k)
        BY <2>4, <3>1, <3>2
      <3>4. m \in CallType /\ Sound(plat, m)
        BY <3>3 DEF Fields, Sound, Placed, Landed, Ahead
      <3> QED BY <3>2, <3>4
    <2> QED BY <1>1, <2>2, <2>3, <2>4 DEF Rivals
  <1> QED BY <1>2, <1>3, <1>4 DEF Calls

LEMMA DisturbedCalls ==
    ASSUME TypeOK, Calls, call' = Disturbed, plat' = plat
    PROVE  /\ call' \in [Clients -> CallType] /\ Calls'
           /\ \A c \in Clients : /\ Fields(call[c], call'[c]) /\ call'[c].raced = call[c].raced
                                 /\ call'[c].calm <=> call[c].calm /\ ~Busy(c)
  <1>1. \A c \in Clients : /\ Fields(call[c], call'[c]) /\ call'[c].raced = call[c].raced
                           /\ call'[c].calm <=> call[c].calm /\ ~Busy(c)
    <2>1. TAKE c \in Clients
    <2>2. PICK k : k = call[c]
      OBVIOUS
    <2>3. PICK b \in BOOLEAN : b <=> k.calm /\ ~Busy(c)
      OBVIOUS
    <2>4. k \in CallType
      BY <2>2 DEF TypeOK
    <2>5. b = (k.calm /\ ~Busy(c))
      BY <2>3, <2>4 DEF CallType
    <2>6. call'[c] = [k EXCEPT !.calm = b]
      BY <2>2, <2>5 DEF Disturbed
    <2>7. PICK m : m = [k EXCEPT !.calm = b]
      OBVIOUS
    <2>8. Fields(k, m) /\ m.raced = k.raced /\ m.calm = b
      BY <2>3, <2>4, <2>7 DEF Fields, CallType
    <2> QED BY <2>2, <2>3, <2>6, <2>7, <2>8
  <1>2. DOMAIN call' = Clients /\ call' = [d \in DOMAIN call' |-> call'[d]]
    BY DEF Disturbed
  <1>3. \A d \in Clients : call'[d] \in CallType /\ Sound(plat, call'[d])
    <2>1. TAKE d \in Clients
    <2>2. PICK k, m : k = call[d] /\ m = call'[d]
      OBVIOUS
    <2>3. Fields(k, m) /\ Sound(plat, k)
      BY <1>1, <2>2 DEF Calls
    <2>4. m \in CallType /\ Sound(plat, m)
      BY <2>3 DEF Fields, Sound, Placed, Landed, Ahead
    <2> QED BY <2>2, <2>4
  <1> QED BY <1>1, <1>2, <1>3 DEF Calls

LEMMA TypeStep == TypeOK /\ Calls /\ [Next]_vars => TypeOK' /\ Calls'
  <1> SUFFICES ASSUME TypeOK, Calls, [Next]_vars PROVE TypeOK' /\ Calls'
    OBVIOUS
  <1>1. ASSUME NEW c \in Clients, NEW tool \in Tools, Begin(c, tool) PROVE TypeOK' /\ Calls'
    <2>1. PICK n \in CallType : call' = [call EXCEPT ![c] = n] /\ Sound(plat, n)
      BY <1>1, BeginEffect
    <2>2. UNCHANGED <<screen, wda, android, front>>
      BY <1>1 DEF Begin
    <2>3. call' \in [Clients -> CallType] /\ Calls'
      BY <2>1, <2>2, OneCall DEF front
    <2> QED BY <2>2, <2>3 DEF TypeOK, wda, server, factory, android, front
  <1>2. ASSUME NEW c \in Clients, Enter(c) PROVE TypeOK' /\ Calls'
    <2>1. call' \in [Clients -> CallType] /\ Calls'
      BY <1>2, EnterCalls
    <2>2. UNCHANGED <<screen, wda, maker, helper, plat, known, own>>
      BY <1>2 DEF Enter
    <2>3. cache' \in {cache, NoDump}
      BY <1>2 DEF Enter, Invalidate
    <2>4. cache' \in [age : Nat, ver : Nat, raced : BOOLEAN]
      <3>1. NoDump \in [age : Nat, ver : Nat, raced : BOOLEAN]
        BY DEF NoDump
      <3>2. cache \in [age : Nat, ver : Nat, raced : BOOLEAN]
        BY DEF TypeOK
      <3> QED BY <2>3, <3>1, <3>2
    <2>5. quiet' \in {"yes", "no", "moving", "mixed"}
      BY <1>2 DEF Enter, SwitchBegins, TypeOK
    <2>6. anew' \subseteq {"uiautomator", "uiautomator.test"}
      BY <1>2 DEF Enter, SwitchBegins, TypeOK
    <2> QED BY <2>1, <2>2, <2>4, <2>5, <2>6 DEF TypeOK, wda, server, factory
  <1>3. ASSUME NEW c \in Clients, Leave(c) PROVE TypeOK' /\ Calls'
    <2>1. PICK n \in CallType : call' = [call EXCEPT ![c] = n] /\ Sound(plat, n)
      BY <1>3, LeaveEffect
    <2>2. UNCHANGED <<screen, wda, android, plat, known>>
      BY <1>3 DEF Leave
    <2>3. call' \in [Clients -> CallType] /\ Calls'
      BY <2>1, <2>2, OneCall
    <2>4. call[c].saw \in Nat /\ call[c].raced \in BOOLEAN
      BY DEF TypeOK, CallType
    <2>5. cache' \in [age : Nat, ver : Nat, raced : BOOLEAN]
      BY <1>3, <2>4 DEF Leave, Stored, TypeOK
    <2>6. own' \in [Clients -> Nat]
      BY <1>3, <2>4 DEF Leave, TypeOK
    <2> QED BY <2>2, <2>3, <2>5, <2>6 DEF TypeOK, wda, server, factory, android
  <1>4. ASSUME NEW c \in Clients, WdaStep(c), UNCHANGED <<calls, android, front>>
        PROVE  TypeOK' /\ Calls'
    <2>1. PICK n : DriverStep(c, call[c], n)
      BY <1>4, WdaEffect
    <2>2. call' \in [Clients -> CallType] /\ Calls' /\ screen' \in Nat
      BY <2>1, DriverOneCall
    <2>3. call[c].sess \in Nat
      BY DEF TypeOK, CallType
    <2>4. /\ session' \in Nat /\ lock' \in Clients \cup {Nobody}
          /\ simCache' \in {"unread", "yes", "no"} /\ UNCHANGED server
      BY <1>4, <2>3 DEF WdaStep, Get, Connect, Settle, Send, Recover, Drop, Release, Known,
                        TypeOK, wda, factory
    <2> QED BY <1>4, <2>2, <2>4 DEF TypeOK, server, android, front
  <1>5. ASSUME NEW c \in Clients, AndroidStep(c), UNCHANGED <<calls, wda, front>>
        PROVE  TypeOK' /\ Calls'
    <2>1. PICK n : \/ AtOnce(c, call[c], n) /\ UNCHANGED <<helper, quiet, anew>>
                   \/ Packs(c, call[c], n)
      BY <1>5, AndroidEffect
    <2>2. DriverStep(c, call[c], n)
      BY <2>1 DEF AtOnce, Packs
    <2>3. call' \in [Clients -> CallType] /\ Calls' /\ screen' \in Nat
      BY <2>2, DriverOneCall
    <2>4. quiet' \in {"yes", "no", "moving", "mixed"}
      BY <2>1 DEF Packs, Passes, TypeOK
    <2>5. helper' \in [{"uiautomator", "uiautomator.test"} -> {"enabled", "disabled", "absent"}]
      <3>1. To(call[c].tool) \in {"enabled", "disabled"}
        BY DEF To
      <3> QED BY <2>1, <3>1 DEF Packs, TypeOK
    <2>6. anew' = anew
      BY <2>1 DEF Packs
    <2> QED BY <1>5, <2>3, <2>4, <2>5, <2>6 DEF TypeOK, wda, server, factory, front
  <1>10. ASSUME NEW c \in Clients, Install(c), UNCHANGED <<calls, wda, front>>
         PROVE  TypeOK' /\ Calls'
    <2>1. PICK pkg \in DOMAIN helper : /\ helper' = [helper EXCEPT ![pkg] = "enabled"]
                                       /\ anew' = anew \cup {pkg}
      BY <1>10 DEF Install
    <2>2. DOMAIN helper = {"uiautomator", "uiautomator.test"}
      BY DEF TypeOK
    <2>3. /\ helper' \in [{"uiautomator", "uiautomator.test"} -> {"enabled", "disabled", "absent"}]
          /\ anew' \subseteq {"uiautomator", "uiautomator.test"}
      BY <2>1, <2>2 DEF TypeOK
    <2> QED BY <1>10, <2>3 DEF Install, TypeOK, Calls, wda, server, factory, front
  <1>6. ASSUME ListDevices PROVE TypeOK' /\ Calls'
    BY <1>6 DEF ListDevices, TypeOK, Calls, wda, server, factory, android
  <1>7. ASSUME Tick PROVE TypeOK' /\ Calls'
    <2>1. cache' \in [age : Nat, ver : Nat, raced : BOOLEAN]
      BY <1>7 DEF Tick, TypeOK
    <2> QED BY <1>7, <2>1 DEF Tick, TypeOK, Calls, wda, server, factory, android
  <1>8. ASSUME Surroundings PROVE TypeOK' /\ Calls'
    <2>1. call' \in [Clients -> CallType] /\ Calls'
      BY <1>8, DisturbedCalls DEF Surroundings, front
    <2>2. UNCHANGED <<screen, factory, android, front>>
      BY <1>8 DEF Surroundings
    <2>3. epoch' \in Nat /\ serving' \in BOOLEAN /\ booted' \in BOOLEAN
      <3>1. /\ epoch' \in {epoch, epoch + 1}
            /\ serving' = serving \/ serving' = TRUE \/ serving' = FALSE
            /\ booted' = booted \/ booted' = TRUE
        BY <1>8 DEF Surroundings, WdaStops, WdaStarts, SimBoots
      <3>2. epoch \in Nat /\ serving \in BOOLEAN /\ booted \in BOOLEAN
        BY DEF TypeOK
      <3>3. epoch' \in Nat
        BY <3>1, <3>2
      <3>4. serving' \in BOOLEAN /\ booted' \in BOOLEAN
        BY <3>1, <3>2
      <3> QED BY <3>3, <3>4
    <2> QED BY <2>1, <2>2, <2>3 DEF TypeOK, factory, android, front
  <1>9. CASE UNCHANGED vars
    BY <1>9 DEF vars, TypeOK, Calls, wda, server, factory, android, front
  <1> QED BY <1>1, <1>2, <1>3, <1>4, <1>5, <1>6, <1>7, <1>8, <1>9, <1>10 DEF Next, Step
-----------------------------------------------------------------------------
(* The switching of the helper.                                             *)
LEMMA MovingTool ==
    ASSUME Calls, NEW c \in Clients, Moving(c)
    PROVE  call[c].tool \in {"pause", "resume"} /\ Busy(c)
  <1>1. PICK k : k = call[c]
    OBVIOUS
  <1>2. Placed(plat, k) /\ k.at \in {"package", "switch"}
    BY <1>1 DEF Calls, Sound, Moving
  <1>3. k.tool \in DOMAIN Steps /\ k.todo \in Rest[k.tool] /\ Head(k.todo) \in {"pause", "resume"}
    BY <1>2 DEF Placed
  <1>4. k.tool \in {"pause", "resume"}
    BY <1>3, HeadAndTail
  <1> QED BY <1>1, <1>2, <1>4 DEF Busy, At

LEMMA SwitchesStill ==
    ASSUME Switches, PauseResume, UNCHANGED <<helper, quiet, anew>>,
           \A d \in Clients : /\ Moving(d)' <=> Moving(d)
                              /\ Moving(d) => /\ call'[d].tool = call[d].tool
                                              /\ call'[d].nth = call[d].nth
    PROVE  Switches' /\ PauseResume'
  <1>1. PauseResume'
    BY DEF PauseResume
  <1>2. Switches'
    BY DEF Switches, Off, On
  <1> QED BY <1>1, <1>2

(* What the listing of the packages says of one of them.                    *)
LEMMA StatusTells ==
    ASSUME TypeOK
    PROVE  /\ \A p \in {"uiautomator", "uiautomator.test"} :
                Status(p) # "enabled" => helper[p] # "enabled"
           /\ Status("uiautomator.test") # "disabled" => helper["uiautomator.test"] # "disabled"
           /\ Status("uiautomator") # "disabled" /\ (\A p \in DOMAIN helper : Off(p))
                => On("uiautomator")
  <1>1. /\ DOMAIN helper = {"uiautomator", "uiautomator.test"}
        /\ \A p \in DOMAIN helper : helper[p] \in {"enabled", "disabled", "absent"}
    BY DEF TypeOK
  <1>2. ASSUME NEW p \in {"uiautomator", "uiautomator.test"}, Status(p) # "enabled"
        PROVE  helper[p] # "enabled"
    BY <1>1, <1>2 DEF Status, Lists
  <1>3. Status("uiautomator.test") # "disabled" => helper["uiautomator.test"] # "disabled"
    BY <1>1 DEF Status, Lists
  <1>4. ASSUME Status("uiautomator") # "disabled", \A p \in DOMAIN helper : Off(p)
        PROVE  On("uiautomator")
    <2>1. CASE helper["uiautomator"] = "disabled"
      <3>1. Lists("uiautomator", {"enabled", "disabled"})
        BY <2>1 DEF Lists
      <3>2. Lists("uiautomator", {"enabled"})
        BY <1>4, <3>1 DEF Status
      <3>3. helper["uiautomator.test"] = "enabled"
        BY <2>1, <3>2 DEF Lists
      <3> QED BY <1>1, <1>4, <3>3 DEF On, Off
    <2> QED BY <2>1 DEF On
  <1> QED BY <1>2, <1>3, <1>4

LEMMA PacksStep ==
    ASSUME TypeOK, Calls, Switches, PauseResume, NEW c \in Clients, NEW n, Packs(c, call[c], n)
    PROVE  Switches' /\ PauseResume'
  <1>1. PICK k : k = call[c]
    OBVIOUS
  <1>2. /\ DriverStep(c, k, n) /\ Packs(c, k, n) /\ k \in CallType
        /\ n.tool = k.tool /\ k.tool \in {"pause", "resume"}
    BY <1>1 DEF Packs, DriverStep, TypeOK
  <1>3. call'[c] = n /\ \A d \in Clients \ {c} : call'[d] = call[d]
    BY <1>1, <1>2, DriverOneCall
  <1>4. CASE quiet' = "mixed"
    BY <1>4 DEF Switches, PauseResume
  <1>5. CASE k.at = "package" /\ n.at = "switch" /\ n.nth = k.nth /\ UNCHANGED <<quiet, helper>>
    <2>1. anew' = anew
      BY <1>2 DEF Packs
    <2> QED BY <1>1, <1>2, <1>3, <1>5, <2>1, SwitchesStill DEF Moving
  <1>6. CASE /\ quiet' # "mixed" /\ k.at \in {"package", "switch"} /\ Passes(c, k, n)
             /\ \/ Status(Package(c)) # From(k.tool) /\ helper' = helper
                \/ helper' = [helper EXCEPT ![Package(c)] = To(k.tool)]
    <2>1. quiet = "moving"
      <3>1. Moving(c) /\ quiet # "mixed"
        BY <1>1, <1>6 DEF Moving, Passes
      <3> QED BY <3>1 DEF Switches, TypeOK
    <2>2. /\ \A d \in Clients : Moving(d) => d = c
          /\ IF k.tool = "pause"
             THEN k.nth = 2 => Off("uiautomator")
             ELSE IF k.nth = 2 THEN On("uiautomator")
                  ELSE \/ \A p \in DOMAIN helper : Off(p)
                       \/ \A p \in DOMAIN helper : On(p)
      <3>1. Moving(c)
        BY <1>1, <1>6 DEF Moving
      <3> QED BY <1>1, <2>1, <3>1 DEF Switches
    <2>3. /\ DOMAIN helper = {"uiautomator", "uiautomator.test"}
          /\ DOMAIN helper' = {"uiautomator", "uiautomator.test"}
          /\ k.nth = 1 => Package(c) = "uiautomator"
          /\ k.nth = 2 => Package(c) = "uiautomator.test"
          /\ k.nth \in {1, 2}
      BY <1>1, <1>2, <1>6 DEF Package, Packages, TypeOK, CallType
    <2>8. anew' = anew
      BY <1>2 DEF Packs
    <2>4. k.tool = "pause" => /\ k.nth = 1 => Off("uiautomator")'
                              /\ k.nth = 2 => Off("uiautomator")' /\ Off("uiautomator.test")'
      <3>1. k.tool = "pause" => helper'[Package(c)] # "enabled"
        BY <1>6, <2>3, StatusTells DEF From, To
      <3>2. k.nth = 2 => helper'["uiautomator"] = helper["uiautomator"]
        BY <1>6, <2>3
      <3> QED BY <2>2, <2>3, <2>8, <3>1, <3>2 DEF Off
    <2>5. k.tool = "resume" => /\ k.nth = 1 => On("uiautomator")'
                               /\ k.nth = 2 => On("uiautomator")' /\ On("uiautomator.test")'
      <3>1. k.tool = "resume" /\ k.nth = 2 => helper'["uiautomator.test"] # "disabled"
        BY <1>6, <2>3, StatusTells DEF From, To
      <3>2. k.nth = 2 => helper'["uiautomator"] = helper["uiautomator"]
        BY <1>6, <2>3
      <3>3. k.tool = "resume" /\ k.nth = 1 => On("uiautomator")'
        <4>1. CASE helper' = [helper EXCEPT !["uiautomator"] = "enabled"]
          BY <2>3, <4>1 DEF On
        <4>2. CASE Status("uiautomator") # "disabled" /\ helper' = helper
          BY <2>2, <2>3, <2>8, <4>2, StatusTells DEF On
        <4> QED BY <1>6, <2>3, <4>1, <4>2 DEF From, To
      <3> QED BY <2>2, <2>3, <2>8, <3>1, <3>2, <3>3 DEF On
    <2>6. CASE k.nth = 2
      <3>1. \A d \in Clients : ~Moving(d)'
        BY <1>3, <1>6, <2>2, <2>6 DEF Passes, Moving
      <3>2. quiet' = IF k.tool = "pause" THEN "yes" ELSE "no"
        BY <1>6, <2>1, <2>6 DEF Passes
      <3>3. Switches'
        BY <3>1, <3>2 DEF Switches
      <3>4. PauseResume'
        BY <1>2, <2>3, <2>4, <2>5, <2>6, <3>2 DEF PauseResume, Off, On
      <3> QED BY <3>3, <3>4
    <2>7. CASE k.nth = 1
      <3>1. quiet' = "moving" /\ n.at = "package" /\ n.nth = 2
        BY <1>6, <2>1, <2>7 DEF Passes
      <3>2. Moving(c)' /\ \A d \in Clients : Moving(d)' => d = c
        BY <1>3, <2>2, <3>1 DEF Moving
      <3>3. IF n.tool = "pause" THEN Off("uiautomator")' ELSE On("uiautomator")'
        BY <1>2, <2>3, <2>4, <2>5, <2>7
      <3>4. Switches'
        BY <1>3, <3>1, <3>2, <3>3 DEF Switches
      <3> QED BY <3>1, <3>4 DEF PauseResume
    <2> QED BY <2>3, <2>6, <2>7
  <1> QED BY <1>2, <1>4, <1>5, <1>6 DEF Packs

(* The first switch of a pause or a resume that nothing runs beside.        *)
LEMMA SwitchBeginsStep ==
    ASSUME TypeOK, Calls, Switches, PauseResume, NEW c \in Clients, NEW n,
           SwitchBegins(c), Op(c) = call[c].tool,
           call[c].at = "enter", call'[c] = n, n.tool = call[c].tool,
           n.tool \in {"pause", "resume"}, n.at = "package", n.nth = 1,
           \A d \in Clients \ {c} : call'[d] = call[d], helper' = helper
    PROVE  Switches' /\ PauseResume'
  <1>1. CASE quiet' = "mixed"
    BY <1>1 DEF Switches, PauseResume
  <1>2. CASE quiet' # "mixed"
    <2>1. /\ Switching = {c} /\ quiet' = "moving"
          /\ Op(c) = "pause" \/ (quiet # "mixed" /\ anew' = anew)
      BY <1>2 DEF SwitchBegins
    <2>2. \A d \in Clients : ~Moving(d)
      <3>1. \A d \in Clients : Moving(d) => d \in Switching
        BY MovingTool DEF Switching
      <3>2. ~Moving(c)
        BY DEF Moving
      <3> QED BY <2>1, <3>1, <3>2
    <2>3. n.tool = "resume" => quiet \in {"yes", "no"} /\ anew' = anew
      BY <2>1, <2>2 DEF Switches, TypeOK
    <2>4. n.tool = "resume" => \/ \A p \in DOMAIN helper : Off(p)'
                              \/ \A p \in DOMAIN helper : On(p)'
      BY <2>3 DEF PauseResume, Off, On
    <2>5. Moving(c)' /\ \A d \in Clients : Moving(d)' => d = c
      BY <2>2 DEF Moving
    <2>6. Switches'
      BY <2>1, <2>4, <2>5 DEF Switches
    <2> QED BY <2>1, <2>6 DEF PauseResume
  <1> QED BY <1>1, <1>2

(* uiautomator2 installs a package.                                         *)
LEMMA InstallStep ==
    ASSUME TypeOK, Switches, PauseResume, NEW c \in Clients, Install(c)
    PROVE  Switches' /\ PauseResume'
  <1>1. PICK pkg \in DOMAIN helper : /\ helper[pkg] = "absent" /\ anew' = anew \cup {pkg}
                                     /\ helper' = [helper EXCEPT ![pkg] = "enabled"]
    BY DEF Install
  <1>2. /\ DOMAIN helper = {"uiautomator", "uiautomator.test"} /\ DOMAIN helper' = DOMAIN helper
        /\ UNCHANGED <<call, quiet>>
    BY <1>1 DEF Install, TypeOK
  <1>3. \A p \in DOMAIN helper : (Off(p) => Off(p)') /\ (On(p) => On(p)')
    BY <1>1, <1>2 DEF Off, On
  <1>4. Switches'
    BY <1>2, <1>3 DEF Switches, Moving
  <1>5. PauseResume'
    BY <1>2, <1>3 DEF PauseResume, Off, On
  <1> QED BY <1>4, <1>5

LEMMA SwitchStep ==
    TypeOK /\ Calls /\ Switches /\ PauseResume /\ [Next]_vars => Switches' /\ PauseResume'
  <1> SUFFICES ASSUME TypeOK, Calls, Switches, PauseResume, [Next]_vars
               PROVE  Switches' /\ PauseResume'
    OBVIOUS
  <1>1. ASSUME NEW c \in Clients, NEW tool \in Tools, Begin(c, tool) PROVE Switches' /\ PauseResume'
    <2>1. PICK n \in CallType : /\ call[c].at = "idle" /\ call' = [call EXCEPT ![c] = n]
                                /\ n.at = "enter" /\ Sound(plat, n)
      BY <1>1, BeginEffect
    <2>2. UNCHANGED <<helper, quiet, anew>> /\ plat' = plat
      BY <1>1 DEF Begin, android, front
    <2>3. call'[c] = n /\ \A d \in Clients \ {c} : call'[d] = call[d]
      BY <2>1, <2>2, OneCall
    <2> QED BY <2>1, <2>2, <2>3, SwitchesStill DEF Moving
  <1>2. ASSUME NEW c \in Clients, Enter(c) PROVE Switches' /\ PauseResume'
    <2>1. PICK n : /\ Enters(c, call[c], n) /\ Rivals(c, n) /\ call'[c] = n
                   /\ n.at # "package" => UNCHANGED <<quiet, anew>>
                   /\ n.at = "package" => SwitchBegins(c) /\ n.nth = 1
                                          /\ n.tool \in {"pause", "resume"}
      BY <1>2, EnterEffect
    <2>2. helper' = helper
      BY <1>2 DEF Enter
    <2>3. call[c].at = "enter" /\ n.tool = call[c].tool /\ n.at # "switch"
      BY <2>1 DEF Enters
    <2>4. \A d \in Clients \ {c} : /\ call'[d].at = call[d].at /\ call'[d].tool = call[d].tool
                                   /\ n.at = "package" => call'[d] = call[d]
                                   /\ Moving(d) => call'[d].nth = call[d].nth
      <3>1. TAKE d \in Clients \ {c}
      <3>2. CASE call'[d] = call[d]
        BY <3>2
      <3>3. CASE Fields(call[d], call'[d]) /\ n.at # "package"
        BY <3>3 DEF Fields
      <3>4. n.at = "package" => call'[d] = call[d]
        BY <2>1, <2>3 DEF SwitchBegins, Become, TypeOK
      <3> QED BY <2>1, <3>2, <3>3, <3>4 DEF Rivals
    <2>5. CASE n.at = "package"
      <3>1. Op(c) = call[c].tool
        BY <2>1, <2>3, <2>5, HeadAndTail DEF Calls, Sound, Placed, Op
      <3> QED BY <2>1, <2>2, <2>3, <2>4, <2>5, <3>1, SwitchBeginsStep
    <2>6. CASE n.at # "package"
      <3>1. \A d \in Clients : /\ Moving(d)' <=> Moving(d)
                               /\ Moving(d) => /\ call'[d].tool = call[d].tool
                                               /\ call'[d].nth = call[d].nth
        BY <2>1, <2>3, <2>4, <2>6 DEF Moving
      <3> QED BY <2>1, <2>2, <2>6, <3>1, SwitchesStill
    <2> QED BY <2>5, <2>6
  <1>3. ASSUME NEW c \in Clients, Leave(c) PROVE Switches' /\ PauseResume'
    <2>1. PICK n \in CallType : /\ call[c].at = "reply" /\ call' = [call EXCEPT ![c] = n]
                                /\ Sound(plat, n) /\ n.at \in {"enter", "idle"}
      BY <1>3, LeaveEffect DEF GoesOn, Ends
    <2>2. UNCHANGED <<helper, quiet, anew>> /\ plat' = plat
      BY <1>3 DEF Leave, android
    <2>3. call'[c] = n /\ \A d \in Clients \ {c} : call'[d] = call[d]
      BY <2>1, <2>2, OneCall
    <2> QED BY <2>1, <2>2, <2>3, SwitchesStill DEF Moving
  <1>4. ASSUME NEW c \in Clients, WdaStep(c), UNCHANGED <<calls, android, front>>
        PROVE  Switches' /\ PauseResume'
    <2>1. PICK n : /\ DriverStep(c, call[c], n)
                   /\ call[c].at \in IosAt /\ n.at \in IosAt \cup {"reply"}
      BY <1>4, WdaEffect
    <2>2. UNCHANGED <<helper, quiet, anew>>
      BY <1>4 DEF android
    <2>3. call'[c] = n /\ \A d \in Clients \ {c} : call'[d] = call[d]
      BY <2>1, DriverOneCall
    <2> QED BY <2>1, <2>2, <2>3, SwitchesStill DEF Moving, IosAt
  <1>5. ASSUME NEW c \in Clients, AndroidStep(c), UNCHANGED <<calls, wda, front>>
        PROVE  Switches' /\ PauseResume'
    <2>1. PICK n : \/ AtOnce(c, call[c], n) /\ UNCHANGED <<helper, quiet, anew>>
                   \/ Packs(c, call[c], n)
      BY <1>5, AndroidEffect
    <2>2. CASE AtOnce(c, call[c], n) /\ UNCHANGED <<helper, quiet, anew>>
      <3>1. call'[c] = n /\ \A d \in Clients \ {c} : call'[d] = call[d]
        BY <2>2, DriverOneCall DEF AtOnce
      <3> QED BY <2>2, <3>1, SwitchesStill DEF Moving, AtOnce
    <2> QED BY <2>1, <2>2, PacksStep
  <1>6. CASE ListDevices \/ Tick \/ UNCHANGED vars
    <2>1. UNCHANGED <<call, helper, quiet, anew>>
      BY <1>6 DEF ListDevices, Tick, vars, android
    <2> QED BY <2>1, SwitchesStill DEF Moving
  <1>7. ASSUME Surroundings PROVE Switches' /\ PauseResume'
    <2>1. \A d \in Clients : Fields(call[d], call'[d])
      BY <1>7, DisturbedCalls DEF Surroundings, front
    <2>2. UNCHANGED <<helper, quiet, anew>>
      BY <1>7 DEF Surroundings, android
    <2> QED BY <2>1, <2>2, SwitchesStill DEF Moving, Fields
  <1> QED BY <1>1, <1>2, <1>3, <1>4, <1>5, <1>6, <1>7, InstallStep DEF Next, Step
-----------------------------------------------------------------------------
(* What a dump shows.                                                       *)
LEMMA Flying ==
    ASSUME NEW ops
    PROVE  \A c \in Clients : InFlight(c, ops) <=> Flies(call[c], ops)
  BY DEF InFlight, Flies, Busy, At, Op

(* The dump cache has one tool, which leaves nothing on the screen.         *)
LEMMA DumpTool ==
    ASSUME TypeOK, Calls, NEW c \in Clients, Flies(call[c], {"dump_ui"})
    PROVE  /\ call[c].tool = "dump_ui" /\ call[c].hits = 0
           /\ ~(Len(call[c].todo) > 1) /\ ~Flies(call[c], Acts)
  <1>1. PICK k : k = call[c]
    OBVIOUS
  <1>2. Sound(plat, k) /\ k.at # "idle" /\ Head(k.todo) = "dump_ui"
    BY <1>1 DEF Calls, Flies
  <1>3. k.tool \in DOMAIN Steps /\ k.todo \in Rest[k.tool]
    BY <1>2 DEF Sound, Placed
  <1>4. k.tool = "dump_ui" /\ Len(k.todo) = 1
    BY <1>2, <1>3, HeadAndTail
  <1>5. k.hits = 0
    BY <1>2, <1>4 DEF Sound, Landed, ActingTools
  <1> QED BY <1>1, <1>2, <1>4, <1>5 DEF Flies, Acts

LEMMA DriverShows ==
    ASSUME TypeOK, Calls, Past, NEW c \in Clients, NEW n, DriverStep(c, call[c], n)
    PROVE  /\ Flies(n, Acts) <=> Flies(call[c], Acts)
           /\ Flies(n, {"dump_ui"}) <=> Flies(call[c], {"dump_ui"})
           /\ \A ver, left : Shows(ver, call[c], left) => Shows(ver, n, left)
           /\ n.saw <= screen' /\ screen <= screen'
           /\ Flies(n, {"dump_ui"}) /\ n.at = "reply" /\ n.got # "err"
                => n.saw = screen /\ Shows(screen, n, own[c])
  <1>1. PICK k : k = call[c]
    OBVIOUS
  <1>2. DriverStep(c, k, n) /\ k \in CallType /\ Sound(plat, k) /\ k.saw <= screen /\ own[c] <= screen
    BY <1>1 DEF TypeOK, Calls, Past
  <1>3. /\ k.at \notin {"idle", "enter"} /\ n.at \notin {"idle", "enter"} /\ n \in CallType
        /\ Head(n.todo) = Head(k.todo) \/ {Head(n.todo), Head(k.todo)} \subseteq Acts
        /\ Still(k, n) \/ Strikes(k, n) \/ Reads(k, n)
    BY <1>2 DEF DriverStep
  <1>4. Flies(n, Acts) <=> Flies(k, Acts)
    BY <1>3 DEF Flies
  <1>5. Flies(n, {"dump_ui"}) <=> Flies(k, {"dump_ui"})
    BY <1>3 DEF Flies, Acts
  <1>6. n.saw <= screen' /\ screen <= screen'
    BY <1>2, <1>3 DEF Still, Strikes, Reads, TypeOK, CallType
  <1>7. Flies(k, {"dump_ui"}) => k.hits = 0 /\ ~Flies(k, Acts)
    BY <1>1, DumpTool
  <1>8. ASSUME NEW ver, NEW left, Shows(ver, k, left) PROVE Shows(ver, n, left)
    <2>1. ~Flies(k, Acts) /\ left <= ver /\ (k.hits > 0 => k.saw <= ver)
      BY <1>3, <1>8 DEF Shows
    <2>2. CASE Still(k, n)
      BY <1>4, <2>1, <2>2 DEF Still, Shows
    <2>3. CASE Strikes(k, n)
      BY <1>3, <2>1, <2>3 DEF Strikes, Flies
    <2>4. CASE Reads(k, n)
      <3>1. k.hits = 0 /\ n.hits = 0
        BY <1>3, <1>7, <2>4 DEF Reads, Flies
      <3> QED BY <1>4, <2>1, <3>1 DEF Shows
    <2> QED BY <1>3, <2>2, <2>3, <2>4
  <1>9. ASSUME Flies(n, {"dump_ui"}), n.at = "reply", n.got # "err"
        PROVE  n.saw = screen /\ Shows(screen, n, own[c])
    <2>1. Head(k.todo) = "dump_ui" /\ k.hits = 0 /\ ~Flies(n, Acts)
      BY <1>4, <1>5, <1>7, <1>9 DEF Flies
    <2>2. Reads(k, n)
      BY <1>3, <1>9, <2>1 DEF Still, Strikes, Acts
    <2>3. n.saw = screen /\ n.hits = 0
      BY <2>1, <2>2 DEF Reads
    <2> QED BY <1>2, <2>1, <2>3 DEF Shows
  <1> QED BY <1>1, <1>4, <1>5, <1>6, <1>8, <1>9

LEMMA DriverDumps ==
    ASSUME TypeOK, Calls, Dumps, NeverBeforeOwnAction, NEW c \in Clients, NEW n,
           DriverStep(c, call[c], n)
    PROVE  Dumps' /\ NeverBeforeOwnAction'
  <1>1. /\ Flies(n, Acts) <=> Flies(call[c], Acts)
        /\ Flies(n, {"dump_ui"}) <=> Flies(call[c], {"dump_ui"})
        /\ \A ver, left : Shows(ver, call[c], left) => Shows(ver, n, left)
        /\ n.saw <= screen' /\ screen <= screen'
        /\ Flies(n, {"dump_ui"}) /\ n.at = "reply" /\ n.got # "err"
             => n.saw = screen /\ Shows(screen, n, own[c])
    BY DriverShows DEF Dumps
  <1>2. /\ call'[c] = n /\ \A d \in Clients \ {c} : call'[d] = call[d]
        /\ screen' \in Nat /\ n \in CallType /\ cache' = cache /\ own' = own
    BY DriverOneCall DEF front
  <1>3. n.raced = call[c].raced /\ n.at # "idle"
    BY DEF DriverStep
  <1>4. /\ screen \in Nat /\ cache.ver \in Nat
        /\ \A d \in Clients : call[d].saw \in Nat /\ own[d] \in Nat
        /\ Past /\ CacheShows /\ DumpShows
    BY DEF TypeOK, CallType, Dumps
  <1>5. Past'
    BY <1>1, <1>2, <1>4 DEF Past
  <1>6. \A ver, left : \A e \in Clients : Shows(ver, call[e], left) => Shows(ver, call'[e], left)
    BY <1>1, <1>2
  <1>7. \A e \in Clients : Flies(call'[e], Acts) => Flies(call[e], Acts)
    BY <1>1, <1>2
  <1>8. CacheShows'
    BY <1>2, <1>4, <1>6 DEF CacheShows
  <1>9. ASSUME NEW d \in Clients, NEW e \in Clients,
               Flies(call'[d], {"dump_ui"}), ~call'[d].raced
        PROVE  /\ ~Flies(call'[e], Acts)
               /\ call'[d].at = "reply" /\ call'[d].got # "err"
                    => Shows(call'[d].saw, call'[e], own'[e])
    <2>1. Flies(call[d], {"dump_ui"}) /\ ~call[d].raced
      BY <1>1, <1>2, <1>3, <1>9
    <2>2. ~Flies(call[e], Acts) /\ ~Flies(call'[e], Acts)
      BY <1>4, <1>7, <2>1 DEF DumpShows
    <2>3. CASE d # c
      BY <1>2, <1>4, <1>6, <2>1, <2>2, <2>3 DEF DumpShows
    <2>4. CASE d = c /\ e = c
      BY <1>1, <1>2, <1>9, <2>2, <2>4
    <2>5. CASE d = c /\ e # c
      <3>1. own[e] <= screen /\ call[e].saw <= screen
        BY <1>4 DEF Past
      <3>2. Shows(screen, call[e], own[e])
        BY <2>2, <3>1 DEF Shows
      <3> QED BY <1>1, <1>2, <1>9, <2>2, <2>5, <3>2
    <2> QED BY <2>3, <2>4, <2>5
  <1>10. DumpShows'
    BY <1>9 DEF DumpShows
  <1>11. NeverBeforeOwnAction'
    BY <1>2, <1>3 DEF NeverBeforeOwnAction, Busy, At
  <1> QED BY <1>5, <1>8, <1>10, <1>11 DEF Dumps

(* An action that starts marks the dumps in flight; a dump that starts is   *)
(* marked by the actions in flight.                                         *)
LEMMA EnterDumps ==
    ASSUME TypeOK, Calls, Dumps, NeverBeforeOwnAction, NEW c \in Clients, Enter(c)
    PROVE  Dumps' /\ NeverBeforeOwnAction'
  <1>1. PICK n : Enters(c, call[c], n) /\ Rivals(c, n) /\ call'[c] = n
    BY EnterEffect
  <1>2. PICK k : k = call[c]
    OBVIOUS
  <1>3. /\ k.at = "enter" /\ n.at \notin {"idle", "enter"} /\ n.hits = k.hits
        /\ n.todo = k.todo /\ Op(c) = Head(k.todo) /\ n.tool = k.tool
        /\ n.at = "reply" => n.got = "hit" \/ n.got = "err"
    BY <1>1, <1>2 DEF Enters, Op
  <1>4. screen' = screen /\ own' = own
    BY DEF Enter
  <1>5. /\ screen \in Nat /\ cache.ver \in Nat
        /\ \A d \in Clients : call[d].saw \in Nat /\ own[d] \in Nat
        /\ Past /\ CacheShows /\ DumpShows
    BY DEF TypeOK, CallType, Dumps
  <1>6. CASE /\ Op(c) \in Acts /\ n.saw = k.saw /\ cache' = NoDump
             /\ \A d \in Clients \ {c} : /\ Fields(call[d], call'[d])
                                         /\ InFlight(d, {"dump_ui"}) => call'[d].raced
    <2>1. \A d \in Clients : call'[d].saw = call[d].saw
      BY <1>1, <1>2, <1>6 DEF Fields
    <2>2. Past'
      BY <1>4, <1>5, <1>6, <2>1 DEF Past, NoDump
    <2>3. CacheShows'
      BY <1>6 DEF CacheShows, NoDump
    <2>4. \A d \in Clients : Flies(call'[d], {"dump_ui"}) => call'[d].raced
      <3>1. ~Flies(n, {"dump_ui"})
        BY <1>3, <1>6 DEF Flies, Acts
      <3>2. \A d \in Clients \ {c} : Flies(call'[d], {"dump_ui"}) => InFlight(d, {"dump_ui"})
        BY <1>6, Flying DEF Flies, Fields
      <3> QED BY <1>1, <1>6, <3>1, <3>2
    <2>5. DumpShows'
      BY <2>4 DEF DumpShows
    <2>6. NeverBeforeOwnAction'
      BY <1>1, <1>3, <1>4, <1>6 DEF NeverBeforeOwnAction, Busy, At, Fields
    <2> QED BY <2>2, <2>3, <2>5, <2>6 DEF Dumps
  <1>7. CASE /\ Op(c) \notin Acts /\ cache' = cache
             /\ \A d \in Clients \ {c} : call'[d] = call[d]
             /\ \/ /\ ~(n.at = "reply" /\ n.got = "hit")
                   /\ n.saw = k.saw
                   /\ Op(c) = "dump_ui" => (n.raced <=> \E d \in Clients : InFlight(d, Acts))
                \/ /\ n.at = "reply" /\ n.got = "hit" /\ Op(c) = "dump_ui" /\ cache.ver # 0
                   /\ n.saw = cache.ver /\ n.raced = cache.raced
    <2>1. ~Flies(n, Acts)
      BY <1>3, <1>7 DEF Flies
    <2>2. n.saw <= screen
      BY <1>2, <1>5, <1>7 DEF Past
    <2>3. n.saw = k.saw \/ n.hits = 0
      <3>1. CASE Op(c) = "dump_ui"
        <4>1. Sound(plat, k) /\ k.tool \in DOMAIN Steps /\ k.todo \in Rest[k.tool]
          BY <1>2, <1>3 DEF Calls, Sound, Placed
        <4>2. k.tool = "dump_ui"
          BY <1>3, <3>1, <4>1, HeadAndTail
        <4> QED BY <1>3, <4>1, <4>2 DEF Sound, Landed, ActingTools
      <3> QED BY <1>7, <3>1
    <2>4. \A ver, left : \A e \in Clients : Shows(ver, call[e], left) => Shows(ver, call'[e], left)
      <3>1. \A ver, left : Shows(ver, k, left) => Shows(ver, n, left)
        BY <1>3, <2>1, <2>3 DEF Shows
      <3> QED BY <1>1, <1>2, <1>7, <3>1
    <2>5. Past'
      BY <1>1, <1>4, <1>5, <1>7, <2>2 DEF Past
    <2>6. CacheShows'
      BY <1>4, <1>5, <1>7, <2>4 DEF CacheShows
    <2>7. ASSUME NEW d \in Clients, NEW e \in Clients,
                 Flies(call'[d], {"dump_ui"}), ~call'[d].raced
          PROVE  /\ ~Flies(call'[e], Acts)
                 /\ call'[d].at = "reply" /\ call'[d].got # "err"
                      => Shows(call'[d].saw, call'[e], own'[e])
      <3>1. CASE d # c
        <4>1. /\ ~Flies(call[e], Acts)
              /\ call[d].at = "reply" /\ call[d].got # "err" => Shows(call[d].saw, call[e], own[e])
          BY <1>5, <1>7, <2>7, <3>1 DEF DumpShows
        <4>2. ~Flies(call'[e], Acts)
          BY <1>1, <1>7, <2>1, <4>1
        <4> QED BY <1>4, <1>7, <2>4, <3>1, <4>1, <4>2
      <3>2. CASE d = c /\ ~(n.at = "reply" /\ n.got = "hit")
        <4>1. Op(c) = "dump_ui" /\ ~n.raced
          BY <1>1, <1>3, <2>7, <3>2 DEF Flies
        <4>2. \A f \in Clients : ~Flies(call[f], Acts)
          BY <1>7, <3>2, <4>1, Flying
        <4>3. ~Flies(call'[e], Acts)
          BY <1>1, <1>7, <2>1, <4>2
        <4> QED BY <1>1, <1>3, <3>2, <4>3
      <3>3. CASE d = c /\ n.at = "reply" /\ n.got = "hit"
        <4>1. cache.ver # 0 /\ n.saw = cache.ver /\ ~cache.raced
          BY <1>1, <1>7, <2>7, <3>3
        <4>2. Shows(cache.ver, call[e], own[e])
          BY <1>5, <4>1 DEF CacheShows
        <4>3. Shows(cache.ver, call'[e], own'[e])
          BY <1>4, <2>4, <4>2
        <4> QED BY <1>1, <3>3, <4>1, <4>3 DEF Shows
      <3> QED BY <3>1, <3>2, <3>3
    <2>8. DumpShows'
      BY <2>7 DEF DumpShows
    <2>9. NeverBeforeOwnAction'
      BY <1>1, <1>3, <1>4, <1>7 DEF NeverBeforeOwnAction, Busy, At
    <2> QED BY <2>5, <2>6, <2>8, <2>9 DEF Dumps
  <1> QED BY <1>1, <1>2, <1>6, <1>7 DEF Rivals

(* The answer of a call: its dump is stored, its action is accounted for.   *)
LEMMA LeaveDumps ==
    ASSUME TypeOK, Calls, Dumps, NeverBeforeOwnAction, NEW c \in Clients, Leave(c)
    PROVE  Dumps' /\ NeverBeforeOwnAction'
  <1>1. PICK n \in CallType :
             /\ call[c].at = "reply" /\ call' = [call EXCEPT ![c] = n] /\ Sound(plat, n)
             /\ n.tool = call[c].tool /\ n.raced = call[c].raced
             /\ GoesOn(call[c], n) \/ Ends(call[c], n)
    BY LeaveEffect
  <1>2. PICK k : k = call[c]
    OBVIOUS
  <1>3. /\ UNCHANGED <<screen, plat>>
        /\ cache' = (IF Ttl > 0 /\ Op(c) = "dump_ui" /\ k.got = "ok" THEN Stored(c) ELSE cache)
        /\ own' = (IF call'[c].at = "idle" /\ k.hits > 0 THEN [own EXCEPT ![c] = k.saw] ELSE own)
    BY <1>2 DEF Leave
  <1>4. call'[c] = n /\ \A d \in Clients \ {c} : call'[d] = call[d]
    BY <1>1, <1>3, OneCall
  <1>5. /\ screen \in Nat /\ cache.ver \in Nat /\ k.saw \in Nat /\ k.hits \in Nat
        /\ \A d \in Clients : call[d].saw \in Nat /\ own[d] \in Nat
        /\ Past /\ CacheShows /\ DumpShows /\ k.saw <= screen /\ Op(c) = Head(k.todo)
    BY <1>2 DEF TypeOK, CallType, Dumps, Past, Op
  <1>6. /\ \A d \in Clients \ {c} : own'[d] = own[d]
        /\ own'[c] = own[c] \/ (own'[c] = k.saw /\ n.at = "idle" /\ k.hits > 0)
    BY <1>3, <1>4 DEF TypeOK
  <1>7. /\ n.at \in {"enter", "idle"} /\ n.saw \in {0, k.saw}
        /\ n.at = "enter" => n.hits = k.hits /\ n.saw = k.saw
        /\ n.at = "idle" => n.hits = 0
    BY <1>1, <1>2 DEF GoesOn, Ends
  <1>8. \A ver : \A e \in Clients : Shows(ver, call[e], own[e]) => Shows(ver, call'[e], own'[e])
    <2>1. ASSUME NEW ver, Shows(ver, k, own[c]) PROVE Shows(ver, n, own'[c])
      BY <1>1, <1>2, <1>6, <1>7, <2>1 DEF Shows, Flies
    <2> QED BY <1>2, <1>4, <1>6, <2>1
  <1>9. Flies(k, {"dump_ui"}) <=> Op(c) = "dump_ui"
    BY <1>1, <1>2, <1>5 DEF Flies
  <1>10. \A d \in Clients : Flies(call'[d], {"dump_ui"}) => d # c /\ Flies(call[d], {"dump_ui"})
    BY <1>4, <1>7 DEF Flies
  <1>11. ASSUME cache' = Stored(c), Op(c) = "dump_ui", k.got = "ok"
         PROVE  CacheShows' /\ cache'.ver <= screen
    <2>1. cache'.ver = k.saw /\ cache'.raced = k.raced
      BY <1>2, <1>11 DEF Stored
    <2>2. k.raced \/ \A e \in Clients : Shows(k.saw, call[e], own[e])
      BY <1>1, <1>2, <1>5, <1>9, <1>11 DEF DumpShows
    <2>3. CacheShows'
      BY <1>8, <2>1, <2>2 DEF CacheShows
    <2> QED BY <1>5, <2>1, <2>3
  <1>12. ASSUME cache' = cache PROVE CacheShows' /\ cache'.ver <= screen
    <2>1. CacheShows'
      BY <1>5, <1>8, <1>12 DEF CacheShows
    <2> QED BY <1>5, <1>12, <2>1 DEF Past
  <1>13. CacheShows' /\ cache'.ver <= screen
    BY <1>3, <1>11, <1>12
  <1>14. Past'
    <2>1. \A d \in Clients : call'[d].saw <= screen /\ own'[d] <= screen
      <3>1. n.saw <= screen /\ own'[c] <= screen
        BY <1>5, <1>6, <1>7 DEF Past
      <3> QED BY <1>4, <1>5, <1>6, <3>1 DEF Past
    <2> QED BY <1>3, <1>13, <2>1 DEF Past
  <1>15. DumpShows'
    <2>1. ASSUME NEW d \in Clients, NEW e \in Clients,
                 Flies(call'[d], {"dump_ui"}), ~call'[d].raced
          PROVE  /\ ~Flies(call'[e], Acts)
                 /\ call'[d].at = "reply" /\ call'[d].got # "err"
                      => Shows(call'[d].saw, call'[e], own'[e])
      <3>1. d # c /\ call'[d] = call[d]
        BY <1>4, <1>10, <2>1
      <3>2. /\ ~Flies(call[e], Acts)
            /\ call[d].at = "reply" /\ call[d].got # "err" => Shows(call[d].saw, call[e], own[e])
        BY <1>5, <2>1, <3>1 DEF DumpShows
      <3>3. ~Flies(call'[e], Acts)
        BY <1>4, <1>7, <3>2 DEF Flies
      <3> QED BY <1>8, <3>1, <3>2, <3>3
    <2> QED BY <2>1 DEF DumpShows
  <1>16. ASSUME n.at = "idle", n.tool = "dump_ui", n.ans = "ok", ~n.raced
         PROVE  own'[c] <= n.saw
    <2>1. k.tool = "dump_ui" /\ ~k.raced /\ k.got # "err" /\ n.saw = k.saw
      BY <1>1, <1>2, <1>16 DEF GoesOn, Ends, ActingTools
    <2>2. Op(c) = "dump_ui" /\ k.hits = 0
      <3>1. Sound(plat, k) /\ k.todo \in Rest[k.tool] /\ k.tool \in DOMAIN Steps
        BY <1>1, <1>2 DEF Calls, Sound, Placed
      <3>2. Head(k.todo) = "dump_ui"
        BY <2>1, <3>1, HeadAndTail
      <3> QED BY <1>5, <2>1, <3>1, <3>2 DEF Sound, Landed, ActingTools
    <2>3. Shows(k.saw, k, own[c])
      BY <1>1, <1>2, <1>5, <1>9, <2>1, <2>2 DEF DumpShows
    <2>4. own'[c] = own[c]
      BY <1>5, <1>6, <2>2
    <2> QED BY <2>1, <2>3, <2>4 DEF Shows
  <1>17. NeverBeforeOwnAction'
    <2>1. own'[c] \in Nat /\ n.saw \in Nat
      BY <1>5, <1>6, <1>7
    <2>2. ASSUME NEW d \in Clients, call'[d].at = "idle", call'[d].tool = "dump_ui",
                 call'[d].ans = "ok", call'[d].saw < own'[d]
          PROVE  call'[d].raced
      <3>1. CASE d = c
        BY <1>4, <1>16, <2>1, <2>2, <3>1
      <3>2. CASE d # c
        BY <1>4, <1>6, <2>2, <3>2 DEF NeverBeforeOwnAction, Busy, At
      <3> QED BY <3>1, <3>2
    <2> QED BY <2>2 DEF NeverBeforeOwnAction, Busy, At
  <1> QED BY <1>13, <1>14, <1>15, <1>17 DEF Dumps

LEMMA DumpStep ==
    TypeOK /\ Calls /\ Dumps /\ NeverBeforeOwnAction /\ [Next]_vars
      => Dumps' /\ NeverBeforeOwnAction'
  <1> SUFFICES ASSUME TypeOK, Calls, Dumps, NeverBeforeOwnAction, [Next]_vars
               PROVE  Dumps' /\ NeverBeforeOwnAction'
    OBVIOUS
  <1>0. Past /\ CacheShows /\ DumpShows /\ screen \in Nat
    BY DEF Dumps, TypeOK
  <1>1. ASSUME NEW c \in Clients, NEW tool \in Tools, Begin(c, tool)
        PROVE  Dumps' /\ NeverBeforeOwnAction'
    <2>1. PICK n \in CallType :
               /\ call[c].at = "idle" /\ call' = [call EXCEPT ![c] = n] /\ Sound(plat, n)
               /\ n.at = "enter" /\ n.hits = 0 /\ n.saw = 0
      BY <1>1, BeginEffect
    <2>2. UNCHANGED <<screen, cache, own>> /\ plat' = plat
      BY <1>1 DEF Begin, front
    <2>3. call'[c] = n /\ \A d \in Clients \ {c} : call'[d] = call[d]
      BY <2>1, <2>2, OneCall
    <2>4. Past'
      BY <1>0, <2>1, <2>2, <2>3 DEF Past
    <2>5. \A ver, left : \A e \in Clients : Shows(ver, call[e], left) => Shows(ver, call'[e], left)
      BY <2>1, <2>3 DEF Shows, Flies
    <2>6. \A d \in Clients : /\ Flies(call'[d], {"dump_ui"}) => d # c
                             /\ Flies(call'[d], Acts) => d # c
      BY <2>1, <2>3 DEF Flies
    <2>7. CacheShows' /\ DumpShows'
      BY <1>0, <2>2, <2>3, <2>5, <2>6 DEF CacheShows, DumpShows
    <2>8. NeverBeforeOwnAction'
      BY <2>1, <2>2, <2>3 DEF NeverBeforeOwnAction, Busy, At
    <2> QED BY <2>4, <2>7, <2>8 DEF Dumps
  <1>2. ASSUME NEW c \in Clients, Enter(c) PROVE Dumps' /\ NeverBeforeOwnAction'
    BY <1>2, EnterDumps
  <1>3. ASSUME NEW c \in Clients, Leave(c) PROVE Dumps' /\ NeverBeforeOwnAction'
    BY <1>3, LeaveDumps
  <1>4. ASSUME NEW c \in Clients, WdaStep(c), UNCHANGED <<calls, android, front>>
        PROVE  Dumps' /\ NeverBeforeOwnAction'
    BY <1>4, WdaEffect, DriverDumps
  <1>5. ASSUME NEW c \in Clients, AndroidStep(c), UNCHANGED <<calls, wda, front>>
        PROVE  Dumps' /\ NeverBeforeOwnAction'
    BY <1>5, AndroidEffect, DriverDumps DEF AtOnce, Packs
  <1>6. CASE ListDevices \/ Tick \/ Installs \/ UNCHANGED vars
    <2>1. UNCHANGED <<call, screen, own>> /\ cache'.ver = cache.ver /\ cache'.raced = cache.raced
      BY <1>6 DEF ListDevices, Tick, Installs, Install, vars, front, TypeOK
    <2> QED BY <1>0, <2>1 DEF Dumps, Past, CacheShows, DumpShows, NeverBeforeOwnAction, Busy, At
  <1>7. ASSUME Surroundings PROVE Dumps' /\ NeverBeforeOwnAction'
    <2>1. UNCHANGED <<screen, front>>
      BY <1>7 DEF Surroundings
    <2>2. \A d \in Clients : /\ call'[d].at = call[d].at /\ call'[d].tool = call[d].tool
                             /\ call'[d].todo = call[d].todo /\ call'[d].got = call[d].got
                             /\ call'[d].hits = call[d].hits /\ call'[d].saw = call[d].saw
                             /\ call'[d].ans = call[d].ans /\ call'[d].raced = call[d].raced
      BY <1>7, DisturbedCalls DEF Surroundings, front, Fields
    <2>3. Past'
      BY <1>0, <2>1, <2>2 DEF Past, front
    <2>4. CacheShows' /\ DumpShows'
      BY <1>0, <2>1, <2>2 DEF CacheShows, DumpShows, Shows, Flies, front
    <2>5. NeverBeforeOwnAction'
      BY <2>1, <2>2 DEF NeverBeforeOwnAction, Busy, At, front
    <2> QED BY <2>3, <2>4, <2>5 DEF Dumps
  <1> QED BY <1>1, <1>2, <1>3, <1>4, <1>5, <1>6, <1>7 DEF Next, Step, Installs
-----------------------------------------------------------------------------
(* The WDA sessions.                                                        *)
LEMMA DriverCalm ==
    ASSUME TypeOK, Calls, Premises, SelfHeals, NEW c \in Clients, NEW n,
           DriverStep(c, call[c], n), UNCHANGED server, simCache' \in {simCache, Known}
    PROVE  /\ Premises' /\ SelfHeals'
           /\ \A d \in Clients : Calm(d)' => Calm(d)
           /\ call'[c] = n /\ \A d \in Clients \ {c} : call'[d] = call[d]
           /\ n.tool = call[c].tool /\ call[c].at # "idle" /\ n \in CallType
  <1>1. /\ call'[c] = n /\ \A d \in Clients \ {c} : call'[d] = call[d]
        /\ plat' = plat /\ known' = known /\ n \in CallType
    BY DriverOneCall DEF front
  <1>2. /\ n.tool = call[c].tool /\ (n.calm => call[c].calm)
        /\ n.at # "idle" /\ call[c].at # "idle"
    BY DEF DriverStep
  <1>3. simCache' # "no" => simCache # "no"
    BY DEF Known
  <1>4. \A d \in Clients : Calm(d)' => Calm(d)
    BY <1>1, <1>2, <1>3 DEF Calm
  <1>5. Premises'
    BY <1>1, <1>2, <1>4 DEF Premises, server
  <1>6. SelfHeals'
    BY <1>1, <1>2, <1>3 DEF SelfHeals, Busy, At
  <1> QED BY <1>1, <1>2, <1>4, <1>5, <1>6

LEMMA GetSession ==
    ASSUME TypeOK, Calls, Sessions, SelfHeals, NEW c \in Clients, Get(c), UNCHANGED front
    PROVE  Sessions' /\ SelfHeals'
  <1>1. PICK n : /\ DriverStep(c, call[c], n) /\ n.calm = call[c].calm
                 /\ n.tries = call[c].tries /\ n.at \in {"send", "connect"}
                 /\ n.at = "send" => n.sess = session /\ session # 0 /\ lock' = lock
                 /\ n.at = "connect" => lock' = c
    BY GetEffect DEF Sessions
  <1>2. lock = Nobody /\ UNCHANGED <<server, session, simCache>>
    BY DEF Get
  <1>3. /\ Premises' /\ SelfHeals' /\ \A d \in Clients : Calm(d)' => Calm(d)
        /\ call'[c] = n /\ \A d \in Clients \ {c} : call'[d] = call[d]
        /\ n.tool = call[c].tool
    BY <1>1, <1>2, DriverCalm DEF Sessions
  <1>4. \A d \in Clients : call[d].at \notin {"connect", "settle"}
    BY <1>2, NobodyIsNoClient DEF Sessions, Locked
  <1>5. Locked'
    BY <1>1, <1>3, <1>4 DEF Locked
  <1>6. Taps'
    BY <1>1, <1>2, <1>3, <1>4 DEF Sessions, Taps, server
  <1> QED BY <1>3, <1>5, <1>6 DEF Sessions

LEMMA ConnectSession ==
    ASSUME TypeOK, Calls, Sessions, SelfHeals, NEW c \in Clients, Connect(c), UNCHANGED front
    PROVE  Sessions' /\ SelfHeals'
  <1>1. PICK n : /\ DriverStep(c, call[c], n) /\ n.calm \in {FALSE, call[c].calm}
                 /\ n.tries = call[c].tries
                 /\ \/ n.at = "settle" /\ n.sess = epoch /\ lock' = lock
                    \/ /\ n.at = "reply" /\ lock' = Nobody
                       /\ n.calm => ~(Known = "yes" /\ serving)
    BY ConnectEffect
  <1>2. simCache' = Known /\ UNCHANGED <<server, session>> /\ call[c].at = "connect"
    BY DEF Connect, At
  <1>3. /\ Premises' /\ SelfHeals' /\ \A d \in Clients : Calm(d)' => Calm(d)
        /\ call'[c] = n /\ \A d \in Clients \ {c} : call'[d] = call[d]
        /\ n.tool = call[c].tool
    BY <1>1, <1>2, DriverCalm DEF Sessions
  <1>4. lock = c /\ \A d \in Clients \ {c} : call[d].at \notin {"connect", "settle"}
    BY <1>2 DEF Sessions, Locked
  <1>5. Locked'
    BY <1>1, <1>3, <1>4 DEF Locked
  <1>6. Calm(c)' => n.at = "settle"
    <2>1. ASSUME Calm(c)', n.at = "reply" PROVE FALSE
      <3>1. n.calm /\ Known # "no" /\ Calm(c)
        BY <1>2, <1>3, <2>1 DEF Calm
      <3>2. serving /\ booted
        BY <3>1 DEF Sessions, Premises
      <3>3. Known = "yes"
        BY <3>1, <3>2 DEF Known, TypeOK
      <3> QED BY <1>1, <2>1, <3>1, <3>2, <3>3
    <2> QED BY <1>1, <2>1
  <1>7. Taps'
    BY <1>1, <1>2, <1>3, <1>4, <1>6 DEF Sessions, Taps, server
  <1> QED BY <1>3, <1>5, <1>7 DEF Sessions

LEMMA SettleSession ==
    ASSUME TypeOK, Calls, Sessions, SelfHeals, NEW c \in Clients, Settle(c), UNCHANGED front
    PROVE  Sessions' /\ SelfHeals'
  <1>1. PICK n : /\ DriverStep(c, call[c], n) /\ n.calm = call[c].calm
                 /\ n.tries = call[c].tries /\ n.at = "send" /\ n.sess = call[c].sess
    BY SettleEffect
  <1>2. /\ session' = call[c].sess /\ lock' = Nobody /\ UNCHANGED <<server, simCache>>
        /\ call[c].at = "settle"
    BY DEF Settle, Release, At
  <1>3. /\ Premises' /\ SelfHeals' /\ \A d \in Clients : Calm(d)' => Calm(d)
        /\ call'[c] = n /\ \A d \in Clients \ {c} : call'[d] = call[d]
        /\ n.tool = call[c].tool
    BY <1>1, <1>2, DriverCalm DEF Sessions
  <1>4. \A d \in Clients \ {c} : call[d].at \notin {"connect", "settle"}
    BY <1>2 DEF Sessions, Locked
  <1>5. Locked'
    BY <1>1, <1>3, <1>4 DEF Locked
  <1>6. Taps'
    BY <1>1, <1>2, <1>3, <1>4 DEF Sessions, Taps, server
  <1> QED BY <1>3, <1>5, <1>6 DEF Sessions

LEMMA SendSession ==
    ASSUME TypeOK, Calls, Sessions, SelfHeals, NEW c \in Clients, Send(c), UNCHANGED front
    PROVE  Sessions' /\ SelfHeals'
  <1>1. PICK n : DriverStep(c, call[c], n) /\ SendEnds(c, call[c], n)
    BY SendEffect
  <1>2. UNCHANGED <<server, session, lock, simCache>> /\ call[c].at = "send"
    BY DEF Send, At, wda, factory
  <1>3. /\ Premises' /\ SelfHeals' /\ \A d \in Clients : Calm(d)' => Calm(d)
        /\ call'[c] = n /\ \A d \in Clients \ {c} : call'[d] = call[d]
        /\ n.tool = call[c].tool
    BY <1>1, <1>2, DriverCalm DEF Sessions
  <1>4. Locked'
    BY <1>1, <1>2, <1>3 DEF Sessions, Locked, SendEnds
  <1>5. ASSUME Calm(c)', n.tool = "tap"
        PROVE  /\ n.at = "broken" => n.tries = 0
               /\ n.at = "reply" => n.got # "err"
    <2>1. n.calm /\ Calm(c) /\ serving
      BY <1>3, <1>5 DEF Calm, Sessions, Premises
    <2>2. n.at = "broken" => ~(serving /\ call[c].sess = epoch)
      BY <1>1, <2>1 DEF SendEnds, Alive
    <2>3. call[c].tries = 1 => call[c].sess = epoch
      BY <1>2, <1>3, <1>5, <2>1 DEF Sessions, Taps
    <2>4. n.tries = call[c].tries /\ n.tries \in {0, 1}
      BY <1>1 DEF SendEnds, TypeOK, CallType
    <2> QED BY <1>1, <1>3, <1>5, <2>1, <2>2, <2>3, <2>4 DEF SendEnds
  <1>6. Taps'
    BY <1>1, <1>2, <1>3, <1>5 DEF Sessions, Taps, server, SendEnds
  <1> QED BY <1>3, <1>4, <1>6 DEF Sessions

LEMMA RecoverSession ==
    ASSUME TypeOK, Calls, Sessions, SelfHeals, NEW c \in Clients, Recover(c), UNCHANGED front
    PROVE  Sessions' /\ SelfHeals'
  <1>1. PICK n : /\ DriverStep(c, call[c], n) /\ n.calm = call[c].calm
                 /\ \/ /\ n.at = "reply" /\ n.tries = call[c].tries /\ UNCHANGED session
                       /\ call[c].tool = "tap" => call[c].tries = 1
                    \/ n.at = "get" /\ lock = Nobody /\ session' = 0
    BY RecoverEffect
  <1>2. UNCHANGED <<server, lock, simCache>> /\ call[c].at = "broken"
    BY DEF Recover, At
  <1>3. /\ Premises' /\ SelfHeals' /\ \A d \in Clients : Calm(d)' => Calm(d)
        /\ call'[c] = n /\ \A d \in Clients \ {c} : call'[d] = call[d]
        /\ n.tool = call[c].tool
    BY <1>1, <1>2, DriverCalm DEF Sessions
  <1>4. Locked'
    BY <1>1, <1>2, <1>3 DEF Sessions, Locked
  <1>5. n.at = "get" => \A d \in Clients : call[d].at \notin {"connect", "settle"}
    BY <1>1, NobodyIsNoClient DEF Sessions, Locked
  <1>6. Calm(c)' /\ n.tool = "tap" => n.at = "get"
    <2>1. Calm(c)' /\ n.tool = "tap" => call[c].tries = 0
      BY <1>2, <1>3 DEF Sessions, Taps
    <2> QED BY <1>1, <1>3, <2>1
  <1>7. Taps'
    BY <1>1, <1>2, <1>3, <1>5, <1>6 DEF Sessions, Taps, server
  <1> QED BY <1>3, <1>4, <1>7 DEF Sessions

LEMMA EnterSession ==
    ASSUME TypeOK, Calls, Sessions, SelfHeals, NEW c \in Clients, Enter(c)
    PROVE  Sessions' /\ SelfHeals'
  <1>1. PICK n : Enters(c, call[c], n) /\ Rivals(c, n) /\ call'[c] = n
    BY EnterEffect
  <1>2. UNCHANGED <<epoch, serving, booted, session, lock, simCache, plat, known>>
    BY DEF Enter, wda, server, factory
  <1>3. \A d \in Clients \ {c} :
            /\ call'[d].at = call[d].at /\ call'[d].tool = call[d].tool
            /\ call'[d].sess = call[d].sess /\ call'[d].tries = call[d].tries
            /\ call'[d].got = call[d].got /\ call'[d].ans = call[d].ans
            /\ (call'[d].calm <=> call[d].calm)
    BY <1>1 DEF Rivals, Fields
  <1>4. /\ call[c].at = "enter" /\ n.at \in {"reply", "get", "android", "package"}
        /\ n.tool = call[c].tool /\ n.tries = call[c].tries /\ n.calm = call[c].calm
        /\ n.at = "reply" => n.got = "hit" \/ (n.got = "err" /\ (plat = "web" \/ ~known))
        /\ call[c].tries = 0
    BY <1>1 DEF Enters, Calls, Sound, Placed
  <1>5. \A d \in Clients : Calm(d)' => Calm(d)
    BY <1>1, <1>2, <1>3, <1>4 DEF Calm
  <1>6. Locked'
    BY <1>1, <1>2, <1>3, <1>4 DEF Sessions, Locked
  <1>7. Premises'
    BY <1>1, <1>2, <1>3, <1>4, <1>5 DEF Sessions, Premises
  <1>8. Taps'
    BY <1>1, <1>2, <1>3, <1>4, <1>5 DEF Sessions, Taps, Premises
  <1>9. SelfHeals'
    BY <1>1, <1>2, <1>3, <1>4 DEF SelfHeals, Busy, At
  <1> QED BY <1>6, <1>7, <1>8, <1>9 DEF Sessions

LEMMA LeaveSession ==
    ASSUME TypeOK, Calls, Sessions, SelfHeals, NEW c \in Clients, Leave(c)
    PROVE  Sessions' /\ SelfHeals'
  <1>1. PICK n \in CallType :
             /\ call[c].at = "reply" /\ call' = [call EXCEPT ![c] = n] /\ Sound(plat, n)
             /\ n.tool = call[c].tool /\ n.calm = call[c].calm /\ n.tries = 0
             /\ GoesOn(call[c], n) \/ Ends(call[c], n)
    BY LeaveEffect
  <1>2. UNCHANGED <<epoch, serving, booted, session, lock, simCache, plat, known>>
    BY DEF Leave, wda, server, factory
  <1>3. call'[c] = n /\ \A d \in Clients \ {c} : call'[d] = call[d]
    BY <1>1, <1>2, OneCall
  <1>4. n.at \in {"enter", "idle"}
    BY <1>1 DEF GoesOn, Ends
  <1>5. \A d \in Clients : Calm(d)' => Calm(d)
    BY <1>1, <1>2, <1>3 DEF Calm
  <1>6. Locked'
    BY <1>2, <1>3, <1>4 DEF Sessions, Locked
  <1>7. Premises'
    BY <1>1, <1>2, <1>3, <1>5 DEF Sessions, Premises
  <1>8. Taps'
    BY <1>1, <1>2, <1>3, <1>4, <1>5 DEF Sessions, Taps
  <1>9. ASSUME n.at = "idle", n.tool \in {"tap", "gesture"}, n.calm, simCache # "no"
        PROVE  n.ans = "ok"
    <2>1. Calm(c)
      BY <1>1, <1>9 DEF Calm
    <2>2. n.tool = "tap"
      BY <1>1, <1>9, <2>1 DEF Sessions, Premises
    <2>3. call[c].got # "err"
      BY <1>1, <2>1, <2>2 DEF Sessions, Taps
    <2> QED BY <1>1, <1>9, <2>2, <2>3 DEF GoesOn, Ends
  <1>10. SelfHeals'
    BY <1>2, <1>3, <1>9 DEF SelfHeals, Busy, At
  <1> QED BY <1>6, <1>7, <1>8, <1>10 DEF Sessions

LEMMA AndroidSession ==
    ASSUME TypeOK, Calls, Sessions, SelfHeals, NEW c \in Clients, AndroidStep(c),
           UNCHANGED <<calls, wda, front>>
    PROVE  Sessions' /\ SelfHeals'
  <1>1. PICK n : \/ AtOnce(c, call[c], n) /\ UNCHANGED <<helper, quiet, anew>>
                 \/ Packs(c, call[c], n)
    BY AndroidEffect
  <1>2. DriverStep(c, call[c], n) /\ n.at \notin {"connect", "settle"}
    BY <1>1 DEF AtOnce, Packs, IosAt
  <1>3. UNCHANGED <<server, session, lock, simCache>>
    BY DEF wda, factory
  <1>4. /\ Premises' /\ SelfHeals' /\ \A d \in Clients : Calm(d)' => Calm(d)
        /\ call'[c] = n /\ \A d \in Clients \ {c} : call'[d] = call[d]
        /\ n.tool = call[c].tool /\ call[c].at # "idle"
    BY <1>2, <1>3, DriverCalm DEF Sessions
  <1>5. n.tool = "tap" => ~Calm(c)
    <2>1. call[c].at \in {"android", "package", "switch"} \cup AdbAt
      BY DEF AndroidStep, AskMaker, ChooseTap, TapViaAdb, Click, TapText, Gesture, Look,
             LookAtPackage, Switch, At, AdbAt
    <2>2. Sound(plat, call[c])
      BY DEF Calls
    <2>3. call[c].at \in AdbAt \cup {"android"} => plat = "android"
      BY <1>4, <2>2 DEF Sound, Placed
    <2>4. call[c].at \in {"package", "switch"} => call[c].tool \in {"pause", "resume"}
      BY MovingTool DEF Moving
    <2> QED BY <1>4, <2>1, <2>3, <2>4 DEF Sessions, Premises
  <1>6. Locked'
    BY <1>2, <1>3, <1>4 DEF Sessions, Locked
  <1>7. Taps'
    BY <1>2, <1>3, <1>4, <1>5 DEF Sessions, Taps, server
  <1> QED BY <1>4, <1>6, <1>7 DEF Sessions

LEMMA SessionStep ==
    TypeOK /\ Calls /\ Sessions /\ SelfHeals /\ [Next]_vars => Sessions' /\ SelfHeals'
  <1> SUFFICES ASSUME TypeOK, Calls, Sessions, SelfHeals, [Next]_vars
               PROVE  Sessions' /\ SelfHeals'
    OBVIOUS
  <1>1. ASSUME NEW c \in Clients, NEW tool \in Tools, Begin(c, tool) PROVE Sessions' /\ SelfHeals'
    <2>1. PICK n \in CallType :
               /\ call[c].at = "idle" /\ call' = [call EXCEPT ![c] = n] /\ Sound(plat, n)
               /\ n.tool = tool /\ n.at = "enter" /\ n.tries = 0
               /\ n.calm => plat = "ios" /\ serving /\ known
               /\ tool \in {"pause", "resume", "gesture"} => plat = "android"
      BY <1>1, BeginEffect
    <2>2. UNCHANGED <<epoch, serving, booted, session, lock, simCache, plat, known>>
      BY <1>1 DEF Begin, wda, server, factory, front
    <2>3. call'[c] = n /\ \A d \in Clients \ {c} : call'[d] = call[d]
      BY <2>1, <2>2, OneCall
    <2>4. \A d \in Clients \ {c} : Calm(d)' => Calm(d)
      BY <2>2, <2>3 DEF Calm
    <2>5. Locked'
      BY <2>1, <2>2, <2>3 DEF Sessions, Locked
    <2>6. Premises'
      BY <2>1, <2>2, <2>3, <2>4 DEF Sessions, Premises, Calm
    <2>7. Taps'
      BY <2>1, <2>2, <2>3, <2>4 DEF Sessions, Taps
    <2>8. SelfHeals'
      BY <2>1, <2>2, <2>3 DEF SelfHeals, Busy, At
    <2> QED BY <2>5, <2>6, <2>7, <2>8 DEF Sessions
  <1>2. ASSUME NEW c \in Clients, Enter(c) PROVE Sessions' /\ SelfHeals'
    BY <1>2, EnterSession
  <1>3. ASSUME NEW c \in Clients, Leave(c) PROVE Sessions' /\ SelfHeals'
    BY <1>3, LeaveSession
  <1>4. ASSUME NEW c \in Clients, WdaStep(c), UNCHANGED <<calls, android, front>>
        PROVE  Sessions' /\ SelfHeals'
    BY <1>4, GetSession, ConnectSession, SettleSession, SendSession, RecoverSession DEF WdaStep
  <1>5. ASSUME NEW c \in Clients, AndroidStep(c), UNCHANGED <<calls, wda, front>>
        PROVE  Sessions' /\ SelfHeals'
    BY <1>5, AndroidSession
  <1>6. CASE ListDevices \/ Tick \/ Installs \/ UNCHANGED vars
    <2>1. /\ UNCHANGED <<call, epoch, serving, booted, session, lock, simCache, plat>>
          /\ known' = known \/ known'
      BY <1>6 DEF ListDevices, Tick, Installs, Install, vars, front, wda, server, factory
    <2>2. Locked' /\ Taps' /\ SelfHeals'
      BY <2>1 DEF Sessions, Locked, Taps, SelfHeals, Calm, Busy, At
    <2>3. Premises'
      BY <2>1 DEF Sessions, Premises, Calm
    <2> QED BY <2>2, <2>3 DEF Sessions
  <1>7. ASSUME Surroundings PROVE Sessions' /\ SelfHeals'
    <2>1. UNCHANGED <<session, lock, simCache, plat, known>>
      BY <1>7 DEF Surroundings, factory, front
    <2>2. \A d \in Clients : /\ call'[d].at = call[d].at /\ call'[d].tool = call[d].tool
                             /\ call'[d].ans = call[d].ans
                             /\ call'[d].calm <=> call[d].calm /\ ~Busy(d)
      BY <1>7, DisturbedCalls DEF Surroundings, front, Fields
    <2>3. \A d \in Clients : ~Calm(d)'
      BY <2>2 DEF Calm, Busy, At
    <2>4. plat = "ios" => (serving' => booted')
      BY <1>7 DEF Surroundings, WdaStops, WdaStarts, SimBoots, Sessions, Premises
    <2>5. Locked'
      BY <2>1, <2>2 DEF Sessions, Locked
    <2>6. Premises'
      BY <2>1, <2>2, <2>3, <2>4 DEF Sessions, Premises
    <2>7. Taps'
      BY <2>3 DEF Taps
    <2>8. SelfHeals'
      BY <2>1, <2>2 DEF SelfHeals, Busy, At
    <2> QED BY <2>5, <2>6, <2>7, <2>8 DEF Sessions
  <1> QED BY <1>1, <1>2, <1>3, <1>4, <1>5, <1>6, <1>7 DEF Next, Step, Installs
-----------------------------------------------------------------------------
LEMMA InitTypes == Init => TypeOK /\ Calls
  <1> SUFFICES ASSUME Init PROVE TypeOK /\ Calls
    OBVIOUS
  <1>1. Idle \in CallType /\ \A p : Sound(p, Idle)
    BY DEF Idle, CallType, Todos, Places, Sound, Placed, Landed, Ahead
  <1>2. call \in [Clients -> CallType] /\ Calls
    BY <1>1 DEF Init, Calls
  <1>3. helper \in [{"uiautomator", "uiautomator.test"} -> {"enabled", "disabled", "absent"}]
    BY DEF Init, AndroidInit
  <1>4. NoDump \in [age : Nat, ver : Nat, raced : BOOLEAN]
    BY DEF NoDump
  <1>5. own \in [Clients -> Nat]
    BY DEF Init
  <1> QED BY <1>2, <1>3, <1>4, <1>5 DEF Init, WdaInit, AndroidInit, TypeOK

LEMMA InitInv == Init => IInv
  <1> SUFFICES ASSUME Init PROVE IInv
    OBVIOUS
  <1>1. TypeOK /\ Calls
    BY InitTypes
  <1>2. \A c \in Clients : call[c] = Idle /\ own[c] = 0
    BY DEF Init
  <1>3. Idle.at = "idle" /\ Idle.saw = 0 /\ Idle.tool = "none"
    BY DEF Idle
  <1>4. Switches /\ PauseResume
    BY <1>2, <1>3 DEF Init, AndroidInit, Switches, PauseResume, Moving
  <1>5. Dumps /\ NeverBeforeOwnAction
    <2>1. screen = 1 /\ cache.ver = 0
      BY DEF Init, NoDump
    <2> QED BY <1>2, <1>3, <2>1 DEF Dumps, Past, CacheShows, DumpShows, Flies, NeverBeforeOwnAction
  <1>6. Sessions /\ SelfHeals
    BY <1>2, <1>3 DEF Init, WdaInit, Sessions, Locked, Premises, Taps, Calm, SelfHeals
  <1> QED BY <1>1, <1>4, <1>5, <1>6 DEF IInv

LEMMA Inductive == Spec => []IInv
  <1>1. IInv /\ [Next]_vars => IInv'
    BY TypeStep, SwitchStep, DumpStep, SessionStep DEF IInv
  <1> QED BY InitInv, <1>1, PTL DEF Spec

(* A pause that runs alone leaves no helper package running but one that    *)
(* uiautomator2 installed since, whatever failed before it, and the resume  *)
(* after it none disabled, the case named in PauseResume apart: for any     *)
(* number of clients, calls and faults and whatever a listing's substring   *)
(* match makes of the packages.                                             *)
THEOREM PausesPause == Spec => []PauseResume
  <1>1. IInv => PauseResume
    BY DEF IInv
  <1> QED BY Inductive, <1>1, PTL

(* However many clients there are and whatever the lifetime of the cache,   *)
(* dump_ui shows no client a screen from before its own last action, unless *)
(* the dump was taken while an action was in flight.                        *)
THEOREM OwnActionsShow == Spec => []NeverBeforeOwnAction
  <1>1. IInv => NeverBeforeOwnAction
    BY DEF IInv
  <1> QED BY Inductive, <1>1, PTL

(* However many clients open, drop and replace the WDA session and however  *)
(* often its server was restarted before, a tap under which nothing went    *)
(* wrong succeeds after one retry at most.                                  *)
THEOREM TapsHeal == Spec => []SelfHeals
  <1>1. IInv => SelfHeals
    BY DEF IInv
  <1> QED BY Inductive, <1>1, PTL
-----------------------------------------------------------------------------
(* The promise of UiService: what a step shows of the calls.                *)
LEMMA Deeds ==
    ASSUME NEW p, NEW k, Sound(p, k), k.at # "idle"
    PROVE  IsAct(k.tool) <=> k.tool \in ActingTools
  BY RestOf DEF Sound, Placed

LEMMA Unseen ==
    ASSUME plat' = plat,
           \A d \in Clients : /\ call'[d].at = "idle" <=> call[d].at = "idle"
                              /\ call'[d].tool = call[d].tool /\ call'[d].hits = call[d].hits
                              /\ call'[d].ans = call[d].ans
    PROVE  UNCHANGED Promise!vars
  BY DEF Promise!vars, Busy, At

LEMMA DriverPromise ==
    ASSUME TypeOK, Calls, NEW c \in Clients, NEW n, DriverStep(c, call[c], n)
    PROVE  [Promise!Next]_(Promise!vars)
  <1>1. PICK k : k = call[c]
    OBVIOUS
  <1>2. /\ call'[c] = n /\ \A d \in Clients \ {c} : call'[d] = call[d]
        /\ plat' = plat /\ k \in CallType /\ n \in CallType
    BY <1>1, DriverOneCall DEF front, TypeOK
  <1>3. /\ k.at \notin {"idle", "enter"} /\ n.at \notin {"idle", "enter"}
        /\ n.tool = k.tool /\ n.ans = k.ans /\ Sound(plat, n) /\ Sound(plat, k)
        /\ Still(k, n) \/ Strikes(k, n) \/ Reads(k, n)
    BY <1>1 DEF DriverStep, Calls
  <1>4. CASE Still(k, n) \/ Reads(k, n)
    <2>1. n.hits = k.hits
      BY <1>4 DEF Still, Reads
    <2> QED BY <1>1, <1>2, <1>3, <2>1, Unseen
  <1>5. CASE Strikes(k, n)
    <2>1. n.hits = k.hits + 1 /\ Head(k.todo) \in Acts
      BY <1>5 DEF Strikes
    <2>2. IsAct(k.tool)
      BY <1>3, <2>1, HeadAndTail, Deeds DEF Sound, Placed
    <2>3. k.hits < IF plat = "ios" THEN 2 ELSE 3
      BY <1>2, <1>3, <2>1 DEF Sound, Landed, CallType
    <2>4. \A d \in Clients : /\ call'[d].at = "idle" <=> call[d].at = "idle"
                             /\ call'[d].tool = call[d].tool /\ call'[d].ans = call[d].ans
      BY <1>1, <1>2, <1>3
    <2>5. [d \in Clients |-> call'[d].hits] = [[d \in Clients |-> call[d].hits] EXCEPT ![c] = @ + 1]
      BY <1>1, <1>2, <2>1
    <2>6. Promise!Land(c)
      BY <1>1, <1>2, <1>3, <2>2, <2>3, <2>4, <2>5 DEF Promise!Land, Busy, At
    <2> QED BY <2>6 DEF Promise!Next
  <1> QED BY <1>3, <1>4, <1>5

LEMMA LeavePromise ==
    ASSUME TypeOK, Calls, NEW c \in Clients, Leave(c)
    PROVE  [Promise!Next]_(Promise!vars)
  <1>1. PICK n \in CallType :
             /\ call[c].at = "reply" /\ call' = [call EXCEPT ![c] = n] /\ Sound(plat, n)
             /\ n.tool = call[c].tool
             /\ GoesOn(call[c], n) \/ Ends(call[c], n)
    BY LeaveEffect
  <1>2. PICK k : k = call[c]
    OBVIOUS
  <1>3. plat' = plat
    BY DEF Leave
  <1>4. call'[c] = n /\ \A d \in Clients \ {c} : call'[d] = call[d]
    BY <1>1, <1>3, OneCall
  <1>5. CASE n.at # "idle"
    <2>1. n.hits = k.hits /\ n.ans = k.ans /\ n.tool = k.tool
      BY <1>1, <1>2, <1>5 DEF GoesOn, Ends
    <2> QED BY <1>1, <1>2, <1>3, <1>4, <1>5, <2>1, Unseen
  <1>6. CASE n.at = "idle"
    <2>1. /\ n.hits = 0 /\ n.ans \in {"ok", "err"}
          /\ n.ans = "ok" /\ k.tool \in ActingTools => k.hits > 0
      BY <1>1, <1>2, <1>6 DEF GoesOn, Ends
    <2>2. IsAct(k.tool) <=> k.tool \in ActingTools
      BY <1>1, <1>2, Deeds DEF Calls
    <2>3. /\ [d \in Clients |-> call'[d].hits] = [[d \in Clients |-> call[d].hits] EXCEPT ![c] = 0]
          /\ [d \in Clients |-> call'[d].ans] = [[d \in Clients |-> call[d].ans] EXCEPT ![c] = n.ans]
      BY <1>4, <2>1
    <2>4. [d \in Clients |-> IF ~Busy(d) THEN "none"
                             ELSE IF IsAct(call[d].tool) THEN "act" ELSE "look"]'
            = [[d \in Clients |-> IF ~Busy(d) THEN "none"
                                  ELSE IF IsAct(call[d].tool) THEN "act" ELSE "look"]
                 EXCEPT ![c] = "none"]
      BY <1>4, <1>6 DEF Busy, At
    <2>5. Busy(c)
      BY <1>1 DEF Busy, At
    <2>6. CASE n.ans = "ok"
      <3>1. Promise!Accept(c)
        BY <1>2, <1>3, <2>1, <2>2, <2>3, <2>4, <2>5, <2>6 DEF Promise!Accept
      <3> QED BY <3>1 DEF Promise!Next, Promise!Finish
    <2>7. CASE n.ans = "err"
      <3>1. Promise!Refuse(c)
        BY <1>3, <2>3, <2>4, <2>5, <2>7 DEF Promise!Refuse
      <3> QED BY <3>1 DEF Promise!Next, Promise!Finish
    <2> QED BY <2>1, <2>6, <2>7
  <1> QED BY <1>5, <1>6

LEMMA PromiseStep == IInv /\ [Next]_vars => [Promise!Next]_(Promise!vars)
  <1> SUFFICES ASSUME TypeOK, Calls, [Next]_vars PROVE [Promise!Next]_(Promise!vars)
    BY DEF IInv
  <1>1. ASSUME NEW c \in Clients, NEW tool \in Tools, Begin(c, tool)
        PROVE  [Promise!Next]_(Promise!vars)
    <2>1. PICK n \in CallType :
               /\ call[c].at = "idle" /\ call' = [call EXCEPT ![c] = n] /\ Sound(plat, n)
               /\ n.at = "enter" /\ n.hits = 0 /\ n.ans = "none"
      BY <1>1, BeginEffect
    <2>2. plat' = plat
      BY <1>1 DEF Begin, front
    <2>3. call'[c] = n /\ \A d \in Clients \ {c} : call'[d] = call[d]
      BY <2>1, <2>2, OneCall
    <2>4. call[c].hits = 0
      BY <2>1 DEF Calls, Sound, Landed
    <2>5. PICK w \in {"look", "act"} : w = IF IsAct(n.tool) THEN "act" ELSE "look"
      OBVIOUS
    <2>6. /\ [d \in Clients |-> call'[d].hits] = [d \in Clients |-> call[d].hits]
          /\ [d \in Clients |-> call'[d].ans] = [[d \in Clients |-> call[d].ans] EXCEPT ![c] = "none"]
      <3>1. \A d \in Clients : call'[d].hits = call[d].hits
        BY <2>1, <2>3, <2>4
      <3>2. [d \in Clients |-> call'[d].ans] = [[d \in Clients |-> call[d].ans] EXCEPT ![c] = "none"]
        <4>1. call'[c].ans = "none" /\ \A d \in Clients \ {c} : call'[d].ans = call[d].ans
          BY <2>1, <2>3
        <4> QED BY <4>1
      <3> QED BY <3>1, <3>2
    <2>7. [d \in Clients |-> IF ~Busy(d) THEN "none"
                             ELSE IF IsAct(call[d].tool) THEN "act" ELSE "look"]'
            = [[d \in Clients |-> IF ~Busy(d) THEN "none"
                                  ELSE IF IsAct(call[d].tool) THEN "act" ELSE "look"]
                 EXCEPT ![c] = w]
      BY <2>1, <2>3, <2>5 DEF Busy, At
    <2>8. Promise!Ask(c)
      BY <2>1, <2>2, <2>6, <2>7 DEF Promise!Ask, Busy, At
    <2> QED BY <2>8 DEF Promise!Next
  <1>2. ASSUME NEW c \in Clients, Enter(c) PROVE [Promise!Next]_(Promise!vars)
    <2>1. PICK n : Enters(c, call[c], n) /\ Rivals(c, n) /\ call'[c] = n
      BY <1>2, EnterEffect
    <2>2. plat' = plat
      BY <1>2 DEF Enter
    <2>3. \A d \in Clients : /\ call'[d].at = "idle" <=> call[d].at = "idle"
                             /\ call'[d].tool = call[d].tool /\ call'[d].hits = call[d].hits
                             /\ call'[d].ans = call[d].ans
      BY <2>1 DEF Enters, Rivals, Fields
    <2> QED BY <2>2, <2>3, Unseen
  <1>3. ASSUME NEW c \in Clients, Leave(c) PROVE [Promise!Next]_(Promise!vars)
    BY <1>3, LeavePromise
  <1>4. ASSUME NEW c \in Clients, WdaStep(c), UNCHANGED <<calls, android, front>>
        PROVE  [Promise!Next]_(Promise!vars)
    BY <1>4, WdaEffect, DriverPromise
  <1>5. ASSUME NEW c \in Clients, AndroidStep(c), UNCHANGED <<calls, wda, front>>
        PROVE  [Promise!Next]_(Promise!vars)
    BY <1>5, AndroidEffect, DriverPromise DEF AtOnce, Packs
  <1>6. CASE ListDevices \/ Tick \/ Installs \/ UNCHANGED vars
    <2>1. UNCHANGED <<call, plat>>
      BY <1>6 DEF ListDevices, Tick, Installs, Install, vars, front
    <2> QED BY <2>1, Unseen
  <1>7. ASSUME Surroundings PROVE [Promise!Next]_(Promise!vars)
    <2>1. plat' = plat
      BY <1>7 DEF Surroundings, front
    <2>2. \A d \in Clients : Fields(call[d], call'[d])
      BY <1>7, <2>1, DisturbedCalls DEF Surroundings
    <2> QED BY <2>1, <2>2, Unseen DEF Fields
  <1> QED BY <1>1, <1>2, <1>3, <1>4, <1>5, <1>6, <1>7 DEF Next, Step, Installs

(* The safety half of the promise, for any number of clients, calls and     *)
(* faults: an action lands at most twice on iOS and three times on Android, *)
(* and only while its call is in flight; what is answered ok has landed,    *)
(* and a read never does.                                                   *)
THEOREM PromiseKept == Spec => Promise!Safety
  <1>1. Init => Promise!Init
    <2> SUFFICES ASSUME Init PROVE Promise!Init
      OBVIOUS
    <2>1. \A c \in Clients : /\ call[c].at = "idle" /\ call[c].hits = 0
                             /\ call[c].ans = "none"
      BY DEF Init, Idle
    <2> QED BY <2>1 DEF Promise!Init, Busy, At
  <1> QED BY <1>1, Inductive, PromiseStep, PTL DEF Spec, Promise!Safety
=============================================================================
