------------------------------- MODULE DeviceUi -------------------------------
(***************************************************************************)
(* The whole way of a UI call: the short-lived dump cache                  *)
(* (data/repositories/caching_ui_repository.py), the routing by platform   *)
(* (data/repositories/composite/), the driver of the platform, and back.   *)
(* No task of the server runs between two awaits, so a call goes through   *)
(* cache and routing in one step.                                          *)
(***************************************************************************)
EXTENDS WdaUi, AndroidUi, FiniteSets

CONSTANT Ttl   \* ttl_ms, in ticks; 0 turns the cache off

VARIABLES
    plat,   \* what the serial names: "android", "ios" or "web"
    known,  \* the resolver knows its platform
    cache,  \* the cached dump and its age
    own     \* history: own[c], the screen c's last completed action left

front == <<plat, known, cache, own>>
vars == <<call, screen, faults, calls, wda, android, front>>

NoDump == [age |-> 0, ver |-> 0, raced |-> FALSE]

Init ==
    /\ call = [c \in Clients |-> Idle]
    /\ screen = 1
    /\ calls = [c \in Clients |-> 0]
    /\ WdaInit
    /\ AndroidInit
    /\ plat \in {"android", "ios", "web"}
    /\ faults = IF plat = "android" THEN 0 ELSE 1
    /\ plat = "android" => ~serving /\ ~booted
    /\ plat # "android" => \A p \in DOMAIN helper : helper[p] = "enabled"
    /\ known = FALSE
    /\ cache = NoDump
    /\ own = [c \in Clients |-> 0]
-----------------------------------------------------------------------------
(* Pausing is for Android alone; on iOS every action goes the way of a tap. *)
Begin(c, tool) ==
    /\ Busy(c) = FALSE
    /\ calls[c] < Quota[c]
    /\ calls' = [calls EXCEPT ![c] = @ + 1]
    /\ tool \in {"pause", "resume", "gesture"} => plat = "android"
    /\ Become(c, [Idle EXCEPT !.tool = tool, !.todo = Steps[tool], !.at = "enter",
                              !.calm = plat = "ios" /\ serving /\ known])
    /\ UNCHANGED <<screen, faults, wda, android, front>>

InFlight(d, ops) == Busy(d) /\ ~At(d, "enter") /\ Op(d) \in ops

Fresh == Ttl > 0 /\ cache.ver # 0 /\ cache.age <= Ttl

(* CompositeUiRepository._route: an unknown serial and a web target are     *)
(* refused.                                                                 *)
Routed(c) ==
    IF plat = "web" \/ ~known THEN [call[c] EXCEPT !.at = "reply", !.got = "err"]
    ELSE [call[c] EXCEPT !.at = IF plat = "ios" THEN "get" ELSE "android"]

(* Mutant: an action leaves the cached dump alone. *)
Invalidate_not == UNCHANGED cache

(* Every action empties the cache before it awaits the driver.              *)
Invalidate == cache' = NoDump

(* Reads other than dump_ui pass through.                                   *)
Enter(c) ==
    /\ At(c, "enter")
    /\ \/ /\ Op(c) \in Acts
          /\ Invalidate
          /\ call' = [d \in Clients |->
                        IF d = c THEN Routed(c)
                        ELSE [call[d] EXCEPT !.raced = @ \/ InFlight(d, {"dump_ui"})]]
          /\ UNCHANGED <<quiet, anew>>
       \/ /\ Op(c) = "dump_ui" /\ Fresh
          /\ Become(c, [call[c] EXCEPT !.at = "reply", !.got = "hit", !.saw = cache.ver,
                                       !.raced = cache.raced])
          /\ UNCHANGED <<cache, quiet, anew>>
       \/ /\ Op(c) = "dump_ui" /\ ~Fresh
          /\ Become(c, [Routed(c) EXCEPT !.raced = \E d \in Clients : InFlight(d, Acts)])
          /\ UNCHANGED <<cache, quiet, anew>>
       \/ /\ Op(c) = "find"
          /\ Become(c, Routed(c))
          /\ UNCHANGED <<cache, quiet, anew>>
       \/ Op(c) \in {"pause", "resume"} /\ SwitchBegins(c) /\ UNCHANGED cache
    /\ UNCHANGED <<screen, faults, calls, wda, maker, helper, plat, known, own>>

Stored(c) == [age |-> 0, ver |-> call[c].saw, raced |-> call[c].raced]

(* The driver has answered: a fresh dump is stored, the tool goes on.       *)
Leave(c) ==
    /\ At(c, "reply")
    /\ Conclude(c)
    /\ cache' = IF Ttl > 0 /\ Op(c) = "dump_ui" /\ call[c].got = "ok" THEN Stored(c) ELSE cache
    /\ own' = IF call'[c].at = "idle" /\ call[c].hits > 0
              THEN [own EXCEPT ![c] = call[c].saw] ELSE own
    /\ UNCHANGED <<screen, faults, calls, wda, android, plat, known>>
-----------------------------------------------------------------------------
(* list_devices: the resolver learns the platforms of what is attached.     *)
ListDevices ==
    /\ ~known
    /\ known' = TRUE
    /\ UNCHANGED <<call, screen, faults, calls, wda, android, plat, cache, own>>

(* Time passes; only the age of the cached dump depends on it.              *)
Tick ==
    /\ Fresh
    /\ cache' = [cache EXCEPT !.age = @ + 1]
    /\ UNCHANGED <<call, screen, faults, calls, wda, android, plat, known, own>>

Disturbed == [c \in Clients |-> [call[c] EXCEPT !.calm = @ /\ ~Busy(c)]]

(* What the calls in flight meet when the WDA server moves.                 *)
Surroundings ==
    /\ plat = "ios" /\ (WdaStops \/ WdaStarts \/ SimBoots)
    /\ call' = Disturbed
    /\ UNCHANGED <<screen, faults, calls, factory, android, front>>

Step(c) ==
    \/ Enter(c) \/ Leave(c)
    \/ WdaStep(c) /\ UNCHANGED <<calls, android, front>>
    \/ AndroidStep(c) /\ UNCHANGED <<calls, wda, front>>

Next ==
    \/ \E c \in Clients : Step(c) \/ \E tool \in Tools : Begin(c, tool)
    \/ \E c \in Clients : Install(c) /\ UNCHANGED <<calls, wda, front>>
    \/ ListDevices \/ Tick \/ Surroundings

Spec == Init /\ [][Next]_vars /\ \A c \in Clients : WF_vars(Step(c))
-----------------------------------------------------------------------------
(* What the caller is promised (UiService): an action lands at most twice   *)
(* on iOS, whose driver retries once, and at most three times on Android,   *)
(* where a tap goes over adb, uiautomator2 and adb again; it answers ok     *)
(* only after it landed, a read never lands, and every call is answered.    *)
Promise == INSTANCE UiService WITH
    bound <- IF plat = "ios" THEN 2 ELSE 3,
    want <- [c \in Clients |-> IF ~Busy(c) THEN "none"
                               ELSE IF IsAct(call[c].tool) THEN "act" ELSE "look"],
    landed <- [c \in Clients |-> call[c].hits],
    answer <- [c \in Clients |-> call[c].ans]

KeepsPromise == Promise!Spec

(* No client is shown a screen from before its own last action, unless the  *)
(* dump it is shown was taken while an action was in flight: emptying the   *)
(* cache when an action starts is enough for a client that waits for its    *)
(* answers and is alone on the device.                                      *)
NeverBeforeOwnAction ==
    \A c \in Clients :
        (~Busy(c) /\ call[c].tool = "dump_ui" /\ call[c].ans = "ok" /\ call[c].saw < own[c])
            => call[c].raced

(* An action meets a dead WDA session without its caller noticing: with the *)
(* server up all along and no fault of its own, a tap succeeds, whatever    *)
(* sessions the other calls opened, dropped and left in the cache.  The one *)
(* exception is a simulator that booted after simctl was first asked.       *)
SelfHeals ==
    \A c \in Clients :
        (~Busy(c) /\ call[c].tool \in {"tap", "gesture"} /\ call[c].calm /\ simCache # "no")
            => call[c].ans = "ok"

(* A pause that runs alone leaves no helper running, whatever failed or     *)
(* overlapped before, but those that uiautomator2 installed since it began; *)
(* the resume after it leaves none disabled, unless the second package is   *)
(* one of those: then the listing takes the first for enabled.              *)
PauseResume ==
    /\ quiet = "yes" => \A p \in DOMAIN helper : helper[p] = "enabled" => p \in anew
    /\ quiet = "no" => \A p \in DOMAIN helper : helper[p] = "disabled" =>
                         p = "uiautomator" /\ "uiautomator.test" \in anew
=============================================================================
