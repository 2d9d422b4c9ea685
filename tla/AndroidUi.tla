------------------------------ MODULE AndroidUi ------------------------------
(***************************************************************************)
(* The Android driver (data/repositories/uiautomator2_ui_repository.py):   *)
(* uiautomator2 through its helper packages, with `adb shell input tap'    *)
(* before it on a Samsung and after it when it raises; and the tools that  *)
(* turn the helper off and on (domain/usecases/ui_automation_pause.py).    *)
(***************************************************************************)
EXTENDS UiCalls

CONSTANTS IsSamsung   \* what ro.product.manufacturer says

VARIABLES
    maker,    \* _manufacturer_cache: "unread", "samsung", "other"; "" when adb failed
    helper,   \* helper[pkg]: "enabled", "disabled" or "absent" on the device
    quiet,    \* history: "no" after a resume, "yes" after a pause, "moving" in
              \* between, "mixed" once one failed or ran beside another, until
              \* a pause that runs alone
    anew      \* history: what uiautomator2 installed since that pause began

android == <<maker, helper, quiet, anew>>

Packages == <<"uiautomator", "uiautomator.test">>

AndroidInit ==
    /\ maker = "unread"
    /\ helper \in [{"uiautomator", "uiautomator.test"} -> {"enabled", "absent"}]
    /\ quiet = "no"
    /\ anew = {}
-----------------------------------------------------------------------------
(* _manufacturer: a failed getprop is remembered as no manufacturer.        *)
AskMaker(c) ==
    /\ At(c, "android") /\ Op(c) = "tap" /\ maker = "unread"
    /\ \/ maker' = (IF IsSamsung THEN "samsung" ELSE "other") /\ UNCHANGED faults
       \/ faults < MaxFaults /\ faults' = faults + 1 /\ maker' = ""
    /\ UNCHANGED <<call, screen, helper, quiet, anew>>

ChooseTap(c) ==
    /\ At(c, "android") /\ Op(c) = "tap" /\ maker # "unread"
    /\ Goto(c, IF maker = "samsung" THEN "adb_first" ELSE "click")
    /\ UNCHANGED <<screen, faults, android>>

(* _tap_via_adb: a tap whose adb call timed out may have landed.            *)
TapViaAdb(c) ==
    /\ \/ At(c, "adb_first") \/ At(c, "adb_last")
    /\ LET next == IF At(c, "adb_first") THEN "click" ELSE "reply"
           got == IF At(c, "adb_first") THEN "none" ELSE "err"
       IN  \/ Strike(c, "reply", "ok")
           \/ Fail(c, next, got)
           \/ StrikeAndFail(c, next, got)
    /\ UNCHANGED android

Running == helper["uiautomator"] = "enabled"

(* When it is called, uiautomator2 installs a helper that is absent; one    *)
(* that is disabled stays so.                                               *)
CallsHelper(c) ==
    \/ At(c, "click")
    \/ At(c, "android") /\ Op(c) \in {"tap_text", "gesture", "find", "dump_ui"}

Install(c) ==
    /\ CallsHelper(c)
    /\ \E pkg \in DOMAIN helper :
         /\ helper[pkg] = "absent"
         /\ helper' = [helper EXCEPT ![pkg] = "enabled"]
         /\ anew' = anew \cup {pkg}
    /\ UNCHANGED <<call, screen, faults, maker, quiet>>

(* A uiautomator2 call that has no helper to talk to raises: one that is    *)
(* disabled, or that could not be installed.                                *)
Raises(c, pc, r) ==
    \/ ~Running /\ Become(c, [call[c] EXCEPT !.at = pc, !.got = r]) /\ UNCHANGED <<screen, faults>>
    \/ Fail(c, pc, r)

Click(c) ==
    /\ At(c, "click")
    /\ \/ Running /\ (Strike(c, "reply", "ok") \/ StrikeAndFail(c, "adb_last", "none"))
       \/ Raises(c, "adb_last", "none")
    /\ UNCHANGED android

(* tap_text: the selector; failing that a dump, and a tap on what it shows. *)
TapText(c) ==
    /\ At(c, "android") /\ Op(c) = "tap_text"
    /\ \/ /\ Running
          /\ \/ Strike(c, "reply", "ok")
             \/ StrikeAndFail(c, "reply", "err")
             \/ Got(c, "err") /\ UNCHANGED <<screen, faults>>
             \/ /\ Become(c, [call[c] EXCEPT !.todo = <<"tap">> \o Tail(@)])
                /\ UNCHANGED <<screen, faults>>
       \/ Raises(c, "reply", "err")
    /\ UNCHANGED android

Gesture(c) ==
    /\ At(c, "android") /\ Op(c) = "gesture"
    /\ \/ Running /\ (Strike(c, "reply", "ok") \/ StrikeAndFail(c, "reply", "err"))
       \/ Raises(c, "reply", "err")
    /\ UNCHANGED android

(* find: wait, then info of an element that may be gone by then, which is   *)
(* an error here; dump_ui.                                                  *)
Look(c) ==
    /\ At(c, "android") /\ Op(c) \in {"find", "dump_ui"}
    /\ \/ /\ Running
          /\ UNCHANGED <<screen, faults>>
          /\ IF Op(c) = "find"
             THEN \E r \in {"present", "absent", "err"} : Got(c, r)
             ELSE Become(c, [call[c] EXCEPT !.at = "reply", !.got = "ok", !.saw = screen])
       \/ Raises(c, "reply", "err")
    /\ UNCHANGED android
-----------------------------------------------------------------------------
(* pm list packages filters by substring, and the listing is searched for   *)
(* the name as a substring again: the name of the first package is also a   *)
(* prefix of the second.                                                    *)
Lists(pkg, states) ==
    \/ helper[pkg] \in states
    \/ pkg = "uiautomator" /\ helper["uiautomator.test"] \in states

Status(pkg) ==
    CASE ~Lists(pkg, {"enabled", "disabled"}) -> "absent"
      [] Lists(pkg, {"enabled"}) -> "enabled"
      [] OTHER -> "disabled"

From(op) == IF op = "pause" THEN "enabled" ELSE "disabled"
To(op) == IF op = "pause" THEN "disabled" ELSE "enabled"
Package(c) == Packages[call[c].nth]
Switching == {c \in Clients : Busy(c) /\ call[c].tool \in {"pause", "resume"}}

(* pause_ui_automation and resume_ui_automation start with the first one.   *)
SwitchBegins(c) ==
    /\ Become(c, [call[c] EXCEPT !.at = "package", !.nth = 1])
    /\ quiet' = IF Switching = {c} /\ (quiet # "mixed" \/ Op(c) = "pause")
                THEN "moving" ELSE "mixed"
    /\ anew' = IF Switching = {c} /\ Op(c) = "pause" THEN {} ELSE anew

(* On to the next package, or done.                                         *)
NextPackage(c) ==
    IF call[c].nth = Len(Packages)
    THEN /\ Got(c, "ok")
         /\ quiet' = (IF quiet = "mixed" THEN quiet ELSE IF Op(c) = "pause" THEN "yes" ELSE "no")
    ELSE /\ Become(c, [call[c] EXCEPT !.at = "package", !.nth = @ + 1])
         /\ UNCHANGED quiet

LookAtPackage(c) ==
    /\ At(c, "package")
    /\ \/ Status(Package(c)) = From(Op(c)) /\ Goto(c, "switch") /\ UNCHANGED <<faults, quiet>>
       \/ Status(Package(c)) # From(Op(c)) /\ NextPackage(c) /\ UNCHANGED faults
       \/ Fail(c, "reply", "err") /\ quiet' = "mixed"
    /\ UNCHANGED <<screen, maker, helper, anew>>

(* Mutant: a package that cannot be switched is passed over. *)
SwitchFails_skip(c) == NextPackage(c)

(* Switching fails for want of the package, or of the device.               *)
SwitchFails(c) == Got(c, "err") /\ quiet' = "mixed"

Switch(c) ==
    /\ At(c, "switch")
    /\ \/ /\ helper[Package(c)] # "absent"
          /\ helper' = [helper EXCEPT ![Package(c)] = To(Op(c))]
          /\ NextPackage(c)
          /\ UNCHANGED faults
       \/ helper[Package(c)] = "absent" /\ SwitchFails(c) /\ UNCHANGED <<faults, helper>>
       \/ /\ faults < MaxFaults
          /\ faults' = faults + 1
          /\ SwitchFails(c)
          /\ UNCHANGED helper
    /\ UNCHANGED <<screen, maker, anew>>

AndroidStep(c) ==
    \/ AskMaker(c) \/ ChooseTap(c) \/ TapViaAdb(c) \/ Click(c)
    \/ TapText(c) \/ Gesture(c) \/ Look(c)
    \/ LookAtPackage(c) \/ Switch(c)
=============================================================================
