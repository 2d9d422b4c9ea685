------------------------------- MODULE UiCalls -------------------------------
(***************************************************************************)
(* The UI tools of the server (domain/usecases/ui_input.py, ui_query.py,   *)
(* ui_verify.py) as sequences of repository operations, and the calls in   *)
(* flight.  How an operation is carried out is in WdaUi (iOS) and          *)
(* AndroidUi; DeviceUi puts the dump cache and the routing in front.       *)
(*                                                                         *)
(* One device.  `screen' is the version of what it shows: an action that   *)
(* lands makes a new one.  A call records how often its action landed      *)
(* (hits), the version it read or made (saw), and, as history, whether an  *)
(* action was in flight at some time of its dump (raced) and whether       *)
(* nothing went wrong under it (calm).                                     *)
(***************************************************************************)
EXTENDS Sequences, Naturals

CONSTANTS Clients,    \* the requests that may be in flight at once
          Tools,      \* the tools they call
          Quota,      \* Quota[c]: the calls client c makes
          MaxFaults   \* faults of the transport

VARIABLES
    call,    \* call[c]: the last call of client c and where it is
    screen,  \* the version on the screen
    faults,  \* the faults so far
    calls    \* calls[c]: the calls of c so far

Acts == {"tap", "tap_text", "gesture"}

(* The repository operations a tool awaits, in order.  tap_element is tap   *)
(* with a selector; gesture stands for swipe, type_text and press_key;      *)
(* wait_until polls, here twice.                                            *)
Steps ==
    [tap |-> <<"tap">>, tap_element |-> <<"find", "tap">>, tap_text |-> <<"tap_text">>,
     gesture |-> <<"gesture">>, find_element |-> <<"find">>, wait_for |-> <<"find">>,
     wait_visible |-> <<"find", "find">>, wait_gone |-> <<"find", "find">>,
     tap_and_verify |-> <<"tap_text", "find">>, dump_ui |-> <<"dump_ui">>,
     pause |-> <<"pause">>, resume |-> <<"resume">>]

ASSUME ToolsAreKnown == Tools \subseteq DOMAIN Steps

IsAct(tool) == \E i \in 1..Len(Steps[tool]) : Steps[tool][i] \in Acts

Idle == [tool |-> "none", todo |-> <<>>, at |-> "idle", tries |-> 0, sess |-> 0,
         got |-> "none", hits |-> 0, saw |-> 0, raced |-> FALSE, calm |-> TRUE,
         ans |-> "none", nth |-> 1]

At(c, pc) == call[c].at = pc
Op(c) == Head(call[c].todo)
Busy(c) == ~At(c, "idle")
Become(c, state) == call' = [call EXCEPT ![c] = state]
Goto(c, pc) == Become(c, [call[c] EXCEPT !.at = pc])
Got(c, r) == Become(c, [call[c] EXCEPT !.at = "reply", !.got = r])

(* The device does what it is told: a new screen.                           *)
Strike(c, pc, r) ==
    /\ Become(c, [call[c] EXCEPT !.at = pc, !.got = r, !.hits = @ + 1, !.saw = screen + 1])
    /\ screen' = screen + 1
    /\ UNCHANGED faults

(* The transport reports an error for an operation that was carried out.    *)
StrikeAndFail(c, pc, r) ==
    /\ faults < MaxFaults
    /\ faults' = faults + 1
    /\ Become(c, [call[c] EXCEPT !.at = pc, !.got = r, !.hits = @ + 1, !.saw = screen + 1,
                                 !.calm = FALSE])
    /\ screen' = screen + 1

Fail(c, pc, r) ==
    /\ faults < MaxFaults
    /\ faults' = faults + 1
    /\ Become(c, [call[c] EXCEPT !.at = pc, !.got = r, !.calm = FALSE])
    /\ UNCHANGED screen
-----------------------------------------------------------------------------
(* Mutant: a tool that verifies goes by the verification alone. *)
Verdict_lenient(tool, r, more) ==
    IF more THEN "next" ELSE IF r \in {"err", "absent"} THEN "err" ELSE "ok"

(* What the tool makes of an operation's result: an error ends it; so does  *)
(* the absence of what it needs; polling ends when the condition holds.     *)
Verdict(tool, r, more) ==
    LET goOn(end) == IF more THEN "next" ELSE end
        awaited == IF tool = "wait_visible" THEN "present" ELSE "absent"
    IN  IF r = "err" THEN "err"
        ELSE IF tool \in {"wait_visible", "wait_gone"}
             THEN IF r = awaited THEN "ok" ELSE goOn("err")
        ELSE IF tool \in {"tap_element", "wait_for", "tap_and_verify"} /\ r = "absent" THEN "err"
        ELSE goOn("ok")

(* A repository operation has returned: the tool goes on or answers.  Of a  *)
(* call that is over, what it saw is kept if it was a read.                 *)
Conclude(c) ==
    LET k == call[c]
        v == Verdict(k.tool, k.got, Len(k.todo) > 1)
    IN  Become(c, IF v = "next"
                  THEN [k EXCEPT !.at = "enter", !.todo = Tail(@), !.tries = 0, !.sess = 0,
                                 !.got = "none"]
                  ELSE [Idle EXCEPT !.tool = k.tool, !.ans = v, !.calm = k.calm,
                                    !.saw = IF IsAct(k.tool) THEN 0 ELSE k.saw,
                                    !.raced = k.raced])
=============================================================================
