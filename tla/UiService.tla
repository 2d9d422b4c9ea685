------------------------------ MODULE UiService ------------------------------
(***************************************************************************)
(* What a UI tool promises its caller, apart from any platform: a call     *)
(* touches the screen a bounded number of times and only while it is in    *)
(* flight, an action that answers ok has touched it, a read never does,    *)
(* and every call is answered.                                             *)
(***************************************************************************)
EXTENDS Naturals

CONSTANT Clients  \* the requests that may be in flight at once

VARIABLES
    bound,   \* how often one action may touch the screen on this device
    want,    \* want[c]: "none", "look" or "act", what c has in flight
    landed,  \* landed[c]: the times the action in flight reached the screen
    answer   \* answer[c]: what its last call was answered, "none" at first

vars == <<bound, want, landed, answer>>

Init ==
    /\ bound \in {2, 3}
    /\ want = [c \in Clients |-> "none"]
    /\ landed = [c \in Clients |-> 0]
    /\ answer = [c \in Clients |-> "none"]

Ask(c) ==
    /\ want[c] = "none"
    /\ \E w \in {"look", "act"} : want' = [want EXCEPT ![c] = w]
    /\ answer' = [answer EXCEPT ![c] = "none"]
    /\ UNCHANGED <<bound, landed>>

Land(c) ==
    /\ want[c] = "act"
    /\ landed[c] < bound
    /\ landed' = [landed EXCEPT ![c] = @ + 1]
    /\ UNCHANGED <<bound, want, answer>>

Refuse(c) ==
    /\ want[c] # "none"
    /\ want' = [want EXCEPT ![c] = "none"]
    /\ answer' = [answer EXCEPT ![c] = "err"]
    /\ landed' = [landed EXCEPT ![c] = 0]
    /\ UNCHANGED bound

Accept(c) ==
    /\ want[c] # "none"
    /\ want[c] = "act" => landed[c] > 0
    /\ want' = [want EXCEPT ![c] = "none"]
    /\ answer' = [answer EXCEPT ![c] = "ok"]
    /\ landed' = [landed EXCEPT ![c] = 0]
    /\ UNCHANGED bound

Finish(c) == Refuse(c) \/ Accept(c)
Next == \E c \in Clients : Ask(c) \/ Land(c) \/ Finish(c)
Safety == Init /\ [][Next]_vars
Spec == Safety /\ \A c \in Clients : WF_vars(Finish(c))
=============================================================================
