----------------------------- MODULE LockService -----------------------------
(***************************************************************************)
(* What the device lock promises its callers: a device is told to one      *)
(* session at a time, until a force or the death of a session makes the    *)
(* device suspect; it stops being suspect when at most one session holds   *)
(* it again.                                                               *)
(***************************************************************************)
EXTENDS FiniteSets

CONSTANTS Session, Device

VARIABLES held,     \* <<s, d>>: session s has been told it holds device d
          suspect   \* the devices on which the promise is suspended

vars == <<held, suspect>>

HeldBy(d) == {s \in Session : <<s, d>> \in held}
-----------------------------------------------------------------------------
Init == held = {} /\ suspect = {}

Grant(s, d) ==
    /\ d \in suspect \/ HeldBy(d) \subseteq {s}
    /\ held' = held \cup {<<s, d>>}
    /\ UNCHANGED suspect

Withdraw(s, d) ==
    /\ held' = held \ {<<s, d>>}
    /\ UNCHANGED suspect

Disturb(devs) ==
    /\ suspect' = suspect \cup devs
    /\ UNCHANGED held

(* The death of a session withdraws all it held.                            *)
Die(s, devs) ==
    /\ held' = {h \in held : h[1] # s}
    /\ suspect' = suspect \cup devs

Settle(d) ==
    /\ \A s, t \in HeldBy(d) : s = t
    /\ suspect' = suspect \ {d}
    /\ UNCHANGED held

Next ==
    \/ \E s \in Session, d \in Device : Grant(s, d) \/ Withdraw(s, d)
    \/ \E d \in Device : Settle(d)
    \/ \E devs \in SUBSET Device : Disturb(devs) \/ \E s \in Session : Die(s, devs)

Spec == Init /\ [][Next]_vars
=============================================================================
