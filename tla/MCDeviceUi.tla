----------------------------- MODULE MCDeviceUi -----------------------------
(* Instances of DeviceUi for TLC. *)
EXTENDS DeviceUi, TLC

CONSTANTS c1, c2

(* One client calls twice, the other once. *)
TwoAndOne == c1 :> 2 @@ c2 :> 1
=============================================================================
