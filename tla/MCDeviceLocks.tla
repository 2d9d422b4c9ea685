---------------------------- MODULE MCDeviceLocks ----------------------------
(* Instances of DeviceLocks for TLC. *)
EXTENDS DeviceLocks

CONSTANTS s1, s2, s3

(* Safety without any force, for the run about stale reclaim.               *)
UnforcedNext ==
    \/ \E s \in Session :
         \/ \E d \in Device : AcquireRead(s, d, FALSE) \/ ReleaseRead(s, d) \/ LockFor(s, d)
         \/ ListLocks(s) \/ ExitBegin(s) \/ Continue(s) \/ Crash(s)
    \/ \E d \in Device : Settle(d)
Unforced == Init /\ [][UnforcedNext]_vars
=============================================================================
