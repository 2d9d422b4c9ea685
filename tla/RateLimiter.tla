------------------------------ MODULE RateLimiter ------------------------------
(***************************************************************************)
(* The per-tool burst limit and circuit breaker of phone-controll          *)
(* (presentation/rate_limiter.py), driven by RateLimiterMiddleware in      *)
(* presentation/middleware.py.  The statistics are kept per tool name and  *)
(* tools do not interact, so one tool is modelled.  Callers are the        *)
(* requests the server handles concurrently: each checks, runs the tool,   *)
(* suspended, and records the outcome when the tool has answered.          *)
(*                                                                         *)
(* Time is discrete and kept as ages: the times of the deque are kept as   *)
(* how many of them are at most a ticks old, for each age a in the window. *)
(* A record older than the window never counts again (check prunes it),    *)
(* and no count is needed past MaxPerWindow.                               *)
(*                                                                         *)
(* `started', `raised' and `bad' are history variables, of the calls the   *)
(* limiter let through.                                                    *)
(***************************************************************************)
EXTENDS Integers, Sequences, FiniteSets

CONSTANTS Caller,        \* the requests that may be in flight at once
          MaxPerWindow,  \* RateLimitConfig.max_per_window
          Window,        \* RateLimitConfig.window_s, in ticks
          Threshold,     \* RateLimitConfig.breaker_failure_threshold
          Cooldown,      \* RateLimitConfig.breaker_cooldown_s, in ticks
          MaxRaised      \* bound: the executions that raise in a window

ASSUME ConfigOK ==
    /\ IsFiniteSet(Caller)
    /\ MaxPerWindow \in Nat \ {0}
    /\ Window \in Nat \ {0}
    /\ Threshold \in Nat \ {0}
    /\ Cooldown \in Nat \ {0}
    /\ MaxRaised \in Nat

VARIABLES
    timestamps,  \* timestamps[a]: the calls recorded in the last a ticks, up to MaxPerWindow
    failures,    \* consecutive_failures
    opensFor,    \* breaker_opens_until - now, 0 when it is in the past
    running,     \* the callers whose tool call is executing
    started,     \* started[a]: the executions that began in the last a ticks
    raised,      \* raised[a]: the executions that raised in the last a ticks
    bad          \* ages of the last executions, all failed, oldest first

vars == <<timestamps, failures, opensFor, running, started, raised, bad>>
-----------------------------------------------------------------------------
Age == 0 .. Window - 1

Total(f) == f[Window - 1]
Older(f) == [a \in Age |-> IF a = 0 THEN 0 ELSE f[a - 1]]
AtMost(n, bound) == IF n > bound THEN bound ELSE n
OneMore(f) == [a \in Age |-> f[a] + 1]
Counted(f) == [a \in Age |-> AtMost(f[a] + 1, MaxPerWindow)]

(* Mutant: the record of a call is counted only when it failed. *)
Record_failedOnly(ok) ==
    /\ timestamps' = IF ok THEN timestamps ELSE Counted(timestamps)
    /\ failures' = IF ok \/ failures + 1 >= Threshold THEN 0 ELSE failures + 1
    /\ opensFor' = IF ~ok /\ failures + 1 >= Threshold THEN Cooldown ELSE opensFor

(* record: every call counts, and the Threshold-th failure in a row opens   *)
(* the breaker and starts the count afresh.                                 *)
Record(ok) ==
    /\ timestamps' = Counted(timestamps)
    /\ failures' = IF ok \/ failures + 1 >= Threshold THEN 0 ELSE failures + 1
    /\ opensFor' = IF ~ok /\ failures + 1 >= Threshold THEN Cooldown ELSE opensFor

(* check: None exactly when neither the breaker nor the window refuses.     *)
CircuitOpen == opensFor > 0
RateLimited == Total(timestamps) >= MaxPerWindow

(* Mutant: an open breaker is not looked at. *)
Admitted_windowOnly == ~RateLimited

Admitted == ~CircuitOpen /\ ~RateLimited
-----------------------------------------------------------------------------
Init ==
    /\ timestamps = [a \in Age |-> 0]
    /\ failures = 0
    /\ opensFor = 0
    /\ running = {}
    /\ started = [a \in Age |-> 0]
    /\ raised = [a \in Age |-> 0]
    /\ bad = <<>>

Start(c) ==
    /\ c \notin running
    /\ Admitted
    /\ running' = running \cup {c}
    /\ started' = OneMore(started)
    /\ UNCHANGED <<timestamps, failures, opensFor, raised, bad>>

(* A refusal is recorded as well: dispatch walks the post hooks of every    *)
(* middleware up to and with the one that refused.                          *)
Refuse(c) ==
    /\ c \notin running
    /\ ~Admitted
    /\ Record(FALSE)
    /\ UNCHANGED <<running, started, raised, bad>>

(* The last Threshold executions, as long as each of them failed.           *)
LastFailures(s) == IF Len(s) > Threshold THEN Tail(s) ELSE s

Finish(c, ok) ==
    /\ c \in running
    /\ running' = running \ {c}
    /\ Record(ok)
    /\ bad' = IF ok THEN <<>> ELSE LastFailures(Append(bad, 0))
    /\ UNCHANGED <<started, raised>>

(* An exception that dispatch does not expect, or a cancelled request: the  *)
(* post hooks do not run and the call is not recorded.                      *)
Raise(c) ==
    /\ c \in running
    /\ Total(raised) < MaxRaised
    /\ running' = running \ {c}
    /\ raised' = OneMore(raised)
    /\ UNCHANGED <<timestamps, failures, opensFor, started, bad>>

Tick ==
    /\ timestamps' = Older(timestamps)
    /\ started' = Older(started)
    /\ raised' = Older(raised)
    /\ opensFor' = IF opensFor > 0 THEN opensFor - 1 ELSE 0
    /\ bad' = [i \in DOMAIN bad |-> AtMost(bad[i] + 1, Cooldown)]
    /\ UNCHANGED <<failures, running>>

Next ==
    \/ Tick
    \/ \E c \in Caller :
         Start(c) \/ Refuse(c) \/ Raise(c) \/ \E ok \in BOOLEAN : Finish(c, ok)

Spec == Init /\ [][Next]_vars
-----------------------------------------------------------------------------
TypeOK ==
    /\ timestamps \in [Age -> 0 .. MaxPerWindow]
    /\ failures \in 0 .. Threshold - 1
    /\ opensFor \in 0 .. Cooldown
    /\ running \in SUBSET Caller
    /\ started \in [Age -> Nat] /\ raised \in [Age -> Nat]
    /\ bad \in Seq(0 .. Cooldown)
    /\ Len(bad) <= Threshold

(* The burst limit that the check and the later record give together: in a  *)
(* window start at most MaxPerWindow executions, and one more for every     *)
(* other request that is in flight at the check, and for every execution    *)
(* that raised, because those are never recorded.                           *)
BurstBound == Total(started) < MaxPerWindow + Cardinality(Caller) + Total(raised)

(* When an execution starts after Threshold executions that failed in a     *)
(* row, Cooldown has passed since the first of those: however refusals and  *)
(* late answers of overlapping calls are mixed in, the breaker opened.      *)
CooldownServed ==
    [][running' # running /\ running \subseteq running'
         => Len(bad) < Threshold \/ bad[1] = Cooldown]_vars
=============================================================================
