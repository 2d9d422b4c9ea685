---------------------------- MODULE SessionService ----------------------------
(***************************************************************************)
(* What the debug sessions of one server promise the agent that uses them, *)
(* however often the server ends and starts again.  An open session stays  *)
(* open until the agent asks to stop it or the server ends; then it is     *)
(* asleep until a list finds it.  Only three things take a session away:   *)
(* that the agent asked, that its app ended, and that the server could not *)
(* write its record or get an answer from its app (lapsed).  One that was  *)
(* taken away for the first or the last reason may come back, once more,   *)
(* by a list that was under way meanwhile.                                 *)
(***************************************************************************)
CONSTANT Sid

VARIABLES open,      \* the sessions the agent can use now
          asleep,    \* those with a record, for a list after the next start
          spent,     \* the ids that are given out and no session any more
          asked,     \* the sessions the agent asked to stop
          lapsed,    \* those the server failed to keep a record of, or to erase it
          reachable  \* the sessions whose app runs

vars == <<open, asleep, spent, asked, lapsed, reachable>>

Lasting == open \cup asleep
Loose == asked \cup lapsed \cup (Sid \ reachable)
-----------------------------------------------------------------------------
Init ==
    /\ open = {} /\ asleep = {} /\ spent = {}
    /\ asked = {} /\ lapsed = {} /\ reachable = {}

\* An app that went away does not come back under the same session.
Apps == reachable' \subseteq Sid /\ Lasting \cap reachable' \subseteq reachable

\* An id may be given out in vain: the launch fails, or the server ends first.
Ids ==
    /\ spent \subseteq spent' /\ spent' \subseteq Sid
    /\ spent' \cap (open' \cup asleep') = {}

Lapses == lapsed \subseteq lapsed' /\ lapsed' \subseteq Sid

Open(s) ==
    /\ s \notin Lasting \cup spent
    /\ open' = open \cup {s}
    /\ Lapses
    /\ UNCHANGED <<asleep, spent, asked, reachable>>

\* Until the stop is carried out a restart finds the session once more, if
\* it still has a record.
Ask(s) ==
    /\ asked' = asked \cup {s}
    /\ open' = open \ {s}
    /\ \/ asleep' = asleep \cup (open \cap {s}) /\ UNCHANGED spent
       \/ s \in Loose /\ spent' = spent \cup {s} /\ UNCHANGED asleep
    /\ UNCHANGED <<lapsed, reachable>>

Close(s) ==
    /\ s \in asleep \cap Loose
    /\ asleep' = asleep \ {s}
    /\ spent' = spent \cup {s}
    /\ UNCHANGED <<open, asked, lapsed, reachable>>

Wake(s) ==
    /\ s \in asleep \cap reachable
    /\ open' = open \cup {s}
    /\ asleep' = asleep \ {s}
    /\ UNCHANGED <<spent, asked, lapsed, reachable>>

Return(s) ==
    /\ s \in spent \cap reachable \cap (asked \cup lapsed)
    /\ open' = open \cup {s}
    /\ spent' = spent \ {s}
    /\ UNCHANGED <<asleep, asked, lapsed, reachable>>

\* The server ends, by a crash or gracefully; that may end apps as well.
ServerEnds ==
    /\ open' = {}
    /\ asleep' \subseteq Lasting /\ Lasting \ asleep' \subseteq Loose \cap spent'
    /\ Ids /\ Apps
    /\ UNCHANGED <<asked, lapsed>>

World ==
    /\ Ids /\ Apps /\ Lapses
    /\ UNCHANGED <<open, asleep, asked>>

Next ==
    \/ \E s \in Sid : Open(s) \/ Ask(s) \/ Close(s) \/ Wake(s) \/ Return(s)
    \/ ServerEnds \/ World

Spec == Init /\ [][Next]_vars
=============================================================================
