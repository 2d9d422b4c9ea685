------------------------- MODULE MCReleaseReadiness -------------------------
(* An instance of ReleaseReadiness for TLC. *)
EXTENDS ReleaseReadiness

Bit(k, i) == (k \div i) % 2

(* All mixtures of a worst finding, n bad ones and twenty mild ones.          *)
Findings8(n) == [k \in 1..8 |-> << <<Bit(k, 1), n * Bit(k, 2), 20 * Bit(k, 4)>> >>]

Junit(n, s) == [name |-> n, xml |-> TRUE, says |-> s]
Json(n, s) == [name |-> n, xml |-> FALSE, says |-> s]

SomeReports ==
    << <<>>, << <<Junit("a", {}), Junit("b", {})>> >>, << <<Junit("a", {"failure"}), Junit("b", {})>> >>,
       << <<Junit("a", {"skipped"}), Junit("b", {"rerunFailure"})>> >>,
       << <<Json("a", "timeout"), Json("b", "success")>> >>, << <<Json("a", "timeout"), Json("b", "skip")>> >> >>

Measures(l, a) == <<[lcp |-> l, cls |-> "none", accessibility |-> a, performance |-> "good"]>>

SomeMeasures ==
    <<Measures("good", "good"), Measures("middle", "good"), Measures("none", "poor"), Measures("poor", "poor")>>

(* Without the mild ones.                                                    *)
Findings4(n) == [k \in 1..4 |-> << <<Bit(k, 1), n * Bit(k, 2), 0>> >>]

WhatIsFound ==
    [security |-> Append(Findings8(5), <<>>), performance |-> Findings8(3),
     test_execution |-> SomeReports, web_vitals |-> SomeMeasures,
     seniority |-> Findings4(4), localization |-> Findings4(3), dependencies |-> Findings4(5),
     test_quality |-> Findings4(5), web_app |-> Append(Findings4(3), <<>>)]

SomeRequests ==
    {<<"security", "performance", "test_execution", "web_vitals">>,
     <<"seniority", "localization", "dependencies", "test_quality", "web_app">>}
=============================================================================
