------------------------------ MODULE Findings ------------------------------
(***************************************************************************)
(* What the static audits of domain/usecases share.  Each of them reads a  *)
(* project, collects findings, drops those below the caller's threshold,   *)
(* sorts them by severity, cuts the list at max_findings and grades what   *)
(* is left.                                                                *)
(*                                                                         *)
(* A project gives each place in it (a file, a package, a locale) the set  *)
(* of its traits, the facts about its text that the patterns of an audit   *)
(* tell apart.  A rulebook says for each rule how severe it is, its tier,  *)
(* whether it fires and which texts its fix_hint leads to.  Severities are *)
(* 1 (worst) to 3, tiers 1 (junior) to 4 (staff).  A trait occurs at most  *)
(* once per place, so a rule fires at most once per place.                 *)
(***************************************************************************)
EXTENDS Integers, FiniteSets

Severities == 1..3
Junior == 1
Mid == 2
Senior == 3
Staff == 4

Rule(sev, lvl, fires, fixes) ==
    [sev |-> sev, lvl |-> lvl, fires |-> fires, fixes |-> fixes]

(* The findings of a rulebook at one place; following the hint replaces the *)
(* text of the places in one of `fixes'.                                    *)
At(place, book) ==
    {[rule |-> r, place |-> place, line |-> 0, sev |-> book[r].sev, lvl |-> book[r].lvl,
      fixes |-> {[x \in {place} |-> t] : t \in book[r].fixes}]
       : r \in {x \in DOMAIN book : book[x].fires}}

(* The number of findings of each severity.                                  *)
Counts(found) ==
    LET number(s) == Cardinality({x \in found : x.sev = s}) IN <<number(1), number(2), number(3)>>

Least(a, b) == IF a <= b THEN a ELSE b

(* The list is cut as it was collected, the mild findings first.             *)
Cut_unsorted(n, max) ==
    LET mild == Least(n[3], max)
        some == Least(n[2] + n[3], max)
    IN  <<Least(n[1] + n[2] + n[3], max) - some, some - mild, mild>>

(* Sorted by severity and cut: what is left of each severity.               *)
Cut(n, max) ==
    LET worst == Least(n[1], max)
        bad == Least(n[1] + n[2], max)
    IN  <<worst, bad - worst, Least(n[1] + n[2] + n[3], max) - bad>>

(* The weighted number of findings, w[s] each.                              *)
Weight(w, n) == w[1] * n[1] + w[2] * n[2] + w[3] * n[3]

(* weighted / size >= bound, for a size in thousandths of the unit.         *)
AtLeast(weighted, bound, size) == 1000 * weighted >= bound * size
=============================================================================
