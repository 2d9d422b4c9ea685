----------------------------- MODULE PatchSafe -----------------------------
(***************************************************************************)
(* patch_apply_safe (domain/usecases/patch_safe.py): a patch is applied to *)
(* the working tree of a git project, judged by the quality gate and       *)
(* rolled back when the gate refuses it. Every git command and the gate    *)
(* are awaited, and the project belongs to others too: they edit and       *)
(* commit files, and other calls run on the same tree at the same time.    *)
(*                                                                         *)
(* The tree is the set of changes it has against HEAD: edits of tracked    *)
(* files, new files, and files that git ignores, which it neither reports, *)
(* restores nor cleans. What is staged counts as not staged. The guard on  *)
(* the project's path and the checks for a repository and an empty diff    *)
(* come before every await, and end the call at once.                      *)
(***************************************************************************)
EXTENDS Naturals, FiniteSets

CONSTANTS
  Call,             \* calls of the tool
  Patch,            \* what their diffs change
  Own,              \* what others change
  New,              \* the changes that are new files
  Ignored,          \* those to files that .gitignore names
  NoPatch

ASSUME ChangesAssumption == NoPatch \notin Patch /\ Patch \cap Own = {}
ASSUME IgnoredAssumption == New \cap Ignored = {}

VARIABLES
  tree,             \* the uncommitted changes
  head,             \* the committed ones
  pending,          \* what .mcp-pending.patch holds, one file for all calls
  call,             \* where each call is, its patch and its arguments
  before,           \* history: all that was there at its status, or when a forced one began
  blind,            \* history: the git commands that failed and were not looked at
  apart             \* history: the calls that no other call has run beside

vars == <<tree, head, pending, call, before, blind, apart>>

Present == tree \cup head

Idle == [pc |-> "idle", patch |-> NoPatch, force |-> FALSE, gated |-> TRUE]
Answers == {"refused", "failed", "kept", "rolled back", "raised"}
Runs(c) == call[c].pc \notin Answers \cup {"idle"}

Goto(c, pc) == call' = [call EXCEPT ![c].pc = pc]

----------------------------------------------------------------------------
\* The diff goes to the pending file and `git apply --check' starts.
WriteDiff(c) ==
  /\ pending' = call[c].patch
  /\ Goto(c, "check")

Begin(c, patch, force, gated) ==
  /\ call[c].pc = "idle"
  /\ call' = [call EXCEPT ![c] = [pc |-> IF force THEN "write" ELSE "status",
                                  patch |-> patch, force |-> force, gated |-> gated]]
  /\ before' = [before EXCEPT ![c] = Present]
  /\ apart' = IF \E d \in Call : Runs(d) THEN {} ELSE {c}
  /\ UNCHANGED <<tree, head, pending, blind>>

Missed(c, command) == blind' = [blind EXCEPT ![c] = @ \cup {command}]

\* Mutant: the check looks for the pending file only.
Dirty_pending == pending # NoPatch

\* The pending file of another call is dirt too.
Dirty == tree \ Ignored # {} \/ pending # NoPatch

\* When git fails the tree counts as clean.
Status(c) ==
  /\ call[c].pc = "status"
  /\ before' = [before EXCEPT ![c] = Present]
  /\ \/ Goto(c, IF Dirty THEN "refused" ELSE "write")
        /\ UNCHANGED blind
     \/ Goto(c, "write") /\ Missed(c, "status")
  /\ UNCHANGED <<tree, head, pending, apart>>

\* The call goes on after the status: a forced call does so at once.
Write(c) ==
  /\ call[c].pc = "write"
  /\ WriteDiff(c)
  /\ UNCHANGED <<tree, head, before, blind, apart>>

\* A patch can be applied when there is one and it is not there already; it
\* may not fit what it finds all the same.
Fits == pending # NoPatch /\ pending \notin Present

\* Mutant: the pending file stays.
Unlink_not == UNCHANGED pending

Unlink == pending' = NoPatch

Check(c) ==
  /\ call[c].pc = "check"
  /\ \/ Fits /\ Goto(c, "apply") /\ UNCHANGED pending
     \/ Goto(c, "refused") /\ Unlink
  /\ UNCHANGED <<tree, head, before, blind, apart>>

\* git apply takes whatever the pending file holds by now.
Apply(c) ==
  /\ call[c].pc = "apply"
  /\ \/ /\ Fits
        /\ tree' = tree \cup {pending}
        /\ Goto(c, "applied")
        /\ UNCHANGED pending
     \/ Goto(c, "failed") /\ Unlink /\ UNCHANGED tree
  /\ UNCHANGED <<head, before, blind, apart>>

\* The `finally', then the files that changed are listed.
Applied(c) ==
  /\ call[c].pc = "applied"
  /\ Unlink
  /\ Goto(c, IF call[c].gated THEN "gate" ELSE "kept")
  /\ UNCHANGED <<tree, head, before, blind, apart>>

\* A gate that answers an error has failed; one that raises ends the call.
Gate(c) ==
  /\ call[c].pc = "gate"
  /\ \E verdict \in {"kept", "checkout", "raised"} : Goto(c, verdict)
  /\ UNCHANGED <<tree, head, pending, before, blind, apart>>

\* Whether these two succeed is not looked at. The one restores what is
\* tracked.
Checkout(c) ==
  /\ call[c].pc = "checkout"
  /\ \/ tree' = tree \cap (New \cup Ignored) /\ UNCHANGED blind
     \/ Missed(c, "checkout") /\ UNCHANGED tree
  /\ Goto(c, "clean")
  /\ UNCHANGED <<head, pending, before, apart>>

\* The other takes every new file, the pending file of another call as well,
\* but without -x none that is ignored.
Clean(c) ==
  /\ call[c].pc = "clean"
  /\ \/ tree' = tree \ New /\ pending' = NoPatch /\ UNCHANGED blind
     \/ Missed(c, "clean") /\ UNCHANGED <<tree, pending>>
  /\ Goto(c, "rolled back")
  /\ UNCHANGED <<head, before, apart>>

Edit(x) ==
  /\ x \notin Present
  /\ tree' = tree \cup {x}
  /\ UNCHANGED <<head, pending, call, before, blind, apart>>

Commit ==
  /\ tree \ Ignored # {}
  /\ head' = head \cup (tree \ Ignored)
  /\ tree' = tree \cap Ignored
  /\ UNCHANGED <<pending, call, before, blind, apart>>

Init ==
  /\ tree = {} /\ head = {} /\ pending = NoPatch
  /\ call = [c \in Call |-> Idle]
  /\ before = [c \in Call |-> {}]
  /\ blind = [c \in Call |-> {}] /\ apart = {}

Step(c) ==
  \/ Status(c) \/ Write(c) \/ Check(c) \/ Apply(c) \/ Applied(c)
  \/ Gate(c) \/ Checkout(c) \/ Clean(c)

Next ==
  \/ \E c \in Call :
       Step(c) \/ \E patch \in Patch, force, gated \in BOOLEAN : Begin(c, patch, force, gated)
  \/ \E x \in Own : Edit(x)
  \/ Commit

Spec == Init /\ [][Next]_vars

----------------------------------------------------------------------------
(***************************************************************************)
(* The answer of a call that no other call has run beside tells what has   *)
(* become of its patch and of the work it found, though others edit and    *)
(* commit all the time. A kept patch is in the tree or in a commit, and so *)
(* it is after a gate that raised; a refused or failed one is not, and     *)
(* nothing else is lost. After "all changes rolled back" (patch_safe.py)   *)
(* the patch is out of the tree, unless its file is one git ignores, or    *)
(* the git command for it failed, which nobody looks at; and unless it was *)
(* forced or its git status failed, the call has taken nothing away that   *)
(* was there when it looked.                                               *)
(***************************************************************************)
Forced(c) == call[c].force \/ "status" \in blind[c]
Undoes(patch) == IF patch \in New THEN "clean" ELSE "checkout"
AnswerTellsTree ==
  \A c \in apart : ~ Runs(c) =>
    LET patch == call[c].patch  pc == call[c].pc IN
    /\ pending = NoPatch
    /\ pc = "rolled back" => patch \notin tree \/ patch \in Ignored \/ Undoes(patch) \in blind[c]
    /\ pc # "rolled back" \/ ~ Forced(c) => before[c] \subseteq Present
    /\ pc \in {"kept", "raised"} => patch \in Present
    /\ pc \in {"refused", "failed"} /\ patch \in Present => patch \in before[c]

(***************************************************************************)
(* Calls share one pending file, and git apply takes whatever it holds.    *)
(* However they overlap, a patch comes onto the tree only while a call     *)
(* that brought it is between its write and its `finally': what was        *)
(* refused does not turn up afterwards.                                    *)
(***************************************************************************)
Holding(c) == call[c].pc \in {"check", "apply", "applied"}
LandsInTime ==
  [][\A x \in Patch \cap (tree' \ tree) : \E c \in Call : Holding(c) /\ call[c].patch = x]_vars

=============================================================================
