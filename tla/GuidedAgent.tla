---------------------------- MODULE GuidedAgent ----------------------------
(***************************************************************************)
(* The tools that tell a client what to test: it asks recommend_test_path  *)
(* for a context and calls the steps of the answer one after the other,    *)
(* or asks propose_test_scenarios what there is to test. The calls         *)
(* themselves are those of ToolCalls: an advised step goes through         *)
(* coercion and the parameter builder like any other call, and a client    *)
(* whose step is refused copies the example, puts in what it knows and     *)
(* goes on. A step that runs succeeds or fails, and a tool that needs a    *)
(* device or a debug session fails without one.                            *)
(***************************************************************************)
EXTENDS TestPaths, TestScenarios

CONSTANT Projects         \* what the files of a project say, see TestScenarios

VARIABLES
  path,                   \* the context whose path is walked, "" if none
  left,                   \* the steps to come, the one being called first
  open,                   \* what the steps opened and did not close
  failed,                 \* closing tools that failed, and "step" for any other
  advice                  \* the last proposal of scenarios, if it is the last event

walk == <<path, left, open, failed>>
guidedVars == <<vars, walk, advice>>

----------------------------------------------------------------------------
Opens ==
  [select_device |-> "device", start_debug_session |-> "session",
   start_frame_profile |-> "frames"]

\* A session takes the profile of its app with it.
Closes ==
  [release_device |-> {"device"}, stop_debug_session |-> {"session", "frames"},
   stop_frame_profile |-> {"frames"}]

\* Without a serial of its own a tool takes the selected device, and without a
\* session id the newest session.
OnDevice ==
  {"prepare_for_test", "run_integration_tests", "audit_accessibility", "clear_app_data",
   "launch_app", "tap_and_verify", "assert_no_errors_since", "take_screenshot",
   "capture_release_screenshot"}
OnSession ==
  {"memory_summary", "allocation_profile", "detect_undisposed_controllers",
   "start_frame_profile", "stop_frame_profile", "read_debug_log", "dump_widget_tree",
   "stop_debug_session"}

Needs(step) ==
  (IF step.tool \in OnDevice /\ "serial" \notin DOMAIN step.args THEN {"device"} ELSE {})
    \cup (IF step.tool \in OnSession THEN {"session"} ELSE {})

----------------------------------------------------------------------------
AskPath ==
  /\ path = "" /\ reply = "idle"
  /\ \E device, known \in BOOLEAN : \E context \in DOMAIN Paths(device, known) :
       path' = context /\ left' = Paths(device, known)[context]
  /\ advice' = <<>>
  /\ UNCHANGED <<vars, open, failed>>

CallStep ==
  /\ left # <<>> /\ reply = "idle"
  /\ Begin(Head(left).tool, <<>>, Head(left).args)
  /\ advice' = <<>>
  /\ UNCHANGED walk

Proposed(project, focus, top) ==
  [project |-> project, focus |-> focus, scenarios |-> Proposal(project, focus, top)]

StepSucceeds(step) ==
  /\ Needs(step) \subseteq open
  /\ open' = (open \ (IF step.tool \in DOMAIN Closes THEN Closes[step.tool] ELSE {}))
               \cup (IF step.tool \in DOMAIN Opens THEN {Opens[step.tool]} ELSE {})
  /\ UNCHANGED failed
  /\ IF step.asks = <<>> THEN advice' = <<>>
     ELSE \E project \in Projects :
            advice' = Proposed(project, step.asks[1].focus, step.asks[1].top)

StepFails(step) ==
  /\ failed' = failed \cup {IF step.tool \in DOMAIN Closes THEN step.tool ELSE "step"}
  /\ advice' = <<>>
  /\ UNCHANGED open

StepRuns ==
  /\ left # <<>> /\ Proceed
  /\ StepSucceeds(Head(left)) \/ StepFails(Head(left))
  /\ left' = Tail(left)
  /\ UNCHANGED path

\* What a path left open is the client's to close.
EndPath ==
  /\ path # "" /\ left = <<>>
  /\ path' = "" /\ open' = {} /\ failed' = {} /\ advice' = <<>>
  /\ UNCHANGED <<vars, left>>

\* Outside of a path: no focus or one area, and the default of 25 scenarios.
AskScenarios ==
  /\ path = "" /\ reply = "idle"
  /\ \E project \in Projects : \E focus \in {{}} \cup {{c} : c \in ToSet(Categories)} :
       advice' = Proposed(project, focus, 25)
  /\ UNCHANGED <<vars, walk>>

----------------------------------------------------------------------------
GuidedInit ==
  /\ Init
  /\ path = "" /\ left = <<>> /\ open = {} /\ failed = {} /\ advice = <<>>

\* Outside of a path the client is that of ToolCalls.
GuidedNext ==
  \/ path = "" /\ (Call \/ Proceed) /\ advice' = <<>> /\ UNCHANGED walk
  \/ (Dispatch \/ CopyExample) /\ UNCHANGED <<walk, advice>>
  \/ AskPath \/ CallStep \/ StepRuns \/ EndPath
  \/ AskScenarios

GuidedSpec ==
  /\ GuidedInit /\ [][GuidedNext]_guidedVars
  /\ WF_guidedVars(Dispatch /\ UNCHANGED <<walk, advice>>)
  /\ WF_guidedVars(CopyExample /\ UNCHANGED <<walk, advice>>)

----------------------------------------------------------------------------
(***************************************************************************)
(* However many features a project shows and whatever path asks, no cut    *)
(* takes a P0 scenario out of what was asked for ("Must-test before any    *)
(* ship", Priority in propose_test_scenarios.py): the numbers the paths    *)
(* ask for, and the default of 25, are enough for them all.                *)
(***************************************************************************)
UrgentProposed ==
  advice # <<>> => Keeps(advice.scenarios, advice.project, advice.focus, "P0")

\* The tools whose advised arguments the builder refuses: select_device only
\* when no device was given, the others always.
Refused == {"dart_format", "select_device", "prepare_for_test", "capture_release_screenshot"}

(***************************************************************************)
(* A recommended path is "a sequenced runnable plan" (header of            *)
(* recommend_test_path.py). The parameter builders accept every step as it *)
(* is advised, except the four of Refused. While nothing fails, each step  *)
(* finds the device and the debug session it needs; nightly and            *)
(* pre_release, which never take a device, are the exceptions. And         *)
(* whatever fails, a path that has ended holds neither the device lock nor *)
(* a session nor a running profile, unless the step that closes it failed; *)
(* only postmortem means to keep them.                                     *)
(***************************************************************************)
PathsRun ==
  /\ left # <<>> /\ args = Head(left).args /\ reply \notin {"idle", "sent"} =>
       reply = "built" \/ tool \in Refused
  /\ path \notin {"nightly", "pre_release"} /\ failed = {} /\ left # <<>> =>
       Needs(Head(left)) \subseteq open
  /\ path # "postmortem" /\ left = <<>> =>
       open \subseteq UNION {Closes[closing] : closing \in failed \ {"step"}}

=============================================================================
