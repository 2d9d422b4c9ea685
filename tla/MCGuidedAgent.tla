--------------------------- MODULE MCGuidedAgent ---------------------------
(***************************************************************************)
(* Instances of GuidedAgent, and with it of ToolCalls: every tool of the   *)
(* registry; projects that show nothing, one signal or all.                *)
(***************************************************************************)
EXTENDS GuidedAgent

EveryTool == DOMAIN Schemas

ASSUME RegistryIsWhole == DOMAIN Builders = EveryTool

SignalsOf(file) == UNION {file[f] : f \in DOMAIN file}
Files(manifest, plist, pubspec, routes) ==
  [manifest |-> manifest, plist |-> plist, pubspec |-> pubspec, routes |-> routes]

SomeProjects ==
  {Files({}, {}, {}, FALSE), Files({}, {}, {}, TRUE),
   Files(SignalsOf(ManifestSignals), SignalsOf(PlistSignals), SignalsOf(PubspecSignals), TRUE)}
    \cup {Files({s}, {}, {}, FALSE) : s \in SignalsOf(ManifestSignals)}
    \cup {Files({}, {s}, {}, FALSE) : s \in SignalsOf(PlistSignals)}
    \cup {Files({}, {}, {s}, FALSE) : s \in SignalsOf(PubspecSignals)}

\* Every tool a path or a scenario names is registered.
ASSUME AdvisedAreRegistered ==
  /\ \A device, known \in BOOLEAN : \A context \in DOMAIN Paths(device, known) :
       \A i \in DOMAIN Paths(device, known)[context] :
         Paths(device, known)[context][i].tool \in EveryTool
  /\ \A project \in SomeProjects : \A i \in DOMAIN Scenarios(project) :
       ToSet(Scenarios(project)[i].tools) \subseteq EveryTool
============================================================================
