-------------------------- MODULE DeviceLocksProofs --------------------------
(***************************************************************************)
(* Machine-checked theorems about DeviceLocks, for every set of sessions   *)
(* and devices.                                                            *)
(***************************************************************************)
EXTENDS DeviceLocks, TLAPS

(***************************************************************************)
(* What holds of a device that is not suspect: every operation in flight   *)
(* still has a true picture of its lock file.                              *)
(***************************************************************************)
HoldersNamed(d) == \A s \in Holders(d) : file[d] = [owner |-> s, written |-> TRUE]

OwnerLive(d) == file[d] # NoFile => file[d].owner \in live

OpSound(s, d) ==
    /\ op[s].pc \in {"judge", "scanJudge"} => op[s].seen \in live
    /\ op[s].pc \notin {"unlink", "scanUnlink"}
    /\ op[s].pc = "write" => file[d] = [owner |-> s, written |-> FALSE]
    /\ op[s].pc \in {"relUnlink", "exitUnlink"} => file[d] = [owner |-> s, written |-> TRUE]

Sound(d) ==
    /\ HoldersNamed(d)
    /\ OwnerLive(d)
    /\ \A s \in Session : op[s].dev = d => OpSound(s, d)

(* A dead or exiting session is told it holds nothing; a dead one is idle.  *)
Departed ==
    /\ \A s \in Session \ live : op[s] = Idle
    /\ \A s \in Session : op[s].pc \in {"exit", "exitUnlink"} => \A d \in Device : s \notin Holders(d)

(* Pending operations are on a device; what a judge has seen is a session.  *)
OnDevice ==
    \A s \in Session : op[s].pc \in Pending \cup {"create"} => op[s].dev \in Device

SoundNow == \A d \in Device \ suspect : Sound(d)

IInv ==
    /\ TypeOK
    /\ OnDevice
    /\ Departed
    /\ SoundNow
-----------------------------------------------------------------------------
(* What changing the operation of one session does to all of them.          *)
LEMMA BecomeEffect ==
  ASSUME op \in [Session -> Operation], NEW s \in Session, NEW o \in Operation, Become(s, o)
  PROVE  /\ op' \in [Session -> Operation]
         /\ op'[s] = o
         /\ \A t \in Session \ {s} : op'[t] = op[t]
  BY DEF Become

LEMMA IdleTyped == Idle \in Operation /\ Idle.pc = "idle" /\ Idle.seen = NoOne
  BY DEF Idle, Operation, PCs

LEMMA GotoEffect ==
  ASSUME op \in [Session -> Operation], NEW s \in Session, NEW pc \in PCs, Goto(s, pc)
  PROVE  /\ op' \in [Session -> Operation]
         /\ op'[s].pc = pc /\ op'[s].dev = op[s].dev
         /\ \A t \in Session \ {s} : op'[t] = op[t]
  <1> DEFINE o == [op[s] EXCEPT !.pc = pc, !.seen = NoOne]
  <1>1. o \in Operation /\ o.pc = pc /\ o.dev = op[s].dev
    BY DEF Operation
  <1> QED
    BY <1>1, BecomeEffect DEF Goto

LEMMA LookEffect ==
  ASSUME op \in [Session -> Operation], NEW s \in Session, NEW d \in Device, NEW pc \in PCs,
         NEW seen \in Session \cup {NoOne}, Look(s, d, pc, seen)
  PROVE  /\ op' \in [Session -> Operation]
         /\ op'[s].pc = pc /\ op'[s].dev = d /\ op'[s].seen = seen
         /\ \A t \in Session \ {s} : op'[t] = op[t]
  <1> DEFINE o == [op[s] EXCEPT !.pc = pc, !.dev = d, !.seen = seen, !.todo = @ \ {d}]
  <1>1. o \in Operation /\ o.pc = pc /\ o.dev = d /\ o.seen = seen
    BY DEF Operation
  <1> QED
    BY <1>1, BecomeEffect DEF Look

LEMMA DoneEffect ==
  ASSUME op \in [Session -> Operation], NEW s \in Session, Done(s)
  PROVE  /\ op' \in [Session -> Operation]
         /\ op'[s] = Idle
         /\ \A t \in Session \ {s} : op'[t] = op[t]
  BY IdleTyped, BecomeEffect DEF Done

(* The session of the step goes on with a typed operation on a device; the  *)
(* others' operations are unchanged.                                        *)
Advances(s) ==
    /\ op' \in [Session -> Operation]
    /\ op'[s].pc \in Pending \cup {"create"} => op'[s].dev \in Device
    /\ \A t \in Session \ {s} : op'[t] = op[t]

(* Types of the state other than the operations.                            *)
RestTyped ==
    /\ file \in [Device -> LockFile \cup {NoFile}]
    /\ live \in SUBSET Session
    /\ selected \in [Session -> Device \cup {NoDevice}]
    /\ held \in SUBSET (Session \X Device)
    /\ suspect \in SUBSET Device

Typed == TypeOK /\ OnDevice

LEMMA TypedIf ==
  ASSUME Typed, RestTyped', NEW s \in Session, Advances(s)
  PROVE  Typed'
  BY DEF Typed, TypeOK, RestTyped, OnDevice, Advances

LEMMA TypedInit == Init => Typed
  BY IdleTyped DEF Init, Typed, TypeOK, OnDevice, LockFile, Pending, Idle

LEMMA ReadTyped == TypeOK => \A d \in Device : Read(d) \in Session \cup {NoOne}
  BY DEF TypeOK, Read, LockFile, NoFile

LEMMA UnlinkTyped ==
  ASSUME file \in [Device -> LockFile \cup {NoFile}], NEW d, Unlink(d)
  PROVE  file' \in [Device -> LockFile \cup {NoFile}]
  BY DEF Unlink

LEMMA GrantTyped ==
  ASSUME TypeOK, NEW s \in Session, NEW d \in Device, Grant(s, d)
  PROVE  held' \in SUBSET (Session \X Device) /\ selected' \in [Session -> Device \cup {NoDevice}]
  BY DEF TypeOK, Grant

LEMMA WithdrawTyped ==
  ASSUME TypeOK, NEW s \in Session, NEW d \in Device, Withdraw(s, d)
  PROVE  held' \in SUBSET (Session \X Device) /\ selected' \in [Session -> Device \cup {NoDevice}]
  BY DEF TypeOK, Withdraw

LEMMA StopTyped ==
  ASSUME TypeOK, NEW s \in Session, StopServing(s)
  PROVE  held' \in SUBSET (Session \X Device) /\ selected' \in [Session -> Device \cup {NoDevice}]
  BY DEF TypeOK, StopServing

LEMMA TypedAcquireRead ==
  ASSUME Typed, NEW s \in Session, NEW d \in Device, NEW force \in BOOLEAN,
         AcquireRead(s, d, force)
  PROVE  Typed'
  <1> USE DEF Typed
  <1> DEFINE o == [pc |-> IF Read(d) = NoOne THEN "create" ELSE "judge",
                   dev |-> d, force |-> force, seen |-> Read(d), todo |-> {}]
  <1>1. o \in Operation /\ o.dev = d
    BY ReadTyped DEF Operation, PCs, Pending
  <1>2. CASE Read(d) = s
    <2>1. Advances(s)
      BY <1>2 DEF AcquireRead, Advances, TypeOK, OnDevice
    <2>2. RestTyped'
      BY <1>2, GrantTyped DEF AcquireRead, TypeOK, RestTyped
    <2> QED
      BY <2>1, <2>2, TypedIf
  <1>3. CASE Read(d) # s
    <2>1. Become(s, o) /\ UNCHANGED <<file, live, suspect, held, selected>>
      BY <1>3 DEF AcquireRead
    <2>2. Advances(s)
      BY <1>1, <2>1, BecomeEffect DEF Advances, TypeOK
    <2>3. RestTyped'
      BY <2>1 DEF TypeOK, RestTyped
    <2> QED
      BY <2>2, <2>3, TypedIf
  <1> QED
    BY <1>2, <1>3

LEMMA TypedStep == Typed /\ [Next]_vars => Typed'
  <1> SUFFICES ASSUME Typed, [Next]_vars PROVE Typed'
    OBVIOUS
  <1> USE DEF Typed
  <1>a. /\ op \in [Session -> Operation]
        /\ \A s \in Session : op[s].pc \in Pending \cup {"create"} => op[s].dev \in Device
        /\ \A s \in Session : op[s].todo \subseteq Device
    BY DEF TypeOK, OnDevice, Operation
  <1>b. \A pc \in Pending \cup {"create", "scan", "exit"} : pc \in PCs
    BY DEF PCs
  <1>1. ASSUME NEW s \in Session, AcquireJudge(s) PROVE Typed'
    <2>1. op[s].pc \in Pending /\ (Goto(s, "unlink") \/ Done(s))
      BY <1>1 DEF AcquireJudge, Pending
    <2>2. Advances(s)
      BY <1>a, <2>1, GotoEffect, DoneEffect, IdleTyped DEF Advances, Pending, PCs
    <2>3. RestTyped'
      BY <1>a, <1>1, <2>1 DEF AcquireJudge, TypeOK, RestTyped
    <2> QED
      BY <2>2, <2>3, TypedIf
  <1>2. ASSUME NEW s \in Session, AcquireUnlink(s) PROVE Typed'
    <2>1. Advances(s)
      BY <1>a, <1>2, GotoEffect DEF AcquireUnlink, Advances, Pending, PCs
    <2>2. RestTyped'
      BY <1>2, UnlinkTyped DEF AcquireUnlink, TypeOK, RestTyped
    <2> QED
      BY <2>1, <2>2, TypedIf
  <1>3. ASSUME NEW s \in Session, AcquireCreate(s) PROVE Typed'
    <2>1. op[s].dev \in Device
      BY <1>a, <1>3 DEF AcquireCreate
    <2>2. Goto(s, "write") \/ Done(s)
      BY <1>3 DEF AcquireCreate
    <2>3. Advances(s)
      BY <1>a, <2>1, <2>2, GotoEffect, DoneEffect, IdleTyped DEF Advances, Pending, PCs
    <2>4. file' \in [Device -> LockFile \cup {NoFile}]
      <3>1. [owner |-> s, written |-> FALSE] \in LockFile
        BY DEF LockFile
      <3> QED
        BY <1>3, <2>1, <3>1 DEF AcquireCreate, TypeOK
    <2>5. /\ held' \in SUBSET (Session \X Device)
          /\ selected' \in [Session -> Device \cup {NoDevice}]
      BY <1>3, <2>1, GrantTyped DEF AcquireCreate, TypeOK
    <2>6. RestTyped'
      BY <1>3, <2>4, <2>5 DEF AcquireCreate, TypeOK, RestTyped
    <2> QED
      BY <2>3, <2>6, TypedIf
  <1>4. ASSUME NEW s \in Session, AcquireWrite(s) PROVE Typed'
    <2>1. op[s].dev \in Device
      BY <1>a, <1>4 DEF AcquireWrite, Pending
    <2>2. Advances(s)
      BY <1>a, <1>4, DoneEffect, IdleTyped DEF AcquireWrite, Advances, Pending
    <2>3. file' \in [Device -> LockFile \cup {NoFile}]
      <3>1. [owner |-> s, written |-> TRUE] \in LockFile
        BY DEF LockFile
      <3> QED
        BY <1>4, <2>1, <3>1 DEF AcquireWrite, TypeOK
    <2>4. RestTyped'
      BY <1>4, <2>1, <2>3, GrantTyped DEF AcquireWrite, TypeOK, RestTyped
    <2> QED
      BY <2>2, <2>4, TypedIf
  <1>5. ASSUME NEW s \in Session, NEW d \in Device, ReleaseRead(s, d) PROVE Typed'
    <2> DEFINE o == [Idle EXCEPT !.pc = "relUnlink", !.dev = d]
    <2>1. o \in Operation /\ o.dev = d
      BY DEF Idle, Operation, PCs, Pending
    <2>2. Advances(s)
      BY <1>a, <1>5, <2>1, BecomeEffect DEF ReleaseRead, Advances, TypeOK
    <2>3. RestTyped'
      BY <1>5, WithdrawTyped DEF ReleaseRead, TypeOK, RestTyped
    <2> QED
      BY <2>2, <2>3, TypedIf
  <1>6. ASSUME NEW s \in Session, ReleaseUnlink(s) PROVE Typed'
    <2>1. op[s].dev \in Device
      BY <1>a, <1>6 DEF ReleaseUnlink, Pending
    <2>2. Advances(s)
      BY <1>a, <1>6, DoneEffect, IdleTyped DEF ReleaseUnlink, Advances, Pending
    <2>3. RestTyped'
      BY <1>6, <2>1, UnlinkTyped, WithdrawTyped DEF ReleaseUnlink, TypeOK, RestTyped
    <2> QED
      BY <2>2, <2>3, TypedIf
  <1>7. ASSUME NEW s \in Session, NEW d \in Device, ForceRelease(s, d) PROVE Typed'
    <2>1. Advances(s)
      BY <1>a, <1>7 DEF ForceRelease, Advances
    <2>2. RestTyped'
      BY <1>7, UnlinkTyped DEF ForceRelease, TypeOK, RestTyped
    <2> QED
      BY <2>1, <2>2, TypedIf
  <1>8. ASSUME NEW s \in Session, NEW devs \in SUBSET Device, ScanBegin(s, devs) PROVE Typed'
    <2> DEFINE o == [Idle EXCEPT !.pc = "scan", !.todo = devs]
    <2>1. o \in Operation /\ o.pc = "scan"
      BY DEF Idle, Operation, PCs, Pending
    <2>2. Advances(s)
      BY <1>a, <1>8, <2>1, BecomeEffect DEF ScanBegin, Advances, Pending
    <2>3. RestTyped'
      BY <1>8 DEF ScanBegin, TypeOK, RestTyped
    <2> QED
      BY <2>2, <2>3, TypedIf
  <1>9. ASSUME NEW s \in Session, ScanRead(s) PROVE Typed'
    <2>1. RestTyped'
      BY <1>9 DEF ScanRead, TypeOK, RestTyped
    <2>2. CASE Done(s)
      BY <1>a, <2>1, <2>2, DoneEffect, IdleTyped, TypedIf DEF Advances, Pending
    <2>3. ASSUME NEW d \in op[s].todo,
                 Look(s, d, IF Read(d) = NoOne THEN "scan" ELSE "scanJudge", Read(d))
          PROVE Typed'
      <3>1. d \in Device /\ Read(d) \in Session \cup {NoOne}
        BY <1>a, ReadTyped
      <3>2. Advances(s)
        BY <1>a, <2>3, <3>1, LookEffect DEF Advances, Pending, PCs
      <3> QED
        BY <2>1, <3>2, TypedIf
    <2> QED
      BY <1>9, <2>2, <2>3 DEF ScanRead
  <1>10. ASSUME NEW s \in Session, ScanJudge(s) PROVE Typed'
    <2>1. op[s].dev \in Device /\ (Goto(s, "scan") \/ Goto(s, "scanUnlink"))
      BY <1>a, <1>10 DEF ScanJudge, Pending
    <2>2. Advances(s)
      BY <1>a, <2>1, GotoEffect DEF Advances, Pending, PCs
    <2>3. RestTyped'
      BY <1>10 DEF ScanJudge, TypeOK, RestTyped
    <2> QED
      BY <2>2, <2>3, TypedIf
  <1>11. ASSUME NEW s \in Session, ScanUnlink(s) PROVE Typed'
    <2>1. Advances(s)
      BY <1>a, <1>11, GotoEffect DEF ScanUnlink, Advances, Pending, PCs
    <2>2. RestTyped'
      BY <1>11, UnlinkTyped DEF ScanUnlink, TypeOK, RestTyped
    <2> QED
      BY <2>1, <2>2, TypedIf
  <1>12. ASSUME NEW s \in Session, Crash(s) PROVE Typed'
    <2>1. Advances(s)
      BY <1>a, <1>12, DoneEffect, IdleTyped DEF Crash, End, Advances, Pending
    <2>2. RestTyped'
      BY <1>12, StopTyped DEF Crash, End, Observed, TypeOK, RestTyped
    <2> QED
      BY <2>1, <2>2, TypedIf
  <1>13. ASSUME NEW s \in Session, ExitBegin(s) PROVE Typed'
    <2> DEFINE o == [Idle EXCEPT !.pc = "exit", !.todo = {d \in Device : file[d] # NoFile}]
    <2>1. o \in Operation /\ o.pc = "exit"
      BY DEF Idle, Operation, PCs, Pending
    <2>2. Advances(s)
      BY <1>a, <1>13, <2>1, BecomeEffect DEF ExitBegin, Advances, Pending
    <2>3. RestTyped'
      BY <1>13, StopTyped DEF ExitBegin, TypeOK, RestTyped
    <2> QED
      BY <2>2, <2>3, TypedIf
  <1>14. ASSUME NEW s \in Session, ExitRead(s) PROVE Typed'
    <2>1. PICK d \in op[s].todo : Look(s, d, IF Read(d) = s THEN "exitUnlink" ELSE "exit", NoOne)
      BY <1>14 DEF ExitRead
    <2>2. Advances(s)
      BY <1>a, <2>1, LookEffect DEF Advances, Pending, PCs
    <2>3. RestTyped'
      BY <1>14 DEF ExitRead, TypeOK, RestTyped
    <2> QED
      BY <2>2, <2>3, TypedIf
  <1>15. ASSUME NEW s \in Session, ExitUnlink(s) PROVE Typed'
    <2>1. Advances(s)
      BY <1>a, <1>15, GotoEffect DEF ExitUnlink, Advances, Pending, PCs
    <2>2. RestTyped'
      BY <1>15, UnlinkTyped DEF ExitUnlink, TypeOK, RestTyped
    <2> QED
      BY <2>1, <2>2, TypedIf
  <1>16. ASSUME NEW s \in Session, ExitEnd(s) PROVE Typed'
    <2>1. Advances(s)
      BY <1>a, <1>16, DoneEffect, IdleTyped DEF ExitEnd, End, Advances, Pending
    <2>2. RestTyped'
      BY <1>16 DEF ExitEnd, End, Observed, TypeOK, RestTyped
    <2> QED
      BY <2>1, <2>2, TypedIf
  <1>17. ASSUME NEW d \in Device, Settle(d) PROVE Typed'
    BY <1>17 DEF Settle, TypeOK, OnDevice
  <1>18. CASE UNCHANGED vars
    BY <1>18 DEF vars, TypeOK, OnDevice
  <1>19. ASSUME NEW s \in Session, Call(s) PROVE Typed'
    <2>1. {d \in Device : file[d] # NoFile} \in SUBSET Device /\ \A d \in Device : {d} \in SUBSET Device
      OBVIOUS
    <2> QED
      BY <1>5, <1>7, <1>8, <1>13, <1>19, <2>1, TypedAcquireRead DEF Call, ListLocks, LockFor
  <1>20. ASSUME NEW s \in Session, Continue(s) PROVE Typed'
    BY <1>1, <1>2, <1>3, <1>4, <1>6, <1>9, <1>10, <1>11, <1>14, <1>15, <1>16, <1>20 DEF Continue
  <1> QED
    BY <1>12, <1>17, <1>18, <1>19, <1>20 DEF Next

(* The type invariant of the lock state holds in every behaviour.           *)
THEOREM TypeCorrect == Safety => []TypeOK
  <1>1. Typed => TypeOK
    BY DEF Typed
  <1> QED
    BY <1>1, TypedInit, TypedStep, PTL DEF Safety
-----------------------------------------------------------------------------
(* A device the step leaves alone stays sound when the operation of the     *)
(* stepping session is.                                                     *)
LEMMA SoundIf ==
  ASSUME NEW d \in Device, Sound(d), NEW s \in Session,
         file'[d] = file[d], live' = live,
         \A t \in Session : <<t, d>> \in held' => <<t, d>> \in held,
         \A t \in Session \ {s} : op'[t] = op[t],
         op'[s].dev = d => OpSound(s, d)'
  PROVE  Sound(d)'
  BY DEF Sound, HoldersNamed, OwnerLive, OpSound, Holders

(* Sessions other than the stepping one keep what Departed says of them.    *)
LEMMA DepartedIf ==
  ASSUME Departed, NEW s \in live, s \in Session, live' = live,
         \A t \in Session \ {s} : op'[t] = op[t],
         \A t \in Session \ {s}, d \in Device : <<t, d>> \in held' => <<t, d>> \in held,
         op'[s].pc \in {"exit", "exitUnlink"} => \A d \in Device : <<s, d>> \notin held'
  PROVE  Departed'
  BY DEF Departed, Holders

LEMMA EngagedLive ==
  ASSUME Departed, NEW s \in Session, op[s].pc # "idle"
  PROVE  s \in live
  BY IdleTyped DEF Departed

LEMMA DeadOrphans ==
  ASSUME Typed, Departed, NEW s \in Session, s \in live, End(s),
         \A h \in held' : h \in held,
         SoundNow
  PROVE  Departed' /\ SoundNow'
  <1>1. /\ op' \in [Session -> Operation] /\ op'[s] = Idle
        /\ \A t \in Session \ {s} : op'[t] = op[t]
    BY DoneEffect DEF End, Typed, TypeOK
  <1>2. Departed'
    BY <1>1, IdleTyped DEF Departed, End, Holders
  <1>3. ASSUME NEW d \in Device, d \notin suspect' PROVE Sound(d)'
    <2>1. /\ d \notin suspect /\ file' = file /\ file[d].owner # s
          /\ \A t \in Session : op[t].dev = d => op[t].seen # s
      BY <1>3 DEF End, Observed
    <2>2. HoldersNamed(d)' /\ OwnerLive(d)'
      BY <2>1 DEF SoundNow, Sound, HoldersNamed, OwnerLive, Holders, End
    <2>3. ASSUME NEW t \in Session, op'[t].dev = d PROVE OpSound(t, d)'
      <3>1. t # s
        BY <1>1, <2>3, ConstantsOK DEF Idle
      <3> QED
        BY <1>1, <2>1, <2>3, <3>1 DEF Sound, OpSound, End, SoundNow
    <2> QED
      BY <2>2, <2>3 DEF Sound
  <1> QED
    BY <1>2, <1>3 DEF SoundNow

(* Only the operation of session s changes.                                 *)
Apart(s) ==
    /\ op' \in [Session -> Operation]
    /\ \A t \in Session \ {s} : op'[t] = op[t]

LEMMA SoundInit == Init => Departed /\ SoundNow
  BY IdleTyped DEF Init, Departed, SoundNow, Sound, HoldersNamed, OwnerLive, OpSound, Holders

(* A step that touches neither files nor grants, and leaves its session in  *)
(* an operation that is sound.                                              *)
LEMMA QuietStep ==
  ASSUME Typed, Departed, SoundNow, NEW s \in Session, s \in live, Apart(s),
         UNCHANGED <<file, live, held>>, suspect \subseteq suspect',
         \A d \in Device \ suspect' : op'[s].dev = d => OpSound(s, d)',
         op'[s].pc \in {"exit", "exitUnlink"} => op[s].pc \in {"exit", "exitUnlink"}
  PROVE  Departed' /\ SoundNow'
  <1>1. Departed'
    BY DepartedIf DEF Departed, Apart, Holders
  <1>2. ASSUME NEW d \in Device, d \notin suspect' PROVE Sound(d)'
    <2>1. Sound(d) /\ (op'[s].dev = d => OpSound(s, d)')
      BY <1>2 DEF SoundNow
    <2> QED
      BY <2>1, SoundIf DEF Apart
  <1> QED
    BY <1>1, <1>2 DEF SoundNow

(* A file without content names nobody, so nobody holds the device.         *)
LEMMA UnwrittenUnheld ==
  ASSUME NEW d \in Device, HoldersNamed(d), ~file[d].written
  PROVE  Holders(d) = {}
  <1> SUFFICES ASSUME NEW s \in Holders(d) PROVE FALSE
    OBVIOUS
  <1>1. file[d] = [owner |-> s, written |-> TRUE]
    BY DEF HoldersNamed
  <1> QED
    BY <1>1

(* Unlinking one's own lock file, with what it meant to others still true.  *)
LEMMA UnlinkOwn ==
  ASSUME Typed, SoundNow, NEW s \in Session, NEW d \in Device, op[s].dev = d,
         op[s].pc \in {"relUnlink", "exitUnlink"}, Unlink(d), Apart(s),
         UNCHANGED <<live, suspect>>, held' \subseteq held, <<s, d>> \notin held',
         op'[s].pc \notin Pending
  PROVE  SoundNow'
  <1>1. /\ file'[d] = NoFile
        /\ \A e \in Device \ {d} : file'[e] = file[e]
    BY DEF Unlink, Typed, TypeOK
  <1>2. OpSound(s, d)'
    BY DEF OpSound, Pending
  <1>3. ASSUME NEW e \in Device, e \notin suspect', e # d PROVE Sound(e)'
    <2>1. Sound(e) /\ OpSound(s, e)'
      BY <1>3 DEF SoundNow, OpSound, Pending
    <2> QED
      BY <1>1, <1>3, <2>1, SoundIf DEF Apart
  <1>4. ASSUME d \notin suspect' PROVE Sound(d)'
    <2>1. Sound(d) /\ file[d] = [owner |-> s, written |-> TRUE]
      BY <1>4 DEF SoundNow, Sound, OpSound
    <2>2. HoldersNamed(d)' /\ OwnerLive(d)'
      <3>1. \A t \in Session : <<t, d>> \in held => t = s
        <4> SUFFICES ASSUME NEW t \in Session, <<t, d>> \in held PROVE t = s
          OBVIOUS
        <4>1. file[d] = [owner |-> t, written |-> TRUE]
          BY <2>1 DEF Sound, HoldersNamed, Holders
        <4> QED
          BY <2>1, <4>1
      <3>2. \A t \in Session : <<t, d>> \notin held'
        BY <3>1
      <3>3. HoldersNamed(d)'
        BY <3>2 DEF HoldersNamed, Holders
      <3>4. OwnerLive(d)'
        BY <1>1 DEF OwnerLive, NoFile
      <3> QED
        BY <3>3, <3>4
    <2>3. ASSUME NEW t \in Session, op'[t].dev = d PROVE OpSound(t, d)'
      <3>1. CASE t # s
        <4>1. op'[t] = op[t] /\ OpSound(t, d)
          BY <2>1, <2>3, <3>1 DEF Apart, Sound
        <4>2. op[t].pc \notin {"write", "relUnlink", "exitUnlink"}
          BY <2>1, <3>1, <4>1 DEF OpSound
        <4> QED
          BY <4>1, <4>2 DEF OpSound
      <3> QED
        BY <1>2, <3>1
    <2> QED
      BY <2>2, <2>3 DEF Sound
  <1> QED
    BY <1>3, <1>4 DEF SoundNow

LEMMA SoundStep == Typed /\ Departed /\ SoundNow /\ [Next]_vars => Departed' /\ SoundNow'
  <1> SUFFICES ASSUME Typed, Departed, SoundNow, [Next]_vars PROVE Departed' /\ SoundNow'
    OBVIOUS
  <1>a. /\ op \in [Session -> Operation]
        /\ \A s \in Session : op[s].pc \in Pending \cup {"create"} => op[s].dev \in Device
        /\ \A s \in Session : op[s].todo \subseteq Device
    BY DEF Typed, TypeOK, OnDevice, Operation
  <1>b. \A s \in Session, d \in Device : d \notin suspect /\ op[s].dev = d => OpSound(s, d)
    BY DEF SoundNow, Sound
  <1>c. Idle.dev \notin Device
    BY ConstantsOK DEF Idle
  <1>1. ASSUME NEW s \in Session, NEW d \in Device, NEW force \in BOOLEAN,
               AcquireRead(s, d, force)
        PROVE Departed' /\ SoundNow'
    <2>1. s \in live /\ op[s] = Idle /\ UNCHANGED <<file, live, suspect>>
      BY <1>1 DEF AcquireRead, Ready
    <2>2. CASE Read(d) = s
      <3>1. /\ op' = op /\ held' = held \cup {<<s, d>>}
            /\ file[d].written /\ file[d].owner = s
        BY <1>1, <2>2, ConstantsOK DEF AcquireRead, Grant, Read
      <3>2. file[d] = [owner |-> s, written |-> TRUE]
        BY <3>1, ConstantsOK DEF Typed, TypeOK, LockFile, NoFile
      <3>3. Departed'
        BY <2>1, <3>1, IdleTyped DEF Departed, Holders
      <3>4. ASSUME NEW e \in Device, e \notin suspect' PROVE Sound(e)'
        BY <2>1, <3>1, <3>2, <3>4 DEF SoundNow, Sound, HoldersNamed, OwnerLive, OpSound, Holders
      <3> QED
        BY <3>3, <3>4 DEF SoundNow
    <2>3. CASE Read(d) # s
      <3> DEFINE o == [pc |-> IF Read(d) = NoOne THEN "create" ELSE "judge",
                       dev |-> d, force |-> force, seen |-> Read(d), todo |-> {}]
      <3>1. o \in Operation /\ o.dev = d /\ o.seen = Read(d) /\ o.pc \in {"create", "judge"}
            /\ (o.pc = "judge" => Read(d) # NoOne)
        BY ReadTyped DEF Operation, PCs, Pending, Typed
      <3>2. Apart(s) /\ op'[s] = o /\ held' = held
        BY <1>1, <1>a, <2>3, <3>1, BecomeEffect DEF AcquireRead, Apart
      <3>3. ASSUME NEW e \in Device, e \notin suspect', op'[s].dev = e PROVE OpSound(s, e)'
        <4>1. e = d /\ Sound(d)
          BY <2>1, <3>1, <3>2, <3>3 DEF SoundNow
        <4>2. Read(d) # NoOne => Read(d) \in live
          BY <4>1 DEF Sound, OwnerLive, Read, NoFile
        <4> QED
          BY <2>1, <3>1, <3>2, <4>2 DEF OpSound
      <3> QED
        BY <2>1, <3>1, <3>2, <3>3, QuietStep
    <2> QED
      BY <2>2, <2>3
  <1>2. ASSUME NEW s \in Session, AcquireJudge(s) PROVE Departed' /\ SoundNow'
    <2>1. /\ s \in live /\ UNCHANGED <<file, live, held>> /\ suspect \subseteq suspect'
          /\ op[s].pc = "judge" /\ op[s].dev \in Device
      BY <1>2, <1>a, EngagedLive DEF AcquireJudge, Pending
    <2>2. CASE op[s].seen \notin live \/ op[s].force
      <3>0. Goto(s, "unlink") /\ (op[s].seen \in live => op[s].dev \in suspect')
        BY <1>2, <2>1, <2>2 DEF AcquireJudge
      <3>1. Apart(s) /\ op'[s].pc = "unlink" /\ op'[s].dev = op[s].dev
        BY <1>a, <3>0, GotoEffect DEF Apart, PCs, Pending
      <3>2. op[s].dev \in suspect'
        BY <1>b, <2>1, <3>0 DEF OpSound
      <3> QED
        BY <2>1, <3>1, <3>2, QuietStep
    <2>3. CASE op[s].seen \in live /\ ~op[s].force
      <3>1. Apart(s) /\ op'[s] = Idle
        BY <1>2, <1>a, <2>3, DoneEffect DEF AcquireJudge, Apart
      <3> QED
        BY <2>1, <3>1, IdleTyped, <1>c, QuietStep
    <2> QED
      BY <2>2, <2>3
  <1>3. ASSUME NEW s \in Session, AcquireUnlink(s) PROVE Departed' /\ SoundNow'
    <2>1. /\ s \in live /\ UNCHANGED <<live, held, suspect>>
          /\ op[s].dev \in suspect
      BY <1>3, <1>a, <1>b, EngagedLive DEF AcquireUnlink, Pending, OpSound
    <2>2. Apart(s) /\ op'[s].pc = "create" /\ op'[s].dev = op[s].dev
      BY <1>3, <1>a, GotoEffect DEF AcquireUnlink, Apart, PCs
    <2>3. \A d \in Device \ suspect : file'[d] = file[d]
      BY <1>3, <2>1 DEF AcquireUnlink, Unlink, Typed, TypeOK
    <2>4. Departed'
      BY <2>1, <2>2, DepartedIf DEF Apart
    <2>5. ASSUME NEW d \in Device, d \notin suspect' PROVE Sound(d)'
      BY <2>1, <2>2, <2>3, <2>5, SoundIf DEF Apart, SoundNow
    <2> QED
      BY <2>4, <2>5 DEF SoundNow
  <1>4. ASSUME NEW s \in Session, AcquireCreate(s) PROVE Departed' /\ SoundNow'
    <2>0. PICK d \in Device : d = op[s].dev
      BY <1>4, <1>a DEF AcquireCreate
    <2>1. s \in live /\ UNCHANGED <<live, suspect>>
      BY <1>4, <1>a, EngagedLive DEF AcquireCreate
    <2>2. CASE file[d] = NoFile
      <3>1. /\ file' = [file EXCEPT ![d] = [owner |-> s, written |-> FALSE]]
            /\ Goto(s, "write") /\ held' = held
        BY <1>4, <2>0, <2>2 DEF AcquireCreate
      <3>2. Apart(s) /\ op'[s].pc = "write" /\ op'[s].dev = d
        BY <1>a, <2>0, <3>1, GotoEffect DEF Apart, PCs, Pending
      <3>3. Departed'
        BY <2>0, <2>1, <3>1, <3>2, DepartedIf DEF Apart
      <3>4. /\ file'[d] = [owner |-> s, written |-> FALSE]
            /\ \A e \in Device \ {d} : file'[e] = file[e]
        BY <2>0, <2>1, <3>1 DEF Typed, TypeOK
      <3>5. ASSUME NEW e \in Device, e \notin suspect', e # d PROVE Sound(e)'
        BY <2>0, <2>1, <3>1, <3>2, <3>4, <3>5, SoundIf DEF Apart, SoundNow
      <3>6. ASSUME d \notin suspect' PROVE Sound(d)'
        <4>1. Sound(d)
          BY <2>0, <2>1, <3>6 DEF SoundNow
        <4>2. Holders(d) = {}
          BY <2>2, <4>1, UnwrittenUnheld DEF Sound, NoFile
        <4>3. HoldersNamed(d)' /\ OwnerLive(d)'
          BY <2>0, <2>1, <3>1, <3>4, <4>2 DEF HoldersNamed, OwnerLive, Holders
        <4>4. ASSUME NEW t \in Session, op'[t].dev = d PROVE OpSound(t, d)'
          <5>1. CASE t = s
            BY <3>2, <3>4, <5>1 DEF OpSound
          <5>2. CASE t # s
            <6>1. op'[t] = op[t] /\ OpSound(t, d)
              BY <3>2, <4>1, <4>4, <5>2 DEF Apart, Sound
            <6>2. op[t].pc \notin {"write", "relUnlink", "exitUnlink"}
              BY <2>2, <6>1, ConstantsOK DEF OpSound, NoFile
            <6> QED
              BY <2>0, <2>1, <6>1, <6>2 DEF OpSound
          <5> QED
            BY <5>1, <5>2
        <4> QED
          BY <4>3, <4>4 DEF Sound
      <3> QED
        BY <3>3, <3>5, <3>6 DEF SoundNow
    <2>3. CASE file[d] # NoFile
      <3>1. Apart(s) /\ op'[s] = Idle /\ file' = file
        BY <1>4, <1>a, <2>0, <2>3, DoneEffect DEF AcquireCreate, Apart
      <3>2. CASE Read(d) # s
        <4>1. held' = held
          BY <1>4, <2>0, <2>3, <3>2 DEF AcquireCreate
        <4> QED
          BY <2>0, <2>1, <3>1, <4>1, IdleTyped, <1>c, QuietStep
      <3>3. CASE Read(d) = s
        <4>1. held' = held \cup {<<s, d>>} /\ file[d] = [owner |-> s, written |-> TRUE]
          BY <1>4, <2>0, <2>1, <2>3, <3>3, ConstantsOK
          DEF AcquireCreate, Grant, Read, Typed, TypeOK, LockFile, NoFile
        <4>2. Departed'
          BY <2>0, <2>1, <3>1, <4>1, IdleTyped, DepartedIf DEF Apart
        <4>3. ASSUME NEW e \in Device, e \notin suspect' PROVE Sound(e)'
          <5>1. Sound(e)
            BY <2>0, <2>1, <4>3 DEF SoundNow
          <5>2. HoldersNamed(e)' /\ OwnerLive(e)'
            BY <2>0, <2>1, <3>1, <4>1, <5>1 DEF Sound, HoldersNamed, OwnerLive, Holders
          <5>3. ASSUME NEW t \in Session, op'[t].dev = e PROVE OpSound(t, e)'
            BY <2>0, <2>1, <3>1, <5>1, <5>3, <1>c DEF Apart, Sound, OpSound
          <5> QED
            BY <5>2, <5>3 DEF Sound
        <4> QED
          BY <4>2, <4>3 DEF SoundNow
      <3> QED
        BY <3>2, <3>3
    <2> QED
      BY <2>2, <2>3
  <1>5. ASSUME NEW s \in Session, AcquireWrite(s) PROVE Departed' /\ SoundNow'
    <2>0. PICK d \in Device : d = op[s].dev
      BY <1>5, <1>a DEF AcquireWrite, Pending
    <2>1. /\ s \in live /\ UNCHANGED <<live, suspect>>
          /\ held' = held \cup {<<s, d>>}
      BY <1>5, <1>a, <2>0, EngagedLive DEF AcquireWrite, Pending, Grant
    <2>2. Apart(s) /\ op'[s] = Idle
      BY <1>5, <1>a, DoneEffect DEF AcquireWrite, Apart
    <2>3. Departed'
      BY <2>0, <2>1, <2>2, IdleTyped, DepartedIf DEF Apart
    <2>4. /\ \A e \in Device \ {d} : file'[e] = file[e]
          /\ file[d] = [owner |-> s, written |-> FALSE]
                => file'[d] = [owner |-> s, written |-> TRUE]
      BY <1>5, <2>0, <2>1 DEF AcquireWrite, Typed, TypeOK
    <2>5. ASSUME NEW e \in Device, e \notin suspect', e # d PROVE Sound(e)'
      BY <2>0, <2>1, <2>2, <2>4, <2>5, <1>c, SoundIf DEF Apart, SoundNow
    <2>6. ASSUME d \notin suspect' PROVE Sound(d)'
      <3>1. Sound(d) /\ file[d] = [owner |-> s, written |-> FALSE]
        BY <1>5, <2>0, <2>1, <2>6 DEF SoundNow, Sound, OpSound, AcquireWrite
      <3>2. Holders(d) = {}
        BY <3>1, UnwrittenUnheld DEF Sound
      <3>4. HoldersNamed(d)' /\ OwnerLive(d)'
        <4>1. file'[d] = [owner |-> s, written |-> TRUE] /\ live' = live
          BY <2>1, <2>4, <3>1
        <4>2. \A t \in Session : <<t, d>> \in held' => t = s
          <5>1. \A t \in Session : <<t, d>> \notin held
            BY <3>2 DEF Holders
          <5> QED
            BY <2>1, <5>1
        <4>3. HoldersNamed(d)'
          BY <4>1, <4>2 DEF HoldersNamed, Holders
        <4>4. OwnerLive(d)'
          BY <2>1, <4>1 DEF OwnerLive
        <4> QED
          BY <4>3, <4>4
      <3>3. ASSUME NEW t \in Session, op'[t].dev = d PROVE OpSound(t, d)'
        <4>1. t # s /\ op'[t] = op[t] /\ OpSound(t, d)
          BY <2>0, <2>1, <2>2, <3>1, <3>3, <1>c DEF Apart, Sound
        <4>2. op[t].pc \notin {"write", "relUnlink", "exitUnlink"}
          BY <3>1, <4>1 DEF OpSound
        <4> QED
          BY <2>0, <2>1, <4>1, <4>2 DEF OpSound
      <3> QED
        BY <3>3, <3>4 DEF Sound
    <2> QED
      BY <2>3, <2>5, <2>6 DEF SoundNow
  <1>6. ASSUME NEW s \in Session, NEW d \in Device, ReleaseRead(s, d) PROVE Departed' /\ SoundNow'
    <2>1. s \in live /\ op[s] = Idle /\ UNCHANGED <<file, live, suspect>>
      BY <1>6 DEF ReleaseRead, Ready
    <2>2. CASE Read(d) = NoOne
      <3>1. op' = op /\ held' = held \ {<<s, d>>}
        BY <1>6, <2>2, ConstantsOK DEF ReleaseRead, Withdraw
      <3>2. Departed'
        BY <2>1, <3>1 DEF Departed, Holders
      <3>3. ASSUME NEW e \in Device, e \notin suspect' PROVE Sound(e)'
        BY <2>1, <3>1, <3>3, <1>c, SoundIf DEF SoundNow
      <3> QED
        BY <3>2, <3>3 DEF SoundNow
    <2>3. CASE Read(d) # NoOne
      <3> DEFINE o == [Idle EXCEPT !.pc = "relUnlink", !.dev = d]
      <3>1. o \in Operation /\ o.dev = d /\ o.pc = "relUnlink"
        BY DEF Idle, Operation, PCs, Pending
      <3>2. Apart(s) /\ op'[s] = o /\ held' = held /\ Read(d) = s
        BY <1>6, <1>a, <2>3, <3>1, BecomeEffect DEF ReleaseRead, Apart
      <3>3. file[d].written /\ file[d].owner = s
        BY <2>3, <3>2 DEF Read
      <3>4. file'[d] = [owner |-> s, written |-> TRUE]
        BY <2>1, <3>3 DEF Typed, TypeOK, LockFile, NoFile
      <3>5. OpSound(s, d)'
        BY <3>1, <3>2, <3>4 DEF OpSound
      <3> QED
        BY <2>1, <3>1, <3>2, <3>5, QuietStep
    <2> QED
      BY <2>2, <2>3
  <1>7. ASSUME NEW s \in Session, ReleaseUnlink(s) PROVE Departed' /\ SoundNow'
    <2>1. PICK d \in Device : d = op[s].dev
      BY <1>7, <1>a DEF ReleaseUnlink, Pending
    <2>2. /\ s \in live /\ UNCHANGED <<live, suspect>> /\ Unlink(d)
          /\ held' = held \ {<<s, d>>} /\ op[s].pc = "relUnlink"
      BY <1>7, <2>1, EngagedLive DEF ReleaseUnlink, Withdraw
    <2>3. Apart(s) /\ op'[s] = Idle
      BY <1>7, <1>a, DoneEffect DEF ReleaseUnlink, Apart
    <2>4. Departed'
      BY <2>2, <2>3, IdleTyped, DepartedIf DEF Apart
    <2>5. op'[s].pc \notin Pending
      BY <2>3, IdleTyped DEF Pending
    <2> QED
      BY <2>1, <2>2, <2>3, <2>4, <2>5, UnlinkOwn
  <1>8. ASSUME NEW s \in Session, NEW d \in Device, ForceRelease(s, d) PROVE Departed' /\ SoundNow'
    <2>1. /\ UNCHANGED <<live, op, held>> /\ suspect' = suspect \cup {d}
          /\ \A e \in Device \ {d} : file'[e] = file[e]
      BY <1>8 DEF ForceRelease, Unlink, Typed, TypeOK
    <2>2. Departed'
      BY <2>1 DEF Departed, Holders
    <2>3. ASSUME NEW e \in Device, e \notin suspect' PROVE Sound(e)'
      <3>1. Sound(e) /\ file'[e] = file[e]
        BY <2>1, <2>3 DEF SoundNow
      <3> QED
        BY <1>b, <2>1, <2>3, <3>1, SoundIf DEF Sound, OpSound
    <2> QED
      BY <2>2, <2>3 DEF SoundNow
  <1>9. ASSUME NEW s \in Session, NEW devs \in SUBSET Device, ScanBegin(s, devs)
        PROVE Departed' /\ SoundNow'
    <2> DEFINE o == [Idle EXCEPT !.pc = "scan", !.todo = devs]
    <2>1. o \in Operation /\ o.pc = "scan" /\ o.dev = Idle.dev
      BY DEF Idle, Operation, PCs, Pending
    <2>2. Apart(s) /\ op'[s] = o /\ s \in live /\ UNCHANGED <<file, live, held, suspect>>
      BY <1>9, <1>a, <2>1, BecomeEffect DEF ScanBegin, Ready, Apart
    <2> QED
      BY <2>1, <2>2, <1>c, QuietStep
  <1>10. ASSUME NEW s \in Session, ScanRead(s) PROVE Departed' /\ SoundNow'
    <2>1. s \in live /\ UNCHANGED <<file, live, held, suspect>>
      BY <1>10, EngagedLive DEF ScanRead
    <2>2. CASE Done(s)
      <3>1. Apart(s) /\ op'[s] = Idle
        BY <1>a, <2>2, DoneEffect DEF Apart
      <3> QED
        BY <2>1, <3>1, IdleTyped, <1>c, QuietStep
    <2>3. ASSUME NEW d \in op[s].todo,
                 Look(s, d, IF Read(d) = NoOne THEN "scan" ELSE "scanJudge", Read(d))
          PROVE Departed' /\ SoundNow'
      <3>1. d \in Device /\ Read(d) \in Session \cup {NoOne}
        BY <1>a, ReadTyped DEF Typed
      <3>2. /\ Apart(s) /\ op'[s].dev = d /\ op'[s].seen = Read(d)
            /\ op'[s].pc = IF Read(d) = NoOne THEN "scan" ELSE "scanJudge"
        BY <1>a, <2>3, <3>1, LookEffect DEF Apart, PCs, Pending
      <3>3. ASSUME d \notin suspect' PROVE OpSound(s, d)'
        <4>1. Read(d) # NoOne => Read(d) \in live
          BY <2>1, <3>1, <3>3 DEF SoundNow, Sound, OwnerLive, Read, NoFile
        <4> QED
          BY <2>1, <3>2, <4>1 DEF OpSound
      <3> QED
        BY <2>1, <3>1, <3>2, <3>3, QuietStep
    <2> QED
      BY <1>10, <2>2, <2>3 DEF ScanRead
  <1>11. ASSUME NEW s \in Session, ScanJudge(s) PROVE Departed' /\ SoundNow'
    <2>1. /\ s \in live /\ UNCHANGED <<file, live, held, suspect>>
          /\ op[s].pc = "scanJudge" /\ op[s].dev \in Device
      BY <1>11, <1>a, EngagedLive DEF ScanJudge, Pending
    <2>2. CASE op[s].seen \in live
      <3>1. Apart(s) /\ op'[s].pc = "scan"
        BY <1>11, <1>a, <2>2, GotoEffect DEF ScanJudge, Apart, PCs
      <3> QED
        BY <2>1, <3>1, QuietStep DEF OpSound
    <2>3. CASE op[s].seen \notin live
      <3>1. Apart(s) /\ op'[s].pc = "scanUnlink" /\ op'[s].dev = op[s].dev
        BY <1>11, <1>a, <2>3, GotoEffect DEF ScanJudge, Apart, PCs, Pending
      <3>2. op[s].dev \in suspect'
        BY <1>b, <2>1, <2>3 DEF OpSound
      <3> QED
        BY <2>1, <3>1, <3>2, QuietStep
    <2> QED
      BY <2>2, <2>3
  <1>12. ASSUME NEW s \in Session, ScanUnlink(s) PROVE Departed' /\ SoundNow'
    <2>1. /\ s \in live /\ UNCHANGED <<live, held, suspect>>
          /\ op[s].dev \in suspect
      BY <1>12, <1>a, <1>b, EngagedLive DEF ScanUnlink, Pending, OpSound
    <2>2. Apart(s) /\ op'[s].pc = "scan" /\ op'[s].dev = op[s].dev
      BY <1>12, <1>a, GotoEffect DEF ScanUnlink, Apart, PCs
    <2>3. \A d \in Device \ suspect : file'[d] = file[d]
      BY <1>12, <2>1 DEF ScanUnlink, Unlink, Typed, TypeOK
    <2>4. Departed'
      BY <2>1, <2>2, DepartedIf DEF Apart
    <2>5. ASSUME NEW d \in Device, d \notin suspect' PROVE Sound(d)'
      BY <2>1, <2>2, <2>3, <2>5, SoundIf DEF Apart, SoundNow
    <2> QED
      BY <2>4, <2>5 DEF SoundNow
  <1>13. ASSUME NEW s \in Session, Crash(s) PROVE Departed' /\ SoundNow'
    BY <1>13, DeadOrphans DEF Crash, StopServing
  <1>14. ASSUME NEW s \in Session, ExitBegin(s) PROVE Departed' /\ SoundNow'
    <2> DEFINE o == [Idle EXCEPT !.pc = "exit", !.todo = {d \in Device : file[d] # NoFile}]
    <2>1. o \in Operation /\ o.pc = "exit" /\ o.dev = Idle.dev
      BY DEF Idle, Operation, PCs, Pending
    <2>2. /\ Apart(s) /\ op'[s] = o /\ s \in live /\ UNCHANGED <<file, live, suspect>>
          /\ held' = {h \in held : h[1] # s}
      BY <1>14, <1>a, <2>1, BecomeEffect DEF ExitBegin, StopServing, Ready, Apart
    <2>3. Departed'
      BY <2>1, <2>2, DepartedIf DEF Apart
    <2>4. ASSUME NEW d \in Device, d \notin suspect' PROVE Sound(d)'
      BY <2>1, <2>2, <2>4, <1>c, SoundIf DEF Apart, SoundNow
    <2> QED
      BY <2>3, <2>4 DEF SoundNow
  <1>15. ASSUME NEW s \in Session, ExitRead(s) PROVE Departed' /\ SoundNow'
    <2>1. /\ s \in live /\ UNCHANGED <<file, live, held, suspect>> /\ op[s].pc = "exit"
      BY <1>15, EngagedLive DEF ExitRead
    <2>2. PICK d \in op[s].todo : Look(s, d, IF Read(d) = s THEN "exitUnlink" ELSE "exit", NoOne)
      BY <1>15 DEF ExitRead
    <2>3. /\ d \in Device /\ Apart(s) /\ op'[s].dev = d
          /\ op'[s].pc = IF Read(d) = s THEN "exitUnlink" ELSE "exit"
      BY <1>a, <2>2, LookEffect DEF Apart, PCs, Pending
    <2>4. Read(d) = s => file[d] = [owner |-> s, written |-> TRUE]
      BY <2>3, ConstantsOK DEF Read, Typed, TypeOK, LockFile, NoFile
    <2>5. OpSound(s, d)'
      BY <2>1, <2>3, <2>4 DEF OpSound
    <2> QED
      BY <2>1, <2>3, <2>5, QuietStep
  <1>16. ASSUME NEW s \in Session, ExitUnlink(s) PROVE Departed' /\ SoundNow'
    <2>1. PICK d \in Device : d = op[s].dev
      BY <1>16, <1>a DEF ExitUnlink, Pending
    <2>2. /\ s \in live /\ UNCHANGED <<live, suspect, held>> /\ Unlink(d)
          /\ op[s].pc = "exitUnlink" /\ \A e \in Device : <<s, e>> \notin held
      BY <1>16, <2>1, EngagedLive DEF ExitUnlink, Departed, Holders
    <2>3. Apart(s) /\ op'[s].pc = "exit"
      BY <1>16, <1>a, GotoEffect DEF ExitUnlink, Apart, PCs
    <2>4. Departed'
      BY <2>2, <2>3, DepartedIf DEF Apart
    <2>5. op'[s].pc \notin Pending
      BY <2>3 DEF Pending
    <2> QED
      BY <2>1, <2>2, <2>3, <2>4, <2>5, UnlinkOwn
  <1>17. ASSUME NEW s \in Session, ExitEnd(s) PROVE Departed' /\ SoundNow'
    BY <1>17, EngagedLive, DeadOrphans DEF ExitEnd
  <1>18. ASSUME NEW d \in Device, Settle(d) PROVE Departed' /\ SoundNow'
    <2>1. UNCHANGED <<file, live, op, held>> /\ suspect' = suspect \ {d} /\ Settled(d)
      BY <1>18 DEF Settle
    <2>2. Departed'
      BY <2>1 DEF Departed, Holders
    <2>3. Sound(d)
      <3>1. ASSUME NEW s \in Session, op[s].dev = d PROVE OpSound(s, d)
        <4>1. s \in live /\ op[s].pc \notin Pending
          BY <1>c, <2>1, <3>1 DEF Settled, Departed
        <4> QED
          BY <4>1 DEF OpSound, Pending
      <3> QED
        BY <2>1, <3>1 DEF Sound, Settled, HoldersNamed, OwnerLive
    <2>4. ASSUME NEW e \in Device, e \notin suspect' PROVE Sound(e)'
      <3>1. Sound(e)
        BY <2>1, <2>3, <2>4 DEF SoundNow
      <3> QED
        BY <2>1, <3>1 DEF Sound, HoldersNamed, OwnerLive, OpSound, Holders
    <2> QED
      BY <2>2, <2>4 DEF SoundNow
  <1>19. CASE UNCHANGED vars
    BY <1>19 DEF vars, Departed, SoundNow, Sound, HoldersNamed, OwnerLive, OpSound, Holders
  <1>20. ASSUME NEW s \in Session, Call(s) PROVE Departed' /\ SoundNow'
    <2>1. {d \in Device : file[d] # NoFile} \in SUBSET Device /\ \A d \in Device : {d} \in SUBSET Device
      OBVIOUS
    <2> QED
      BY <1>1, <1>6, <1>8, <1>9, <1>14, <1>20, <2>1 DEF Call, ListLocks, LockFor
  <1>21. ASSUME NEW s \in Session, Continue(s) PROVE Departed' /\ SoundNow'
    BY <1>2, <1>3, <1>4, <1>5, <1>7, <1>10, <1>11, <1>12, <1>15, <1>16, <1>17, <1>21 DEF Continue
  <1> QED
    BY <1>13, <1>18, <1>19, <1>20, <1>21 DEF Next

(* The inductive invariant holds in every behaviour.                        *)
THEOREM Inductive == Safety => []IInv
  <1>1. Init => Typed /\ Departed /\ SoundNow
    BY TypedInit, SoundInit
  <1>2. Typed /\ Departed /\ SoundNow /\ [Next]_vars => (Typed /\ Departed /\ SoundNow)'
    BY TypedStep, SoundStep
  <1>3. Typed /\ Departed /\ SoundNow => IInv
    BY DEF IInv, Typed
  <1> QED
    BY <1>1, <1>2, <1>3, PTL DEF Safety

(* Exclusion: on a device no force or observed death has touched since it   *)
(* was last settled, at most one session was told that it holds the lock.   *)
THEOREM MutualExclusion == Safety => []Exclusive
  <1>1. IInv => Exclusive
    <2> SUFFICES ASSUME IInv, NEW d \in Device \ suspect, NEW s \in Holders(d), NEW t \in Holders(d)
                 PROVE s = t
      BY DEF Exclusive
    <2>1. file[d] = [owner |-> s, written |-> TRUE] /\ file[d] = [owner |-> t, written |-> TRUE]
      BY DEF IInv, SoundNow, Sound, HoldersNamed
    <2> QED
      BY <2>1
  <1> QED
    BY <1>1, Inductive, PTL

(* On such a device the lock file on disk names whoever was told so, hence  *)
(* every other session's acquire finds the device busy.                     *)
THEOREM DiskAgrees == Safety => []HolderOnDisk
  <1>1. IInv => HolderOnDisk
    <2> SUFFICES ASSUME IInv, NEW d \in Device \ suspect, NEW s \in Holders(d)
                 PROVE Read(d) = s
      BY DEF HolderOnDisk
    <2>1. file[d] = [owner |-> s, written |-> TRUE]
      BY DEF IInv, SoundNow, Sound, HoldersNamed
    <2> QED
      BY <2>1 DEF Read
  <1> QED
    BY <1>1, Inductive, PTL

-----------------------------------------------------------------------------
(* A session's selected serial is one it was told it holds: selecting       *)
(* grants, and every withdrawal clears the selection with it.               *)
LEMMA SelectionStep == Typed /\ SelectedHeld /\ [Next]_vars => SelectedHeld'
  <1> SUFFICES ASSUME Typed, SelectedHeld, [Next]_vars PROVE SelectedHeld'
    OBVIOUS
  <1> USE DEF SelectedHeld
  <1>a. selected \in [Session -> Device \cup {NoDevice}]
    BY DEF Typed, TypeOK
  <1>1. ASSUME NEW s \in Session, NEW d, Grant(s, d) PROVE SelectedHeld'
    BY <1>1, <1>a DEF Grant
  <1>2. ASSUME NEW s \in Session, NEW d, Withdraw(s, d) PROVE SelectedHeld'
    BY <1>2, <1>a DEF Withdraw
  <1>3. ASSUME NEW s \in Session, StopServing(s) PROVE SelectedHeld'
    BY <1>3, <1>a DEF StopServing
  <1>4. CASE UNCHANGED <<selected, held>>
    BY <1>4
  <1>5. ASSUME NEW s \in Session, Call(s) PROVE SelectedHeld'
    BY <1>1, <1>2, <1>3, <1>4, <1>5
    DEF Call, AcquireRead, ReleaseRead, ForceRelease, LockFor, ListLocks, ScanBegin, ExitBegin
  <1>6. ASSUME NEW s \in Session, Continue(s) PROVE SelectedHeld'
    BY <1>1, <1>2, <1>4, <1>6
    DEF Continue, AcquireJudge, AcquireUnlink, AcquireCreate, AcquireWrite, ReleaseUnlink,
        ScanRead, ScanJudge, ScanUnlink, ExitRead, ExitUnlink, ExitEnd
  <1> QED
    BY <1>3, <1>4, <1>5, <1>6 DEF Next, Crash, Settle, vars

THEOREM SelectionHeld == Safety => []SelectedHeld
  <1>1. Init => SelectedHeld
    BY DEF Init, SelectedHeld
  <1> QED
    BY <1>1, TypedInit, TypedStep, SelectionStep, PTL DEF Safety

-----------------------------------------------------------------------------
(* DeviceLocks implements LockService: initial states map to initial        *)
(* states and every step to a step or a stutter.                            *)
THEOREM Refinement == Safety => ImplementsService
  <1>1. Init => Service!Init
    BY DEF Init, Service!Init
  <1>2. IInv /\ [Next]_vars => [Service!Next]_(Service!vars)
    <2> SUFFICES ASSUME IInv, [Next]_vars PROVE Service!Next \/ UNCHANGED <<held, suspect>>
      BY DEF Service!vars
    <2>a. op \in [Session -> Operation]
          /\ \A s \in Session : op[s].pc \in Pending \cup {"create"} => op[s].dev \in Device
      BY DEF IInv, TypeOK, OnDevice
    <2>1. ASSUME NEW s \in Session, NEW d \in Device, Grant(s, d), UNCHANGED suspect,
                 d \notin suspect => \A t \in Holders(d) : t = s
          PROVE Service!Next
      <3>1. Service!Grant(s, d)
        BY <2>1 DEF Grant, Service!Grant, Service!HeldBy, Holders
      <3> QED
        BY <3>1 DEF Service!Next
    <2>2. ASSUME NEW s \in Session, NEW d \in Device, Withdraw(s, d), UNCHANGED suspect
          PROVE Service!Next
      BY <2>2 DEF Withdraw, Service!Withdraw, Service!Next
    <2>3. ASSUME UNCHANGED held, NEW devs \in SUBSET Device, suspect' = suspect \cup devs
          PROVE Service!Next
      BY <2>3 DEF Service!Disturb, Service!Next
    <2>4. ASSUME NEW s \in Session, held' = {h \in held : h[1] # s},
                 NEW devs \in SUBSET Device, suspect' = suspect \cup devs
          PROVE Service!Next
      BY <2>4 DEF Service!Die, Service!Next
    <2>5. ASSUME NEW d \in Device, Settle(d) PROVE Service!Next
      <3>1. \A s, t \in Service!HeldBy(d) : s = t
        <4> SUFFICES ASSUME NEW s \in Service!HeldBy(d), NEW t \in Service!HeldBy(d)
                     PROVE s = t
          OBVIOUS
        <4>1. /\ file[d] = [owner |-> s, written |-> TRUE]
              /\ file[d] = [owner |-> t, written |-> TRUE]
          BY <2>5 DEF Settle, Settled, Holders, Service!HeldBy
        <4> QED
          BY <4>1
      <3>2. Service!Settle(d)
        BY <2>5, <3>1 DEF Settle, Service!Settle
      <3> QED
        BY <3>2 DEF Service!Next
    <2>6. ASSUME NEW s \in Session, Call(s)
          PROVE Service!Next \/ UNCHANGED <<held, suspect>>
      <3>1. ASSUME NEW d \in Device, NEW force \in BOOLEAN, AcquireRead(s, d, force)
            PROVE Service!Next \/ UNCHANGED <<held, suspect>>
        <4>1. CASE Read(d) = s
          <5>1. Grant(s, d) /\ UNCHANGED suspect /\ file[d].owner = s
            BY <3>1, <4>1, ConstantsOK DEF AcquireRead, Read
          <5>2. d \notin suspect => \A t \in Holders(d) : t = s
            <6> SUFFICES ASSUME d \notin suspect, NEW t \in Holders(d) PROVE t = s
              OBVIOUS
            <6>1. file[d] = [owner |-> t, written |-> TRUE]
              BY DEF IInv, SoundNow, Sound, HoldersNamed
            <6> QED
              BY <5>1, <6>1
          <5> QED
            BY <2>1, <5>1, <5>2
        <4>2. CASE Read(d) # s
          BY <3>1, <4>2 DEF AcquireRead
        <4> QED
          BY <4>1, <4>2
      <3>2. ASSUME NEW d \in Device, ReleaseRead(s, d)
            PROVE Service!Next \/ UNCHANGED <<held, suspect>>
        BY <2>2, <3>2 DEF ReleaseRead
      <3>3. ASSUME NEW d \in Device, ForceRelease(s, d) PROVE Service!Next
        BY <2>3, <3>3 DEF ForceRelease
      <3>4. ASSUME ListLocks(s) \/ \E d \in Device : LockFor(s, d)
            PROVE UNCHANGED <<held, suspect>>
        BY <3>4 DEF ListLocks, LockFor, ScanBegin
      <3>5. ASSUME ExitBegin(s) PROVE Service!Next
        <4>1. suspect' = suspect \cup {} /\ {} \in SUBSET Device
          BY <3>5 DEF ExitBegin
        <4> QED
          BY <2>4, <3>5, <4>1 DEF ExitBegin, StopServing
      <3> QED
        BY <2>6, <3>1, <3>2, <3>3, <3>4, <3>5 DEF Call
    <2>7. ASSUME NEW s \in Session, Continue(s)
          PROVE Service!Next \/ UNCHANGED <<held, suspect>>
      <3>1. ASSUME AcquireJudge(s) PROVE Service!Next \/ UNCHANGED <<held, suspect>>
        <4>1. op[s].dev \in Device
          BY <2>a, <3>1 DEF AcquireJudge, Pending
        <4> QED
          BY <2>3, <3>1, <4>1 DEF AcquireJudge
      <3>2. ASSUME AcquireCreate(s) PROVE Service!Next \/ UNCHANGED <<held, suspect>>
        <4>1. PICK d \in Device : d = op[s].dev
          BY <2>a, <3>2 DEF AcquireCreate
        <4>2. CASE Read(d) = s /\ Grant(s, d)
          <5>1. file[d].owner = s /\ UNCHANGED suspect
            BY <3>2, <4>2, ConstantsOK DEF AcquireCreate, Read
          <5>2. d \notin suspect => \A t \in Holders(d) : t = s
            <6> SUFFICES ASSUME d \notin suspect, NEW t \in Holders(d) PROVE t = s
              OBVIOUS
            <6>1. file[d] = [owner |-> t, written |-> TRUE]
              BY DEF IInv, SoundNow, Sound, HoldersNamed
            <6> QED
              BY <5>1, <6>1
          <5> QED
            BY <2>1, <4>2, <5>1, <5>2
        <4> QED
          BY <3>2, <4>1, <4>2 DEF AcquireCreate
      <3>3. ASSUME AcquireWrite(s) PROVE Service!Next
        <4>1. PICK d \in Device : d = op[s].dev
          BY <2>a, <3>3 DEF AcquireWrite, Pending
        <4>2. d \notin suspect => Holders(d) = {}
          <5> SUFFICES ASSUME d \notin suspect PROVE Holders(d) = {}
            OBVIOUS
          <5>1. HoldersNamed(d) /\ file[d] = [owner |-> s, written |-> FALSE]
            BY <3>3, <4>1 DEF IInv, SoundNow, Sound, OpSound, AcquireWrite
          <5> QED
            BY <5>1, UnwrittenUnheld
        <4> QED
          BY <2>1, <3>3, <4>1, <4>2 DEF AcquireWrite
      <3>4. ASSUME ReleaseUnlink(s) PROVE Service!Next
        <4>1. op[s].dev \in Device
          BY <2>a, <3>4 DEF ReleaseUnlink, Pending
        <4> QED
          BY <2>2, <3>4, <4>1 DEF ReleaseUnlink
      <3>5. ASSUME ExitEnd(s) PROVE Service!Next
        BY <2>3, <3>5 DEF ExitEnd, End, Observed
      <3>6. ASSUME \/ AcquireUnlink(s) \/ ScanRead(s) \/ ScanJudge(s) \/ ScanUnlink(s)
                   \/ ExitRead(s) \/ ExitUnlink(s)
            PROVE UNCHANGED <<held, suspect>>
        BY <3>6 DEF AcquireUnlink, ScanRead, ScanJudge, ScanUnlink, ExitRead, ExitUnlink
      <3> QED
        BY <2>7, <3>1, <3>2, <3>3, <3>4, <3>5, <3>6 DEF Continue
    <2>8. ASSUME NEW s \in Session, Crash(s) PROVE Service!Next
      BY <2>4, <2>8 DEF Crash, StopServing, End, Observed
    <2> QED
      BY <2>5, <2>6, <2>7, <2>8 DEF Next, vars
  <1> QED
    BY <1>1, <1>2, Inductive, PTL DEF Safety, ImplementsService, Service!Spec
=============================================================================
