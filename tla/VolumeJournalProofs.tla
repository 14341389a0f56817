------------------------- MODULE VolumeJournalProofs -------------------------
(***************************************************************************)
(* Proofs about VolumeJournal, for any set of attachment ids and any       *)
(* number of crashes, reboots and failed calls: its types; that every      *)
(* mapping of the host is accounted for by durable evidence; that no       *)
(* recovery disconnects a later owner of the volume; and that an           *)
(* attachment goes back to Cinder only after the host has let go of it.    *)
(*                                                                         *)
(* The argument goes from the outside in.  OwnerInv says whose the volume  *)
(* is: what Nova's BDM, Cinder and another instance can claim together.    *)
(* IntentInv and InternalInv say which intent covers the operation under   *)
(* way.  RecordInv, AttachInv, DetachInv and RollInv say which journal and *)
(* profile each step of the two driver routines, the rollback and the      *)
(* replay finds; EndInv what may be confirmed, cancelled or given back; and*)
(* RecoveryInv that a recovery which may still unmap the image has found no*)
(* other user of it.  None of them is inductive without the others.        *)
(***************************************************************************)
EXTENDS VolumeJournal, TLAPS

\* The image is mapped, and not for another instance.
Mine == mapping /\ ~ForeignMapped
NoIntents == attachIntent = NoIntent /\ detachIntent = None
Untouched == journal = "none" /\ profile = Unconnected

\* Which steps each operation has, and why it detaches.
ProgramInv ==
    /\ w.op = "none" => w = Idle
    /\ w.op = "init" => w.pc \in {"rollDetaching", "cancelDetach"}
    /\ w.op = "attach" => w.pc \in AttachPcs \cup DetachPcs \cup
          {"intent", "update", "save", "complete", "confirm", "cancelAttach", "delete", "drop"}
    /\ w.op = "detach" => w.pc \in DetachPcs \cup
          {"detachIntent", "delete", "drop", "finalizeDetach", "cancelDetach", "restoreVolume",
           "checkIntent"}
    /\ w.op = "spawn" => w.pc \in AttachPcs \cup DetachPcs \cup RollPcs \cup ReplayPcs \cup
          {"intent", "rollIntent", "confirm", "cancelAttach", "start", "fail"}
    /\ w.op = "power" => w.pc \in AttachPcs \cup DetachPcs \cup
          {"power", "intent", "confirm", "cancelAttach", "start"}
    /\ w.op = "recover" => w.pc \in AttachPcs \cup DetachPcs \cup RollPcs \cup ReplayPcs \cup
          {"save", "complete", "confirm", "cancelAttach", "delete", "drop", "finalizeDetach",
           "cancelDetach", "rollDetaching"}
    /\ w.pc \in DetachPcs =>
          CASE w.op = "attach" -> w.why \in {"fresh", "undo", "abandon"}
            [] w.op = "detach" -> w.why = "detach"
            [] w.op = "power" -> w.why \in {"fresh", "undo", "repair"}
            [] OTHER -> w.why \in {"fresh", "undo", "roll"}
    /\ w.op \notin {"none", "power"} => w.att # None
    /\ ~up => w = Idle

\* What an attach that has not begun may rely on: its BDM has no connection
\* information, its attachment is reserved, and no intent names it.
Requested(a) ==
    /\ bdm = a /\ a # None /\ ~bdmInfo /\ cinder[a] = "reserved"
    /\ a \notin {attachIntent.att, detachIntent}

\* Whose the volume is.
OwnerInv ==
    /\ bdmInfo => bdm # None
    /\ bdm # None /\ (detaching \/ cinder[bdm] = "attached") => bdmInfo
    /\ foreign # "none" => \A a \in Attachments : cinder[a] = "none"
    /\ request.op = "attach" => Requested(request.att) /\ w.att # request.att
    /\ request.op = "none" => request = NoRequest
    /\ request.op = "detach" => request.att # None /\ (bdm = request.att => bdmInfo)
    /\ w.op = "attach" /\ w.pc = "intent" => Requested(w.att)
    /\ w.pc \in {"update", "save"} => bdm = w.att
    /\ w.pc = "update" => cinder[w.att] = "reserved"
    /\ w.pc \in {"save", "complete"} => cinder[w.att] = "attaching"
    /\ w.op = "attach" /\ w.pc \in DetachPcs => cinder[w.att] \in {"attaching", "attached"}
    /\ attachIntent.kind = "hot-attach" =>
          (w.pc \in AttachPcs \/ (w.pc \in DetachPcs /\ w.why \in {"fresh", "undo"})
             => bdm = w.att /\ cinder[w.att] = "attaching")
    /\ w.pc \in {"complete", "detachIntent"} => bdmInfo
    /\ w.op = "detach" /\ w.pc \notin {"finalizeDetach", "cancelDetach"} => bdmInfo
    /\ w.op \in {"spawn", "power"} /\ bdmInfo => w.att = bdm
    /\ w.op = "spawn" => build = "building" /\ cinder[w.att] = "attached" /\ bdmInfo
    /\ build = "building" =>
          /\ bdmInfo /\ cinder[bdm] = "attached" /\ request.op = "none"
          /\ w.op \in {"none", "spawn"} /\ up /\ detachIntent = None
          /\ w.op = "none" \/ w.pc = "intent" => Untouched /\ NoIntents

\* The operation under way works under an attach intent.
HoldsIntent ==
    \/ w.pc \in AttachPcs \cup RollPcs \cup
          {"update", "save", "complete", "confirm", "cancelAttach"}
    \/ w.pc \in DetachPcs /\ w.why \in {"fresh", "undo", "roll", "abandon"}
    \/ w.pc \in ReplayPcs /\ detachIntent = None
    \/ w.pc = "delete" /\ w.op = "attach"
    \/ w.pc \in {"delete", "drop"} /\ w.op = "recover" /\ detachIntent = None
IntentInv ==
    /\ attachIntent = NoIntent \/ detachIntent = None
    /\ attachIntent = NoIntent \/ (attachIntent.kind # "none" /\ attachIntent.att # None)
    /\ HoldsIntent =>
          CASE w.op = "attach" -> attachIntent = [att |-> w.att, kind |-> "hot-attach"]
            [] w.op = "spawn" -> attachIntent.kind = "spawn"
            [] w.op = "power" -> attachIntent.kind = "reconcile" /\ bdmInfo
            [] OTHER -> attachIntent # NoIntent /\ attachIntent.att = w.att
    /\ w.pc = "iRoll" \/ (w.pc \in DetachPcs /\ w.why = "roll") => attachIntent.kind = "spawn"
    /\ w.pc \in DetachPcs /\ w.why = "detach" => detachIntent # None
    /\ w.op = "detach" /\ w.pc \in {"delete", "drop"} => detachIntent # None
    /\ w.pc = "drop" => ~NoIntents
    /\ w.pc \in {"delete", "drop"} => attachIntent.kind \in {"none", "hot-attach"}
    /\ w.op = "power" /\ w.pc = "intent" => bdmInfo
    \* evidence on the host that no intent covers belongs to a connected volume
    /\ NoIntents /\ ~bdmInfo => Untouched

\* A failed hot attach, whose attachment is not complete.
HotRollback ==
    /\ w.op = "recover" /\ attachIntent.kind = "hot-attach"
    /\ w.pc \in RollPcs \cup ReplayPcs \cup {"delete", "drop"}

\* An internal intent names the BDM, and keeps the attachment of a build.
InternalInv ==
    /\ attachIntent.kind \in {"spawn", "reconcile"} =>
          bdm = attachIntent.att /\ bdmInfo
    /\ attachIntent.kind = "spawn" => cinder[bdm] = "attached"

\* What the journal and the profile record together.
RecordInv ==
    /\ profile \in {Unconnected, Connected, Hidden, [device |-> FALSE, phase |-> "connecting"]}
    /\ journal = "none" => profile \in {Unconnected, Connected}
    /\ journal = "disconnected" => ~profile.device
    /\ attachIntent.kind = "hot-attach" /\ journal = "none" /\ profile # Unconnected =>
          cinder[attachIntent.att] = "attached"

\* Which journal and profile the steps of an attach find.
AttachInv ==
    /\ w.op = "attach" /\ w.pc \in {"update", "aRead"} => Untouched
    /\ w.pc \in {"aJournal", "aProfile"} => ~profile.device
    /\ w.pc \in {"aProfile", "aConnect", "aConnected"} => journal # "none"
    /\ w.pc \in {"aJournal", "aProfile", "aConnect"} => journal # "disconnecting"
    /\ attachIntent.kind # "reconcile" =>
          /\ w.pc \in {"aRead", "aJournal", "aProfile", "aConnect"} =>
                journal \notin {"disconnected", "rolled-back"}
          /\ w.pc \in {"aProfile", "aConnect"} => journal \in {"connecting", "connected"}
    /\ w.pc \in {"aCommit", "aRetain"} => journal = "connected"
    /\ w.pc = "aRetainProfile" => journal = "disconnecting"

\* Those of a detach, and of the replay of one.
DetachInv ==
    /\ w.pc \in {"dProfile", "dDisconnect", "dDisconnected",
                 "yProfile", "yDisconnect", "yDisconnected"} => journal = "disconnecting"
    /\ w.pc \in {"dDisconnect", "dDisconnected", "yDisconnect", "yDisconnected"} => profile = Hidden
    /\ w.pc \in {"dFinal", "dRemove"} => journal = "disconnected"
    /\ w.pc = "dRemove" => profile = Unconnected
    /\ w.pc = "dReconnect" => journal = "connecting"
    /\ w.pc = "dJournal" => ~Untouched
    /\ w.pc \in {"dDisconnected", "yDisconnected"} => ~Mine

\* Those of a rollback.
RollInv ==
    /\ w.pc \in {"rReconnect", "rUnexpose", "rUnmap"} => journal \in {"connecting", "connected"}
    /\ w.pc = "rPop" => journal \in {"rolled-back", "disconnected"}
    /\ w.pc \in {"rUnmap", "rMark"} => profile = Unconnected
    /\ w.pc = "rFinalize" /\ journal = "none" => profile = Unconnected
    /\ w.pc = "rMark" => ~Mine \/ attachIntent.kind = "reconcile"
    /\ HotRollback => cinder[w.att] # "attached"

\* Those of the steps that confirm, cancel or release.
EndInv ==
    /\ w.pc = "confirm" /\ attachIntent.kind = "hot-attach" => cinder[w.att] = "attached"
    /\ w.pc = "confirm" => bdmInfo
    /\ w.pc = "cancelAttach" =>
          /\ journal = "none"
          /\ \/ profile = Unconnected /\ attachIntent.kind # "reconcile"
             \/ profile = Connected /\ bdmInfo
    /\ w.pc \in {"rollDetaching", "cancelDetach"} =>
          journal = "none" /\ (profile = Unconnected \/ bdmInfo)
    /\ w.pc = "delete" \/ (w.pc \in {"drop", "finalizeDetach"} /\ w.op # "attach") =>
          (journal = "none" => profile = Unconnected)
    \* what goes back to Cinder is no longer used here
    /\ w.pc = "delete" /\ w.op \in {"detach", "recover"} /\ cinder[w.att] = "attached" =>
          ~profile.device /\ ~Mine

\* A recovery that may still unmap the image has found no other user of it.
RecoveryInv ==
    w.op = "recover" =>
        /\ attachIntent.kind \in {"spawn", "reconcile"} => ~ForeignMapped
        /\ w.pc \in AttachPcs \cup DetachPcs \cup ReplayPcs \cup
              {"rReconnect", "rUnexpose", "rUnmap"} => ~ForeignMapped
        /\ w.pc = "rRoll" /\ journal # "rolled-back" => ~ForeignMapped

StateInv ==
    /\ ProgramInv /\ OwnerInv /\ IntentInv /\ InternalInv /\ RecordInv /\ AttachInv /\ DetachInv
    /\ RollInv /\ EndInv /\ RecoveryInv /\ MappingIsAccounted
Inv == TypeOK /\ StateInv

-----------------------------------------------------------------------------
(* The steps, grouped.                                                     *)

\* The driver attaches: _attach_volume_locked.
Attachment ==
    \/ AttachRead
    \/ AttachRetainProfile
    \/ AttachJournal
    \/ AttachProfile
    \/ AttachConnect
    \/ AttachConnected
    \/ AttachCommit
    \/ AttachRetain
\* The driver detaches: _detach_volume_locked.
Detachment ==
    \/ DetachRead
    \/ DetachReconnect
    \/ DetachJournal
    \/ DetachProfile
    \/ DetachDisconnect
    \/ DetachDisconnected
    \/ DetachFinal
    \/ DetachRemove
\* A journal is rolled back, or an interrupted detach is replayed.
Rollback ==
    \/ RollInternal
    \/ Decide("rRoll", RollNext)
    \/ RollPop
    \/ RollMark
    \/ RollReconnect
    \/ RollUnexpose
    \/ RollUnmap
    \/ ReplayProfile
    \/ ReplayDisconnect
    \/ ReplayDisconnected
    \/ FinalizeRolledBack
\* The intents, and what Nova and Cinder record.
Ownership ==
    \/ BeginAttach
    \/ BeginSpawnRollback
    \/ PrepareDetach
    \/ UpdateAttachment
    \/ CompleteAttachment
    \/ ReleaseAttachment
    \/ SaveBdm
    \/ DropBdm
    \/ Confirm
    \/ CancelAttach
    \/ RestoreVolume("restoreVolume", "checkIntent")
    \/ CheckIntent
    \/ RestoreVolume("rollDetaching", "cancelDetach")
    \/ FinalizeDisconnected
    \/ CancelDetach
\* The container starts, or its build fails.
Power ==
    \/ Reconcile
    \/ Start
    \/ SpawnFails
\* Nova asks for an operation, or stops the container.
Asking ==
    \/ DetachRequested
    \/ Receive
    \/ Spawn
    \/ PowerOn
    \/ Stop
    \/ \E a \in Attachments : AttachRequested(a)
\* The periodic recovery begins.
Recovery ==
    \/ RecoverDetachPending
    \/ RecoverDisconnecting
    \/ RecoverDisconnected
    \/ RecoverAttachPending
    \/ RecoverFormalAttach
    \/ RecoverFailedAttach
    \/ RecoverInternal
\* Crashes, restarts, and another instance that uses the volume.
Surroundings ==
    \/ Crash
    \/ HostReboot
    \/ Restart
    \/ ForeignReserve
    \/ ForeignMap
    \/ ForeignComplete
    \/ ForeignPowerOn
    \/ ForeignDetach

\* Every step is one of these.
LEMMA NextCases ==
    ASSUME Next
    PROVE  Attachment \/ Detachment \/ Rollback \/ Ownership \/ Power
           \/ Asking \/ Recovery \/ Surroundings
BY Zenon DEF Next, Work, Requests, Recover, ForeignSteps, AttachRoutine, DetachRoutine,
      RollRoutine, NovaSteps,
   Attachment, Detachment, Rollback, Ownership, Power, Asking, Recovery, Surroundings

\* Moving on keeps the worker a worker.
LEMMA Goes ==
    ASSUME w \in Worker
    PROVE  \A pc \in Steps \cup {"end"} : Goto(pc) => w' \in Worker
<1> SUFFICES ASSUME NEW pc \in Steps \cup {"end"}, Goto(pc) PROVE w' \in Worker OBVIOUS
<1> DEFINE r == IF pc = "end" THEN Idle ELSE [w EXCEPT !.pc = pc]
<1>1. Idle \in Worker BY DEF Idle, Worker, Operations, Steps, Reasons
<1>2. r \in Worker BY <1>1 DEF Worker
<1>3. w' = r BY DEF Goto
<1> QED BY ONLY <1>2, <1>3

\* So does turning to the detach routine.
LEMMA Detaches ==
    ASSUME w \in Worker
    PROVE  \A why \in Reasons : Detach(why) => w' \in Worker
BY DEF Detach, Worker, Steps, DetachPcs

\* So does beginning an operation.
LEMMA Begins ==
    \A op \in Operations, pc \in Steps, att \in Attachments \cup {None} :
        Begin(op, pc, att) => w' \in Worker
BY DEF Begin, Worker, Reasons

\* So does a step with a reason of its own.
LEMMA Moves ==
    ASSUME w \in Worker
    PROVE  \A pc \in Steps, why \in Reasons : [w EXCEPT !.pc = pc, !.why = why] \in Worker
BY DEF Worker

\* The faults stay within their bound.
LEMMA Counts ==
    ASSUME faults \in 0..MaxFaults
    PROVE  NoFault \/ Fault => faults' \in 0..MaxFaults
BY FaultsAssumption DEF NoFault, Fault

\* No operation under way.
LEMMA Idles == Idle \in Worker BY DEF Idle, Worker, Operations, Steps, Reasons

\* The values an attach intent takes.
LEMMA Intents ==
    ASSUME w \in Worker
    PROVE  {NoIntent, IntentOf} \subseteq [att : Attachments \cup {None}, kind : {"none",
          "hot-attach", "spawn", "reconcile"}]
BY DEF NoIntent, IntentOf, Worker

\* Where the driver routines return to is a step of their caller.
LEMMA Callers ==
    /\ AttachOk \in Steps /\ Raised \in Steps \cup {"end"} /\ RolledBack \in Steps
    /\ AttachFailed \in Steps \cup {"end"} /\ DetachOk \in Steps \cup {"end"}
    /\ DetachFailed \in Steps \cup {"end"}
<1>1. AttachOk \in Steps BY DEF AttachOk, Steps, NovaPcs
<1>2. Raised \in Steps \cup {"end"} BY DEF Raised, Steps, NovaPcs
<1>3. RolledBack \in Steps BY DEF RolledBack, Steps, NovaPcs, RollPcs
<1>4. AttachFailed \in Steps \cup {"end"} BY DEF AttachFailed, Steps, NovaPcs
<1>5. DetachOk \in Steps \cup {"end"} BY <1>4 DEF DetachOk, Steps, NovaPcs, AttachPcs, RollPcs
<1>6. DetachFailed \in Steps \cup {"end"} BY <1>2, <1>4 DEF DetachFailed, Steps, NovaPcs
<1> QED BY ONLY <1>1, <1>2, <1>3, <1>4, <1>5, <1>6

\* The values the profile record takes.
LEMMA Profiles ==
    ASSUME profile \in Profile
    PROVE  /\ {Unconnected, Connected, Hidden} \subseteq Profile
           /\ [profile EXCEPT !.phase = "connecting"] \in Profile
BY DEF Unconnected, Connected, Hidden, Profile

\* Every step keeps the types: those of the fields it assigns, one by one.
LEMMA StepTypes ==
    ASSUME TypeOK, [Next]_vars PROVE TypeOK'
<1> USE Goes, Detaches, Begins, Callers, Profiles, Idles, Intents, FaultsAssumption DEF TypeOK,
      NoFault, Fault, Steps, Reasons, Operations, AttachPcs, DetachPcs, RollPcs, ReplayPcs,
      NovaPcs, Phases, nova, volume, intents, host
<1>1. CASE Attachment
  <2>1. AttachRead => TypeOK'
    BY SMTT(20) DEF AttachRead
  <2>2. AttachRetainProfile => TypeOK'
    BY SMTT(20) DEF AttachRetainProfile
  <2>3. AttachJournal => TypeOK'
    BY SMTT(20) DEF AttachJournal, Record
  <2>4. AttachProfile => TypeOK'
    BY SMTT(20) DEF AttachProfile, SaveProfile
  <2>5. ASSUME AttachConnect PROVE TypeOK'
    <3>1. mapping' \in BOOLEAN BY <2>5 DEF AttachConnect, Connect
    <3>2. w' \in Worker BY <2>5 DEF AttachConnect, Connect
    <3>3. NoFault \/ Fault BY ONLY <2>5, Zenon DEF AttachConnect, Connect
    <3>4. UNCHANGED <<bdm, bdmInfo, cinder, detaching, foreign, request, journal, attachIntent,
          detachIntent, profile, running, up, build>> BY <2>5 DEF AttachConnect, Connect
    <3> QED BY ONLY Counts, TypeOK, <3>1, <3>2, <3>3, <3>4 DEF TypeOK
  <2>6. AttachConnected => TypeOK'
    BY SMTT(20) DEF AttachConnected, Record
  <2>7. AttachCommit => TypeOK'
    BY SMTT(20) DEF AttachCommit, SaveProfile
  <2>8. AttachRetain => TypeOK'
    BY SMTT(20) DEF AttachRetain, Record
  <2> QED BY ONLY <1>1, <2>1, <2>2, <2>3, <2>4, <2>5, <2>6, <2>7, <2>8 DEF Attachment
<1>2. CASE Detachment
  <2>1. DetachRead => TypeOK'
    BY SMTT(20) DEF DetachRead, Decide
  <2>2. ASSUME DetachReconnect PROVE TypeOK'
    <3>1. mapping' \in BOOLEAN BY <2>2 DEF DetachReconnect, Connect
    <3>2. w' \in Worker BY <2>2 DEF DetachReconnect, Connect
    <3>3. NoFault \/ Fault BY ONLY <2>2, Zenon DEF DetachReconnect, Connect
    <3>4. UNCHANGED <<bdm, bdmInfo, cinder, detaching, foreign, request, journal, attachIntent,
          detachIntent, profile, running, up, build>> BY <2>2 DEF DetachReconnect, Connect
    <3> QED BY ONLY Counts, TypeOK, <3>1, <3>2, <3>3, <3>4 DEF TypeOK
  <2>3. DetachJournal => TypeOK'
    BY SMTT(20) DEF DetachJournal, Record
  <2>4. DetachProfile => TypeOK'
    BY SMTT(20) DEF DetachProfile, SaveProfileVerified
  <2>5. ASSUME DetachDisconnect PROVE TypeOK'
    <3>1. mapping' \in BOOLEAN BY <2>5 DEF DetachDisconnect, Disconnect
    <3>2. w' \in Worker BY <2>5 DEF DetachDisconnect, Disconnect
    <3>3. NoFault \/ Fault BY ONLY <2>5, Zenon DEF DetachDisconnect, Disconnect
    <3>4. UNCHANGED <<bdm, bdmInfo, cinder, detaching, foreign, request, journal, attachIntent,
          detachIntent, profile, running, up, build>> BY <2>5 DEF DetachDisconnect, Disconnect
    <3> QED BY ONLY Counts, TypeOK, <3>1, <3>2, <3>3, <3>4 DEF TypeOK
  <2>6. DetachDisconnected => TypeOK'
    BY SMTT(20) DEF DetachDisconnected, Record
  <2>7. DetachFinal => TypeOK'
    BY SMTT(20) DEF DetachFinal, SaveProfileVerified
  <2>8. DetachRemove => TypeOK'
    BY SMTT(20) DEF DetachRemove, Record
  <2> QED BY ONLY <1>2, <2>1, <2>2, <2>3, <2>4, <2>5, <2>6, <2>7, <2>8 DEF Detachment
<1>3. CASE Rollback
  <2>1. ASSUME RollInternal PROVE TypeOK'
    <3>1. w' \in Worker BY <2>1, Moves DEF RollInternal
    <3>2. UNCHANGED <<bdm, bdmInfo, cinder, detaching, foreign, request, journal, attachIntent,
          detachIntent, profile, mapping, running, up, build, faults>> BY <2>1 DEF RollInternal
    <3> QED BY ONLY TypeOK, <3>1, <3>2 DEF TypeOK
  <2>2. Decide("rRoll", RollNext) => TypeOK'
    BY SMTT(20) DEF Decide, RollNext
  <2>3. RollPop => TypeOK'
    BY SMTT(20) DEF RollPop, SaveProfile
  <2>4. RollMark => TypeOK'
    BY SMTT(20) DEF RollMark, Record
  <2>5. ASSUME RollReconnect PROVE TypeOK'
    <3>1. mapping' \in BOOLEAN BY <2>5 DEF RollReconnect, Connect
    <3>2. w' \in Worker BY <2>5 DEF RollReconnect, Connect
    <3>3. NoFault \/ Fault BY ONLY <2>5, Zenon DEF RollReconnect, Connect
    <3>4. UNCHANGED <<bdm, bdmInfo, cinder, detaching, foreign, request, journal, attachIntent,
          detachIntent, profile, running, up, build>> BY <2>5 DEF RollReconnect, Connect
    <3> QED BY ONLY Counts, TypeOK, <3>1, <3>2, <3>3, <3>4 DEF TypeOK
  <2>6. RollUnexpose => TypeOK'
    BY SMTT(20) DEF RollUnexpose, SaveProfile
  <2>7. ASSUME RollUnmap PROVE TypeOK'
    <3>1. mapping' \in BOOLEAN BY <2>7 DEF RollUnmap, Disconnect
    <3>2. w' \in Worker BY <2>7 DEF RollUnmap, Disconnect
    <3>3. NoFault \/ Fault BY ONLY <2>7, Zenon DEF RollUnmap, Disconnect
    <3>4. UNCHANGED <<bdm, bdmInfo, cinder, detaching, foreign, request, journal, attachIntent,
          detachIntent, profile, running, up, build>> BY <2>7 DEF RollUnmap, Disconnect
    <3> QED BY ONLY Counts, TypeOK, <3>1, <3>2, <3>3, <3>4 DEF TypeOK
  <2>8. ReplayProfile => TypeOK'
    BY SMTT(20) DEF ReplayProfile, SaveProfileVerified
  <2>9. ASSUME ReplayDisconnect PROVE TypeOK'
    <3>1. mapping' \in BOOLEAN BY <2>9 DEF ReplayDisconnect, Disconnect
    <3>2. w' \in Worker BY <2>9 DEF ReplayDisconnect, Disconnect
    <3>3. NoFault \/ Fault BY ONLY <2>9, Zenon DEF ReplayDisconnect, Disconnect
    <3>4. UNCHANGED <<bdm, bdmInfo, cinder, detaching, foreign, request, journal, attachIntent,
          detachIntent, profile, running, up, build>> BY <2>9 DEF ReplayDisconnect, Disconnect
    <3> QED BY ONLY Counts, TypeOK, <3>1, <3>2, <3>3, <3>4 DEF TypeOK
  <2>10. ReplayDisconnected => TypeOK'
    BY SMTT(20) DEF ReplayDisconnected, Record
  <2>11. FinalizeRolledBack => TypeOK'
    BY SMTT(20) DEF FinalizeRolledBack
  <2> QED BY ONLY <1>3, <2>1, <2>2, <2>3, <2>4, <2>5, <2>6, <2>7, <2>8, <2>9, <2>10, <2>11
        DEF Rollback
<1>4. CASE Ownership
  <2>1. ASSUME BeginAttach PROVE TypeOK'
    <3>1. attachIntent' \in [att : Attachments \cup {None}, kind : {"none", "hot-attach",
          "spawn", "reconcile"}] BY <2>1 DEF BeginAttach, PrepareAttach, MayIntend
    <3>2. w' \in Worker BY <2>1 DEF BeginAttach, PrepareAttach, MayIntend
    <3>3. UNCHANGED <<bdm, bdmInfo, cinder, detaching, foreign, request, journal, detachIntent,
          profile, mapping, running, up, build, faults>> BY <2>1 DEF BeginAttach, PrepareAttach,
          MayIntend
    <3> QED BY ONLY TypeOK, <3>1, <3>2, <3>3 DEF TypeOK
  <2>2. ASSUME BeginSpawnRollback PROVE TypeOK'
    <3>1. attachIntent' \in [att : Attachments \cup {None}, kind : {"none", "hot-attach",
          "spawn", "reconcile"}] BY <2>2 DEF BeginSpawnRollback, PrepareAttach, MayIntend
    <3>2. w' \in Worker BY <2>2 DEF BeginSpawnRollback, PrepareAttach, MayIntend
    <3>3. UNCHANGED <<bdm, bdmInfo, cinder, detaching, foreign, request, journal, detachIntent,
          profile, mapping, running, up, build, faults>> BY <2>2 DEF BeginSpawnRollback,
          PrepareAttach, MayIntend
    <3> QED BY ONLY TypeOK, <3>1, <3>2, <3>3 DEF TypeOK
  <2>3. ASSUME PrepareDetach PROVE TypeOK'
    <3>1. detachIntent' \in Attachments \cup {None} BY <2>3 DEF PrepareDetach, Worker
    <3>2. w' \in Worker BY <2>3 DEF PrepareDetach
    <3>3. UNCHANGED <<bdm, bdmInfo, cinder, detaching, foreign, request, journal, attachIntent,
          profile, mapping, running, up, build, faults>> BY <2>3 DEF PrepareDetach
    <3> QED BY ONLY TypeOK, <3>1, <3>2, <3>3 DEF TypeOK
  <2>4. UpdateAttachment => TypeOK'
    BY SMTT(20) DEF UpdateAttachment, CinderCall, CinderSet
  <2>5. CompleteAttachment => TypeOK'
    BY SMTT(20) DEF CompleteAttachment, CinderCall, CinderSet
  <2>6. ReleaseAttachment => TypeOK'
    BY SMTT(20) DEF ReleaseAttachment, CinderCall, CinderSet
  <2>7. SaveBdm => TypeOK'
    BY SMTT(20) DEF SaveBdm
  <2>8. DropBdm => TypeOK'
    BY SMTT(20) DEF DropBdm
  <2>9. Confirm => TypeOK'
    BY SMTT(20) DEF Confirm
  <2>10. ASSUME CancelAttach PROVE TypeOK'
    <3>1. attachIntent' \in [att : Attachments \cup {None}, kind : {"none", "hot-attach",
          "spawn", "reconcile"}] BY <2>10 DEF CancelAttach
    <3>2. w' \in Worker BY <2>10 DEF CancelAttach
    <3>3. UNCHANGED <<bdm, bdmInfo, cinder, detaching, foreign, request, journal, detachIntent,
          profile, mapping, running, up, build, faults>> BY <2>10 DEF CancelAttach
    <3> QED BY ONLY TypeOK, <3>1, <3>2, <3>3 DEF TypeOK
  <2>11. ASSUME RestoreVolume("restoreVolume", "checkIntent") PROVE TypeOK'
    <3>1. detaching' \in BOOLEAN BY <2>11 DEF RestoreVolume
    <3>2. w' \in Worker BY <2>11 DEF RestoreVolume
    <3>3. NoFault \/ Fault BY ONLY <2>11, Zenon DEF RestoreVolume
    <3>4. UNCHANGED <<bdm, bdmInfo, cinder, foreign, request, journal, attachIntent,
          detachIntent, profile, mapping, running, up, build>> BY <2>11 DEF RestoreVolume
    <3> QED BY ONLY Counts, TypeOK, <3>1, <3>2, <3>3, <3>4 DEF TypeOK
  <2>12. CheckIntent => TypeOK'
    BY SMTT(20) DEF CheckIntent, Decide
  <2>13. ASSUME RestoreVolume("rollDetaching", "cancelDetach") PROVE TypeOK'
    <3>1. detaching' \in BOOLEAN BY <2>13 DEF RestoreVolume
    <3>2. w' \in Worker BY <2>13 DEF RestoreVolume
    <3>3. NoFault \/ Fault BY ONLY <2>13, Zenon DEF RestoreVolume
    <3>4. UNCHANGED <<bdm, bdmInfo, cinder, foreign, request, journal, attachIntent,
          detachIntent, profile, mapping, running, up, build>> BY <2>13 DEF RestoreVolume
    <3> QED BY ONLY Counts, TypeOK, <3>1, <3>2, <3>3, <3>4 DEF TypeOK
  <2>14. FinalizeDisconnected => TypeOK'
    BY SMTT(20) DEF FinalizeDisconnected
  <2>15. CancelDetach => TypeOK'
    BY SMTT(20) DEF CancelDetach
  <2> QED BY ONLY <1>4, <2>1, <2>2, <2>3, <2>4, <2>5, <2>6, <2>7, <2>8, <2>9, <2>10, <2>11,
        <2>12, <2>13, <2>14, <2>15 DEF Ownership
<1>5. CASE Power
  <2>1. Reconcile => TypeOK'
    BY SMTT(20) DEF Reconcile
  <2>2. ASSUME Start PROVE TypeOK'
    <3>1. running' \in BOOLEAN BY <2>2 DEF Start
    <3>2. build' \in {"building", "active", "error"} BY <2>2 DEF Start
    <3>3. w' \in Worker BY <2>2 DEF Start
    <3>4. NoFault \/ Fault BY ONLY <2>2, Zenon DEF Start
    <3>5. UNCHANGED <<bdm, bdmInfo, cinder, detaching, foreign, request, journal, attachIntent,
          detachIntent, profile, mapping, up>> BY <2>2 DEF Start
    <3> QED BY ONLY Counts, TypeOK, <3>1, <3>2, <3>3, <3>4, <3>5 DEF TypeOK
  <2>3. ASSUME SpawnFails PROVE TypeOK'
    <3>1. build' \in {"building", "active", "error"} BY <2>3 DEF SpawnFails
    <3>2. w' \in Worker BY <2>3 DEF SpawnFails
    <3>3. UNCHANGED <<bdm, bdmInfo, cinder, detaching, foreign, request, journal, attachIntent,
          detachIntent, profile, mapping, running, up, faults>> BY <2>3 DEF SpawnFails
    <3> QED BY ONLY TypeOK, <3>1, <3>2, <3>3 DEF TypeOK
  <2> QED BY ONLY <1>5, <2>1, <2>2, <2>3 DEF Power
<1>6. CASE Asking
  <2>1. DetachRequested => TypeOK'
    BY SMTT(20) DEF DetachRequested
  <2>2. ASSUME Receive PROVE TypeOK'
    <3>1. request' \in [op : {"none", "attach", "detach"}, att : Attachments \cup {None}]
          BY <2>2 DEF Receive, Ready, NoRequest
    <3>2. w' \in Worker BY <2>2 DEF Receive, Ready
    <3>3. UNCHANGED <<bdm, bdmInfo, cinder, detaching, foreign, journal, attachIntent,
          detachIntent, profile, mapping, running, up, build, faults>> BY <2>2 DEF Receive, Ready
    <3> QED BY ONLY TypeOK, <3>1, <3>2, <3>3 DEF TypeOK
  <2>3. Spawn => TypeOK'
    BY SMTT(20) DEF Spawn, Ready
  <2>4. PowerOn => TypeOK'
    BY SMTT(20) DEF PowerOn, Ready
  <2>5. ASSUME Stop PROVE TypeOK'
    <3>1. running' \in BOOLEAN BY <2>5 DEF Stop, Ready
    <3>2. UNCHANGED <<bdm, bdmInfo, cinder, detaching, foreign, request, journal, attachIntent,
          detachIntent, profile, mapping, up, build, w, faults>> BY <2>5 DEF Stop, Ready
    <3> QED BY ONLY TypeOK, <3>1, <3>2 DEF TypeOK
  <2>6. (\E a \in Attachments : AttachRequested(a)) => TypeOK'
    BY SMTT(20) DEF AttachRequested, CinderSet
  <2> QED BY ONLY <1>6, <2>1, <2>2, <2>3, <2>4, <2>5, <2>6 DEF Asking
<1>7. CASE Recovery
  <2>1. ASSUME RecoverDetachPending PROVE TypeOK'
    <3>1. w' \in Worker BY <2>1 DEF RecoverDetachPending, Recovering, Ready
    <3>2. UNCHANGED <<bdm, bdmInfo, cinder, detaching, foreign, request, journal, attachIntent,
          detachIntent, profile, mapping, running, up, build, faults>> BY <2>1
          DEF RecoverDetachPending, Recovering, Ready
    <3> QED BY ONLY TypeOK, <3>1, <3>2 DEF TypeOK
  <2>2. RecoverDisconnecting => TypeOK'
    BY SMTT(20) DEF RecoverDisconnecting, Recovering, Ready
  <2>3. RecoverDisconnected => TypeOK'
    BY SMTT(20) DEF RecoverDisconnected, Recovering, Ready
  <2>4. ASSUME RecoverAttachPending PROVE TypeOK'
    <3>1. w' \in Worker BY <2>4 DEF RecoverAttachPending, HotIntent, Recovering, Ready
    <3>2. UNCHANGED <<bdm, bdmInfo, cinder, detaching, foreign, request, journal, attachIntent,
          detachIntent, profile, mapping, running, up, build, faults>> BY <2>4
          DEF RecoverAttachPending, HotIntent, Recovering, Ready
    <3> QED BY ONLY TypeOK, <3>1, <3>2 DEF TypeOK
  <2>5. ASSUME RecoverFormalAttach PROVE TypeOK'
    <3>1. w' \in Worker BY <2>5 DEF RecoverFormalAttach, HotIntent, Recovering, Ready
    <3>2. UNCHANGED <<bdm, bdmInfo, cinder, detaching, foreign, request, journal, attachIntent,
          detachIntent, profile, mapping, running, up, build, faults>> BY <2>5
          DEF RecoverFormalAttach, HotIntent, Recovering, Ready
    <3> QED BY ONLY TypeOK, <3>1, <3>2 DEF TypeOK
  <2>6. RecoverFailedAttach => TypeOK'
    BY SMTT(20) DEF RecoverFailedAttach, HotIntent, Recovering, Ready
  <2>7. RecoverInternal => TypeOK'
    BY SMTT(20) DEF RecoverInternal, Recovering, Ready
  <2> QED BY ONLY <1>7, <2>1, <2>2, <2>3, <2>4, <2>5, <2>6, <2>7 DEF Recovery
<1>8. CASE Surroundings
  <2>1. ASSUME Crash PROVE TypeOK'
    <3>1. up' \in BOOLEAN BY <2>1 DEF Crash, Died
    <3>2. w' \in Worker BY <2>1 DEF Crash, Died
    <3>3. build' \in {"building", "active", "error"} BY <2>1 DEF Crash, Died
    <3>4. NoFault \/ Fault BY ONLY <2>1, Zenon DEF Crash, Died
    <3>5. UNCHANGED <<bdm, bdmInfo, cinder, detaching, foreign, request, journal, attachIntent,
          detachIntent, profile, mapping, running>> BY <2>1 DEF Crash, Died
    <3> QED BY ONLY Counts, TypeOK, <3>1, <3>2, <3>3, <3>4, <3>5 DEF TypeOK
  <2>2. ASSUME HostReboot PROVE TypeOK'
    <3>1. up' \in BOOLEAN BY <2>2 DEF HostReboot, Died
    <3>2. w' \in Worker BY <2>2 DEF HostReboot, Died
    <3>3. build' \in {"building", "active", "error"} BY <2>2 DEF HostReboot, Died
    <3>4. NoFault \/ Fault BY ONLY <2>2, Zenon DEF HostReboot, Died
    <3>5. running' \in BOOLEAN BY <2>2 DEF HostReboot, Died
    <3>6. mapping' \in BOOLEAN BY <2>2 DEF HostReboot, Died
    <3>7. UNCHANGED <<bdm, bdmInfo, cinder, detaching, foreign, request, journal, attachIntent,
          detachIntent, profile>> BY <2>2 DEF HostReboot, Died
    <3> QED BY ONLY Counts, TypeOK, <3>1, <3>2, <3>3, <3>4, <3>5, <3>6, <3>7 DEF TypeOK
  <2>3. Restart => TypeOK'
    BY SMTT(20) DEF Restart
  <2>4. ForeignReserve => TypeOK'
    BY SMTT(20) DEF ForeignReserve, Foreign
  <2>5. ForeignMap => TypeOK'
    BY SMTT(20) DEF ForeignMap, Foreign
  <2>6. ForeignComplete => TypeOK'
    BY SMTT(20) DEF ForeignComplete, Foreign
  <2>7. ForeignPowerOn => TypeOK'
    BY SMTT(20) DEF ForeignPowerOn, Foreign
  <2>8. ASSUME ForeignDetach PROVE TypeOK'
    <3>1. foreign' \in {"none", "reserved", "mapped", "attached"} BY <2>8 DEF ForeignDetach, Foreign
    <3>2. mapping' \in BOOLEAN BY <2>8 DEF ForeignDetach, Foreign
    <3>3. UNCHANGED <<bdm, bdmInfo, cinder, detaching, request, journal, attachIntent,
          detachIntent, profile, running, up, build, w, faults>> BY <2>8 DEF ForeignDetach, Foreign
    <3> QED BY ONLY TypeOK, <3>1, <3>2, <3>3 DEF TypeOK
  <2> QED BY ONLY <1>8, <2>1, <2>2, <2>3, <2>4, <2>5, <2>6, <2>7, <2>8 DEF Surroundings
<1>9. CASE UNCHANGED vars BY <1>9 DEF vars
<1> QED BY ONLY [Next]_vars, NextCases, <1>1, <1>2, <1>3, <1>4, <1>5, <1>6, <1>7, <1>8, <1>9

-----------------------------------------------------------------------------
(* What a step makes of the operation under way.                           *)

\* The operation goes on at a step, or ends.
To(pc, why) == w'.op = w.op /\ w'.att = w.att /\ w'.pc = pc /\ w'.why = why
Ends(pc) == IF pc = "end" THEN w' = Idle ELSE To(pc, w.why)

\* Goto, field by field.
LEMMA GoesTo == ASSUME w \in Worker PROVE \A pc : Goto(pc) => Ends(pc)
BY DEF Worker, Goto, To, Ends

\* Turning to the detach routine, field by field.
LEMMA DetachesTo == ASSUME w \in Worker PROVE \A why : Detach(why) => To("dRead", why)
BY DEF Worker, Detach, To

\* Whose steps these are.
LEMMA Whose ==
    ASSUME TypeOK, ProgramInv
    PROVE  /\ w.pc = "update" => w.op = "attach"
           /\ w.pc \in {"detachIntent", "restoreVolume", "checkIntent"} => w.op = "detach"
           /\ w.pc = "power" => w.op = "power"
           /\ w.pc \in {"rollIntent", "fail"} => w.op = "spawn"
           /\ w.pc = "intent" => w.op \in {"attach", "spawn", "power"}
           /\ w.pc \in {"delete", "drop"} => w.op \in {"attach", "detach", "recover"}
           /\ w.pc = "rollDetaching" => w.op \in {"init", "recover"}
           /\ w.pc \in AttachPcs => w.op \in {"attach", "spawn", "power", "recover"}
           /\ w.pc = "aRead" /\ w.op = "attach" => w.att # None
BY DEF TypeOK, ProgramInv, Worker, Operations, Idle, AttachPcs, DetachPcs, RollPcs, ReplayPcs

\* Every step keeps the invariant.  Where a step calls os-brick, Cinder or the
\* profile API, its outcomes are stated first, in terms of To and Ends.
LEMMA StepKeeps ==
    ASSUME TypeOK, TypeOK', StateInv, [Next]_vars PROVE StateInv'
<1> USE AttachmentsAssumption DEF TypeOK, Worker, Steps, StateInv, ProgramInv, OwnerInv,
      IntentInv, InternalInv, RecordInv,
   AttachInv, DetachInv, RollInv, EndInv, RecoveryInv, MappingIsAccounted, Requested,
         HoldsIntent, HotRollback, Untouched, NoIntents,
   Mine, ForeignMapped, NoFault, Fault, Goto, Idle, NoIntent, NoRequest, Unconnected, Connected,
         Hidden,
   AttachPcs, DetachPcs, RollPcs, ReplayPcs, Phases, AttachOk, Attaching, DetachOk, DetachFailed,
         AttachFailed,
   Raised, RolledBack, Retained, Desired, FailedBuild, nova, volume, intents, host, To, Ends
<1>1. CASE Attachment
  <2>1. ASSUME AttachRead PROVE StateInv'
    <3>1. /\ w.pc = "aRead"
          /\ UNCHANGED <<bdm, bdmInfo, cinder, detaching, foreign, request, journal,
                        attachIntent, detachIntent, profile, mapping, running, up, build, faults>>
      BY ONLY TypeOK, <2>1, AttachmentsAssumption DEF AttachRead, TypeOK, nova, volume, intents,
            host, NoFault
    <3>2. \/ To("dRead", "fresh") /\ UnfinishedPhase = "disconnecting"
          \/ To("aJournal", w.why) /\ ~(profile.phase = "connected" /\ journal # "disconnecting")
                /\ UnfinishedPhase # "disconnecting"
          \/ Ends(AttachOk) /\ profile.phase = "connected" /\ journal # "disconnecting" /\ Matches
          \/ Ends(AttachFailed) /\ profile.phase # "none"
      BY ONLY TypeOK, <2>1, <3>1, GoesTo, DetachesTo DEF AttachRead, TypeOK, Ends
    <3> QED BY ONLY TypeOK, TypeOK', StateInv, Whose, AttachmentsAssumption, <3>1, <3>2,
          SMTT(20) DEF UnfinishedPhase, Matches
  <2>2. AttachRetainProfile => StateInv'
    BY SMTT(20) DEF AttachRetainProfile, Detach
  <2>3. ASSUME AttachJournal PROVE StateInv'
    <3>1. /\ w.pc = "aJournal"
          /\ UNCHANGED <<bdm, bdmInfo, cinder, detaching, foreign, request, attachIntent,
                        detachIntent, profile, mapping, running, up, build, faults>>
      BY ONLY TypeOK, <2>3, AttachmentsAssumption DEF AttachJournal, Record, TypeOK, nova,
            volume, intents, host, NoFault
    <3>2. To("aProfile", w.why) /\ journal' = IF journal = "none" THEN "connecting" ELSE journal
      BY ONLY TypeOK, <2>3, <3>1, GoesTo, DetachesTo DEF AttachJournal, Record, TypeOK, Ends
    <3> QED BY ONLY TypeOK, TypeOK', StateInv, Whose, AttachmentsAssumption, <3>1, <3>2, SMTT(20)
  <2>4. AttachProfile => StateInv'
    BY SMTT(20) DEF AttachProfile, SaveProfile, AttachFailed
  <2>5. ASSUME AttachConnect PROVE StateInv'
    <3>1. /\ w.pc = "aConnect" /\ (mapping => mapping')
          /\ UNCHANGED <<bdm, bdmInfo, cinder, detaching, foreign, request, journal,
                        attachIntent, detachIntent, profile, running, up, build>>
      BY ONLY TypeOK, <2>5, AttachmentsAssumption DEF AttachConnect, Connect, TypeOK, nova,
            volume, intents, host, NoFault
    <3>2. (To("aConnected", w.why) /\ mapping') \/ To("dRead", "undo")
      BY ONLY TypeOK, <2>5, <3>1, GoesTo, DetachesTo DEF AttachConnect, Connect, TypeOK, Ends
    <3> QED BY ONLY TypeOK, TypeOK', StateInv, Whose, AttachmentsAssumption, <3>1, <3>2, SMTT(20)
  <2>6. AttachConnected => StateInv'
    BY SMTT(20) DEF AttachConnected, Record
  <2>7. ASSUME AttachCommit PROVE StateInv'
    <3>1. /\ w.pc = "aCommit"
          /\ UNCHANGED <<bdm, bdmInfo, cinder, detaching, foreign, request, journal,
                        attachIntent, detachIntent, mapping, running, up, build>>
      BY ONLY TypeOK, <2>7, AttachmentsAssumption DEF AttachCommit, SaveProfile, TypeOK, nova,
            volume, intents, host, NoFault
    <3>2. (Ends(AttachOk) /\ profile' = Connected) \/ (To("aRetain",
          w.why) /\ profile' \in {profile, Connected})
      BY ONLY TypeOK, <2>7, <3>1, GoesTo, DetachesTo DEF AttachCommit, SaveProfile, TypeOK, Ends
    <3> QED BY ONLY TypeOK, TypeOK', StateInv, Whose, AttachmentsAssumption, <3>1, <3>2, SMTT(20)
  <2>8. AttachRetain => StateInv'
    BY SMTT(20) DEF AttachRetain, Record
  <2> QED BY ONLY <1>1, <2>1, <2>2, <2>3, <2>4, <2>5, <2>6, <2>7, <2>8 DEF Attachment
<1>2. CASE Detachment
  <2>1. DetachRead => StateInv'
    BY SMTT(20) DEF DetachRead, Decide, UnfinishedPhase
  <2>2. ASSUME DetachReconnect PROVE StateInv'
    <3>1. /\ w.pc = "dReconnect" /\ (mapping => mapping')
          /\ UNCHANGED <<bdm, bdmInfo, cinder, detaching, foreign, request, journal,
                        attachIntent, detachIntent, profile, running, up, build>>
      BY ONLY TypeOK, <2>2, AttachmentsAssumption DEF DetachReconnect, Connect, TypeOK, nova,
            volume, intents, host, NoFault
    <3>2. To("dJournal", w.why) \/ Ends(DetachFailed)
      BY ONLY TypeOK, <2>2, <3>1, GoesTo, DetachesTo DEF DetachReconnect, Connect, TypeOK, Ends
    <3> QED BY ONLY TypeOK, TypeOK', StateInv, Whose, AttachmentsAssumption, <3>1, <3>2, SMTT(20)
  <2>3. DetachJournal => StateInv'
    BY SMTT(20) DEF DetachJournal, Record
  <2>4. DetachProfile => StateInv'
    BY SMTT(20) DEF DetachProfile, SaveProfileVerified
  <2>5. ASSUME DetachDisconnect PROVE StateInv'
    <3>0. mapping' => mapping BY ONLY <2>5 DEF DetachDisconnect, Disconnect
    <3>1. /\ w.pc = "dDisconnect"
          /\ UNCHANGED <<bdm, bdmInfo, cinder, detaching, foreign, request, journal,
                        attachIntent, detachIntent, profile, running, up, build>>
      BY ONLY TypeOK, <2>5, AttachmentsAssumption DEF DetachDisconnect, Disconnect, TypeOK, nova,
            volume, intents, host, NoFault
    <3>2. (To("dDisconnected", w.why) /\ ~mapping') \/ Ends(DetachFailed)
      BY ONLY TypeOK, <2>5, <3>1, GoesTo, DetachesTo DEF DetachDisconnect, Disconnect, TypeOK, Ends
    <3> QED BY ONLY TypeOK, TypeOK', StateInv, Whose, AttachmentsAssumption, <3>0, <3>1, <3>2,
          SMTT(20)
  <2>6. DetachDisconnected => StateInv'
    BY SMTT(20) DEF DetachDisconnected, Record
  <2>7. DetachFinal => StateInv'
    BY SMTT(20) DEF DetachFinal, SaveProfileVerified
  <2>8. DetachRemove => StateInv'
    BY SMTT(20) DEF DetachRemove, Record
  <2> QED BY ONLY <1>2, <2>1, <2>2, <2>3, <2>4, <2>5, <2>6, <2>7, <2>8 DEF Detachment
<1>3. CASE Rollback
  <2>1. ASSUME RollInternal PROVE StateInv'
    <3>1. /\ w.pc = "iRoll"
          /\ UNCHANGED <<bdm, bdmInfo, cinder, detaching, foreign, request, journal,
                        attachIntent, detachIntent, profile, mapping, running, up, build, faults>>
      BY ONLY TypeOK, <2>1, AttachmentsAssumption DEF RollInternal, TypeOK, nova, volume,
            intents, host, NoFault
    <3>2. \/ journal # "none" /\ To("rRoll", "failed")
          \/ journal = "none" /\ profile = Unconnected /\ To("rFinalize", "failed")
          \/ journal = "none" /\ Matches /\ To("dRead", "roll")
          \/ Ends(Raised)
      BY ONLY TypeOK, <2>1, <3>1, GoesTo, DetachesTo DEF RollInternal, TypeOK, Ends
    <3> QED BY ONLY TypeOK, TypeOK', StateInv, Whose, AttachmentsAssumption, <3>1, <3>2,
          SMTT(20) DEF Matches
  <2>2. Decide("rRoll", RollNext) => StateInv'
    BY SMTT(20) DEF Decide, RollNext, Terminal
  <2>3. RollPop => StateInv'
    BY SMTT(20) DEF RollPop, SaveProfile
  <2>4. RollMark => StateInv'
    BY SMTT(20) DEF RollMark, Record
  <2>5. ASSUME RollReconnect PROVE StateInv'
    <3>1. /\ w.pc = "rReconnect" /\ (mapping => mapping')
          /\ UNCHANGED <<bdm, bdmInfo, cinder, detaching, foreign, request, journal,
                        attachIntent, detachIntent, profile, running, up, build>>
      BY ONLY TypeOK, <2>5, AttachmentsAssumption DEF RollReconnect, Connect, TypeOK, nova,
            volume, intents, host, NoFault
    <3>2. To("rUnexpose", w.why) \/ Ends(Raised)
      BY ONLY TypeOK, <2>5, <3>1, GoesTo, DetachesTo DEF RollReconnect, Connect, TypeOK, Ends
    <3> QED BY ONLY TypeOK, TypeOK', StateInv, Whose, AttachmentsAssumption, <3>1, <3>2, SMTT(20)
  <2>6. RollUnexpose => StateInv'
    BY SMTT(20) DEF RollUnexpose, SaveProfile
  <2>7. ASSUME RollUnmap PROVE StateInv'
    <3>0. mapping' => mapping BY ONLY <2>7 DEF RollUnmap, Disconnect
    <3>1. /\ w.pc = "rUnmap"
          /\ UNCHANGED <<bdm, bdmInfo, cinder, detaching, foreign, request, journal,
                        attachIntent, detachIntent, profile, running, up, build>>
      BY ONLY TypeOK, <2>7, AttachmentsAssumption DEF RollUnmap, Disconnect, TypeOK, nova,
            volume, intents, host, NoFault
    <3>2. (To("rMark", w.why) /\ ~mapping') \/ Ends(Raised)
      BY ONLY TypeOK, <2>7, <3>1, GoesTo, DetachesTo DEF RollUnmap, Disconnect, TypeOK, Ends
    <3> QED BY ONLY TypeOK, TypeOK', StateInv, Whose, AttachmentsAssumption, <3>0, <3>1, <3>2,
          SMTT(20)
  <2>8. ReplayProfile => StateInv'
    BY SMTT(20) DEF ReplayProfile, SaveProfileVerified
  <2>9. ASSUME ReplayDisconnect PROVE StateInv'
    <3>0. mapping' => mapping BY ONLY <2>9 DEF ReplayDisconnect, Disconnect
    <3>1. /\ w.pc = "yDisconnect"
          /\ UNCHANGED <<bdm, bdmInfo, cinder, detaching, foreign, request, journal,
                        attachIntent, detachIntent, profile, running, up, build>>
      BY ONLY TypeOK, <2>9, AttachmentsAssumption DEF ReplayDisconnect, Disconnect, TypeOK, nova,
            volume, intents, host, NoFault
    <3>2. (To("yDisconnected", w.why) /\ ~mapping') \/ Ends(Raised)
      BY ONLY TypeOK, <2>9, <3>1, GoesTo, DetachesTo DEF ReplayDisconnect, Disconnect, TypeOK, Ends
    <3> QED BY ONLY TypeOK, TypeOK', StateInv, Whose, AttachmentsAssumption, <3>0, <3>1, <3>2,
          SMTT(20)
  <2>10. ReplayDisconnected => StateInv'
    BY SMTT(20) DEF ReplayDisconnected, Record
  <2>11. FinalizeRolledBack => StateInv'
    BY SMTT(20) DEF FinalizeRolledBack
  <2> QED BY ONLY <1>3, <2>1, <2>2, <2>3, <2>4, <2>5, <2>6, <2>7, <2>8, <2>9, <2>10, <2>11
        DEF Rollback
<1>4. CASE Ownership
  <2>1. ASSUME BeginAttach PROVE StateInv'
    <3>1. /\ w.pc = "intent"
          /\ UNCHANGED <<bdm, bdmInfo, cinder, detaching, foreign, request, journal,
                        detachIntent, profile, mapping, running, up, build, faults>>
      BY ONLY TypeOK, <2>1, AttachmentsAssumption DEF BeginAttach, PrepareAttach, TypeOK, nova,
            volume, intents, host, NoFault
    <3>2. \/ /\ MayIntend /\ attachIntent' = IntentOf
             /\ To(IF w.op = "attach" THEN "update" ELSE "aRead", w.why)
          \/ ~MayIntend /\ attachIntent' = attachIntent
             /\ Ends(IF w.op = "attach" THEN "drop" ELSE Raised)
      BY ONLY TypeOK, <2>1, <3>1, GoesTo, DetachesTo DEF BeginAttach, PrepareAttach, TypeOK, Ends
    <3> QED BY ONLY TypeOK, TypeOK', StateInv, Whose, AttachmentsAssumption, <3>1, <3>2,
          SMTT(20) DEF MayIntend, IntentOf
  <2>2. ASSUME BeginSpawnRollback PROVE StateInv'
    <3>1. /\ w.pc = "rollIntent"
          /\ UNCHANGED <<bdm, bdmInfo, cinder, detaching, foreign, request, journal,
                        detachIntent, profile, mapping, running, up, build, faults>>
      BY ONLY TypeOK, <2>2, AttachmentsAssumption DEF BeginSpawnRollback, PrepareAttach, TypeOK,
            nova, volume, intents, host, NoFault
    <3>2. \/ MayIntend /\ attachIntent' = IntentOf /\ To("iRoll", w.why)
          \/ ~MayIntend /\ attachIntent' = attachIntent /\ To("fail", w.why)
      BY ONLY TypeOK, <2>2, <3>1, GoesTo, DetachesTo DEF BeginSpawnRollback, PrepareAttach,
            TypeOK, Ends
    <3> QED BY ONLY TypeOK, TypeOK', StateInv, Whose, AttachmentsAssumption, <3>1, <3>2,
          SMTT(20) DEF MayIntend, IntentOf
  <2>3. ASSUME PrepareDetach PROVE StateInv'
    <3>1. /\ w.pc = "detachIntent"
          /\ UNCHANGED <<bdm, bdmInfo, cinder, detaching, foreign, request, journal,
                        attachIntent, profile, mapping, running, up, build, faults>>
      BY ONLY TypeOK, <2>3, AttachmentsAssumption DEF PrepareDetach, TypeOK, nova, volume,
            intents, host, NoFault
    <3>2. \/ attachIntent = NoIntent /\ detachIntent' = w.att /\ To("dRead", "detach")
          \/ detachIntent' = detachIntent /\ w' = Idle
      BY ONLY TypeOK, <2>3, <3>1, GoesTo, DetachesTo DEF PrepareDetach, TypeOK, Ends
    <3> QED BY ONLY TypeOK, TypeOK', StateInv, Whose, AttachmentsAssumption, <3>1, <3>2, SMTT(20)
  <2>4. ASSUME UpdateAttachment PROVE StateInv'
    <3>1. /\ w.pc = "update" /\ w.att \in Attachments
          /\ (\A a \in Attachments : a # w.att => cinder'[a] = cinder[a])
          /\ UNCHANGED <<bdm, bdmInfo, detaching, foreign, request, journal, attachIntent,
                        detachIntent, profile, mapping, running, up, build>>
      BY ONLY TypeOK, StateInv, <2>4, AttachmentsAssumption DEF UpdateAttachment, CinderCall,
            CinderSet, TypeOK, StateInv, ProgramInv, Worker, nova, volume, intents, host, NoFault
    <3>2. \/ To("aRead", w.why) /\ cinder'[w.att] = "attaching"
          \/ To("delete", w.why) /\ cinder'[w.att] \in {cinder[w.att], "attaching"}
      BY ONLY TypeOK, <2>4, <3>1, GoesTo, DetachesTo DEF UpdateAttachment, CinderCall, CinderSet,
            TypeOK, Ends
    <3> QED BY ONLY TypeOK, TypeOK', StateInv, Whose, AttachmentsAssumption, <3>1, <3>2, SMTT(20)
  <2>5. ASSUME CompleteAttachment PROVE StateInv'
    <3>1. /\ w.pc = "complete" /\ w.att \in Attachments
          /\ (\A a \in Attachments : a # w.att => cinder'[a] = cinder[a])
          /\ UNCHANGED <<bdm, bdmInfo, detaching, foreign, request, journal, attachIntent,
                        detachIntent, profile, mapping, running, up, build>>
      BY ONLY TypeOK, StateInv, <2>5, AttachmentsAssumption DEF CompleteAttachment, CinderCall,
            CinderSet, TypeOK, StateInv, ProgramInv, Worker, nova, volume, intents, host, NoFault
    <3>2. \/ To("confirm", w.why) /\ cinder'[w.att] = "attached"
          \/ /\ IF w.op = "attach" THEN To("dRead", "abandon") ELSE w' = Idle
             /\ cinder'[w.att] \in {cinder[w.att], "attached"}
      BY ONLY TypeOK, <2>5, <3>1, GoesTo, DetachesTo DEF CompleteAttachment, CinderCall,
            CinderSet, TypeOK, Ends
    <3> QED BY ONLY TypeOK, TypeOK', StateInv, Whose, AttachmentsAssumption, <3>1, <3>2, SMTT(20)
  <2>6. ASSUME ReleaseAttachment PROVE StateInv'
    <3>1. /\ w.pc = "delete" /\ (detaching' => detaching) /\ w.att \in Attachments
          /\ (\A a \in Attachments : a # w.att => cinder'[a] = cinder[a])
          /\ UNCHANGED <<bdm, bdmInfo, foreign, request, journal, attachIntent, detachIntent,
                        profile, mapping, running, up, build>>
      BY ONLY TypeOK, StateInv, <2>6, AttachmentsAssumption DEF ReleaseAttachment, CinderCall,
            CinderSet, TypeOK, StateInv, ProgramInv, Worker, nova, volume, intents, host, NoFault
    <3>2. \/ To("drop", w.why) /\ cinder'[w.att] = "none"
          \/ /\ Ends(IF w.op = "attach" THEN "drop"
                     ELSE IF w.op = "detach" THEN "checkIntent" ELSE "end")
             /\ cinder'[w.att] \in {cinder[w.att], "none"}
      BY ONLY TypeOK, <2>6, <3>1, GoesTo, DetachesTo DEF ReleaseAttachment, CinderCall,
            CinderSet, TypeOK, Ends
    <3> QED BY ONLY TypeOK, TypeOK', StateInv, Whose, AttachmentsAssumption, <3>1, <3>2, SMTT(20)
  <2>7. SaveBdm => StateInv'
    BY SMTT(20) DEF SaveBdm
  <2>8. ASSUME DropBdm PROVE StateInv'
    <3>1. /\ w.pc = "drop" /\ bdm' = (IF bdm = w.att THEN None ELSE bdm)
          /\ (bdmInfo' <=> bdmInfo /\ bdm # w.att)
          /\ UNCHANGED <<cinder, detaching, foreign, request, journal, attachIntent,
                        detachIntent, profile, mapping, running, up, build, faults>>
      BY ONLY TypeOK, <2>8, AttachmentsAssumption DEF DropBdm, TypeOK, nova, volume, intents,
            host, NoFault
    <3>2. Ends(IF w.op = "attach" THEN "end"
               ELSE IF detachIntent # None THEN "finalizeDetach" ELSE "rFinalize")
      BY ONLY TypeOK, <2>8, GoesTo, DetachesTo DEF DropBdm, TypeOK
    <3> QED BY ONLY TypeOK, TypeOK', StateInv, Whose, AttachmentsAssumption, <3>1, <3>2, SMTT(20)
  <2>9. Confirm => StateInv'
    BY SMTT(20) DEF Confirm, Matches
  <2>10. CancelAttach => StateInv'
    BY SMTT(20) DEF CancelAttach
  <2>11. ASSUME RestoreVolume("restoreVolume", "checkIntent") PROVE StateInv'
    <3>0. detaching' => detaching BY ONLY <2>11 DEF RestoreVolume
    <3>1. /\ w.pc = "restoreVolume"
          /\ UNCHANGED <<bdm, bdmInfo, cinder, foreign, request, journal, attachIntent,
                        detachIntent, profile, mapping, running, up, build>>
      BY ONLY TypeOK, <2>11, AttachmentsAssumption DEF RestoreVolume, TypeOK, nova, volume,
            intents, host, NoFault
    <3>2. To("checkIntent", w.why) \/ w' = Idle
      BY ONLY TypeOK, <2>11, <3>1, GoesTo, DetachesTo DEF RestoreVolume, TypeOK, Ends
    <3> QED BY ONLY TypeOK, TypeOK', StateInv, Whose, AttachmentsAssumption, <3>0, <3>1, <3>2,
          SMTT(20)
  <2>12. ASSUME CheckIntent PROVE StateInv'
    <3>1. /\ w.pc = "checkIntent"
          /\ UNCHANGED <<bdm, bdmInfo, cinder, detaching, foreign, request, journal,
                        attachIntent, detachIntent, profile, mapping, running, up, build, faults>>
      BY ONLY TypeOK, <2>12, AttachmentsAssumption DEF CheckIntent, Decide, TypeOK, nova, volume,
            intents, host, NoFault
    <3>2. Ends(IF journal = "none" THEN "cancelDetach" ELSE "end")
      BY ONLY TypeOK, <2>12, <3>1, GoesTo, DetachesTo DEF CheckIntent, Decide, TypeOK, Ends
    <3> QED BY ONLY TypeOK, TypeOK', StateInv, Whose, AttachmentsAssumption, <3>1, <3>2, SMTT(20)
  <2>13. ASSUME RestoreVolume("rollDetaching", "cancelDetach") PROVE StateInv'
    <3>0. detaching' => detaching BY ONLY <2>13 DEF RestoreVolume
    <3>1. /\ w.pc = "rollDetaching"
          /\ UNCHANGED <<bdm, bdmInfo, cinder, foreign, request, journal, attachIntent,
                        detachIntent, profile, mapping, running, up, build>>
      BY ONLY TypeOK, <2>13, AttachmentsAssumption DEF RestoreVolume, TypeOK, nova, volume,
            intents, host, NoFault
    <3>2. To("cancelDetach", w.why) \/ w' = Idle
      BY ONLY TypeOK, <2>13, <3>1, GoesTo, DetachesTo DEF RestoreVolume, TypeOK, Ends
    <3> QED BY ONLY TypeOK, TypeOK', StateInv, Whose, AttachmentsAssumption, <3>0, <3>1, <3>2,
          SMTT(20)
  <2>14. FinalizeDisconnected => StateInv'
    BY SMTT(20) DEF FinalizeDisconnected
  <2>15. CancelDetach => StateInv'
    BY SMTT(20) DEF CancelDetach
  <2> QED BY ONLY <1>4, <2>1, <2>2, <2>3, <2>4, <2>5, <2>6, <2>7, <2>8, <2>9, <2>10, <2>11,
        <2>12, <2>13, <2>14, <2>15 DEF Ownership
<1>5. CASE Power
  <2>1. ASSUME Reconcile PROVE StateInv'
    <3>1. /\ w.pc = "power"
          /\ UNCHANGED <<bdm, bdmInfo, cinder, detaching, foreign, request, journal,
                        attachIntent, detachIntent, profile, mapping, running, up, build, faults>>
      BY ONLY TypeOK, <2>1, AttachmentsAssumption DEF Reconcile, Matches, TypeOK, nova, volume,
            intents, host, NoFault
    <3>2. \/ To("intent", w.why) /\ Desired
          \/ To("start", w.why)
          \/ To("dRead", "repair")
      BY ONLY TypeOK, <2>1, <3>1, GoesTo, DetachesTo DEF Reconcile, Matches, TypeOK, Ends
    <3> QED BY ONLY TypeOK, TypeOK', StateInv, Whose, AttachmentsAssumption, <3>1, <3>2,
          SMTT(20) DEF Desired
  <2>2. Start => StateInv'
    BY SMTT(20) DEF Start, Exact, Desired, Matches
  <2>3. SpawnFails => StateInv'
    BY SMTT(20) DEF SpawnFails
  <2> QED BY ONLY <1>5, <2>1, <2>2, <2>3 DEF Power
<1>6. CASE Asking
  <2>1. DetachRequested => StateInv'
    BY SMTT(20) DEF DetachRequested
  <2>2. ASSUME Receive PROVE StateInv'
    <3>1. /\ Ready /\ request' = NoRequest
          /\ UNCHANGED <<bdm, bdmInfo, cinder, detaching, foreign, journal, attachIntent,
                        detachIntent, profile, mapping, running, up, build, faults>>
      BY ONLY TypeOK, <2>2, AttachmentsAssumption DEF Receive, Begin, TypeOK, nova, volume,
            intents, host, NoFault
    <3>2. \/ /\ request.op = "attach"
             /\ w' = [op |-> "attach", pc |-> "intent", att |-> request.att, why |-> "none"]
          \/ /\ request.op = "detach" /\ bdm = request.att
             /\ w' = [op |-> "detach", pc |-> "detachIntent", att |-> bdm, why |-> "none"]
          \/ w' = w
      BY ONLY TypeOK, StateInv, <2>2, <3>1, GoesTo, DetachesTo DEF Receive, Begin, TypeOK, Ends,
            StateInv, OwnerInv
    <3> QED BY ONLY TypeOK, TypeOK', StateInv, Whose, AttachmentsAssumption, <3>1, <3>2,
          SMTT(20) DEF Ready
  <2>3. Spawn => StateInv'
    BY SMTT(20) DEF Spawn, Ready, Begin
  <2>4. PowerOn => StateInv'
    BY SMTT(20) DEF PowerOn, Ready, Begin
  <2>5. Stop => StateInv'
    BY SMTT(20) DEF Stop, Ready
  <2>6. (\E a \in Attachments : AttachRequested(a)) => StateInv'
    BY SMTT(20) DEF AttachRequested, VolumeFree, CinderSet
  <2> QED BY ONLY <1>6, <2>1, <2>2, <2>3, <2>4, <2>5, <2>6 DEF Asking
<1>7. CASE Recovery
  <2>1. ASSUME RecoverDetachPending PROVE StateInv'
    <3>1. /\ Ready /\ detachIntent # None /\ attachIntent = NoIntent /\ journal = "none"
          /\ UNCHANGED <<bdm, bdmInfo, cinder, detaching, foreign, request, journal,
                        attachIntent, detachIntent, profile, mapping, running, up, build, faults>>
      BY ONLY TypeOK, <2>1, AttachmentsAssumption DEF RecoverDetachPending, Recovering, Begin,
            Matches, TypeOK, nova, volume, intents, host, NoFault
    <3>2. \/ /\ bdm = None /\ profile = Unconnected
             /\ w' = [op |-> "recover", pc |-> "cancelDetach", att |-> detachIntent, why |-> "none"]
          \/ /\ bdm = detachIntent /\ bdmInfo
             /\ w' \in {[op |-> "recover", pc |-> pc, att |-> bdm,
                           why |-> "none"] : pc \in {"rollDetaching", "cancelDetach"}}
      BY ONLY TypeOK, StateInv, <2>1, <3>1, GoesTo, DetachesTo DEF RecoverDetachPending,
            Recovering, Begin, Matches, TypeOK, Ends, StateInv, OwnerInv
    <3> QED BY ONLY TypeOK, TypeOK', StateInv, Whose, AttachmentsAssumption, <3>1, <3>2,
          SMTT(20) DEF Ready
  <2>2. RecoverDisconnecting => StateInv'
    BY SMTT(20) DEF RecoverDisconnecting, Recovering, Begin, Ready, VolumeFree
  <2>3. RecoverDisconnected => StateInv'
    BY SMTT(20) DEF RecoverDisconnected, Recovering, Begin, Ready
  <2>4. ASSUME RecoverAttachPending PROVE StateInv'
    <3>1. /\ Ready /\ attachIntent.kind = "hot-attach" /\ journal = "none" /\ detachIntent = None
          /\ UNCHANGED <<bdm, bdmInfo, cinder, detaching, foreign, request, journal,
                        attachIntent, detachIntent, profile, mapping, running, up, build, faults>>
      BY ONLY TypeOK, <2>4, AttachmentsAssumption DEF RecoverAttachPending, HotIntent,
            Recovering, Begin, Unowned, Completed, VolumeFree, Desired, TypeOK, nova, volume,
            intents, host, NoFault
    <3>2. \/ /\ cinder[attachIntent.att] = "attached" /\ bdmInfo
             /\ w' = [op |-> "recover", pc |-> "confirm", att |-> attachIntent.att, why |-> "none"]
          \/ /\ cinder[attachIntent.att] # "attached"
             /\ w' = [op |-> "recover", pc |-> "delete", att |-> attachIntent.att, why |-> "none"]
      BY ONLY TypeOK, <2>4, <3>1, GoesTo, DetachesTo DEF RecoverAttachPending, HotIntent,
            Recovering, Begin, Unowned, Completed, VolumeFree, Desired, TypeOK, Ends
    <3> QED BY ONLY TypeOK, TypeOK', StateInv, Whose, AttachmentsAssumption, <3>1, <3>2,
          SMTT(20) DEF Ready
  <2>5. ASSUME RecoverFormalAttach PROVE StateInv'
    <3>1. /\ Ready /\ attachIntent.kind = "hot-attach" /\ journal # "none"
          /\ detachIntent = None /\ bdm = attachIntent.att
          /\ UNCHANGED <<bdm, bdmInfo, cinder, detaching, foreign, request, journal,
                        attachIntent, detachIntent, profile, mapping, running, up, build, faults>>
      BY ONLY TypeOK, <2>5, AttachmentsAssumption DEF RecoverFormalAttach, HotIntent, Recovering,
            Begin, TypeOK, nova, volume, intents, host, NoFault
    <3>2. \/ /\ cinder[bdm] = "attached" /\ bdmInfo
             /\ w' = [op |-> "recover", pc |-> "confirm", att |-> bdm, why |-> "none"]
          \/ /\ cinder[bdm] = "attaching" /\ journal \in {"connecting", "connected"}
             /\ w' = [op |-> "recover", pc |-> "aRead", att |-> bdm, why |-> "none"]
      BY ONLY TypeOK, <2>5, <3>1, GoesTo, DetachesTo DEF RecoverFormalAttach, HotIntent,
            Recovering, Begin, TypeOK, Ends
    <3> QED BY ONLY TypeOK, TypeOK', StateInv, Whose, AttachmentsAssumption, <3>1, <3>2,
          SMTT(20) DEF Ready
  <2>6. RecoverFailedAttach => StateInv'
    BY SMTT(20) DEF RecoverFailedAttach, HotIntent, Recovering, Begin, Ready, Unowned, Completed,
          VolumeFree
  <2>7. RecoverInternal => StateInv'
    BY SMTT(20) DEF RecoverInternal, Recovering, Begin, Ready
  <2> QED BY ONLY <1>7, <2>1, <2>2, <2>3, <2>4, <2>5, <2>6, <2>7 DEF Recovery
<1>8. CASE Surroundings
  <2>1. Crash => StateInv'
    BY SMTT(20) DEF Crash, Died
  <2>2. HostReboot => StateInv'
    BY SMTT(20) DEF HostReboot, Died
  <2>3. Restart => StateInv'
    BY SMTT(20) DEF Restart, Begin
  <2>4. ForeignReserve => StateInv'
    BY SMTT(20) DEF ForeignReserve, Foreign, VolumeFree
  <2>5. ForeignMap => StateInv'
    BY SMTT(20) DEF ForeignMap, Foreign, VolumeLockFree
  <2>6. ForeignComplete => StateInv'
    BY SMTT(20) DEF ForeignComplete, Foreign
  <2>7. ForeignPowerOn => StateInv'
    BY SMTT(20) DEF ForeignPowerOn, Foreign, VolumeLockFree
  <2>8. ASSUME ForeignDetach PROVE StateInv'
    <3>1. /\ ~mapping' /\ foreign' = "none" /\ foreign \in {"attached", "mapped"} /\ VolumeLockFree
          /\ UNCHANGED <<bdm, bdmInfo, cinder, detaching, request, journal, attachIntent,
                        detachIntent, profile, running, up, build, w, faults>>
      BY ONLY TypeOK, <2>8, AttachmentsAssumption DEF ForeignDetach, Foreign, TypeOK, nova,
            volume, intents, host, NoFault
    <3> QED BY ONLY TypeOK, TypeOK', StateInv, Whose, AttachmentsAssumption, <3>1, SMTT(20)
          DEF VolumeLockFree
  <2> QED BY ONLY <1>8, <2>1, <2>2, <2>3, <2>4, <2>5, <2>6, <2>7, <2>8 DEF Surroundings
<1>9. CASE UNCHANGED vars BY <1>9 DEF vars
<1> QED BY ONLY [Next]_vars, NextCases, <1>1, <1>2, <1>3, <1>4, <1>5, <1>6, <1>7, <1>8, <1>9

-----------------------------------------------------------------------------
(* The theorems.                                                           *)

\* Initially nothing is attached, or a build finds its volume attached.
LEMMA InitInv == ASSUME Init PROVE Inv
<1> USE AttachmentsAssumption, FaultsAssumption
<1>1. PICK a \in Attachments :
          \/ bdm = None /\ bdmInfo = FALSE /\ build = "active" /\ running = TRUE
             /\ cinder = [b \in Attachments |-> "none"]
          \/ bdm = a /\ bdmInfo = TRUE /\ build = "building" /\ running = FALSE
             /\ cinder = [b \in Attachments |-> IF b = a THEN "attached" ELSE "none"]
  BY DEF Init
<1>2. /\ request = NoRequest /\ detaching = FALSE /\ foreign = "none"
      /\ journal = "none" /\ attachIntent = NoIntent /\ detachIntent = None
      /\ profile = Unconnected /\ mapping = FALSE
      /\ w = Idle /\ up = TRUE /\ faults = 0
  BY DEF Init
<1>3. TypeOK
  <2>1. cinder \in [Attachments -> {"none", "reserved", "attaching", "attached"}] BY <1>1
  <2>2. /\ request \in [op : {"none", "attach", "detach"}, att : Attachments \cup {None}]
        /\ attachIntent \in [att : Attachments \cup {None},
                             kind : {"none", "hot-attach", "spawn", "reconcile"}]
        /\ profile \in Profile
    BY <1>2 DEF NoRequest, NoIntent, Unconnected, Profile
  <2>3. w \in Worker BY <1>2, Idles
  <2>4. faults \in 0..MaxFaults BY <1>2
  <2>5. bdm \in Attachments \cup {None} /\ build \in {"building", "active", "error"} BY <1>1
  <2>6. bdmInfo \in BOOLEAN /\ running \in BOOLEAN BY <1>1
  <2>7. detaching \in BOOLEAN /\ mapping \in BOOLEAN /\ up \in BOOLEAN BY <1>2
  <2>8. /\ foreign \in {"none", "reserved", "mapped", "attached"}
        /\ journal \in Phases \cup {"none"} /\ detachIntent \in Attachments \cup {None}
    BY <1>2
  <2> QED BY ONLY <2>1, <2>2, <2>3, <2>4, <2>5, <2>6, <2>7, <2>8 DEF TypeOK
<1>4. /\ w.op = "none" /\ w.pc = "none" /\ w.att = None /\ w.why = "none"
      /\ request.op = "none" /\ request.att = None
      /\ attachIntent.kind = "none" /\ attachIntent.att = None
  BY <1>2 DEF Idle, NoRequest, NoIntent
<1>5. \/ bdm = None /\ ~bdmInfo /\ build = "active"
      \/ bdm \in Attachments /\ bdmInfo /\ build = "building" /\ cinder[bdm] = "attached"
  BY <1>1
<1>6. up /\ ~mapping /\ ~detaching BY <1>2
<1>7. Untouched /\ NoIntents BY <1>2 DEF Untouched, NoIntents
<1> USE DEF AttachPcs, DetachPcs, RollPcs, ReplayPcs
<1>8. ProgramInv BY ONLY <1>4, <1>2, <1>6 DEF ProgramInv, AttachPcs, DetachPcs, RollPcs, ReplayPcs
<1>9. OwnerInv BY ONLY <1>4, <1>5, <1>6, <1>2, <1>7, AttachmentsAssumption DEF OwnerInv,
      AttachPcs, DetachPcs
<1>10. IntentInv BY ONLY <1>4, <1>2, <1>7 DEF IntentInv, HoldsIntent, AttachPcs, DetachPcs,
      RollPcs, ReplayPcs
<1>11. InternalInv /\ RecordInv BY ONLY <1>4, <1>2 DEF InternalInv, RecordInv
<1>12. AttachInv /\ DetachInv BY ONLY <1>4 DEF AttachInv, DetachInv

<1>13. RollInv /\ EndInv /\ RecoveryInv BY ONLY <1>4 DEF RollInv, EndInv, RecoveryInv, HotRollback
<1>14. MappingIsAccounted BY ONLY <1>2, <1>6 DEF MappingIsAccounted
<1> QED BY <1>3, <1>8, <1>9, <1>10, <1>11, <1>12, <1>13, <1>14 DEF Inv, StateInv

\* Whatever call, crash, reboot or periodic pass comes next, the records, the
\* intents and the host keep the invariant.
THEOREM Invariance == Spec => []Inv
<1>1. Inv /\ [Next]_vars => Inv' BY StepTypes, StepKeeps DEF Inv
<1> QED BY InitInv, <1>1, PTL DEF Spec

\* Nova's and Cinder's records, the journal, the intents, the profile and the
\* operation under way keep their types.
THEOREM TypeCorrect == Spec => []TypeOK
<1>1. Inv => TypeOK BY DEF Inv
<1> QED BY Invariance, <1>1, PTL

\* No crash, failed call or recovery leaves an image mapped for the instance
\* with nothing durable that names it, nor a journal with two owners or none.
THEOREM Accounted == Spec => []MappingIsAccounted
<1>1. Inv => MappingIsAccounted BY DEF Inv, StateInv
<1> QED BY Invariance, <1>1, PTL

\* Which steps disconnect the image, and which give an attachment back.
Unmapping ==
    mapping /\ ~mapping' =>
        w.pc \in {"dDisconnect", "rUnmap", "yDisconnect"} \/ foreign' # foreign \/ ~up'
Releasing ==
    \A a \in Attachments :
        cinder[a] = "attached" /\ cinder'[a] = "none" => w.pc = "delete" /\ w.att = a

\* Only three steps of the driver disconnect the image; otherwise the other
\* instance lets go of it, or the host goes down.
LEMMA StepUnmaps == ASSUME TypeOK, [Next]_vars PROVE Unmapping
<1> USE DEF Unmapping, host, volume
<1>1. Attachment => Unmapping
  BY DEF Attachment, AttachRead, AttachRetainProfile, AttachJournal, Record, AttachProfile,
        SaveProfile, AttachConnect, Connect, AttachConnected, AttachCommit, AttachRetain
<1>2. Detachment => Unmapping
  BY DEF Detachment, DetachRead, Decide, DetachReconnect, Connect, DetachJournal, Record,
        DetachProfile, SaveProfileVerified, DetachDisconnect, Disconnect, DetachDisconnected,
        DetachFinal, DetachRemove
<1>3. Rollback => Unmapping
  BY DEF Rollback, RollInternal, Decide, RollPop, SaveProfile, RollMark, Record, RollReconnect,
        Connect, RollUnexpose, RollUnmap, Disconnect, ReplayProfile, SaveProfileVerified,
        ReplayDisconnect, ReplayDisconnected, FinalizeRolledBack
<1>4. Ownership => Unmapping
  BY DEF Ownership, BeginAttach, PrepareAttach, BeginSpawnRollback, PrepareDetach,
        UpdateAttachment, CinderCall, CinderSet, CompleteAttachment, ReleaseAttachment, SaveBdm,
        DropBdm, Confirm, CancelAttach, RestoreVolume, CheckIntent, Decide, FinalizeDisconnected,
        CancelDetach
<1>5. Power => Unmapping
  BY DEF Power, Reconcile, Start, SpawnFails
<1>6. Asking => Unmapping
  BY DEF Asking, DetachRequested, Receive, Ready, Spawn, PowerOn, Stop, AttachRequested,
        VolumeFree, CinderSet
<1>7. Recovery => Unmapping
  BY DEF Recovery, RecoverDetachPending, Recovering, Ready, RecoverDisconnecting, VolumeFree,
        RecoverDisconnected, RecoverAttachPending, HotIntent, RecoverFormalAttach,
        RecoverFailedAttach, RecoverInternal
<1>8. Surroundings => Unmapping
  BY DEF Surroundings, Crash, Died, HostReboot, Restart, ForeignReserve, Foreign, VolumeFree,
        ForeignMap, VolumeLockFree, ForeignComplete, ForeignPowerOn, ForeignDetach
<1>9. UNCHANGED vars => Unmapping BY DEF vars
<1> QED BY ONLY [Next]_vars, NextCases, <1>1, <1>2, <1>3, <1>4, <1>5, <1>6, <1>7, <1>8, <1>9

\* Only the release of an attachment takes a completed one from Cinder.
LEMMA StepReleases == ASSUME TypeOK, [Next]_vars PROVE Releasing
<1> USE DEF Releasing, volume
<1>1. Attachment => Releasing
  BY DEF Attachment, AttachRead, AttachRetainProfile, AttachJournal, Record, AttachProfile,
        SaveProfile, AttachConnect, Connect, AttachConnected, AttachCommit, AttachRetain
<1>2. Detachment => Releasing
  BY DEF Detachment, DetachRead, Decide, DetachReconnect, Connect, DetachJournal, Record,
        DetachProfile, SaveProfileVerified, DetachDisconnect, Disconnect, DetachDisconnected,
        DetachFinal, DetachRemove
<1>3. Rollback => Releasing
  BY DEF Rollback, RollInternal, Decide, RollPop, SaveProfile, RollMark, Record, RollReconnect,
        Connect, RollUnexpose, RollUnmap, Disconnect, ReplayProfile, SaveProfileVerified,
        ReplayDisconnect, ReplayDisconnected, FinalizeRolledBack
<1>4. Ownership => Releasing
  <2>1. UpdateAttachment => Releasing BY DEF UpdateAttachment, CinderCall, CinderSet, TypeOK
  <2>2. CompleteAttachment => Releasing BY DEF CompleteAttachment, CinderCall, CinderSet, TypeOK
  <2>3. ReleaseAttachment => Releasing BY DEF ReleaseAttachment, CinderCall, CinderSet, TypeOK
  <2> QED BY <2>1, <2>2, <2>3 DEF Ownership, BeginAttach, PrepareAttach, BeginSpawnRollback,
        PrepareDetach, CinderCall, CinderSet, SaveBdm, DropBdm, Confirm, CancelAttach,
        RestoreVolume, CheckIntent, Decide, FinalizeDisconnected, CancelDetach
<1>5. Power => Releasing
  BY DEF Power, Reconcile, Start, SpawnFails
<1>6. Asking => Releasing
  BY DEF Asking, DetachRequested, Receive, Ready, Spawn, PowerOn, Stop, AttachRequested,
        VolumeFree, CinderSet
<1>7. Recovery => Releasing
  BY DEF Recovery, RecoverDetachPending, Recovering, Ready, RecoverDisconnecting, VolumeFree,
        RecoverDisconnected, RecoverAttachPending, HotIntent, RecoverFormalAttach,
        RecoverFailedAttach, RecoverInternal
<1>8. Surroundings => Releasing
  BY DEF Surroundings, Crash, Died, HostReboot, Restart, ForeignReserve, Foreign, VolumeFree,
        ForeignMap, VolumeLockFree, ForeignComplete, ForeignPowerOn, ForeignDetach
<1>9. UNCHANGED vars => Releasing BY DEF vars
<1> QED BY ONLY [Next]_vars, NextCases, <1>1, <1>2, <1>3, <1>4, <1>5, <1>6, <1>7, <1>8, <1>9


\* Recovery, spawn and attach never disconnect a volume that another instance
\* of the host has mapped since: they work under an attachment that excludes
\* it, or have looked for it under the volume's lock.
THEOREM KeepsLaterOwner == Spec => RecoveryKeepsLaterOwner
<1>1. ASSUME Inv, [Next]_vars, UnmapsForeign PROVE w.op \in {"detach", "power"}
  <2>1. w.pc \in {"dDisconnect", "rUnmap", "yDisconnect"} /\ ForeignMapped
    BY <1>1, StepUnmaps DEF Inv, UnmapsForeign, Unmapping
  <2>2. ProgramInv /\ OwnerInv /\ RecoveryInv /\ TypeOK BY <1>1 DEF Inv, StateInv
  <2>3. \A a \in Attachments : cinder[a] = "none"
    BY ONLY <2>1, <2>2 DEF OwnerInv, ForeignMapped
  <2>4. w.op # "recover" BY ONLY <2>1, <2>2 DEF RecoveryInv, AttachPcs, DetachPcs, ReplayPcs
  <2>5. w.op \notin {"attach", "spawn"}
    BY ONLY <2>1, <2>2, <2>3, AttachmentsAssumption
       DEF ProgramInv, OwnerInv, TypeOK, Worker, AttachPcs, DetachPcs, RollPcs, ReplayPcs
  <2>6. w.op \notin {"none", "init"}
    BY ONLY <2>1, <2>2 DEF ProgramInv, Idle
  <2> QED BY ONLY <2>2, <2>4, <2>5, <2>6 DEF TypeOK, Worker, Operations
<1>2. Inv /\ [Next]_vars => [UnmapsForeign => w.op \in {"detach", "power"}]_vars BY <1>1
<1> QED BY Invariance, <1>2, PTL DEF Spec, RecoveryKeepsLaterOwner

\* A detach, or its recovery, deletes a completed attachment only when the
\* guest has no device for it and the host no mapping of its own.
THEOREM Released == Spec => ReleasedAfterHost
<1> DEFINE Safe == \A a \in Attachments :
               cinder[a] = "attached" /\ cinder'[a] = "none" /\ w.op \in {"detach", "recover"}
                 => ~profile.device /\ (mapping => ForeignMapped)
<1>1. ASSUME Inv, [Next]_vars PROVE Safe
  <2>1. Releasing BY <1>1, StepReleases DEF Inv
  <2>2. EndInv BY <1>1 DEF Inv, StateInv
  <2> QED BY ONLY <2>1, <2>2 DEF Releasing, EndInv, Mine
<1>2. Inv /\ [Next]_vars => [Safe]_vars BY <1>1
<1> QED BY Invariance, <1>2, PTL DEF Spec, ReleasedAfterHost
=============================================================================
