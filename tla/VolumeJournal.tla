--------------------------- MODULE VolumeJournal ----------------------------
(***************************************************************************)
(* The volume journals of a compute host: one instance, one Cinder RBD     *)
(* volume, and everything that connects, exposes, hides and disconnects it.*)
(*                                                                         *)
(*   - the online attach and detach of Nova, with the intent files that    *)
(*     fence them (manager.py _attach_volume, _detach_volume);             *)
(*   - the volume attach of spawn and of power-on reconciliation, bound to *)
(*     a durable internal intent;                                          *)
(*   - the two driver routines they share, which write the host journal    *)
(*     before os-brick changes anything (driver.py _attach_volume_locked,  *)
(*     _detach_volume_locked);                                             *)
(*   - the periodic recovery that joins the Nova BDM, the Cinder record    *)
(*     and the journal after a crash or a failure, and the startup pass    *)
(*     that rolls abandoned detaches back.                                 *)
(*                                                                         *)
(* Cinder, os-brick and the upstream Nova flow around the driver are       *)
(* external and modelled from how the code uses them.  A failed call may   *)
(* or may not have been applied.  The manager's transaction lock and the   *)
(* topology lock admit one operation at a time on an (instance, volume)    *)
(* pair: that operation is `w', and a crash of nova-compute resets it at   *)
(* any point.  Another instance of the same host may own the volume        *)
(* whenever Cinder lets it; the kernel mapping of an RBD image is shared   *)
(* by its users, and the host-wide volume lock orders their os-brick calls.*)
(***************************************************************************)
EXTENDS Naturals

CONSTANTS Attachments,   \* Cinder attachment ids, each used for one attach
          None,          \* no attachment
          MaxFaults      \* crashes, reboots and failed calls of a behaviour

ASSUME AttachmentsAssumption == None \notin Attachments
ASSUME FaultsAssumption == MaxFaults \in Nat

VARIABLES
    bdm,           \* attachment named by Nova's BDM, or None without a BDM
    bdmInfo,       \* the BDM holds the connection information
    cinder,        \* Cinder's record of each attachment of this instance
    detaching,     \* Cinder volume status is 'detaching'
    foreign,       \* another instance of this host and the same volume
    request,       \* operation cast by the API and not yet received
    journal,       \* phase of the host journal, "none" without the file
    attachIntent,  \* the managed attach intent file
    detachIntent,  \* attachment of the managed detach intent file
    profile,       \* guest device and connection record in the Incus profile
    mapping,       \* the RBD image is mapped on the host
    running,       \* the container runs
    build,         \* "building", "active" or "error"
    w,             \* the operation under way on this instance and volume
    up,            \* nova-compute serves requests
    faults

nova == <<bdm, bdmInfo, request, running, build>>
volume == <<cinder, detaching, foreign>>
intents == <<attachIntent, detachIntent>>
host == <<profile, mapping>>
vars == <<nova, volume, journal, intents, host, w, up, faults>>

NoIntent == [att |-> None, kind |-> "none"]
NoRequest == [op |-> "none", att |-> None]
Idle == [op |-> "none", pc |-> "none", att |-> None, why |-> "none"]
Unconnected == [device |-> FALSE, phase |-> "none"]
Connected == [device |-> TRUE, phase |-> "connected"]

Phases == {"connecting", "connected", "rolled-back", "disconnecting", "disconnected"}
AttachPcs == {"aRead", "aJournal", "aProfile", "aConnect", "aConnected", "aCommit",
              "aRetain", "aRetainProfile"}
DetachPcs == {"dRead", "dReconnect", "dJournal", "dProfile", "dDisconnect",
              "dDisconnected", "dFinal", "dRemove"}
RollPcs == {"iRoll", "rRoll", "rPop", "rMark", "rReconnect", "rUnexpose", "rUnmap",
            "rFinalize"}
ReplayPcs == {"yProfile", "yDisconnect", "yDisconnected"}
NovaPcs == {"intent", "update", "save", "complete", "delete", "drop", "confirm",
            "cancelAttach", "detachIntent", "restoreVolume", "checkIntent",
            "finalizeDetach", "cancelDetach", "rollDetaching", "rollIntent", "fail", "power",
            "start"}

Operations == {"none", "attach", "detach", "spawn", "power", "recover", "init"}
Steps == {"none"} \cup AttachPcs \cup DetachPcs \cup RollPcs \cup ReplayPcs \cup NovaPcs
Reasons == {"none", "fresh", "undo", "detach", "abandon", "roll", "repair", "failed"}
Worker == [op : Operations, pc : Steps, att : Attachments \cup {None}, why : Reasons]
Profile == [device : BOOLEAN, phase : {"none", "connecting", "connected", "disconnecting"}]

TypeOK ==
    /\ bdm \in Attachments \cup {None} /\ bdmInfo \in BOOLEAN
    /\ cinder \in [Attachments -> {"none", "reserved", "attaching", "attached"}]
    /\ detaching \in BOOLEAN
    /\ foreign \in {"none", "reserved", "mapped", "attached"}
    /\ request \in [op : {"none", "attach", "detach"}, att : Attachments \cup {None}]
    /\ journal \in Phases \cup {"none"}
    /\ attachIntent \in [att : Attachments \cup {None},
                         kind : {"none", "hot-attach", "spawn", "reconcile"}]
    /\ detachIntent \in Attachments \cup {None}
    /\ profile \in Profile
    /\ mapping \in BOOLEAN /\ running \in BOOLEAN /\ up \in BOOLEAN
    /\ build \in {"building", "active", "error"}
    /\ w \in Worker
    /\ faults \in 0..MaxFaults

-----------------------------------------------------------------------------
(* Steps, faults and locks.                                                *)

Goto(pc) == w' = IF pc = "end" THEN Idle ELSE [w EXCEPT !.pc = pc]
Begin(op, pc, att) == w' = [op |-> op, pc |-> pc, att |-> att, why |-> "none"]
Detach(why) == w' = [w EXCEPT !.pc = "dRead", !.why = why]
NoFault == UNCHANGED faults
Fault == faults < MaxFaults /\ faults' = faults + 1

\* An exception the caller does not handle ends the operation.
Raised == IF w.op = "spawn" THEN "fail" ELSE "end"

\* The host-wide lock of the volume is held by the driver's routines and by
\* every recovery, but not by the Nova code around the driver.
VolumeLockFree == w = Idle \/ (w.op \in {"attach", "detach", "power"} /\ w.pc \in NovaPcs)

Completed == {a \in Attachments : cinder[a] = "attached"}
ForeignMapped == foreign \in {"mapped", "attached"}
VolumeFree == foreign = "none" /\ ~detaching /\ \A a \in Attachments : cinder[a] = "none"
CinderSet(a, status) == cinder' = [cinder EXCEPT ![a] = status]

\* _profile_volume_attachment_matches: device, record and mapping agree.
Matches == profile = Connected /\ mapping

\* Nova passes the driver the block devices that hold connection information.
Desired == bdm # None /\ bdmInfo

\* The reads of the two routines prefer the host journal to the profile.
UnfinishedPhase == IF journal # "none" THEN journal ELSE profile.phase

\* profile.save(): an error leaves either version behind; some callers settle
\* it by reading the profile back.
SaveProfile(pc, new, ok, failed) ==
    /\ w.pc = pc
    /\ \/ profile' = new /\ Goto(ok) /\ NoFault
       \/ profile' \in {profile, new} /\ Goto(failed) /\ Fault
    /\ UNCHANGED <<nova, volume, journal, intents, mapping, up>>
SaveProfileVerified(pc, new, ok, failed) ==
    /\ w.pc = pc
    /\ \/ profile' = new /\ Goto(ok) /\ NoFault
       \/ profile' = profile /\ Goto(failed) /\ Fault
    /\ UNCHANGED <<nova, volume, journal, intents, mapping, up>>

\* os-brick maps an image, or hands out its mapping; the call can fail on
\* either side of its effect.
Connect(pc, ok, failed) ==
    /\ w.pc = pc
    /\ \/ mapping' = TRUE /\ Goto(ok) /\ NoFault
       \/ mapping' \in {mapping, TRUE} /\ failed /\ Fault
    /\ UNCHANGED <<nova, volume, journal, intents, profile, up>>
Disconnect(pc, ok, failed) ==
    /\ w.pc = pc
    /\ \/ mapping' = FALSE /\ Goto(ok) /\ NoFault
       \/ mapping' \in {mapping, FALSE} /\ Goto(failed) /\ Fault
    /\ UNCHANGED <<nova, volume, journal, intents, profile, up>>

\* The atomic rename of a new journal over the old one, or its removal.
Record(pc, phase, next) ==
    /\ w.pc = pc /\ journal' = phase /\ Goto(next)
    /\ NoFault /\ UNCHANGED <<nova, volume, intents, host, up>>

\* A step that only reads and decides.
Decide(pc, next) ==
    /\ w.pc = pc /\ Goto(next)
    /\ NoFault /\ UNCHANGED <<nova, volume, journal, intents, host, up>>

\* Mutant: a detach that writes the terminal phase before the host lets go.
Hidden_Terminal == [device |-> FALSE, phase |-> "disconnected"]

\* Guest access removed, the connection record kept.
Hidden == [device |-> FALSE, phase |-> "disconnecting"]

-----------------------------------------------------------------------------
(* _attach_volume_locked.                                                  *)

Attaching == w.op = "attach" \/ (w.op = "recover" /\ cinder[w.att] = "attaching")
AttachOk == IF Attaching THEN "save" ELSE "confirm"
AttachFailed == CASE w.op = "attach" -> "delete"
                  [] w.op = "spawn" -> "rollIntent"
                  [] OTHER -> "end"

\* The reads that choose between the idempotent answer, the completion of an
\* unfinished detach, the resumption of an attach and a fresh one.
AttachRead ==
    /\ w.pc = "aRead"
    /\ IF profile.phase = "connected" /\ journal # "disconnecting"
       THEN Goto(IF Matches THEN AttachOk ELSE AttachFailed)
       ELSE IF profile.phase = "disconnecting" /\ journal \notin {"none", "disconnecting"}
       THEN Goto(AttachFailed)
       ELSE IF UnfinishedPhase = "disconnecting" THEN Detach("fresh")
       ELSE Goto("aJournal")
    /\ NoFault /\ UNCHANGED <<nova, volume, journal, intents, host, up>>

\* _retain_volume_cleanup_metadata: the journal is written, the profile
\* update is best effort.
AttachRetainProfile ==
    /\ w.pc = "aRetainProfile"
    /\ \/ profile' = Hidden /\ NoFault
       \/ profile' = profile /\ Fault
    /\ Detach("undo")
    /\ UNCHANGED <<nova, volume, journal, intents, mapping, up>>

AttachJournal ==
    Record("aJournal", IF journal = "none" THEN "connecting" ELSE journal, "aProfile")
AttachProfile ==
    SaveProfile("aProfile", [profile EXCEPT !.phase = "connecting"], "aConnect", AttachFailed)
AttachConnect == Connect("aConnect", "aConnected", Detach("undo"))
AttachConnected == Record("aConnected", "connected", "aCommit")
AttachCommit == SaveProfile("aCommit", Connected, AttachOk, "aRetain")
AttachRetain == Record("aRetain", "disconnecting", "aRetainProfile")

AttachRoutine ==
    \/ AttachRead \/ AttachJournal \/ AttachProfile \/ AttachConnect
    \/ AttachConnected \/ AttachCommit \/ AttachRetain \/ AttachRetainProfile

-----------------------------------------------------------------------------
(* _detach_volume_locked.                                                  *)

\* Where the caller goes when the routine returns or raises.
DetachOk == CASE w.why = "fresh" -> "aJournal"
              [] w.why = "undo" -> AttachFailed
              [] w.why = "roll" -> "rRoll"
              [] w.why = "repair" -> IF Desired THEN "intent" ELSE "start"
              [] OTHER -> "delete"
DetachFailed == CASE w.why \in {"fresh", "undo"} -> AttachFailed
                  [] w.why = "detach" -> "restoreVolume"
                  [] w.why = "abandon" -> "delete"
                  [] OTHER -> Raised
\* retain_journal: the caller's own transaction retires the journal.
Retained == w.why \in {"detach", "abandon", "roll"}

DetachRead ==
    Decide("dRead", IF profile = Unconnected /\ journal = "none" THEN DetachOk
                    ELSE IF UnfinishedPhase = "connecting" THEN "dReconnect"
                    ELSE "dJournal")
DetachReconnect == Connect("dReconnect", "dJournal", Goto(DetachFailed))
DetachJournal == Record("dJournal", "disconnecting", "dProfile")
DetachProfile == SaveProfileVerified("dProfile", Hidden, "dDisconnect", DetachFailed)
DetachDisconnect == Disconnect("dDisconnect", "dDisconnected", DetachFailed)
DetachDisconnected == Record("dDisconnected", "disconnected", "dFinal")
DetachFinal == SaveProfileVerified("dFinal", Unconnected, "dRemove", DetachFailed)
DetachRemove == Record("dRemove", IF Retained THEN journal ELSE "none", DetachOk)

DetachRoutine ==
    \/ DetachRead \/ DetachReconnect \/ DetachJournal \/ DetachProfile
    \/ DetachDisconnect \/ DetachDisconnected \/ DetachFinal \/ DetachRemove

-----------------------------------------------------------------------------
(* rollback_internal_volume_attach, rollback_connecting_volume_journal,    *)
(* _recover_disconnecting_volume_journal_locked and                        *)
(* finalize_rolled_back_volume_journal.                                    *)

\* A failed build releases its mapping; other internal owners restart.
FailedBuild == attachIntent.kind = "spawn" /\ (w.op = "spawn" \/ build = "error")

RollInternal ==
    /\ w.pc = "iRoll"
    /\ IF journal # "none" THEN w' = [w EXCEPT !.pc = "rRoll", !.why = "failed"]
       ELSE IF profile = Unconnected THEN w' = [w EXCEPT !.pc = "rFinalize", !.why = "failed"]
       ELSE IF Matches THEN Detach("roll")
       ELSE Goto(Raised)
    /\ NoFault /\ UNCHANGED <<nova, volume, journal, intents, host, up>>

\* What a rolled back journal commits to: an internal owner keeps its formal
\* attachment, a failed hot attach deletes it.
RolledBack == IF attachIntent.kind = "hot-attach" THEN "delete" ELSE "rFinalize"
Terminal == ~profile.device /\ profile.phase \in {"none", "disconnecting"}
\* Mutant: a disconnecting journal is taken for a disconnected one.
RollNext_TrustsPhase ==
    CASE journal = "connecting" -> "rReconnect"
      [] journal = "connected" -> "rUnexpose"
      [] journal = "rolled-back" /\ profile = Unconnected -> RolledBack
      [] journal \in {"disconnecting", "disconnected"} /\ profile = Unconnected -> "rMark"
      [] journal \in {"rolled-back", "disconnecting", "disconnected"}
         /\ profile # Unconnected /\ Terminal -> "rPop"
      [] OTHER -> Raised
RollNext ==
    CASE journal = "disconnecting" -> "yProfile"
      [] journal = "connecting" -> "rReconnect"
      [] journal = "connected" -> "rUnexpose"
      [] journal = "rolled-back" /\ profile = Unconnected -> RolledBack
      [] journal = "disconnected" /\ profile = Unconnected -> "rMark"
      [] journal \in {"rolled-back", "disconnected"} /\ profile # Unconnected /\ Terminal -> "rPop"
      [] OTHER -> Raised

RollPop == SaveProfile("rPop", Unconnected,
                       IF journal = "rolled-back" THEN RolledBack ELSE "rMark", Raised)
RollMark == Record("rMark", "rolled-back", RolledBack)
RollReconnect == Connect("rReconnect", "rUnexpose", Goto(Raised))
RollUnexpose == SaveProfile("rUnexpose", Unconnected, "rUnmap", Raised)
RollUnmap == Disconnect("rUnmap", "rMark", Raised)

ReplayProfile == SaveProfileVerified("yProfile", Hidden, "yDisconnect", Raised)
ReplayDisconnect == Disconnect("yDisconnect", "yDisconnected", Raised)
ReplayDisconnected == Record("yDisconnected", "disconnected",
                             IF detachIntent # None THEN "delete" ELSE "rRoll")

RollRoutine ==
    \/ RollInternal \/ Decide("rRoll", RollNext)
    \/ RollPop \/ RollMark \/ RollReconnect \/ RollUnexpose \/ RollUnmap
    \/ ReplayProfile \/ ReplayDisconnect \/ ReplayDisconnected

FinalizeRolledBack ==
    /\ w.pc = "rFinalize"
    /\ IF journal = "none" \/ (journal = "rolled-back" /\ profile = Unconnected)
       THEN /\ journal' = "none"
            /\ Goto(IF FailedBuild \/ attachIntent.kind = "hot-attach"
                    THEN "cancelAttach" ELSE "aRead")
       ELSE Goto(Raised) /\ UNCHANGED journal
    /\ NoFault /\ UNCHANGED <<nova, volume, intents, host, up>>

-----------------------------------------------------------------------------
(* The intents, and the Nova and Cinder calls around the driver.           *)

IntentOf == [att |-> w.att,
             kind |-> CASE w.op = "attach" -> "hot-attach"
                        [] w.op = "spawn" -> "spawn"
                        [] OTHER -> "reconcile"]
\* _write_managed_attach_intent refuses to replace another transaction.
MayIntend == detachIntent = None /\ attachIntent \in {NoIntent, IntentOf}
PrepareAttach(pc, ok, failed) ==
    /\ w.pc = pc
    /\ IF MayIntend THEN attachIntent' = IntentOf /\ Goto(ok)
                    ELSE UNCHANGED attachIntent /\ Goto(failed)
    /\ NoFault /\ UNCHANGED <<nova, volume, journal, detachIntent, host, up>>

PrepareDetach ==
    /\ w.pc = "detachIntent"
    /\ IF attachIntent = NoIntent /\ detachIntent \in {None, w.att}
       THEN detachIntent' = w.att /\ Detach("detach")
       ELSE UNCHANGED detachIntent /\ Goto("end")
    /\ NoFault /\ UNCHANGED <<nova, volume, journal, attachIntent, host, up>>

\* A Cinder call, which can fail on either side of its effect.
CinderCall(pc, status, ok, failed) ==
    /\ w.pc = pc
    /\ \/ CinderSet(w.att, status) /\ ok /\ NoFault
       \/ (CinderSet(w.att, status) \/ UNCHANGED cinder) /\ failed /\ Fault
    /\ UNCHANGED <<nova, foreign, journal, intents, host, up>>
\* The deletion of the attachment ends a detach for Cinder.
ReleaseAttachment ==
    /\ CinderCall("delete", "none", Goto("drop"),
                  CASE w.op = "attach" -> Goto("drop")
                    [] w.op = "detach" -> Goto("checkIntent")
                    [] OTHER -> Goto("end"))
    /\ detaching' = (detaching /\ cinder'[w.att] = cinder[w.att])

SaveBdm ==
    /\ w.pc = "save" /\ bdmInfo' = TRUE /\ Goto("complete")
    /\ NoFault /\ UNCHANGED <<bdm, request, running, build, volume, journal, intents, host, up>>
\* The BDM the operation has read is destroyed, never one that came after it.
DropBdm ==
    /\ w.pc = "drop"
    /\ bdm' = (IF bdm = w.att THEN None ELSE bdm) /\ bdmInfo' = (bdmInfo /\ bdm # w.att)
    /\ Goto(IF w.op = "attach" THEN "end"
            ELSE IF detachIntent # None THEN "finalizeDetach" ELSE "rFinalize")
    /\ NoFault /\ UNCHANGED <<request, running, build, volume, journal, intents, host, up>>

\* confirm_connected_volume_journal: the journal goes once the attachment is
\* formal and the guest device is proved.
Confirm ==
    /\ w.pc = "confirm"
    /\ IF journal \in {"none", "connected"} /\ Matches
       THEN journal' = "none" /\ Goto("cancelAttach")
       ELSE UNCHANGED journal /\ Goto(IF w.op = "spawn" THEN "rollIntent" ELSE "end")
    /\ NoFault /\ UNCHANGED <<nova, volume, intents, host, up>>
CancelAttach ==
    /\ w.pc = "cancelAttach" /\ attachIntent' = NoIntent
    /\ Goto(CASE w.op = "power" -> "start"
              [] w.op = "spawn" -> IF w.why = "none" THEN "start" ELSE "fail"
              [] OTHER -> "end")
    /\ NoFault /\ UNCHANGED <<nova, volume, journal, detachIntent, host, up>>

RestoreVolume(pc, next) ==
    /\ w.pc = pc
    /\ \/ detaching' = FALSE /\ Goto(next) /\ NoFault
       \/ detaching' \in {detaching, FALSE} /\ Fault
          /\ Goto(IF w.op = "detach" THEN next ELSE "end")
    /\ UNCHANGED <<nova, cinder, foreign, journal, intents, host, up>>
\* finalize_disconnected_volume_journal.
FinalizeDisconnected ==
    /\ w.pc = "finalizeDetach"
    /\ IF journal = "none" THEN Goto("cancelDetach") /\ UNCHANGED <<journal, profile>>
       ELSE IF journal # "disconnected" \/ profile.device
       THEN Goto("end") /\ UNCHANGED <<journal, profile>>
       ELSE Goto("cancelDetach") /\ journal' = "none" /\ profile' = Unconnected
    /\ NoFault /\ UNCHANGED <<nova, volume, intents, mapping, up>>
CancelDetach ==
    /\ w.pc = "cancelDetach" /\ detachIntent' = None /\ Goto("end")
    /\ NoFault /\ UNCHANGED <<nova, volume, journal, attachIntent, host, up>>

BeginAttach == PrepareAttach("intent", IF w.op = "attach" THEN "update" ELSE "aRead",
                             IF w.op = "attach" THEN "drop" ELSE Raised)
BeginSpawnRollback == PrepareAttach("rollIntent", "iRoll", "fail")
UpdateAttachment ==
    CinderCall("update", "attaching", Goto("aRead"), Goto("delete")) /\ UNCHANGED detaching
CompleteAttachment ==
    /\ CinderCall("complete", "attached", Goto("confirm"),
                  IF w.op = "attach" THEN Detach("abandon") ELSE Goto("end"))
    /\ UNCHANGED detaching
\* A failed detach keeps its intent when the driver has journaled it.
CheckIntent == Decide("checkIntent", IF journal = "none" THEN "cancelDetach" ELSE "end")

NovaSteps ==
    \/ BeginAttach \/ BeginSpawnRollback \/ PrepareDetach
    \/ UpdateAttachment \/ CompleteAttachment \/ ReleaseAttachment
    \/ SaveBdm \/ DropBdm \/ Confirm \/ CancelAttach
    \/ RestoreVolume("restoreVolume", "checkIntent") \/ CheckIntent
    \/ RestoreVolume("rollDetaching", "cancelDetach")
    \/ FinalizeDisconnected \/ CancelDetach

-----------------------------------------------------------------------------
(* Power-on, spawn and their end.                                          *)

\* _reconcile_reboot_data_volumes on a stopped container.
Reconcile ==
    /\ w.pc = "power"
    /\ IF journal = "none" /\ (profile = Unconnected \/ (Desired /\ Matches))
       THEN Goto(IF Desired /\ profile = Unconnected THEN "intent" ELSE "start")
       ELSE IF Desired /\ (journal # "none" \/ profile = Unconnected) THEN Goto("intent")
       ELSE Detach("repair")
    /\ NoFault /\ UNCHANGED <<nova, volume, journal, intents, host, up>>

\* A power-on starts only an exact topology.
Exact == journal = "none" /\ (IF Desired THEN Matches ELSE profile = Unconnected)
Start ==
    /\ w.pc = "start"
    /\ \/ /\ w.op = "spawn" \/ Exact
          /\ running' = TRUE /\ build' = "active" /\ w' = Idle /\ NoFault
       \/ /\ w.op = "spawn" /\ Fault
          /\ Goto("rollIntent") /\ UNCHANGED <<running, build>>
       \/ /\ w.op = "power" /\ ~Exact
          /\ w' = Idle /\ NoFault /\ UNCHANGED <<running, build>>
    /\ UNCHANGED <<bdm, bdmInfo, request, volume, journal, intents, host, up>>
SpawnFails ==
    /\ w.pc = "fail" /\ build' = "error" /\ w' = Idle
    /\ NoFault /\ UNCHANGED <<bdm, bdmInfo, request, running, volume, journal, intents, host, up>>

-----------------------------------------------------------------------------
(* Requests.                                                               *)

Ready == up /\ w = Idle

AttachRequested(a) ==
    /\ up /\ build = "active" /\ bdm = None /\ VolumeFree /\ request = NoRequest
    /\ a \notin {w.att, attachIntent.att, detachIntent}
    /\ bdm' = a /\ CinderSet(a, "reserved") /\ request' = [op |-> "attach", att |-> a]
    /\ NoFault
    /\ UNCHANGED <<bdmInfo, running, build, detaching, foreign, journal, intents, host, w, up>>
DetachRequested ==
    /\ build = "active" /\ bdm # None /\ cinder[bdm] = "attached" /\ ~detaching
    /\ request = NoRequest
    /\ detaching' = TRUE /\ request' = [op |-> "detach", att |-> bdm]
    /\ NoFault
    /\ UNCHANGED <<bdm, bdmInfo, running, build, cinder, foreign, journal, intents, host, w, up>>
Receive ==
    /\ Ready /\ request # NoRequest
    /\ IF request.op = "attach" THEN Begin("attach", "intent", request.att)
       ELSE IF bdm = request.att THEN Begin("detach", "detachIntent", bdm)
       ELSE UNCHANGED w                                     \* VolumeBDMNotFound
    /\ request' = NoRequest
    /\ NoFault /\ UNCHANGED <<bdm, bdmInfo, running, build, volume, journal, intents, host, up>>
Spawn ==
    /\ Ready /\ build = "building" /\ Begin("spawn", "intent", bdm)
    /\ NoFault /\ UNCHANGED <<nova, volume, journal, intents, host, up>>
PowerOn ==
    /\ Ready /\ build = "active" /\ ~running /\ request = NoRequest
    /\ Begin("power", "power", bdm)
    /\ NoFault /\ UNCHANGED <<nova, volume, journal, intents, host, up>>
Stop ==
    /\ Ready /\ running /\ running' = FALSE
    /\ NoFault /\ UNCHANGED <<bdm, bdmInfo, request, build, volume, journal, intents, host, w, up>>

-----------------------------------------------------------------------------
(* Periodic recovery, by the phase of _volume_recovery_phase.              *)

Recovering(pc, att) ==
    /\ Begin("recover", pc, att)
    /\ NoFault /\ UNCHANGED <<nova, volume, journal, intents, host, up>>

\* The detach intent of the volume, in the three phases of its journal.
RecoverDetachPending ==
    /\ Ready /\ detachIntent # None /\ attachIntent = NoIntent /\ journal = "none"
    /\ IF bdm = None
       THEN profile = Unconnected /\ cinder[detachIntent] = "none"
            /\ Recovering("cancelDetach", detachIntent)
       ELSE bdm = detachIntent /\ cinder[bdm] = "attached" /\ foreign # "attached" /\ Matches
            /\ Recovering(IF detaching THEN "rollDetaching" ELSE "cancelDetach", bdm)
RecoverDisconnecting ==
    /\ Ready /\ detachIntent # None /\ attachIntent = NoIntent
    /\ journal = "disconnecting" /\ bdm = detachIntent /\ foreign # "attached"
    /\ cinder[bdm] = "attached" \/ (cinder[bdm] = "none" /\ VolumeFree)
    /\ Recovering("yProfile", bdm)
\* Mutants: the terminal phase is not required, or its replay insists on the
\* BDM that the crash may have followed.
RecoverDisconnected_AnyPhase ==
    /\ Ready /\ detachIntent # None /\ attachIntent = NoIntent
    /\ journal \in {"disconnecting", "disconnected"} /\ bdm \in {None, detachIntent}
    /\ Recovering(IF bdm = None THEN "finalizeDetach" ELSE "delete", detachIntent)
RecoverDisconnected_NeedsBdm ==
    /\ Ready /\ detachIntent # None /\ attachIntent = NoIntent
    /\ journal = "disconnected" /\ bdm = detachIntent
    /\ Recovering("delete", detachIntent)
RecoverDisconnected ==
    /\ Ready /\ detachIntent # None /\ attachIntent = NoIntent
    /\ journal = "disconnected" /\ bdm \in {None, detachIntent}
    /\ Recovering(IF bdm = None THEN "finalizeDetach" ELSE "delete", detachIntent)

HotIntent ==
    /\ Ready /\ attachIntent.kind = "hot-attach" /\ detachIntent = None
    /\ bdm \in {None, attachIntent.att}
\* Mutant: only this instance's attachments are looked at.
Unowned_OthersIgnored == Completed = {}
\* The volume has no completed owner; a missing attachment is no evidence
\* unless the volume is available.
Unowned == /\ Completed = {} /\ foreign # "attached"
           /\ cinder[attachIntent.att] # "none" \/ VolumeFree
RecoverAttachPending ==
    /\ HotIntent /\ journal = "none"
    /\ IF cinder[attachIntent.att] = "attached"
       THEN Desired /\ Recovering("confirm", attachIntent.att)
       ELSE Unowned /\ Recovering("delete", attachIntent.att)
RecoverFormalAttach ==
    /\ HotIntent /\ journal # "none" /\ bdm = attachIntent.att
    /\ \/ /\ cinder[bdm] = "attached" /\ bdmInfo
          /\ Recovering("confirm", bdm)
       \/ /\ cinder[bdm] = "attaching" /\ journal \in {"connecting", "connected"}
          /\ Recovering("aRead", bdm)
RecoverFailedAttach ==
    /\ HotIntent /\ journal # "none" /\ cinder[attachIntent.att] \in {"none", "reserved"}
    /\ journal = "rolled-back" \/ Unowned
    /\ Recovering("rRoll", attachIntent.att)
\* Spawn and power reconciliation: the formal attachment stays.
RecoverInternal ==
    /\ Ready /\ attachIntent.kind \in {"spawn", "reconcile"} /\ detachIntent = None
    /\ bdm = attachIntent.att /\ cinder[bdm] = "attached"
    /\ Recovering(IF FailedBuild THEN "iRoll"
                  ELSE IF journal \in {"none", "connecting"} THEN "aRead"
                  ELSE IF journal = "connected" THEN "confirm" ELSE "rRoll", bdm)

Recover == \/ RecoverDetachPending \/ RecoverDisconnecting \/ RecoverDisconnected
           \/ RecoverAttachPending \/ RecoverFormalAttach \/ RecoverFailedAttach
           \/ RecoverInternal

-----------------------------------------------------------------------------
(* Failures of the host and of the process, and the startup pass.          *)

Died == /\ up /\ up' = FALSE /\ w' = Idle /\ Fault
        /\ build' = IF build = "building" THEN "error" ELSE build
        /\ UNCHANGED <<bdm, bdmInfo, request, volume, journal, intents, profile>>
Crash == Died /\ UNCHANGED <<running, mapping>>
HostReboot == Died /\ running' = FALSE /\ mapping' = FALSE

\* _roll_back_interrupted_detaches: an abandoned detach the driver never saw.
Restart ==
    /\ ~up /\ up' = TRUE
    /\ IF bdm # None /\ detaching /\ journal = "none" /\ profile.device
       THEN Begin("init", "rollDetaching", bdm) ELSE UNCHANGED w
    /\ NoFault /\ UNCHANGED <<nova, volume, journal, intents, host>>

-----------------------------------------------------------------------------
(* Another instance of the host that uses the volume when Cinder lets it.  *)

Foreign(from, to, map) ==
    /\ foreign = from /\ foreign' = to /\ mapping' = map
    /\ NoFault /\ UNCHANGED <<nova, cinder, detaching, journal, intents, profile, w, up>>
ForeignReserve == VolumeFree /\ Foreign("none", "reserved", mapping)
ForeignMap == up /\ VolumeLockFree /\ Foreign("reserved", "mapped", TRUE)
ForeignComplete == up /\ Foreign("mapped", "attached", mapping)
ForeignPowerOn == up /\ VolumeLockFree /\ Foreign("attached", "attached", TRUE)
ForeignDetach == up /\ VolumeLockFree
                 /\ \/ Foreign("attached", "none", FALSE)
                    \/ Foreign("mapped", "none", FALSE)

Init ==
    /\ \E a \in Attachments :
          \/ bdm = None /\ bdmInfo = FALSE /\ build = "active" /\ running = TRUE
             /\ cinder = [b \in Attachments |-> "none"]
          \/ bdm = a /\ bdmInfo = TRUE /\ build = "building" /\ running = FALSE
             /\ cinder = [b \in Attachments |-> IF b = a THEN "attached" ELSE "none"]
    /\ request = NoRequest /\ detaching = FALSE /\ foreign = "none"
    /\ journal = "none" /\ attachIntent = NoIntent /\ detachIntent = None
    /\ profile = Unconnected /\ mapping = FALSE
    /\ w = Idle /\ up = TRUE /\ faults = 0

Work == up /\ (AttachRoutine \/ DetachRoutine \/ RollRoutine \/ FinalizeRolledBack
               \/ NovaSteps \/ Reconcile \/ Start \/ SpawnFails)
Requests == DetachRequested \/ Receive \/ Spawn \/ PowerOn \/ Stop
               \/ \E a \in Attachments : AttachRequested(a)
ForeignSteps == ForeignReserve \/ ForeignMap \/ ForeignComplete \/ ForeignPowerOn
                   \/ ForeignDetach
Next == Work \/ Requests \/ Recover \/ Crash \/ HostReboot \/ Restart \/ ForeignSteps

Spec == Init /\ [][Next]_vars

\* Threads make progress, the supervisor restarts nova-compute, the periodic
\* task comes round and users of the volume let go of it.
LiveSpec == Spec /\ WF_vars(Work) /\ WF_vars(Receive) /\ WF_vars(Restart)
                 /\ SF_vars(Recover) /\ SF_vars(PowerOn) /\ SF_vars(ForeignDetach)
                 /\ SF_vars(ForeignMap) /\ SF_vars(ForeignComplete)

-----------------------------------------------------------------------------
(* Properties.                                                             *)

\* What the journal says of the host is true, and nothing is mapped without
\* durable evidence that names it: a mapping of this instance is covered by a
\* journal that is not terminal, by a connected profile record, or by a
\* reconcile intent, which can only end in a connection.  And recovery can tell
\* whose work the journal is: never both intents, and never an attach journal
\* that no attach intent owns.
MappingIsAccounted ==
    /\ mapping /\ ~ForeignMapped =>
        \/ journal \in {"connecting", "connected", "disconnecting"}
        \/ journal = "none" /\ profile = Connected
        \/ attachIntent.kind = "reconcile"
    /\ attachIntent = NoIntent \/ detachIntent = None
    /\ journal \in {"connecting", "connected", "rolled-back"} => attachIntent # NoIntent

\* os-brick is called for a volume that another instance of the host has
\* mapped since.
UnmapsForeign == ForeignMapped /\ foreign' = foreign /\ mapping /\ ~mapping' /\ up'

\* Neither recovery, nor spawn, nor an attach disconnects a later owner.
RecoveryKeepsLaterOwner == [][UnmapsForeign => w.op \in {"detach", "power"}]_vars

\* A detach or its recovery gives a completed attachment back to Cinder only
\* when the guest and the host have let go of the volume.
ReleasedAfterHost ==
    [][\A a \in Attachments :
         cinder[a] = "attached" /\ cinder'[a] = "none" /\ w.op \in {"detach", "recover"}
           => ~profile.device /\ (mapping => ForeignMapped)]_vars

\* A detach the driver has journaled ends, whatever crash interrupts it.
DetachConverges ==
    journal \in {"disconnecting", "disconnected"} /\ detachIntent # None
        ~> journal = "none" \/ bdm \notin {None, detachIntent}

=============================================================================
