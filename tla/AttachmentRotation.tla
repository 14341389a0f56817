------------------------- MODULE AttachmentRotation -------------------------
(***************************************************************************)
(* The exchange of the Cinder attachments of an instance's volumes during  *)
(* a cold migration, as its source compute performs and recovers it.       *)
(*                                                                         *)
(* resize_instance gives each volume a new attachment for the target under *)
(* a durable rotation record.  A migration that fails while the source     *)
(* still owns the instance is rolled back by the periodic recovery, or by  *)
(* the startup pass: the old attachment is kept, or the new one is turned  *)
(* back to the source.  A migration that finishes lets the same recovery   *)
(* release the source, unless a revert takes the record over first.        *)
(*                                                                         *)
(* The manager's locks admit one of these operations at a time on an       *)
(* instance: it is `w', on the volume w.vol.  Nova's RPC around them is    *)
(* `rpc', and is not held by the locks.  Cinder, os-brick, the target compute and *)
(* Nova's own flow are external.  A failed call may or may not have been   *)
(* applied, and nova-compute may stop at any step.                         *)
(***************************************************************************)
EXTENDS Naturals, FiniteSets

CONSTANTS Volumes,      \* the instance's Cinder volumes
          None,         \* no volume
          MaxFaults     \* crashes and failed calls of a behaviour

ASSUME VolumesAssumption == None \notin Volumes
ASSUME FaultsAssumption == MaxFaults \in Nat

VARIABLES
    root,      \* the volume that is the root, or None: no os-brick, no host journal
    nova,      \* Migration.status, the instance's host and its task_state
    bdm,       \* per volume: the attachment Nova names, and the connector it holds
    cinder,    \* per volume: Cinder's record of each attachment
    rotation,  \* per volume: phase of the rotation file, "none" without the file
    intent,    \* per volume: the attachment the attach intent file names; "rev" is
               \* of direction cold-revert-source, the others cold-source-restore
    local,     \* per volume: host journal, os-brick mapping and guest device
    gen,       \* the source generation in the profile
    rpc,       \* where Nova's RPC flow is
    w,         \* the operation under way, with what it read when it began
    run,       \* nova-compute on the source
    todo,      \* volumes the startup pass has not tried yet
    faults

records == <<rotation, intent>>
vars == <<root, nova, bdm, cinder, rotation, intent, local, gen, rpc, w, run, todo, faults>>

Att == {"old", "new", "rev"}
Failed == {"error", "reverted"}
Done == {"finished", "confirmed"}
Statuses == {"migrating", "post-migrating", "reverting"} \cup Failed \cup Done
Terminal == {"source-release-complete", "source-rollback-complete"}
Absent == [status |-> "absent", conn |-> "none"]
Idle == [op |-> "none", pc |-> "none", vol |-> None, left |-> {}, status |-> "none",
         host |-> "none", att |-> "none"]
Local(journal, mapped, guest) == [journal |-> journal, mapped |-> mapped, guest |-> guest]

Exchange == {"prepare", "advance", "mark", "create", "name", "delete", "deleted", "switch", "switched"}
HostSteps == {"restart", "local", "disconnect", "forget", "connect", "map", "connected", "expose",
              "undo", "undone", "confirm"}
Steps == {"none", "read", "fence", "reject", "deleteNew", "retained", "adopt", "update", "save",
          "intentOnly", "complete", "done", "replace", "proof", "terminal", "cancel", "unlink",
          "finalize", "retire", "release", "released", "validate", "handed"} \cup Exchange \cup HostSteps
Worker == [op : {"none", "rotate", "recover", "handoff"}, pc : Steps, vol : Volumes \cup {None},
           left : SUBSET Volumes, status : {"none"} \cup Statuses,
           host : {"none", "source", "target"}, att : Att \cup {"none"}]

BdmRecord == [att : Att, conn : {"source", "target"}]
CinderRecord == [status : {"absent", "reserved", "attaching", "attached"},
                 conn : {"none", "source", "target"}]
Phases == {"none", "prepared", "creating", "new-created", "old-deleted", "bdm-rotated",
           "source-old-retained"} \cup Terminal
Journals == {"none", "connecting", "connected", "disconnecting", "disconnected", "rolled-back"}
LocalRecord == [journal : Journals, mapped : BOOLEAN, guest : BOOLEAN]
Rpcs == {"rotate", "leave", "leaving", "fail", "failed", "target", "revert", "attach", "none"}
NovaRecord == [status : Statuses, host : {"source", "target"},
               task : {"none", "migrating", "migrated", "reverting"}]

TypeOK ==
    /\ root \in Volumes \cup {None}
    /\ nova \in NovaRecord
    /\ bdm \in [Volumes -> BdmRecord]
    /\ cinder \in [Volumes -> [Att -> CinderRecord]]
    /\ rotation \in [Volumes -> Phases]
    /\ intent \in [Volumes -> Att \cup {"none"}]
    /\ local \in [Volumes -> LocalRecord]
    /\ gen \in {"owned", "done", "retired"}
    /\ rpc \in Rpcs
    /\ w \in Worker
    /\ run \in {"up", "down", "starting"} /\ todo \subseteq Volumes /\ faults \in 0..MaxFaults

\* migrate_disk_and_power_off returned: a data volume was disconnected under
\* an intent to restore it, the root has no intent yet.
Init ==
    /\ root \in Volumes \cup {None}
    /\ nova = [status |-> "migrating", host |-> "source", task |-> "migrating"]
    /\ bdm = [v \in Volumes |-> [att |-> "old", conn |-> "source"]]
    /\ cinder = [v \in Volumes |-> [a \in Att |->
                  IF a = "old" THEN [status |-> "attached", conn |-> "source"] ELSE Absent]]
    /\ rotation = [v \in Volumes |-> "none"]
    /\ intent = [v \in Volumes |-> IF v = root THEN "none" ELSE "old"]
    /\ local = [v \in Volumes |-> Local(IF v = root THEN "none" ELSE "disconnected", FALSE, FALSE)]
    /\ gen = "owned" /\ rpc = "rotate" /\ w = Idle /\ run = "up" /\ todo = {} /\ faults = 0

-----------------------------------------------------------------------------
(* Steps and faults.                                                       *)

Boot == w.vol = root
Phase == rotation[w.vol]
Present(v, a) == cinder[v][a].status # "absent"
Here(a) == cinder[w.vol][a]
Owner == bdm[w.vol].att         \* the attachment the BDM names now
Named == intent[w.vol]
Journal == local[w.vol].journal
NoFault == UNCHANGED faults
Fault == faults < MaxFaults /\ faults' = faults + 1

\* The operation ends; in a rotation or a handoff the RPC goes on or raises.
End(onward) == w' = Idle /\ rpc' = IF w.op = "recover" THEN rpc ELSE onward
Raise == End("fail")
Go(pc) == w' = [w EXCEPT !.pc = pc] /\ UNCHANGED rpc

\* The next volume of an operation that visits all of them.
Visit(pc, onward) ==
    IF w.left = {} THEN onward
    ELSE /\ \E v \in w.left : w' = [w EXCEPT !.pc = pc, !.vol = v, !.left = @ \ {v}, !.att = bdm[v].att]
         /\ UNCHANGED rpc

\* A remote call that changes v, and the step after it; it can fail on either
\* side of its effect.
Call(pc, v, new, next) ==
    /\ w.pc = pc
    /\ \/ v' = new /\ next /\ NoFault
       \/ v' \in {v, new} /\ Raise /\ Fault

\* A record written or removed in the instance's journal directory.
Write(pc, v, new, next) == w.pc = pc /\ v' = new /\ next /\ NoFault

\* A step that decides, and one whose reads may fail.
Decide(pc, next) == w.pc = pc /\ next /\ NoFault
Read(pc, next) == w.pc = pc /\ ((next /\ NoFault) \/ (Raise /\ Fault))

SetCinder(a, status, conn) == [cinder EXCEPT ![w.vol][a] = [status |-> status, conn |-> conn]]
Rotate(phase) == [rotation EXCEPT ![w.vol] = phase]
\* Mutant: the intent file is emptied, not removed.
SetIntent_Emptied(a) == [intent EXCEPT ![w.vol] = IF a = "none" THEN "empty" ELSE a]
SetIntent(a) == [intent EXCEPT ![w.vol] = a]
SetLocal(journal, mapped, guest) == [local EXCEPT ![w.vol] = Local(journal, mapped, guest)]

-----------------------------------------------------------------------------
(* _terminate_volume_connections, and the exchange it shares with the      *)
(* recovery.                                                               *)

Begin(op, pc, v, left) ==
    /\ w = Idle
    /\ w' = [op |-> op, pc |-> pc, vol |-> v, left |-> left, status |-> nova.status,
             host |-> nova.host, att |-> bdm[v].att]
    /\ NoFault /\ UNCHANGED <<root, nova, bdm, cinder, records, local, gen, rpc, run>>

\* Every volume gets its record before the first one changes.
BeginRotate ==
    /\ rpc = "rotate" /\ run = "up"
    /\ \E v \in Volumes : Begin("rotate", "prepare", v, Volumes \ {v})
    /\ UNCHANGED todo

\* The root gets its intent here; a data volume must have one.
PrepareIntent ==
    /\ w.op = "rotate" /\ Named = "none"
    /\ Write("prepare", intent, SetIntent("old"), Go("prepare"))
    /\ UNCHANGED <<root, nova, bdm, cinder, rotation, local, gen, run, todo>>
PrepareRotation ==
    /\ w.pc = "prepare" /\ Named = "old"
    /\ \/ /\ Here("old").status = "attached"
          /\ rotation' = Rotate("prepared") /\ NoFault
          /\ Visit("prepare", w' = [w EXCEPT !.pc = "advance", !.left = Volumes \ {w.vol}] /\ UNCHANGED rpc)
       \/ UNCHANGED rotation /\ Raise /\ Fault
    /\ UNCHANGED <<root, nova, bdm, cinder, intent, local, gen, run, todo>>

\* What follows the exchange: the next volume and the end of the RPC's part,
\* or the rest of the recovery.
Rotated == IF w.op = "rotate" THEN Visit("advance", End("leave"))
           ELSE IF w.status \in Failed THEN Go("update")
           ELSE IF w.status \in Done THEN Go("release")
           ELSE End("none")

\* _advance_cold_attachment_rotation_locked resumes where the record says.
Advance ==
    /\ Decide("advance", CASE Phase = "prepared" -> Go("mark")
                           [] Phase = "new-created" -> Go("delete")
                           [] Phase = "old-deleted" -> Go("switch")
                           [] Phase = "bdm-rotated" -> Rotated
                           [] OTHER -> Raise)
    /\ UNCHANGED <<root, nova, bdm, cinder, records, local, gen, run, todo>>
MarkCreating ==
    /\ Write("mark", rotation, Rotate("creating"), Go("create"))
    /\ UNCHANGED <<root, nova, bdm, cinder, intent, local, gen, run, todo>>

\* The attachment is created once; without the answer its id stays unknown.
Create ==
    /\ Call("create", cinder, SetCinder("new", "reserved", "none"), Go("name"))
    /\ UNCHANGED <<root, nova, bdm, records, local, gen, run, todo>>
NameCreated ==
    /\ Write("name", rotation, Rotate("new-created"), Go("delete"))
    /\ UNCHANGED <<root, nova, bdm, cinder, intent, local, gen, run, todo>>
DeleteOld ==
    /\ Call("delete", cinder, SetCinder("old", "absent", "none"), Go("deleted"))
    /\ Here("new") # Absent /\ Here("old").status \in {"absent", "attached"}
    /\ UNCHANGED <<root, nova, bdm, records, local, gen, run, todo>>
MarkDeleted ==
    /\ Write("deleted", rotation, Rotate("old-deleted"), Go("switch"))
    /\ UNCHANGED <<root, nova, bdm, cinder, intent, local, gen, run, todo>>
SwitchBdm ==
    /\ Call("switch", bdm, [bdm EXCEPT ![w.vol].att = "new"], Go("switched"))
    /\ Here("new") # Absent /\ Owner \in {"old", "new"}
    /\ UNCHANGED <<root, nova, cinder, records, local, gen, run, todo>>
MarkRotated ==
    /\ Write("switched", rotation, Rotate("bdm-rotated"), Rotated)
    /\ UNCHANGED <<root, nova, bdm, cinder, intent, local, gen, run, todo>>
RotateStep == \/ PrepareIntent \/ PrepareRotation \/ Advance \/ MarkCreating \/ Create
              \/ NameCreated \/ DeleteOld \/ MarkDeleted \/ SwitchBdm \/ MarkRotated

-----------------------------------------------------------------------------
(* The recovery of one volume: what it finds and where it goes.            *)

\* _recover_incus_volume_journals: a volume with a record is a candidate; on
\* a host that lost the instance only a source release is.  The startup pass
\* tries every candidate once.
Evidence(v) == rotation[v] # "none" \/ intent[v] # "none" \/ local[v].journal # "none"
BeginRecover ==
    \E v \in Volumes :
        /\ Evidence(v)
        /\ run = "up" \/ (run = "starting" /\ v \in todo)
        /\ nova.host = "source" \/ intent[v] \in {"old", "new"} \/ rotation[v] = "source-release-complete"
        /\ Begin("recover", "read", v, {})
        /\ todo' = todo \ {v}

\* Mutant: the new attachment is given up without asking for the old one.
RollBack_Blind == CASE Phase \in {"prepared", "source-old-retained"} -> Go(IF Boot THEN "done" ELSE "local")
                    [] Phase = "new-created" -> Go("deleteNew")
                    [] Phase \in {"old-deleted", "bdm-rotated"} -> Go("advance")
                    [] OTHER -> Raise
\* The phases of a rotation under a failed migration.
RollBack == CASE Phase \in {"prepared", "source-old-retained"} -> Go(IF Boot THEN "done" ELSE "local")
              [] Phase = "new-created" -> Go(IF Here("old") # Absent THEN "reject" ELSE "adopt")
              [] Phase \in {"old-deleted", "bdm-rotated"} -> Go("advance")
              [] OTHER -> Raise
Dispatch ==
    /\ Read("read",
         CASE Phase \in Terminal -> Go("retire")
           [] Phase \notin Terminal /\ Named \notin {"old", "new"} -> Raise
           [] OTHER ->
              IF w.status \in Failed
              THEN IF w.host # "source" THEN Raise
                   ELSE IF Phase # "none" THEN Go("fence")
                   ELSE Go(IF Boot THEN "intentOnly" ELSE "local")
              ELSE IF Phase # "none" THEN Go("advance")
              ELSE End("none"))
    /\ UNCHANGED <<root, nova, bdm, cinder, records, local, gen, run, todo>>

\* fence_failed_cold_source_volume_generation, a remote call, comes first.
Fence ==
    /\ Read("fence", RollBack)
    /\ UNCHANGED <<root, nova, bdm, cinder, records, local, gen, run, todo>>

\* Mutant: the old attachment is kept and the new one left in Cinder.
RejectNew_Keep ==
    /\ Decide("reject", Go("retained"))
    /\ UNCHANGED <<root, nova, bdm, cinder, records, local, gen, run, todo>>

\* The old attachment is still there: the new one, unused, is deleted.
RejectNew ==
    /\ Decide("reject", IF /\ Here("old").status = "attached" /\ w.att = "old"
                           /\ Here("new").status \in {"absent", "reserved"}
                        THEN Go("deleteNew") ELSE Raise)
    /\ UNCHANGED <<root, nova, bdm, cinder, records, local, gen, run, todo>>
DeleteNew ==
    /\ Call("deleteNew", cinder, SetCinder("new", "absent", "none"), Go("retained"))
    /\ UNCHANGED <<root, nova, bdm, records, local, gen, run, todo>>
MarkRetained ==
    /\ Write("retained", rotation, Rotate("source-old-retained"), Go(IF Boot THEN "done" ELSE "local"))
    /\ UNCHANGED <<root, nova, bdm, cinder, intent, local, gen, run, todo>>

\* The old attachment is gone: the exchange runs on and its result is kept.
AdoptNew ==
    /\ Here("new") # Absent
    /\ Write("adopt", rotation, Rotate("old-deleted"), Go("advance"))
    /\ UNCHANGED <<root, nova, bdm, cinder, intent, local, gen, run, todo>>

\* _restore_cold_rotation_new_owner_locked.
UpdateNew ==
    /\ IF Here("new").status = "reserved"
       THEN Call("update", cinder, SetCinder("new", "attaching", "source"), Go("save"))
       ELSE Decide("update", Go("save")) /\ UNCHANGED cinder
    /\ UNCHANGED <<root, nova, bdm, records, local, gen, run, todo>>
SaveBdm ==
    /\ Call("save", bdm, [bdm EXCEPT ![w.vol].conn = Here("new").conn], Go(IF Boot THEN "complete" ELSE "restart"))
    /\ UNCHANGED <<root, nova, cinder, records, local, gen, run, todo>>

\* restart_internal_volume_attach wants the journal of a disconnect.
Disconnecting == {"disconnecting", "disconnected", "rolled-back"}
Restart ==
    /\ Decide("restart", IF Journal \in Disconnecting THEN Go("disconnect") ELSE Raise)
    /\ UNCHANGED <<root, nova, bdm, cinder, records, local, gen, run, todo>>

\* An intent whose attachment is the BDM's is replayed by its journal.
Replay ==
    /\ Decide("local", CASE w.att # Named \/ Here(Named) = Absent -> Raise
                         [] w.att = Named /\ Journal \in Disconnecting -> Go("disconnect")
                         [] w.att = Named /\ Journal \notin Disconnecting ->
                            Go(IF Journal = "connected" \/ local[w.vol].guest THEN "confirm" ELSE "connect"))
    /\ UNCHANGED <<root, nova, bdm, cinder, records, local, gen, run, todo>>

-----------------------------------------------------------------------------
(* The host side of a data volume.                                         *)

HostCall(pc, new, applied, next, failed) ==
    /\ w.pc = pc
    /\ \/ local' = new /\ next /\ NoFault
       \/ local' \in {local, applied} /\ failed /\ Fault
    /\ UNCHANGED <<root, nova, bdm, cinder, records, gen, run, todo>>
HostWrite(pc, journal, next) ==
    /\ Write(pc, local, [local EXCEPT ![w.vol].journal = journal], Go(next))
    /\ UNCHANGED <<root, nova, bdm, cinder, records, gen, run, todo>>

Disconnect == HostCall("disconnect", SetLocal("rolled-back", FALSE, FALSE),
                       SetLocal(Journal, FALSE, FALSE), Go("forget"), Raise)
Forget == HostWrite("forget", "none", "connect")
Announce == HostWrite("connect", "connecting", "map")
Map == LET mapped == [local EXCEPT ![w.vol].mapped = TRUE]
       IN  HostCall("map", mapped, mapped, Go("connected"), Go("undo"))
Connected == HostWrite("connected", "connected", "expose")
Expose == LET exposed == [local EXCEPT ![w.vol].guest = TRUE]
          IN  HostCall("expose", exposed, exposed, Go("confirm"), Go("undo"))

\* A failed attach runs the ordinary detach, which ends without a journal.
Undo == LET hidden == SetLocal("disconnecting", local[w.vol].mapped, FALSE)
        IN  HostCall("undo", hidden, hidden, Go("undone"), Raise)
Undone == HostCall("undone", SetLocal("none", FALSE, FALSE),
                   SetLocal("disconnecting", FALSE, FALSE), Raise, Raise)

\* confirm_connected_volume_journal wants the guest's device.
Confirm == IF local[w.vol].guest
           THEN HostCall("confirm", SetLocal("none", TRUE, TRUE), local, Go("complete"), Raise)
           ELSE HostCall("confirm", local, local, Raise, Raise)
HostStep == Disconnect \/ Forget \/ Announce \/ Map \/ Connected \/ Expose \/ Undo \/ Undone \/ Confirm

-----------------------------------------------------------------------------
(* How a rollback ends: Cinder, the generation, the intent, the rotation.  *)

\* attachment_complete, then the exact attachment must be attached.
Complete ==
    /\ IF Here(Owner).status = "attaching"
       THEN Call("complete", cinder, [cinder EXCEPT ![w.vol][Owner].status = "attached"], Go("done"))
       ELSE Read("complete", Go("done")) /\ UNCHANGED cinder
    /\ UNCHANGED <<root, nova, bdm, records, local, gen, run, todo>>

\* _recover_failed_cold_bfv_intent_locked.
IntentOnly ==
    /\ Read("intentOnly", IF w.att = Named /\ {a \in Att : Present(w.vol, a)} = {Named}
                          THEN Go("done") ELSE Raise)
    /\ UNCHANGED <<root, nova, bdm, cinder, records, local, gen, run, todo>>

\* mark_source_volume_generation_rollback_complete precedes every removal.
MarkDone ==
    /\ Call("done", gen, "done", Go("replace"))
    /\ UNCHANGED <<root, nova, bdm, cinder, records, local, run, todo>>
ReplaceIntent ==
    /\ Write("replace", intent, SetIntent(Owner), Go("proof"))
    /\ UNCHANGED <<root, nova, bdm, cinder, rotation, local, gen, run, todo>>
ProveGuest ==
    /\ Read("proof", IF Boot \/ local[w.vol].guest THEN Go(IF Phase = "none" THEN "cancel" ELSE "terminal")
                     ELSE Raise)
    /\ UNCHANGED <<root, nova, bdm, cinder, records, local, gen, run, todo>>

\* A root whose old attachment was kept is checked once more before the end.
RolledBack ==
    /\ Write("terminal", rotation, Rotate("source-rollback-complete"),
             Go(IF Boot /\ Owner = "old" THEN "retire" ELSE "cancel"))
    /\ UNCHANGED <<root, nova, bdm, cinder, intent, local, gen, run, todo>>
CancelIntent ==
    /\ Write("cancel", intent, SetIntent("none"), Go(IF Phase = "none" THEN "finalize" ELSE "unlink"))
    /\ UNCHANGED <<root, nova, bdm, cinder, rotation, local, gen, run, todo>>
CancelRotation ==
    /\ Write("unlink", rotation, Rotate("none"),
             IF Phase = "source-rollback-complete" THEN Go("finalize") ELSE End("none"))
    /\ UNCHANGED <<root, nova, bdm, cinder, intent, local, gen, run, todo>>

\* The generation is retired with the last record of its volumes; the startup
\* pass leaves it to its own end.
Finalize ==
    /\ IF run = "starting" \/ \E v \in Volumes : rotation[v] # "none" \/ intent[v] # "none"
       THEN Decide("finalize", End("none")) /\ UNCHANGED gen
       ELSE Call("finalize", gen, "retired", End("none"))
    /\ UNCHANGED <<root, nova, bdm, cinder, records, local, run, todo>>

\* _retire_terminal_cold_attachment_rotation_locked reads everything again.
ReleaseProved ==
    /\ nova.status \in Done /\ w.host = "target" /\ w.att = "new"
    /\ Here("old") = Absent /\ Here("new") = [status |-> "attached", conn |-> bdm[w.vol].conn]
    /\ Named \in {"none", "old"}
RollbackProved ==
    /\ nova.status \in Failed /\ w.host = "source" /\ gen = "done"
    /\ w.att \in {"old", "new"} /\ Here(w.att).status = "attached"
    /\ \A a \in {"old", "new"} \ {w.att} : Here(a) = Absent
    /\ Boot \/ local[w.vol].guest
    /\ Named \in {"none", w.att}
\* Mutant: a crash after the removal of the intent is not expected.
Retire_NeedsIntent ==
    /\ Read("retire", IF /\ Journal = "none" /\ Named # "none"
                         /\ IF Phase = "source-release-complete" THEN ReleaseProved ELSE RollbackProved
                      THEN Go("cancel") ELSE Raise)
    /\ UNCHANGED <<root, nova, bdm, cinder, records, local, gen, run, todo>>
Retire ==
    /\ Read("retire", IF /\ Journal = "none"
                         /\ IF Phase = "source-release-complete" THEN ReleaseProved ELSE RollbackProved
                      THEN Go(IF Named = "none" THEN "unlink" ELSE "cancel") ELSE Raise)
    /\ UNCHANGED <<root, nova, bdm, cinder, records, local, gen, run, todo>>
RollbackStep ==
    \/ Dispatch \/ Fence \/ RejectNew \/ DeleteNew \/ MarkRetained \/ AdoptNew \/ UpdateNew
    \/ SaveBdm \/ Restart \/ Replay \/ Complete \/ IntentOnly \/ MarkDone \/ ReplaceIntent
    \/ ProveGuest \/ RolledBack \/ CancelIntent \/ CancelRotation \/ Finalize \/ Retire

-----------------------------------------------------------------------------
(* A finished migration: the source is released, or handed to a revert.    *)

\* _recover_incus_migration_source_release_locked.  The comparison of the
\* connectors exempts the root.
Release ==
    /\ LET proved == /\ w.host = "target" /\ Named = "old" /\ w.att = "new"
                     /\ Here("new").status = "attached" /\ Here("old") = Absent
                     /\ Boot \/ Here("new").conn = bdm[w.vol].conn
       IN  IF proved
           THEN Call("release", local, [local EXCEPT ![w.vol].journal = "none"], Go("released"))
           ELSE Decide("release", Raise) /\ UNCHANGED local
    /\ UNCHANGED <<root, nova, bdm, cinder, records, gen, run, todo>>
Released ==
    /\ Write("released", rotation, Rotate("source-release-complete"), Go("cancel"))
    /\ UNCHANGED <<root, nova, bdm, cinder, intent, local, gen, run, todo>>

\* _handoff_cold_source_rotations_for_revert: a volume without records was
\* released before, one with both is taken over.
BeginHandoff ==
    /\ rpc = "revert" /\ run = "up"
    /\ \E v \in Volumes : Begin("handoff", "validate", v, Volumes \ {v})
    /\ UNCHANGED todo
Handoff ==
    /\ w.pc = "validate"
    /\ \/ /\ Phase = "none" /\ Named = "none"
          /\ UNCHANGED intent /\ Visit("validate", End("attach")) /\ NoFault
       \/ /\ Phase = "bdm-rotated" /\ Named = "old" /\ w.att = "rev"
          /\ Here("old") = Absent /\ Here("new") = Absent /\ Here("rev").status = "reserved"
          /\ Journal = IF Boot THEN "none" ELSE "disconnected"
          /\ intent' = SetIntent("rev") /\ Go("handed") /\ NoFault
       \/ /\ \/ <<Phase, Named>> \notin {<<"none", "none">>, <<"bdm-rotated", "old">>}
             \/ Phase = "bdm-rotated" /\ ~Boot /\ Journal # "disconnected"
          /\ UNCHANGED intent /\ Raise /\ NoFault
       \/ UNCHANGED intent /\ Raise /\ Fault
    /\ UNCHANGED <<root, nova, bdm, cinder, rotation, local, gen, run, todo>>
HandedOff ==
    /\ w.pc = "handed"
    /\ \/ rotation' = Rotate("none") /\ Visit("validate", End("attach")) /\ NoFault
       \/ UNCHANGED rotation /\ Raise /\ Fault
    /\ UNCHANGED <<root, nova, bdm, cinder, intent, local, gen, run, todo>>
FinishStep == Release \/ Released \/ Handoff \/ HandedOff

-----------------------------------------------------------------------------
(* Nova around the source, the target, and the process.                    *)

source == <<root, records, local, gen, w, run, todo>>
Move(status, host, task) == nova' = [status |-> status, host |-> host, task |-> task]
All(a, status, conn) == cinder' = [v \in Volumes |-> [cinder[v] EXCEPT ![a] = [status |-> status, conn |-> conn]]]

\* resize_instance goes on to the target: two saves, either of which may fail.
HandOver ==
    /\ run = "up"
    /\ \/ rpc = "leave" /\ nova' = [nova EXCEPT !.status = "post-migrating"] /\ rpc' = "leaving" /\ NoFault
       \/ rpc = "leaving" /\ Move(nova.status, "target", "migrated") /\ rpc' = "target" /\ NoFault
       \/ rpc \in {"leave", "leaving"} /\ UNCHANGED nova /\ rpc' = "fail" /\ Fault
    /\ UNCHANGED <<source, bdm, cinder>>

\* It raised: the migration is errored out, then the instance; so is a revert.
ErrorOut ==
    /\ run = "up"
    /\ \/ rpc = "fail" /\ nova' = [nova EXCEPT !.status = "error"] /\ rpc' = "failed"
       \/ rpc = "failed" /\ nova' = [nova EXCEPT !.task = "none"] /\ rpc' = "none"
    /\ NoFault /\ UNCHANGED <<source, bdm, cinder>>

\* finish_resize on the target connects with its own connector.  Nova may keep
\* the source's in the BDM of a root.
TargetAttach ==
    /\ rpc = "target" /\ \A v \in Volumes : cinder[v]["new"].status = "reserved"
    /\ All("new", "attaching", "target")
    /\ \E kept \in {TRUE, FALSE} :
          bdm' = [v \in Volumes |-> IF v = root /\ kept THEN bdm[v] ELSE [bdm[v] EXCEPT !.conn = "target"]]
    /\ NoFault /\ UNCHANGED <<source, nova, rpc>>
TargetFinish ==
    /\ rpc = "target" /\ \A v \in Volumes : cinder[v]["new"].status = "attaching"
    /\ All("new", "attached", "target") /\ Move("finished", "target", "none") /\ rpc' = "none"
    /\ NoFault /\ UNCHANGED <<source, bdm>>
TargetFail ==
    /\ rpc = "target" /\ Move("error", "target", "none") /\ rpc' = "none"
    /\ Fault /\ UNCHANGED <<source, bdm, cinder>>
UserConfirms ==
    /\ nova.status = "finished" /\ Move("confirmed", "target", "none")
    /\ NoFault /\ UNCHANGED <<source, bdm, cinder, rpc>>

\* revert_resize on the target gives every volume a new attachment once more.
UserReverts ==
    /\ nova.status = "finished" /\ Move("reverting", "target", "reverting") /\ rpc' = "revert"
    /\ cinder' = [v \in Volumes |-> [cinder[v] EXCEPT !["new"] = Absent,
                                                      !["rev"] = [status |-> "reserved", conn |-> "none"]]]
    /\ bdm' = [v \in Volumes |-> [bdm[v] EXCEPT !.att = "rev"]]
    /\ NoFault /\ UNCHANGED source

\* The RPC dies with the process; one on the target goes on, and one that was
\* only cast waits.
Crash ==
    /\ run # "down" /\ run' = "down" /\ w' = Idle /\ todo' = {} /\ Fault
    /\ rpc' = IF rpc = "target" \/ (rpc = "revert" /\ w.op # "handoff") THEN rpc ELSE "none"
    /\ UNCHANGED <<root, nova, bdm, cinder, records, local, gen>>

\* _init_instance: evidence of an interrupted exchange is recovered before the
\* service answers; without any, Nova's own startup clears the task.
Unfinished == {v \in Volumes : rotation[v] # "none" \/ intent[v] \in {"old", "new"}}
Start ==
    /\ run = "down"
    /\ IF nova.task = "migrating" /\ nova.host = "source"
       THEN IF Unfinished # {} \/ gen = "done"
            THEN /\ run' = "starting" /\ todo' = {v \in Volumes : Evidence(v)}
                 /\ nova' = [nova EXCEPT !.status = IF @ \in Failed THEN @ ELSE "error"]
            ELSE run' = "up" /\ nova' = [nova EXCEPT !.task = "none"] /\ UNCHANGED todo
       ELSE run' = "up" /\ UNCHANGED <<nova, todo>>
    /\ NoFault /\ UNCHANGED <<root, bdm, cinder, records, local, gen, rpc, w>>

\* The rest of the startup pass, once no volume is left: the runtime, the
\* outcome, the instance, the generation - in this order, each of which may fail.
Started ==
    LET recovered == Unfinished = {} /\ gen = "done"
        reverted == [nova EXCEPT !.status = "reverted"]
        settled == [reverted EXCEPT !.task = "none"]
    IN  /\ run = "starting" /\ todo = {} /\ w = Idle
        /\ \/ recovered /\ nova' = settled /\ gen' = "retired" /\ run' = "up" /\ NoFault
           \/ recovered /\ nova' \in {reverted, settled} /\ run' = "down" /\ Fault /\ UNCHANGED gen
           \/ ~recovered /\ run' = "down" /\ NoFault /\ UNCHANGED <<nova, gen>>
           \/ run' = "down" /\ Fault /\ UNCHANGED <<nova, gen>>
        /\ UNCHANGED <<root, bdm, cinder, records, local, rpc, w, todo>>

Step == w # Idle /\ (RotateStep \/ RollbackStep \/ HostStep \/ FinishStep)
Target == TargetAttach \/ TargetFinish
Next == \/ BeginRotate \/ BeginHandoff \/ BeginRecover \/ Step \/ HandOver \/ ErrorOut
        \/ Target \/ TargetFail \/ UserConfirms \/ UserReverts \/ Crash \/ Start \/ Started

\* Operations and the RPC run on, the service manager starts the compute, and
\* the RPC and the periodic recovery of every volume get the locks.
RecoverVolume(v) == BeginRecover /\ w'.vol = v
Fairness ==
    /\ WF_vars(Step) /\ WF_vars(HandOver \/ ErrorOut) /\ WF_vars(Target) /\ WF_vars(Start \/ Started)
    /\ SF_vars(BeginRotate \/ BeginHandoff) /\ \A v \in Volumes : SF_vars(RecoverVolume(v))
Spec == Init /\ [][Next]_vars /\ Fairness

-----------------------------------------------------------------------------
(* Properties.                                                             *)

Used(v, a) == cinder[v][a].status \in {"attaching", "attached"}

\* "A failed resize either preserves the still-attached old owner or promotes
\* the known replacement back to the source": wherever the exchange or its
\* rollback stops, Cinder knows an attachment of the instance that Nova's BDM
\* or the rotation record names, and the source maps the volume only under an
\* attachment with its connector.
VolumeStaysOwned ==
    \A v \in Volumes :
        /\ \/ Present(v, bdm[v].att)
           \/ rotation[v] \in {"new-created", "old-deleted", "bdm-rotated"} /\ Present(v, "new")
        /\ local[v].mapped => \E a \in Att : Used(v, a) /\ cinder[v][a].conn = "source"

\* The generation, by which the remaining records are found, outlives them.
\* When no record of the exchange is left, it is exact: one attachment of each
\* volume, the BDM's, connected at the host that owns the instance; a failed
\* migration has every data volume back in the guest and its generation marked
\* first, a finished one left nothing mapped at the source.
Settled == w = Idle /\ rpc = "none" /\ \A v \in Volumes : rotation[v] = "none" /\ intent[v] = "none"
SettledIsExact ==
    /\ gen = "retired" => \A v \in Volumes : rotation[v] = "none" /\ intent[v] = "none"
    /\ Settled /\ (nova.status \in Done \/ (nova.status \in Failed /\ nova.host = "source")) =>
        \A v \in Volumes :
            /\ {a \in Att : Present(v, a)} = {bdm[v].att}
            /\ cinder[v][bdm[v].att] = [status |-> "attached", conn |-> nova.host]
            /\ IF nova.host = "source"
               THEN /\ bdm[v].conn = "source"
                    /\ v # root => local[v] = Local("none", TRUE, TRUE) /\ gen # "owned"
               ELSE local[v] = Local("none", FALSE, FALSE)

\* A rollback whose new attachment was connected and lost its journal is
\* refused for ever, as is one whose journal says connected without a guest
\* device, and a released root whose BDM kept the source's connector.
Stranded(v) ==
    \/ v # root /\ bdm[v].att = "new" /\ Used(v, "new") /\ local[v].journal \notin Disconnecting
    \/ local[v].journal = "connected" /\ ~local[v].guest
    \/ v = root /\ rotation[v] = "source-release-complete" /\ bdm[v].conn = "source"

\* The exchange settles: a failed migration of an instance of the source is
\* rolled back, and a finished one released or taken over by a revert, volume
\* by volume, unless the new attachment's id was lost or the states above are
\* met.
RotationSettles ==
    \A v \in Volumes :
        /\ (nova.status \in Failed /\ nova.host = "source" /\ rotation[v] \notin {"none", "creating"})
              ~> (rotation[v] \in {"none", "creating"} \/ (w = Idle /\ Stranded(v)))
        /\ (nova.status \in Done /\ rotation[v] # "none")
              ~> (rotation[v] = "none" \/ nova.status = "reverting" \/ (w = Idle /\ Stranded(v)))

=============================================================================
