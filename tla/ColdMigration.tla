--------------------------- MODULE ColdMigration ----------------------------
(***************************************************************************)
(* One cold migration (resize to another host) of an instance whose root   *)
(* is a volume of an ordinary Ceph pool shared by both Incus daemons.      *)
(*                                                                         *)
(*   - the source: migrate_disk_and_power_off and its rollback, confirm,   *)
(*     finish_revert, the startup pass over an interrupted migration, and  *)
(*     the periodic tasks that restore and retire a source generation;     *)
(*   - the target: finish_migration and its rollback, the destination half *)
(*     of a revert, the repair of a marked target, the recovery of a       *)
(*     prepared profile and of a cleanup profile, and the release of       *)
(*     reservations that never started;                                    *)
(*   - Incus: the attempt that fences the receive on the target, the       *)
(*     receive itself, and the handover state of the two records.          *)
(*                                                                         *)
(* Each compute does one operation at a time on the instance and may stop  *)
(* at any step; a failed call may or may not have been applied.  Data      *)
(* volumes are reduced to whether their connections and evidence are exact.*)
(* ID-map claims and shares are left to their own modules.  Nova's code    *)
(* around the driver, and Incus, are modelled from how src/ uses them.     *)
(***************************************************************************)
EXTENDS Naturals

CONSTANT MaxFaults      \* crashes and failed calls of a behaviour

ASSUME FaultsAssumption == MaxFaults \in Nat

VARIABLES
    nova,      \* the Nova instance: host, task_state, vm_state
    status,    \* Migration.status
    src, tgt,  \* the two Incus records: power state and handover
    root,      \* the shared root volume exists
    attempt,   \* the migration attempt on the target's Incus
    sProf,     \* the source profile
    tProf,     \* the target profile
    sVol, tVol,\* data volumes: "exact", "held" (connected, evidence kept), "open",
               \* and "revert" (attached by a revert, evidence kept)
    w,         \* the operation under way on each compute
    up,        \* nova-compute serves requests
    seen,      \* the reservation scan saw the unstarted attempt once
    faults

Hosts == {"source", "target"}
vars == <<nova, status, src, tgt, root, attempt, sProf, tProf, sVol, tVol, w, up,
          seen, faults>>
incus == <<src, tgt, root, attempt>>
profiles == <<sProf, tProf>>
volumes == <<sVol, tVol>>
control == <<nova, status>>

Idle == [op |-> "none", pc |-> "none"]
Failed == {"error", "reverted"}
Terminal == {"confirmed", "error", "reverted"}
NoSource == [exists |-> FALSE, token |-> FALSE, done |-> FALSE, repair |-> FALSE,
             cleanup |-> FALSE]
NoTarget == [exists |-> FALSE, token |-> FALSE, prepared |-> FALSE, done |-> FALSE,
             ack |-> FALSE, repair |-> FALSE, cleanup |-> FALSE]
Absent == [state |-> "absent", handover |-> "none"]

Record == [state : {"absent", "partial", "stopped", "running"},
           handover : {"none", "pending", "committed", "protected"}]
Instance == [host : Hosts, task : {"none", "migrating", "migrated", "finishing", "reverting",
                                   "returning", "repair"},
             vm : {"active", "resized", "error"}]
SourceProfile == [exists : BOOLEAN, token : BOOLEAN, done : BOOLEAN, repair : BOOLEAN,
                  cleanup : BOOLEAN]
TargetProfile == [exists : BOOLEAN, token : BOOLEAN, prepared : BOOLEAN, done : BOOLEAN,
                  ack : BOOLEAN, repair : BOOLEAN, cleanup : BOOLEAN]
Operations == {"none", "prepare", "volumes", "init", "initrevert", "generation", "confirm",
               "revert", "finish", "destroy", "repair", "prepared"}
Steps == {"none",
          "register", "forget", "stop", "detach", "rotate",
          "fence", "clean", "retire", "giveup", "restore", "mark", "commit", "restart",
          "final", "own", "power", "reverted", "saved", "remote",
          "profile", "create", "wait", "attach", "start", "finished", "formal",
          "tFence", "tClean", "tCleanup", "tRetain", "manager", "mFence", "mClean",
          "mSettle", "raise",
          "cCheck", "cDelete", "cOwn", "cQueue", "cFinalize", "cCleanup", "cRaise",
          "owned", "runtime", "staging", "clear", "release", "pOwn", "pFinal", "pMark",
          "dCommit", "destroy", "dLose", "dDelete", "dAck", "dFinal", "dErase", "dCast",
          "vStart", "vFence", "vClean", "vCheck", "vOwn", "vAttach", "vPower", "vMark",
          "vRetire", "vRepair", "vFail", "vDone", "vFormal"}
Work == [op : Operations, pc : Steps]
TypeOK ==
    /\ nova \in Instance
    /\ status \in {"none", "migrating", "post-migrating", "finished", "confirming",
                   "confirmed", "reverting", "reverted", "error"}
    /\ src \in Record /\ tgt \in Record /\ root \in BOOLEAN
    /\ attempt \in {"none", "active", "started", "aborting", "aborted", "committed", "retired"}
    /\ sProf \in SourceProfile /\ tProf \in TargetProfile
    /\ sVol \in {"exact", "held", "open", "revert"} /\ tVol \in {"exact", "held", "open"}
    /\ w \in [Hosts -> Work]
    /\ up \in [Hosts -> BOOLEAN] /\ seen \in BOOLEAN /\ faults \in 0..MaxFaults

Init ==
    /\ nova = [host |-> "source", task |-> "none", vm |-> "active"] /\ status = "none"
    /\ src = [state |-> "running", handover |-> "none"] /\ tgt = Absent /\ root = TRUE
    /\ attempt = "none"
    /\ sProf = [NoSource EXCEPT !.exists = TRUE] /\ tProf = NoTarget
    /\ sVol = "exact" /\ tVol = "exact"
    /\ w = [h \in Hosts |-> Idle] /\ up = [h \in Hosts |-> TRUE]
    /\ seen = FALSE /\ faults = 0

-----------------------------------------------------------------------------
(* Steps, faults and the calls that several operations share.              *)

At(h, pc) == up[h] /\ w[h].pc = pc
Goto(h, pc) == w' = [w EXCEPT ![h] = IF pc = "end" THEN Idle ELSE [@ EXCEPT !.pc = pc]]
Begin(h, op, pc) == up[h] /\ w[h] = Idle /\ w' = [w EXCEPT ![h] = [op |-> op, pc |-> pc]]
NoFault == UNCHANGED faults
Fault == faults < MaxFaults /\ faults' = faults + 1

\* A call that sets v to new, or fails with v either way.
Call(h, v, new, ok, failed) ==
    \/ v' = new /\ Goto(h, ok) /\ NoFault
    \/ v' \in {v, new} /\ Goto(h, failed) /\ Fault

\* _abort_migration_attempt: PUT aborted is the fence; it never undoes a commit.
Fenced == IF attempt = "active" THEN "aborted"
          ELSE IF attempt = "started" THEN "aborting" ELSE attempt
_abort_migration_attempt(h, ok, committed, absent, failed) ==
    /\ \/ attempt \in {"none", "retired"} /\ Goto(h, absent) /\ NoFault /\ UNCHANGED attempt
       \/ attempt = "committed" /\ Goto(h, committed) /\ NoFault /\ UNCHANGED attempt
       \/ attempt \in {"active", "started", "aborting", "aborted"} /\ Call(h, attempt, Fenced, ok, failed)
    /\ UNCHANGED <<src, tgt, root>>

\* Its second half: the fenced receive is over once the partial target is deleted.
Protect(record) == [record EXCEPT !.handover = "protected"]
SettleAborted(h, ok, failed) ==
    /\ \/ tgt' = Absent /\ attempt' = "aborted" /\ Goto(h, ok) /\ NoFault
       \/ tgt' \in {tgt, Protect(tgt), Absent} /\ Goto(h, failed) /\ Fault /\ UNCHANGED attempt
    /\ UNCHANGED <<src, root>>

\* Deleting a record deletes the root unless the record is protected.
Delete(record) == record' = Absent /\ root' = (root /\ record.handover # "none")

\* errors_out_migration and the instance error state of Nova's callers.
Raise(h) ==
    /\ Goto(h, "end")
    /\ nova' = [nova EXCEPT !.task = "none", !.vm = "error"] /\ status' = "error"

-----------------------------------------------------------------------------
(* The source prepares the move.                                           *)

\* resize_instance reaches migrate_disk_and_power_off: the profile of a
\* source with an unresolved generation, or cleanup work, is refused.
BeginMigration ==
    /\ status = "none" /\ nova.host = "source" /\ nova.task = "none"
    /\ ~sProf.token /\ ~sProf.done /\ ~sProf.cleanup
    /\ Begin("source", "prepare", "register")
    /\ nova' = [nova EXCEPT !.task = "migrating"] /\ status' = "migrating"
    /\ sProf' = [sProf EXCEPT !.token = TRUE]
    /\ UNCHANGED <<incus, tProf, volumes, up, seen, faults>>

\* _register_migration_attempt: an active attempt is answered again as it is.
Register(h, ok, failed) ==
    /\ At(h, "register")
    /\ \/ attempt \in {"none", "active"} /\ Call(h, attempt, "active", ok, failed)
       \/ attempt \notin {"none", "active"} /\ Goto(h, failed) /\ NoFault /\ UNCHANGED attempt
    /\ UNCHANGED <<control, src, tgt, root, profiles, volumes, up, seen>>

SourceRegister == Register("source", "stop", "forget")

\* The keys of a generation that was never registered are taken back; when
\* that save fails too the keys stay.
ForgetGeneration ==
    /\ At("source", "forget")
    /\ \/ sProf' = [sProf EXCEPT !.token = FALSE] /\ NoFault
       \/ UNCHANGED sProf /\ Fault
    /\ Raise("source")
    /\ UNCHANGED <<incus, tProf, volumes, up, seen>>

\* Mutant: a source that could not be stopped is migrated all the same.
StopSource_Ignored ==
    /\ At("source", "stop")
    /\ Call("source", src, [src EXCEPT !.state = "stopped"], "detach", "detach")
    /\ UNCHANGED <<control, tgt, root, attempt, profiles, volumes, up, seen>>

StopSource ==
    /\ At("source", "stop")
    /\ Call("source", src, [src EXCEPT !.state = "stopped"], "detach", "fence")
    /\ UNCHANGED <<control, tgt, root, attempt, profiles, volumes, up, seen>>

\* Each data volume gets its restore intent before it is detached.
DetachVolumes ==
    /\ At("source", "detach")
    /\ \/ sVol' = "open" /\ Goto("source", "rotate") /\ NoFault
       \/ sVol' \in {"exact", "open"} /\ Goto("source", "fence") /\ Fault
    /\ UNCHANGED <<control, incus, profiles, tVol, up, seen>>

\* _terminate_volume_connections rotates the Cinder attachments, Nova moves
\* the instance to the target and casts finish_resize.
HandOff ==
    /\ At("source", "rotate")
    /\ \/ /\ nova' = [nova EXCEPT !.host = "target", !.task = "migrated"]
          /\ status' = "post-migrating"
          /\ w' = [w EXCEPT !["source"] = Idle] /\ NoFault
       \/ Raise("source") /\ Fault
    /\ UNCHANGED <<incus, profiles, volumes, up, seen>>

-----------------------------------------------------------------------------
(* The source takes the instance back.  One sequence of steps serves the   *)
(* rollback of a failed preparation ("prepare"), the periodic volume       *)
(* recovery ("volumes") and the startup pass ("init").                     *)

\* The rollback gives up with the source stopped; the periodic pass retries;
\* startup fails, and is tried again.
Abandon(h) ==
    /\ IF w[h].op \in {"prepare", "revert"} THEN Raise(h)
       ELSE Goto(h, "end") /\ UNCHANGED control
    /\ up' = [up EXCEPT ![h] = w[h].op # "init"]

\* fence_failed_cold_source_volume_generation and, for the rollback, its own abort.
FenceTarget ==
    /\ At("source", "fence")
    /\ IF w["source"].op = "prepare"
       THEN _abort_migration_attempt("source", "clean", "giveup", "giveup", "giveup")
       ELSE IF tgt.state = "absent" /\ ~tProf.exists
       THEN _abort_migration_attempt("source", "clean", "giveup", "restore", "giveup")
       ELSE _abort_migration_attempt("source", "clean", "giveup", "giveup", "giveup")
    /\ UNCHANGED <<control, profiles, volumes, up, seen>>

CleanTarget ==
    /\ At("source", "clean")
    /\ SettleAborted("source", IF w["source"].op = "prepare" THEN "restore" ELSE "retire", "giveup")
    /\ UNCHANGED <<control, profiles, volumes, up, seen>>

RetireFenced ==
    /\ At("source", "retire")
    /\ Call("source", attempt, "retired", "restore", "giveup")
    /\ UNCHANGED <<control, src, tgt, root, profiles, volumes, up, seen>>

GiveUp ==
    /\ At("source", "giveup")
    /\ Abandon("source")
    /\ UNCHANGED <<incus, profiles, volumes, seen, faults>>

\* The volumes are connected again under the restore intent they still hold.
RestoreVolumes ==
    /\ At("source", "restore")
    /\ \/ sVol' = (IF sVol = "exact" THEN "exact" ELSE "held") /\ Goto("source", "mark") /\ NoFault
       \/ sVol' \in {sVol, "held"} /\ sVol # "exact" /\ Goto("source", "giveup") /\ Fault
    /\ UNCHANGED <<control, incus, profiles, tVol, up, seen>>

\* The generation becomes enumerable before the first intent is retired.
MarkRollback ==
    /\ At("source", "mark")
    /\ Call("source", sProf, [sProf EXCEPT !.done = TRUE], "commit", "giveup")
    /\ UNCHANGED <<control, incus, tProf, volumes, up, seen>>

\* A rollback retains the evidence it cannot retire; recovery retries.
CommitVolumes ==
    /\ At("source", "commit")
    /\ LET next == CASE w["source"].op = "prepare" -> "restart"
                     [] w["source"].op = "init" -> "own"
                     [] OTHER -> "final"
           missed == IF w["source"].op = "prepare" THEN "restart" ELSE "giveup"
       IN  \/ sVol' = "exact" /\ Goto("source", next) /\ NoFault
           \/ sVol' = sVol /\ sVol = "held" /\ Goto("source", missed) /\ Fault
    /\ UNCHANGED <<control, incus, profiles, tVol, up, seen>>

\* The guest of a failed preparation is restarted when it had been running.
RestartSource ==
    /\ At("source", "restart")
    /\ Call("source", src, [src EXCEPT !.state = "running"], "final", "giveup")
    /\ UNCHANGED <<control, tgt, root, attempt, profiles, volumes, up, seen>>

\* finalize_failed_cold_source_volume_generation: no evidence is left, the
\* rollback is marked and the target is fenced once more.
FencedForGood ==
    attempt = "aborted" \/ (attempt \in {"none", "retired"} /\ tgt.state = "absent" /\ ~tProf.exists)
\* Mutant: the generation is retired while intents of its volumes remain.
FinalizeFailed_WithEvidence ==
    /\ At("source", "final")
    /\ LET ready == sProf.done /\ FencedForGood
           retired == IF attempt = "aborted" THEN "retired" ELSE attempt
       IN  \/ /\ ready /\ attempt' = retired /\ NoFault
              /\ sProf' = [sProf EXCEPT !.token = FALSE, !.done = FALSE]
           \/ ready /\ attempt' \in {attempt, retired} /\ UNCHANGED sProf /\ Fault
           \/ ~ready /\ UNCHANGED <<attempt, sProf, faults>>
    /\ IF w["source"].op = "prepare" THEN Raise("source")
       ELSE Goto("source", "end") /\ UNCHANGED control
    /\ UNCHANGED <<src, tgt, root, tProf, volumes, up, seen>>

FinalizeFailed ==
    /\ At("source", "final")
    /\ LET ready == sVol = "exact" /\ sProf.done /\ FencedForGood
           retired == IF attempt = "aborted" THEN "retired" ELSE attempt
       IN  \/ /\ ready /\ attempt' = retired /\ NoFault
              /\ sProf' = [sProf EXCEPT !.token = FALSE, !.done = FALSE]
           \/ ready /\ attempt' \in {attempt, retired} /\ UNCHANGED sProf /\ Fault
           \/ ~ready /\ UNCHANGED <<attempt, sProf, faults>>
    /\ IF w["source"].op = "prepare" THEN Raise("source")
       ELSE Goto("source", "end") /\ UNCHANGED control
    /\ UNCHANGED <<src, tgt, root, tProf, volumes, up, seen>>

\* restore_failed_cold_source_storage_ownership, then the other services.
OwnSource ==
    /\ At("source", "own")
    /\ \/ /\ sProf.done /\ src.handover # "protected"
          /\ Call("source", src, [src EXCEPT !.handover = "none"], "power", "giveup")
       \/ /\ ~sProf.done \/ src.handover = "protected"
          /\ Goto("source", "giveup") /\ NoFault /\ UNCHANGED src
    /\ UNCHANGED <<control, tgt, root, attempt, profiles, volumes, up, seen>>

PowerSource ==
    /\ At("source", "power")
    /\ Call("source", src, [src EXCEPT !.state = "running"], "reverted", "giveup")
    /\ UNCHANGED <<control, tgt, root, attempt, profiles, volumes, up, seen>>

\* The outcome of the migration is saved before the instance is.
SaveReverted ==
    /\ At("source", "reverted") /\ Goto("source", "saved")
    /\ status' = "reverted"
    /\ UNCHANGED <<nova, incus, profiles, volumes, up, seen, faults>>

SaveInstance ==
    /\ At("source", "saved") /\ Goto("source", "final")
    /\ nova' = [nova EXCEPT !.task = "none", !.vm = "active"]
    /\ UNCHANGED <<status, incus, profiles, volumes, up, seen, faults>>

\* _recover_incus_volume_journals, for a restore intent of a failed migration.
RecoverVolumes ==
    /\ sVol \in {"open", "held"} /\ status \in Failed
    /\ nova.host = "source" /\ nova.task = "none"
    /\ sProf.token
    /\ Begin("source", "volumes", "fence")
    /\ UNCHANGED <<control, incus, profiles, volumes, up, seen, faults>>

\* _recover_incus_source_volume_generations, by the outcome of the migration.
RecoverGeneration ==
    /\ sProf.token /\ sProf.done /\ status \in Failed
    /\ nova.host = "source" /\ nova.task = "none"
    /\ Begin("source", "generation", IF status = "reverted" THEN "remote" ELSE "final")
    /\ UNCHANGED <<control, incus, profiles, volumes, up, seen, faults>>

\* Mutant: the acknowledgement of the target is not consumed.
FinalizeRemote_NoAck ==
    /\ At("source", "remote")
    /\ LET ready == /\ sVol = "exact" /\ sProf.token /\ sProf.done
                    /\ tgt.state = "absent" /\ ~tProf.exists
                    /\ attempt \notin {"active", "started", "aborting"}
           retired == IF attempt = "none" THEN "none" ELSE "retired"
       IN  \/ /\ ready /\ tProf' = NoTarget /\ attempt' = retired /\ NoFault
              /\ sProf' = [sProf EXCEPT !.token = FALSE, !.done = FALSE]
           \/ /\ ready /\ tProf' \in {tProf, NoTarget} /\ UNCHANGED sProf /\ Fault
              /\ attempt' \in IF tProf' = NoTarget THEN {attempt, retired} ELSE {attempt}
           \/ ~ready /\ UNCHANGED <<tProf, attempt, sProf, faults>>
    /\ Goto("source", "end")
    /\ UNCHANGED <<control, src, tgt, root, volumes, up, seen>>

\* finalize_remote_source_volume_generation: the target has no instance, and
\* a cleanup acknowledgement it left is consumed.
FinalizeRemote ==
    /\ At("source", "remote")
    /\ LET ready == /\ sVol = "exact" /\ sProf.token /\ sProf.done
                    /\ tgt.state = "absent" /\ (tProf.exists => tProf.ack)
                    /\ attempt \notin {"active", "started", "aborting"}
           retired == IF attempt = "none" THEN "none" ELSE "retired"
       IN  \/ /\ ready /\ tProf' = NoTarget /\ attempt' = retired /\ NoFault
              /\ sProf' = [sProf EXCEPT !.token = FALSE, !.done = FALSE]
           \/ /\ ready /\ tProf' \in {tProf, NoTarget} /\ UNCHANGED sProf /\ Fault
              /\ attempt' \in IF tProf' = NoTarget THEN {attempt, retired} ELSE {attempt}
           \/ ~ready /\ UNCHANGED <<tProf, attempt, sProf, faults>>
    /\ Goto("source", "end")
    /\ UNCHANGED <<control, src, tgt, root, volumes, up, seen>>

-----------------------------------------------------------------------------
(* The target receives the instance.                                       *)

\* _finish_resize_helper reaches finish_migration once the cast is received.
BeginFinish ==
    /\ nova.task = "migrated"
    /\ Begin("target", "finish", "register")
    /\ nova' = [nova EXCEPT !.task = "finishing"]
    /\ UNCHANGED <<status, incus, profiles, volumes, up, seen, faults>>

TargetRegister == Register("target", "profile", "manager")

\* One profile create carries the markers of a prepared destination.
CreateProfile ==
    /\ At("target", "profile")
    /\ Call("target", tProf,
            [NoTarget EXCEPT !.exists = TRUE, !.token = TRUE, !.prepared = TRUE],
            "create", "tFence")
    /\ UNCHANGED <<control, incus, sProf, volumes, up, seen>>

\* _create_migration_target: an active attempt starts its receive.
CreateTarget ==
    /\ At("target", "create")
    /\ \/ /\ attempt = "active"
          /\ \/ attempt' = "started" /\ Goto("target", "wait") /\ NoFault
             \/ attempt' = "active" /\ Goto("target", "tFence") /\ Fault
             \/ attempt' = "started" /\ Goto("target", "wait") /\ Fault
          /\ tgt' = (IF attempt' = "started"
                     THEN [state |-> "partial", handover |-> "pending"] ELSE tgt)
          /\ src' = (IF attempt' = "started" THEN [src EXCEPT !.handover = "pending"] ELSE src)
       \/ attempt # "active" /\ Goto("target", "tFence") /\ NoFault /\ UNCHANGED <<attempt, src, tgt>>
    /\ UNCHANGED <<control, root, profiles, volumes, up, seen>>

\* The receive settles on its own; a lost response is answered by the attempt.
AwaitReceive ==
    /\ At("target", "wait")
    /\ \/ attempt = "committed" /\ Goto("target", "attach") /\ NoFault
       \/ attempt = "aborted" /\ Goto("target", "tFence") /\ NoFault
       \/ attempt \in {"started", "committed"} /\ Goto("target", "tFence") /\ Fault
    /\ UNCHANGED <<control, incus, profiles, volumes, up, seen>>

ReceiveCommits ==
    /\ attempt = "started" /\ attempt' = "committed"
    /\ tgt' = [state |-> "stopped", handover |-> "committed"]
    /\ src' = [src EXCEPT !.handover = "committed"]
    /\ UNCHANGED <<control, root, profiles, volumes, w, up, seen, faults>>

\* The receive fails by itself, and its reverter removes what it had built.
ReceiveFails ==
    /\ attempt = "started" /\ Fault
    /\ attempt' = "aborted" /\ tgt' = Absent
    /\ UNCHANGED <<control, src, root, profiles, volumes, w, up, seen>>

AttachTarget ==
    /\ At("target", "attach")
    /\ \/ tVol' = "held" /\ Goto("target", "start") /\ NoFault
       \/ tVol' \in {"open", "held"} /\ Goto("target", "tFence") /\ Fault
    /\ UNCHANGED <<control, incus, profiles, sVol, up, seen>>

StartTarget ==
    /\ At("target", "start")
    /\ Call("target", tgt, [tgt EXCEPT !.state = "running"], "finished", "tFence")
    /\ UNCHANGED <<control, src, root, attempt, profiles, volumes, up, seen>>

\* Nova completes the attachments and records VERIFY_RESIZE; then
\* _commit_formal_internal_volume_intents, whose failure is left to recovery.
FinishResize ==
    /\ At("target", "finished")
    /\ nova' = [nova EXCEPT !.task = "none", !.vm = "resized"] /\ status' = "finished"
    /\ Goto("target", "formal")
    /\ UNCHANGED <<incus, profiles, volumes, up, seen, faults>>

Published == tVol' = "exact" /\ tProf' = [tProf EXCEPT !.done = TRUE]
CommitFormal ==
    /\ At("target", "formal")
    /\ \/ tVol = "held" /\ Published /\ NoFault
       \/ tVol # "held" /\ UNCHANGED <<tVol, tProf, faults>>
       \/ tVol' \in {tVol, "exact"} /\ UNCHANGED tProf /\ Fault
    /\ Goto("target", "end")
    /\ UNCHANGED <<control, incus, sProf, sVol, up, seen>>

\* _recover_incus_migration_target_attach: the evidence of a committed target
\* that the callback left behind.
RecoverTargetVolumes ==
    /\ up["target"] /\ w["target"] = Idle
    /\ tVol # "exact"
    /\ attempt = "committed" /\ nova.host = "target" /\ nova.task = "none"
    /\ status \in {"finished", "confirming", "confirmed"}
    /\ Published
    /\ UNCHANGED <<control, incus, sProf, sVol, w, up, seen, faults>>

-----------------------------------------------------------------------------
(* _rollback_failed_finish_migration and what the manager adds to it.      *)

FenceFinish ==
    /\ At("target", "tFence")
    /\ _abort_migration_attempt("target", "tClean", "tRetain", "tRetain", "tRetain")
    /\ UNCHANGED <<control, profiles, volumes, up, seen>>

CleanFinish ==
    /\ At("target", "tClean")
    /\ SettleAborted("target", "tCleanup", "tRetain")
    /\ UNCHANGED <<control, profiles, volumes, up, seen>>

\* A received target is retained and marked: Nova then finishes the resize
\* and the runtime is repaired later.
RetainTarget ==
    /\ At("target", "tRetain")
    /\ \/ /\ attempt = "committed" /\ tgt.state # "absent" /\ tProf.exists
          /\ Call("target", tProf, [tProf EXCEPT !.repair = TRUE], "finished", "manager")
       \/ /\ ~(attempt = "committed" /\ tgt.state # "absent" /\ tProf.exists)
          /\ Goto("target", "manager") /\ NoFault /\ UNCHANGED tProf
    /\ UNCHANGED <<control, incus, sProf, volumes, up, seen>>

\* The fenced target is gone: its volumes, wiring and profile go, and then
\* the attempt.
CleanupFinish ==
    /\ At("target", "tCleanup")
    /\ \/ /\ tProf' = NoTarget /\ tVol' = "exact" /\ NoFault
          /\ attempt' \in {attempt, "retired"}
       \/ /\ tProf' = (IF tProf.exists THEN [tProf EXCEPT !.cleanup = TRUE] ELSE tProf)
          /\ tVol' \in {tVol, "exact"} /\ UNCHANGED attempt /\ Fault
    /\ Goto("target", "manager")
    /\ UNCHANGED <<control, src, tgt, root, sProf, sVol, up, seen>>

\* rollback_cold_migration_preparation, entered for every failure.
ManagerRollback ==
    /\ At("target", "manager")
    /\ \/ /\ tProf.exists \/ tgt.state # "absent"
          /\ \/ /\ tProf.exists /\ tgt.state # "absent" /\ attempt = "committed"
                /\ tProf' \in {tProf, [tProf EXCEPT !.repair = TRUE]} /\ Goto("target", "raise")
             \/ /\ tProf.exists /\ ~(tgt.state # "absent" /\ attempt = "committed")
                /\ UNCHANGED tProf /\ Goto("target", "mFence")
             \/ ~tProf.exists /\ UNCHANGED tProf /\ Goto("target", "raise")
       \/ /\ ~tProf.exists /\ tgt.state = "absent"
          /\ UNCHANGED tProf /\ Goto("target", "mFence")
    /\ UNCHANGED <<control, incus, sProf, volumes, up, seen, faults>>

FenceManager ==
    /\ At("target", "mFence")
    /\ _abort_migration_attempt("target", "mClean", "raise", "raise", "raise")
    /\ UNCHANGED <<control, profiles, volumes, up, seen>>

CleanManager ==
    /\ At("target", "mClean")
    /\ SettleAborted("target", "mSettle", "raise")
    /\ UNCHANGED <<control, profiles, volumes, up, seen>>

\* With a profile the cleanup is acknowledged, without one the attempt retired.
Acknowledged == [tProf EXCEPT !.ack = TRUE, !.prepared = FALSE, !.cleanup = FALSE]
SettleManager ==
    /\ At("target", "mSettle")
    /\ \/ tProf.exists /\ tProf' = Acknowledged /\ tVol' = "exact" /\ UNCHANGED attempt /\ NoFault
       \/ ~tProf.exists /\ attempt' = "retired" /\ UNCHANGED <<tProf, tVol>> /\ NoFault
       \/ /\ tProf' = (IF tProf.exists THEN [tProf EXCEPT !.cleanup = TRUE] ELSE tProf)
          /\ UNCHANGED <<attempt, tVol>> /\ Fault
    /\ Goto("target", "raise")
    /\ UNCHANGED <<control, src, tgt, root, sProf, sVol, up, seen>>

RaiseFinish ==
    /\ At("target", "raise") /\ Raise("target")
    /\ UNCHANGED <<incus, profiles, volumes, up, seen, faults>>

-----------------------------------------------------------------------------
(* Confirm: the source gives up its record, then the target owns the root. *)

\* A source without a record converges the target instead: a process can die
\* between the two halves.
BeginConfirm ==
    /\ status \in {"finished", "confirming"} /\ nova.vm = "resized" /\ nova.task = "none"
    /\ Begin("source", "confirm", IF src.state = "absent" THEN "cOwn" ELSE "cCheck")
    /\ status' = "confirming"
    /\ UNCHANGED <<nova, incus, profiles, volumes, up, seen, faults>>

\* Mutant: the source record is deleted before its cleanup is journaled.
CheckCommitted_NoJournal ==
    /\ At("source", "cCheck")
    /\ \/ attempt = "committed" /\ sProf.token /\ sProf.exists
          /\ Call("source", sProf, sProf, "cDelete", "cRaise")
       \/ ~(attempt = "committed" /\ sProf.token /\ sProf.exists)
          /\ Goto("source", "cRaise") /\ NoFault /\ UNCHANGED sProf
    /\ UNCHANGED <<control, incus, tProf, volumes, up, seen>>

CheckCommitted ==
    /\ At("source", "cCheck")
    /\ \/ attempt = "committed" /\ sProf.token /\ sProf.exists
          /\ Call("source", sProf, [sProf EXCEPT !.cleanup = TRUE], "cDelete", "cRaise")
       \/ ~(attempt = "committed" /\ sProf.token /\ sProf.exists)
          /\ Goto("source", "cRaise") /\ NoFault /\ UNCHANGED sProf
    /\ UNCHANGED <<control, incus, tProf, volumes, up, seen>>

DeleteSource ==
    /\ At("source", "cDelete")
    /\ \/ /\ src.handover # "none"
          /\ \/ src' = Absent /\ Goto("source", "cOwn") /\ NoFault
             \/ src' \in {src, Protect(src), Absent} /\ Goto("source", "cRaise") /\ Fault
       \/ src.handover = "none" /\ Goto("source", "cRaise") /\ NoFault /\ UNCHANGED src
    /\ UNCHANGED <<control, tgt, root, attempt, profiles, volumes, up, seen>>

\* _set_storage_handover_state 'owned', or a durable request to repair it.

\* Mutant: the requested state is stored as it was asked for.
Owned_Literal(record) == [record EXCEPT !.handover = "owned"]
Owned(record) == [record EXCEPT !.handover = "none"]
\* Mutant: a failed transfer of the ownership is not queued for repair.
OwnTarget_Ignored ==
    /\ At("source", "cOwn")
    /\ \/ /\ tProf.exists /\ tgt.state # "absent"
          /\ attempt = "committed" \/ tgt.handover = "none"
          /\ Call("source", tgt, Owned(tgt), "cFinalize", "cFinalize")
       \/ /\ ~(tProf.exists /\ tgt.state # "absent"
                /\ (attempt = "committed" \/ tgt.handover = "none"))
          /\ Goto("source", "cRaise") /\ NoFault /\ UNCHANGED tgt
    /\ UNCHANGED <<control, src, root, attempt, profiles, volumes, up, seen>>

OwnTarget ==
    /\ At("source", "cOwn")
    /\ \/ /\ tProf.exists /\ tgt.state # "absent"
          /\ attempt = "committed" \/ tgt.handover = "none"
          /\ Call("source", tgt, Owned(tgt), "cFinalize", "cQueue")
       \/ /\ ~(tProf.exists /\ tgt.state # "absent"
                /\ (attempt = "committed" \/ tgt.handover = "none"))
          /\ Goto("source", "cRaise") /\ NoFault /\ UNCHANGED tgt
    /\ UNCHANGED <<control, src, root, attempt, profiles, volumes, up, seen>>

QueueRepair ==
    /\ At("source", "cQueue")
    /\ Call("source", tProf, [tProf EXCEPT !.repair = TRUE], "cCleanup", "cRaise")
    /\ UNCHANGED <<control, incus, sProf, volumes, up, seen>>

\* _finalize_committed_migration_attempt wants the proof that the volume
\* transactions of the target completed; the token is what it clears.
Staged == tProf.exists /\ tProf.token
Finalized == [tProf EXCEPT !.token = FALSE, !.prepared = FALSE, !.done = FALSE, !.ack = FALSE]
FinalizeTarget ==
    /\ At("source", "cFinalize")
    /\ \/ /\ Staged /\ tProf.done /\ attempt = "committed"
          /\ \/ tProf' = Finalized /\ attempt' = "retired" /\ Goto("source", "cCleanup") /\ NoFault
             \/ /\ tProf' \in {tProf, Finalized} /\ UNCHANGED attempt
                /\ Goto("source", "cQueue") /\ Fault
       \/ /\ Staged /\ ~(tProf.done /\ attempt = "committed")
          /\ Goto("source", "cQueue") /\ NoFault /\ UNCHANGED <<tProf, attempt>>
       \/ /\ ~Staged
          /\ Goto("source", "cCleanup") /\ NoFault /\ UNCHANGED <<tProf, attempt>>
    /\ UNCHANGED <<control, src, tgt, root, sProf, volumes, up, seen>>

\* Source cleanup cannot roll the decision back; it is retried from its mark.
Confirmed ==
    /\ nova' = [nova EXCEPT !.task = "none", !.vm = "active"] /\ status' = "confirmed"
    /\ Goto("source", "end")
CleanupSource ==
    /\ At("source", "cCleanup")
    /\ \/ sProf' = NoSource /\ sVol' = "exact" /\ NoFault
       \/ sVol' \in {sVol, "exact"} /\ UNCHANGED sProf /\ Fault
    /\ Confirmed
    /\ UNCHANGED <<incus, tProf, tVol, up, seen>>

RaiseConfirm ==
    /\ At("source", "cRaise") /\ Raise("source")
    /\ UNCHANGED <<incus, profiles, volumes, up, seen, faults>>

\* _recover_incus_cleanup_profiles: a profile is no authority over a record,
\* and a destination is acknowledged only after its attempt is fenced.
RecoverCleanup(h) ==
    /\ up[h] /\ w[h] = Idle /\ nova.task = "none"
    /\ \/ /\ h = "source" /\ sProf.cleanup /\ src.state = "absent"
          /\ sProf' = NoSource /\ sVol' = "exact" /\ UNCHANGED <<tProf, tVol>>
       \/ /\ h = "target" /\ tProf.cleanup /\ tgt.state = "absent"
          /\ attempt = "aborted"
          /\ tProf' = Acknowledged /\ tVol' = "exact" /\ UNCHANGED <<sProf, sVol>>
    /\ UNCHANGED <<control, incus, w, up, seen, faults>>

-----------------------------------------------------------------------------
(* Repair and recovery on the target.                                      *)

\* _recover_incus_bfv_migration_targets claims the instance, then
\* recover_migration_target takes the ownership and restarts the guest.  The
\* task serves either host: also a source whose revert was left to repair.
BeginRepair(h) ==
    /\ IF h = "source" THEN sProf.repair /\ src.state # "absent"
       ELSE tProf.repair /\ tgt.state \in {"stopped", "running"}
    /\ nova.host = h /\ nova.task = "none"
    /\ Begin(h, "repair", "owned")
    /\ nova' = [nova EXCEPT !.task = "repair"]
    /\ UNCHANGED <<status, incus, profiles, volumes, up, seen, faults>>

Release(h) ==
    /\ Goto(h, "end") /\ nova' = [nova EXCEPT !.task = "none"]
    /\ UNCHANGED status

RepairOwn(h) ==
    /\ At(h, "owned")
    /\ \/ /\ h = "target" /\ tgt.handover # "none" /\ attempt = "committed"
          /\ Call(h, tgt, Owned(tgt), "runtime", "release")
       \/ /\ h = "target" /\ tgt.handover # "none" /\ attempt # "committed"
          /\ Goto(h, "release") /\ NoFault /\ UNCHANGED tgt
       \/ /\ h = "source" \/ tgt.handover = "none"
          /\ Goto(h, "runtime") /\ NoFault /\ UNCHANGED tgt
    /\ UNCHANGED <<control, src, root, attempt, profiles, volumes, up, seen>>

\* The data volumes must be exact; a running guest is stopped and started again.
Rerun(h, record, exact) ==
    /\ At(h, "runtime")
    /\ \/ exact /\ record' = [record EXCEPT !.state = "running"]
          /\ Goto(h, "staging") /\ NoFault
       \/ exact /\ \E s \in {"stopped", "running"} : record' = [record EXCEPT !.state = s]
          /\ Goto(h, "release") /\ Fault
       \/ ~exact /\ UNCHANGED record /\ Goto(h, "release") /\ NoFault
    /\ UNCHANGED <<control, root, attempt, profiles, volumes, up, seen>>
RepairRuntime(h) ==
    \/ h = "source" /\ Rerun(h, src, sVol = "exact") /\ UNCHANGED tgt
    \/ h = "target" /\ Rerun(h, tgt, tVol = "exact") /\ UNCHANGED src

\* The attempt belongs to the target's daemon.  A resize in VERIFY_RESIZE
\* still needs it; otherwise the staging of the target is retired.
RepairStaging ==
    /\ At("target", "staging")
    /\ LET retire == tProf' = Finalized /\ attempt' = "retired"
       IN  \/ ~tProf.token /\ UNCHANGED <<tProf, attempt>> /\ Goto("target", "clear") /\ NoFault
           \/ /\ tProf.token /\ attempt \in {"none", "retired"}
              /\ UNCHANGED <<tProf, attempt>> /\ Goto("target", "clear") /\ NoFault
           \/ /\ tProf.token /\ attempt = "committed" /\ tVol = "exact"
              /\ IF nova.vm = "resized"
                 THEN tProf' = [tProf EXCEPT !.done = TRUE] /\ UNCHANGED attempt
                 ELSE retire
              /\ Goto("target", "clear") /\ NoFault
           \/ /\ tProf.token /\ attempt \notin {"none", "retired", "committed"}
              /\ UNCHANGED <<tProf, attempt>> /\ Goto("target", "release") /\ NoFault
           \/ /\ tProf.token /\ tProf' \in {tProf, [tProf EXCEPT !.done = tVol = "exact"]}
              /\ UNCHANGED attempt /\ Goto("target", "release") /\ Fault
    /\ UNCHANGED <<control, src, tgt, root, sProf, volumes, up, seen>>

\* The marker goes last, and then the claim on the instance.
RepairDone(h) ==
    /\ w[h].op = "repair" /\ At(h, IF h = "target" THEN "clear" ELSE "staging")
    /\ \/ /\ IF h = "target" THEN tProf' = [tProf EXCEPT !.repair = FALSE] /\ UNCHANGED sProf
             ELSE sProf' = [sProf EXCEPT !.repair = FALSE] /\ UNCHANGED tProf
          /\ Goto(h, "end") /\ NoFault
          /\ nova' = [nova EXCEPT !.task = "none",
                                  !.vm = IF nova.vm = "resized" THEN "resized" ELSE "active"]
          /\ UNCHANGED status
       \/ Release(h) /\ Fault /\ UNCHANGED profiles
    /\ UNCHANGED <<incus, volumes, up, seen>>

ReleaseRepair(h) ==
    /\ At(h, "release") /\ Release(h)
    /\ UNCHANGED <<incus, profiles, volumes, up, seen, faults>>

\* recover_destination_prepared_profile, for a committed target that Nova
\* names as the owner.  (An uncommitted target of an instance that is still at
\* the source is a live migration's: here the instance moves before it.)
BeginPrepared ==
    /\ tProf.prepared /\ ~tProf.cleanup
    /\ nova.task = "none" /\ nova.vm # "resized" /\ status \in Terminal
    /\ attempt = "committed" /\ nova.host = "target" /\ tgt.state # "absent"
    /\ Begin("target", "prepared", "pOwn")
    /\ UNCHANGED <<control, incus, profiles, volumes, up, seen, faults>>

\* _converge_migration_target_ownership, with the local volume evidence.
Converge(owned, marked) ==
    \/ /\ At("target", "pOwn")
       /\ \/ tgt.handover = "none" /\ Goto("target", "pFinal") /\ NoFault /\ UNCHANGED tgt
          \/ /\ tgt.handover # "none" /\ attempt = "committed"
             /\ Call("target", tgt, Owned(tgt), "pFinal", "pMark")
          \/ /\ tgt.handover # "none" /\ attempt # "committed"
             /\ Goto("target", marked) /\ NoFault /\ UNCHANGED tgt
       /\ UNCHANGED <<src, root, attempt, profiles>>
    \/ /\ At("target", "pFinal")
       /\ \/ /\ tVol = "exact" /\ attempt = "committed" /\ Goto("target", owned) /\ NoFault
             /\ tProf' = Finalized /\ attempt' = "retired"
          \/ /\ tVol = "exact" /\ attempt = "committed" /\ Goto("target", "pMark") /\ Fault
             /\ tProf' \in {tProf, [tProf EXCEPT !.done = TRUE], Finalized} /\ UNCHANGED attempt
          \/ /\ ~(tVol = "exact" /\ attempt = "committed")
             /\ Goto("target", "pMark") /\ NoFault /\ UNCHANGED <<tProf, attempt>>
       /\ UNCHANGED <<src, tgt, root, sProf>>
    \/ /\ At("target", "pMark")
       /\ Call("target", tProf, [tProf EXCEPT !.repair = TRUE], marked, marked)
       /\ UNCHANGED <<incus, sProf>>
ConvergePrepared ==
    /\ w["target"].op = "prepared" /\ Converge("end", "end")
    /\ UNCHANGED <<control, volumes, up, seen>>

-----------------------------------------------------------------------------
(* Revert: the target gives up its record, then the source starts again.   *)

\* revert_resize retires the formal volume evidence before it destroys.
BeginRevert ==
    /\ status = "finished" /\ nova.vm = "resized" /\ nova.task = "none"
    /\ Begin("target", "destroy", "dCommit")
    /\ nova' = [nova EXCEPT !.task = "reverting"] /\ status' = "reverting"
    /\ UNCHANGED <<incus, profiles, volumes, up, seen, faults>>

CommitTarget ==
    /\ At("target", "dCommit")
    /\ \/ tVol = "held" /\ Published /\ Goto("target", "destroy") /\ NoFault
       \/ tVol # "held" /\ UNCHANGED <<tVol, tProf>> /\ Goto("target", "destroy") /\ NoFault
       \/ tVol' \in {tVol, "exact"} /\ UNCHANGED tProf /\ Goto("target", "raise") /\ Fault
    /\ UNCHANGED <<control, incus, sProf, sVol, up, seen>>

\* check_instance_shared_storage: only when both records still negotiate is
\* the root shared, and are its disks kept.
SharedRoot ==
    /\ src.state # "absent" /\ tgt.state # "absent"
    /\ src.handover # "none" /\ tgt.handover # "none"

\* destroy: a token that Nova's owner still carries is converged first, and
\* what follows is the final delete; a loser is protected and acknowledged.
DestroyTarget ==
    /\ At("target", "destroy")
    /\ \/ tVol # "exact" /\ Goto("target", "raise")
       \/ tVol = "exact" /\ tProf.token /\ ~SharedRoot /\ Goto("target", "pOwn")
       \/ tVol = "exact" /\ tProf.token /\ SharedRoot /\ Goto("target", "dLose")
       \/ tVol = "exact" /\ ~tProf.token /\ Goto("target", "dFinal")
    /\ UNCHANGED <<control, incus, profiles, volumes, up, seen, faults>>

ConvergeDestroyed ==
    /\ w["target"].op = "destroy" /\ Converge("dFinal", "raise")
    /\ UNCHANGED <<control, volumes, up, seen>>

\* Mutant: the losing record is deleted without stopping its guest.
LoseTarget_Running ==
    /\ At("target", "dLose")
    /\ \/ Call("target", tgt, Protect(tgt), "dDelete", "raise")
       \/ tgt' = Protect(tgt) /\ Goto("target", "raise") /\ Fault
    /\ UNCHANGED <<control, src, root, attempt, profiles, volumes, up, seen>>

LoseTarget ==
    /\ At("target", "dLose")
    /\ \/ Call("target", tgt, [Protect(tgt) EXCEPT !.state = "stopped"], "dDelete", "raise")
       \/ tgt' = Protect(tgt) /\ Goto("target", "raise") /\ Fault
    /\ UNCHANGED <<control, src, root, attempt, profiles, volumes, up, seen>>

DeleteLoser ==
    /\ At("target", "dDelete")
    /\ Call("target", tgt, Absent, "dAck", "raise")
    /\ UNCHANGED <<control, src, root, attempt, profiles, volumes, up, seen>>

AcknowledgeTarget ==
    /\ At("target", "dAck")
    /\ Call("target", tProf, Acknowledged, "dCast", "raise")
    /\ UNCHANGED <<control, incus, sProf, volumes, up, seen>>

\* No token is left: this is a final delete of the record, the disks unless
\* they are shared, and the profile.
StopFinal ==
    /\ At("target", "dFinal")
    /\ \/ /\ tgt.state # "absent" /\ tgt.handover # "none" /\ ~SharedRoot
          /\ Goto("target", "raise") /\ NoFault /\ UNCHANGED tgt
       \/ /\ tgt.state = "absent"
          /\ Goto("target", "dErase") /\ NoFault /\ UNCHANGED tgt
       \/ /\ tgt.state # "absent" /\ (tgt.handover = "none" \/ SharedRoot)
          /\ Call("target", tgt, [tgt EXCEPT !.state = "stopped"], "dErase", "raise")
    /\ UNCHANGED <<control, src, root, attempt, profiles, volumes, up, seen>>

FinalDelete ==
    /\ At("target", "dErase")
    /\ \/ /\ IF tgt.state = "absent" THEN UNCHANGED <<tgt, root>> ELSE Delete(tgt)
          /\ \/ tProf' = NoTarget /\ Goto("target", "dCast") /\ NoFault
             \/ UNCHANGED tProf /\ Goto("target", "raise") /\ Fault
       \/ UNCHANGED <<tgt, root, tProf>> /\ Goto("target", "raise") /\ Fault
    /\ UNCHANGED <<control, src, attempt, sProf, volumes, up, seen>>

\* The target drops its claim, which ends the migration, and casts the rest.
CastRevert ==
    /\ At("target", "dCast") /\ Goto("target", "end")
    /\ nova' = [nova EXCEPT !.task = "returning"] /\ status' = "reverted"
    /\ UNCHANGED <<incus, profiles, volumes, up, seen, faults>>

\* Nova names the source the owner before it calls finish_revert_migration.
BeginFinishRevert ==
    /\ nova.task = "returning" /\ nova.host = "target"
    /\ Begin("source", "revert", "vStart")
    /\ nova' = [nova EXCEPT !.host = "source"]
    /\ UNCHANGED <<status, incus, profiles, volumes, up, seen, faults>>

\* By the completion mark, or by the attempt of the target.
FinishRevert ==
    /\ At("source", "vStart")
    /\ LET next == CASE ~sProf.token -> "vFail"
                     [] sProf.token /\ sProf.done ->
                            IF src.state = "running" THEN "vRetire" ELSE "vFail"
                     [] OTHER -> IF attempt = "committed" THEN "vCheck" ELSE "vFence"
       IN  Goto("source", next)
    /\ UNCHANGED <<control, incus, profiles, volumes, up, seen, faults>>

FenceRevert ==
    /\ At("source", "vFence")
    /\ _abort_migration_attempt("source", "vClean", "vFail", "vFail", "vFail")
    /\ UNCHANGED <<control, profiles, volumes, up, seen>>

CleanRevert ==
    /\ At("source", "vClean")
    /\ SettleAborted("source", "vCheck", "vFail")
    /\ UNCHANGED <<control, profiles, volumes, up, seen>>

\* The target has no instance, and the cleanup of a committed one is acknowledged.
CheckTargetGone ==
    /\ At("source", "vCheck")
    /\ Goto("source",
            IF /\ tgt.state = "absent"
               /\ IF tProf.exists THEN tProf.ack ELSE attempt # "committed"
            THEN "vOwn" ELSE "vFail")
    /\ UNCHANGED <<control, incus, profiles, volumes, up, seen, faults>>

\* _restore_source_storage_ownership: from here on the source is the owner.
RestoreOwnership ==
    /\ At("source", "vOwn")
    /\ \/ src.handover # "protected" /\ Call("source", src, Owned(src), "vAttach", "vFail")
       \/ src.handover = "protected" /\ Goto("source", "vFail") /\ NoFault /\ UNCHANGED src
    /\ UNCHANGED <<control, tgt, root, attempt, profiles, volumes, up, seen>>

\* The retained source intents are handed over to the revert and attached.
AttachSource ==
    /\ At("source", "vAttach")
    /\ LET attached == IF w["source"].op = "initrevert" /\ sVol = "exact" THEN "exact" ELSE "revert"
       IN  Call("source", sVol, attached, "vPower", "vRepair")
    /\ UNCHANGED <<control, incus, profiles, tVol, up, seen>>

PowerReverted ==
    /\ At("source", "vPower")
    /\ Call("source", src, [src EXCEPT !.state = "running"], "vMark", "vRepair")
    /\ UNCHANGED <<control, tgt, root, attempt, profiles, volumes, up, seen>>

MarkReverted ==
    /\ At("source", "vMark")
    /\ Call("source", sProf, [sProf EXCEPT !.done = TRUE], "vRetire", "vRepair")
    /\ UNCHANGED <<control, incus, tProf, volumes, up, seen>>

\* The acknowledgement and the attempt go once the source runs durably.
RetireRevert ==
    /\ At("source", "vRetire")
    /\ LET retired == IF attempt = "none" THEN "none" ELSE "retired"
       IN  \/ /\ ~tProf.exists \/ tProf.ack
              /\ tProf' = NoTarget /\ attempt' = retired /\ Goto("source", "vDone") /\ NoFault
           \/ /\ tProf.exists /\ ~tProf.ack
              /\ Goto("source", "vRepair") /\ NoFault /\ UNCHANGED <<tProf, attempt>>
           \/ /\ tProf' \in {tProf} \cup (IF tProf.ack THEN {NoTarget} ELSE {})
              /\ Goto("source", "vRepair") /\ Fault /\ UNCHANGED attempt
    /\ UNCHANGED <<control, src, tgt, root, sProf, volumes, up, seen>>

\* An owner whose runtime could not be restored is marked and repaired later.
MarkRepair ==
    /\ At("source", "vRepair")
    /\ Call("source", sProf, [sProf EXCEPT !.repair = TRUE], "vDone", "vFail")
    /\ UNCHANGED <<control, incus, tProf, volumes, up, seen>>

\* Startup tolerates the failure and clears the task; a revert raises.
FailRevert ==
    /\ At("source", "vFail")
    /\ IF w["source"].op = "initrevert" THEN Release("source") ELSE Raise("source")
    /\ UNCHANGED <<incus, profiles, volumes, up, seen, faults>>

RevertDone ==
    /\ At("source", "vDone")
    /\ IF w["source"].op = "initrevert" THEN Release("source")
       ELSE /\ nova' = [nova EXCEPT !.task = "none", !.vm = "active"]
            /\ Goto("source", "vFormal") /\ UNCHANGED status
    /\ UNCHANGED <<incus, profiles, volumes, up, seen, faults>>

\* The attachments are Nova's now: their intents are retired, or recovery does.
CommitRevert ==
    /\ At("source", "vFormal")
    /\ \/ sVol' = "exact" /\ Goto("source", "remote") /\ NoFault
       \/ sVol' \in {sVol, "exact"} /\ Goto("source", "end") /\ Fault
    /\ UNCHANGED <<control, incus, profiles, tVol, up, seen>>

\* _recover_incus_internal_attach_locked for the intents of a revert: the
\* generation is marked before the last of them is unlinked.
RecoverReverted ==
    /\ up["source"] /\ w["source"] = Idle /\ sVol = "revert"
    /\ status \in {"reverting", "reverted"} /\ nova.host = "source" /\ nova.task = "none"
    /\ sProf.token
    /\ sVol' = "exact" /\ sProf' = [sProf EXCEPT !.done = TRUE]
    /\ w' = [w EXCEPT !["source"] = [op |-> "generation", pc |-> "remote"]]
    /\ UNCHANGED <<control, incus, tProf, tVol, up, seen, faults>>

\* _recover_incus_migration_source_release_locked: the target owns the volumes.
ReleaseSourceVolumes ==
    /\ up["source"] /\ w["source"] = Idle /\ sVol = "open"
    /\ status \in {"finished", "confirmed"} /\ nova.host = "target"
    /\ nova.task = "none" /\ src.state \in {"absent", "stopped"} /\ tVol = "exact"
    /\ sVol' = "exact"
    /\ UNCHANGED <<control, incus, profiles, tVol, w, up, seen, faults>>

-----------------------------------------------------------------------------
(* Reservations, reboots and the compute services.                         *)

\* _release_abandoned_incus_migration_reservations: seen in two passes, with
\* no migration and no local instance that could still use it.
ReleaseReservation ==
    /\ up["target"] /\ attempt = "active"
    /\ \/ ~seen /\ seen' = TRUE /\ UNCHANGED attempt
       \/ /\ seen /\ status \in Terminal /\ nova.host # "target"
          /\ attempt' = "retired" /\ seen' = FALSE
    /\ UNCHANGED <<control, src, tgt, root, profiles, volumes, w, up, faults>>

\* A hard reboot by the user: every data volume must be settled.
HardReboot(h) ==
    /\ up[h] /\ w[h] = Idle /\ nova.host = h /\ nova.task = "none" /\ nova.vm # "resized"
    /\ status # "none" /\ root
    /\ IF h = "source"
       THEN /\ sVol = "exact" /\ src.state # "absent" /\ sProf.exists
            /\ src' = [src EXCEPT !.state = "running"] /\ UNCHANGED tgt
            /\ sProf' = [sProf EXCEPT !.repair = FALSE] /\ UNCHANGED tProf
       ELSE /\ tVol = "exact" /\ tgt.state \in {"stopped", "running"} /\ tProf.exists
            /\ tgt' = [tgt EXCEPT !.state = "running"] /\ UNCHANGED src
            /\ tProf' = [tProf EXCEPT !.repair = FALSE] /\ UNCHANGED sProf
    /\ nova' = [nova EXCEPT !.vm = "active"]
    /\ UNCHANGED <<status, root, attempt, volumes, w, up, seen, faults>>

Crash(h) ==
    /\ up[h] /\ up' = [up EXCEPT ![h] = FALSE]
    /\ w' = [w EXCEPT ![h] = Idle] /\ Fault
    /\ UNCHANGED <<control, incus, profiles, volumes, seen>>

\* _init_instance: a source whose migration was interrupted is recovered from
\* its durable evidence before the service answers; without evidence Nova's
\* own startup reverts the migration.
Restart(h) ==
    /\ ~up[h] /\ up' = [up EXCEPT ![h] = TRUE]
    /\ LET interrupted == h = "source" /\ nova.task = "migrating"
           evidence == sVol # "exact" \/ sProf.done
       IN  \/ /\ interrupted /\ evidence
              /\ w' = [w EXCEPT ![h] = [op |-> "init", pc |-> "fence"]]
              /\ status' = IF status \in {"migrating", "post-migrating"} THEN "error" ELSE status
           \/ /\ interrupted /\ ~evidence
              /\ w' = [w EXCEPT ![h] = [op |-> "initrevert", pc |-> "vStart"]]
              /\ UNCHANGED status
           \/ ~interrupted /\ UNCHANGED <<w, status>>
    /\ seen' = (IF h = "target" THEN FALSE ELSE seen)
    /\ UNCHANGED <<nova, incus, profiles, volumes, faults>>

-----------------------------------------------------------------------------
\* What a process does next once it has begun, host by host.
RepairStep(h) == RepairOwn(h) \/ RepairRuntime(h) \/ RepairDone(h) \/ ReleaseRepair(h)
SourceStep ==
    \/ RepairStep("source")
    \/ SourceRegister \/ ForgetGeneration \/ StopSource \/ DetachVolumes \/ HandOff
    \/ FenceTarget \/ CleanTarget \/ RetireFenced \/ GiveUp \/ RestoreVolumes
    \/ MarkRollback \/ CommitVolumes \/ RestartSource \/ FinalizeFailed
    \/ OwnSource \/ PowerSource \/ SaveReverted \/ SaveInstance \/ FinalizeRemote
    \/ CheckCommitted \/ DeleteSource \/ OwnTarget \/ QueueRepair \/ FinalizeTarget
    \/ CleanupSource \/ RaiseConfirm
    \/ FinishRevert \/ FenceRevert \/ CleanRevert \/ CheckTargetGone \/ RestoreOwnership
    \/ AttachSource \/ PowerReverted \/ MarkReverted \/ RetireRevert \/ MarkRepair
    \/ FailRevert \/ RevertDone \/ CommitRevert
TargetStep ==
    \/ RepairStep("target")
    \/ TargetRegister \/ CreateProfile \/ CreateTarget \/ AwaitReceive \/ AttachTarget
    \/ StartTarget \/ FinishResize \/ CommitFormal \/ FenceFinish \/ CleanFinish
    \/ RetainTarget \/ CleanupFinish \/ ManagerRollback \/ FenceManager \/ CleanManager
    \/ SettleManager \/ RaiseFinish \/ RepairStaging \/ ConvergePrepared
    \/ CommitTarget \/ DestroyTarget \/ ConvergeDestroyed \/ LoseTarget \/ DeleteLoser
    \/ AcknowledgeTarget \/ StopFinal \/ FinalDelete \/ CastRevert
Next ==
    \/ BeginMigration \/ BeginConfirm \/ BeginRevert \/ BeginFinish \/ BeginFinishRevert
    \/ SourceStep \/ TargetStep \/ ReceiveCommits \/ ReceiveFails
    \/ RecoverVolumes \/ RecoverGeneration \/ RecoverReverted \/ ReleaseSourceVolumes
    \/ RecoverTargetVolumes \/ BeginPrepared \/ ReleaseReservation
    \/ \E h \in Hosts : \/ RecoverCleanup(h) \/ BeginRepair(h)
                        \/ HardReboot(h) \/ Crash(h) \/ Restart(h)

\* An operation that began runs on, a stopped service is started, a cast is
\* received, a receive ends, and every periodic task gets its turn.  The
\* volume recovery gets it even at an instance that failing repairs claim
\* again and again.
Fairness ==
    /\ WF_vars(SourceStep) /\ WF_vars(TargetStep)
    /\ WF_vars(BeginFinish \/ BeginFinishRevert) /\ WF_vars(ReceiveCommits \/ ReceiveFails)
    /\ WF_vars(RecoverGeneration) /\ WF_vars(BeginPrepared) /\ WF_vars(ReleaseReservation)
    /\ \A h \in Hosts : WF_vars(Restart(h)) /\ WF_vars(RecoverCleanup(h)) /\ WF_vars(BeginRepair(h))
    /\ SF_vars(RecoverVolumes \/ RecoverReverted) /\ SF_vars(RecoverTargetVolumes)

Spec == Init /\ [][Next]_vars /\ Fairness

-----------------------------------------------------------------------------
(* Properties.                                                             *)

\* The guest runs on the source only while no other record of it exists, even
\* a partial one: a receive that was fenced too late, a rollback that skips
\* the fence or a restart that trusts the wrong owner would break this.
RunningSourceIsAlone == src.state = "running" => tgt.state = "absent"

\* A reverted migration that Nova closed left the source as the only record
\* and the owner of the root, whether the revert ran through, was marked for
\* repair half-way or was finished by a startup pass.  A confirm is not answered
\* before the source record is gone, and before the target owns the root or a
\* durable mark asks the repair to take it.
ClosedMigrationIsWhole ==
    /\ status = "reverted" /\ nova.host = "source" /\ nova.task = "none" =>
          tgt.state = "absent" /\ src.handover = "none" /\ root
    /\ status = "confirmed" =>
          /\ src.state = "absent" /\ tgt.state # "absent" /\ root
          /\ tgt.handover = "none" \/ tProf.repair \/ tProf.prepared

\* The evidence of a source data volume is found through the token of its
\* generation: the token outlives it on every path that retires one.
EvidenceHasOwner == sVol # "exact" => (sProf.token \/ ~sProf.exists)

\* "The Incus compute manager can automatically repair a marked post-claim
\* target while preserving Nova's staged VERIFY_RESIZE confirm/revert
\* contract": whatever follows, the root is not lost.
RootSurvives == root

\* The abstract root volume behind the two records.
Handover == INSTANCE RootHandover WITH
    Home <- "source", Nobody <- "nobody",
    writer <- IF src.state = "running" THEN "source"
              ELSE IF tgt.state = "running" THEN "target" ELSE "nobody",
    records <- (IF src.state # "absent" THEN {"source"} ELSE {})
               \cup (IF tgt.state # "absent" THEN {"target"} ELSE {})

\* The migration implements the handover of one root volume between two
\* hosts: one writer, a stopped guest whenever a record is received, and
\* never no record at all.
Implements == Handover!Spec

\* A confirmed migration ends with a target that owns its root and has no
\* staging left, whichever call of the confirm failed, unless a repair that
\* a crash interrupted keeps its claim on the instance for ever.
ConfirmConverges ==
    []<>(nova.task = "none") =>
        (status = "confirmed" ~> (tgt.handover = "none" /\ ~tProf.token /\ ~sProf.exists))

\* A failed or reverted migration's source generation that is marked as
\* rolled back is retired, and with it the fence on the target.  (Intents of
\* a revert are recovered only while the migration counts as reverted.)
GenerationRetires ==
    []<>(nova.task = "none") =>
        ((/\ sProf.token /\ sProf.done /\ status \in Failed
          /\ status = "error" => sVol # "revert"
          /\ nova.host = "source" /\ nova.task = "none") ~> ~(sProf.token /\ sProf.done))

=============================================================================
