------------------------- MODULE ColdMigrationProofs -------------------------
(***************************************************************************)
(* Proofs about ColdMigration, for any number of crashes and failed calls: *)
(* its types; that the guest runs on the source only while no other record *)
(* exists; that a migration Nova closed is whole; that the evidence of a   *)
(* source volume can be found; and that the migration implements the       *)
(* handover of one root volume (RootHandover), step by step.               *)
(*                                                                         *)
(* The argument follows the host Nova names as the owner.  While it names  *)
(* the source, the target has no record and does nothing (HomeInv); while  *)
(* it names the target, the source guest is stopped and the source does    *)
(* nothing but confirm (AwayInv).  The name changes twice, at HandOff and  *)
(* at BeginFinishRevert, and both times the other side is already as its   *)
(* half demands.  What the target's record may be follows from the attempt *)
(* of its Incus daemon (AttemptInv), and each worker relies on little more *)
(* (SourceInv, TargetInv).  WholeInv and OwnerInv add who owns the root.   *)
(***************************************************************************)
EXTENDS ColdMigration, TLAPS

\* The steps of taking the source back, and of the return of a revert.
RestoreSteps == {"fence", "clean", "giveup", "restore", "mark", "commit", "final"}
ReturnSteps == {"vStart", "vFence", "vClean", "vCheck", "vOwn", "vAttach", "vPower", "vMark",
                "vRetire", "vRepair", "vFail", "vDone"}

\* Which steps each operation has.
InProgram(r) ==
    \/ r.op = "none" /\ r.pc = "none"
    \/ r.op = "prepare" /\ r.pc \in RestoreSteps \cup
          {"register", "forget", "stop", "detach", "rotate", "restart"}
    \/ r.op = "volumes" /\ r.pc \in RestoreSteps \cup {"retire"}
    \/ r.op = "init" /\ r.pc \in RestoreSteps \cup {"retire", "own", "power", "reverted", "saved"}
    \/ r.op = "generation" /\ r.pc \in {"final", "remote"}
    \/ r.op = "confirm" /\ r.pc \in
          {"cCheck", "cDelete", "cOwn", "cQueue", "cFinalize", "cCleanup", "cRaise"}
    \/ r.op = "initrevert" /\ r.pc \in ReturnSteps
    \/ r.op = "revert" /\ r.pc \in ReturnSteps \cup {"vFormal", "remote"}
    \/ r.op = "repair" /\ r.pc \in {"owned", "runtime", "staging", "clear", "release"}
    \/ r.op = "finish" /\ r.pc \in
          {"register", "profile", "create", "wait", "attach", "start", "finished", "formal",
           "tFence", "tClean", "tCleanup", "tRetain", "manager", "mFence", "mClean", "mSettle",
           "raise"}
    \/ r.op = "prepared" /\ r.pc \in {"pOwn", "pFinal", "pMark"}
    \/ r.op = "destroy" /\ r.pc \in
          {"dCommit", "destroy", "pOwn", "pFinal", "pMark", "dLose", "dDelete", "dAck",
           "dFinal", "dErase", "dCast", "raise"}
ProgramInv ==
    /\ \A h \in Hosts : InProgram(w[h])
    /\ w["source"].op \notin {"finish", "prepared", "destroy"} /\ w["source"].pc # "clear"
    /\ w["target"].op \in {"none", "finish", "prepared", "destroy", "repair"}

\* The target has received the instance.
Present == tgt.state \in {"stopped", "running"}

\* While Nova names the source, the target has nothing and does nothing.
HomeInv ==
    nova.host = "source" =>
        /\ w["target"] = Idle /\ w["source"].op # "confirm"
        /\ src.state \in {"stopped", "running"} /\ tgt.state = "absent"
        /\ nova.task \notin {"migrated", "finishing", "reverting"}
        /\ nova.task = "migrating" => status # "none"
        /\ status \notin {"post-migrating", "finished", "confirming", "confirmed", "reverting"}

\* While Nova names the target, the source guest does not run, and its record
\* is missing only where the target has one.
AwayInv ==
    nova.host = "target" =>
        /\ w["source"].op \in {"none", "confirm"}
        /\ src.state \in {"absent", "stopped"}
        /\ nova.task # "migrating" /\ status \notin {"none", "migrating"}
        /\ src.state = "absent" => Present /\ status \in {"confirming", "confirmed", "error"}
        /\ status \in {"finished", "confirming", "confirmed"} => Present
        /\ status = "confirmed" => src.state = "absent"
        /\ nova.task \in {"migrated", "finishing"} <=> status = "post-migrating"
        /\ nova.task = "reverting" <=> status = "reverting"
        /\ nova.task = "returning" <=> status = "reverted"
        /\ nova.task = "returning" => tgt.state = "absent"
        /\ nova.task \in {"migrated", "returning"} => w["target"] = Idle
        /\ status \in {"post-migrating", "reverting"} => w["target"].op \notin {"repair", "prepared"}

\* The record on the target follows its attempt.
AttemptInv ==
    /\ attempt \in {"none", "active"} => tgt.state = "absent"
    /\ attempt = "started" => tgt.state = "partial" /\ src.state = "stopped"
    /\ attempt \in {"aborting", "aborted"} => tgt.state \in {"absent", "partial"}
    /\ attempt \in {"committed", "retired"} => tgt.state # "partial"
    /\ status = "post-migrating" => (Present <=> attempt = "committed")

\* What the worker of the source relies on.
SourceInv ==
    LET op == w["source"].op
        pc == w["source"].pc
    IN  /\ pc \in {"detach", "rotate"} => src.state = "stopped"
        /\ pc \in {"register", "forget", "stop"} => sVol = "exact"
        /\ op = "prepare" => nova.task = "migrating" /\ sProf.token /\ attempt # "committed"
        /\ op = "confirm" => status = "confirming"
        /\ pc \in {"cOwn", "cQueue", "cFinalize", "cCleanup"} => src.state = "absent"
        /\ op = "init" /\ pc # "final" => nova.task = "migrating"
        /\ op \in {"volumes", "generation", "init"} => nova.task # "returning"
        /\ op = "initrevert" => nova.task = "migrating"
        /\ op = "repair" => nova.task = "repair"
        /\ op = "revert" /\ pc \notin {"vFormal", "remote"} => nova.task = "returning"

\* What the worker of the target relies on.
TargetInv ==
    LET op == w["target"].op
        pc == w["target"].pc
    IN  /\ op = "finish" /\ pc # "formal" => nova.task = "finishing"
        /\ pc = "formal" => status \notin {"post-migrating", "reverting"} /\ Present
        /\ pc = "wait" => tgt.state # "running"
        /\ pc \in {"attach", "start", "dDelete"} => tgt.state = "stopped"
        /\ pc \in {"finished", "dCommit", "destroy", "dLose"} => Present
        /\ pc \in {"tClean", "mClean"} => attempt \in {"aborting", "aborted"}
        /\ pc \in {"tCleanup", "mSettle", "dAck", "dCast"} => tgt.state = "absent"
        /\ pc = "dErase" => tgt.state \in {"absent", "stopped"}
        /\ op = "destroy" => status = "reverting" /\ tgt.state # "partial"
        /\ op \in {"repair", "prepared"} => Present

\* A return that began knows the token of its generation.
EvidenceInv ==
    /\ status = "none" => sVol = "exact" /\ attempt = "none" /\ w["source"].op \in {"none", "repair"}
    /\ w["source"].pc \in ReturnSteps \ {"vStart", "vFail"} => sProf.token
    /\ EvidenceHasOwner

\* Only a final delete can lose the root, and the return that follows it
\* notices: the attempt says committed, and no acknowledgement is left.
WholeInv ==
    LET op == w["source"].op
        pc == w["source"].pc
    IN  /\ nova.task = "migrating" => root
        /\ status \notin {"reverting", "reverted", "error"} => root
        /\ status = "reverted" /\ nova.host = "source" /\ nova.task # "returning" =>
              src.handover = "none" /\ root
        /\ status \in {"finished", "reverting"} \/ nova.task = "returning" =>
              attempt \in {"committed", "retired"}
        /\ status = "reverted" /\ nova.task = "returning" /\ ~root => ~tProf.exists
        /\ w["target"].op = "destroy" /\ ~root =>
              \/ w["target"].pc = "dCast" /\ ~tProf.exists
              \/ w["target"].pc = "raise"
        /\ op = "revert" =>
              /\ status = "reverted" /\ pc # "vClean"
              /\ pc = "vStart" => src.state = "stopped"
              /\ pc = "vFence" => attempt = "retired"
              /\ pc = "vCheck" => attempt = "committed"
              /\ pc \in ReturnSteps \ {"vStart", "vFence", "vCheck", "vFail"} => root
        /\ pc \in {"power", "reverted", "saved"} => src.handover = "none"
        /\ pc \in {"vAttach", "vPower", "vMark", "vRetire", "vRepair", "vDone"} /\ status = "reverted" =>
              src.handover = "none"

\* A target that does not own its root is still marked as prepared.
OwnerInv ==
    /\ attempt = "started" \/ w["target"].pc \in {"create", "dLose"} => tProf.prepared
    /\ Present /\ tgt.handover # "none" => tProf.prepared
    /\ w["target"].pc = "pFinal" \/ w["source"].pc = "cFinalize" => tgt.handover = "none"
    /\ w["target"].pc \in {"runtime", "staging", "clear"} => tgt.handover = "none"

StateInv ==
    /\ ProgramInv /\ HomeInv /\ AwayInv /\ AttemptInv /\ SourceInv /\ TargetInv
    /\ EvidenceInv /\ WholeInv /\ OwnerInv
Inv == TypeOK /\ StateInv

-----------------------------------------------------------------------------
(* The actions, by the part of a migration they belong to.                 *)

\* The source prepares: migrate_disk_and_power_off until Nova moves the instance.
Preparation ==
    \/ BeginMigration \/ SourceRegister \/ ForgetGeneration \/ StopSource \/ DetachVolumes
    \/ HandOff
\* The source takes the instance back, after a failure or a restart.
TakingBack ==
    \/ FenceTarget \/ CleanTarget \/ RetireFenced \/ GiveUp \/ RestoreVolumes
    \/ MarkRollback \/ CommitVolumes \/ RestartSource \/ FinalizeFailed \/ OwnSource
    \/ PowerSource \/ SaveReverted \/ SaveInstance \/ RecoverVolumes
    \/ RecoverGeneration \/ FinalizeRemote
\* The target receives the instance: finish_migration.
Reception ==
    \/ BeginFinish \/ TargetRegister \/ CreateProfile \/ CreateTarget \/ AwaitReceive
    \/ ReceiveCommits \/ ReceiveFails \/ AttachTarget \/ StartTarget \/ FinishResize
    \/ CommitFormal \/ RecoverTargetVolumes
\* The target gives up what it received.
Rollback ==
    \/ FenceFinish \/ CleanFinish \/ RetainTarget \/ CleanupFinish \/ ManagerRollback
    \/ FenceManager \/ CleanManager \/ SettleManager \/ RaiseFinish
\* confirm_migration, and the cleanup it may leave behind.
Confirmation(h) ==
    \/ BeginConfirm \/ CheckCommitted \/ DeleteSource \/ OwnTarget \/ QueueRepair
    \/ FinalizeTarget \/ CleanupSource \/ RaiseConfirm \/ RecoverCleanup(h)
\* The repairs of a marked owner and of a prepared target.
Repairs(h) ==
    \/ BeginRepair(h) \/ RepairOwn(h) \/ RepairRuntime(h) \/ RepairStaging \/ RepairDone(h)
    \/ ReleaseRepair(h) \/ BeginPrepared \/ ConvergePrepared
\* The target gives the instance up: revert on the destination.
GivingUp ==
    \/ BeginRevert \/ CommitTarget \/ DestroyTarget \/ ConvergeDestroyed \/ LoseTarget
    \/ DeleteLoser \/ AcknowledgeTarget \/ StopFinal \/ FinalDelete \/ CastRevert
\* The source takes the instance again: finish_revert_migration.
Returning ==
    \/ BeginFinishRevert \/ FinishRevert \/ FenceRevert \/ CleanRevert \/ CheckTargetGone
    \/ RestoreOwnership \/ AttachSource \/ PowerReverted \/ MarkReverted \/ RetireRevert
    \/ MarkRepair \/ FailRevert \/ RevertDone \/ CommitRevert \/ RecoverReverted
    \/ ReleaseSourceVolumes
\* Reservations, reboots and the compute services.
Services(h) ==
    \/ ReleaseReservation \/ HardReboot(h) \/ Crash(h) \/ Restart(h)

\* Every step belongs to one of the parts.
LEMMA NextCases ==
    ASSUME Next
    PROVE  \/ Preparation \/ TakingBack \/ Reception \/ Rollback \/ GivingUp \/ Returning
           \/ \E h \in Hosts : Confirmation(h) \/ Repairs(h) \/ Services(h)
BY Zenon DEF Next, SourceStep, TargetStep, RepairStep, Hosts, Preparation, TakingBack, Reception,
   Rollback, Confirmation, Repairs, GivingUp, Returning, Services

-----------------------------------------------------------------------------
(* Types.                                                                  *)

\* A worker that goes on, or ends, is a worker.
LEMMA Goes ==
    ASSUME w \in [Hosts -> Work]
    PROVE  \A h \in Hosts : \A pc \in Steps \cup {"end"} : Goto(h, pc) => w' \in [Hosts -> Work]
<1> SUFFICES ASSUME NEW h \in Hosts, NEW pc \in Steps \cup {"end"}, Goto(h, pc) PROVE w' \in [Hosts -> Work] OBVIOUS
<1> DEFINE r == IF pc = "end" THEN Idle ELSE [w[h] EXCEPT !.pc = pc]
  <1>1. Idle \in Work BY DEF Idle, Work, Operations, Steps
  <1>2. r \in Work BY <1>1 DEF Work
  <1>3. w' = [w EXCEPT ![h] = r] BY DEF Goto
  <1> HIDE DEF r
  <1> QED BY <1>2, <1>3

\* So is one that begins.
LEMMA Begins ==
   ASSUME w \in [Hosts -> Work]
   PROVE \A h \in Hosts, op \in Operations, pc \in Steps : Begin(h, op, pc) => w' \in [Hosts -> Work]
BY DEF Work, Begin

\* The idle worker.
LEMMA Idles == Idle \in Work BY DEF Idle, Work, Operations, Steps

\* What the steps write to the instance record of Nova.
LEMMA Updates ==
    ASSUME TypeOK
    PROVE  /\ [nova EXCEPT !.task = "migrating"] \in Instance
           /\ [nova EXCEPT !.task = "finishing"] \in Instance
           /\ [nova EXCEPT !.task = "repair"] \in Instance
           /\ [nova EXCEPT !.task = "none"] \in Instance
           /\ [nova EXCEPT !.task = "reverting"] \in Instance
           /\ [nova EXCEPT !.task = "returning"] \in Instance
           /\ [nova EXCEPT !.host = "source"] \in Instance
           /\ [nova EXCEPT !.vm = "active"] \in Instance
           /\ [nova EXCEPT !.task = "none", !.vm = "error"] \in Instance
           /\ [nova EXCEPT !.task = "none", !.vm = "active"] \in Instance
           /\ [nova EXCEPT !.task = "none", !.vm = "resized"] \in Instance
           /\ [nova EXCEPT !.host = "target", !.task = "migrated"] \in Instance
           /\ [nova EXCEPT !.task = "none", !.vm = IF nova.vm = "resized" THEN "resized" ELSE "active"] \in Instance
BY DEF TypeOK, Instance, Hosts

\* What they write to the profile of the source.
LEMMA SUpdates ==
    ASSUME TypeOK
    PROVE  /\ [sProf EXCEPT !.token = TRUE] \in SourceProfile
           /\ [sProf EXCEPT !.token = FALSE] \in SourceProfile
           /\ [sProf EXCEPT !.done = TRUE] \in SourceProfile
           /\ [sProf EXCEPT !.repair = TRUE] \in SourceProfile
           /\ [sProf EXCEPT !.repair = FALSE] \in SourceProfile
           /\ [sProf EXCEPT !.cleanup = TRUE] \in SourceProfile
           /\ [sProf EXCEPT !.token = FALSE, !.done = FALSE] \in SourceProfile
           /\ NoSource \in SourceProfile
BY DEF TypeOK, SourceProfile, NoSource

\* What they write to the profile of the target.
LEMMA TUpdates ==
    ASSUME TypeOK
    PROVE  /\ [tProf EXCEPT !.done = TRUE] \in TargetProfile
           /\ [tProf EXCEPT !.done = tVol = "exact"] \in TargetProfile
           /\ [tProf EXCEPT !.repair = TRUE] \in TargetProfile
           /\ [tProf EXCEPT !.repair = FALSE] \in TargetProfile
           /\ [tProf EXCEPT !.cleanup = TRUE] \in TargetProfile
           /\ Finalized \in TargetProfile /\ Acknowledged \in TargetProfile
           /\ NoTarget \in TargetProfile
           /\ [NoTarget EXCEPT !.exists = TRUE, !.token = TRUE, !.prepared = TRUE] \in TargetProfile
BY DEF TypeOK, TargetProfile, NoTarget, Finalized, Acknowledged

\* The two profiles.
ProfilesOK == sProf \in SourceProfile /\ tProf \in TargetProfile

\* The steps that choose between several outcomes for a profile keep its type.
LEMMA ProfilesStay ==
    ASSUME TypeOK
    PROVE  /\ CleanupFinish => ProfilesOK'
           /\ ManagerRollback => ProfilesOK'
           /\ SettleManager => ProfilesOK'
           /\ CheckCommitted => ProfilesOK'
           /\ QueueRepair => ProfilesOK'
           /\ RepairStaging => ProfilesOK'
           /\ \A h \in Hosts : RepairDone(h) => ProfilesOK'
           /\ ConvergePrepared => ProfilesOK'
           /\ CommitTarget => ProfilesOK'
           /\ ConvergeDestroyed => ProfilesOK'
           /\ MarkReverted => ProfilesOK'
           /\ MarkRepair => ProfilesOK'
           /\ \A h \in Hosts : HardReboot(h) => ProfilesOK'
           /\ ForgetGeneration => ProfilesOK'
           /\ MarkRollback => ProfilesOK'
           /\ CommitFormal => ProfilesOK'
           /\ RetainTarget => ProfilesOK'
<1>1. CleanupFinish => ProfilesOK'
    BY SUpdates, TUpdates, Zenon DEF TypeOK, ProfilesOK, Call, profiles, CleanupFinish
<1>2. ManagerRollback => ProfilesOK'
    BY SUpdates, TUpdates, Zenon DEF TypeOK, ProfilesOK, Call, profiles, ManagerRollback
<1>3. SettleManager => ProfilesOK'
    BY SUpdates, TUpdates, Zenon DEF TypeOK, ProfilesOK, Call, profiles, SettleManager
<1>4. CheckCommitted => ProfilesOK'
    BY SUpdates, TUpdates, Zenon DEF TypeOK, ProfilesOK, Call, profiles, CheckCommitted
<1>5. QueueRepair => ProfilesOK'
    BY SUpdates, TUpdates, Zenon DEF TypeOK, ProfilesOK, Call, profiles, QueueRepair
<1>6. RepairStaging => ProfilesOK'
    BY SUpdates, TUpdates, Zenon DEF TypeOK, ProfilesOK, Call, profiles, RepairStaging
<1>7. \A h \in Hosts : RepairDone(h) => ProfilesOK'
    BY SUpdates, TUpdates, Zenon DEF TypeOK, ProfilesOK, Call, profiles, RepairDone, Release
<1>8. ConvergePrepared => ProfilesOK'
    BY SUpdates, TUpdates, Zenon DEF TypeOK, ProfilesOK, Call, profiles, ConvergePrepared, Converge, Owned
<1>9. CommitTarget => ProfilesOK'
    BY SUpdates, TUpdates, Zenon DEF TypeOK, ProfilesOK, Call, profiles, CommitTarget, Published
<1>10. ConvergeDestroyed => ProfilesOK'
    BY SUpdates, TUpdates, Zenon DEF TypeOK, ProfilesOK, Call, profiles, ConvergeDestroyed, Converge, Owned
<1>11. MarkReverted => ProfilesOK'
    BY SUpdates, TUpdates, Zenon DEF TypeOK, ProfilesOK, Call, profiles, MarkReverted
<1>12. MarkRepair => ProfilesOK'
    BY SUpdates, TUpdates, Zenon DEF TypeOK, ProfilesOK, Call, profiles, MarkRepair
<1>13. \A h \in Hosts : HardReboot(h) => ProfilesOK'
    BY SUpdates, TUpdates, Zenon DEF TypeOK, ProfilesOK, Call, profiles, HardReboot
<1>14. ForgetGeneration => ProfilesOK'
    BY SUpdates, TUpdates, Zenon DEF TypeOK, ProfilesOK, Call, profiles, ForgetGeneration, Raise
<1>15. MarkRollback => ProfilesOK'
    BY SUpdates, TUpdates, Zenon DEF TypeOK, ProfilesOK, Call, profiles, MarkRollback
<1>16. CommitFormal => ProfilesOK'
    BY SUpdates, TUpdates, Zenon DEF TypeOK, ProfilesOK, Call, profiles, CommitFormal, Published
<1>17. RetainTarget => ProfilesOK'
    BY SUpdates, TUpdates, Zenon DEF TypeOK, ProfilesOK, Call, profiles, RetainTarget
<1> QED BY ONLY <1>1, <1>2, <1>3, <1>4, <1>5, <1>6, <1>7, <1>8, <1>9, <1>10, <1>11, <1>12, <1>13,
    <1>14, <1>15, <1>16, <1>17

\* The recovery of a revert starts the worker that retires its generation.
LEMMA RecoverRevertedTypes == ASSUME TypeOK, RecoverReverted PROVE TypeOK'
<1>1. [op |-> "generation", pc |-> "remote"] \in Work BY DEF Work, Operations, Steps
<1>2. w' \in [Hosts -> Work] BY <1>1 DEF RecoverReverted, TypeOK
<1> QED BY <1>2, SUpdates DEF RecoverReverted, TypeOK, control, incus

\* A restarted source starts the recovery, or the revert, of its migration.
LEMMA RestartTypes == ASSUME TypeOK, NEW h \in Hosts, Restart(h) PROVE TypeOK'
<1>1. [op |-> "init", pc |-> "fence"] \in Work /\ [op |-> "initrevert", pc |-> "vStart"] \in Work BY DEF Work, Operations, Steps
<1>2. w' \in [Hosts -> Work] BY <1>1 DEF Restart, TypeOK
<1>3. seen' \in BOOLEAN BY DEF Restart, TypeOK
<1>4. up' \in [Hosts -> BOOLEAN] BY DEF Restart, TypeOK
<1> QED BY <1>2, <1>3, <1>4 DEF Restart, TypeOK, incus, profiles, volumes

\* The two passes of the reservation cleanup.
LEMMA ReleaseReservationTypes == ASSUME TypeOK, ReleaseReservation PROVE TypeOK'
<1>1. seen' \in BOOLEAN BY Zenon DEF ReleaseReservation, TypeOK
<1> QED BY <1>1 DEF ReleaseReservation, TypeOK, control, profiles, volumes

\* A final delete may lose the root.
LEMMA FinalDeleteTypes == ASSUME TypeOK, FinalDelete PROVE TypeOK'
<1>1. root' \in BOOLEAN BY DEF FinalDelete, Delete, TypeOK
<1>2. tProf' \in TargetProfile BY TUpdates, Zenon DEF FinalDelete, TypeOK
<1> QED BY <1>1, <1>2, Goes, FaultsAssumption DEF FinalDelete, Delete, Absent, Record, TypeOK, Hosts, Steps, NoFault, Fault, volumes, control

\* A target that loses the handover is protected and stopped.
LEMMA LoseTargetTypes == ASSUME TypeOK, LoseTarget PROVE TypeOK'
<1>1. Protect(tgt) \in Record /\ [Protect(tgt) EXCEPT !.state = "stopped"] \in Record BY DEF Protect, Record, TypeOK
<1>2. tgt' \in Record BY <1>1, Zenon DEF LoseTarget, Call, TypeOK
<1> QED BY <1>2, Goes, FaultsAssumption DEF LoseTarget, Call, TypeOK, Hosts, Steps, NoFault, Fault, profiles, volumes, control

\* Every step keeps the types.
LEMMA StepTypes ==
    ASSUME TypeOK, [Next]_vars PROVE TypeOK'
<1> USE Goes, FaultsAssumption DEF TypeOK, Hosts, Steps, Operations, Call, Record, NoFault, Fault,
       Absent, incus, profiles, volumes, control
<1>1. CASE Preparation
  <2>1. BeginMigration => TypeOK'
    BY SMTT(20), Updates, SUpdates, Begins DEF BeginMigration
  <2>2. SourceRegister => TypeOK'
    BY SMTT(20) DEF SourceRegister, Register
  <2>3. ForgetGeneration => TypeOK'
    BY SMTT(20), ProfilesStay, Updates DEF ForgetGeneration, Raise, ProfilesOK
  <2>4. StopSource => TypeOK'
    BY SMTT(20) DEF StopSource
  <2>5. DetachVolumes => TypeOK'
    BY SMTT(20) DEF DetachVolumes
  <2>6. HandOff => TypeOK'
    BY SMTT(20), Updates, Idles DEF HandOff, Raise
  <2> QED BY ONLY <1>1, <2>1, <2>2, <2>3, <2>4, <2>5, <2>6 DEF Preparation
<1>2. CASE TakingBack
  <2>1. FenceTarget => TypeOK'
    BY SMTT(20) DEF FenceTarget, _abort_migration_attempt, Fenced
  <2>2. CleanTarget => TypeOK'
    BY SMTT(20) DEF CleanTarget, SettleAborted, Protect
  <2>3. RetireFenced => TypeOK'
    BY SMTT(20) DEF RetireFenced
  <2>4. GiveUp => TypeOK'
    BY SMTT(20), Updates DEF GiveUp, Abandon, Raise
  <2>5. RestoreVolumes => TypeOK'
    BY SMTT(20) DEF RestoreVolumes
  <2>6. MarkRollback => TypeOK'
    BY SMTT(20), ProfilesStay DEF MarkRollback, ProfilesOK
  <2>7. CommitVolumes => TypeOK'
    BY SMTT(20) DEF CommitVolumes
  <2>8. RestartSource => TypeOK'
    BY SMTT(20) DEF RestartSource
  <2>9. FinalizeFailed => TypeOK'
    BY SMTT(20), Updates, SUpdates DEF FinalizeFailed, Raise, FencedForGood
  <2>10. OwnSource => TypeOK'
    BY SMTT(20) DEF OwnSource
  <2>11. PowerSource => TypeOK'
    BY SMTT(20) DEF PowerSource
  <2>12. SaveReverted => TypeOK'
    BY SMTT(20) DEF SaveReverted
  <2>13. SaveInstance => TypeOK'
    BY SMTT(20), Updates DEF SaveInstance
  <2>14. RecoverVolumes => TypeOK'
    BY SMTT(20), Begins DEF RecoverVolumes, Failed
  <2>15. RecoverGeneration => TypeOK'
    BY SMTT(20), Begins DEF RecoverGeneration, Failed
  <2>16. FinalizeRemote => TypeOK'
    BY SMTT(20), SUpdates, TUpdates DEF FinalizeRemote
  <2> QED BY ONLY <1>2, <2>1, <2>2, <2>3, <2>4, <2>5, <2>6, <2>7, <2>8, <2>9, <2>10, <2>11, <2>12,
      <2>13, <2>14, <2>15, <2>16 DEF TakingBack
<1>3. CASE Reception
  <2>1. BeginFinish => TypeOK'
    BY SMTT(20), Updates, Begins DEF BeginFinish
  <2>2. TargetRegister => TypeOK'
    BY SMTT(20) DEF TargetRegister, Register
  <2>3. CreateProfile => TypeOK'
    BY SMTT(20), TUpdates DEF CreateProfile
  <2>4. CreateTarget => TypeOK'
    BY SMTT(20) DEF CreateTarget
  <2>5. AwaitReceive => TypeOK'
    BY SMTT(20) DEF AwaitReceive
  <2>6. ReceiveCommits => TypeOK'
    BY SMTT(20) DEF ReceiveCommits
  <2>7. ReceiveFails => TypeOK'
    BY SMTT(20) DEF ReceiveFails
  <2>8. AttachTarget => TypeOK'
    BY SMTT(20) DEF AttachTarget
  <2>9. StartTarget => TypeOK'
    BY SMTT(20) DEF StartTarget
  <2>10. FinishResize => TypeOK'
    BY SMTT(20), Updates DEF FinishResize
  <2>11. CommitFormal => TypeOK'
    BY SMTT(20), ProfilesStay DEF CommitFormal, Published, ProfilesOK
  <2>12. RecoverTargetVolumes => TypeOK'
    BY SMTT(20), TUpdates DEF RecoverTargetVolumes, Published
  <2> QED BY ONLY <1>3, <2>1, <2>2, <2>3, <2>4, <2>5, <2>6, <2>7, <2>8, <2>9, <2>10, <2>11, <2>12 DEF Reception
<1>4. CASE Rollback
  <2>1. FenceFinish => TypeOK'
    BY SMTT(20) DEF FenceFinish, _abort_migration_attempt, Fenced
  <2>2. CleanFinish => TypeOK'
    BY SMTT(20) DEF CleanFinish, SettleAborted, Protect
  <2>3. RetainTarget => TypeOK'
    BY SMTT(20), ProfilesStay DEF RetainTarget, ProfilesOK
  <2>4. CleanupFinish => TypeOK'
    BY SMTT(20), ProfilesStay DEF CleanupFinish, ProfilesOK
  <2>5. ManagerRollback => TypeOK'
    BY SMTT(20), ProfilesStay DEF ManagerRollback, ProfilesOK
  <2>6. FenceManager => TypeOK'
    BY SMTT(20) DEF FenceManager, _abort_migration_attempt, Fenced
  <2>7. CleanManager => TypeOK'
    BY SMTT(20) DEF CleanManager, SettleAborted, Protect
  <2>8. SettleManager => TypeOK'
    BY SMTT(20), ProfilesStay DEF SettleManager, ProfilesOK
  <2>9. RaiseFinish => TypeOK'
    BY SMTT(20), Updates DEF RaiseFinish, Raise
  <2> QED BY ONLY <1>4, <2>1, <2>2, <2>3, <2>4, <2>5, <2>6, <2>7, <2>8, <2>9 DEF Rollback
<1>5. ASSUME NEW h \in Hosts, Confirmation(h) PROVE TypeOK'
  <2>1. BeginConfirm => TypeOK'
    BY SMTT(20), Begins DEF BeginConfirm
  <2>2. CheckCommitted => TypeOK'
    BY SMTT(20), ProfilesStay DEF CheckCommitted, ProfilesOK
  <2>3. DeleteSource => TypeOK'
    BY SMTT(20) DEF DeleteSource, Protect
  <2>4. OwnTarget => TypeOK'
    BY SMTT(20) DEF OwnTarget, Owned
  <2>5. QueueRepair => TypeOK'
    BY SMTT(20), ProfilesStay DEF QueueRepair, ProfilesOK
  <2>6. FinalizeTarget => TypeOK'
    BY SMTT(20), TUpdates DEF FinalizeTarget, Staged
  <2>7. CleanupSource => TypeOK'
    BY SMTT(20), Updates, SUpdates DEF CleanupSource, Confirmed
  <2>8. RaiseConfirm => TypeOK'
    BY SMTT(20), Updates DEF RaiseConfirm, Raise
  <2>9. RecoverCleanup(h) => TypeOK'
    BY SMTT(20), SUpdates, TUpdates DEF RecoverCleanup
  <2> QED BY ONLY <1>5, <2>1, <2>2, <2>3, <2>4, <2>5, <2>6, <2>7, <2>8, <2>9 DEF Confirmation
<1>6. ASSUME NEW h \in Hosts, Repairs(h) PROVE TypeOK'
  <2>1. BeginRepair(h) => TypeOK'
    BY SMTT(20), Updates, Begins DEF BeginRepair
  <2>2. RepairOwn(h) => TypeOK'
    BY SMTT(20) DEF RepairOwn, Owned
  <2>3. RepairRuntime(h) => TypeOK'
    BY SMTT(20) DEF RepairRuntime, Rerun
  <2>4. RepairStaging => TypeOK'
    BY SMTT(20), ProfilesStay DEF RepairStaging, ProfilesOK
  <2>5. RepairDone(h) => TypeOK'
    BY SMTT(20), ProfilesStay, Updates DEF RepairDone, Release, ProfilesOK
  <2>6. ReleaseRepair(h) => TypeOK'
    BY SMTT(20), Updates DEF ReleaseRepair, Release
  <2>7. BeginPrepared => TypeOK'
    BY SMTT(20), Begins DEF BeginPrepared, Terminal
  <2>8. ConvergePrepared => TypeOK'
    BY SMTT(20), ProfilesStay DEF ConvergePrepared, Converge, Owned, ProfilesOK
  <2> QED BY ONLY <1>6, <2>1, <2>2, <2>3, <2>4, <2>5, <2>6, <2>7, <2>8 DEF Repairs
<1>7. CASE GivingUp
  <2>1. BeginRevert => TypeOK'
    BY SMTT(20), Updates, Begins DEF BeginRevert
  <2>2. CommitTarget => TypeOK'
    BY SMTT(20), ProfilesStay DEF CommitTarget, Published, ProfilesOK
  <2>3. DestroyTarget => TypeOK'
    BY SMTT(20) DEF DestroyTarget, SharedRoot
  <2>4. ConvergeDestroyed => TypeOK'
    BY SMTT(20), ProfilesStay DEF ConvergeDestroyed, Converge, Owned, ProfilesOK
  <2>5. LoseTarget => TypeOK' BY LoseTargetTypes
  <2>6. DeleteLoser => TypeOK'
    BY SMTT(20) DEF DeleteLoser
  <2>7. AcknowledgeTarget => TypeOK'
    BY SMTT(20), TUpdates DEF AcknowledgeTarget
  <2>8. StopFinal => TypeOK'
    BY SMTT(20) DEF StopFinal, SharedRoot
  <2>9. FinalDelete => TypeOK' BY FinalDeleteTypes
  <2>10. CastRevert => TypeOK'
    BY SMTT(20), Updates DEF CastRevert
  <2> QED BY ONLY <1>7, <2>1, <2>2, <2>3, <2>4, <2>5, <2>6, <2>7, <2>8, <2>9, <2>10 DEF GivingUp
<1>8. CASE Returning
  <2>1. BeginFinishRevert => TypeOK'
    BY SMTT(20), Updates, Begins DEF BeginFinishRevert
  <2>2. FinishRevert => TypeOK'
    BY SMTT(20) DEF FinishRevert
  <2>3. FenceRevert => TypeOK'
    BY SMTT(20) DEF FenceRevert, _abort_migration_attempt, Fenced
  <2>4. CleanRevert => TypeOK'
    BY SMTT(20) DEF CleanRevert, SettleAborted, Protect
  <2>5. CheckTargetGone => TypeOK'
    BY SMTT(20) DEF CheckTargetGone
  <2>6. RestoreOwnership => TypeOK'
    BY SMTT(20) DEF RestoreOwnership, Owned
  <2>7. AttachSource => TypeOK'
    BY SMTT(20) DEF AttachSource
  <2>8. PowerReverted => TypeOK'
    BY SMTT(20) DEF PowerReverted
  <2>9. MarkReverted => TypeOK'
    BY SMTT(20), ProfilesStay DEF MarkReverted, ProfilesOK
  <2>10. RetireRevert => TypeOK'
    BY SMTT(20), TUpdates DEF RetireRevert
  <2>11. MarkRepair => TypeOK'
    BY SMTT(20), ProfilesStay DEF MarkRepair, ProfilesOK
  <2>12. FailRevert => TypeOK'
    BY SMTT(20), Updates DEF FailRevert, Release, Raise
  <2>13. RevertDone => TypeOK'
    BY SMTT(20), Updates DEF RevertDone, Release
  <2>14. CommitRevert => TypeOK'
    BY SMTT(20) DEF CommitRevert
  <2>15. RecoverReverted => TypeOK' BY RecoverRevertedTypes
  <2>16. ReleaseSourceVolumes => TypeOK'
    BY SMTT(20) DEF ReleaseSourceVolumes
  <2> QED BY ONLY <1>8, <2>1, <2>2, <2>3, <2>4, <2>5, <2>6, <2>7, <2>8, <2>9, <2>10, <2>11, <2>12,
      <2>13, <2>14, <2>15, <2>16 DEF Returning
<1>9. ASSUME NEW h \in Hosts, Services(h) PROVE TypeOK'
  <2>1. ReleaseReservation => TypeOK' BY ReleaseReservationTypes
  <2>2. HardReboot(h) => TypeOK'
    BY SMTT(20), ProfilesStay, Updates DEF HardReboot, ProfilesOK
  <2>3. Crash(h) => TypeOK'
    BY SMTT(20), Idles DEF Crash
  <2>4. Restart(h) => TypeOK' BY RestartTypes
  <2> QED BY ONLY <1>9, <2>1, <2>2, <2>3, <2>4 DEF Services
<1>10. CASE UNCHANGED vars BY <1>10 DEF vars
<1> QED BY ONLY [Next]_vars, NextCases, <1>1, <1>2, <1>3, <1>4, <1>5, <1>6, <1>7, <1>8, <1>9, <1>10

-----------------------------------------------------------------------------
(* The inductive invariant.                                                *)

\* What an operation that raises does to Nova's records.
LEMMA Raises ==
    ASSUME TypeOK, NEW h \in Hosts, Raise(h)
    PROVE  /\ w' = [w EXCEPT ![h] = Idle] /\ status' = "error"
           /\ nova'.host = nova.host /\ nova'.task = "none"
BY DEF TypeOK, Instance, Raise, Goto

\* What one that clears the task does.
LEMMA Releases ==
    ASSUME TypeOK, NEW h \in Hosts, Release(h)
    PROVE  /\ w' = [w EXCEPT ![h] = Idle] /\ status' = status
           /\ nova'.host = nova.host /\ nova'.task = "none"
BY DEF TypeOK, Instance, Release, Goto

\* Every step keeps the invariant.
LEMMA StepKeeps ==
    ASSUME TypeOK, StateInv, [Next]_vars PROVE StateInv'
<1> USE DEF TypeOK, Instance, Record, SourceProfile, TargetProfile, Work, Hosts, Idle, StateInv,
       RestoreSteps, ReturnSteps, InProgram, ProgramInv, Present, HomeInv, AwayInv, AttemptInv,
       SourceInv, TargetInv, EvidenceInv, EvidenceHasOwner, WholeInv, OwnerInv, At, Goto, Begin,
       Call, incus, profiles, volumes, control, Absent
<1>1. CASE Preparation
  <2>1. BeginMigration => StateInv' BY SMTT(20) DEF BeginMigration
  <2>2. SourceRegister => StateInv' BY SMTT(20) DEF SourceRegister, Register
  <2>3. ForgetGeneration => StateInv' BY SMTT(20) DEF ForgetGeneration, Raise
  <2>4. StopSource => StateInv' BY SMTT(20) DEF StopSource
  <2>5. DetachVolumes => StateInv' BY SMTT(20) DEF DetachVolumes
  <2>6. ASSUME HandOff PROVE StateInv'
    <3>1. CASE Raise("source") BY <2>6, <3>1, Raises, SMTT(30) DEF HandOff
    <3>2. CASE ~Raise("source")
      <4>1. nova'.host = "target" /\ nova'.task = "migrated" BY <2>6, <3>2 DEF HandOff
      <4>2. status' = "post-migrating" /\ w' = [w EXCEPT !["source"] = Idle] BY <2>6, <3>2 DEF HandOff
      <4>3. At("source", "rotate") /\ UNCHANGED <<incus, profiles, volumes>> BY <2>6 DEF HandOff
      <4> QED BY <2>6, <4>1, <4>2, <4>3, SMTT(30)
    <3> QED BY <2>6, <3>1, <3>2
  <2> QED BY ONLY <1>1, <2>1, <2>2, <2>3, <2>4, <2>5, <2>6 DEF Preparation
<1>2. CASE TakingBack
  <2>1. FenceTarget => StateInv' BY SMTT(20) DEF FenceTarget, _abort_migration_attempt, Fenced
  <2>2. CleanTarget => StateInv' BY SMTT(20) DEF CleanTarget, SettleAborted, Protect
  <2>3. RetireFenced => StateInv' BY SMTT(20) DEF RetireFenced
  <2>4. ASSUME GiveUp PROVE StateInv'
    <3>1. CASE w["source"].op \in {"prepare", "revert"} BY <2>4, <3>1, Raises, SMTT(30) DEF GiveUp, Abandon
    <3>2. CASE w["source"].op \notin {"prepare", "revert"} BY <2>4, <3>2, SMTT(30) DEF GiveUp, Abandon
    <3> QED BY <2>4, <3>1, <3>2
  <2>5. RestoreVolumes => StateInv' BY SMTT(20) DEF RestoreVolumes
  <2>6. MarkRollback => StateInv' BY SMTT(20) DEF MarkRollback
  <2>7. CommitVolumes => StateInv' BY SMTT(20) DEF CommitVolumes
  <2>8. RestartSource => StateInv' BY SMTT(20) DEF RestartSource
  <2>9. ASSUME FinalizeFailed PROVE StateInv'
    <3>1. CASE w["source"].op = "prepare" BY <2>9, <3>1, Raises, SMTT(30) DEF FinalizeFailed
    <3>2. CASE w["source"].op # "prepare" BY <2>9, <3>2, SMTT(30) DEF FinalizeFailed
    <3> QED BY <2>9, <3>1, <3>2
  <2>10. OwnSource => StateInv' BY SMTT(20) DEF OwnSource
  <2>11. PowerSource => StateInv' BY SMTT(20) DEF PowerSource
  <2>12. SaveReverted => StateInv' BY SMTT(20) DEF SaveReverted
  <2>13. SaveInstance => StateInv' BY SMTT(20) DEF SaveInstance
  <2>14. RecoverVolumes => StateInv' BY SMTT(20) DEF RecoverVolumes, Failed
  <2>15. RecoverGeneration => StateInv' BY SMTT(20) DEF RecoverGeneration, Failed
  <2>16. FinalizeRemote => StateInv' BY SMTT(20) DEF FinalizeRemote, NoTarget
  <2> QED BY ONLY <1>2, <2>1, <2>2, <2>3, <2>4, <2>5, <2>6, <2>7, <2>8, <2>9, <2>10, <2>11, <2>12,
      <2>13, <2>14, <2>15, <2>16 DEF TakingBack
<1>3. CASE Reception
  <2>1. BeginFinish => StateInv' BY SMTT(20) DEF BeginFinish
  <2>2. TargetRegister => StateInv' BY SMTT(20) DEF TargetRegister, Register
  <2>3. ASSUME CreateProfile PROVE StateInv'
    <3>1. \/ tProf'.prepared = TRUE /\ (Goto("target", "create") \/ Goto("target", "tFence"))
          \/ tProf' = tProf /\ Goto("target", "tFence")
      <4> PICK p : p = [NoTarget EXCEPT !.exists = TRUE, !.token = TRUE, !.prepared = TRUE] OBVIOUS
      <4>1. p.prepared = TRUE BY <2>3 DEF NoTarget
      <4> QED BY <2>3, <4>1 DEF CreateProfile
    <3>2. At("target", "profile") /\ UNCHANGED <<control, incus, sProf, volumes>> BY <2>3 DEF CreateProfile
    <3> QED BY <2>3, <3>1, <3>2, SMTT(30)
  <2>4. CreateTarget => StateInv' BY SMTT(20) DEF CreateTarget
  <2>5. AwaitReceive => StateInv' BY SMTT(20) DEF AwaitReceive
  <2>6. ReceiveCommits => StateInv' BY SMTT(20) DEF ReceiveCommits
  <2>7. ReceiveFails => StateInv' BY SMTT(20) DEF ReceiveFails
  <2>8. AttachTarget => StateInv' BY SMTT(20) DEF AttachTarget
  <2>9. StartTarget => StateInv' BY SMTT(20) DEF StartTarget
  <2>10. FinishResize => StateInv' BY SMTT(20) DEF FinishResize
  <2>11. CommitFormal => StateInv' BY SMTT(20) DEF CommitFormal, Published
  <2>12. RecoverTargetVolumes => StateInv' BY SMTT(20) DEF RecoverTargetVolumes, Published
  <2> QED BY ONLY <1>3, <2>1, <2>2, <2>3, <2>4, <2>5, <2>6, <2>7, <2>8, <2>9, <2>10, <2>11, <2>12 DEF Reception
<1>4. CASE Rollback
  <2>1. FenceFinish => StateInv' BY SMTT(20) DEF FenceFinish, _abort_migration_attempt, Fenced
  <2>2. CleanFinish => StateInv' BY SMTT(20) DEF CleanFinish, SettleAborted, Protect
  <2>3. RetainTarget => StateInv' BY SMTT(20) DEF RetainTarget
  <2>4. CleanupFinish => StateInv' BY SMTT(20) DEF CleanupFinish, NoTarget
  <2>5. ManagerRollback => StateInv' BY SMTT(20) DEF ManagerRollback
  <2>6. FenceManager => StateInv' BY SMTT(20) DEF FenceManager, _abort_migration_attempt, Fenced
  <2>7. CleanManager => StateInv' BY SMTT(20) DEF CleanManager, SettleAborted, Protect
  <2>8. SettleManager => StateInv' BY SMTT(20) DEF SettleManager, Acknowledged
  <2>9. RaiseFinish => StateInv' BY SMTT(20) DEF RaiseFinish, Raise
  <2> QED BY ONLY <1>4, <2>1, <2>2, <2>3, <2>4, <2>5, <2>6, <2>7, <2>8, <2>9 DEF Rollback
<1>5. ASSUME NEW h \in Hosts, Confirmation(h) PROVE StateInv'
  <2>1. BeginConfirm => StateInv' BY SMTT(20) DEF BeginConfirm
  <2>2. CheckCommitted => StateInv' BY SMTT(20) DEF CheckCommitted
  <2>3. DeleteSource => StateInv' BY SMTT(20) DEF DeleteSource, Protect
  <2>4. OwnTarget => StateInv' BY SMTT(20) DEF OwnTarget, Owned
  <2>5. QueueRepair => StateInv' BY SMTT(20) DEF QueueRepair
  <2>6. FinalizeTarget => StateInv' BY SMTT(20) DEF FinalizeTarget, Staged, Finalized
  <2>7. CleanupSource => StateInv' BY SMTT(20) DEF CleanupSource, Confirmed, NoSource
  <2>8. RaiseConfirm => StateInv' BY SMTT(20) DEF RaiseConfirm, Raise
  <2>9. RecoverCleanup(h) => StateInv' BY SMTT(20) DEF RecoverCleanup, Acknowledged, NoSource
  <2> QED BY ONLY <1>5, <2>1, <2>2, <2>3, <2>4, <2>5, <2>6, <2>7, <2>8, <2>9 DEF Confirmation
<1>6. ASSUME NEW h \in Hosts, Repairs(h) PROVE StateInv'
  <2>1. BeginRepair(h) => StateInv' BY SMTT(20) DEF BeginRepair
  <2>2. RepairOwn(h) => StateInv' BY SMTT(20) DEF RepairOwn, Owned
  <2>3. RepairRuntime(h) => StateInv' BY SMTT(20) DEF RepairRuntime, Rerun
  <2>4. RepairStaging => StateInv' BY SMTT(20) DEF RepairStaging, Finalized
  <2>5. ASSUME RepairDone(h) PROVE StateInv'
    <3>1. CASE Release(h) BY <2>5, <3>1, Releases, SMTT(30) DEF RepairDone
    <3>2. CASE ~Release(h)
      <4>1. nova'.host = nova.host /\ nova'.task = "none" BY <2>5, <3>2 DEF RepairDone
      <4> QED BY <2>5, <3>2, <4>1, SMTT(30) DEF RepairDone
    <3> QED BY <2>5, <3>1, <3>2
  <2>6. ReleaseRepair(h) => StateInv' BY SMTT(20) DEF ReleaseRepair, Release
  <2>7. BeginPrepared => StateInv' BY SMTT(20) DEF BeginPrepared, Terminal
  <2>8. ConvergePrepared => StateInv' BY SMTT(20) DEF ConvergePrepared, Converge, Owned, Finalized
  <2> QED BY ONLY <1>6, <2>1, <2>2, <2>3, <2>4, <2>5, <2>6, <2>7, <2>8 DEF Repairs
<1>7. CASE GivingUp
  <2>1. BeginRevert => StateInv' BY SMTT(20) DEF BeginRevert
  <2>2. CommitTarget => StateInv' BY SMTT(20) DEF CommitTarget, Published
  <2>3. DestroyTarget => StateInv' BY SMTT(20) DEF DestroyTarget, SharedRoot
  <2>4. ConvergeDestroyed => StateInv' BY SMTT(20) DEF ConvergeDestroyed, Converge, Owned, Finalized
  <2>5. ASSUME LoseTarget PROVE StateInv'
    <3>1. \/ tgt'.state = "stopped" /\ (Goto("target", "dDelete") \/ Goto("target", "raise"))
          \/ tgt'.state = tgt.state /\ Goto("target", "raise")
      <4> PICK p, q : p = Protect(tgt) /\ q = [Protect(tgt) EXCEPT !.state = "stopped"] OBVIOUS
      <4>1. p.state = tgt.state /\ q.state = "stopped" BY <2>5 DEF Protect
      <4> QED BY <2>5, <4>1 DEF LoseTarget
    <3>2. At("target", "dLose") /\ UNCHANGED <<control, src, root, attempt, profiles, volumes>> BY <2>5 DEF LoseTarget
    <3> QED BY <2>5, <3>1, <3>2, SMTT(30)
  <2>6. DeleteLoser => StateInv' BY SMTT(20) DEF DeleteLoser
  <2>7. AcknowledgeTarget => StateInv' BY SMTT(20) DEF AcknowledgeTarget, Acknowledged
  <2>8. StopFinal => StateInv' BY SMTT(20) DEF StopFinal, SharedRoot
  <2>9. FinalDelete => StateInv' BY SMTT(20) DEF FinalDelete, Delete, NoTarget
  <2>10. CastRevert => StateInv' BY SMTT(20) DEF CastRevert
  <2> QED BY ONLY <1>7, <2>1, <2>2, <2>3, <2>4, <2>5, <2>6, <2>7, <2>8, <2>9, <2>10 DEF GivingUp
<1>8. CASE Returning
  <2>1. BeginFinishRevert => StateInv' BY SMTT(20) DEF BeginFinishRevert
  <2>2. ASSUME FinishRevert PROVE StateInv'
    <3>0. At("source", "vStart") /\ UNCHANGED <<control, incus, profiles, volumes>> BY <2>2 DEF FinishRevert
    <3>1. CASE ~sProf.token
      <4>1. Goto("source", "vFail") BY <2>2, <3>1 DEF FinishRevert
      <4> QED BY <2>2, <3>0, <4>1, SMTT(30)
    <3>2. CASE sProf.token /\ sProf.done BY <2>2, <3>2, SMTT(30) DEF FinishRevert
    <3>3. CASE sProf.token /\ ~sProf.done BY <2>2, <3>3, SMTT(30) DEF FinishRevert
    <3> QED BY <2>2, <3>1, <3>2, <3>3
  <2>3. FenceRevert => StateInv' BY SMTT(20) DEF FenceRevert, _abort_migration_attempt, Fenced
  <2>4. CleanRevert => StateInv' BY SMTT(20) DEF CleanRevert, SettleAborted, Protect
  <2>5. CheckTargetGone => StateInv' BY SMTT(20) DEF CheckTargetGone
  <2>6. RestoreOwnership => StateInv' BY SMTT(20) DEF RestoreOwnership, Owned
  <2>7. AttachSource => StateInv' BY SMTT(20) DEF AttachSource
  <2>8. PowerReverted => StateInv' BY SMTT(20) DEF PowerReverted
  <2>9. MarkReverted => StateInv' BY SMTT(20) DEF MarkReverted
  <2>10. RetireRevert => StateInv' BY SMTT(20) DEF RetireRevert, NoTarget
  <2>11. MarkRepair => StateInv' BY SMTT(20) DEF MarkRepair
  <2>12. ASSUME FailRevert PROVE StateInv'
    <3>1. CASE w["source"].op = "initrevert" BY <2>12, <3>1, Releases, SMTT(30) DEF FailRevert
    <3>2. CASE w["source"].op # "initrevert" BY <2>12, <3>2, Raises, SMTT(30) DEF FailRevert
    <3> QED BY <2>12, <3>1, <3>2
  <2>13. ASSUME RevertDone PROVE StateInv'
    <3>1. CASE w["source"].op = "initrevert" BY <2>13, <3>1, Releases, SMTT(30) DEF RevertDone
    <3>2. CASE w["source"].op # "initrevert"
      <4>1. nova'.host = nova.host /\ nova'.task = "none" BY <2>13, <3>2 DEF RevertDone
      <4> QED BY <2>13, <3>2, <4>1, SMTT(30) DEF RevertDone
    <3> QED BY <2>13, <3>1, <3>2
  <2>14. CommitRevert => StateInv' BY SMTT(20) DEF CommitRevert
  <2>15. RecoverReverted => StateInv' BY SMTT(20) DEF RecoverReverted
  <2>16. ReleaseSourceVolumes => StateInv' BY SMTT(20) DEF ReleaseSourceVolumes
  <2> QED BY ONLY <1>8, <2>1, <2>2, <2>3, <2>4, <2>5, <2>6, <2>7, <2>8, <2>9, <2>10, <2>11, <2>12,
      <2>13, <2>14, <2>15, <2>16 DEF Returning
<1>9. ASSUME NEW h \in Hosts, Services(h) PROVE StateInv'
  <2>1. ReleaseReservation => StateInv' BY SMTT(20) DEF ReleaseReservation, Terminal
  <2>2. HardReboot(h) => StateInv' BY SMTT(20) DEF HardReboot
  <2>3. Crash(h) => StateInv' BY SMTT(20) DEF Crash
  <2>4. Restart(h) => StateInv' BY SMTT(20) DEF Restart
  <2> QED BY ONLY <1>9, <2>1, <2>2, <2>3, <2>4 DEF Services
<1>10. CASE UNCHANGED vars BY <1>10 DEF vars
<1> QED BY ONLY [Next]_vars, NextCases, <1>1, <1>2, <1>3, <1>4, <1>5, <1>6, <1>7, <1>8, <1>9, <1>10

-----------------------------------------------------------------------------
(* The refinement.                                                         *)

\* What a step may do to the two records.
Move ==
    \/ src.state' = src.state /\ tgt.state' = tgt.state
    \/ /\ tgt.state' = tgt.state
       /\ \/ src.state = "stopped" /\ src.state' = "running" /\ tgt.state = "absent"
          \/ src.state = "running" /\ src.state' = "stopped"
          \/ src.state = "stopped" /\ src.state' = "absent" /\ Present
    \/ /\ src.state' = src.state /\ src.state # "running"
       /\ \/ tgt.state = "absent" /\ tgt.state' = "partial" /\ src.state = "stopped"
          \/ tgt.state = "partial" /\ tgt.state' = "stopped"
          \/ tgt.state = "stopped" /\ tgt.state' = "running"
          \/ tgt.state = "running" /\ tgt.state' = "stopped"
          \/ tgt.state \in {"partial", "stopped"} /\ tgt.state' = "absent" /\ src.state = "stopped"

\* Every step moves the two records in one of these ways.
LEMMA StepMoves ==
    ASSUME TypeOK, StateInv, [Next]_vars PROVE Move
<1> USE DEF TypeOK, Instance, Record, Work, Hosts, Idle, StateInv, RestoreSteps, ReturnSteps,
       InProgram, ProgramInv, Present, HomeInv, AwayInv, AttemptInv, SourceInv, TargetInv, At, Goto,
       Call, incus, Absent
<1>1. CASE Preparation
  <2>1. BeginMigration => Move BY SMTT(20) DEF Move, BeginMigration
  <2>2. SourceRegister => Move BY SMTT(20) DEF Move, SourceRegister, Register
  <2>3. ForgetGeneration => Move BY SMTT(20) DEF Move, ForgetGeneration
  <2>4. ASSUME StopSource PROVE Move
    <3>1. src.state \in {"stopped", "running"} /\ tgt.state = "absent" BY <2>4 DEF StopSource
    <3>2. tgt' = tgt /\ src'.state \in {src.state, "stopped"} BY <2>4 DEF StopSource
    <3> QED BY <2>4, <3>1, <3>2 DEF Move
  <2>5. DetachVolumes => Move BY SMTT(20) DEF Move, DetachVolumes
  <2>6. HandOff => Move BY SMTT(20) DEF Move, HandOff
  <2> QED BY ONLY <1>1, <2>1, <2>2, <2>3, <2>4, <2>5, <2>6 DEF Preparation
<1>2. CASE TakingBack
  <2>1. FenceTarget => Move BY SMTT(20) DEF Move, FenceTarget, _abort_migration_attempt
  <2>2. ASSUME CleanTarget PROVE Move
    <3>1. src.state \in {"stopped", "running"} /\ tgt.state \in {"absent", "partial"} /\ (tgt.state = "partial" => src.state = "stopped") BY <2>2 DEF CleanTarget
    <3>2. src' = src /\ tgt'.state \in {tgt.state, "absent"} BY <2>2 DEF CleanTarget, SettleAborted, Protect
    <3> QED BY <2>2, <3>1, <3>2 DEF Move
  <2>3. RetireFenced => Move BY SMTT(20) DEF Move, RetireFenced
  <2>4. GiveUp => Move BY SMTT(20) DEF Move, GiveUp
  <2>5. RestoreVolumes => Move BY SMTT(20) DEF Move, RestoreVolumes
  <2>6. MarkRollback => Move BY SMTT(20) DEF Move, MarkRollback
  <2>7. CommitVolumes => Move BY SMTT(20) DEF Move, CommitVolumes
  <2>8. ASSUME RestartSource PROVE Move
    <3>1. src.state \in {"stopped", "running"} /\ tgt.state = "absent" BY <2>8 DEF RestartSource
    <3>2. tgt' = tgt /\ src'.state \in {src.state, "running"} BY <2>8 DEF RestartSource
    <3> QED BY <2>8, <3>1, <3>2 DEF Move
  <2>9. FinalizeFailed => Move BY SMTT(20) DEF Move, FinalizeFailed
  <2>10. OwnSource => Move BY SMTT(20) DEF Move, OwnSource
  <2>11. ASSUME PowerSource PROVE Move
    <3>1. src.state \in {"stopped", "running"} /\ tgt.state = "absent" BY <2>11 DEF PowerSource
    <3>2. tgt' = tgt /\ src'.state \in {src.state, "running"} BY <2>11 DEF PowerSource
    <3> QED BY <2>11, <3>1, <3>2 DEF Move
  <2>12. SaveReverted => Move BY SMTT(20) DEF Move, SaveReverted
  <2>13. SaveInstance => Move BY SMTT(20) DEF Move, SaveInstance
  <2>14. RecoverVolumes => Move BY SMTT(20) DEF Move, RecoverVolumes
  <2>15. RecoverGeneration => Move BY SMTT(20) DEF Move, RecoverGeneration
  <2>16. FinalizeRemote => Move BY SMTT(20) DEF Move, FinalizeRemote
  <2> QED BY ONLY <1>2, <2>1, <2>2, <2>3, <2>4, <2>5, <2>6, <2>7, <2>8, <2>9, <2>10, <2>11, <2>12,
      <2>13, <2>14, <2>15, <2>16 DEF TakingBack
<1>3. CASE Reception
  <2>1. BeginFinish => Move BY SMTT(20) DEF Move, BeginFinish
  <2>2. TargetRegister => Move BY SMTT(20) DEF Move, TargetRegister, Register
  <2>3. CreateProfile => Move BY SMTT(20) DEF Move, CreateProfile
  <2>4. ASSUME CreateTarget PROVE Move
    <3>1. src.state = "stopped" BY <2>4 DEF CreateTarget
    <3>2. attempt = "active" => tgt.state = "absent" OBVIOUS
    <3>3. CASE attempt' = "started" /\ attempt = "active"
      <4> PICK p, q : p = [state |-> "partial", handover |-> "pending"] /\ q = [src EXCEPT !.handover = "pending"] OBVIOUS
      <4>1. p.state = "partial" /\ q.state = src.state OBVIOUS
      <4>2. tgt' = p /\ src' = q BY <2>4, <3>3 DEF CreateTarget
      <4> QED BY <2>4, <3>1, <3>2, <3>3, <4>1, <4>2 DEF Move
    <3>4. CASE ~(attempt' = "started" /\ attempt = "active")
      <4>1. tgt' = tgt /\ src' = src BY <2>4, <3>4, Zenon DEF CreateTarget
      <4> QED BY <2>4, <4>1 DEF Move
    <3> QED BY <2>4, <3>3, <3>4
  <2>5. AwaitReceive => Move BY SMTT(20) DEF Move, AwaitReceive
  <2>6. ReceiveCommits => Move BY SMTT(20) DEF Move, ReceiveCommits
  <2>7. ReceiveFails => Move BY SMTT(20) DEF Move, ReceiveFails
  <2>8. AttachTarget => Move BY SMTT(20) DEF Move, AttachTarget
  <2>9. ASSUME StartTarget PROVE Move
    <3>1. src.state = "stopped" /\ tgt.state = "stopped" BY <2>9 DEF StartTarget
    <3>2. src' = src /\ tgt'.state \in {tgt.state, "running"} BY <2>9 DEF StartTarget
    <3> QED BY <2>9, <3>1, <3>2 DEF Move
  <2>10. FinishResize => Move BY SMTT(20) DEF Move, FinishResize
  <2>11. CommitFormal => Move BY SMTT(20) DEF Move, CommitFormal
  <2>12. RecoverTargetVolumes => Move BY SMTT(20) DEF Move, RecoverTargetVolumes
  <2> QED BY ONLY <1>3, <2>1, <2>2, <2>3, <2>4, <2>5, <2>6, <2>7, <2>8, <2>9, <2>10, <2>11, <2>12 DEF Reception
<1>4. CASE Rollback
  <2>1. FenceFinish => Move BY SMTT(20) DEF Move, FenceFinish, _abort_migration_attempt
  <2>2. ASSUME CleanFinish PROVE Move
    <3>1. src.state \in {"stopped", "running"} /\ tgt.state \in {"absent", "partial"} /\ (tgt.state = "partial" => src.state = "stopped") BY <2>2 DEF CleanFinish
    <3>2. src' = src /\ tgt'.state \in {tgt.state, "absent"} BY <2>2 DEF CleanFinish, SettleAborted, Protect
    <3> QED BY <2>2, <3>1, <3>2 DEF Move
  <2>3. RetainTarget => Move BY SMTT(20) DEF Move, RetainTarget
  <2>4. CleanupFinish => Move BY SMTT(20) DEF Move, CleanupFinish
  <2>5. ManagerRollback => Move BY SMTT(20) DEF Move, ManagerRollback
  <2>6. FenceManager => Move BY SMTT(20) DEF Move, FenceManager, _abort_migration_attempt
  <2>7. ASSUME CleanManager PROVE Move
    <3>1. src.state \in {"stopped", "running"} /\ tgt.state \in {"absent", "partial"} /\ (tgt.state = "partial" => src.state = "stopped") BY <2>7 DEF CleanManager
    <3>2. src' = src /\ tgt'.state \in {tgt.state, "absent"} BY <2>7 DEF CleanManager, SettleAborted, Protect
    <3> QED BY <2>7, <3>1, <3>2 DEF Move
  <2>8. SettleManager => Move BY SMTT(20) DEF Move, SettleManager
  <2>9. RaiseFinish => Move BY SMTT(20) DEF Move, RaiseFinish
  <2> QED BY ONLY <1>4, <2>1, <2>2, <2>3, <2>4, <2>5, <2>6, <2>7, <2>8, <2>9 DEF Rollback
<1>5. ASSUME NEW h \in Hosts, Confirmation(h) PROVE Move
  <2>1. BeginConfirm => Move BY SMTT(20) DEF Move, BeginConfirm
  <2>2. CheckCommitted => Move BY SMTT(20) DEF Move, CheckCommitted
  <2>3. ASSUME DeleteSource PROVE Move
    <3>1. src.state \in {"stopped", "absent"} /\ Present BY <2>3 DEF DeleteSource
    <3>2. tgt' = tgt /\ src'.state \in {src.state, "absent"} BY <2>3 DEF DeleteSource, Protect
    <3> QED BY <2>3, <3>1, <3>2 DEF Move
  <2>4. OwnTarget => Move BY SMTT(20) DEF Move, OwnTarget, Owned
  <2>5. QueueRepair => Move BY SMTT(20) DEF Move, QueueRepair
  <2>6. FinalizeTarget => Move BY SMTT(20) DEF Move, FinalizeTarget
  <2>7. CleanupSource => Move BY SMTT(20) DEF Move, CleanupSource
  <2>8. RaiseConfirm => Move BY SMTT(20) DEF Move, RaiseConfirm
  <2>9. RecoverCleanup(h) => Move BY SMTT(20) DEF Move, RecoverCleanup
  <2> QED BY ONLY <1>5, <2>1, <2>2, <2>3, <2>4, <2>5, <2>6, <2>7, <2>8, <2>9 DEF Confirmation
<1>6. ASSUME NEW h \in Hosts, Repairs(h) PROVE Move
  <2>1. BeginRepair(h) => Move BY SMTT(20) DEF Move, BeginRepair
  <2>2. RepairOwn(h) => Move BY SMTT(20) DEF Move, RepairOwn, Owned
  <2>3. ASSUME RepairRuntime(h) PROVE Move
    <3>1. CASE h = "source"
      <4>1. src.state \in {"stopped", "running"} /\ tgt.state = "absent" BY <2>3, <3>1 DEF RepairRuntime, Rerun
      <4>2. tgt' = tgt /\ src'.state \in {src.state, "stopped", "running"} BY <2>3, <3>1 DEF RepairRuntime, Rerun
      <4> QED BY <2>3, <4>1, <4>2 DEF Move
    <3>2. CASE h = "target"
      <4>1. src.state # "running" /\ Present BY <2>3, <3>2 DEF RepairRuntime, Rerun
      <4>2. src' = src /\ tgt'.state \in {tgt.state, "stopped", "running"} BY <2>3, <3>2 DEF RepairRuntime, Rerun
      <4> QED BY <2>3, <4>1, <4>2 DEF Move
    <3> QED BY <2>3, <3>1, <3>2
  <2>4. RepairStaging => Move BY SMTT(20) DEF Move, RepairStaging
  <2>5. RepairDone(h) => Move BY SMTT(20) DEF Move, RepairDone
  <2>6. ReleaseRepair(h) => Move BY SMTT(20) DEF Move, ReleaseRepair
  <2>7. BeginPrepared => Move BY SMTT(20) DEF Move, BeginPrepared
  <2>8. ConvergePrepared => Move BY SMTT(20) DEF Move, ConvergePrepared, Converge, Owned
  <2> QED BY ONLY <1>6, <2>1, <2>2, <2>3, <2>4, <2>5, <2>6, <2>7, <2>8 DEF Repairs
<1>7. CASE GivingUp
  <2>1. BeginRevert => Move BY SMTT(20) DEF Move, BeginRevert
  <2>2. CommitTarget => Move BY SMTT(20) DEF Move, CommitTarget
  <2>3. DestroyTarget => Move BY SMTT(20) DEF Move, DestroyTarget, SharedRoot
  <2>4. ConvergeDestroyed => Move BY SMTT(20) DEF Move, ConvergeDestroyed, Converge, Owned
  <2>5. ASSUME LoseTarget PROVE Move
    <3>1. src.state = "stopped" /\ Present BY <2>5 DEF LoseTarget
    <3>2. src' = src /\ tgt'.state \in {tgt.state, "stopped"} BY <2>5 DEF LoseTarget, Protect
    <3> QED BY <2>5, <3>1, <3>2 DEF Move
  <2>6. ASSUME DeleteLoser PROVE Move
    <3>1. src.state = "stopped" /\ tgt.state = "stopped" BY <2>6 DEF DeleteLoser
    <3>2. src' = src /\ tgt'.state \in {tgt.state, "absent"} BY <2>6 DEF DeleteLoser
    <3> QED BY <2>6, <3>1, <3>2 DEF Move
  <2>7. AcknowledgeTarget => Move BY SMTT(20) DEF Move, AcknowledgeTarget
  <2>8. ASSUME StopFinal PROVE Move
    <3>1. src.state = "stopped" /\ tgt.state \in {"absent", "stopped", "running"} BY <2>8 DEF StopFinal
    <3>2. src' = src /\ tgt'.state \in (IF tgt.state = "absent" THEN {"absent"} ELSE {tgt.state, "stopped"}) BY <2>8 DEF StopFinal
    <3> QED BY <2>8, <3>1, <3>2 DEF Move
  <2>9. ASSUME FinalDelete PROVE Move
    <3>1. src.state = "stopped" /\ tgt.state \in {"absent", "stopped"} BY <2>9 DEF FinalDelete
    <3>2. src' = src /\ tgt'.state \in {tgt.state, "absent"} BY <2>9 DEF FinalDelete, Delete
    <3> QED BY <2>9, <3>1, <3>2 DEF Move
  <2>10. CastRevert => Move BY SMTT(20) DEF Move, CastRevert
  <2> QED BY ONLY <1>7, <2>1, <2>2, <2>3, <2>4, <2>5, <2>6, <2>7, <2>8, <2>9, <2>10 DEF GivingUp
<1>8. CASE Returning
  <2>1. BeginFinishRevert => Move BY SMTT(20) DEF Move, BeginFinishRevert
  <2>2. FinishRevert => Move BY SMTT(20) DEF Move, FinishRevert
  <2>3. FenceRevert => Move BY SMTT(20) DEF Move, FenceRevert, _abort_migration_attempt
  <2>4. ASSUME CleanRevert PROVE Move
    <3>1. src.state \in {"stopped", "running"} /\ tgt.state \in {"absent", "partial"} /\ (tgt.state = "partial" => src.state = "stopped") BY <2>4 DEF CleanRevert
    <3>2. src' = src /\ tgt'.state \in {tgt.state, "absent"} BY <2>4 DEF CleanRevert, SettleAborted, Protect
    <3> QED BY <2>4, <3>1, <3>2 DEF Move
  <2>5. CheckTargetGone => Move BY SMTT(20) DEF Move, CheckTargetGone
  <2>6. RestoreOwnership => Move BY SMTT(20) DEF Move, RestoreOwnership, Owned
  <2>7. AttachSource => Move BY SMTT(20) DEF Move, AttachSource
  <2>8. ASSUME PowerReverted PROVE Move
    <3>1. src.state \in {"stopped", "running"} /\ tgt.state = "absent" BY <2>8 DEF PowerReverted
    <3>2. tgt' = tgt /\ src'.state \in {src.state, "running"} BY <2>8 DEF PowerReverted
    <3> QED BY <2>8, <3>1, <3>2 DEF Move
  <2>9. MarkReverted => Move BY SMTT(20) DEF Move, MarkReverted
  <2>10. RetireRevert => Move BY SMTT(20) DEF Move, RetireRevert
  <2>11. MarkRepair => Move BY SMTT(20) DEF Move, MarkRepair
  <2>12. FailRevert => Move BY SMTT(20) DEF Move, FailRevert
  <2>13. RevertDone => Move BY SMTT(20) DEF Move, RevertDone
  <2>14. CommitRevert => Move BY SMTT(20) DEF Move, CommitRevert
  <2>15. RecoverReverted => Move BY SMTT(20) DEF Move, RecoverReverted
  <2>16. ReleaseSourceVolumes => Move BY SMTT(20) DEF Move, ReleaseSourceVolumes
  <2> QED BY ONLY <1>8, <2>1, <2>2, <2>3, <2>4, <2>5, <2>6, <2>7, <2>8, <2>9, <2>10, <2>11, <2>12,
      <2>13, <2>14, <2>15, <2>16 DEF Returning
<1>9. ASSUME NEW h \in Hosts, Services(h) PROVE Move
  <2>1. ReleaseReservation => Move BY SMTT(20) DEF Move, ReleaseReservation
  <2>2. HardReboot(h) => Move BY SMTT(20) DEF Move, HardReboot
  <2>3. Crash(h) => Move BY SMTT(20) DEF Move, Crash
  <2>4. Restart(h) => Move BY SMTT(20) DEF Move, Restart
  <2> QED BY ONLY <1>9, <2>1, <2>2, <2>3, <2>4 DEF Services
<1>10. CASE UNCHANGED vars BY <1>10 DEF vars, Move
<1> QED BY ONLY [Next]_vars, NextCases, <1>1, <1>2, <1>3, <1>4, <1>5, <1>6, <1>7, <1>8, <1>9, <1>10

\* Before the migration the source has the only record, and runs.
LEMMA RefinesInit == Init => Handover!Init
BY DEF Init, Handover!Init, Absent

\* Each move is a step of the abstract handover, or a stutter.
LEMMA Refines == ASSUME TypeOK, TypeOK', StateInv, Move PROVE [Handover!Next]_Handover!vars
<1>1. CASE src.state' = src.state /\ tgt.state' = tgt.state BY <1>1 DEF Handover!vars
<1>2. CASE tgt.state' = tgt.state /\ src.state = "stopped" /\ src.state' = "running" /\ tgt.state = "absent"
  <2>1. Handover!Start("source") BY <1>2 DEF Handover!Start
  <2> QED BY <2>1 DEF Handover!Next, Hosts
<1>3. CASE tgt.state' = tgt.state /\ src.state = "running" /\ src.state' = "stopped"
  <2>0. tgt.state = "absent" BY <1>3 DEF StateInv, HomeInv, AwayInv, TypeOK, Hosts, Instance
  <2>1. Handover!Stop("source") BY <1>3, <2>0 DEF Handover!Stop
  <2> QED BY <2>1 DEF Handover!Next, Hosts
<1>4. CASE tgt.state' = tgt.state /\ src.state = "stopped" /\ src.state' = "absent" /\ Present
  <2>1. Handover!Forget("source") BY <1>4 DEF Handover!Forget, Present
  <2> QED BY <2>1 DEF Handover!Next, Hosts
<1>5. CASE src.state' = src.state /\ src.state = "stopped" /\ tgt.state = "absent" /\ tgt.state' = "partial"
  <2>1. Handover!Receive("target") BY <1>5 DEF Handover!Receive
  <2> QED BY <2>1 DEF Handover!Next, Hosts
<1>6. CASE src.state' = src.state /\ tgt.state = "partial" /\ tgt.state' = "stopped" BY <1>6 DEF Handover!vars
<1>7. CASE src.state' = src.state /\ src.state # "running" /\ tgt.state = "stopped" /\ tgt.state' = "running"
  <2>1. Handover!Start("target") BY <1>7 DEF Handover!Start
  <2> QED BY <2>1 DEF Handover!Next, Hosts
<1>8. CASE src.state' = src.state /\ src.state # "running" /\ tgt.state = "running" /\ tgt.state' = "stopped"
  <2>1. Handover!Stop("target") BY <1>8 DEF Handover!Stop
  <2> QED BY <2>1 DEF Handover!Next, Hosts
<1>9. CASE /\ src.state' = src.state /\ src.state = "stopped"
           /\ tgt.state \in {"partial", "stopped"} /\ tgt.state' = "absent"
  <2>1. Handover!Forget("target") BY <1>9 DEF Handover!Forget
  <2> QED BY <2>1 DEF Handover!Next, Hosts
<1> QED BY <1>1, <1>2, <1>3, <1>4, <1>5, <1>6, <1>7, <1>8, <1>9 DEF Move

-----------------------------------------------------------------------------
(* Theorems.                                                               *)

\* Before the first migration the invariant holds.
LEMMA InitInv == Init => Inv
<1> SUFFICES ASSUME Init PROVE Inv OBVIOUS
<1>1. TypeOK
  <2>1. w \in [Hosts -> Work] BY Idles DEF Init
  <2>2. sProf \in SourceProfile /\ tProf \in TargetProfile
    BY DEF Init, SourceProfile, TargetProfile, NoSource, NoTarget
  <2>3. src \in Record /\ tgt \in Record BY DEF Init, Record, Absent
  <2>4. nova \in Instance BY DEF Init, Instance, Hosts
  <2>5. up \in [Hosts -> BOOLEAN] BY DEF Init
  <2>6. status = "none" /\ root = TRUE /\ attempt = "none" /\ sVol = "exact" /\ tVol = "exact"
        /\ seen = FALSE /\ faults = 0
    BY DEF Init
  <2>7. faults \in 0..MaxFaults BY <2>6, FaultsAssumption
  <2> QED BY <2>1, <2>2, <2>3, <2>4, <2>5, <2>6, <2>7, Zenon DEF TypeOK
<1>2. StateInv
  BY DEF Init, StateInv, Hosts, Idle, InProgram, ProgramInv, Present, HomeInv, AwayInv, AttemptInv,
     SourceInv, TargetInv, EvidenceInv, EvidenceHasOwner, WholeInv, OwnerInv, RestoreSteps,
     ReturnSteps, Absent, NoSource, NoTarget
<1> QED BY <1>1, <1>2 DEF Inv

\* Whatever call, crash, restart or periodic pass comes next, every migration
\* keeps the invariant.
THEOREM Invariance == Spec => []Inv
<1>1. Inv /\ [Next]_vars => Inv' BY StepTypes, StepKeeps DEF Inv
<1> QED BY InitInv, <1>1, PTL DEF Spec

\* Profiles, markers, attempts, workers and Nova's records keep their types.
THEOREM TypeCorrect == Spec => []TypeOK
<1>1. Inv => TypeOK BY DEF Inv
<1> QED BY Invariance, <1>1, PTL

\* The guest runs on the source only while no other record of it exists: no
\* restart, rollback or revert starts it beside a record on the target.
THEOREM SourceAlone == Spec => []RunningSourceIsAlone
<1>1. Inv => RunningSourceIsAlone
  BY DEF Inv, TypeOK, Instance, Hosts, StateInv, HomeInv, AwayInv, RunningSourceIsAlone
<1> QED BY Invariance, <1>1, PTL

\* A migration that Nova reports as reverted or confirmed left one whole owner
\* of the root, or a durable mark that asks the repair for it.
THEOREM Whole == Spec => []ClosedMigrationIsWhole
<1>1. Inv => ClosedMigrationIsWhole
  <2> SUFFICES ASSUME Inv PROVE ClosedMigrationIsWhole OBVIOUS
  <2> USE DEF Inv, TypeOK, Instance, Hosts, StateInv, HomeInv, AwayInv, WholeInv, OwnerInv, Present
  <2>1. status = "reverted" /\ nova.host = "source" /\ nova.task = "none" =>
            tgt.state = "absent" /\ src.handover = "none" /\ root
    OBVIOUS
  <2>2. status = "confirmed" =>
            /\ src.state = "absent" /\ tgt.state # "absent" /\ root
            /\ tgt.handover = "none" \/ tProf.repair \/ tProf.prepared
    OBVIOUS
  <2> QED BY ONLY <2>1, <2>2 DEF ClosedMigrationIsWhole
<1> QED BY Invariance, <1>1, PTL

\* The token of a source generation outlives its last restore intent, so that
\* the startup scan still finds the generation the intent belongs to.
THEOREM EvidenceOwned == Spec => []EvidenceHasOwner
<1>1. Inv => EvidenceHasOwner BY DEF Inv, StateInv, EvidenceInv
<1> QED BY Invariance, <1>1, PTL

\* With every crash, lost answer and repair, the two daemons' records only ever
\* do what the handover of one root volume allows.
THEOREM Refinement == Spec => Implements
<1>1. Inv /\ Inv' /\ [Next]_vars => [Handover!Next]_Handover!vars
  BY StepMoves, Refines DEF Inv
<1> QED BY Invariance, RefinesInit, <1>1, PTL DEF Spec, Implements, Handover!Spec
=============================================================================
