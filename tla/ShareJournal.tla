----------------------------- MODULE ShareJournal -----------------------------
(***************************************************************************)
(* The Manila shares of one instance on two computes.                      *)
(*                                                                         *)
(* A share is staged on a host by a mount, and offered to the guest by a   *)
(* device of the instance's Incus profile.  A host journal owns the mount  *)
(* from before mount(2) until the profile is known to hold the device, and *)
(* again from the start of a detach until the mount is gone.  The owner of *)
(* a journal is the share mapping, or the token of a migration that stages *)
(* the share on its target.  A transaction reads the mount table once, at  *)
(* its beginning, and works from that copy.                                *)
(*                                                                         *)
(* Nova runs one operation on the instance at a time ("main"), a removal   *)
(* of a share beside it ("deny"), and a late or a periodic cleanup of a    *)
(* host ("sweep"), of which there is one at a time.                        *)
(* The phase of a journal is never read back by the code and is left out.  *)
(***************************************************************************)
EXTENDS Naturals, FiniteSets

CONSTANTS Shares,      \* Manila shares of the instance
          Tokens,      \* migrations, by cleanup token
          MaxFaults    \* bound: failed calls, crashes and reboots

ASSUME TokensAssumption == Tokens \cap {"mapping", "none"} = {}
ASSUME FaultsAssumption == MaxFaults \in Nat

Hosts == {"a", "b"}
Other(h) == IF h = "a" THEN "b" ELSE "a"
None == "none"
Owners == {"mapping", None} \cup Tokens
Threads == {"main", "deny", "sweep"}

VARIABLES
    nova,      \* the instance: [host, task, vm, mig, cold, repair]
    mapping,   \* status of each share mapping
    mig,       \* status of each migration
    late,      \* the call to the former host that Nova has sent: [op, at, owner]
    mounts,    \* per host: staged shares that are mounted
    journal,   \* per host and share: owner of the staging journal
    profile,   \* per host: the instance's profile; "live" has its container,
               \* "prepared" awaits it, "bare" has lost it; "cleanup" is a bare
               \* and "failed" a prepared one that is marked for cleanup
    devices,   \* per host: share devices of the profile
    guest,     \* per host: the container runs
    thread,    \* the operations under way
    faults
control == <<nova, mapping, mig, late>>
host == <<mounts, journal, profile, devices, guest>>
vars == <<control, host, thread, faults>>

Mapped == {s \in Shares : mapping[s] # "none"}

Idle == [op |-> "idle", pc |-> "idle", at |-> "a", cur |-> None, todo |-> {},
         snap |-> {}, done |-> {}, owner |-> None, part |-> None, new |-> FALSE, ok |-> TRUE,
         held |-> [s \in Shares |-> None]]
Work(op, pc, h, todo, owner) ==
    [Idle EXCEPT !.op = op, !.pc = pc, !.at = h, !.todo = todo, !.owner = owner,
                 !.snap = mounts[h]]
Step(t, r) == thread' = [thread EXCEPT ![t] = r]

Call(op, h, o) == [op |-> op, at |-> h, owner |-> o]
NoCall == Call("none", "a", None)

TypeOK ==
    /\ nova \in [host : Hosts,
                 task : {"none", "starting", "stopping", "migrating", "finishing",
                         "confirming", "reverting", "repairing"},
                 vm : {"active", "stopped", "resized", "error"},
                 mig : Tokens \cup {None}, cold : BOOLEAN, repair : BOOLEAN]
    /\ mapping \in [Shares -> {"active", "inactive", "detaching", "error", "none"}]
    /\ mig \in [Tokens -> {"unused", "running", "terminal"}]
    /\ mounts \in [Hosts -> SUBSET Shares] /\ devices \in [Hosts -> SUBSET Shares]
    /\ journal \in [Hosts -> [Shares -> Owners]]
    /\ profile \in [Hosts -> {None, "live", "bare", "prepared", "cleanup", "failed"}]
    /\ \A h \in Hosts : devices[h] # {} => profile[h] # None
    /\ late \in [op : {"none", "source", "rollback"}, at : Hosts, owner : Owners]
    /\ guest \in [Hosts -> BOOLEAN] /\ faults \in 0..MaxFaults
    /\ \A t \in Threads :
        /\ thread[t].at \in Hosts /\ thread[t].owner \in Owners
        /\ thread[t].cur \in Shares \cup {None}
        /\ thread[t].todo \cup thread[t].snap \cup thread[t].done \subseteq Shares

\* A stopped instance of compute a, its shares granted and not yet staged.
Init ==
    /\ nova = [host |-> "a", task |-> "none", vm |-> "stopped", mig |-> None,
               cold |-> FALSE, repair |-> FALSE]
    /\ mapping = [s \in Shares |-> "inactive"]
    /\ mig = [m \in Tokens |-> "unused"]
    /\ mounts = [h \in Hosts |-> {}] /\ devices = [h \in Hosts |-> {}]
    /\ journal = [h \in Hosts |-> [s \in Shares |-> None]]
    /\ profile = [h \in Hosts |-> IF h = "a" THEN "live" ELSE None]
    /\ guest = [h \in Hosts |-> FALSE]
    /\ late = NoCall /\ thread = [t \in Threads |-> Idle] /\ faults = 0

Fault == faults < MaxFaults /\ faults' = faults + 1
NoFault == UNCHANGED faults

Owns(h, s, o) == journal[h][s] = o
Write(h, s, o) == journal' = [journal EXCEPT ![h][s] = o]

\* The lock of one share on one host is held by the call that works on it.
InCall == {"mount", "attach", "unjournal", "detach", "umount", "remove"}
Free(t, s) == \A u \in Threads \ {t} :
    ~(thread[u].at = thread[t].at /\ thread[u].cur = s /\ thread[u].pc \in InCall)

Returned(t) == [thread[t] EXCEPT !.pc = "next"]
Goes(t, pc) == Step(t, [thread[t] EXCEPT !.pc = pc])
Fails(t) == Goes(t, "failed")

-----------------------------------------------------------------------------
(* Mounting: _mount_share_locked, and _stage_share_mount_locked alone when *)
(* a migration stages the share before its target has a profile.           *)

\* The journal is claimed for this owner or found to be its own.
Claim(t, s) ==
    LET r == thread[t]  h == thread[t].at
        taken == [r EXCEPT !.cur = s, !.todo = @ \ {s}, !.new = FALSE,
                           !.done = IF r.op = "stage" THEN @ \cup {s} ELSE @]
        next == IF s \notin r.snap THEN "mount"
                ELSE IF r.op = "stage" THEN "next" ELSE "attach"
    IN  /\ r.op \in {"start", "stage"} /\ r.pc = "next" /\ s \in r.todo /\ Free(t, s)
        /\ IF journal[h][s] \in {None, r.owner}
           THEN Write(h, s, r.owner) /\ Step(t, [taken EXCEPT !.pc = next])
           ELSE Step(t, [taken EXCEPT !.pc = "failed"]) /\ UNCHANGED journal
        /\ UNCHANGED <<control, mounts, profile, devices, guest, faults>>

\* Mutant: a mount that failed drops the journal.
Mount_Unjournaled(t) ==
    LET r == thread[t]  h == thread[t].at  s == thread[t].cur
        mounted == [mounts EXCEPT ![h] = @ \cup {s}]
    IN  /\ r.pc = "mount"
        /\ \/ /\ s \notin mounts[h] /\ journal[h][s] \in {None, r.owner}
              /\ mounts' = mounted /\ Write(h, s, r.owner) /\ NoFault
              /\ Step(t, [r EXCEPT !.pc = IF r.op = "stage" THEN "next" ELSE "attach",
                                   !.snap = @ \cup {s}, !.new = TRUE])
           \/ s \in mounts[h] /\ Fails(t) /\ NoFault /\ UNCHANGED <<mounts, journal>>
           \/ mounts' \in {mounts, mounted} /\ Fails(t) /\ Fault /\ Write(h, s, None)
        /\ UNCHANGED <<control, profile, devices, guest>>
\* A mount that times out may have been done.  The journal is written again
\* once the share is mounted.
Mount(t) ==
    LET r == thread[t]  h == thread[t].at  s == thread[t].cur
        mounted == [mounts EXCEPT ![h] = @ \cup {s}]
    IN  /\ r.pc = "mount"
        /\ \/ /\ s \notin mounts[h] /\ journal[h][s] \in {None, r.owner}
              /\ mounts' = mounted /\ Write(h, s, r.owner) /\ NoFault
              /\ Step(t, [r EXCEPT !.pc = IF r.op = "stage" THEN "next" ELSE "attach",
                                   !.snap = @ \cup {s}, !.new = TRUE])
           \/ s \in mounts[h] /\ Fails(t) /\ NoFault /\ UNCHANGED <<mounts, journal>>
           \/ mounts' \in {mounts, mounted} /\ Fails(t) /\ Fault /\ UNCHANGED journal
        /\ UNCHANGED <<control, profile, devices, guest>>

\* Mutant: the mount point is not looked at before the device is saved.
Attach_Unchecked(t) ==
    LET r == thread[t]  h == thread[t].at  s == thread[t].cur
        attached == [devices EXCEPT ![h] = @ \cup {s}]
    IN  /\ r.pc = "attach"
        /\ IF profile[h] = None
           THEN Step(t, [r EXCEPT !.pc = "umount", !.ok = FALSE]) /\ NoFault /\ UNCHANGED devices
           ELSE \/ /\ devices' = attached /\ NoFault
                   /\ Step(t, [r EXCEPT !.pc = "unjournal", !.new = @ \/ s \notin devices[h]])
                \/ devices' \in {devices, attached} /\ Fails(t) /\ Fault
        /\ UNCHANGED <<control, mounts, journal, profile, guest>>
\* The device is saved; after a failed save the profile is read back.  The
\* mount is undone only where there is no profile.
Attach(t) ==
    LET r == thread[t]  h == thread[t].at  s == thread[t].cur
        attached == [devices EXCEPT ![h] = @ \cup {s}]
    IN  /\ r.pc = "attach"
        /\ IF profile[h] = None
           THEN Step(t, [r EXCEPT !.pc = "umount", !.ok = FALSE]) /\ NoFault /\ UNCHANGED devices
           ELSE IF s \notin mounts[h]
           THEN Fails(t) /\ NoFault /\ UNCHANGED devices
           ELSE \/ /\ devices' = attached /\ NoFault
                   /\ Step(t, [r EXCEPT !.pc = "unjournal", !.new = @ \/ s \notin devices[h]])
                \/ devices' \in {devices, attached} /\ Fails(t) /\ Fault
        /\ UNCHANGED <<control, mounts, journal, profile, guest>>

\* The profile is durable: the journal goes, and the transaction changed s.
Unjournal(t) ==
    LET r == thread[t]  h == thread[t].at  s == thread[t].cur
    IN  /\ r.pc = "unjournal"
        /\ \/ /\ Write(h, s, None) /\ NoFault
              /\ Step(t, [r EXCEPT !.pc = "next", !.cur = None, !.new = FALSE,
                                !.done = IF r.new THEN @ \cup {s} ELSE @])
           \/ Fails(t) /\ Fault /\ UNCHANGED journal
        /\ UNCHANGED <<control, mounts, profile, devices, guest>>

-----------------------------------------------------------------------------
(* Unmounting: _umount_share_locked, and _unstage_share_mount_locked alone *)
(* when a migration gives up what it staged.                               *)

\* A detach takes the journal again before it touches the profile.
Reclaim(t, s) ==
    LET r == thread[t]  h == thread[t].at
        taken == [r EXCEPT !.cur = s, !.todo = @ \ {s}]
    IN  /\ r.op \in {"stop", "undo", "deny"} /\ r.pc = "next" /\ s \in r.todo /\ Free(t, s)
        /\ IF journal[h][s] \in {None, "mapping"}
           THEN Write(h, s, "mapping") /\ Step(t, [taken EXCEPT !.pc = "detach"])
           ELSE Step(t, [taken EXCEPT !.pc = "failed"]) /\ UNCHANGED journal
        /\ UNCHANGED <<control, mounts, profile, devices, guest, faults>>

Detach(t) ==
    LET h == thread[t].at  s == thread[t].cur
        detached == [devices EXCEPT ![h] = @ \ {s}]
    IN  /\ thread[t].pc = "detach"
        /\ \/ devices' = detached /\ Goes(t, "umount") /\ NoFault
           \/ s \in devices[h] /\ devices' \in {devices, detached} /\ Fails(t) /\ Fault
        /\ UNCHANGED <<control, mounts, journal, profile, guest>>

\* Only a mount with the journal of this migration is undone.
Unstage(t, s) ==
    LET r == thread[t]  h == thread[t].at
        foreign == \/ journal[h][s] \notin {None, r.owner}
                   \/ journal[h][s] = None /\ s \in r.snap
    IN  /\ r.op = "unstage" /\ r.pc = "next" /\ s \in r.todo /\ Free(t, s)
        /\ Step(t, [r EXCEPT !.cur = s, !.todo = @ \ {s},
                             !.pc = IF foreign THEN "failed" ELSE "umount"])
        /\ UNCHANGED <<control, host, faults>>

\* By the copy of the table: a mount it does not show makes rmdir fail.
Umount(t) ==
    LET r == thread[t]  h == thread[t].at  s == thread[t].cur
        unmounted == [mounts EXCEPT ![h] = @ \ {s}]
    IN  /\ r.pc = "umount"
        /\ \/ /\ (s \in r.snap) = (s \in mounts[h])
              /\ mounts' = unmounted /\ NoFault
              /\ Step(t, [r EXCEPT !.pc = "remove", !.snap = @ \ {s}])
           \/ /\ (s \in r.snap) # (s \in mounts[h])
              /\ Fails(t) /\ NoFault /\ UNCHANGED mounts
           \/ s \in r.snap /\ mounts' \in {mounts, unmounted} /\ Fails(t) /\ Fault
        /\ UNCHANGED <<control, journal, profile, devices, guest>>

RemoveJournal(t) ==
    LET h == thread[t].at  s == thread[t].cur
    IN  /\ thread[t].pc = "remove"
        /\ Write(h, s, None) /\ IF thread[t].ok THEN Goes(t, "next") ELSE Fails(t)
        /\ UNCHANGED <<control, mounts, profile, devices, guest, faults>>

-----------------------------------------------------------------------------
(* Power on: _mount_all_shares, which undoes what it changed.              *)

\* Nova refuses while the status of a mapping says that it is being removed.
Begin(task) ==
    nova.task = "none" /\ thread["main"] = Idle /\ nova' = [nova EXCEPT !.task = task]
Starting(h) == Work("start", "next", h, Mapped, "mapping")
BeginStart ==
    /\ nova.vm = "stopped" /\ \A s \in Shares : mapping[s] # "detaching"
    /\ Begin("starting") /\ Step("main", Starting(nova.host))
    /\ UNCHANGED <<late, mapping, mig, host, faults>>

\* The guest starts on what is mounted.  A failed start leaves it stopped;
\* the instance is not saved over an error set meanwhile.
Started ==
    LET r == thread["main"]
    IN  /\ r.op = "start" /\ r.pc = "next" /\ r.todo = {}
        /\ \/ /\ guest' = [guest EXCEPT ![r.at] = TRUE] /\ NoFault
              /\ mapping' = [s \in Shares |-> IF mapping[s] = "none" THEN "none" ELSE "active"]
              /\ nova' = IF nova.task = "none" THEN nova
                         ELSE [nova EXCEPT !.task = "none", !.vm = "active", !.mig = None, !.cold = FALSE]
              /\ mig' = IF nova.task = "reverting" THEN [mig EXCEPT ![nova.mig] = "terminal"]
                                                   ELSE mig
           \/ /\ nova.task = "starting" /\ Fault
              /\ nova' = [nova EXCEPT !.task = "none", !.vm = "stopped"]
              /\ UNCHANGED <<guest, mapping, mig>>
        /\ Step("main", Idle)
        /\ UNCHANGED <<late, mounts, journal, profile, devices>>

InError == [nova EXCEPT !.task = "none", !.vm = "error", !.mig = None, !.cold = FALSE, !.repair = FALSE]
Errored == IF nova.mig = None THEN mig ELSE [mig EXCEPT ![nova.mig] = "terminal"]
StartFailed ==
    LET r == thread["main"]
    IN  /\ r.op = "start" /\ r.pc = "failed"
        /\ mapping' = [mapping EXCEPT ![r.cur] = "error"] /\ nova' = InError /\ mig' = Errored
        /\ Step("main", [r EXCEPT !.op = "undo", !.pc = "next", !.todo = r.done, !.ok = TRUE])
        /\ UNCHANGED <<late, host, faults>>

\* The undo of a start tries each share it changed; so does an unstage.
UndoFailed ==
    /\ thread["main"].op \in {"undo", "unstage"} /\ thread["main"].pc = "failed"
    /\ Step("main", Returned("main"))
    /\ UNCHANGED <<control, host, faults>>
Undone ==
    /\ thread["main"].op = "undo" /\ thread["main"].pc = "next" /\ thread["main"].todo = {}
    /\ Step("main", Idle)
    /\ UNCHANGED <<control, host, faults>>

(* Power off: the container stops, then _umount_all_shares tries every     *)
(* share.                                                                  *)
Stopping(h) == Work("stop", "next", h, Mapped, "mapping")
BeginStop ==
    /\ nova.vm \in {"active", "error"} /\ profile[nova.host] = "live"
    /\ \A s \in Shares : mapping[s] # "detaching"
    /\ Begin("stopping") /\ Step("main", Stopping(nova.host))
    /\ guest' = [guest EXCEPT ![nova.host] = FALSE]
    /\ mapping' = [s \in Shares |-> IF mapping[s] = "none" THEN "none" ELSE "inactive"]
    /\ UNCHANGED <<late, mig, mounts, journal, profile, devices, faults>>
StopFailed ==
    LET r == thread["main"]
    IN  /\ r.op = "stop" /\ r.pc = "failed"
        /\ Step("main", [r EXCEPT !.pc = "next", !.done = @ \cup {r.cur}])
        /\ UNCHANGED <<control, host, faults>>
Stopped ==
    LET r == thread["main"]
    IN  /\ r.op = "stop" /\ r.pc = "next" /\ r.todo = {}
        /\ mapping' = [s \in Shares |-> IF s \in r.done THEN "error" ELSE mapping[s]]
        /\ nova' = [nova EXCEPT !.task = "none", !.vm = IF r.done = {} THEN "stopped" ELSE "error"]
        /\ Step("main", Idle)
        /\ UNCHANGED <<late, mig, host, faults>>

(* Removal of a share: _pre_deny_share before Manila revokes the rule.     *)

\* The API has looked at the instance before, and a start may have begun since.
BeginDeny(s) ==
    /\ thread["deny"] = Idle /\ mapping[s] # "none"
    /\ nova.task \in {"none", "starting"} /\ nova.vm \in {"stopped", "error"}
    /\ mapping' = [mapping EXCEPT ![s] = "detaching"]
    /\ Step("deny", Work("deny", "next", nova.host, {s}, "mapping"))
    /\ UNCHANGED <<nova, mig, late, host, faults>>
Denied ==
    LET r == thread["deny"]
    IN  /\ r.op = "deny" /\ r.pc = "next" /\ r.todo = {}
        /\ mapping' = [mapping EXCEPT ![r.cur] = "none"]
        /\ Step("deny", Idle)
        /\ UNCHANGED <<late, nova, mig, host, faults>>
DenyFailed ==
    LET r == thread["deny"]
    IN  /\ r.op = "deny" /\ r.pc = "failed"
        /\ mapping' = [mapping EXCEPT ![r.cur] = "error"]
        /\ nova' = [nova EXCEPT !.task = "none", !.vm = "error"]
        /\ Step("deny", Idle)
        /\ UNCHANGED <<late, mig, host, faults>>

-----------------------------------------------------------------------------
(* The cleanup of one host: _cleanup works through the devices of the      *)
(* profile, then through the journals that are left, and deletes the       *)
(* profile if nothing failed and no instance uses it.  A host without a    *)
(* profile has only journals.                                              *)

Cleaning(h, op) == Work(op, "profile", h, devices[h], None)

\* The records of one owner are read: a record of another owner is an error.
Records(h, o) == {s \in Shares : journal[h][s] # None /\ o \in {None, journal[h][s]}}
Mixed(h, o) == o # None /\ \E s \in Shares : journal[h][s] \notin {None, o}
Journaled(h, op, o) ==
    [Work(op, "records", h, IF Mixed(h, o) THEN {} ELSE Records(h, o), o)
        EXCEPT !.ok = ~Mixed(h, o), !.held = journal[h]]

Cleaned(r) == [r EXCEPT !.cur = None, !.pc = r.part]
CleanUmount(t, s) ==
    LET r == thread[t]  h == thread[t].at
        unmounted == [mounts EXCEPT ![h] = @ \ {s}]
        taken == [r EXCEPT !.todo = @ \ {s}]
    IN  /\ r.pc \in {"profile", "records"} /\ s \in r.todo
        /\ \/ /\ (s \in r.snap) = (s \in mounts[h])
              /\ mounts' = unmounted /\ NoFault
              /\ Step(t, [taken EXCEPT !.cur = s, !.pc = "forget", !.part = r.pc])
           \/ /\ (s \in r.snap) # (s \in mounts[h])
              /\ Step(t, [taken EXCEPT !.ok = FALSE]) /\ NoFault /\ UNCHANGED mounts
           \/ /\ s \in r.snap /\ mounts' \in {mounts, unmounted} /\ Fault
              /\ Step(t, [taken EXCEPT !.ok = FALSE])
        /\ UNCHANGED <<control, journal, profile, devices, guest>>

\* The journal of a share that the profile names goes whoever owns it; of the
\* rest, the journal that was read.
CleanForget(t) ==
    LET r == thread[t]  h == thread[t].at  s == thread[t].cur
    IN  /\ r.pc = "forget"
        /\ IF r.part = "profile"
           THEN Write(h, s, None) /\ Step(t, [Cleaned(r) EXCEPT !.done = @ \cup {s}])
           ELSE IF journal[h][s] \in {None, r.held[s]}
           THEN Write(h, s, None) /\ Step(t, Cleaned(r))
           ELSE UNCHANGED journal /\ Step(t, [Cleaned(r) EXCEPT !.ok = FALSE])
        /\ UNCHANGED <<control, mounts, profile, devices, guest, faults>>

\* The devices that are free of their mounts leave the profile in one save;
\* the second pass reads the mount table and the journals again.
CleanSave(t) ==
    LET r == thread[t]  h == thread[t].at
        removed == [devices EXCEPT ![h] = @ \ r.done]
        second(ok) == LET j == Journaled(h, r.op, None) IN [j EXCEPT !.ok = ok]
    IN  /\ r.pc = "profile" /\ r.todo = {}
        /\ \/ devices' = removed /\ NoFault /\ Step(t, second(r.ok))
           \/ /\ r.done # {} /\ devices' \in {devices, removed} /\ Fault
              /\ Step(t, second(FALSE))
        /\ UNCHANGED <<control, mounts, journal, profile, guest>>

CleanProfile(t) ==
    LET r == thread[t]  h == thread[t].at
        marked == CASE profile[h] \in {None, "live"} -> profile[h]
                    [] profile[h] \in {"prepared", "failed"} -> "failed"
                    [] OTHER -> "cleanup"
        kept(ok) == /\ profile' = [profile EXCEPT ![h] = marked]
                    /\ Step(t, [r EXCEPT !.pc = "end", !.ok = ok]) /\ UNCHANGED devices
    IN  /\ r.pc = "records" /\ r.todo = {}
        /\ \/ /\ r.ok /\ r.owner = None /\ profile[h] # "live" /\ NoFault
              /\ profile' = [profile EXCEPT ![h] = None]
              /\ devices' = [devices EXCEPT ![h] = {}]
              /\ Step(t, [r EXCEPT !.pc = "end"])
           \/ r.ok /\ r.owner = None /\ profile[h] # None /\ kept(FALSE) /\ Fault
           \/ (~r.ok \/ profile[h] = "live") /\ r.owner = None /\ kept(FALSE) /\ NoFault
           \/ r.owner # None /\ Goes(t, "end") /\ NoFault /\ UNCHANGED <<profile, devices>>
        /\ UNCHANGED <<control, mounts, journal, guest>>

-----------------------------------------------------------------------------
(* A migration stages the active shares on its target under its token.     *)

Active == {s \in Shares : mapping[s] = "active"}

\* The recovery lock of the instance on one host, and the lock of the host's
\* generation, which the late cleanup of a source takes.
Locked == {"journals", "prepared"}
Unlocked(h) == ~(thread["sweep"].op \in Locked /\ thread["sweep"].at = h)
SourceSwept(h) == ~(thread["sweep"].op = "source" /\ thread["sweep"].at = h)
\* A rollback is proved on its target before Nova moves the instance again.
RolledBack == late.op # "rollback" /\ thread["sweep"].op # "rollback"

BeginLive(m) ==
    LET target == Other(nova.host)
    IN  /\ mig[m] = "unused" /\ nova.vm = "active" /\ guest[nova.host]
        /\ nova.task = "none" /\ thread["main"] = Idle /\ thread["deny"] = Idle
        /\ RolledBack /\ Unlocked(target)
        /\ nova' = [nova EXCEPT !.task = "migrating", !.mig = m, !.cold = FALSE]
        /\ mig' = [mig EXCEPT ![m] = "running"]
        /\ Step("main", Work("stage", "next", target, Active, m))
        /\ UNCHANGED <<late, mapping, host, faults>>

\* The guest has stopped and Nova names the target, whose profile must be new.
TargetIsNew(h) == profile[h] = None
BeginCold(m) ==
    LET target == Other(nova.host)
        named == [nova EXCEPT !.host = target, !.mig = m, !.cold = TRUE]
    IN  /\ mig[m] = "unused" /\ nova.vm = "active"
        /\ nova.task = "none" /\ thread["main"] = Idle /\ thread["deny"] = Idle
        /\ RolledBack /\ Unlocked(target)
        /\ guest' = [guest EXCEPT ![nova.host] = FALSE]
        /\ IF ~TargetIsNew(target)
           THEN /\ nova' = [named EXCEPT !.vm = "error", !.mig = None, !.cold = FALSE]
                /\ mig' = [mig EXCEPT ![m] = "terminal"] /\ UNCHANGED thread
           ELSE /\ nova' = [named EXCEPT !.task = "finishing"]
                /\ mig' = [mig EXCEPT ![m] = "running"]
                /\ Step("main", Work("stage", "next", target, Active, m))
        /\ UNCHANGED <<late, mapping, mounts, journal, profile, devices, faults>>

\* What was staged is given up, the share that failed included.
StageFailed ==
    LET r == thread["main"]
    IN  /\ r.op = "stage" /\ r.pc = "failed"
        /\ Step("main", [r EXCEPT !.op = "unstage", !.pc = "next", !.todo = r.done,
                                  !.done = {}])
        /\ UNCHANGED <<control, host, faults>>

\* The profile is created once every share is journaled by this migration and
\* mounted.  A live target gets the devices of the source and replaces a stale
\* profile without mounts; the devices of a cold target come later.
Staged(h, m, S) == /\ ~Mixed(h, m) /\ Records(h, m) = S /\ S \subseteq mounts[h]
Creatable(h) ==
    \/ profile[h] = None
    \/ ~nova.cold /\ profile[h] \in {"bare", "cleanup"} /\ devices[h] \cap mounts[h] = {}
Prepare ==
    LET r == thread["main"]  h == thread["main"].at
        S == IF nova.cold THEN r.done ELSE devices[Other(h)]
        created == /\ profile' = [profile EXCEPT ![h] = "prepared"]
                   /\ devices' = [devices EXCEPT ![h] = IF nova.cold THEN {} ELSE S]
        failed == [r EXCEPT !.op = IF nova.cold THEN "giveup" ELSE "unstage",
                            !.pc = "next", !.todo = IF nova.cold THEN {} ELSE r.done]
    IN  /\ r.op = "stage" /\ r.pc = "next" /\ r.todo = {} /\ SourceSwept(h)
        /\ \/ /\ Staged(h, r.owner, S) /\ Creatable(h) /\ created /\ NoFault
              /\ Step("main", [r EXCEPT !.op = "adopt", !.new = TRUE, !.done = S,
                                        !.todo = IF nova.cold THEN {} ELSE S,
                                        !.pc = IF nova.cold THEN "receive" ELSE "adopt"])
           \/ /\ ~(Staged(h, r.owner, S) /\ Creatable(h))
              /\ Step("main", [failed EXCEPT !.new = FALSE])
              /\ NoFault /\ UNCHANGED <<profile, devices>>
           \/ /\ Staged(h, r.owner, S) /\ Creatable(h) /\ created /\ Fault
              /\ Step("main", [failed EXCEPT !.new = TRUE])
        /\ UNCHANGED <<control, mounts, journal, guest>>

\* The profile consumes the staged mounts: their journals go, one by one.
Adopt(s) ==
    LET r == thread["main"]  h == thread["main"].at
    IN  /\ r.op = "adopt" /\ r.pc = "adopt" /\ s \in r.todo
        /\ \/ Write(h, s, None) /\ NoFault /\ Step("main", [r EXCEPT !.todo = @ \ {s}])
           \/ /\ UNCHANGED journal /\ Fault
              /\ Step("main", IF nova.cold
                              THEN [r EXCEPT !.pc = "retained"]
                              ELSE [r EXCEPT !.op = "unstage", !.pc = "next", !.todo = r.done])
        /\ UNCHANGED <<control, mounts, profile, devices, guest>>

\* Every journal of the migration is undone where no profile was created; a
\* profile of this migration takes the cleanup of the whole host.
GivesUp ==
    LET r == thread["main"]  h == thread["main"].at
    IN  /\ r.op \in {"unstage", "giveup"} /\ r.pc = "next" /\ r.todo = {}
        /\ Step("main", IF r.new /\ profile[h] = "prepared" THEN Cleaning(h, "abandon")
                        ELSE IF profile[h] = None THEN Journaled(h, "abandon", r.owner)
                        ELSE Work("abandon", "end", h, {}, r.owner))
        /\ UNCHANGED <<control, host, faults>>
GiveUpLive == ~nova.cold /\ GivesUp
GiveUpCold == nova.cold /\ GivesUp
Abandoned ==
    /\ thread["main"].op = "abandon" /\ thread["main"].pc = "end"
    /\ nova' = IF nova.cold THEN InError ELSE [nova EXCEPT !.task = "none", !.mig = None, !.cold = FALSE]
    /\ mig' = [mig EXCEPT ![nova.mig] = "terminal"] /\ Step("main", Idle)
    /\ UNCHANGED <<late, mapping, host, faults>>

-----------------------------------------------------------------------------
(* Live migration: the guest moves, or the target is rolled back by a call *)
(* that can be lost.  The old source is cleaned after Nova has moved on.   *)

\* Mutant: the source profile is gone at once, with its share devices.
LiveMoves_Profile ==
    LET h == thread["main"].at
    IN  /\ ~nova.cold /\ thread["main"].pc = "adopt" /\ thread["main"].todo = {}
        /\ guest[nova.host] /\ late = NoCall
        /\ guest' = [guest EXCEPT ![nova.host] = FALSE, ![h] = TRUE]
        /\ profile' = [profile EXCEPT ![h] = "live", ![nova.host] = None]
        /\ nova' = [nova EXCEPT !.host = h, !.task = "none", !.mig = None, !.cold = FALSE]
        /\ mig' = [mig EXCEPT ![nova.mig] = "terminal"]
        /\ late' = Call("source", nova.host, None) /\ Step("main", Idle)
        /\ UNCHANGED <<mapping, mounts, journal, devices, faults>>
LiveMoves ==
    LET h == thread["main"].at
    IN  /\ ~nova.cold /\ thread["main"].pc = "adopt" /\ thread["main"].todo = {}
        /\ guest[nova.host] /\ late = NoCall
        /\ guest' = [guest EXCEPT ![nova.host] = FALSE, ![h] = TRUE]
        /\ profile' = [profile EXCEPT ![h] = "live", ![nova.host] = "cleanup"]
        /\ nova' = [nova EXCEPT !.host = h, !.task = "none", !.mig = None, !.cold = FALSE]
        /\ mig' = [mig EXCEPT ![nova.mig] = "terminal"]
        /\ late' = Call("source", nova.host, None) /\ Step("main", Idle)
        /\ UNCHANGED <<mapping, mounts, journal, devices, faults>>
\* The receive fails, or the guest has gone with its host.
LiveFails ==
    /\ ~nova.cold /\ thread["main"].pc = "adopt" /\ thread["main"].todo = {}
    /\ IF guest[nova.host] THEN Fault ELSE NoFault
    /\ nova' = [nova EXCEPT !.task = "none", !.mig = None, !.cold = FALSE]
    /\ mig' = [mig EXCEPT ![nova.mig] = "terminal"]
    /\ late' \in {late, Call("rollback", thread["main"].at, nova.mig)}
    /\ Step("main", Idle)
    /\ UNCHANGED <<mapping, host>>

\* A source that has become a target again in the meantime is left alone.
Deliver ==
    LET h == late.at
        superseded == profile[h] \in {"prepared", "failed"} \/ guest[h]
    IN  /\ late # NoCall /\ thread["sweep"] = Idle
        /\ ~(thread["main"].op = "adopt" /\ thread["main"].at = h)
        /\ late' = NoCall
        /\ Step("sweep", IF late.op = "source"
                         THEN IF superseded THEN Idle ELSE Cleaning(h, "source")
                         ELSE IF profile[h] = None THEN Journaled(h, "rollback", late.owner)
                         ELSE Cleaning(h, "rollback"))
        /\ UNCHANGED <<nova, mapping, mig, host, faults>>
Swept ==
    /\ thread["sweep"].pc = "end" /\ Step("sweep", Idle)
    /\ UNCHANGED <<control, host, faults>>

-----------------------------------------------------------------------------
(* Cold migration: the target is received, given its shares and started;   *)
(* then the user confirms it or reverts to the source.                     *)

\* Before the receive commits, a failure removes the target.
Receive ==
    LET r == thread["main"]  h == thread["main"].at
    IN  /\ r.pc = "receive"
        /\ \/ /\ profile' = [profile EXCEPT ![h] = "live"] /\ NoFault
              /\ Goes("main", "attachAll")
           \/ /\ Step("main", [r EXCEPT !.op = "giveup", !.pc = "next", !.todo = {}])
              /\ UNCHANGED profile /\ Fault
        /\ UNCHANGED <<control, mounts, journal, devices, guest>>
\* After it, the target is kept for repair.
AttachAll ==
    LET r == thread["main"]  h == thread["main"].at
        attached == [devices EXCEPT ![h] = @ \cup r.done]
    IN  /\ r.pc = "attachAll"
        /\ \/ /\ r.done \subseteq mounts[h] /\ devices' = attached /\ NoFault
              /\ Step("main", [r EXCEPT !.pc = "adopt", !.todo = r.done])
           \/ /\ ~(r.done \subseteq mounts[h]) /\ Goes("main", "retained")
              /\ NoFault /\ UNCHANGED devices
           \/ /\ r.done # {} /\ devices' \in {devices, attached}
              /\ Goes("main", "retained") /\ Fault
        /\ UNCHANGED <<control, mounts, journal, profile, guest>>
\* The target starts, or waits for the repair that will start it.
Resized == [nova EXCEPT !.task = "none", !.vm = "resized", !.repair = FALSE]
ColdFinishes ==
    LET r == thread["main"]
    IN  /\ r.op = "adopt" /\ nova.cold
        /\ \/ /\ r.pc = "adopt" /\ r.todo = {} /\ nova' = Resized
              /\ guest' = [guest EXCEPT ![r.at] = TRUE]
           \/ /\ r.pc = "retained" /\ nova' = [Resized EXCEPT !.repair = TRUE]
              /\ UNCHANGED guest
        /\ Step("main", Idle)
        /\ UNCHANGED <<late, mapping, mig, mounts, journal, profile, devices, faults>>

\* recover_migration_target attaches what is journaled, then starts.  A journal
\* of another owner makes it raise before it has changed anything.
BeginRepair ==
    LET h == nova.host
    IN  /\ nova.repair /\ nova.vm = "resized" /\ ~Mixed(h, nova.mig) /\ Begin("repairing")
        /\ Step("main", [Work("adopt", "attachAll", h, {}, nova.mig)
                            EXCEPT !.done = Records(h, nova.mig)])
        /\ UNCHANGED <<late, mapping, mig, host, faults>>

\* The source profile is marked for cleanup before its record is deleted.
BeginConfirm ==
    LET source == Other(nova.host)
    IN  /\ nova.vm = "resized" /\ ~nova.repair /\ Begin("confirming")
        /\ profile' = [profile EXCEPT ![source] = IF @ = None THEN @ ELSE "cleanup"]
        /\ Step("main", Cleaning(source, "confirm"))
        /\ UNCHANGED <<late, mapping, mig, mounts, journal, devices, guest, faults>>
\* A source that is only partly clean is retained and does not undo a confirm.
Confirmed ==
    /\ thread["main"].op = "confirm" /\ thread["main"].pc = "end"
    /\ nova' = [nova EXCEPT !.task = "none", !.vm = "active", !.mig = None, !.cold = FALSE]
    /\ mig' = [mig EXCEPT ![nova.mig] = "terminal"] /\ Step("main", Idle)
    /\ UNCHANGED <<late, mapping, host, faults>>

BeginRevert ==
    /\ nova.vm = "resized" /\ Begin("reverting") /\ Unlocked(nova.host)
    /\ guest' = [guest EXCEPT ![nova.host] = FALSE]
    /\ profile' = [profile EXCEPT ![nova.host] = "bare"]
    /\ Step("main", Cleaning(nova.host, "revert"))
    /\ UNCHANGED <<late, mapping, mig, mounts, journal, devices, faults>>
Reverted ==
    LET r == thread["main"]  source == Other(thread["main"].at)
    IN  /\ r.op = "revert" /\ r.pc = "end"
        /\ IF r.ok
           THEN /\ Unlocked(source)
                /\ nova' = [nova EXCEPT !.host = source, !.repair = FALSE] /\ UNCHANGED mig
                /\ Step("main", Work("start", "next", source, Active, "mapping"))
           ELSE nova' = InError /\ mig' = Errored /\ Step("main", Idle)
        /\ UNCHANGED <<late, mapping, host, faults>>

-----------------------------------------------------------------------------
(* The periodic passes of a compute.                                       *)

Settled == nova.task = "none" /\ nova.vm # "resized"
\* Mutant: only the host that Nova names recovers its journals.
RecoverJournals_Host(h, m) ==
    /\ thread["sweep"] = Idle /\ Settled /\ mig[m] = "terminal"
    /\ ~(thread["main"] # Idle /\ thread["main"].at = h)
    /\ Records(h, m) # {} /\ ~Mixed(h, m) /\ profile[h] = None /\ nova.host = h
    /\ Step("sweep", Journaled(h, "journals", m))
    /\ UNCHANGED <<control, host, faults>>
RecoverJournals(h, m) ==
    /\ thread["sweep"] = Idle /\ Settled /\ mig[m] = "terminal"
    /\ ~(thread["main"] # Idle /\ thread["main"].at = h)
    /\ Records(h, m) # {} /\ ~Mixed(h, m) /\ profile[h] = None
    /\ Step("sweep", Journaled(h, "journals", m))
    /\ UNCHANGED <<control, host, faults>>
\* Nova must not name the target of an attempt that was not committed.
RecoverPrepared(h) ==
    /\ thread["sweep"] = Idle /\ Settled /\ nova.host # h
    /\ profile[h] = "prepared" /\ ~(thread["main"] # Idle /\ thread["main"].at = h)
    /\ Step("sweep", Cleaning(h, "prepared"))
    /\ UNCHANGED <<control, host, faults>>
\* The replay of a marked cleanup takes no lock of the instance, and Nova sets
\* no task while a migration is confirmed.
RecoverCleanup(h) ==
    /\ thread["sweep"] = Idle /\ nova.task \in {"none", "confirming"}
    /\ profile[h] \in {"cleanup", "failed"}
    /\ Step("sweep", Cleaning(h, "cleanup"))
    /\ UNCHANGED <<control, host, faults>>

-----------------------------------------------------------------------------
(* A nova-compute dies with its calls; a reboot takes the mounts as well.  *)

\* Nova tries a start or a stop again; a live migration is rolled back from
\* its source, by a call that is lost here (LiveFails delivers it late); the
\* other operations wait for an operator.
MainDies(h) ==
    LET r == thread["main"]
    IN  IF r = Idle \/ r.at # h
        THEN UNCHANGED <<nova, mig>>
        ELSE CASE nova.task = "migrating" ->
                  /\ nova' = [nova EXCEPT !.task = "none", !.mig = None, !.cold = FALSE]
                  /\ mig' = [mig EXCEPT ![nova.mig] = "terminal"]
               [] nova.task = "repairing" ->
                  nova' = [nova EXCEPT !.task = "none"] /\ UNCHANGED mig
               [] OTHER -> UNCHANGED <<nova, mig>>
Retried(h, left) ==
    CASE nova.task = "starting" -> [Starting(h) EXCEPT !.snap = left]
      [] nova.task = "stopping" -> [Stopping(h) EXCEPT !.snap = left]
      [] OTHER -> Idle
Dead(h, left, resumed) ==
    thread' = [t \in Threads |->
        IF t = "main" /\ resumed THEN [Starting(h) EXCEPT !.snap = left]
        ELSE IF thread[t].at # h THEN thread[t]
        ELSE IF t = "main" /\ thread[t] # Idle THEN Retried(h, left) ELSE Idle]

Crash(h) ==
    /\ \E t \in Threads : thread[t] # Idle /\ thread[t].at = h
    /\ MainDies(h) /\ Dead(h, mounts[h], FALSE) /\ Fault
    /\ UNCHANGED <<late, mapping, host>>

\* A guest that was running is resumed: its shares are mounted again.
Reboot(h) ==
    LET resumed == nova.host = h /\ nova.task = "none" /\ guest[h] /\ thread["main"] = Idle
    IN  /\ mounts' = [mounts EXCEPT ![h] = {}] /\ guest' = [guest EXCEPT ![h] = FALSE]
        /\ IF resumed THEN nova' = [nova EXCEPT !.task = "starting"] /\ UNCHANGED mig
                      ELSE MainDies(h)
        /\ Dead(h, {}, resumed) /\ Fault
        /\ UNCHANGED <<late, mapping, journal, profile, devices>>

-----------------------------------------------------------------------------
ShareStep(t) ==
    \/ \E s \in Shares : Claim(t, s) \/ Reclaim(t, s) \/ Unstage(t, s) \/ CleanUmount(t, s)
    \/ Mount(t) \/ Attach(t) \/ Unjournal(t) \/ Detach(t) \/ Umount(t) \/ RemoveJournal(t)
    \/ CleanForget(t) \/ CleanSave(t) \/ CleanProfile(t)
MainStep ==
    \/ ShareStep("main") \/ \E s \in Shares : Adopt(s)
    \/ Started \/ StartFailed \/ UndoFailed \/ Undone \/ StopFailed \/ Stopped
    \/ StageFailed \/ Prepare \/ GiveUpLive \/ GiveUpCold
    \/ Abandoned \/ LiveMoves \/ LiveFails
    \/ Receive \/ AttachAll \/ ColdFinishes \/ Confirmed \/ Reverted
DenyStep == ShareStep("deny") \/ Denied \/ DenyFailed
SweepStep == ShareStep("sweep") \/ Deliver \/ Swept
Passes(h) == (\E m \in Tokens : RecoverJournals(h, m)) \/ RecoverPrepared(h) \/ RecoverCleanup(h)
Requests ==
    \/ BeginStart \/ BeginStop \/ \E s \in Shares : BeginDeny(s)
    \/ \E m \in Tokens : BeginLive(m) \/ BeginCold(m)
    \/ BeginRepair \/ BeginConfirm \/ BeginRevert

Next ==
    \/ Requests \/ MainStep \/ DenyStep \/ SweepStep
    \/ \E h \in Hosts : Passes(h) \/ Crash(h) \/ Reboot(h)

Spec == Init /\ [][Next]_vars
\* A service works on what it has begun, and its periodic passes run.
FairSpec ==
    /\ Spec /\ WF_vars(MainStep) /\ WF_vars(SweepStep)
    /\ \A h \in Hosts : SF_vars(Passes(h))

-----------------------------------------------------------------------------
\* A guest never runs with the device of a share whose host mount is gone: a
\* mount table that was read before another operation's mount or unmount, or a
\* late cleanup of the host, must not take the source from under the device
\* (_attach_share_devices looks at the mount point again).  The mapping of the
\* share still exists: a start beside its removal may attach it for good.
GuestSourceMounted ==
    \A h \in Hosts, s \in Shares :
        guest[h] /\ s \in devices[h] /\ mapping[s] # "none" => s \in mounts[h]

\* No mount is orphaned: whatever fails or dies in between, a mounted share has
\* a journal or a device of the profile from which a retry or a recovery finds
\* it (_stage_share_mount_locked, _umount_share_locked).  An instance at rest on
\* a host with its profile can detach its shares there: no migration left a
\* journal that _umount_share_locked would refuse.
AtRest == nova.task = "none" /\ nova.vm # "resized" /\ thread["main"] = Idle
MountHasOwner ==
    /\ \A h \in Hosts : \A s \in mounts[h] : journal[h][s] # None \/ s \in devices[h]
    /\ AtRest /\ nova.vm # "error" /\ profile[nova.host] = "live"
       => \A s \in Shares : journal[nova.host][s] \in {None, "mapping"}

\* Once an instance rests for good, a host it has left, or never reached, loses
\* every mount and journal that a migration left there, unless journals of two
\* migrations are mixed (_recover_incus_share_journals, the cleanup passes).  A
\* failed cold migration keeps the container of its source, with its shares.
StagingCollected ==
    \A h \in Hosts :
        <>[](/\ AtRest /\ nova.host # h /\ profile[h] # "live"
             /\ \A m \in Tokens : ~Mixed(h, m) \/ Records(h, m) = {})
        => <>[](mounts[h] = {} /\ \A s \in Shares : journal[h][s] \notin Tokens)
=============================================================================
