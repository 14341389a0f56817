------------------------- MODULE RootfsMaterialization -------------------------
(***************************************************************************)
(* How one instance's root file system is created, destroyed and accounted *)
(* for on one compute: the spawn and destroy paths of                      *)
(* nova/virt/incus/driver.py, the release and reconciliation paths of      *)
(* nova/virt/incus/manager.py and the storage protocol they speak to Incus *)
(* (nova/virt/incus/storage_protocol.py).                                  *)
(*                                                                         *)
(* The registry is the instance's own part of IdmapRegistry: one           *)
(* allocation generation and this host's claim, every compare-and-swap one *)
(* atomic step (IdmapRegistry models what can happen inside it).           *)
(*                                                                         *)
(* Two workers of the compute service run the code.  `request' is whatever *)
(* holds Nova's per-instance semaphore: spawn, destroy or the final        *)
(* delete.  `periodic' is the green thread of all periodic tasks.  A       *)
(* worker's record holds its job, its program counter and what it          *)
(* remembers: the token of the claim it works on and whether it settles    *)
(* with a release receipt (final) or with a materialization proof.         *)
(*                                                                         *)
(* Incus is external and modelled by the answers the driver expects of it: *)
(* a registered attempt accepts one create; an abort fences it; an aborted *)
(* attempt that had started is settled once its operation has ended; a     *)
(* delete leaves a receipt.  Registrations, creates and deletes travel in  *)
(* `requests': they may arrive late, after the compute gave up or crashed, *)
(* or never.                                                               *)
(*                                                                         *)
(* Every action is a success path.  Each early exit of the code that       *)
(* raises, each backend or Incus error, each lost response and each crash  *)
(* of the service is Raise: the worker forgets everything and its file     *)
(* lock is free again.                                                     *)
(***************************************************************************)
EXTENDS Naturals, FiniteSets

CONSTANTS
    Tokens,     \* materialization UUIDs, one per spawn
    NoToken     \* the absence of one

ASSUME NoTokenAssumption == NoToken \notin Tokens

VARIABLES
    allocated,  \* the instance has its allocation generation
    intent,     \* the shared release intent exists
    claim,      \* this host's claim: [token, state, proof]
    journal,    \* the spawn attempt journal: [phase, token, generation]
    lock,       \* the cross-process host claim lock: a worker or "free"
    row,        \* the Nova instance row: "live", "failed" or "deleted"
    work,       \* work[w]: [job, pc, token, final]
    spawned,    \* materialization UUIDs generated so far
    attempt,    \* attempt[t]: Incus's attempt record for t
    outcome,    \* outcome[t]: the terminal proof Incus gave for t
    receipt,    \* receipt[t]: Incus's release receipt for t
    operations, \* the tokens whose create operation is running
    container,  \* the token bound to the Incus instance, or NoToken
    rootfs,     \* the tokens that own root storage on the pool
    requests    \* requests sent to Incus and not yet served

registry == <<allocated, intent, claim>>
host == <<journal, lock, work>>
nova == <<row, spawned>>
incus == <<attempt, outcome, receipt, operations, container, rootfs>>
vars == <<registry, host, nova, incus, requests>>

-----------------------------------------------------------------------------
Workers == {"request", "periodic"}
States == {"unmaterialized", "possible", "committed", "cleaned"}
Proofs == {"not-materialized", "reconciled-clean", "receipt"}

Claim == [token: Tokens, state: States, proof: Proofs \cup {"none"}]
NoClaim == [token |-> NoToken, state |-> "none", proof |-> "none"]

Journal == [phase: {"preflight", "opening"}, token: Tokens, generation: BOOLEAN]
NoJournal == [phase |-> "none", token |-> NoToken, generation |-> FALSE]

Jobs == {"none", "spawn", "presettle", "destroy", "finaldestroy", "dispose", "release"}
Steps == {"idle",
          "preflight", "opening", "allocate", "claim", "register", "finish-open",
          "prepare", "mark", "create", "observe", "built", "get",
          "entry", "context", "promote", "promoting", "container", "deleting",
          "exact", "discover", "discover-new", "abandon", "abort", "settle", "record", "receipt",
          "ack", "cleanup", "fence", "retire", "complete", "raising"}
Idle == [job |-> "none", pc |-> "idle", token |-> NoToken, final |-> FALSE]

Requests == {"register", "create", "delete"} \X Tokens

TypeOK ==
    /\ allocated \in BOOLEAN /\ intent \in BOOLEAN
    /\ claim \in Claim \cup {NoClaim}
    /\ journal \in Journal \cup {NoJournal}
    /\ lock \in Workers \cup {"free"}
    /\ row \in {"live", "failed", "deleted"}
    /\ work \in [Workers -> [job: Jobs, pc: Steps, token: Tokens \cup {NoToken},
                             final: BOOLEAN]]
    /\ spawned \subseteq Tokens
    /\ attempt \in [Tokens -> {"absent", "active", "started", "aborting",
                               "committed", "proven", "retired"}]
    /\ outcome \in [Tokens -> {"none", "not-materialized", "reconciled-clean"}]
    /\ receipt \in [Tokens -> {"none", "issued", "acked"}]
    /\ operations \subseteq Tokens /\ rootfs \subseteq Tokens
    /\ container \in Tokens \cup {NoToken}
    /\ requests \subseteq Requests

Init ==
    /\ allocated = FALSE /\ intent = FALSE /\ claim = NoClaim
    /\ journal = NoJournal /\ lock = "free"
    /\ row = "live" /\ spawned = {}
    /\ work = [w \in Workers |-> Idle]
    /\ attempt = [t \in Tokens |-> "absent"]
    /\ outcome = [t \in Tokens |-> "none"]
    /\ receipt = [t \in Tokens |-> "none"]
    /\ operations = {} /\ rootfs = {} /\ container = NoToken
    /\ requests = {}

-----------------------------------------------------------------------------
(* Workers and the claim lock. *)

At(w, pc) == work[w].pc = pc
Goto(w, pc) == work' = [work EXCEPT ![w].pc = pc]
Begin(w, job, pc, t) == work' = [work EXCEPT ![w] =
                                   [job |-> job, pc |-> pc, token |-> t, final |-> FALSE]]
Done(w) == work' = [work EXCEPT ![w] = Idle]

CanLock(w) == lock \in {"free", w}

\* Everything that ends a worker early; see the head of this module.
Raise(w) ==
    /\ ~At(w, "idle")
    /\ Done(w)
    /\ lock' = IF lock = w THEN "free" ELSE lock
    /\ UNCHANGED <<registry, journal, nova, incus, requests>>

\* The resources a worker can see: the instance record and the journals.
ResourcesAbsent == container = NoToken /\ journal = NoJournal

\* A claim a new spawn may replace: _create_spawn_preflight_attempt and claim().
Replaceable == claim = NoClaim \/ claim.state = "cleaned"

-----------------------------------------------------------------------------
(* Spawn: journal, allocation, claim, registration. *)

SpawnPreflight(t) ==
    /\ At("request", "idle") /\ row = "live" /\ t \notin spawned
    /\ CanLock("request") /\ ~intent /\ Replaceable
    /\ journal = NoJournal
    /\ journal' = [phase |-> "preflight", token |-> t, generation |-> allocated]
    /\ spawned' = spawned \cup {t}
    /\ Begin("request", "spawn", "preflight", t)
    /\ UNCHANGED <<registry, lock, row, incus, requests>>

OpenSpawnAttempt ==
    /\ At("request", "preflight") /\ CanLock("request")
    /\ container = NoToken
    /\ journal.phase = "preflight" /\ journal.token = work["request"].token
    /\ journal' = [journal EXCEPT !.phase = "opening"]
    /\ Goto("request", "opening")
    /\ UNCHANGED <<registry, lock, nova, incus, requests>>

BeginAllocate ==
    /\ At("request", "opening") /\ lock = "free"
    /\ lock' = "request"
    /\ allocated' = TRUE
    /\ Goto("request", "claim")
    /\ UNCHANGED <<intent, claim, journal, nova, incus, requests>>

BeginClaim ==
    /\ At("request", "claim") /\ ~intent /\ allocated /\ Replaceable
    /\ claim' = [token |-> work["request"].token, state |-> "unmaterialized", proof |-> "none"]
    /\ requests' = requests \cup {<<"register", work["request"].token>>}
    /\ Goto("request", "register")
    /\ UNCHANGED <<allocated, intent, journal, lock, nova, incus>>

\* The registration answered: pristine, or register_materialization raises.
BeginRegistered ==
    /\ At("request", "register") /\ attempt[work["request"].token] = "active"
    /\ lock' = "free"
    /\ Goto("request", "finish-open")
    /\ UNCHANGED <<registry, journal, nova, incus, requests>>

FinishSpawnAttemptOpen ==
    /\ At("request", "finish-open") /\ CanLock("request")
    /\ allocated /\ claim.token = work["request"].token
    /\ journal' = NoJournal
    /\ Goto("request", "prepare")
    /\ UNCHANGED <<registry, lock, nova, incus, requests>>

\* Image, VIF or profile preparation failed: _abort_idmap_materialization.
PrepareFails ==
    /\ At("request", "prepare")
    /\ Goto("request", "get")
    /\ UNCHANGED <<registry, journal, lock, nova, incus, requests>>

-----------------------------------------------------------------------------
(* Spawn: the materialization barrier around the create request. *)

\* Mutant: the create goes out before the claim says so.
MarkPossible_NotDurable ==
    /\ At("request", "prepare") /\ lock = "free"
    /\ ~intent /\ claim.token = work["request"].token /\ claim.state = "unmaterialized"
    /\ lock' = "request"
    /\ claim' = claim
    /\ Goto("request", "mark")
    /\ UNCHANGED <<allocated, intent, journal, nova, incus, requests>>

MarkPossible ==
    /\ At("request", "prepare") /\ lock = "free"
    /\ ~intent /\ claim.token = work["request"].token /\ claim.state = "unmaterialized"
    /\ lock' = "request"
    /\ claim' = [claim EXCEPT !.state = "possible"]
    /\ Goto("request", "mark")
    /\ UNCHANGED <<allocated, intent, journal, nova, incus, requests>>

PostCreate ==
    /\ At("request", "mark")
    /\ requests' = requests \cup {<<"create", work["request"].token>>}
    /\ Goto("request", "create")
    /\ UNCHANGED <<registry, journal, lock, nova, incus>>

\* create(wait=True) returned or raised - perhaps a timeout, at any moment.
CreateReturns ==
    /\ At("request", "create")
    /\ lock' = "free"
    /\ Goto("request", "observe")
    /\ UNCHANGED <<registry, journal, nova, incus, requests>>

\* observe_materialization_start; an attempt that has not started raises.
ObserveStart ==
    /\ At("request", "observe")
    /\ \/ attempt[work["request"].token] = "committed" /\ Goto("request", "promoting")
       \/ attempt[work["request"].token] \in {"started", "aborting", "proven", "retired"}
            /\ outcome[work["request"].token] # "not-materialized"
            /\ Goto("request", "get")
    /\ UNCHANGED <<registry, journal, lock, nova, incus, requests>>

\* Spawn is over: either for good, or because a later step failed and
\* _fence_failed_spawn deletes the instance it just made.
SpawnReturns ==
    /\ At("request", "built")
    /\ Done("request")
    /\ UNCHANGED <<registry, journal, lock, nova, incus, requests>>

\* get_materialization in _abort_idmap_materialization.
AbortGet ==
    /\ At("request", "get")
    /\ \/ attempt[work["request"].token] = "active" /\ Goto("request", "abort")
       \/ attempt[work["request"].token] = "started" /\ Goto("request", "abort")
       \/ attempt[work["request"].token] = "aborting" /\ Goto("request", "settle")
       \/ attempt[work["request"].token] \in {"proven", "retired"} /\ Goto("request", "record")
    /\ UNCHANGED <<registry, journal, lock, nova, incus, requests>>

-----------------------------------------------------------------------------
(* Promotion: possible becomes committed only on Incus's committed attempt. *)

\* Where a worker goes with the claim it has resolved.  A claim that is gone
\* stops everyone but destroy, and spawn stops unless its claim committed.
AfterPromotion(w) ==
    LET job == work[w].job
        state == claim'.state
        next(pc, final) == work' = [work EXCEPT ![w] =
            [job |-> job, pc |-> pc, token |-> claim'.token, final |-> final]]
    IN  \/ job = "spawn" /\ state = "committed" /\ next("built", FALSE)
        \/ job = "presettle" /\ state = "possible" /\ next("exact", FALSE)
        \/ /\ job = "presettle" /\ state \notin {"possible", "none"}
           /\ Begin(w, "finaldestroy", "entry", NoToken)
        \/ job \in {"destroy", "finaldestroy"} /\ next("container", state = "committed")
        \/ /\ job = "dispose" /\ state # "none"
           /\ next("exact", state \notin {"possible", "unmaterialized"})
        \/ /\ job = "release" /\ state # "none"
           /\ next("exact", state \in {"committed", "cleaned"})

\* discover_materialization, outside the lock (a periodic release holds it).
DiscoverForPromotion(w) ==
    /\ At(w, "promote") /\ attempt[work[w].token] # "absent"
    /\ UNCHANGED <<registry, journal, lock, nova, incus, requests>>
    /\ \/ /\ attempt[work[w].token] = "committed"
          /\ Goto(w, "promoting")
       \/ /\ attempt[work[w].token] # "committed"
          /\ CanLock(w) /\ claim.token \in {work[w].token, NoToken}
          /\ AfterPromotion(w)

\* The exact claim again under the lock, then mark_materialization_committed.
PromoteClaim(w) ==
    /\ At(w, "promoting") /\ CanLock(w)
    /\ claim.token \in {work[w].token, NoToken}
    /\ claim' = [claim EXCEPT !.state = IF @ = "possible" THEN "committed" ELSE @]
    /\ AfterPromotion(w)
    /\ UNCHANGED <<allocated, intent, journal, lock, nova, incus, requests>>

-----------------------------------------------------------------------------
(* Destroy. *)

\* Mutant: an opening journal is undone without asking the registry.
ConsumePreflightNoop_IgnoresClaim ==
    /\ \/ At("request", "idle") /\ row # "failed"
       \/ At("request", "entry")
    /\ CanLock("request")
    /\ \/ journal.phase = "opening"
       \/ /\ journal.phase = "preflight" /\ claim = NoClaim
          /\ allocated = journal.generation
          /\ container = NoToken
    /\ journal' = NoJournal
    /\ IF work["request"].job = "finaldestroy"
       THEN row' = "deleted" /\ Begin("request", "release", "complete", NoToken)
       ELSE UNCHANGED <<row, work>>
    /\ UNCHANGED <<registry, lock, spawned, incus, requests>>

\* A preflight-only spawn, or one that opened and never allocated, is undone
\* by removing its journal.
ConsumePreflightNoop ==
    /\ \/ At("request", "idle") /\ row # "failed"
       \/ At("request", "entry")
    /\ CanLock("request")
    /\ \/ journal.phase = "opening" /\ ~allocated /\ claim = NoClaim /\ ~journal.generation
       \/ /\ journal.phase = "preflight" /\ claim = NoClaim
          /\ allocated = journal.generation
          /\ container = NoToken
    /\ journal' = NoJournal
    /\ IF work["request"].job = "finaldestroy"
       THEN row' = "deleted" /\ Begin("request", "release", "complete", NoToken)
       ELSE UNCHANGED <<row, work>>
    /\ UNCHANGED <<registry, lock, spawned, incus, requests>>

\* destroy goes on when no journal, or one of the exact claim, is there.
DestroyContext ==
    /\ \/ At("request", "idle") /\ row # "failed"
       \/ At("request", "entry")
    /\ \/ journal = NoJournal
       \/ journal.phase = "opening" /\ allocated /\ claim.token = journal.token
    /\ LET job == IF At("request", "idle") THEN "destroy" ELSE "finaldestroy"
       IN \/ /\ claim.state = "possible"
             /\ Begin("request", job, "promote", claim.token)
          \/ /\ claim.state # "possible"
             /\ work' = [work EXCEPT !["request"] =
                  [job |-> job, pc |-> "container", token |-> claim.token,
                   final |-> claim.state = "committed"]]
    /\ UNCHANGED <<registry, journal, lock, nova, incus, requests>>

\* stop_and_delete on an instance Incus no longer has.
ContainerAbsent ==
    /\ At("request", "container") /\ container = NoToken
    /\ Goto("request", IF work["request"].token = NoToken THEN "cleanup" ELSE "exact")
    /\ UNCHANGED <<registry, journal, lock, nova, incus, requests>>

\* stop_and_delete, or the deletion in _fence_failed_spawn: the delete names
\* the committed claim and the instance must carry its token.
DeleteWithReceipt ==
    /\ \/ At("request", "container") /\ work["request"].final
       \/ At("request", "built")
    /\ container # NoToken /\ container = work["request"].token
    /\ claim.token = work["request"].token /\ claim.state = "committed"
    /\ requests' = requests \cup {<<"delete", container>>}
    /\ Goto("request", "deleting")
    /\ UNCHANGED <<registry, journal, lock, nova, incus>>

\* The delete returned or raised; either way the receipt decides.
DeleteReturns ==
    /\ At("request", "deleting")
    /\ work' = [work EXCEPT !["request"].pc = "exact", !["request"].final = TRUE]
    /\ UNCHANGED <<registry, journal, lock, nova, incus, requests>>

\* The end of destroy: the opening journal of the exact claim is removed, and
\* the claim is retired if it is clean, no release coordinates it, and (outside
\* a failed build) retirement is wanted at all.
DestroyCleanup(retire) ==
    /\ At("request", "cleanup") /\ CanLock("request")
    /\ LET t == work["request"].token
       IN  \/ journal = NoJournal /\ UNCHANGED journal
           \/ /\ t # NoToken /\ claim.token = t
              /\ journal.phase = "opening" /\ journal.token = t
              /\ journal' = NoJournal
    /\ claim' = IF /\ retire /\ ~intent /\ claim.state = "cleaned"
                   /\ container = NoToken /\ journal' = NoJournal
                THEN NoClaim ELSE claim
    /\ IF work["request"].job = "finaldestroy"
       THEN row' = "deleted" /\ Begin("request", "release", "complete", NoToken)
       ELSE UNCHANGED row /\ Done("request")
    /\ UNCHANGED <<allocated, intent, lock, spawned, incus, requests>>

-----------------------------------------------------------------------------
(* Settlement of one exact claim: _settle_idmap_host_claim, and the part of *)
(* _abort_idmap_materialization it shares with it.                          *)

\* Where settlement returns to, with the settled claim's token (or none); a
\* release that finds nothing left to retire raises and is replayed.
Settled(w, t) ==
    LET job == work[w].job
        next(j, pc) == [job |-> j, pc |-> pc, token |-> t, final |-> FALSE]
    IN  CASE job = "spawn"     -> Idle
          [] job = "presettle" -> next("finaldestroy", "entry")
          [] job \in {"destroy", "finaldestroy"} -> next(job, "cleanup")
          [] job = "dispose"   -> next(job, "fence")
          [] OTHER             -> next(job, IF t = NoToken THEN "raising" ELSE "retire")

Settles(w, t) == work' = [work EXCEPT ![w] = Settled(w, t)]

ExactClaim(w) ==
    /\ At(w, "exact") /\ allocated
    /\ \/ claim = NoClaim /\ Settles(w, NoToken)
       \/ /\ claim.token = work[w].token
          /\ \/ claim.state = "cleaned" /\ Goto(w, "ack")
             \/ claim.state = "committed" /\ work[w].final /\ Goto(w, "receipt")
             \/ /\ claim.state # "cleaned" /\ ~work[w].final
                /\ Goto(w, IF claim.state = "unmaterialized" THEN "discover-new" ELSE "discover")
    /\ UNCHANGED <<registry, journal, lock, nova, incus, requests>>

\* Mutant: an attempt another pass already fenced is not settled again.
Discover_NoResume(w) ==
    /\ At(w, "discover") \/ At(w, "discover-new")
    /\ LET state == attempt[work[w].token]
       IN \/ state = "absent" /\ At(w, "discover-new") /\ Goto(w, "abandon")
          \/ state \in {"active", "started"} /\ Goto(w, "abort")
          \/ state \in {"proven", "retired"} /\ Goto(w, "record")
    /\ UNCHANGED <<registry, journal, lock, nova, incus, requests>>

\* Only a claim that was unmaterialized when ExactClaim read it may be abandoned
\* for want of an attempt; past that, an absent attempt is corruption.
Discover(w) ==
    /\ At(w, "discover") \/ At(w, "discover-new")
    /\ LET state == attempt[work[w].token]
       IN \/ state = "absent" /\ At(w, "discover-new") /\ Goto(w, "abandon")
          \/ state \in {"active", "started"} /\ Goto(w, "abort")
          \/ state = "aborting" /\ Goto(w, "settle")
          \/ state \in {"proven", "retired"} /\ Goto(w, "record")
    /\ UNCHANGED <<registry, journal, lock, nova, incus, requests>>

\* Mutant: the claim loses its state and keeps its record.
AbandonClaim_KeepsRecord(w) ==
    /\ At(w, "abandon")
    /\ \/ claim = NoClaim /\ UNCHANGED claim
       \/ claim.token = work[w].token /\ claim.state = "unmaterialized" /\ claim' = [claim EXCEPT !.state = "none"]
    /\ Settles(w, NoToken)
    /\ UNCHANGED <<allocated, intent, journal, lock, nova, incus, requests>>

AbandonClaim(w) ==
    /\ At(w, "abandon")
    /\ \/ claim = NoClaim /\ UNCHANGED claim
       \/ claim.token = work[w].token /\ claim.state = "unmaterialized" /\ claim' = NoClaim
    /\ Settles(w, NoToken)
    /\ UNCHANGED <<allocated, intent, journal, lock, nova, incus, requests>>

\* Incus fences the attempt: at once if it never started, else the operation
\* may still run but can no longer commit.  A committed attempt refuses.
AbortAttempt(w) ==
    LET t == work[w].token
    IN  /\ At(w, "abort") /\ attempt[t] # "committed" /\ attempt[t] # "absent"
        /\ attempt' = [attempt EXCEPT ![t] = CASE @ = "active"  -> "proven"
                                               [] @ = "started" -> "aborting"
                                               [] OTHER         -> @]
        /\ outcome' = [outcome EXCEPT ![t] =
                         IF attempt[t] = "active" THEN "not-materialized" ELSE @]
        /\ Goto(w, IF attempt'[t] = "aborting" THEN "settle" ELSE "record")
        /\ UNCHANGED <<registry, journal, lock, nova, receipt, operations, container,
                       rootfs, requests>>

\* Incus refuses to settle while the operation runs, then removes the storage.
SettleAttempt(w) ==
    LET t == work[w].token
    IN  /\ At(w, "settle") /\ t \notin operations
        /\ attempt[t] \in {"aborting", "proven", "retired"}
        /\ attempt' = [attempt EXCEPT ![t] = IF @ = "aborting" THEN "proven" ELSE @]
        /\ outcome' = [outcome EXCEPT ![t] =
                         IF attempt[t] = "aborting" THEN "reconciled-clean" ELSE @]
        /\ rootfs' = rootfs \ {t}
        /\ Goto(w, "record")
        /\ UNCHANGED <<registry, journal, lock, nova, receipt, operations, container,
                       requests>>

\* Mutant: the receipt is acknowledged before it is recorded.
DiscoverReceipt_AckFirst(w) ==
    /\ At(w, "receipt") /\ receipt[work[w].token] = "issued"
    /\ Goto(w, "ack")
    /\ UNCHANGED <<registry, journal, lock, nova, incus, requests>>

DiscoverReceipt(w) ==
    /\ At(w, "receipt") /\ receipt[work[w].token] = "issued"
    /\ Goto(w, "record")
    /\ UNCHANGED <<registry, journal, lock, nova, incus, requests>>

\* The proof a settlement holds when it comes to record it.
ProofHeld(w) == IF work[w].final THEN "receipt" ELSE outcome[work[w].token]

\* The claim state in which _record_claim_proof takes each proof.
RequiredState(proof) ==
    CASE proof = "not-materialized" -> "unmaterialized"
      [] proof = "reconciled-clean" -> "possible"
      [] OTHER                      -> "committed"

RecordProof(w) ==
    /\ At(w, "record") /\ claim.token = work[w].token
    /\ \/ claim.state = "cleaned" /\ claim.proof = ProofHeld(w) /\ UNCHANGED claim
       \/ /\ claim.state = RequiredState(ProofHeld(w))
          /\ claim' = [claim EXCEPT !.state = "cleaned", !.proof = ProofHeld(w)]
    /\ Goto(w, "ack")
    /\ UNCHANGED <<allocated, intent, journal, lock, nova, incus, requests>>

\* Incus retires the evidence; an answer of 404 is as good.
Acknowledge(w) ==
    LET t == work[w].token
    IN  /\ At(w, "ack")
        /\ attempt' = [attempt EXCEPT ![t] = IF @ = "proven" THEN "retired" ELSE @]
        /\ receipt' = [receipt EXCEPT ![t] = IF @ = "issued" THEN "acked" ELSE @]
        /\ Settles(w, t)
        /\ UNCHANGED <<registry, journal, lock, nova, outcome, operations, container,
                       rootfs, requests>>

-----------------------------------------------------------------------------
(* Final delete, terminal failed builds, and the replay of release intents. *)

\* _delete_instance: the release intent comes before anything is destroyed;
\* a claim left at possible is resolved first.
RequestRelease ==
    /\ At("request", "idle") /\ row = "live" /\ CanLock("request") /\ allocated
    /\ intent' = TRUE
    /\ IF claim.state = "possible" THEN Begin("request", "presettle", "promote", claim.token)
       ELSE Begin("request", "finaldestroy", "entry", NoToken)
    /\ UNCHANGED <<allocated, claim, journal, lock, nova, incus, requests>>

\* A delete of an instance that never allocated has nothing to fence.
DeleteUnallocated ==
    /\ At("request", "idle") /\ row = "live" /\ ~allocated
    /\ Begin("request", "finaldestroy", "entry", NoToken)
    /\ UNCHANGED <<registry, journal, lock, nova, incus, requests>>

\* _queue_terminal_failed_build_release, up to the settlement.  The opening
\* journal of the exact claim goes first, whatever is left of the instance.
BeginDispose ==
    /\ At("periodic", "idle") /\ row \in {"failed", "deleted"}
    /\ CanLock("periodic") /\ allocated /\ claim # NoClaim
    /\ \/ journal = NoJournal
       \/ journal.phase = "opening" /\ journal.token = claim.token
    /\ journal' = NoJournal
    /\ \/ container # NoToken /\ UNCHANGED work
       \/ /\ container = NoToken /\ claim.state = "possible"
          /\ Begin("periodic", "dispose", "promote", claim.token)
       \/ /\ container = NoToken /\ claim.state # "possible"
          /\ work' = [work EXCEPT !["periodic"] =
               [job |-> "dispose", pc |-> "exact", token |-> claim.token,
                final |-> claim.state # "unmaterialized"]]
    /\ UNCHANGED <<registry, lock, nova, incus, requests>>

\* ... and its release fence, for exactly the claim that was settled.
FenceFailedBuild ==
    /\ At("periodic", "fence") /\ CanLock("periodic")
    /\ allocated /\ row \in {"failed", "deleted"} /\ ResourcesAbsent
    /\ claim.token = work["periodic"].token
    /\ claim = NoClaim \/ claim.state = "cleaned"
    /\ intent' = TRUE
    /\ Done("periodic")
    /\ UNCHANGED <<allocated, claim, journal, lock, nova, incus, requests>>

\* _adopt_unclaimed_incus_idmap_allocations: an orphan gets its intent.
AdoptUnclaimed ==
    /\ At("periodic", "idle") /\ row = "deleted"
    /\ allocated /\ claim = NoClaim /\ ~intent
    /\ intent' = TRUE
    /\ UNCHANGED <<allocated, claim, host, nova, incus, requests>>

\* _replay_incus_idmap_release, and the second half of _delete_instance.
BeginRelease(w) ==
    /\ \/ w = "periodic" /\ At(w, "idle")
       \/ At(w, "complete")
    /\ lock = "free" /\ intent /\ allocated /\ row = "deleted" /\ ResourcesAbsent
    /\ lock' = w
    /\ \/ claim = NoClaim /\ Begin(w, "release", "retire", NoToken)
       \/ /\ claim.state = "possible" /\ At(w, "idle")
          /\ Begin(w, "release", "promote", claim.token)
       \/ /\ claim # NoClaim /\ (claim.state = "possible" => At(w, "complete"))
          /\ work' = [work EXCEPT ![w] =
               [job |-> "release", pc |-> "exact", token |-> claim.token,
                final |-> claim.state \in {"committed", "cleaned"}]]
    /\ UNCHANGED <<registry, journal, nova, incus, requests>>

\* The absence proof once more, the retirement of the settled claim, and the
\* release of the generation.
CompleteRelease(w) ==
    /\ At(w, "retire") /\ work[w].job = "release" /\ ResourcesAbsent
    /\ claim.token = work[w].token
    /\ claim = NoClaim \/ claim.state = "cleaned"
    /\ claim' = NoClaim /\ intent' = FALSE /\ allocated' = FALSE
    /\ lock' = "free"
    /\ Done(w)
    /\ UNCHANGED <<journal, nova, incus, requests>>

-----------------------------------------------------------------------------
(* Nova. *)

\* The last build of the instance failed: no host, state ERROR.
BuildFails ==
    /\ row = "live" /\ At("request", "idle")
    /\ row' = "failed"
    /\ UNCHANGED <<registry, host, spawned, incus, requests>>

\* The API deletes the row itself while this compute looks dead, or has no host.
LocalDelete ==
    /\ row # "deleted"
    /\ row' = "deleted"
    /\ UNCHANGED <<registry, host, spawned, incus, requests>>

-----------------------------------------------------------------------------
(* Incus. *)

Served(r) == r \in requests /\ requests' = requests \ {r}

Register(t) ==
    /\ Served(<<"register", t>>) /\ attempt[t] = "absent"
    /\ attempt' = [attempt EXCEPT ![t] = "active"]
    /\ UNCHANGED <<registry, host, nova, outcome, receipt, operations, container, rootfs>>

\* The durable start boundary: storage may exist from here on.
AcceptCreate(t) ==
    /\ Served(<<"create", t>>) /\ attempt[t] = "active"
    /\ container = NoToken /\ operations = {}
    /\ attempt' = [attempt EXCEPT ![t] = "started"]
    /\ operations' = operations \cup {t}
    /\ rootfs' = rootfs \cup {t}
    /\ UNCHANGED <<registry, host, nova, outcome, receipt, container>>

CommitCreate(t) ==
    /\ t \in operations /\ attempt[t] = "started"
    /\ attempt' = [attempt EXCEPT ![t] = "committed"]
    /\ operations' = operations \ {t}
    /\ container' = t
    /\ UNCHANGED <<registry, host, nova, outcome, receipt, rootfs, requests>>

FailCreate(t) ==
    /\ t \in operations
    /\ operations' = operations \ {t}
    /\ UNCHANGED <<registry, host, nova, attempt, outcome, receipt, container, rootfs,
                   requests>>

AcceptDelete(t) ==
    /\ Served(<<"delete", t>>) /\ container = t
    /\ container' = NoToken
    /\ rootfs' = rootfs \ {t}
    /\ receipt' = [receipt EXCEPT ![t] = "issued"]
    /\ UNCHANGED <<registry, host, nova, attempt, outcome, operations>>

\* A request lost on the way, or rejected with no effect.
Drop(r) ==
    /\ Served(r)
    /\ UNCHANGED <<registry, host, nova, incus>>

\* The tombstone of an acknowledged attempt goes.
Purge(t) ==
    /\ attempt[t] = "retired"
    /\ attempt' = [attempt EXCEPT ![t] = "absent"]
    /\ UNCHANGED <<registry, host, nova, outcome, receipt, operations, container, rootfs,
                   requests>>

-----------------------------------------------------------------------------
Spawn ==
    \/ \E t \in Tokens : SpawnPreflight(t)
    \/ OpenSpawnAttempt \/ BeginAllocate \/ BeginClaim \/ BeginRegistered
    \/ FinishSpawnAttemptOpen \/ PrepareFails \/ MarkPossible \/ PostCreate
    \/ CreateReturns \/ ObserveStart \/ SpawnReturns \/ AbortGet

Destroy ==
    \/ ConsumePreflightNoop \/ DestroyContext \/ ContainerAbsent
    \/ DeleteWithReceipt \/ DeleteReturns
    \/ \E retire \in BOOLEAN : DestroyCleanup(retire)
    \/ RequestRelease \/ DeleteUnallocated

Settlement(w) ==
    \/ DiscoverForPromotion(w) \/ PromoteClaim(w) \/ ExactClaim(w) \/ Discover(w)
    \/ AbandonClaim(w) \/ AbortAttempt(w) \/ SettleAttempt(w) \/ DiscoverReceipt(w)
    \/ RecordProof(w) \/ Acknowledge(w)

Reconcile ==
    \/ BeginDispose \/ FenceFailedBuild \/ AdoptUnclaimed
    \/ \E w \in Workers : BeginRelease(w) \/ CompleteRelease(w)

Incus ==
    \/ \E t \in Tokens : \/ Register(t) \/ AcceptCreate(t) \/ CommitCreate(t)
                          \/ FailCreate(t) \/ AcceptDelete(t) \/ Purge(t)
    \/ \E r \in requests : Drop(r)

Next ==
    \/ Spawn \/ Destroy \/ Reconcile \/ Incus \/ BuildFails \/ LocalDelete
    \/ \E w \in Workers : Settlement(w) \/ Raise(w)

Spec == Init /\ [][Next]_vars

\* A step of w's code, and a failure of w where its code could have gone on.
Step(w) == /\ ~At(w, "idle")
           /\ Spawn \/ Destroy \/ Reconcile \/ Settlement(w)
           /\ work'[w] # work[w]
Fault(w) == Raise(w) /\ ~Step(w) /\ ENABLED Step(w)

\* What the code's scheduling gives.  A worker runs on, or raises where its code
\* does; the periodic passes and the reaping of deleted instances come round
\* again, and do get to what they find (strong fairness, their turn being what
\* others may take away); Incus ends its operations and answers.  Crashes and
\* backend failures may be many but not for ever.
Fairness ==
    /\ \A w \in Workers : WF_vars(Step(w) \/ Raise(w))
    /\ <>[][\A w \in Workers : ~Fault(w)]_vars
    /\ SF_vars(BeginDispose) /\ SF_vars(BeginRelease("periodic"))
    /\ SF_vars(DestroyContext) /\ WF_vars(AdoptUnclaimed)
    /\ \A t \in Tokens : /\ WF_vars(CommitCreate(t) \/ FailCreate(t))
                         /\ WF_vars(AcceptCreate(t) \/ Drop(<<"create", t>>))
                         /\ SF_vars(AcceptDelete(t))

FairSpec == Spec /\ Fairness

-----------------------------------------------------------------------------
(* Properties. *)

\* A create that Incus can still start, or has started.
MayMaterialize(t) ==
    \/ t \in rootfs \/ t \in operations \/ container = t
    \/ <<"create", t>> \in requests /\ attempt[t] = "active"

\* Root storage, and every create request that can still make some, is covered
\* by the exact claim in a state that says so: no abandonment, retirement or
\* replacement of the claim happens under a create that is still on its way
\* (_with_rootfs_materialization_barrier, _settle_idmap_host_claim).
RootfsUnderClaim ==
    \A t \in Tokens : MayMaterialize(t) =>
        allocated /\ claim.token = t /\ claim.state \in {"possible", "committed"}

\* Incus's evidence is retired only after it is durable in the registry: a
\* claim that is not cleaned still has its proof or receipt to be settled
\* from (_record_and_ack_materialization_proof, _settle_idmap_host_claim).  A
\* committed claim means a committed root: it is there, or its receipt is
\* (_promote_idmap_claim_if_server_committed, DeleteWithReceipt).
EvidenceOutlivesClaim ==
    /\ claim.state \in {"possible", "committed"} =>
          attempt[claim.token] \notin {"absent", "retired"} /\ receipt[claim.token] # "acked"
    /\ claim.state = "committed" =>
          /\ attempt[claim.token] = "committed"
          /\ container = claim.token \/ receipt[claim.token] = "issued"

\* An empty destroy (_consume_spawn_preflight_noop) undoes a spawn that changed
\* nothing: no attempt of its token is or will be registered, nothing of it is
\* in the registry or on the pool.
NoopUndoesNothing ==
    [][journal # NoJournal /\ ConsumePreflightNoop =>
         /\ attempt[journal.token] = "absent" /\ ~MayMaterialize(journal.token)
         /\ \A kind \in {"register", "create"} : <<kind, journal.token>> \notin requests
      ]_vars

\* Disposal completes: once Nova has dropped the row and no spawn is half open,
\* a claim whose create reached Incus - failed, still running, or committed - is
\* settled and the range given back, whatever crashes on the way
\* (_reconcile_incus_idmap_host_claim, _replay_incus_idmap_release).
StartedBuildIsReleased ==
    (/\ row = "deleted" /\ journal = NoJournal
     /\ claim.state \in {"possible", "committed", "cleaned"}
     /\ claim.state = "possible" =>
          attempt[claim.token] # "active" /\ outcome[claim.token] # "not-materialized")
    ~> ~allocated

\* "settling it (abort for a registered attempt ...) proves non-materialization"
\* (manager.py, _delete_instance): the proof Incus gives for an interrupted
\* create is one the claim can be settled with.
InterruptedCreateSettles ==
    claim.state = "possible" =>
        outcome[claim.token] \in {"none"} \cup {p \in Proofs : RequiredState(p) = "possible"}

=============================================================================
