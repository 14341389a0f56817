------------------------------ MODULE FleetAudit ------------------------------
(***************************************************************************)
(* The fleet auditor of nova/virt/incus/idmap.py: one process at a time    *)
(* owns the lease-backed coordinator record, audits the registry, and      *)
(* publishes the health generation every registry mutation compares.       *)
(*                                                                         *)
(* Two control records lie beside the registry in etcd: the coordinator    *)
(* (token, pending | healthy, generation; attached to a lease, so that it  *)
(* disappears when the lease expires) and the sticky failure (no lease).   *)
(* Each compute process has ONE allocator, whose fields (integrity latch,  *)
(* audit lease, verified generation) its threads share: the periodic task  *)
(* that heartbeats and audits, and the threads of lifecycle operations,    *)
(* any of which starts an audit of its own when it finds no coordinator.   *)
(*                                                                         *)
(* One action is one request of a thread to etcd together with the local   *)
(* code that follows it, up to the next request.  Where an assignment made *)
(* on the answer is visible to the other thread of the process (Acquire,   *)
(* Publish), applying the request and receiving its answer are two actions.*)
(* The registry itself is IdmapRegistry; here it is only as sound as an    *)
(* audit can tell.                                                         *)
(***************************************************************************)
EXTENDS Naturals

CONSTANTS
    Computes,        \* compute processes of the migration domain
    Periodics,       \* their periodic-task threads
    Callers,         \* their threads running lifecycle operations
    Home,            \* Home[t]: the compute thread t belongs to
    Tokens,          \* process UUIDs; an id is not reused while anything names it
    Generations,     \* audit generation UUIDs, likewise
    Leases,          \* etcd lease ids, likewise
    MaxFaults,       \* bound on crashes, lost requests, stalls and restores
    MaxCorruptions   \* bound on damages to the registry

Threads == Periodics \cup Callers

ASSUME ThreadsAssumption ==
    Periodics \cap Callers = {} /\ Home \in [Threads -> Computes]
ASSUME IdsAssumption ==
    Tokens \cup Generations \cup Leases \subseteq Nat \ {0}
ASSUME BoundsAssumption == MaxFaults \in Nat /\ MaxCorruptions \in Nat

VARIABLES
    registry,     \* "clean"; "counts": damage a count probe sees; "content": only a full scan
    coordinator,  \* the coordinator record and the lease it is attached to
    failure,      \* TRUE iff the sticky failure record exists
    leases,       \* leases[l]: "free", "fresh" or "aged" (may expire unless refreshed)
    alloc,        \* alloc[c]: the fields of c's allocator
    thread,       \* thread[t]: where t is, and its local variables
    faults, corruptions,
    vetted,       \* leases under which a full scan has found the registry clean
    condemned     \* leases under which an audit has failed and been withdrawn

control == <<coordinator, failure, leases>>
ghosts == <<vetted, condemned>>
bounds == <<faults, corruptions>>
vars == <<registry, control, alloc, thread, bounds, ghosts>>

-----------------------------------------------------------------------------
(* Records. *)

Raw == [token : Tokens, state : {"pending", "healthy"}, gen : Generations]
NoRaw == [token |-> 0, state |-> "absent", gen |-> 0]
Coordinator == [raw : Raw, lease : Leases \cup {0}]
Absent == [raw |-> NoRaw, lease |-> 0]
\* What an allocator may believe in: a leased healthy record.
Verified == {r \in Coordinator : r.raw.state = "healthy" /\ r.lease # 0}

PCs == {"idle", "begin", "acquire", "acquired", "refresh", "probe", "scan",
        "tell", "withdraw", "publish", "published",
        "recheck", "read", "reguard", "reread", "mutate"}

\* The locals of a thread: whether a full audit is asked for, the record its
\* election found, the lease of its audit, the raw its audit will compare
\* (expected_raw), and whether the audit returns a snapshot.
Local == [pc : PCs, full : BOOLEAN, seen : Coordinator \cup {Absent},
          lease : Leases \cup {0}, expected : Raw \cup {NoRaw}, snapshot : BOOLEAN]
Idle == [pc |-> "idle", full |-> FALSE, seen |-> Absent, lease |-> 0,
         expected |-> NoRaw, snapshot |-> FALSE]
At(pc) == [Idle EXCEPT !.pc = pc]

Allocator == [up : BOOLEAN, token : Tokens \cup {0}, latch : BOOLEAN,
              lease : Leases \cup {0}, health : Verified \cup {Absent},
              fullDue : BOOLEAN]
Down == [up |-> FALSE, token |-> 0, latch |-> FALSE, lease |-> 0,
         health |-> Absent, fullDue |-> FALSE]
Started(token) == [Down EXCEPT !.up = TRUE, !.token = token]

TypeOK ==
    /\ registry \in {"clean", "counts", "content"}
    /\ coordinator \in Coordinator \cup {Absent}
    /\ failure \in BOOLEAN
    /\ leases \in [Leases -> {"free", "fresh", "aged"}]
    /\ alloc \in [Computes -> Allocator]
    /\ thread \in [Threads -> Local]
    /\ faults \in 0 .. MaxFaults /\ corruptions \in 0 .. MaxCorruptions
    /\ vetted \subseteq Leases
    /\ condemned \subseteq Leases

-----------------------------------------------------------------------------
(* Fresh identifiers: ids nothing names any more stand for new ones. *)

Remembered == {coordinator} \cup {alloc[c].health : c \in Computes}
                            \cup {thread[t].seen : t \in Threads}
UsedTokens == {alloc[c].token : c \in Computes} \cup {r.raw.token : r \in Remembered}
UsedGens == {r.raw.gen : r \in Remembered} \cup {thread[t].expected.gen : t \in Threads}
UsedLeases == {r.lease : r \in Remembered} \cup {alloc[c].lease : c \in Computes}
              \cup {thread[t].lease : t \in Threads}
              \cup {l \in Leases : leases[l] # "free"}

Smallest(S) == CHOOSE x \in S : \A y \in S : x <= y
NewToken == Smallest(Tokens \ UsedTokens)
NewGen == Smallest(Generations \ UsedGens)
NewLease == Smallest(Leases \ UsedLeases)

\* Id spaces that never run out in a run (sized in the cfg).
IdsLeft == /\ Tokens \ UsedTokens # {}
           /\ Generations \ UsedGens # {}
           /\ Leases \ UsedLeases # {}

-----------------------------------------------------------------------------
(* etcd: the compares and the writes. *)

\* A record that authorises work: healthy, and attached to a lease.
Healthy == coordinator.raw.state = "healthy" /\ coordinator.lease # 0

\* Mutant: the guard compares the value of the record, not its lease.
GuardHolds_AnyLease(c) ==
    /\ ~failure
    /\ alloc[c].health # Absent
    /\ coordinator.raw = alloc[c].health.raw

\* The compares of a guarded transaction against the generation c believes in.
GuardHolds(c) ==
    /\ ~failure
    /\ alloc[c].health # Absent
    /\ coordinator.raw = alloc[c].health.raw
    /\ coordinator.lease = alloc[c].health.lease

\* Mutant: the coordinator is replaced by an owner that compares its lease and
\* not the generation it audited.
Replaces_AnyGeneration(raw, lease) ==
    ~failure /\ coordinator.lease = lease /\ (lease = 0 => coordinator.raw = raw)

\* The compares of _replace_audit_coordinator.
Replaces(raw, lease) ==
    /\ ~failure
    /\ coordinator.raw = raw
    /\ coordinator.lease = lease

\* A lease that ends takes the record attached to it along.
Free(l) ==
    /\ leases' = [leases EXCEPT ![l] = "free"]
    /\ vetted' = vetted \ {l} /\ condemned' = condemned \ {l}
    /\ IF coordinator.lease = l THEN coordinator' = Absent
       ELSE UNCHANGED coordinator

-----------------------------------------------------------------------------
(* Local steps. *)

\* t goes on with locals l; t's compute changes its allocator to a.
Go(t, l) == thread' = [thread EXCEPT ![t] = l]
Step(t, l, a) == Go(t, l) /\ alloc' = [alloc EXCEPT ![Home[t]] = a]
Mine(t) == alloc[Home[t]]
OnlyLocal == UNCHANGED <<registry, control, bounds, ghosts>>

Fault == faults < MaxFaults /\ faults' = faults + 1 /\ UNCHANGED corruptions

\* Where an audit that is not this process's to run leaves its thread: the
\* periodic task is done, an operation reads the control records again.
Elsewhere(t) == IF t \in Callers THEN At("recheck") ELSE Idle

\* _latch_fleet_failure: the sticky record latches the process that reads it.
Latch(t) == Step(t, Idle, [Mine(t) EXCEPT !.latch = TRUE])
Trust(t, l) == Step(t, l, [Mine(t) EXCEPT !.health = coordinator])
Distrust(t, l) == Step(t, l, [Mine(t) EXCEPT !.health = Absent])

Init ==
    /\ registry = "clean"
    /\ coordinator = Absent
    /\ failure = FALSE
    /\ leases = [l \in Leases |-> "free"]
    /\ alloc = [c \in Computes |-> Down]
    /\ thread = [t \in Threads |-> Idle]
    /\ faults = 0 /\ corruptions = 0
    /\ vetted = {} /\ condemned = {}

-----------------------------------------------------------------------------
(* run_coordinated_audit: the control read and the election. *)

\* The periodic task starts an audit of its own accord, unless it is latched;
\* an operation comes here from _ensure_fleet_healthy.
Beginning(t) ==
    /\ Mine(t).up
    /\ \/ thread[t].pc = "begin"
       \/ t \in Periodics /\ thread[t] = Idle
    /\ ~Mine(t).latch

BeginLatched(t) ==
    /\ thread[t].pc = "begin" /\ Mine(t).latch
    /\ Go(t, Idle) /\ OnlyLocal /\ UNCHANGED alloc

BeginFailed(t) ==
    /\ Beginning(t) /\ failure
    /\ Latch(t) /\ OnlyLocal

Asked(t) == IF t \in Periodics THEN Mine(t).fullDue ELSE thread[t].full

\* No record, or one without a lease: grant a lease and try to replace it.
BeginElection(t) ==
    /\ Beginning(t) /\ ~failure
    /\ coordinator.lease = 0
    /\ Leases \ UsedLeases # {}
    /\ leases' = [leases EXCEPT ![NewLease] = "fresh"]
    /\ Go(t, [At("acquire") EXCEPT !.seen = coordinator, !.lease = NewLease])
    /\ UNCHANGED <<registry, coordinator, failure, alloc, bounds, ghosts>>

BeginFollower(t) ==
    /\ Beginning(t) /\ ~failure
    /\ coordinator.lease # 0 /\ coordinator.raw.token # Mine(t).token
    /\ Go(t, Elsewhere(t)) /\ OnlyLocal /\ UNCHANGED alloc

\* The process's own record, but under a lease it does not hold, or pending: it
\* steps down and leaves the record to expire.
Owns(t) == coordinator.lease # 0 /\ coordinator.raw.token = Mine(t).token

\* Mutant: the lease is kept alive before the state of the record is looked at.
BeginStepDown_Refreshes(t) ==
    /\ Beginning(t) /\ ~failure /\ Owns(t)
    /\ Mine(t).lease = coordinator.lease /\ coordinator.raw.state = "pending"
    /\ leases' = [leases EXCEPT ![coordinator.lease] = "fresh"]
    /\ Go(t, Idle)
    /\ UNCHANGED <<registry, coordinator, failure, alloc, bounds, ghosts>>

BeginStepDown(t) ==
    /\ Beginning(t) /\ ~failure /\ Owns(t)
    /\ \/ /\ Mine(t).lease \in {0, coordinator.lease}
          /\ Mine(t).lease = 0 \/ coordinator.raw.state = "pending"
          /\ Go(t, Idle) /\ UNCHANGED alloc
       \/ /\ Mine(t).lease \notin {0, coordinator.lease}
          /\ Distrust(t, Idle)
    /\ OnlyLocal

BeginRoutine(t) ==
    /\ Beginning(t) /\ ~failure /\ Owns(t)
    /\ Mine(t).lease = coordinator.lease /\ coordinator.raw.state = "healthy"
    /\ Trust(t, [At("refresh") EXCEPT !.full = Asked(t), !.lease = coordinator.lease,
                                      !.expected = coordinator.raw])
    /\ OnlyLocal

\* _refresh_audit_lease: an expired lease ends the audit before it starts.
Refresh(t) ==
    /\ thread[t].pc = "refresh"
    /\ IF leases[Mine(t).lease] = "free"
       THEN Go(t, Idle) /\ UNCHANGED leases
       ELSE /\ leases' = [leases EXCEPT ![Mine(t).lease] = "fresh"]
            /\ Go(t, [thread[t] EXCEPT !.pc = IF thread[t].full THEN "scan" ELSE "probe",
                                       !.full = FALSE])
    /\ UNCHANGED <<registry, coordinator, failure, alloc, bounds, ghosts>>

\* The candidate's CAS puts a pending record under its lease.
Acquire(t) ==
    LET l == thread[t]
        pending == [token |-> Mine(t).token, state |-> "pending", gen |-> NewGen]
    IN  /\ l.pc = "acquire"
        /\ Replaces(l.seen.raw, l.seen.lease)
        /\ leases[l.lease] # "free"
        /\ Generations \ UsedGens # {}
        /\ coordinator' = [raw |-> pending, lease |-> l.lease]
        /\ Go(t, [l EXCEPT !.pc = "acquired", !.seen = Absent, !.expected = pending])
        /\ UNCHANGED <<registry, failure, leases, alloc, bounds, vetted, condemned>>

\* A lost election revokes the lease; a put under an expired lease raises.
AcquireRefused(t) ==
    LET l == thread[t]
        lost == ~Replaces(l.seen.raw, l.seen.lease)
    IN  /\ l.pc = "acquire"
        /\ lost \/ leases[l.lease] = "free"
        /\ Go(t, IF lost THEN Elsewhere(t) ELSE Idle)
        /\ Free(l.lease)
        /\ UNCHANGED <<registry, failure, alloc, bounds>>

\* The answer is lost, whether or not the CAS was applied: the lease is revoked,
\* and the record with it, unless the revocation is lost too (which, for a lease
\* that holds no record, makes no difference to anyone).
AcquireLost(t) ==
    /\ thread[t].pc \in {"acquire", "acquired"}
    /\ Fault
    /\ Go(t, Idle)
    /\ \/ Free(thread[t].lease)
       \/ thread[t].pc = "acquired" /\ UNCHANGED <<coordinator, leases, ghosts>>
    /\ UNCHANGED <<registry, failure, alloc>>

Acquired(t) ==
    /\ thread[t].pc = "acquired"
    /\ Step(t, [thread[t] EXCEPT !.pc = "scan"],
            [Mine(t) EXCEPT !.lease = thread[t].lease, !.health = Absent])
    /\ OnlyLocal

-----------------------------------------------------------------------------
(* run_coordinated_audit: the audit and its outcome. *)

\* _probe_snapshot: a mismatch of the counts escalates to a full scan.
Probe(t) ==
    /\ thread[t].pc = "probe"
    /\ Go(t, [thread[t] EXCEPT !.pc = IF registry = "counts" THEN "scan" ELSE "publish"])
    /\ OnlyLocal /\ UNCHANGED alloc

\* _audit_with_latch: a full scan sees any damage and latches the process.
ScanClean(t) ==
    /\ thread[t].pc = "scan" /\ registry = "clean"
    /\ Go(t, [thread[t] EXCEPT !.pc = "publish", !.snapshot = TRUE])
    /\ vetted' = IF leases[thread[t].lease] = "free" THEN vetted
                 ELSE vetted \cup {thread[t].lease}
    /\ UNCHANGED <<registry, control, alloc, bounds, condemned>>

ScanCorrupt(t) ==
    /\ thread[t].pc = "scan" /\ registry # "clean"
    /\ Step(t, [thread[t] EXCEPT !.pc = "tell"], [Mine(t) EXCEPT !.latch = TRUE])
    /\ OnlyLocal

\* The registry cannot be read: nothing is known, and the audit has failed.
AuditError(t) ==
    /\ thread[t].pc \in {"probe", "scan"}
    /\ Fault
    /\ Go(t, [thread[t] EXCEPT !.pc = "withdraw"])
    /\ UNCHANGED <<registry, control, alloc, ghosts>>

\* _publish_integrity_failure, whose backend error the audit swallows.
Tell(t) ==
    /\ thread[t].pc = "tell"
    /\ failure' = TRUE
    /\ Go(t, [thread[t] EXCEPT !.pc = "withdraw"])
    /\ UNCHANGED <<registry, coordinator, leases, alloc, bounds, ghosts>>

TellLost(t) ==
    /\ thread[t].pc = "tell"
    /\ Fault
    /\ Go(t, [thread[t] EXCEPT !.pc = "withdraw"])
    /\ UNCHANGED <<registry, control, alloc, ghosts>>

\* After a failed audit the generation it started from is replaced by pending;
\* a record still pending is left as it is, to expire.
Withdraw(t) ==
    LET l == thread[t]
        pending == [token |-> Mine(t).token, state |-> "pending", gen |-> NewGen]
        held == Replaces(l.expected, Mine(t).lease)
    IN  /\ l.pc = "withdraw"
        /\ Generations \ UsedGens # {}
        /\ IF l.expected.state = "healthy" /\ held
           THEN coordinator' = [raw |-> pending, lease |-> Mine(t).lease]
           ELSE UNCHANGED coordinator
        /\ condemned' = IF held THEN condemned \cup {coordinator.lease} ELSE condemned
        /\ Distrust(t, Idle)
        /\ UNCHANGED <<registry, failure, leases, bounds, vetted>>

WithdrawLost(t) ==
    /\ thread[t].pc = "withdraw" /\ thread[t].expected.state = "healthy"
    /\ Fault
    /\ Distrust(t, Idle)
    /\ UNCHANGED <<registry, control, ghosts>>

\* After a successful one it is replaced by a new healthy generation.
Publish(t) ==
    LET l == thread[t]
        healthy == [token |-> Mine(t).token, state |-> "healthy", gen |-> NewGen]
    IN  /\ l.pc = "publish"
        /\ Replaces(l.expected, Mine(t).lease)
        /\ Generations \ UsedGens # {}
        /\ coordinator' = [raw |-> healthy, lease |-> Mine(t).lease]
        /\ Go(t, [l EXCEPT !.pc = "published", !.expected = healthy, !.lease = Mine(t).lease])
        /\ UNCHANGED <<registry, failure, leases, alloc, bounds, vetted, condemned>>

\* The record has changed hands: an error, which changes nothing.
PublishRefused(t) ==
    /\ thread[t].pc = "publish"
    /\ ~Replaces(thread[t].expected, Mine(t).lease)
    /\ Go(t, Idle) /\ OnlyLocal /\ UNCHANGED alloc

PublishLost(t) ==
    /\ thread[t].pc \in {"publish", "published"}
    /\ Fault
    /\ Go(t, Idle)
    /\ UNCHANGED <<registry, control, alloc, ghosts>>

\* Mutant: the deadline of the next full audit also moves after a mere probe.
Published_ProbeIsEnough(t) ==
    LET l == thread[t] IN
    /\ l.pc = "published"
    /\ Step(t, IF t \in Callers THEN At("read") ELSE Idle,
            [Mine(t) EXCEPT !.health = [raw |-> l.expected, lease |-> l.lease],
                            !.fullDue = @ /\ t \in Callers])
    /\ OnlyLocal

\* An operation proceeds; the periodic task moves its deadline when it scanned.
Published(t) ==
    LET l == thread[t] IN
    /\ l.pc = "published"
    /\ Step(t, IF t \in Callers THEN At("read") ELSE Idle,
            [Mine(t) EXCEPT !.health = [raw |-> l.expected, lease |-> l.lease],
                            !.fullDue = @ /\ ~(t \in Periodics /\ l.snapshot)])
    /\ OnlyLocal

-----------------------------------------------------------------------------
(* A lifecycle operation: _ensure_initialized, a guarded read, a mutation. *)

\* _ensure_fleet_healthy: read the control records; without a leased record,
\* audit the fleet before the operation goes on.
Ensure(t) ==
    /\ t \in Callers /\ thread[t] = Idle /\ Mine(t).up /\ ~Mine(t).latch
    /\ \/ failure /\ Latch(t)
       \/ ~failure /\ Healthy /\ Trust(t, At("read"))
       \/ /\ ~failure /\ coordinator.lease = 0
          /\ Go(t, [At("begin") EXCEPT !.full = TRUE]) /\ UNCHANGED alloc
    /\ OnlyLocal

\* The same read after an audit that was another process's to run: now a
\* record that is absent or pending ends the operation.
Recheck(t) ==
    /\ thread[t].pc = "recheck"
    /\ \/ failure /\ Latch(t)
       \/ ~failure /\ Healthy /\ Trust(t, At("read"))
       \/ ~failure /\ ~Healthy /\ Go(t, Idle) /\ UNCHANGED alloc
    /\ OnlyLocal

\* _read_exact under the guard.  The first refused read refreshes the guard.
Read(t) ==
    /\ thread[t].pc \in {"read", "reread"}
    /\ Go(t, IF GuardHolds(Home[t]) THEN At("mutate")
             ELSE IF thread[t].pc = "read" /\ Mine(t).health # Absent
                  THEN [At("reguard") EXCEPT !.expected = Mine(t).health.raw]
                  ELSE Idle)
    /\ OnlyLocal /\ UNCHANGED alloc

\* Mutant: the refreshed guard does not ask whether the record is healthy.
Reguard_AnyState(t) ==
    /\ thread[t].pc = "reguard"
    /\ ~failure /\ coordinator.lease # 0
    /\ Trust(t, At("reread"))
    /\ OnlyLocal

\* _refresh_fleet_read_guard: retry only under a new healthy generation.
Reguard(t) ==
    /\ thread[t].pc = "reguard"
    /\ \/ failure /\ Latch(t)
       \/ /\ ~failure /\ Healthy
          /\ Trust(t, IF coordinator.raw # thread[t].expected THEN At("reread") ELSE Idle)
       \/ ~failure /\ ~Healthy /\ Go(t, Idle) /\ UNCHANGED alloc
    /\ OnlyLocal

\* The transaction of the operation, with _guard_compares.
Mutate(t) ==
    /\ thread[t].pc = "mutate" /\ GuardHolds(Home[t])
    /\ Go(t, Idle)
    /\ UNCHANGED <<registry, control, alloc, bounds, ghosts>>

\* A refused transaction: the operation reads again, or, where its guard is
\* gone, ends.
MutateRefused(t) ==
    /\ thread[t].pc = "mutate" /\ ~GuardHolds(Home[t])
    /\ Go(t, IF Mine(t).health = Absent THEN Idle ELSE At("read"))
    /\ OnlyLocal /\ UNCHANGED alloc

\* Any other request of a thread may be lost, or its answer: the call raises.
RequestLost(t) ==
    /\ thread[t].pc \in {"begin", "refresh", "recheck", "read", "reguard", "reread", "mutate"}
    /\ Fault
    /\ Go(t, Idle)
    /\ UNCHANGED <<registry, control, alloc, ghosts>>

-----------------------------------------------------------------------------
(* Everything else: time, processes, operators and damage. *)

\* _incus_full_idmap_audit_due: the deadline of the next complete scan passes.
FullDue(t) ==
    /\ t \in Periodics /\ Mine(t).up /\ ~Mine(t).fullDue
    /\ Step(t, thread[t], [Mine(t) EXCEPT !.fullDue = TRUE])
    /\ OnlyLocal

Age(l) ==
    /\ leases[l] = "fresh"
    /\ leases' = [leases EXCEPT ![l] = "aged"]
    /\ UNCHANGED <<registry, coordinator, failure, alloc, thread, bounds, ghosts>>

\* A lease expires when it is not refreshed in time.  While its audit is under
\* way that takes a stall of the auditor longer than the lease: a fault.
Expire(l) ==
    /\ leases[l] = "aged"
    /\ IF \E t \in Threads : thread[t].lease = l
       THEN Fault
       ELSE UNCHANGED bounds
    /\ Free(l)
    /\ UNCHANGED <<registry, failure, alloc, thread>>

\* A process ends, and all it remembers with it.
Crash(c) ==
    /\ alloc[c].up
    /\ Fault
    /\ alloc' = [alloc EXCEPT ![c] = Down]
    /\ thread' = [t \in Threads |-> IF Home[t] = c THEN Idle ELSE thread[t]]
    /\ UNCHANGED <<registry, control, ghosts>>

Restart(c) ==
    /\ ~alloc[c].up
    /\ Tokens \ UsedTokens # {}
    /\ alloc' = [alloc EXCEPT ![c] = Started(NewToken)]
    /\ UNCHANGED thread /\ OnlyLocal

\* The documented repair: every compute is stopped, the registry repaired, the
\* failure record deleted and the coordinator's lease waited out; then the
\* computes are started again.  Nothing runs in between, so it is one step.
Repair ==
    /\ failure
    /\ registry' = "clean" /\ failure' = FALSE /\ coordinator' = Absent
    /\ leases' = [l \in Leases |-> "free"]
    /\ alloc' = [c \in Computes |-> Down]
    /\ thread' = [t \in Threads |-> Idle]
    /\ vetted' = {} /\ condemned' = {}
    /\ UNCHANGED bounds

\* A stale backup puts a former generation back, without its lease.
Restore(c) ==
    /\ alloc[c].health # Absent
    /\ Fault
    /\ coordinator' = [raw |-> alloc[c].health.raw, lease |-> 0]
    /\ UNCHANGED <<registry, failure, leases, alloc, thread, ghosts>>

Corrupt(damage) ==
    /\ registry = "clean" /\ corruptions < MaxCorruptions
    /\ registry' = damage /\ corruptions' = corruptions + 1
    /\ UNCHANGED <<control, alloc, thread, faults, ghosts>>

Auditing(t) ==
    \/ BeginLatched(t) \/ BeginFailed(t) \/ BeginElection(t) \/ BeginFollower(t)
    \/ BeginStepDown(t) \/ BeginRoutine(t) \/ Refresh(t)
    \/ Acquire(t) \/ AcquireRefused(t) \/ Acquired(t)
    \/ Probe(t) \/ ScanClean(t) \/ ScanCorrupt(t) \/ Tell(t) \/ Withdraw(t)
    \/ Publish(t) \/ PublishRefused(t) \/ Published(t)
Operating(t) ==
    Ensure(t) \/ Recheck(t) \/ Read(t) \/ Reguard(t) \/ Mutate(t) \/ MutateRefused(t)
Losing(t) ==
    \/ AcquireLost(t) \/ AuditError(t) \/ TellLost(t) \/ WithdrawLost(t)
    \/ PublishLost(t) \/ RequestLost(t)

Next ==
    \/ \E t \in Threads : Auditing(t) \/ Operating(t) \/ Losing(t) \/ FullDue(t)
    \/ \E c \in Computes : Crash(c) \/ Restart(c) \/ Restore(c)
    \/ \E l \in Leases : Age(l) \/ Expire(l)
    \/ Repair
    \/ \E damage \in {"counts", "content"} : Corrupt(damage)

Spec == Init /\ [][Next]_vars

\* Threads keep running, deadlines pass, leases nobody refreshes expire, and a
\* stopped process is started again.
Fairness ==
    /\ \A t \in Threads : WF_vars(Auditing(t) \/ Operating(t)) /\ WF_vars(FullDue(t))
    /\ \A c \in Computes : WF_vars(Restart(c))
    /\ \A l \in Leases : WF_vars(Age(l)) /\ WF_vars(Expire(l))
LiveSpec == Spec /\ Fairness

-----------------------------------------------------------------------------
(* Properties. *)

\* "Every acquisition requires a complete audit before the key may become
\* healthy": a leased healthy record is under a lease whose owner has read the
\* whole registry and found it clean since it took the lease - even when another
\* thread of the same process finishes an audit begun under an earlier lease.  An
\* audit that failed and left its record pending is never declared healthy
\* later: the lease must expire and a new owner audit from the start.
HealthIsVetted ==
    Healthy => coordinator.lease \in vetted /\ coordinator.lease \notin condemned

\* A mutation commits only under a leased, healthy, vetted record and without a
\* sticky failure - whatever its process verified when the operation began.
MutationsAreVetted ==
    [][(\E t \in Callers : Mutate(t))
       => ~failure /\ Healthy /\ coordinator.lease \in vetted]_vars

\* Lease expiry is failure detection and election: while the registry stays
\* sound, whatever became of its auditors, the fleet becomes healthy again.
HealthReturns == <>[](registry = "clean" /\ ~failure) => []<>Healthy

\* Damage, even damage only a full scan sees, ends in the sticky failure or in a
\* record that authorises nothing.
DamageIsFound == (registry # "clean") ~> (failure \/ ~Healthy)

=============================================================================
