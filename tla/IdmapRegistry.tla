----------------------------- MODULE IdmapRegistry -----------------------------
(***************************************************************************)
(* The shared ID-map registry of nova/virt/incus/idmap.py: the etcd        *)
(* records IDMapAllocator keeps for every instance, and the compare-and-   *)
(* swap (CAS) transactions by which the computes of the fleet change them. *)
(*                                                                         *)
(* A record family is the set of the records it stores; the etcd key of a  *)
(* record is the fields the code builds the key from:                      *)
(*                                                                         *)
(*   instances  one Assignment per instance      instances/<uuid>          *)
(*   slots      the same raw, filed under slot   slots/<slot>              *)
(*   releases   immutable release intents        releases/<uuid>           *)
(*   claims     host/materialization claims      hosts/<host>/<uuid>       *)
(*   fences     the ledger of fenced disposals   fences/<host>/<uuid>      *)
(*                                                                         *)
(* Every operation of the allocator reads its records at one etcd revision *)
(* (_read_assignment_state), decides on that snapshot, and sends ONE       *)
(* transaction whose compares name the exact values it read.  The actions  *)
(* Read<Op> are the read and the decision, with every early return of the  *)
(* code as a guard (a call that returns or raises changes nothing); the    *)
(* actions Commit<Op> are etcd applying the transaction.  Between the two, *)
(* and after the second, the transaction is in `net': etcd may apply it    *)
(* late, never, or - the client replays a transaction whose response was   *)
(* lost - more than once.  Forget is everything that ends a transaction:   *)
(* a failed compare, a received answer, a lost request, a crashed compute. *)
(* The 64-attempt loops of the code are a Forget and another Read.         *)
(*                                                                         *)
(* The compares every transaction shares (configuration, absence of the    *)
(* sticky failure, healthy audit generation and its lease) only make more  *)
(* transactions fail; they are the subject of FleetAudit and left out      *)
(* here, so what holds here holds without their help.                      *)
(***************************************************************************)
EXTENDS Naturals, FiniteSets

CONSTANTS
    Instances,      \* Nova instance UUIDs (U)
    Slots,          \* ID-map slots 0 .. count-1; any set, hashing only orders the scan
    Hosts,          \* persistent compute-node UUIDs (H)
    Tokens,         \* materialization UUIDs (T)
    Allocs,         \* allocation UUIDs (A): one per allocation generation
    MaxInFlight,    \* bound on the transactions in `net' at once
    PowerOffDrains  \* TRUE iff powering a host off also ends its transactions

ASSUME MaxInFlightAssumption == MaxInFlight \in Nat
ASSUME PowerOffDrainsAssumption == PowerOffDrains \in BOOLEAN

VARIABLES
    instances, slots, releases, claims, fences,
    net,            \* transactions etcd may still apply
    usedAllocs,     \* allocation UUIDs generated so far (uuid4 never repeats)
    usedTokens,     \* materialization UUIDs generated so far
    live,           \* live[h]: <<token, instance>> of the calls h's process has made
    up              \* the hosts that are powered on

registry == <<instances, slots, releases, claims, fences>>
fleet == <<usedAllocs, usedTokens, live, up>>
vars == <<registry, net, fleet>>

-----------------------------------------------------------------------------
(* Records. *)

Assignment == [uuid: Instances, slot: Slots, alloc: Allocs, hosts: SUBSET Hosts]
Generation == [uuid: Instances, slot: Slots, alloc: Allocs]
Intent == Generation

Outcomes == {"not-materialized", "reconciled-clean", "receipt"}
States == {"unmaterialized", "possible", "committed", "cleaned"}

Claim == [host: Hosts, gen: Generation, token: Tokens, state: States,
          proof: Outcomes \cup {"none"}]
Fence == [host: Hosts, uuid: Instances, alloc: Allocs, token: Tokens]

\* The identity _same_generation compares.
Gen(a) == [uuid |-> a.uuid, slot |-> a.slot, alloc |-> a.alloc]

\* The state in which _record_claim_proof accepts each kind of proof.
RequiredState(outcome) ==
    CASE outcome = "not-materialized" -> "unmaterialized"
      [] outcome = "reconciled-clean" -> "possible"
      [] outcome = "receipt"          -> "committed"

\* Mutant: the claim is written in a state its parser does not know.
NewClaim_UnknownState(cur, h, T) ==
    [host |-> h, gen |-> Gen(cur), token |-> T,
     state |-> "claimed", proof |-> "none"]

NewClaim(cur, h, T) ==
    [host |-> h, gen |-> Gen(cur), token |-> T,
     state |-> "unmaterialized", proof |-> "none"]

\* Transactions, by the records they compare and the records they write.
Txn ==
    [op: {"allocate"}, new: Assignment]
      \cup [op: {"claim"}, cur: Assignment, new: Claim]
      \cup [op: {"reclaim", "possible", "committed", "proof"},
            cur: Assignment, old: Claim, new: Claim]
      \cup [op: {"fence", "abandon", "retire"}, cur: Assignment, old: Claim]
      \cup [op: {"request"}, cur: Assignment]
      \cup [op: {"release"}, cur: Assignment, intent: Intent]

\* The host whose process sent t: the operations on a claim are local to its
\* host, the others may come from any compute and outlive a power-off.
Author(t) ==
    IF t.op = "claim" THEN {t.new.host}
    ELSE IF t.op \in {"reclaim", "possible", "committed", "proof", "abandon", "retire"}
    THEN {t.old.host} ELSE {}

-----------------------------------------------------------------------------
(* etcd: compares and puts. *)

\* instance_key and slot_key both hold the raw the transaction compares.
AssignmentUnchanged(a) == a \in instances /\ a \in slots
ReleaseAbsent(u) == \A i \in releases : i.uuid # u
HostClaimAbsent(h, u) == \A c \in claims : ~(c.host = h /\ c.gen.uuid = u)

PutInstance(a) == {b \in instances : b.uuid # a.uuid} \cup {a}
PutSlot(a) == {b \in slots : b.slot # a.slot} \cup {a}
WithoutClaim(c) == {d \in claims : ~(d.host = c.host /\ d.gen.uuid = c.gen.uuid)}
PutClaim(c) == WithoutClaim(c) \cup {c}
PutFence(f) == {g \in fences : ~(g.host = f.host /\ g.uuid = f.uuid)} \cup {f}

WithHost(a, h) == [a EXCEPT !.hosts = @ \cup {h}]
WithoutHost(a, h) == [a EXCEPT !.hosts = @ \ {h}]

-----------------------------------------------------------------------------
Init ==
    /\ instances = {} /\ slots = {} /\ releases = {} /\ claims = {} /\ fences = {}
    /\ net = {}
    /\ usedAllocs = {} /\ usedTokens = {}
    /\ live = [h \in Hosts |-> {}]
    /\ up = Hosts

-----------------------------------------------------------------------------
(* Reads: one snapshot, one decision, one transaction. *)

\* What _read_assignment_state accepts of the allocation cur; it raises an
\* integrity error on anything else.
Snapshot(cur) ==
    /\ cur \in instances \cap slots
    /\ \A h \in cur.hosts : \E c \in claims : c.host = h /\ c.gen = Gen(cur)
    /\ \A i \in releases : i.uuid = cur.uuid => i = Gen(cur)

\* c is the entry of c.host among the claims that read returns.
Holds(cur, c) == c \in claims /\ c.gen = Gen(cur) /\ c.host \in cur.hosts

Send(t) == /\ Cardinality(net) < MaxInFlight
           /\ net' = net \cup {t}

\* allocate: no allocation yet (an existing one is returned, a release intent
\* raises), and the probed slot is free in its own exact read.
ReadAllocate(u, n, a) ==
    /\ \A b \in instances : b.uuid # u
    /\ \A b \in slots : b.slot # n
    /\ a \notin usedAllocs
    /\ Send([op |-> "allocate", new |-> [uuid |-> u, slot |-> n, alloc |-> a, hosts |-> {}]])
    /\ usedAllocs' = usedAllocs \cup {a}
    /\ UNCHANGED <<registry, usedTokens, live, up>>

\* The caller generates T for this instance; a call that lost its CAS, and
\* loops, comes back with the T it has.
Draw(h, u, T) ==
    /\ <<T, u>> \in live[h] \/ T \notin usedTokens
    /\ live' = [live EXCEPT ![h] = @ \cup {<<T, u>>}]
    /\ usedTokens' = usedTokens \cup {T}

\* claim on a host that holds no claim of this allocation.
ReadClaim(cur, h, T) ==
    /\ Snapshot(cur)
    /\ h \in up \ cur.hosts
    /\ ReleaseAbsent(cur.uuid)
    /\ Draw(h, cur.uuid, T)
    /\ Send([op |-> "claim", cur |-> cur, new |-> NewClaim(cur, h, T)])
    /\ UNCHANGED <<registry, usedAllocs, up>>

\* claim on a host whose previous materialization is cleaned: the old token
\* is replaced in one step, the host index is left alone.
ReadReclaim(cur, old, T) ==
    /\ Snapshot(cur) /\ Holds(cur, old) /\ old.host \in up
    /\ old.token # T
    /\ old.state = "cleaned" /\ old.proof # "none"
    /\ ReleaseAbsent(cur.uuid)
    /\ Draw(old.host, cur.uuid, T)
    /\ Send([op |-> "reclaim", cur |-> cur, old |-> old,
             new |-> NewClaim(cur, old.host, T)])
    /\ UNCHANGED <<registry, usedAllocs, up>>

\* mark_materialization_possible: the rootfs-may-exist barrier.
ReadMarkPossible(cur, old) ==
    /\ Snapshot(cur) /\ Holds(cur, old) /\ old.host \in up
    /\ ReleaseAbsent(cur.uuid)
    /\ old.state = "unmaterialized"
    /\ Send([op |-> "possible", cur |-> cur, old |-> old,
             new |-> [old EXCEPT !.state = "possible"]])
    /\ UNCHANGED <<registry, fleet>>

\* mark_materialization_committed: a release intent does not block it.
ReadMarkCommitted(cur, old) ==
    /\ Snapshot(cur) /\ Holds(cur, old) /\ old.host \in up
    /\ old.state = "possible"
    /\ Send([op |-> "committed", cur |-> cur, old |-> old,
             new |-> [old EXCEPT !.state = "committed"]])
    /\ UNCHANGED <<registry, fleet>>

\* _record_claim_proof, for record_materialization_proof and
\* record_rootfs_release_proof.
ReadRecordProof(cur, old, outcome) ==
    /\ Snapshot(cur) /\ Holds(cur, old) /\ old.host \in up
    /\ old.state = RequiredState(outcome)
    /\ Send([op |-> "proof", cur |-> cur, old |-> old,
             new |-> [old EXCEPT !.state = "cleaned", !.proof = outcome]])
    /\ UNCHANGED <<registry, fleet>>

\* fence_retire_claim: the authority is the operator's evidence that the host
\* is powered off; a cleaned claim must be retired with its own proof.
ReadFenceRetire(cur, old) ==
    /\ Snapshot(cur) /\ Holds(cur, old) /\ old.host \notin up
    /\ ~(old.state = "cleaned" /\ old.proof # "none")
    /\ Send([op |-> "fence", cur |-> cur, old |-> old])
    /\ UNCHANGED <<registry, fleet>>

\* abandon_unregistered_claim: the one removal that needs no proof.
ReadAbandon(cur, old) ==
    /\ Snapshot(cur) /\ Holds(cur, old) /\ old.host \in up
    /\ old.state = "unmaterialized"
    /\ Send([op |-> "abandon", cur |-> cur, old |-> old])
    /\ UNCHANGED <<registry, fleet>>

\* retire_claim: only with a durable exact cleanup proof.
ReadRetire(cur, old) ==
    /\ Snapshot(cur) /\ Holds(cur, old) /\ old.host \in up
    /\ old.state = "cleaned" /\ old.proof # "none"
    /\ Send([op |-> "retire", cur |-> cur, old |-> old])
    /\ UNCHANGED <<registry, fleet>>

\* request_release: an intent that exists already is returned or refused.
ReadRequestRelease(cur) ==
    /\ Snapshot(cur)
    /\ ReleaseAbsent(cur.uuid)
    /\ Send([op |-> "request", cur |-> cur])
    /\ UNCHANGED <<registry, fleet>>

\* Mutant: the host index is not looked at before the deletion is sent.
ReadRelease_IgnoresClaims(cur, intent) ==
    /\ Snapshot(cur)
    /\ intent = Gen(cur)
    /\ Send([op |-> "release", cur |-> cur, intent |-> intent])
    /\ UNCHANGED <<registry, fleet>>

\* release: the intent of this exact generation, and no claim left.
ReadRelease(cur, intent) ==
    /\ Snapshot(cur)
    /\ intent = Gen(cur)
    /\ cur.hosts = {}
    /\ Send([op |-> "release", cur |-> cur, intent |-> intent])
    /\ UNCHANGED <<registry, fleet>>

-----------------------------------------------------------------------------
(* Commits: etcd applies a transaction whose compares hold. *)

CommitAllocate(t) ==
    /\ t.op = "allocate"
    /\ \A b \in instances : b.uuid # t.new.uuid
    /\ \A b \in slots : b.slot # t.new.slot
    /\ ReleaseAbsent(t.new.uuid)
    /\ instances' = PutInstance(t.new)
    /\ slots' = PutSlot(t.new)
    /\ UNCHANGED <<releases, claims, fences>>

\* Mutants: the claim transaction does not compare the assignment it read, or
\* the absence of a release intent.
CommitClaim_NoAssignmentCompare(t) ==
    /\ t.op = "claim"
    /\ HostClaimAbsent(t.new.host, t.cur.uuid)
    /\ ReleaseAbsent(t.cur.uuid)
    /\ instances' = PutInstance(WithHost(t.cur, t.new.host))
    /\ slots' = PutSlot(WithHost(t.cur, t.new.host))
    /\ claims' = PutClaim(t.new)
    /\ UNCHANGED <<releases, fences>>

CommitClaim_NoReleaseCompare(t) ==
    /\ t.op = "claim"
    /\ AssignmentUnchanged(t.cur)
    /\ HostClaimAbsent(t.new.host, t.cur.uuid)
    /\ instances' = PutInstance(WithHost(t.cur, t.new.host))
    /\ slots' = PutSlot(WithHost(t.cur, t.new.host))
    /\ claims' = PutClaim(t.new)
    /\ UNCHANGED <<releases, fences>>

CommitClaim(t) ==
    /\ t.op = "claim"
    /\ AssignmentUnchanged(t.cur)
    /\ HostClaimAbsent(t.new.host, t.cur.uuid)
    /\ ReleaseAbsent(t.cur.uuid)
    /\ instances' = PutInstance(WithHost(t.cur, t.new.host))
    /\ slots' = PutSlot(WithHost(t.cur, t.new.host))
    /\ claims' = PutClaim(t.new)
    /\ UNCHANGED <<releases, fences>>

CommitReclaim(t) ==
    /\ t.op = "reclaim"
    /\ AssignmentUnchanged(t.cur)
    /\ t.old \in claims
    /\ ReleaseAbsent(t.cur.uuid)
    /\ claims' = PutClaim(t.new)
    /\ UNCHANGED <<instances, slots, releases, fences>>

CommitPossible(t) ==
    /\ t.op = "possible"
    /\ AssignmentUnchanged(t.cur)
    /\ t.old \in claims
    /\ ReleaseAbsent(t.cur.uuid)
    /\ claims' = PutClaim(t.new)
    /\ UNCHANGED <<instances, slots, releases, fences>>

\* Mutant: the promotion does not compare the claim it read.
CommitCommitted_NoClaimCompare(t) ==
    /\ t.op = "committed"
    /\ AssignmentUnchanged(t.cur)
    /\ claims' = PutClaim(t.new)
    /\ UNCHANGED <<instances, slots, releases, fences>>

CommitCommitted(t) ==
    /\ t.op = "committed"
    /\ AssignmentUnchanged(t.cur)
    /\ t.old \in claims
    /\ claims' = PutClaim(t.new)
    /\ UNCHANGED <<instances, slots, releases, fences>>

CommitProof(t) ==
    /\ t.op = "proof"
    /\ AssignmentUnchanged(t.cur)
    /\ t.old \in claims
    /\ claims' = PutClaim(t.new)
    /\ UNCHANGED <<instances, slots, releases, fences>>

\* Mutant: the ledger entry is written, the claim it disposes of is kept.
CommitFence_KeepsClaim(t) ==
    /\ t.op = "fence"
    /\ AssignmentUnchanged(t.cur)
    /\ t.old \in claims
    /\ fences' = PutFence([host |-> t.old.host, uuid |-> t.cur.uuid,
                           alloc |-> t.cur.alloc, token |-> t.old.token])
    /\ UNCHANGED <<instances, slots, releases, claims>>

CommitFence(t) ==
    /\ t.op = "fence"
    /\ AssignmentUnchanged(t.cur)
    /\ t.old \in claims
    /\ fences' = PutFence([host |-> t.old.host, uuid |-> t.cur.uuid,
                           alloc |-> t.cur.alloc, token |-> t.old.token])
    /\ instances' = PutInstance(WithoutHost(t.cur, t.old.host))
    /\ slots' = PutSlot(WithoutHost(t.cur, t.old.host))
    /\ claims' = WithoutClaim(t.old)
    /\ UNCHANGED releases

CommitAbandon(t) ==
    /\ t.op = "abandon"
    /\ AssignmentUnchanged(t.cur)
    /\ t.old \in claims
    /\ instances' = PutInstance(WithoutHost(t.cur, t.old.host))
    /\ slots' = PutSlot(WithoutHost(t.cur, t.old.host))
    /\ claims' = WithoutClaim(t.old)
    /\ UNCHANGED <<releases, fences>>

\* Mutant: the retirement compares the host index, not the exact token.
CommitRetire_NoClaimCompare(t) ==
    /\ t.op = "retire"
    /\ AssignmentUnchanged(t.cur)
    /\ instances' = PutInstance(WithoutHost(t.cur, t.old.host))
    /\ slots' = PutSlot(WithoutHost(t.cur, t.old.host))
    /\ claims' = WithoutClaim(t.old)
    /\ UNCHANGED <<releases, fences>>

CommitRetire(t) ==
    /\ t.op = "retire"
    /\ AssignmentUnchanged(t.cur)
    /\ t.old \in claims
    /\ instances' = PutInstance(WithoutHost(t.cur, t.old.host))
    /\ slots' = PutSlot(WithoutHost(t.cur, t.old.host))
    /\ claims' = WithoutClaim(t.old)
    /\ UNCHANGED <<releases, fences>>

CommitRequest(t) ==
    /\ t.op = "request"
    /\ AssignmentUnchanged(t.cur)
    /\ ReleaseAbsent(t.cur.uuid)
    /\ releases' = releases \cup {Gen(t.cur)}
    /\ UNCHANGED <<instances, slots, claims, fences>>

CommitRelease(t) ==
    /\ t.op = "release"
    /\ AssignmentUnchanged(t.cur)
    /\ t.intent \in releases
    /\ instances' = instances \ {t.cur}
    /\ slots' = slots \ {t.cur}
    /\ releases' = releases \ {t.intent}
    /\ UNCHANGED <<claims, fences>>

-----------------------------------------------------------------------------
(* The network and the machines. *)

\* t will not be applied again: its answer arrived, its compares failed, the
\* request was lost or its sender gave up.
Forget(t) ==
    /\ net' = net \ {t}
    /\ UNCHANGED <<registry, fleet>>

\* The host stops: power fencing, a crash, a restart of nova-compute.  The
\* process forgets the tokens it generated; what it had sent is gone too iff
\* PowerOffDrains.
PowerOff(h) ==
    /\ h \in up
    /\ up' = up \ {h}
    /\ live' = [live EXCEPT ![h] = {}]
    /\ net' = IF PowerOffDrains THEN {t \in net : h \notin Author(t)} ELSE net
    /\ UNCHANGED <<registry, usedAllocs, usedTokens>>

PowerOn(h) ==
    /\ h \notin up
    /\ up' = up \cup {h}
    /\ UNCHANGED <<registry, net, usedAllocs, usedTokens, live>>

-----------------------------------------------------------------------------
Read ==
    \/ \E u \in Instances, n \in Slots, a \in Allocs : ReadAllocate(u, n, a)
    \/ \E cur \in instances :
         \/ \E h \in Hosts, T \in Tokens : ReadClaim(cur, h, T)
         \/ \E old \in claims, T \in Tokens : ReadReclaim(cur, old, T)
         \/ \E old \in claims : ReadMarkPossible(cur, old)
         \/ \E old \in claims : ReadMarkCommitted(cur, old)
         \/ \E old \in claims, o \in Outcomes : ReadRecordProof(cur, old, o)
         \/ \E old \in claims : ReadFenceRetire(cur, old)
         \/ \E old \in claims : ReadAbandon(cur, old)
         \/ \E old \in claims : ReadRetire(cur, old)
         \/ ReadRequestRelease(cur)
         \/ \E i \in releases : ReadRelease(cur, i)

Commit(t) ==
    /\ \/ CommitAllocate(t)
       \/ CommitClaim(t)
       \/ CommitReclaim(t)
       \/ CommitPossible(t)
       \/ CommitCommitted(t)
       \/ CommitProof(t)
       \/ CommitFence(t)
       \/ CommitAbandon(t)
       \/ CommitRetire(t)
       \/ CommitRequest(t)
       \/ CommitRelease(t)
    /\ UNCHANGED <<net, fleet>>

Next ==
    \/ Read
    \/ \E t \in net : Commit(t)
    \/ \E t \in net : Forget(t)
    \/ \E h \in Hosts : PowerOff(h)
    \/ \E h \in Hosts : PowerOn(h)

Spec == Init /\ [][Next]_vars

-----------------------------------------------------------------------------
(* Properties. *)

TypeOK ==
    /\ instances \subseteq Assignment
    /\ slots \subseteq Assignment
    /\ releases \subseteq Intent
    /\ claims \subseteq Claim
    /\ fences \subseteq Fence
    /\ net \subseteq Txn
    /\ usedAllocs \subseteq Allocs
    /\ usedTokens \subseteq Tokens
    /\ live \in [Hosts -> SUBSET (Tokens \X Instances)]
    /\ up \subseteq Hosts

\* One slot per instance, one instance per slot, the same raw under both keys
\* (_audit_validate_slot_relationships).
SlotsMatch ==
    /\ instances = slots
    /\ \A a, b \in instances : a.uuid = b.uuid \/ a.slot = b.slot => a = b

\* A release intent names the live generation of its instance
\* (_audit_validate_release_relationships).
ReleasesMatch == \A i \in releases : \E a \in instances : i = Gen(a)

\* The host index of an allocation and the claims are each other's inverse
\* (_audit_validate_host_relationships).
ClaimsMatch ==
    /\ \A a \in instances : \A h \in a.hosts :
          \E c \in claims : c.host = h /\ c.gen = Gen(a)
    /\ \A c \in claims : \E a \in instances : c.gen = Gen(a) /\ c.host \in a.hosts
    /\ \A c, d \in claims : c.host = d.host /\ c.gen.uuid = d.gen.uuid => c = d

\* Everything the full audit checks between the ownership records: no
\* interleaving of stale, lost, delayed and replayed transactions of the
\* allocator makes the audit of a healthy registry latch the fleet
\* (_audit_snapshot).
RegistryConsistent == SlotsMatch /\ ReleasesMatch /\ ClaimsMatch

\* "The same materialization token cannot coexist" in the fence ledger and in
\* a live claim of the same host and instance
\* (_audit_validate_fence_relationships).
FencesMatch ==
    \A f \in fences, c \in claims :
        c.host = f.host /\ c.gen.uuid = f.uuid => c.token # f.token

\* Same claim record, told by its key and its token.
SameClaim(c, d) == c.host = d.host /\ c.gen = d.gen /\ c.token = d.token

\* While the release intent of a generation stands, no host acquires a claim
\* on it and no claim of it crosses the rootfs-may-exist barrier, whatever
\* snapshot the transaction was prepared on (request_release: "an immutable
\* release barrier for one exact generation").
ReleaseBarrier ==
    [][\A i \in releases \cap releases' : \A c \in claims' :
          c.gen = i => \E d \in claims :
                          /\ SameClaim(c, d)
                          /\ d.state = "unmaterialized" => c.state # "possible"]_vars

\* A claim whose create request may have been issued leaves the registry only
\* with its durable cleanup proof, or with the fence ledger naming its token
\* in the same step (retire_claim, fence_retire_claim, claim's replacement).
RemovalJustified ==
    [][\A c \in claims : (\A d \in claims' : ~SameClaim(c, d)) =>
          \/ c.state = "unmaterialized"
          \/ c.state = "cleaned" /\ c.proof # "none"
          \/ \E f \in fences' : f.host = c.host /\ f.uuid = c.gen.uuid
                                /\ f.alloc = c.gen.alloc /\ f.token = c.token]_vars

\* A claim only moves forward, and its cleanup proof is immutable: no
\* transaction prepared on an older state of the same claim overwrites it
\* (mark_materialization_possible, mark_materialization_committed,
\* _record_claim_proof).
Rank(state) ==
    CASE state = "unmaterialized" -> 0 [] state = "possible" -> 1
      [] state = "committed" -> 2 [] state = "cleaned" -> 3
ClaimMovesForward ==
    [][\A c \in claims, d \in claims' : SameClaim(c, d) =>
          /\ Rank(c.state) =< Rank(d.state)
          /\ c.state = "cleaned" => d = c]_vars

\* The slot of a generation is given up only behind its release intent and
\* when no host holds a claim on it, in the state the deletion happens in
\* (release: "only behind an empty-claims barrier").
SlotFreedBehindBarrier ==
    [][\A a \in instances : (\A b \in instances' : Gen(b) # Gen(a)) =>
          /\ Gen(a) \in releases
          /\ \A c \in claims : c.gen # Gen(a)]_vars

=============================================================================
