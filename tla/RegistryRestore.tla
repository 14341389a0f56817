---------------------------- MODULE RegistryRestore ----------------------------
(***************************************************************************)
(* Disaster recovery of the ID-map registry: the audit and the probe of    *)
(* nova/virt/incus/idmap.py, and the operator's use of them in             *)
(* tools/openstack-incus-idmap-registry.py - the canonical export, the     *)
(* restore of a frozen export into a lost namespace, and the retirement of *)
(* a cleaned claim of an export.                                           *)
(*                                                                         *)
(* The fleet runs as in IdmapRegistry until etcd loses the namespace.  No  *)
(* operation of a compute passes its guard then (the configuration and the *)
(* leased healthy record are gone), and the computes stay frozen until an  *)
(* operator has restored an export.  The tool may be killed, its requests  *)
(* lost, delayed past its death or replayed, and the operator may start it *)
(* again, also with another of the exports that were kept.                 *)
(*                                                                         *)
(* A restore sends one transaction per allocation; as in IdmapRegistry     *)
(* etcd applies it late, never or more than once.  What the tool sent is   *)
(* void once the computes resume: their audit publishes another healthy    *)
(* generation than the one the transactions compare.                       *)
(***************************************************************************)
EXTENDS IdmapRegistry

CONSTANT MaxDocuments    \* bound on the exports the operators keep

ASSUME MaxDocumentsAssumption == MaxDocuments \in Nat

VARIABLES
    phase,      \* "serving", "lost" until a restore has ended, then "rebuilt"
    documents,  \* the exports that were kept
    tool,       \* the restore under way: its document, and what is left to do
    sent        \* transactions of the tool etcd may still apply

recovery == <<phase, documents, tool, sent>>
restoreVars == <<vars, recovery>>

Document == [instances: SUBSET Assignment, claims: SUBSET Claim, releases: SUBSET Intent]
NoDocument == [instances |-> {}, claims |-> {}, releases |-> {}]
Idle == [busy |-> FALSE, doc |-> NoDocument, todo |-> {}]

ClaimsOf(d, a) == {c \in d.claims : c.gen.uuid = a.uuid}
IntentsOf(d, a) == {i \in d.releases : i.uuid = a.uuid}

\* The registry as a document, the form in which an export is compared with it.
Registry == [instances |-> instances, claims |-> claims, releases |-> releases]

-----------------------------------------------------------------------------
(* What the allocator and the tool accept. *)

\* Every record parses, under the key its fields name.
Parses ==
    /\ instances \cup slots \subseteq Assignment
    /\ releases \subseteq Intent
    /\ claims \subseteq Claim
    /\ fences \subseteq Fence

\* A full audit of one revision raises nothing.  (The relations are those
\* IdmapRegistry proves invariant.)
AuditAccepts == Parses /\ FencesMatch /\ SlotsMatch /\ ReleasesMatch /\ ClaimsMatch

\* The count-only probe between two audits raises nothing.
ProbeAccepts ==
    /\ Cardinality(instances) = Cardinality(slots)
    /\ Cardinality(releases) =< Cardinality(instances)
    /\ instances = {} => claims = {}

\* validate_restore, for one allocation and its claims.
ValidAssignment(a, held) ==
    /\ a.hosts = {c.host : c \in held}
    /\ \A c \in held : c.gen = Gen(a)
    /\ \A c, e \in held : c.host = e.host => c = e

\* validate_restore_document: what an export of an audited registry satisfies.
ValidDocument(d) ==
    /\ \A a, b \in d.instances : a.uuid = b.uuid \/ a.slot = b.slot => a = b
    /\ \A a \in d.instances : ValidAssignment(a, ClaimsOf(d, a))
    /\ \A c \in d.claims : \E a \in d.instances : c.gen.uuid = a.uuid
    /\ \A i \in d.releases : \E a \in d.instances : i = Gen(a)

\* Mutant: only an empty registry is restored, not one a killed restore left.
Acceptable_EmptyOnly(d) ==
    /\ ValidDocument(d)
    /\ instances = {} /\ releases = {}

\* What restore_registry finds is part of the frozen document.
Acceptable(d) ==
    /\ ValidDocument(d)
    /\ instances \subseteq d.instances
    /\ releases \subseteq d.releases

\* Mutant: the host index is trusted, the claims behind it are not compared.
Unchanged_IndexOnly(d, a) == a \in instances

\* restore's test that a and its claims are there exactly as in d.
Unchanged(d, a) == a \in instances /\ ClaimsOf(Registry, a) = ClaimsOf(d, a)

-----------------------------------------------------------------------------
RestoreInit ==
    /\ Init
    /\ phase = "serving"
    /\ documents = {} /\ tool = Idle /\ sent = {}

\* The computes are frozen while the namespace is lost.  After the last export
\* the bound allows the fleet rests: a loss would wipe what it does.
Serve ==
    /\ phase # "lost"
    /\ phase = "serving" => Cardinality(documents) < MaxDocuments
    /\ Next
    /\ UNCHANGED recovery

\* registry_document: the export of one audited revision.
Export ==
    /\ phase = "serving"
    /\ AuditAccepts
    /\ net = {} /\ Cardinality(documents) < MaxDocuments
    /\ documents' = documents \cup {Registry}
    /\ UNCHANGED <<vars, phase, tool, sent>>

\* etcd loses the namespace, the fence ledger with it; the computes are
\* stopped, and restarted once the registry is back.
Lose ==
    /\ phase = "serving" /\ documents # {} /\ net = {}
    /\ instances' = {} /\ slots' = {} /\ releases' = {} /\ claims' = {} /\ fences' = {}
    /\ net' = {}
    /\ live' = [h \in Hosts |-> {}]
    /\ phase' = "lost" /\ tool' = Idle /\ sent' = {}
    /\ UNCHANGED <<usedAllocs, usedTokens, up, documents>>

-----------------------------------------------------------------------------
(* restore_registry. *)

BeginRestore(d) ==
    /\ phase = "lost" /\ ~tool.busy
    /\ AuditAccepts
    /\ Acceptable(d)
    /\ tool' = [busy |-> TRUE, doc |-> d, todo |-> d.instances]
    /\ UNCHANGED <<vars, phase, documents, sent>>

\* restore returns: the allocation is there, with its claims and its intent.
Restored(a) ==
    /\ a \in tool.todo
    /\ Unchanged(tool.doc, a)
    /\ IntentsOf(Registry, a) = IntentsOf(tool.doc, a)
    /\ tool' = [tool EXCEPT !.todo = @ \ {a}]
    /\ UNCHANGED <<vars, phase, documents, sent>>

Request(t) ==
    /\ t \notin sent
    /\ sent' = sent \cup {t}
    /\ UNCHANGED <<vars, phase, documents, tool>>

\* The whole generation, when nothing of it is there and its slot is free.
SendRestore(a) ==
    /\ a \in tool.todo
    /\ \A b \in instances : b.uuid # a.uuid /\ b.slot # a.slot
    /\ ReleaseAbsent(a.uuid)
    /\ Request([op |-> "restore", new |-> a, claims |-> ClaimsOf(tool.doc, a),
                intents |-> IntentsOf(tool.doc, a)])

\* Only its release intent, when an earlier export was restored without it.
SendIntent(a) ==
    /\ a \in tool.todo
    /\ Unchanged(tool.doc, a)
    /\ ReleaseAbsent(a.uuid) /\ IntentsOf(tool.doc, a) # {}
    /\ Request([op |-> "intent", new |-> a, claims |-> ClaimsOf(tool.doc, a),
                intents |-> IntentsOf(tool.doc, a)])

\* The allocation or its slot is taken by something else, or it carries an
\* intent the document does not have.
Overwrites(d, a) ==
    \/ a \in instances /\ ~Unchanged(d, a)
    \/ a \in instances /\ ~ReleaseAbsent(a.uuid) /\ IntentsOf(d, a) = {}
    \/ \E b \in instances \ {a} : b.uuid = a.uuid \/ b.slot = a.slot

\* restore raises.
Conflict(a) ==
    /\ a \in tool.todo
    /\ Overwrites(tool.doc, a)
    /\ tool' = Idle
    /\ UNCHANGED <<vars, phase, documents, sent>>

\* The final audit finds the document's allocations and intents; the operator
\* lets the computes start, and the exports are obsolete.
FinishRestore ==
    /\ tool.busy /\ tool.todo = {}
    /\ AuditAccepts
    /\ instances = tool.doc.instances /\ releases = tool.doc.releases
    /\ phase' = "rebuilt" /\ documents' = {}
    /\ tool' = Idle /\ sent' = {}
    /\ UNCHANGED vars

\* The final audit finds something else, and restore_registry raises.
FinishRefused ==
    /\ tool.busy /\ tool.todo = {}
    /\ ~(instances = tool.doc.instances /\ releases = tool.doc.releases)
    /\ tool' = Idle
    /\ UNCHANGED <<vars, phase, documents, sent>>

\* The tool is killed, or gives up on an answer it did not get.
ToolFails ==
    /\ tool.busy
    /\ tool' = Idle
    /\ UNCHANGED <<vars, phase, documents, sent>>

-----------------------------------------------------------------------------
(* retire_host_claim: a cleaned claim, as an export names it. *)

RetireHostClaim(d, a, c) ==
    /\ phase = "serving"
    /\ ValidDocument(d)
    /\ a \in d.instances /\ c \in ClaimsOf(d, a)
    /\ c.state = "cleaned" /\ c.proof # "none"
    /\ \E cur \in instances :
          /\ Snapshot(cur) /\ Gen(cur) = Gen(a) /\ Holds(cur, c)
          /\ Request([op |-> "retire", cur |-> cur, old |-> c])

-----------------------------------------------------------------------------
(* etcd and the tool's transactions. *)

\* Mutant: a restore that does not compare the slot it writes.
CommitRestore_SlotNotCompared(t) ==
    /\ t.op = "restore"
    /\ \A b \in instances : b.uuid # t.new.uuid
    /\ ReleaseAbsent(t.new.uuid)
    /\ \A c \in t.claims : HostClaimAbsent(c.host, t.new.uuid)
    /\ instances' = PutInstance(t.new)
    /\ slots' = PutSlot(t.new)
    /\ claims' = claims \cup t.claims
    /\ releases' = releases \cup t.intents
    /\ UNCHANGED fences

CommitRestore(t) ==
    /\ t.op = "restore"
    /\ \A b \in instances : b.uuid # t.new.uuid
    /\ \A b \in slots : b.slot # t.new.slot
    /\ ReleaseAbsent(t.new.uuid)
    /\ \A c \in t.claims : HostClaimAbsent(c.host, t.new.uuid)
    /\ instances' = PutInstance(t.new)
    /\ slots' = PutSlot(t.new)
    /\ claims' = claims \cup t.claims
    /\ releases' = releases \cup t.intents
    /\ UNCHANGED fences

CommitIntent(t) ==
    /\ t.op = "intent"
    /\ AssignmentUnchanged(t.new)
    /\ ReleaseAbsent(t.new.uuid)
    /\ t.claims \subseteq claims
    /\ releases' = releases \cup t.intents
    /\ UNCHANGED <<instances, slots, claims, fences>>

Apply(t) ==
    /\ CommitRestore(t) \/ CommitIntent(t) \/ CommitRetire(t)
    /\ UNCHANGED <<net, fleet, recovery>>

\* A request is answered, refused or lost.
Answered(t) ==
    /\ sent' = sent \ {t}
    /\ UNCHANGED <<vars, phase, documents, tool>>

RestoreNext ==
    \/ Serve
    \/ Export
    \/ Lose
    \/ \E d \in documents : BeginRestore(d)
    \/ \E a \in tool.todo : Restored(a)
    \/ \E a \in tool.todo : SendRestore(a)
    \/ \E a \in tool.todo : SendIntent(a)
    \/ \E a \in tool.todo : Conflict(a)
    \/ FinishRestore
    \/ FinishRefused
    \/ ToolFails
    \/ \E d \in documents : \E a \in d.instances, c \in d.claims : RetireHostClaim(d, a, c)
    \/ \E t \in sent : Apply(t)
    \/ \E t \in sent : Answered(t)

RestoreSpec == RestoreInit /\ [][RestoreNext]_restoreVars

-----------------------------------------------------------------------------
(* Properties. *)

\* No crash, retry or late request of a restore, with one export or another, and
\* nothing the fleet does before or after, makes a full audit or a probe latch
\* the fleet (_audit_snapshot, _probe_snapshot).
RestoredRegistryAudits == AuditAccepts /\ ProbeAccepts

\* "restore an exact frozen v3 snapshot": when a restore reports success, the
\* registry is its document, with the state, token and proof of every claim - the
\* final audit of restore_registry looks at allocations and intents only, and
\* another export's requests may have been applied meanwhile.  It does so "without
\* overwriting keys": until then records are only added, whichever exports are
\* mixed (restore).
RestoredIsExact ==
    [][phase = "lost" =>
          IF phase' = "rebuilt"
          THEN Registry' = tool.doc /\ slots' = tool.doc.instances
          ELSE /\ instances \subseteq instances' /\ slots \subseteq slots'
               /\ claims \subseteq claims' /\ releases \subseteq releases']_restoreVars

\* "It is safe to retry: an exact state succeeds": while the operators keep to
\* one export, no restore of it is refused, however earlier ones were killed and
\* whatever of their requests is applied late, and none ends with an allocation
\* missing (restore, restore_registry).
RetryIsAccepted ==
    phase = "lost" /\ Cardinality(documents) = 1 =>
        \A d \in documents :
            /\ Acceptable(d)
            /\ \A a \in d.instances : ~Overwrites(d, a)
            /\ tool.busy => d.instances \ instances \subseteq tool.todo

=============================================================================
