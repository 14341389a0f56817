------------------------- MODULE IdmapRegistryProofs -------------------------
(***************************************************************************)
(* What holds of IdmapRegistry for every set of instances, slots, hosts,   *)
(* tokens and allocation UUIDs, and every number of transactions in        *)
(* flight.                                                                 *)
(*                                                                         *)
(* RegistryConsistent is not inductive: it says nothing of the             *)
(* transactions still in the network.  NetWellFormed adds what a           *)
(* transaction was prepared to be, in words that do not mention the        *)
(* current registry, so that it stays true however late the transaction    *)
(* is applied; the compares connect the two at the moment it is.           *)
(***************************************************************************)
EXTENDS IdmapRegistry, TLAPS

\* What every Read action puts into the network.
WellFormed(t) ==
    /\ t.op = "allocate" => t.new.hosts = {}
    /\ t.op = "claim" => /\ t.new.gen = Gen(t.cur)
                         /\ t.new.host \notin t.cur.hosts
                         /\ t.new.state = "unmaterialized"
    /\ t.op \in {"reclaim", "possible", "committed", "proof"} =>
          /\ t.old.gen = Gen(t.cur) /\ t.old.host \in t.cur.hosts
          /\ t.new.gen = t.old.gen /\ t.new.host = t.old.host
    /\ t.op \in {"fence", "abandon", "retire"} =>
          t.old.gen = Gen(t.cur) /\ t.old.host \in t.cur.hosts
    /\ t.op = "release" => t.intent = Gen(t.cur) /\ t.cur.hosts = {}

NetWellFormed == \A t \in net : WellFormed(t)

Inv == TypeOK /\ NetWellFormed /\ RegistryConsistent

-----------------------------------------------------------------------------
(* Types. *)

\* The record a claim starts as is a claim (_host_claim_raw).
LEMMA NewClaimType ==
    ASSUME NEW cur \in Assignment, NEW h \in Hosts, NEW T \in Tokens
    PROVE  NewClaim(cur, h, T) \in Claim
  BY DEF NewClaim, Claim, Assignment, Generation, Gen, States

\* Adding a host to, or removing it from, the index of an assignment gives an
\* assignment of the same generation (claim, retire_claim).
LEMMA HostIndexType ==
    ASSUME NEW a \in Assignment, NEW h \in Hosts
    PROVE  /\ WithHost(a, h) \in Assignment /\ Gen(WithHost(a, h)) = Gen(a)
           /\ WithHost(a, h).hosts = a.hosts \cup {h}
           /\ WithoutHost(a, h) \in Assignment /\ Gen(WithoutHost(a, h)) = Gen(a)
           /\ WithoutHost(a, h).hosts = a.hosts \ {h}
           /\ Gen(a) \in Generation
  BY DEF WithHost, WithoutHost, Assignment, Generation, Gen

\* The fields of a transaction, by operation.
LEMMA TxnFields ==
    ASSUME NEW t \in Txn
    PROVE  /\ t.op = "allocate" => t.new \in Assignment
           /\ t.op = "claim" => t.cur \in Assignment /\ t.new \in Claim
           /\ t.op \in {"reclaim", "possible", "committed", "proof"} =>
                t.cur \in Assignment /\ t.old \in Claim /\ t.new \in Claim
           /\ t.op \in {"fence", "abandon", "retire"} =>
                t.cur \in Assignment /\ t.old \in Claim
           /\ t.op = "request" => t.cur \in Assignment
           /\ t.op = "release" => t.cur \in Assignment /\ t.intent \in Intent
  BY DEF Txn

\* A step of the environment - a transaction forgotten, a host switched on or
\* off - keeps Inv: it only removes transactions.
LEMMA EnvironmentKeepsInv ==
    ASSUME Inv,
           \/ \E t \in net : Forget(t)
           \/ \E h \in Hosts : PowerOff(h)
           \/ \E h \in Hosts : PowerOn(h)
           \/ UNCHANGED vars
    PROVE  Inv'
<1>1. ASSUME NEW t \in net, Forget(t) PROVE Inv'
  BY <1>1 DEF Inv, TypeOK, NetWellFormed, WellFormed, RegistryConsistent, SlotsMatch,
         ReleasesMatch, ClaimsMatch, Forget, registry, fleet
<1>2. ASSUME NEW h \in Hosts, PowerOff(h) PROVE Inv'
  <2>1. net' \subseteq net
    BY <1>2 DEF PowerOff
  <2>2. live' \in [Hosts -> SUBSET (Tokens \X Instances)] /\ up' \subseteq Hosts
    BY <1>2 DEF PowerOff, Inv, TypeOK
  <2>. QED
    BY <1>2, <2>1, <2>2 DEF Inv, TypeOK, NetWellFormed, WellFormed, RegistryConsistent,
       SlotsMatch, ReleasesMatch, ClaimsMatch, PowerOff, registry
<1>3. ASSUME NEW h \in Hosts, PowerOn(h) PROVE Inv'
  BY <1>3 DEF Inv, TypeOK, NetWellFormed, WellFormed, RegistryConsistent, SlotsMatch,
         ReleasesMatch, ClaimsMatch, PowerOn, registry
<1>4. ASSUME UNCHANGED vars PROVE Inv'
  BY <1>4 DEF Inv, TypeOK, NetWellFormed, WellFormed, RegistryConsistent, SlotsMatch,
         ReleasesMatch, ClaimsMatch, vars, registry, fleet
<1>. QED
  BY <1>1, <1>2, <1>3, <1>4

-----------------------------------------------------------------------------
(* Reads: a well-formed transaction enters the network. *)

\* Sending one well-formed transaction leaves the registry alone and keeps Inv
\* (the end of every allocator operation, before its answer).
LEMMA SendKeepsInv ==
    ASSUME Inv, NEW t \in Txn, WellFormed(t), Send(t), UNCHANGED registry,
           usedAllocs' \subseteq Allocs, usedTokens' \subseteq Tokens,
           live' \in [Hosts -> SUBSET (Tokens \X Instances)], up' \subseteq Hosts
    PROVE  Inv'
<1>1. net' = net \cup {t}
  BY DEF Send
<1>2. TypeOK'
  BY <1>1 DEF Inv, TypeOK, registry
<1>3. NetWellFormed'
  BY <1>1 DEF Inv, NetWellFormed, WellFormed
<1>4. RegistryConsistent'
  BY DEF Inv, RegistryConsistent, SlotsMatch, ReleasesMatch, ClaimsMatch, registry
<1>. QED
  BY <1>2, <1>3, <1>4 DEF Inv

\* Generating a token keeps the types of the token history.
LEMMA DrawType ==
    ASSUME TypeOK, NEW h \in Hosts, NEW u \in Instances, NEW T \in Tokens, Draw(h, u, T)
    PROVE  /\ live' \in [Hosts -> SUBSET (Tokens \X Instances)]
           /\ usedTokens' \subseteq Tokens
  BY DEF TypeOK, Draw

\* What a snapshot tells of an allocation and of a claim it returns.
LEMMA SnapshotFacts ==
    ASSUME Inv, NEW cur \in instances
    PROVE  /\ cur \in Assignment /\ cur.uuid \in Instances /\ cur.hosts \subseteq Hosts
           /\ Gen(cur) \in Generation
           /\ \A c \in claims : Holds(cur, c) =>
                 c \in Claim /\ c.host \in Hosts /\ c.gen = Gen(cur)
                 /\ c.host \in cur.hosts
  BY DEF Inv, TypeOK, Assignment, Claim, Generation, Gen, Holds

\* Every decision an operation takes on its snapshot - allocate, claim, the
\* claim transitions, fencing, abandonment, retirement, the release request and
\* the release - sends a well-formed transaction.
LEMMA ReadKeepsInv ==
    ASSUME Inv, Read
    PROVE  Inv'
<1>. USE DEF Inv
<1>1. ASSUME NEW u \in Instances, NEW n \in Slots, NEW a \in Allocs, ReadAllocate(u, n, a)
      PROVE Inv'
  <2>. DEFINE new == [uuid |-> u, slot |-> n, alloc |-> a, hosts |-> {}]
              t == [op |-> "allocate", new |-> new]
  <2>1. t \in Txn /\ WellFormed(t)
    BY DEF Txn, WellFormed, Assignment
  <2>2. Send(t) /\ UNCHANGED registry /\ usedAllocs' \subseteq Allocs
        /\ usedTokens' = usedTokens /\ live' = live /\ up' = up
    BY <1>1 DEF ReadAllocate, TypeOK
  <2>. HIDE DEF t
  <2>. QED
    BY <2>1, <2>2, SendKeepsInv DEF TypeOK
<1>2. ASSUME NEW cur \in instances, NEW h \in Hosts, NEW T \in Tokens, ReadClaim(cur, h, T)
      PROVE Inv'
  <2>. DEFINE t == [op |-> "claim", cur |-> cur, new |-> NewClaim(cur, h, T)]
  <2>1. NewClaim(cur, h, T) \in Claim
    BY SnapshotFacts, NewClaimType
  <2>2. t \in Txn
    BY <2>1, SnapshotFacts DEF Txn
  <2>3. WellFormed(t)
    BY <1>2 DEF WellFormed, NewClaim, ReadClaim
  <2>4. /\ Send(t) /\ UNCHANGED registry /\ usedAllocs' = usedAllocs /\ up' = up
        /\ Draw(h, cur.uuid, T)
    BY <1>2 DEF ReadClaim
  <2>5. live' \in [Hosts -> SUBSET (Tokens \X Instances)] /\ usedTokens' \subseteq Tokens
    BY <2>4, SnapshotFacts, DrawType
  <2>. HIDE DEF t
  <2>. QED
    BY <2>2, <2>3, <2>4, <2>5, SendKeepsInv DEF TypeOK
<1>3. ASSUME NEW cur \in instances, NEW old \in claims, NEW T \in Tokens,
             ReadReclaim(cur, old, T)
      PROVE Inv'
  <2>. DEFINE t == [op |-> "reclaim", cur |-> cur, old |-> old,
                    new |-> NewClaim(cur, old.host, T)]
  <2>1. Holds(cur, old)
    BY <1>3 DEF ReadReclaim
  <2>2. old \in Claim /\ old.host \in Hosts /\ old.gen = Gen(cur) /\ old.host \in cur.hosts
    BY <2>1, SnapshotFacts
  <2>3. NewClaim(cur, old.host, T) \in Claim
    BY <2>2, SnapshotFacts, NewClaimType
  <2>4. t \in Txn
    BY <2>2, <2>3, SnapshotFacts DEF Txn
  <2>5. WellFormed(t)
    BY <2>2 DEF WellFormed, NewClaim
  <2>6. /\ Send(t) /\ UNCHANGED registry /\ usedAllocs' = usedAllocs /\ up' = up
        /\ Draw(old.host, cur.uuid, T)
    BY <1>3 DEF ReadReclaim
  <2>7. live' \in [Hosts -> SUBSET (Tokens \X Instances)] /\ usedTokens' \subseteq Tokens
    BY <2>2, <2>6, SnapshotFacts, DrawType
  <2>. HIDE DEF t
  <2>. QED
    BY <2>4, <2>5, <2>6, <2>7, SendKeepsInv DEF TypeOK
\* The transitions of a claim.
<1>4. ASSUME NEW cur \in instances, NEW old \in claims, NEW op \in {"possible", "committed", "proof"},
             NEW s \in States, NEW p \in Outcomes \cup {"none"},
             Holds(cur, old), UNCHANGED <<registry, fleet>>,
             Send([op |-> op, cur |-> cur, old |-> old,
                   new |-> [old EXCEPT !.state = s, !.proof = p]])
      PROVE Inv'
  <2>. DEFINE new == [old EXCEPT !.state = s, !.proof = p]
              t == [op |-> op, cur |-> cur, old |-> old, new |-> new]
  <2>1. old \in Claim /\ old.gen = Gen(cur) /\ old.host \in cur.hosts
    BY <1>4, SnapshotFacts
  <2>2. new \in Claim /\ new.gen = old.gen /\ new.host = old.host
    BY <2>1 DEF Claim
  <2>. HIDE DEF new
  <2>3. t \in Txn
    BY <2>1, <2>2, SnapshotFacts DEF Txn
  <2>4. WellFormed(t)
    BY <2>1, <2>2 DEF WellFormed
  <2>5. Send(t)
    BY <1>4 DEF new
  <2>. HIDE DEF t
  <2>. QED
    BY <1>4, <2>3, <2>4, <2>5, SendKeepsInv DEF TypeOK, fleet
<1>5. ASSUME NEW cur \in instances, NEW old \in claims, ReadMarkPossible(cur, old)
      PROVE Inv'
  <2>1. Holds(cur, old) /\ old \in Claim
    BY <1>5, SnapshotFacts DEF ReadMarkPossible
  <2>2. [old EXCEPT !.state = "possible"]
          = [old EXCEPT !.state = "possible", !.proof = old.proof]
        /\ old.proof \in Outcomes \cup {"none"}
    BY <2>1 DEF Claim
  <2>. QED
    BY <1>4, <1>5, <2>1, <2>2 DEF ReadMarkPossible, States
<1>6. ASSUME NEW cur \in instances, NEW old \in claims, ReadMarkCommitted(cur, old)
      PROVE Inv'
  <2>1. Holds(cur, old) /\ old \in Claim
    BY <1>6, SnapshotFacts DEF ReadMarkCommitted
  <2>2. [old EXCEPT !.state = "committed"]
          = [old EXCEPT !.state = "committed", !.proof = old.proof]
        /\ old.proof \in Outcomes \cup {"none"}
    BY <2>1 DEF Claim
  <2>. QED
    BY <1>4, <1>6, <2>1, <2>2 DEF ReadMarkCommitted, States
<1>7. ASSUME NEW cur \in instances, NEW old \in claims, NEW o \in Outcomes,
             ReadRecordProof(cur, old, o)
      PROVE Inv'
  BY <1>4, <1>7 DEF ReadRecordProof, States
\* The removals of a claim.
<1>8. ASSUME NEW cur \in instances, NEW old \in claims, NEW op \in {"fence", "abandon", "retire"},
             Holds(cur, old), UNCHANGED <<registry, fleet>>,
             Send([op |-> op, cur |-> cur, old |-> old])
      PROVE Inv'
  <2>. DEFINE t == [op |-> op, cur |-> cur, old |-> old]
  <2>1. old \in Claim /\ old.gen = Gen(cur) /\ old.host \in cur.hosts
    BY <1>8, SnapshotFacts
  <2>2. t \in Txn /\ WellFormed(t)
    BY <2>1, SnapshotFacts DEF Txn, WellFormed
  <2>3. Send(t)
    BY <1>8
  <2>. HIDE DEF t
  <2>. QED
    BY <1>8, <2>2, <2>3, SendKeepsInv DEF TypeOK, fleet
<1>9. ASSUME NEW cur \in instances, NEW old \in claims,
             ReadFenceRetire(cur, old) \/ ReadAbandon(cur, old) \/ ReadRetire(cur, old)
      PROVE Inv'
  BY <1>8, <1>9 DEF ReadFenceRetire, ReadAbandon, ReadRetire
<1>10. ASSUME NEW cur \in instances, ReadRequestRelease(cur)
       PROVE Inv'
  <2>. DEFINE t == [op |-> "request", cur |-> cur]
  <2>1. t \in Txn /\ WellFormed(t)
    BY SnapshotFacts DEF Txn, WellFormed
  <2>2. Send(t) /\ UNCHANGED <<registry, fleet>>
    BY <1>10 DEF ReadRequestRelease
  <2>. HIDE DEF t
  <2>. QED
    BY <2>1, <2>2, SendKeepsInv DEF TypeOK, fleet
<1>11. ASSUME NEW cur \in instances, NEW i \in releases, ReadRelease(cur, i)
       PROVE Inv'
  <2>. DEFINE t == [op |-> "release", cur |-> cur, intent |-> i]
  <2>1. t \in Txn
    BY SnapshotFacts DEF Txn, TypeOK
  <2>2. WellFormed(t) /\ Send(t) /\ UNCHANGED <<registry, fleet>>
    BY <1>11 DEF ReadRelease, WellFormed
  <2>. HIDE DEF t
  <2>. QED
    BY <2>1, <2>2, SendKeepsInv DEF TypeOK, fleet
<1>. QED
  BY <1>1, <1>2, <1>3, <1>5, <1>6, <1>7, <1>9, <1>10, <1>11 DEF Read

-----------------------------------------------------------------------------
(* Commits: a well-formed transaction whose compares hold keeps the registry *)
(* consistent, whenever it is applied.                                       *)

\* A committed write of one assignment's host index, together with the claim
\* families it came with, keeps the audited relationships.  `b' replaces the
\* assignment `a' of the same generation.
LEMMA IndexWrite ==
    ASSUME SlotsMatch, ReleasesMatch, NEW a \in instances, NEW b,
           Gen(b) = Gen(a),
           instances' = PutInstance(b), slots' = PutSlot(b), UNCHANGED releases
    PROVE  /\ SlotsMatch' /\ ReleasesMatch'
           /\ instances' = (instances \ {a}) \cup {b}
<1>1. b.uuid = a.uuid /\ b.slot = a.slot /\ b.alloc = a.alloc
  BY DEF Gen
<1>2. instances' = (instances \ {a}) \cup {b}
  BY <1>1 DEF PutInstance, SlotsMatch
<1>3. slots' = (instances \ {a}) \cup {b}
  BY <1>1 DEF PutSlot, SlotsMatch
<1>4. SlotsMatch'
  BY <1>1, <1>2, <1>3 DEF SlotsMatch
<1>5. ReleasesMatch'
  BY <1>1, <1>2 DEF ReleasesMatch
<1>. QED
  BY <1>2, <1>4, <1>5

\* A claim rewritten in place keeps the host index and the claims inverse.
LEMMA ClaimWrite ==
    ASSUME ClaimsMatch, UNCHANGED instances, NEW c \in claims, NEW d,
           d.host = c.host, d.gen = c.gen, claims' = PutClaim(d)
    PROVE  ClaimsMatch'
<1>1. claims' = (claims \ {c}) \cup {d}
  BY DEF PutClaim, WithoutClaim, ClaimsMatch
<1>. QED
  BY <1>1 DEF ClaimsMatch

\* A claim removed together with its index entry.
LEMMA ClaimRemoval ==
    ASSUME SlotsMatch, ClaimsMatch, NEW a \in instances, NEW b, NEW c \in claims,
           c.gen = Gen(a), Gen(b) = Gen(a), b.hosts = a.hosts \ {c.host},
           instances' = (instances \ {a}) \cup {b}, claims' = WithoutClaim(c)
    PROVE  ClaimsMatch'
<1>0. a.uuid = c.gen.uuid /\ b.uuid = a.uuid
  BY DEF Gen
<1>1. \A d \in claims : d \in claims' <=> ~(d.host = c.host /\ d.gen = Gen(a))
  <2>1. TAKE d \in claims
  <2>2. CASE d.host = c.host /\ d.gen.uuid = c.gen.uuid
    BY <2>2 DEF WithoutClaim, ClaimsMatch
  <2>3. CASE ~(d.host = c.host /\ d.gen.uuid = c.gen.uuid)
    BY <2>3 DEF WithoutClaim
  <2>. QED
    BY <2>2, <2>3
<1>2. \A e \in instances : Gen(e) = Gen(a) => e = a
  BY DEF SlotsMatch, Gen
<1>3. claims' \subseteq claims
  BY DEF WithoutClaim
<1>4. ASSUME NEW e \in instances', NEW h \in e.hosts
      PROVE  \E d \in claims' : d.host = h /\ d.gen = Gen(e)
  <2>1. CASE e = b
    <3>1. h \in a.hosts /\ h # c.host
      BY <1>4, <2>1
    <3>2. PICK d \in claims : d.host = h /\ d.gen = Gen(a)
      BY <3>1 DEF ClaimsMatch
    <3>. QED
      BY <1>1, <2>1, <3>1, <3>2
  <2>2. CASE e \in instances /\ e # a
    <3>1. PICK d \in claims : d.host = h /\ d.gen = Gen(e)
      BY <2>2 DEF ClaimsMatch
    <3>. QED
      BY <1>1, <1>2, <2>2, <3>1
  <2>. QED
    BY <2>1, <2>2
<1>5. ASSUME NEW d \in claims'
      PROVE  \E e \in instances' : d.gen = Gen(e) /\ d.host \in e.hosts
  <2>1. PICK e \in instances : d.gen = Gen(e) /\ d.host \in e.hosts
    BY <1>3, <1>5 DEF ClaimsMatch
  <2>2. CASE e = a
    BY <1>1, <1>3, <1>5, <2>1, <2>2
  <2>3. CASE e # a
    BY <2>1, <2>3
  <2>. QED
    BY <2>2, <2>3
<1>6. \A d, e \in claims' : d.host = e.host /\ d.gen.uuid = e.gen.uuid => d = e
  BY <1>3 DEF ClaimsMatch
<1>. QED
  BY <1>4, <1>5, <1>6 DEF ClaimsMatch

\* A new allocation takes a free slot for an instance without one
\* (_try_allocate).
LEMMA CommitAllocateKeepsInv ==
    ASSUME Inv, NEW t \in net, CommitAllocate(t), UNCHANGED <<net, fleet>>
    PROVE  Inv'
<1>1. t.new \in Assignment /\ t.new.hosts = {}
  BY TxnFields DEF Inv, TypeOK, NetWellFormed, WellFormed, CommitAllocate
<1>2. instances' = instances \cup {t.new} /\ slots' = slots \cup {t.new}
  BY DEF CommitAllocate, PutInstance, PutSlot
<1>3. TypeOK'
  BY <1>1, <1>2 DEF Inv, TypeOK, CommitAllocate, fleet
<1>4. NetWellFormed'
  BY DEF Inv, NetWellFormed, WellFormed
<1>5. SlotsMatch'
  BY <1>2 DEF Inv, RegistryConsistent, SlotsMatch, CommitAllocate
<1>6. ReleasesMatch'
  BY <1>2 DEF Inv, RegistryConsistent, ReleasesMatch, CommitAllocate
<1>7. ClaimsMatch'
  BY <1>1, <1>2 DEF Inv, RegistryConsistent, ClaimsMatch, CommitAllocate
<1>. QED
  BY <1>3, <1>4, <1>5, <1>6, <1>7 DEF Inv, RegistryConsistent

\* A new claim enters together with its host's index entry (claim).
LEMMA CommitClaimKeepsInv ==
    ASSUME Inv, NEW t \in net, CommitClaim(t), UNCHANGED <<net, fleet>>
    PROVE  Inv'
<1>. DEFINE a == t.cur
            b == WithHost(t.cur, t.new.host)
<1>1. /\ a \in instances /\ a \in Assignment /\ t.new \in Claim
      /\ t.new.gen = Gen(a) /\ t.new.host \notin a.hosts /\ t.new.host \in Hosts
  BY TxnFields DEF Inv, TypeOK, NetWellFormed, WellFormed, CommitClaim, AssignmentUnchanged, Claim
<1>2. b \in Assignment /\ Gen(b) = Gen(a) /\ b.hosts = a.hosts \cup {t.new.host}
  BY <1>1, HostIndexType
<1>3. instances' = PutInstance(b) /\ slots' = PutSlot(b) /\ UNCHANGED <<releases, fences>>
  BY DEF CommitClaim
<1>. HIDE DEF b
<1>4. SlotsMatch' /\ ReleasesMatch' /\ instances' = (instances \ {a}) \cup {b}
  <2>1. SlotsMatch /\ ReleasesMatch
    BY DEF Inv, RegistryConsistent
  <2>. QED
    BY <1>1, <1>2, <1>3, <2>1, IndexWrite
<1>5. claims' = claims \cup {t.new}
  BY <1>1 DEF CommitClaim, HostClaimAbsent, PutClaim, WithoutClaim, Gen
<1>6. TypeOK'
  <2>1. slots' \subseteq Assignment
    BY <1>2, <1>3 DEF Inv, TypeOK, PutSlot
  <2>. QED
    BY <1>1, <1>2, <1>3, <1>4, <1>5, <2>1 DEF Inv, TypeOK, fleet
<1>7. NetWellFormed'
  BY DEF Inv, NetWellFormed, WellFormed
<1>8. ClaimsMatch'
  <2>1. a.uuid = t.new.gen.uuid
    BY <1>1 DEF Gen
  <2>2. ASSUME NEW e \in instances', NEW h \in e.hosts
        PROVE  \E d \in claims' : d.host = h /\ d.gen = Gen(e)
    <3>1. CASE e \in instances
      BY <1>5, <2>2, <3>1 DEF Inv, RegistryConsistent, ClaimsMatch
    <3>2. CASE e = b /\ h \in a.hosts
      <4>1. PICK d \in claims : d.host = h /\ d.gen = Gen(a)
        BY <1>1, <3>2 DEF Inv, RegistryConsistent, ClaimsMatch
      <4>. QED
        BY <1>2, <1>5, <3>2, <4>1
    <3>3. CASE e = b /\ h = t.new.host
      BY <1>1, <1>2, <1>5, <3>3
    <3>. QED
      BY <1>2, <1>4, <2>2, <3>1, <3>2, <3>3
  <2>3. ASSUME NEW d \in claims'
        PROVE  \E e \in instances' : d.gen = Gen(e) /\ d.host \in e.hosts
    <3>1. CASE d = t.new
      BY <1>1, <1>2, <1>4, <3>1
    <3>2. CASE d \in claims
      <4>1. PICK e \in instances : d.gen = Gen(e) /\ d.host \in e.hosts
        BY <3>2 DEF Inv, RegistryConsistent, ClaimsMatch
      <4>. QED
        BY <1>2, <1>4, <4>1
    <3>. QED
      BY <1>5, <2>3, <3>1, <3>2
  <2>4. \A d, e \in claims' : d.host = e.host /\ d.gen.uuid = e.gen.uuid => d = e
    <3>1. \A d \in claims : ~(d.host = t.new.host /\ d.gen.uuid = t.new.gen.uuid)
      BY <2>1 DEF CommitClaim, HostClaimAbsent
    <3>. QED
      BY <1>5, <3>1 DEF Inv, RegistryConsistent, ClaimsMatch
  <2>. QED
    BY <2>2, <2>3, <2>4 DEF ClaimsMatch
<1>. QED
  BY <1>4, <1>6, <1>7, <1>8 DEF Inv, RegistryConsistent

\* Replacement, barrier, promotion and proof rewrite one claim in place.
LEMMA CommitTransitionKeepsInv ==
    ASSUME Inv, NEW t \in net,
           CommitReclaim(t) \/ CommitPossible(t) \/ CommitCommitted(t) \/ CommitProof(t),
           UNCHANGED <<net, fleet>>
    PROVE  Inv'
<1>1. t.op \in {"reclaim", "possible", "committed", "proof"}
  BY DEF CommitReclaim, CommitPossible, CommitCommitted, CommitProof
<1>2. t.old \in claims /\ claims' = PutClaim(t.new)
      /\ UNCHANGED <<instances, slots, releases, fences>>
  BY DEF CommitReclaim, CommitPossible, CommitCommitted, CommitProof
<1>3. t.new \in Claim /\ t.new.gen = t.old.gen /\ t.new.host = t.old.host
  BY <1>1, TxnFields DEF Inv, TypeOK, NetWellFormed, WellFormed
<1>4. TypeOK'
  BY <1>2, <1>3 DEF Inv, TypeOK, PutClaim, WithoutClaim, fleet
<1>5. NetWellFormed'
  BY DEF Inv, NetWellFormed, WellFormed
<1>6. ClaimsMatch'
  BY <1>2, <1>3, ClaimWrite DEF Inv, RegistryConsistent
<1>. QED
  BY <1>2, <1>4, <1>5, <1>6 DEF Inv, RegistryConsistent, SlotsMatch, ReleasesMatch

\* Fencing, abandonment and retirement take the claim and its index entry out.
LEMMA CommitRemovalKeepsInv ==
    ASSUME Inv, NEW t \in net,
           CommitFence(t) \/ CommitAbandon(t) \/ CommitRetire(t),
           UNCHANGED <<net, fleet>>
    PROVE  Inv'
<1>. DEFINE a == t.cur
            b == WithoutHost(t.cur, t.old.host)
<1>1. t.op \in {"fence", "abandon", "retire"}
  BY DEF CommitFence, CommitAbandon, CommitRetire
<1>2. /\ a \in instances /\ t.old \in claims /\ claims' = WithoutClaim(t.old)
      /\ instances' = PutInstance(b) /\ slots' = PutSlot(b) /\ UNCHANGED releases
  BY DEF CommitFence, CommitAbandon, CommitRetire, AssignmentUnchanged
<1>3. /\ a \in Assignment /\ t.old \in Claim /\ t.old.host \in Hosts /\ t.old.token \in Tokens
      /\ t.old.gen = Gen(a)
  BY <1>1, TxnFields DEF Inv, TypeOK, NetWellFormed, WellFormed, Claim
<1>4. b \in Assignment /\ Gen(b) = Gen(a) /\ b.hosts = a.hosts \ {t.old.host}
  BY <1>3, HostIndexType
<1>5. fences' \subseteq Fence
  <2>1. [host |-> t.old.host, uuid |-> a.uuid, alloc |-> a.alloc, token |-> t.old.token] \in Fence
    BY <1>3 DEF Fence, Assignment
  <2>. QED
    BY <2>1 DEF CommitFence, CommitAbandon, CommitRetire, PutFence, Inv, TypeOK
<1>. HIDE DEF b
<1>6. SlotsMatch' /\ ReleasesMatch' /\ instances' = (instances \ {a}) \cup {b}
  <2>1. SlotsMatch /\ ReleasesMatch
    BY DEF Inv, RegistryConsistent
  <2>. QED
    BY <1>2, <1>4, <2>1, IndexWrite
<1>7. TypeOK'
  <2>1. slots' \subseteq Assignment
    BY <1>2, <1>4 DEF Inv, TypeOK, PutSlot
  <2>2. claims' \subseteq Claim
    BY <1>2 DEF Inv, TypeOK, WithoutClaim
  <2>. QED
    BY <1>2, <1>4, <1>5, <1>6, <2>1, <2>2 DEF Inv, TypeOK, fleet
<1>8. NetWellFormed'
  BY DEF Inv, NetWellFormed, WellFormed
<1>9. ClaimsMatch'
  <2>1. SlotsMatch /\ ClaimsMatch
    BY DEF Inv, RegistryConsistent
  <2>. QED
    BY <1>2, <1>3, <1>4, <1>6, <2>1, ClaimRemoval
<1>. QED
  BY <1>6, <1>7, <1>8, <1>9 DEF Inv, RegistryConsistent

\* A release intent names the generation it was requested for
\* (request_release).
LEMMA CommitRequestKeepsInv ==
    ASSUME Inv, NEW t \in net, CommitRequest(t), UNCHANGED <<net, fleet>>
    PROVE  Inv'
<1>1. t.cur \in instances /\ t.cur \in Assignment /\ Gen(t.cur) \in Intent
  BY TxnFields DEF Inv, TypeOK, CommitRequest, AssignmentUnchanged, Assignment, Intent,
     Generation, Gen
<1>2. TypeOK'
  BY <1>1 DEF Inv, TypeOK, CommitRequest, fleet
<1>3. NetWellFormed'
  BY DEF Inv, NetWellFormed, WellFormed
<1>4. ReleasesMatch'
  BY <1>1 DEF Inv, RegistryConsistent, ReleasesMatch, CommitRequest
<1>. QED
  BY <1>2, <1>3, <1>4 DEF Inv, RegistryConsistent, SlotsMatch, ClaimsMatch, CommitRequest

\* A generation leaves with its slot and its intent, and nothing else refers to
\* it (release).
LEMMA CommitReleaseKeepsInv ==
    ASSUME Inv, NEW t \in net, CommitRelease(t), UNCHANGED <<net, fleet>>
    PROVE  Inv'
<1>1. t.cur \in instances /\ t.intent = Gen(t.cur) /\ t.cur.hosts = {}
  BY DEF Inv, NetWellFormed, WellFormed, CommitRelease, AssignmentUnchanged
<1>2. \A e \in instances : Gen(e) = Gen(t.cur) => e = t.cur
  BY <1>1 DEF Inv, RegistryConsistent, SlotsMatch, Gen
<1>3. TypeOK'
  BY DEF Inv, TypeOK, CommitRelease, fleet
<1>4. NetWellFormed'
  BY DEF Inv, NetWellFormed, WellFormed
<1>5. SlotsMatch'
  BY DEF Inv, RegistryConsistent, SlotsMatch, CommitRelease
<1>6. ReleasesMatch'
  BY <1>1, <1>2 DEF Inv, RegistryConsistent, ReleasesMatch, CommitRelease
<1>7. ClaimsMatch'
  BY <1>1 DEF Inv, RegistryConsistent, ClaimsMatch, CommitRelease
<1>. QED
  BY <1>3, <1>4, <1>5, <1>6, <1>7 DEF Inv, RegistryConsistent
-----------------------------------------------------------------------------
(* The invariant, and the action properties that follow from it. *)

\* The empty registry of a new cluster satisfies Inv.
LEMMA InitInv == Init => Inv
  BY DEF Init, Inv, TypeOK, NetWellFormed, RegistryConsistent, SlotsMatch, ReleasesMatch,
         ClaimsMatch

\* Whatever transaction etcd applies, and however stale it is, Inv is kept.
LEMMA CommitKeepsInv ==
    ASSUME Inv, NEW t \in net, Commit(t)
    PROVE  Inv'
  BY CommitAllocateKeepsInv, CommitClaimKeepsInv, CommitTransitionKeepsInv,
     CommitRemovalKeepsInv, CommitRequestKeepsInv, CommitReleaseKeepsInv DEF Commit

\* Every step of the fleet keeps Inv.
LEMMA NextKeepsInv == Inv /\ [Next]_vars => Inv'
  BY ReadKeepsInv, CommitKeepsInv, EnvironmentKeepsInv DEF Next

\* Inv holds in every reachable state of the registry and its network.
THEOREM InvHolds == Spec => []Inv
<1>1. Init => Inv
  BY InitInv
<1>2. Inv /\ [Next]_vars => Inv'
  BY NextKeepsInv
<1>. QED
  BY <1>1, <1>2, PTL DEF Spec

\* Type correctness: every record the allocator writes is one its parsers
\* accept.
THEOREM TypeCorrect == Spec => []TypeOK
<1>1. Inv => TypeOK
  BY DEF Inv
<1>. QED
  BY <1>1, InvHolds, PTL

\* Every registry the allocator can produce passes the relationship checks of
\* the full audit, for every number of hosts and of transactions in flight.
THEOREM Consistency == Spec => []RegistryConsistent
<1>1. Inv => RegistryConsistent
  BY DEF Inv
<1>. QED
  BY <1>1, InvHolds, PTL
=============================================================================
