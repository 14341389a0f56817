------------------------ MODULE IdmapRegistryStepProofs ------------------------
(***************************************************************************)
(* What no step of IdmapRegistry may do, for every value of the constants: *)
(* the four action properties its run checks.                              *)
(*                                                                         *)
(* The barrier and the life of a claim depend on more than the shape of a  *)
(* transaction: on the claim state it was prepared on, and on the state it *)
(* writes.  Prepared records both; like WellFormed it is settled when the  *)
(* transaction is sent and does not mention the registry.                  *)
(***************************************************************************)
EXTENDS IdmapRegistryProofs

\* The claim state a transaction was prepared on, and the one it writes.
Prepared(t) ==
    /\ t.op = "reclaim" =>
          /\ t.old.state = "cleaned" /\ t.old.proof # "none"
          /\ t.new.token # t.old.token
    /\ t.op \in {"possible", "committed", "proof"} => t.new.token = t.old.token
    /\ t.op = "possible" => t.old.state = "unmaterialized" /\ t.new.state = "possible"
    /\ t.op = "committed" => t.old.state = "possible" /\ t.new.state = "committed"
    /\ t.op = "proof" =>
          /\ t.old.state \in {"unmaterialized", "possible", "committed"}
          /\ t.new.state = "cleaned"
    /\ t.op = "abandon" => t.old.state = "unmaterialized"
    /\ t.op = "retire" => t.old.state = "cleaned" /\ t.old.proof # "none"

NetPrepared == \A t \in net : Prepared(t)

StepInv == Inv /\ NetPrepared

-----------------------------------------------------------------------------
\* Sending a prepared transaction keeps the network prepared.
LEMMA SendPrepared ==
    ASSUME NetPrepared, NEW t, Prepared(t), Send(t)
    PROVE  NetPrepared'
  BY DEF NetPrepared, Prepared, Send

\* Each operation sends the transaction its snapshot of the claim allows: the
\* state checks of claim, the mark_ and record_ transitions, abandon and retire.
LEMMA ReadPrepares ==
    ASSUME Inv, NetPrepared, Read
    PROVE  NetPrepared'
<1>1. ASSUME NEW u \in Instances, NEW n \in Slots, NEW a \in Allocs, ReadAllocate(u, n, a)
      PROVE NetPrepared'
  BY <1>1, SendPrepared DEF ReadAllocate, Prepared
<1>2. ASSUME NEW cur \in instances, NEW h \in Hosts, NEW T \in Tokens, ReadClaim(cur, h, T)
      PROVE NetPrepared'
  BY <1>2, SendPrepared DEF ReadClaim, Prepared
<1>3. ASSUME NEW cur \in instances, NEW old \in claims, NEW T \in Tokens,
             ReadReclaim(cur, old, T)
      PROVE NetPrepared'
  <2>. DEFINE t == [op |-> "reclaim", cur |-> cur, old |-> old,
                    new |-> NewClaim(cur, old.host, T)]
  <2>1. Prepared(t)
    BY <1>3 DEF ReadReclaim, Prepared, NewClaim
  <2>2. Send(t)
    BY <1>3 DEF ReadReclaim
  <2>. HIDE DEF t
  <2>. QED
    BY <2>1, <2>2, SendPrepared
<1>4. ASSUME NEW cur \in instances, NEW old \in claims,
             \/ ReadMarkPossible(cur, old)
             \/ ReadMarkCommitted(cur, old)
             \/ \E o \in Outcomes : ReadRecordProof(cur, old, o)
      PROVE NetPrepared'
  <2>0. old \in Claim
    BY DEF Inv, TypeOK
  <2>1. CASE ReadMarkPossible(cur, old)
    <3>. DEFINE t == [op |-> "possible", cur |-> cur, old |-> old,
                      new |-> [old EXCEPT !.state = "possible"]]
    <3>1. Prepared(t)
      BY <2>0, <2>1 DEF ReadMarkPossible, Prepared, Claim
    <3>2. Send(t)
      BY <2>1 DEF ReadMarkPossible
    <3>. HIDE DEF t
    <3>. QED
      BY <3>1, <3>2, SendPrepared
  <2>2. CASE ReadMarkCommitted(cur, old)
    <3>. DEFINE t == [op |-> "committed", cur |-> cur, old |-> old,
                      new |-> [old EXCEPT !.state = "committed"]]
    <3>1. Prepared(t)
      BY <2>0, <2>2 DEF ReadMarkCommitted, Prepared, Claim
    <3>2. Send(t)
      BY <2>2 DEF ReadMarkCommitted
    <3>. HIDE DEF t
    <3>. QED
      BY <3>1, <3>2, SendPrepared
  <2>3. ASSUME NEW o \in Outcomes, ReadRecordProof(cur, old, o)
        PROVE NetPrepared'
    <3>. DEFINE t == [op |-> "proof", cur |-> cur, old |-> old,
                      new |-> [old EXCEPT !.state = "cleaned", !.proof = o]]
    <3>1. old.state \in {"unmaterialized", "possible", "committed"}
      BY <2>3 DEF ReadRecordProof, RequiredState, Outcomes
    <3>2. Prepared(t)
      BY <2>0, <3>1 DEF Prepared, Claim
    <3>3. Send(t)
      BY <2>3 DEF ReadRecordProof
    <3>. HIDE DEF t
    <3>. QED
      BY <3>2, <3>3, SendPrepared
  <2>. QED
    BY <1>4, <2>1, <2>2, <2>3
<1>5. ASSUME NEW cur \in instances, NEW old \in claims,
             ReadFenceRetire(cur, old) \/ ReadAbandon(cur, old) \/ ReadRetire(cur, old)
      PROVE NetPrepared'
  <2>1. PICK op \in {"fence", "abandon", "retire"} :
            /\ Send([op |-> op, cur |-> cur, old |-> old])
            /\ op = "abandon" => old.state = "unmaterialized"
            /\ op = "retire" => old.state = "cleaned" /\ old.proof # "none"
    BY <1>5 DEF ReadFenceRetire, ReadAbandon, ReadRetire
  <2>. DEFINE t == [op |-> op, cur |-> cur, old |-> old]
  <2>2. Prepared(t)
    BY <2>1 DEF Prepared
  <2>. QED
    BY <2>1, <2>2, SendPrepared
<1>6. ASSUME NEW cur \in instances,
             ReadRequestRelease(cur) \/ \E i \in releases : ReadRelease(cur, i)
      PROVE NetPrepared'
  <2>1. CASE ReadRequestRelease(cur)
    BY <2>1, SendPrepared DEF ReadRequestRelease, Prepared
  <2>2. ASSUME NEW i \in releases, ReadRelease(cur, i) PROVE NetPrepared'
    BY <2>2, SendPrepared DEF ReadRelease, Prepared
  <2>. QED
    BY <1>6, <2>1, <2>2
<1>. QED
  BY <1>1, <1>2, <1>3, <1>4, <1>5, <1>6 DEF Read

\* Only the reads add transactions.
LEMMA NextKeepsStepInv == StepInv /\ [Next]_vars => StepInv'
<1>. SUFFICES ASSUME StepInv, [Next]_vars PROVE StepInv'
  OBVIOUS
<1>1. Inv'
  BY NextKeepsInv DEF StepInv
<1>2. NetPrepared'
  <2>1. CASE Read
    BY <2>1, ReadPrepares DEF StepInv
  <2>2. CASE net' \subseteq net
    BY <2>2 DEF StepInv, NetPrepared, Prepared
  <2>3. Read \/ net' \subseteq net
    <3>1. ASSUME NEW t \in net, Commit(t) \/ Forget(t) PROVE net' \subseteq net
      BY <3>1 DEF Commit, Forget
    <3>2. ASSUME NEW h \in Hosts, PowerOff(h) \/ PowerOn(h) PROVE net' \subseteq net
      BY <3>2 DEF PowerOff, PowerOn
    <3>. QED
      BY <3>1, <3>2 DEF Next, vars
  <2>. QED
    BY <2>1, <2>2, <2>3
<1>. QED
  BY <1>1, <1>2 DEF StepInv

\* StepInv holds in every reachable state.
THEOREM StepInvHolds == Spec => []StepInv
<1>1. Init => StepInv
  BY InitInv DEF Init, StepInv, NetPrepared
<1>2. StepInv /\ [Next]_vars => StepInv'
  BY NextKeepsStepInv
<1>. QED
  BY <1>1, <1>2, PTL DEF Spec
-----------------------------------------------------------------------------
(* How the claim family changes. *)

\* Only an applied transaction changes the registry.
LEMMA QuietSteps ==
    ASSUME [Next]_vars
    PROVE  UNCHANGED registry \/ \E t \in net : Commit(t)
<1>1. Read => UNCHANGED registry
  BY DEF Read, ReadAllocate, ReadClaim, ReadReclaim, ReadMarkPossible, ReadMarkCommitted,
         ReadRecordProof, ReadFenceRetire, ReadAbandon, ReadRetire, ReadRequestRelease,
         ReadRelease
<1>2. ASSUME NEW t \in net, Forget(t) PROVE UNCHANGED registry
  BY <1>2 DEF Forget
<1>3. ASSUME NEW h \in Hosts, PowerOff(h) \/ PowerOn(h) PROVE UNCHANGED registry
  BY <1>3 DEF PowerOff, PowerOn
<1>. QED
  BY <1>1, <1>2, <1>3 DEF Next, vars

\* A transition replaces exactly the claim it read; the other claims stay.
LEMMA TransitionClaims ==
    ASSUME Inv, NEW t \in net,
           CommitReclaim(t) \/ CommitPossible(t) \/ CommitCommitted(t) \/ CommitProof(t)
    PROVE  /\ t.old \in claims
           /\ t.new.host = t.old.host /\ t.new.gen = t.old.gen
           /\ claims' = (claims \ {t.old}) \cup {t.new}
           /\ UNCHANGED <<instances, slots, releases, fences>>
<1>1. t.op \in {"reclaim", "possible", "committed", "proof"}
  BY DEF CommitReclaim, CommitPossible, CommitCommitted, CommitProof
<1>2. t.old \in claims /\ claims' = PutClaim(t.new)
      /\ UNCHANGED <<instances, slots, releases, fences>>
  BY DEF CommitReclaim, CommitPossible, CommitCommitted, CommitProof
<1>3. t.new.gen = t.old.gen /\ t.new.host = t.old.host
  BY <1>1 DEF Inv, NetWellFormed, WellFormed
<1>4. claims' = (claims \ {t.old}) \cup {t.new}
  BY <1>2, <1>3 DEF Inv, RegistryConsistent, ClaimsMatch, PutClaim, WithoutClaim
<1>. QED
  BY <1>2, <1>3, <1>4

\* A removal takes exactly the claim it read.
LEMMA RemovalClaims ==
    ASSUME Inv, NEW t \in net, CommitFence(t) \/ CommitAbandon(t) \/ CommitRetire(t)
    PROVE  t.old \in claims /\ claims' = claims \ {t.old} /\ UNCHANGED releases
<1>1. t.old \in claims /\ claims' = WithoutClaim(t.old) /\ UNCHANGED releases
  BY DEF CommitFence, CommitAbandon, CommitRetire
<1>. QED
  BY <1>1 DEF Inv, RegistryConsistent, ClaimsMatch, WithoutClaim

\* A new claim is added to the others, on a key none of them has.
LEMMA NewClaims ==
    ASSUME Inv, NEW t \in net, CommitClaim(t)
    PROVE  /\ claims' = claims \cup {t.new}
           /\ ReleaseAbsent(t.new.gen.uuid) /\ UNCHANGED releases
           /\ \A c \in claims : ~(c.host = t.new.host /\ c.gen = t.new.gen)
<1>1. t.new.gen = Gen(t.cur) /\ t.cur.uuid = t.new.gen.uuid
  BY DEF CommitClaim, Inv, NetWellFormed, WellFormed, Gen
<1>. QED
  BY <1>1 DEF CommitClaim, HostClaimAbsent, PutClaim, WithoutClaim

\* The other commits leave every claim alone.
LEMMA OtherCommits ==
    ASSUME NEW t, CommitAllocate(t) \/ CommitRequest(t) \/ CommitRelease(t)
    PROVE  UNCHANGED claims
  BY DEF CommitAllocate, CommitRequest, CommitRelease

-----------------------------------------------------------------------------
(* The action properties. *)

\* No claim is acquired on, and none of its claims crosses the barrier of, a
\* generation whose release intent stands (claim, mark_materialization_possible
\* against request_release).
THEOREM Barrier == Spec => ReleaseBarrier
<1>. DEFINE A == \A i \in releases \cap releases' : \A c \in claims' :
                    c.gen = i => \E d \in claims :
                                    /\ SameClaim(c, d)
                                    /\ d.state = "unmaterialized" => c.state # "possible"
<1>1. StepInv /\ [Next]_vars => [A]_vars
  <2>. SUFFICES ASSUME StepInv, [Next]_vars,
                       NEW i \in releases \cap releases', NEW c \in claims', c.gen = i
                PROVE  \E d \in claims : /\ SameClaim(c, d)
                                         /\ d.state = "unmaterialized" => c.state # "possible"
    OBVIOUS
  <2>1. CASE c \in claims
    <3>1. SameClaim(c, c) /\ (c.state = "unmaterialized" => c.state # "possible")
      BY DEF SameClaim
    <3>. QED
      BY <2>1, <3>1
  <2>2. CASE c \notin claims
    <3>1. PICK t \in net : Commit(t)
      BY <2>2, QuietSteps DEF registry
    <3>2. ~ReleaseAbsent(c.gen.uuid)
      BY DEF ReleaseAbsent
    <3>3. CASE CommitClaim(t)
      BY <2>2, <3>2, <3>3, NewClaims DEF StepInv
    <3>4. CASE CommitReclaim(t) \/ CommitPossible(t) \/ CommitCommitted(t) \/ CommitProof(t)
      <4>1. /\ t.old \in claims /\ c = t.new
            /\ c.host = t.old.host /\ c.gen = t.old.gen
        BY <2>2, <3>4, TransitionClaims DEF StepInv
      <4>2. ~CommitReclaim(t) /\ ~CommitPossible(t)
        <5>1. t.op \in {"reclaim", "possible"} => t.old.gen = Gen(t.cur)
          BY DEF StepInv, Inv, NetWellFormed, WellFormed
        <5>2. t.cur.uuid = Gen(t.cur).uuid
          BY DEF Gen
        <5>. QED
          BY <3>2, <4>1, <5>1, <5>2 DEF CommitReclaim, CommitPossible
      <4>3. SameClaim(c, t.old) /\ c.state # "possible"
        BY <3>4, <4>1, <4>2 DEF StepInv, NetPrepared, Prepared, CommitCommitted, CommitProof,
           SameClaim
      <4>. QED
        BY <4>1, <4>3
    <3>5. CASE CommitFence(t) \/ CommitAbandon(t) \/ CommitRetire(t)
      BY <2>2, <3>5, RemovalClaims DEF StepInv
    <3>6. CASE CommitAllocate(t) \/ CommitRequest(t) \/ CommitRelease(t)
      BY <2>2, <3>6, OtherCommits
    <3>. QED
      BY <3>1, <3>3, <3>4, <3>5, <3>6 DEF Commit
  <2>. QED
    BY <2>1, <2>2
<1>. QED
  BY <1>1, StepInvHolds, PTL DEF Spec, ReleaseBarrier

\* No claim past the rootfs-may-exist barrier is lost without its proof or its
\* entry in the fence ledger (retire_claim, claim, fence_retire_claim).
THEOREM Justified == Spec => RemovalJustified
<1>. DEFINE J(c) == \/ c.state = "unmaterialized"
                    \/ c.state = "cleaned" /\ c.proof # "none"
                    \/ \E f \in fences' : f.host = c.host /\ f.uuid = c.gen.uuid
                                          /\ f.alloc = c.gen.alloc /\ f.token = c.token
            A == \A c \in claims : (\A d \in claims' : ~SameClaim(c, d)) => J(c)
<1>1. StepInv /\ [Next]_vars => [A]_vars
  <2>. SUFFICES ASSUME StepInv, [Next]_vars,
                       NEW c \in claims, \A d \in claims' : ~SameClaim(c, d)
                PROVE  J(c)
    OBVIOUS
  <2>1. c \notin claims'
    BY DEF SameClaim
  <2>2. PICK t \in net : Commit(t)
    BY <2>1, QuietSteps DEF registry
  <2>3. CASE CommitClaim(t)
    BY <2>1, <2>3, NewClaims DEF StepInv
  <2>4. CASE CommitReclaim(t) \/ CommitPossible(t) \/ CommitCommitted(t) \/ CommitProof(t)
    <3>1. /\ t.old \in claims /\ c = t.old /\ t.new \in claims'
          /\ t.new.host = t.old.host /\ t.new.gen = t.old.gen
      BY <2>1, <2>4, TransitionClaims DEF StepInv
    <3>2. t.new.token # t.old.token
      BY <3>1 DEF SameClaim
    <3>3. t.op = "reclaim"
      BY <2>4, <3>2 DEF StepInv, NetPrepared, Prepared, CommitReclaim, CommitPossible,
         CommitCommitted, CommitProof
    <3>. QED
      BY <3>1, <3>3 DEF StepInv, NetPrepared, Prepared
  <2>5. CASE CommitFence(t)
    <3>1. c = t.old
      BY <2>1, <2>5, RemovalClaims DEF StepInv
    <3>2. t.op = "fence"
      BY <2>5 DEF CommitFence
    <3>3. t.old.gen = Gen(t.cur)
      BY <3>2 DEF StepInv, Inv, NetWellFormed, WellFormed
    <3>. DEFINE f == [host |-> t.old.host, uuid |-> t.cur.uuid,
                      alloc |-> t.cur.alloc, token |-> t.old.token]
    <3>4. f \in fences'
      BY <2>5 DEF CommitFence, PutFence
    <3>5. f.host = c.host /\ f.uuid = c.gen.uuid /\ f.alloc = c.gen.alloc /\ f.token = c.token
      BY <3>1, <3>3 DEF Gen
    <3>. QED
      BY <3>4, <3>5
  <2>6. CASE CommitAbandon(t) \/ CommitRetire(t)
    <3>1. c = t.old
      BY <2>1, <2>6, RemovalClaims DEF StepInv
    <3>. QED
      BY <2>6, <3>1 DEF StepInv, NetPrepared, Prepared, CommitAbandon, CommitRetire
  <2>7. CASE CommitAllocate(t) \/ CommitRequest(t) \/ CommitRelease(t)
    BY <2>1, <2>7, OtherCommits
  <2>. QED
    BY <2>2, <2>3, <2>4, <2>5, <2>6, <2>7 DEF Commit
<1>. QED
  BY <1>1, StepInvHolds, PTL DEF Spec, RemovalJustified

\* A claim never moves backwards and a recorded proof is never overwritten
\* (mark_materialization_possible, mark_materialization_committed,
\* _record_claim_proof on a stale snapshot).
THEOREM Forward == Spec => ClaimMovesForward
<1>. DEFINE A == \A c \in claims, d \in claims' : SameClaim(c, d) =>
                    /\ Rank(c.state) =< Rank(d.state)
                    /\ c.state = "cleaned" => d = c
<1>1. StepInv /\ [Next]_vars => [A]_vars
  <2>. SUFFICES ASSUME StepInv, [Next]_vars,
                       NEW c \in claims, NEW d \in claims', SameClaim(c, d)
                PROVE  /\ Rank(c.state) =< Rank(d.state)
                       /\ c.state = "cleaned" => d = c
    OBVIOUS
  <2>0. c.state \in States
    BY DEF StepInv, Inv, TypeOK, Claim
  <2>1. CASE d \in claims
    <3>1. d = c
      BY <2>1 DEF SameClaim, StepInv, Inv, RegistryConsistent, ClaimsMatch
    <3>. QED
      BY <2>0, <3>1 DEF Rank, States
  <2>2. CASE d \notin claims
    <3>1. PICK t \in net : Commit(t)
      BY <2>2, QuietSteps DEF registry
    <3>2. CASE CommitClaim(t)
      BY <2>2, <3>2, NewClaims DEF StepInv, SameClaim
    <3>3. CASE CommitReclaim(t) \/ CommitPossible(t) \/ CommitCommitted(t) \/ CommitProof(t)
      <4>1. /\ t.old \in claims /\ d = t.new
            /\ t.new.host = t.old.host /\ t.new.gen = t.old.gen
        BY <2>2, <3>3, TransitionClaims DEF StepInv
      <4>2. c = t.old
        BY <4>1 DEF SameClaim, StepInv, Inv, RegistryConsistent, ClaimsMatch
      <4>3. ~CommitReclaim(t)
        BY <4>1, <4>2 DEF SameClaim, CommitReclaim, StepInv, NetPrepared, Prepared
      <4>4. \/ c.state = "unmaterialized" /\ d.state = "possible"
            \/ c.state = "possible" /\ d.state = "committed"
            \/ c.state \in {"unmaterialized", "possible", "committed"} /\ d.state = "cleaned"
        BY <3>3, <4>1, <4>2, <4>3 DEF StepInv, NetPrepared, Prepared, CommitPossible,
           CommitCommitted, CommitProof
      <4>. QED
        BY <4>4 DEF Rank
    <3>4. CASE CommitFence(t) \/ CommitAbandon(t) \/ CommitRetire(t)
      BY <2>2, <3>4, RemovalClaims DEF StepInv
    <3>5. CASE CommitAllocate(t) \/ CommitRequest(t) \/ CommitRelease(t)
      BY <2>2, <3>5, OtherCommits
    <3>. QED
      BY <3>1, <3>2, <3>3, <3>4, <3>5 DEF Commit
  <2>. QED
    BY <2>1, <2>2
<1>. QED
  BY <1>1, StepInvHolds, PTL DEF Spec, ClaimMovesForward

\* A slot is given up only behind its own release intent and with no claim left
\* (release, against a claim sent on an older snapshot).
THEOREM FreedBehindBarrier == Spec => SlotFreedBehindBarrier
<1>. DEFINE A == \A a \in instances : (\A b \in instances' : Gen(b) # Gen(a)) =>
                    /\ Gen(a) \in releases
                    /\ \A c \in claims : c.gen # Gen(a)
<1>1. StepInv /\ [Next]_vars => [A]_vars
  <2>. SUFFICES ASSUME StepInv, [Next]_vars,
                       NEW a \in instances, \A b \in instances' : Gen(b) # Gen(a)
                PROVE  /\ Gen(a) \in releases
                       /\ \A c \in claims : c.gen # Gen(a)
    OBVIOUS
  <2>1. a \notin instances'
    OBVIOUS
  <2>2. PICK t \in net : Commit(t)
    BY <2>1, QuietSteps DEF registry
  <2>3. CASE CommitRelease(t)
    <3>1. a = t.cur /\ t.intent \in releases
      BY <2>1, <2>3 DEF CommitRelease
    <3>2. t.intent = Gen(t.cur) /\ t.cur.hosts = {}
      BY <2>3 DEF CommitRelease, StepInv, Inv, NetWellFormed, WellFormed
    <3>3. \A e \in instances : Gen(e) = Gen(a) => e = a
      BY DEF StepInv, Inv, RegistryConsistent, SlotsMatch, Gen
    <3>. QED
      BY <3>1, <3>2, <3>3 DEF StepInv, Inv, RegistryConsistent, ClaimsMatch
  <2>4. ~CommitAllocate(t)
    BY <2>1 DEF CommitAllocate, PutInstance
  <2>5. ~CommitClaim(t)
    <3>1. SUFFICES ASSUME CommitClaim(t) PROVE FALSE
      OBVIOUS
    <3>2. t.cur \in instances /\ t.cur \in Assignment /\ t.new.host \in Hosts
      BY <3>1, TxnFields DEF CommitClaim, AssignmentUnchanged, StepInv, Inv, TypeOK, Claim
    <3>3. Gen(WithHost(t.cur, t.new.host)) = Gen(t.cur)
      BY <3>2, HostIndexType
    <3>4. /\ WithHost(t.cur, t.new.host) \in instances'
          /\ \A b \in instances : b.uuid # t.cur.uuid => b \in instances'
      BY <3>1, <3>3 DEF CommitClaim, PutInstance, Gen
    <3>5. a = t.cur
      BY <2>1, <3>2, <3>4 DEF StepInv, Inv, RegistryConsistent, SlotsMatch
    <3>. QED
      BY <3>3, <3>4, <3>5
  <2>6. ~(CommitFence(t) \/ CommitAbandon(t) \/ CommitRetire(t))
    <3>1. SUFFICES ASSUME CommitFence(t) \/ CommitAbandon(t) \/ CommitRetire(t) PROVE FALSE
      OBVIOUS
    <3>2. /\ t.op \in {"fence", "abandon", "retire"} /\ t.cur \in instances
          /\ instances' = PutInstance(WithoutHost(t.cur, t.old.host))
      BY <3>1 DEF CommitFence, CommitAbandon, CommitRetire, AssignmentUnchanged
    <3>3. t.cur \in Assignment /\ t.old.host \in Hosts
      BY <3>2, TxnFields DEF StepInv, Inv, TypeOK, Claim
    <3>4. Gen(WithoutHost(t.cur, t.old.host)) = Gen(t.cur)
      BY <3>3, HostIndexType
    <3>5. /\ WithoutHost(t.cur, t.old.host) \in instances'
          /\ \A b \in instances : b.uuid # t.cur.uuid => b \in instances'
      BY <3>2, <3>4 DEF PutInstance, Gen
    <3>6. a = t.cur
      BY <2>1, <3>2, <3>5 DEF StepInv, Inv, RegistryConsistent, SlotsMatch
    <3>. QED
      BY <3>4, <3>5, <3>6
  <2>7. CASE CommitReclaim(t) \/ CommitPossible(t) \/ CommitCommitted(t) \/ CommitProof(t)
    BY <2>1, <2>7, TransitionClaims DEF StepInv
  <2>8. CASE CommitRequest(t)
    BY <2>1, <2>8 DEF CommitRequest
  <2>. QED
    BY <2>2, <2>3, <2>4, <2>5, <2>6, <2>7, <2>8 DEF Commit
<1>. QED
  BY <1>1, StepInvHolds, PTL DEF Spec, SlotFreedBehindBarrier
=============================================================================
