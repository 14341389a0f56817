--------------------------- MODULE FleetAuditProofs ---------------------------
(***************************************************************************)
(* Proofs about FleetAudit, for any set of computes, threads and ids and   *)
(* any number of faults: its types, that a record which authorises work is *)
(* under a lease whose owner has scanned the whole registry, and that a    *)
(* mutation commits only under such a record.                              *)
(*                                                                         *)
(* The argument follows the pending record of an election.  Its generation *)
(* is new, so the thread that wrote it is the only one that can compare it *)
(* (GenInv) and finds it under its own lease; it compares it only after    *)
(* its scan found the registry clean under that lease (ThreadOK); and once *)
(* an audit has failed under a lease, what it leaves behind is a pending   *)
(* record no thread can compare any more (CondemnedInv).                   *)
(***************************************************************************)
EXTENDS FleetAudit, WellFoundedInduction, TLAPS

\* Where a thread is while its audit is under way.
AuditPcs == {"refresh", "probe", "scan", "tell", "withdraw", "publish"}

\* What a thread with locals l may rely on.
ThreadOK(t, l) ==
    /\ Mine(t).up \/ l.pc = "idle"
    /\ l.pc \in AuditPcs => Mine(t).lease # 0
    /\ l.pc \in {"refresh", "probe", "published"} => l.expected.state = "healthy"
    /\ l.pc \in AuditPcs \cup {"acquire", "acquired", "published"} => l.lease # 0
    /\ l.expected.state = "pending" =>
          /\ l.lease # 0
          /\ l.pc = "publish" /\ leases[l.lease] # "free" => l.lease \in vetted
    \* the lease of a candidate is its own, and no record has ever been under it
    /\ l.pc = "acquire" =>
          /\ l.lease # coordinator.lease /\ l.lease \notin condemned
          /\ \A u \in Threads \ {t} : thread[u].lease # l.lease
ThreadInv == \A t \in Threads : ThreadOK(t, thread[t])

\* A pending record is compared by one thread at most, under that thread's lease.
GenInv ==
    \A t \in Threads : thread[t].expected.state = "pending" =>
        /\ coordinator.raw = thread[t].expected => coordinator.lease = thread[t].lease
        /\ \A u \in Threads \ {t} : thread[u].expected # thread[t].expected

\* Records and marks go with their leases.
LeaseInv ==
    /\ coordinator.lease # 0 => leases[coordinator.lease] # "free"
    /\ \A l \in vetted \cup condemned : leases[l] # "free"

\* After a failed audit its lease carries a pending record nobody can compare.
CondemnedInv ==
    coordinator.lease \in condemned =>
        /\ coordinator.raw.state = "pending"
        /\ \A t \in Threads : thread[t].expected # coordinator.raw

\* A running process has a name.
Named == {a \in Allocator : a.up => a.token # 0}
NameInv == alloc \in [Computes -> Named]

Inv == TypeOK /\ NameInv /\ ThreadInv /\ GenInv /\ LeaseInv /\ CondemnedInv /\ HealthIsVetted
-----------------------------------------------------------------------------
(* Fresh ids.                                                              *)

LEMMA SmallestIn ==
    ASSUME NEW S, S \subseteq Nat, S # {}
    PROVE  Smallest(S) \in S
<1>. DEFINE R == OpToRel(<, Nat)
<1>1. IsWellFoundedOn(R, Nat)
  BY NatLessThanWellFounded
<1>2. \A x, y \in Nat : x < y => <<x, y>> \in R
  BY DEF OpToRel
<1>. HIDE DEF R
<1>3. PICK x \in S : \A y \in S : ~(<<y, x>> \in R)
  BY <1>1, WFMin
<1>4. \A y \in S : x <= y
  <2>. SUFFICES ASSUME NEW y \in S PROVE x <= y
    OBVIOUS
  <2>1. x \in Nat /\ y \in Nat /\ ~(y < x)
    BY <1>2, <1>3
  <2>. QED
    BY <2>1
<1>. QED
  BY <1>4 DEF Smallest

LEMMA NewGenFresh ==
    ASSUME Generations \ UsedGens # {}
    PROVE  /\ NewGen \in Generations /\ coordinator.raw.gen # NewGen
           /\ \A t \in Threads : thread[t].expected.gen # NewGen
<1>1. NewGen \in Generations \ UsedGens
  BY SmallestIn, IdsAssumption DEF NewGen
<1>. QED
  BY <1>1 DEF UsedGens, Remembered

LEMMA NewLeaseFresh ==
    ASSUME Leases \ UsedLeases # {}
    PROVE  /\ NewLease \in Leases /\ coordinator.lease # NewLease /\ leases[NewLease] = "free"
           /\ \A t \in Threads : thread[t].lease # NewLease
<1>1. NewLease \in Leases \ UsedLeases
  BY SmallestIn, IdsAssumption DEF NewLease
<1>. QED
  BY <1>1 DEF UsedLeases, Remembered

LEMMA NewTokenFresh ==
    ASSUME Tokens \ UsedTokens # {}
    PROVE  NewToken \in Tokens
<1>1. NewToken \in Tokens \ UsedTokens
  BY SmallestIn, IdsAssumption DEF NewToken
<1>. QED
  BY <1>1

-----------------------------------------------------------------------------
(* Steps of one thread that leave the coordinator record alone.            *)

\* A thread goes on with locals l: its own lease and comparison, or ones that
\* cannot make a pending record healthy.
LEMMA LocalStep ==
    ASSUME Inv, NEW t \in Threads, NEW l, thread' = [thread EXCEPT ![t] = l],
           UNCHANGED <<coordinator, condemned>>,
           \A x \in Leases : leases'[x] = "free" <=> leases[x] = "free",
           vetted \subseteq vetted', vetted' \subseteq Leases, \A x \in vetted' : leases[x] # "free",
           \A c \in Computes : /\ alloc'[c].up = alloc[c].up
                               /\ alloc[c].lease # 0 => alloc'[c].lease # 0,
           l.pc = "idle" \/ Mine(t).up,
           l.pc \in AuditPcs => alloc'[Home[t]].lease # 0,
           l.pc \in {"refresh", "probe", "published"} => l.expected.state = "healthy",
           l.pc \in AuditPcs \cup {"acquired", "published"} => l.lease # 0,
           l.pc = "acquire" => l = thread[t],
           l.lease \in {0, thread[t].lease, coordinator.lease},
           l.expected.state = "pending" =>
              /\ l.expected = thread[t].expected /\ l.lease = thread[t].lease
              /\ l.pc = "publish" /\ leases[l.lease] # "free" => l.lease \in vetted'
    PROVE  ThreadInv' /\ GenInv' /\ LeaseInv' /\ CondemnedInv' /\ HealthIsVetted'
<1>1. \A u \in Threads : thread'[u] = IF u = t THEN l ELSE thread[u]
  BY DEF Inv, TypeOK
<1>2. \A u \in Threads : ThreadOK(u, thread[u]) /\ thread[u].lease \in Leases \cup {0}
                         /\ Home[u] \in Computes
  BY ThreadsAssumption DEF Inv, ThreadInv, TypeOK, Local
<1>3. coordinator.lease \in Leases \cup {0} /\ 0 \notin Leases
  BY IdsAssumption DEF Inv, TypeOK, Coordinator, Absent
<1>4. ThreadInv'
  <2>. SUFFICES ASSUME NEW u \in Threads PROVE ThreadOK(u, thread[u])'
    BY DEF ThreadInv
  <2>1. CASE u = t
    BY <1>1, <1>2, <1>3, <2>1 DEF ThreadOK, Mine
  <2>2. CASE u # t
    BY <1>1, <1>2, <1>3, <2>2 DEF ThreadOK, Mine
  <2>. QED
    BY <2>1, <2>2
<1>5. GenInv'
  BY <1>1 DEF Inv, GenInv
<1>6. LeaseInv'
  BY <1>3 DEF Inv, LeaseInv, TypeOK
<1>7. CondemnedInv'
  BY <1>1 DEF Inv, CondemnedInv
<1>8. HealthIsVetted'
  BY DEF Inv, HealthIsVetted, Healthy
<1>. QED
  BY <1>4, <1>5, <1>6, <1>7, <1>8

\* Program counters at which a thread has no audit under way.
PlainPcs == {"idle", "begin", "recheck", "read", "reguard", "reread", "mutate"}

\* A thread that has no audit under way remembers no lease and no pending record.
LEMMA PlainStep ==
    ASSUME Inv, NEW t \in Threads, NEW l, thread' = [thread EXCEPT ![t] = l],
           UNCHANGED <<coordinator, leases, ghosts>>,
           \A c \in Computes : /\ alloc'[c].up = alloc[c].up
                               /\ alloc[c].lease # 0 => alloc'[c].lease # 0,
           l.pc \in PlainPcs, l.pc = "idle" \/ Mine(t).up,
           l.lease = 0, l.expected.state # "pending"
    PROVE  ThreadInv' /\ GenInv' /\ LeaseInv' /\ CondemnedInv' /\ HealthIsVetted'
<1>1. vetted \subseteq vetted' /\ vetted' \subseteq Leases /\ \A x \in vetted' : leases[x] # "free"
  BY DEF Inv, TypeOK, LeaseInv, ghosts
<1>2. l.pc \notin AuditPcs \cup {"acquire", "acquired", "published"}
  BY DEF PlainPcs, AuditPcs
<1>. QED
  BY <1>1, <1>2, LocalStep DEF AuditPcs, ghosts

\* What the steps of a thread may do to its allocator.
LEMMA Allocators ==
    ASSUME TypeOK, NEW t \in Threads, NEW a, alloc' = [alloc EXCEPT ![Home[t]] = a],
           a.up = Mine(t).up, Mine(t).lease # 0 => a.lease # 0
    PROVE  /\ \A c \in Computes : /\ alloc'[c].up = alloc[c].up
                                  /\ alloc[c].lease # 0 => alloc'[c].lease # 0
           /\ alloc'[Home[t]] = a
BY ThreadsAssumption DEF TypeOK, Mine

\* The control read that ends an audit before it begins, the failures that end
\* it later, and the operations with their guards.
LEMMA PlainSteps ==
    ASSUME Inv, NEW t \in Threads,
           \/ BeginLatched(t) \/ BeginFailed(t) \/ BeginFollower(t) \/ BeginStepDown(t)
           \/ WithdrawLost(t) \/ PublishRefused(t) \/ PublishLost(t) \/ Published(t)
           \/ Operating(t) \/ RequestLost(t)
    PROVE  ThreadInv' /\ GenInv' /\ LeaseInv' /\ CondemnedInv' /\ HealthIsVetted'
<1>. USE DEF PlainPcs, OnlyLocal, control, ghosts
<1>1. Home[t] \in Computes /\ Mine(t) \in Allocator /\ thread[t] \in Local
  BY ThreadsAssumption DEF Inv, TypeOK, Mine
<1>2. Mine(t).up \/ thread[t].pc = "idle"
  BY DEF Inv, ThreadInv, ThreadOK
<1>3. \A pc \in PCs : /\ At(pc).pc = pc /\ At(pc).lease = 0 /\ At(pc).expected.state = "absent"
                      /\ Idle.pc = "idle" /\ Idle.lease = 0 /\ Idle.expected.state = "absent"
  BY DEF At, Idle, NoRaw
<1>4. \A h, b : /\ [Mine(t) EXCEPT !.health = h].up = Mine(t).up
                /\ [Mine(t) EXCEPT !.health = h].lease = Mine(t).lease
                /\ [Mine(t) EXCEPT !.latch = b].up = Mine(t).up
                /\ [Mine(t) EXCEPT !.latch = b].lease = Mine(t).lease
                /\ [Mine(t) EXCEPT !.health = h, !.fullDue = b].up = Mine(t).up
                /\ [Mine(t) EXCEPT !.health = h, !.fullDue = b].lease = Mine(t).lease
  BY <1>1 DEF Allocator
<1>5. ASSUME NEW l, Go(t, l), UNCHANGED <<alloc, coordinator, leases, ghosts>>,
             l.pc \in PlainPcs, l.pc = "idle" \/ Mine(t).up,
             l.lease = 0, l.expected.state # "pending"
      PROVE  ThreadInv' /\ GenInv' /\ LeaseInv' /\ CondemnedInv' /\ HealthIsVetted'
  BY <1>5, PlainStep DEF Go
<1>6. ASSUME NEW l, NEW a, Step(t, l, a), UNCHANGED <<coordinator, leases, ghosts>>,
             a.up = Mine(t).up, a.lease = Mine(t).lease,
             l.pc \in PlainPcs, l.pc = "idle" \/ Mine(t).up,
             l.lease = 0, l.expected.state # "pending"
      PROVE  ThreadInv' /\ GenInv' /\ LeaseInv' /\ CondemnedInv' /\ HealthIsVetted'
  <2>1. \A c \in Computes : /\ alloc'[c].up = alloc[c].up
                            /\ alloc[c].lease # 0 => alloc'[c].lease # 0
    BY <1>6, Allocators DEF Inv, Step
  <2>. QED
    BY <1>6, <2>1, PlainStep DEF Step, Go
<1>7. ASSUME NEW pc \in PlainPcs, pc = "idle" \/ Mine(t).up, Go(t, At(pc)),
             UNCHANGED <<alloc, coordinator, leases, ghosts>>
      PROVE  ThreadInv' /\ GenInv' /\ LeaseInv' /\ CondemnedInv' /\ HealthIsVetted'
  BY <1>3, <1>5, <1>7 DEF PCs
<1>8. ASSUME NEW pc \in PlainPcs, pc = "idle" \/ Mine(t).up,
             Trust(t, At(pc)) \/ Distrust(t, At(pc)), UNCHANGED <<coordinator, leases, ghosts>>
      PROVE  ThreadInv' /\ GenInv' /\ LeaseInv' /\ CondemnedInv' /\ HealthIsVetted'
  <2>1. PICK h : Step(t, At(pc), [Mine(t) EXCEPT !.health = h])
    BY <1>8 DEF Trust, Distrust
  <2>. DEFINE a == [Mine(t) EXCEPT !.health = h]
  <2>2. a.up = Mine(t).up /\ a.lease = Mine(t).lease
    BY <1>4
  <2>3. At(pc).pc = pc /\ At(pc).lease = 0 /\ At(pc).expected.state = "absent"
    BY <1>3 DEF PCs
  <2>4. Step(t, At(pc), a)
    BY <2>1
  <2>. HIDE DEF a
  <2>. QED
    BY <1>6, <1>8, <2>2, <2>3, <2>4
<1>9. ASSUME Latch(t), UNCHANGED <<coordinator, leases, ghosts>>
      PROVE  ThreadInv' /\ GenInv' /\ LeaseInv' /\ CondemnedInv' /\ HealthIsVetted'
  <2>. DEFINE a == [Mine(t) EXCEPT !.latch = TRUE]
  <2>2. a.up = Mine(t).up /\ a.lease = Mine(t).lease
    BY <1>4
  <2>3. Idle.pc = "idle" /\ Idle.lease = 0 /\ Idle.expected.state = "absent"
    BY <1>3 DEF PCs
  <2>4. Step(t, Idle, a)
    BY <1>9 DEF Latch
  <2>. HIDE DEF a
  <2>. QED
    BY <1>6, <1>9, <2>2, <2>3, <2>4
<1>10. Idle = At("idle")
  BY DEF Idle, At, NoRaw, Absent
<1>11. CASE BeginLatched(t)
  BY <1>7, <1>10, <1>11 DEF BeginLatched
<1>12. CASE BeginFailed(t)
  BY <1>9, <1>12 DEF BeginFailed
<1>13. CASE BeginFollower(t)
  <2>1. Mine(t).up /\ UNCHANGED <<alloc, coordinator, leases, ghosts>>
    BY <1>13 DEF BeginFollower, Beginning
  <2>2. Go(t, At("recheck")) \/ Go(t, At("idle"))
    BY <1>10, <1>13 DEF BeginFollower, Elsewhere
  <2>. QED
    BY <1>7, <2>1, <2>2
<1>14. CASE BeginStepDown(t)
  <2>1. UNCHANGED <<coordinator, leases, ghosts>>
    BY <1>14 DEF BeginStepDown
  <2>2. (Go(t, At("idle")) /\ UNCHANGED alloc) \/ Distrust(t, At("idle"))
    BY <1>10, <1>14 DEF BeginStepDown
  <2>. QED
    BY <1>7, <1>8, <2>1, <2>2
<1>15. CASE WithdrawLost(t)
  BY <1>8, <1>10, <1>15 DEF WithdrawLost
<1>16. CASE PublishRefused(t) \/ PublishLost(t)
  BY <1>7, <1>10, <1>16 DEF PublishRefused, PublishLost
<1>17. CASE Published(t)
  <2>1. Mine(t).up
    BY <1>2, <1>17 DEF Published
  <2>. DEFINE pc == IF t \in Callers THEN "read" ELSE "idle"
              a == [Mine(t) EXCEPT !.health = [raw |-> thread[t].expected, lease |-> thread[t].lease],
                                   !.fullDue = @ /\ ~(t \in Periodics /\ thread[t].snapshot)]
  <2>2. a.up = Mine(t).up /\ a.lease = Mine(t).lease
    BY <1>1 DEF Allocator
  <2>3. Step(t, IF t \in Callers THEN At("read") ELSE Idle, a)
    BY <1>17 DEF Published
  <2>. HIDE DEF a
  <2>4. Step(t, At(pc), a) /\ UNCHANGED <<coordinator, leases, ghosts>>
    BY <1>10, <1>17, <2>3 DEF Published
  <2>5. At(pc).pc = pc /\ At(pc).lease = 0 /\ At(pc).expected.state = "absent"
    BY <1>3 DEF PCs
  <2>. QED
    BY <1>6, <2>1, <2>2, <2>4, <2>5
<1>18. CASE Ensure(t)
  <2>1. UNCHANGED <<coordinator, leases, ghosts>> /\ Mine(t).up
    BY <1>18 DEF Ensure
  <2>2. CASE Go(t, [At("begin") EXCEPT !.full = TRUE]) /\ UNCHANGED alloc
    <3>. DEFINE l == [At("begin") EXCEPT !.full = TRUE]
    <3>1. l.pc = "begin" /\ l.lease = 0 /\ l.expected.state = "absent"
      BY DEF At, Idle, NoRaw
    <3>. HIDE DEF l
    <3>. QED
      BY <1>5, <2>1, <2>2, <3>1 DEF l
  <2>. QED
    BY <1>8, <1>9, <1>18, <2>1, <2>2 DEF Ensure
<1>19. CASE Recheck(t)
  <2>1. UNCHANGED <<coordinator, leases, ghosts>> /\ Mine(t).up
    BY <1>2, <1>19 DEF Recheck
  <2>2. Latch(t) \/ Trust(t, At("read")) \/ (Go(t, At("idle")) /\ UNCHANGED alloc)
    BY <1>10, <1>19 DEF Recheck
  <2>. QED
    BY <1>7, <1>8, <1>9, <2>1, <2>2
<1>20. CASE Read(t)
  <2>1. UNCHANGED <<alloc, coordinator, leases, ghosts>> /\ Mine(t).up
    BY <1>2, <1>20 DEF Read
  <2>. DEFINE l == [At("reguard") EXCEPT !.expected = Mine(t).health.raw]
  <2>2. /\ l.pc = "reguard" /\ l.lease = 0
        /\ Mine(t).health # Absent => l.expected.state # "pending"
    BY <1>1 DEF At, Idle, Allocator, Verified
  <2>3. \/ Go(t, At("mutate")) \/ Go(t, At("idle"))
        \/ Mine(t).health # Absent /\ Go(t, l)
    BY <1>10, <1>20 DEF Read
  <2>. HIDE DEF l
  <2>. QED
    BY <1>5, <1>7, <2>1, <2>2, <2>3
<1>21. CASE Reguard(t)
  <2>1. UNCHANGED <<coordinator, leases, ghosts>> /\ Mine(t).up
    BY <1>2, <1>21 DEF Reguard
  <2>2. \/ Latch(t) \/ Trust(t, At("reread")) \/ Trust(t, At("idle"))
        \/ Go(t, At("idle")) /\ UNCHANGED alloc
    BY <1>10, <1>21 DEF Reguard
  <2>. QED
    BY <1>7, <1>8, <1>9, <2>1, <2>2
<1>22. CASE Mutate(t) \/ MutateRefused(t) \/ RequestLost(t)
  <2>1. UNCHANGED <<alloc, coordinator, leases, ghosts>> /\ Mine(t).up
    BY <1>2, <1>22 DEF Mutate, MutateRefused, RequestLost
  <2>2. Go(t, At("idle")) \/ Go(t, At("read"))
    BY <1>10, <1>22 DEF Mutate, MutateRefused, RequestLost
  <2>. QED
    BY <1>7, <2>1, <2>2
<1>. QED
  BY <1>11, <1>12, <1>13, <1>14, <1>15, <1>16, <1>17, <1>18, <1>19, <1>20, <1>21, <1>22
  DEF Operating

\* The steps of an audit that leave the coordinator record alone.
LEMMA AuditSteps ==
    ASSUME Inv, NEW t \in Threads,
           \/ BeginRoutine(t) \/ Refresh(t) \/ Acquired(t) \/ Probe(t)
           \/ ScanClean(t) \/ ScanCorrupt(t) \/ AuditError(t) \/ Tell(t) \/ TellLost(t)
           \/ FullDue(t)
    PROVE  ThreadInv' /\ GenInv' /\ LeaseInv' /\ CondemnedInv' /\ HealthIsVetted'
<1>. USE DEF OnlyLocal, control, ghosts, AuditPcs
<1>1. Home[t] \in Computes /\ Mine(t) \in Allocator /\ thread[t] \in Local
  BY ThreadsAssumption DEF Inv, TypeOK, Mine
<1>2. ThreadOK(t, thread[t])
  BY DEF Inv, ThreadInv
<1>3. vetted \subseteq Leases /\ condemned \subseteq Leases /\ \A x \in vetted : leases[x] # "free"
  BY DEF Inv, TypeOK, LeaseInv
<1>4. ASSUME NEW l, Go(t, l), UNCHANGED <<alloc, coordinator, condemned>>,
             \A x \in Leases : leases'[x] = "free" <=> leases[x] = "free",
             vetted \subseteq vetted', vetted' \subseteq Leases, \A x \in vetted' : leases[x] # "free",
             thread[t].pc # "idle", l.pc \notin {"acquire", "acquired", "published"},
             l.pc \in AuditPcs => thread[t].pc \in AuditPcs,
             l.pc \in {"refresh", "probe"} => l.expected.state = "healthy",
             l.lease = thread[t].lease, l.expected = thread[t].expected,
             l.pc = "publish" /\ l.expected.state = "pending" /\ leases[l.lease] # "free"
                => l.lease \in vetted'
      PROVE  ThreadInv' /\ GenInv' /\ LeaseInv' /\ CondemnedInv' /\ HealthIsVetted'
  <2>1. \A c \in Computes : alloc'[c].up = alloc[c].up /\ (alloc[c].lease # 0 => alloc'[c].lease # 0)
    BY <1>4
  <2>2. l.pc = "idle" \/ Mine(t).up
    BY <1>2, <1>4 DEF ThreadOK
  <2>3. l.pc \in AuditPcs => alloc'[Home[t]].lease # 0 /\ l.lease # 0
    BY <1>2, <1>4 DEF ThreadOK, Mine
  <2>4. l.lease \in {0, thread[t].lease, coordinator.lease}
    BY <1>4
  <2>. QED
    BY <1>4, <2>1, <2>2, <2>3, <2>4, LocalStep DEF Go
<1>5. ASSUME NEW l, NEW a, Step(t, l, a), UNCHANGED <<coordinator, leases, vetted, condemned>>,
             Mine(t).up, a.up = Mine(t).up, Mine(t).lease # 0 => a.lease # 0,
             l.pc \in AuditPcs => a.lease # 0 /\ l.lease # 0,
             l.pc \in {"refresh", "probe", "published"} => l.expected.state = "healthy",
             l.pc \in {"acquired", "published"} => l.lease # 0,
             l.pc = "acquire" => l = thread[t],
             l.lease \in {thread[t].lease, coordinator.lease},
             l.expected.state = "pending" =>
                /\ l.expected = thread[t].expected /\ l.lease = thread[t].lease
                /\ l.pc = "publish" /\ leases[l.lease] # "free" => l.lease \in vetted
      PROVE  ThreadInv' /\ GenInv' /\ LeaseInv' /\ CondemnedInv' /\ HealthIsVetted'
  <2>1. thread' = [thread EXCEPT ![t] = l] /\ alloc' = [alloc EXCEPT ![Home[t]] = a]
    BY <1>5 DEF Step, Go
  <2>2. /\ \A c \in Computes : /\ alloc'[c].up = alloc[c].up
                               /\ alloc[c].lease # 0 => alloc'[c].lease # 0
        /\ alloc'[Home[t]] = a
    BY <1>5, <2>1, Allocators DEF Inv
  <2>3. /\ \A x \in Leases : leases'[x] = "free" <=> leases[x] = "free"
        /\ vetted \subseteq vetted' /\ vetted' \subseteq Leases
        /\ \A x \in vetted' : leases[x] # "free"
        /\ vetted' = vetted
    BY <1>3, <1>5
  <2>4. l.pc \in AuditPcs => alloc'[Home[t]].lease # 0
    BY <1>5, <2>2
  <2>5. l.pc \in AuditPcs \cup {"acquired", "published"} => l.lease # 0
    BY <1>5
  <2>6. UNCHANGED <<coordinator, condemned>> /\ l.lease \in {0, thread[t].lease, coordinator.lease}
    BY <1>5
  <2>7. l.pc = "idle" \/ Mine(t).up
    BY <1>5
  <2>8. l.expected.state = "pending" =>
           /\ l.expected = thread[t].expected /\ l.lease = thread[t].lease
           /\ l.pc = "publish" /\ leases[l.lease] # "free" => l.lease \in vetted'
    BY <1>5
  <2>9. /\ l.pc \in {"refresh", "probe", "published"} => l.expected.state = "healthy"
        /\ l.pc = "acquire" => l = thread[t]
    BY <1>5
  <2>. QED
    BY <2>1, <2>2, <2>3, <2>4, <2>5, <2>6, <2>7, <2>8, <2>9, LocalStep
<1>6. CASE BeginRoutine(t)
  <2>. DEFINE l == [At("refresh") EXCEPT !.full = Asked(t), !.lease = coordinator.lease,
                                         !.expected = coordinator.raw]
              a == [Mine(t) EXCEPT !.health = coordinator]
  <2>1. l.pc = "refresh" /\ l.lease = coordinator.lease /\ l.expected = coordinator.raw
    BY DEF At, Idle
  <2>2. a.up = Mine(t).up /\ a.lease = Mine(t).lease
    BY <1>1 DEF Allocator
  <2>3. /\ Step(t, l, a) /\ UNCHANGED <<coordinator, leases, vetted, condemned>>
        /\ Mine(t).up /\ Mine(t).lease = coordinator.lease /\ coordinator.lease # 0
        /\ coordinator.raw.state = "healthy"
    BY <1>6 DEF BeginRoutine, Beginning, Owns, Trust
  <2>. HIDE DEF l, a
  <2>. QED
    BY <1>5, <2>1, <2>2, <2>3
<1>7. CASE Refresh(t)
  <2>1. CASE leases[Mine(t).lease] = "free"
    <3>1. Go(t, Idle) /\ UNCHANGED <<alloc, coordinator, leases, ghosts>>
      BY <1>7, <2>1 DEF Refresh
    <3>2. Idle.pc = "idle" /\ Idle.lease = 0 /\ Idle.expected.state = "absent"
      BY DEF Idle, NoRaw
    <3>3. \A c \in Computes : alloc'[c].up = alloc[c].up /\ (alloc[c].lease # 0 => alloc'[c].lease # 0)
      BY <3>1
    <3>. QED
      BY <3>1, <3>2, <3>3, PlainStep DEF Go, PlainPcs
  <2>2. CASE leases[Mine(t).lease] # "free"
    <3>1. PICK pc \in {"scan", "probe"} : Go(t, [thread[t] EXCEPT !.pc = pc, !.full = FALSE])
      BY <1>7, <2>2 DEF Refresh
    <3>. DEFINE l == [thread[t] EXCEPT !.pc = pc, !.full = FALSE]
    <3>2. l.pc = pc /\ l.lease = thread[t].lease /\ l.expected = thread[t].expected
      BY <1>1 DEF Local
    <3>3. Go(t, l) /\ UNCHANGED <<alloc, coordinator, vetted, condemned>>
      BY <1>7, <3>1 DEF Refresh
    <3>. HIDE DEF l
    <3>4. leases' = [leases EXCEPT ![Mine(t).lease] = "fresh"] /\ thread[t].pc = "refresh"
      BY <1>7, <2>2 DEF Refresh
    <3>5. \A x \in Leases : leases'[x] = "free" <=> leases[x] = "free"
      BY <2>2, <3>4 DEF Inv, TypeOK
    <3>. QED
      BY <1>2, <1>3, <1>4, <3>2, <3>3, <3>4, <3>5 DEF ThreadOK
  <2>. QED
    BY <2>1, <2>2
<1>8. CASE Acquired(t)
  <2>. DEFINE l == [thread[t] EXCEPT !.pc = "scan"]
              a == [Mine(t) EXCEPT !.lease = thread[t].lease, !.health = Absent]
  <2>1. l.pc = "scan" /\ l.lease = thread[t].lease /\ l.expected = thread[t].expected
    BY <1>1 DEF Local
  <2>2. a.up = Mine(t).up /\ a.lease = thread[t].lease
    BY <1>1 DEF Allocator
  <2>3. /\ Step(t, l, a) /\ UNCHANGED <<coordinator, leases, vetted, condemned>>
        /\ thread[t].pc = "acquired"
    BY <1>8 DEF Acquired
  <2>. HIDE DEF l, a
  <2>4. Mine(t).up /\ thread[t].lease # 0
    BY <1>2, <2>3 DEF ThreadOK
  <2>. QED
    BY <1>5, <2>1, <2>2, <2>3, <2>4
<1>9. CASE Probe(t)
  <2>1. PICK pc \in {"scan", "publish"} : Go(t, [thread[t] EXCEPT !.pc = pc])
    BY <1>9 DEF Probe
  <2>. DEFINE l == [thread[t] EXCEPT !.pc = pc]
  <2>2. l.pc = pc /\ l.lease = thread[t].lease /\ l.expected = thread[t].expected
    BY <1>1 DEF Local
  <2>3. Go(t, l) /\ UNCHANGED <<alloc, coordinator, leases, vetted, condemned>> /\ thread[t].pc = "probe"
    BY <1>9, <2>1 DEF Probe
  <2>. HIDE DEF l
  <2>. QED
    BY <1>2, <1>3, <1>4, <2>2, <2>3 DEF ThreadOK
<1>10. CASE ScanClean(t)
  <2>. DEFINE l == [thread[t] EXCEPT !.pc = "publish", !.snapshot = TRUE]
  <2>1. l.pc = "publish" /\ l.lease = thread[t].lease /\ l.expected = thread[t].expected
    BY <1>1 DEF Local
  <2>2. Go(t, l) /\ UNCHANGED <<alloc, coordinator, leases, condemned>> /\ thread[t].pc = "scan"
    BY <1>10 DEF ScanClean
  <2>3. vetted' = IF leases[thread[t].lease] = "free" THEN vetted ELSE vetted \cup {thread[t].lease}
    BY <1>10 DEF ScanClean
  <2>. HIDE DEF l
  <2>4. thread[t].lease \in Leases
    BY <1>1, <1>2, <2>2 DEF ThreadOK, Local
  <2>. QED
    BY <1>3, <1>4, <2>1, <2>2, <2>3, <2>4
<1>11. CASE ScanCorrupt(t)
  <2>. DEFINE l == [thread[t] EXCEPT !.pc = "tell"]
              a == [Mine(t) EXCEPT !.latch = TRUE]
  <2>1. l.pc = "tell" /\ l.lease = thread[t].lease /\ l.expected = thread[t].expected
    BY <1>1 DEF Local
  <2>2. a.up = Mine(t).up /\ a.lease = Mine(t).lease
    BY <1>1 DEF Allocator
  <2>3. /\ Step(t, l, a) /\ UNCHANGED <<coordinator, leases, vetted, condemned>>
        /\ thread[t].pc = "scan"
    BY <1>11 DEF ScanCorrupt
  <2>. HIDE DEF l, a
  <2>4. Mine(t).up /\ thread[t].lease # 0 /\ Mine(t).lease # 0
    BY <1>2, <2>3 DEF ThreadOK
  <2>. QED
    BY <1>5, <2>1, <2>2, <2>3, <2>4
<1>12. CASE AuditError(t) \/ Tell(t) \/ TellLost(t)
  <2>. DEFINE l == [thread[t] EXCEPT !.pc = "withdraw"]
  <2>1. l.pc = "withdraw" /\ l.lease = thread[t].lease /\ l.expected = thread[t].expected
    BY <1>1 DEF Local
  <2>2. /\ Go(t, l) /\ UNCHANGED <<alloc, coordinator, leases, vetted, condemned>>
        /\ thread[t].pc \in {"probe", "scan", "tell"}
    BY <1>12 DEF AuditError, Tell, TellLost
  <2>. HIDE DEF l
  <2>. QED
    BY <1>3, <1>4, <2>1, <2>2
<1>13. CASE FullDue(t)
  <2>. DEFINE a == [Mine(t) EXCEPT !.fullDue = TRUE]
  <2>1. a.up = Mine(t).up /\ a.lease = Mine(t).lease
    BY <1>1 DEF Allocator
  <2>2. Step(t, thread[t], a) /\ UNCHANGED <<coordinator, leases, vetted, condemned>> /\ Mine(t).up
    BY <1>13 DEF FullDue
  <2>. HIDE DEF a
  <2>. QED
    BY <1>2, <1>5, <2>1, <2>2 DEF ThreadOK
<1>. QED
  BY <1>6, <1>7, <1>8, <1>9, <1>10, <1>11, <1>12, <1>13

-----------------------------------------------------------------------------
(* Steps that revoke leases, end processes or take the record away.        *)

\* Every thread either goes on as it was or forgets its audit; the leases in gone
\* end, and their marks and the record attached to one of them with them.
LEMMA ForgetStep ==
    ASSUME Inv, NEW gone,
           \A u \in Threads :
              \/ /\ thread'[u] = thread[u]
                 /\ thread[u].pc = "idle" \/ (Mine(u)').up
                 /\ thread[u].pc \in AuditPcs => (Mine(u)').lease # 0
              \/ /\ thread'[u].pc \in PlainPcs
                 /\ thread'[u].pc = "idle" \/ (Mine(u)').up
                 /\ thread'[u].lease = 0 /\ thread'[u].expected.state # "pending",
           \A x \in Leases : leases'[x] = "free" <=> leases[x] = "free" \/ x \in gone,
           vetted' = vetted \ gone, condemned' = condemned \ gone,
           \/ coordinator' = coordinator /\ coordinator.lease \notin gone
           \/ coordinator'.lease = 0 /\ coordinator'.raw.state # "pending"
    PROVE  ThreadInv' /\ GenInv' /\ LeaseInv' /\ CondemnedInv' /\ HealthIsVetted'
<1>1. \A u \in Threads : ThreadOK(u, thread[u]) /\ thread[u].lease \in Leases \cup {0}
  BY DEF Inv, ThreadInv, TypeOK, Local
<1>2. /\ coordinator.lease \in Leases \cup {0} /\ 0 \notin Leases
      /\ vetted \subseteq Leases /\ condemned \subseteq Leases
  BY IdsAssumption DEF Inv, TypeOK, Coordinator, Absent
<1>3. ThreadInv'
  <2>. SUFFICES ASSUME NEW u \in Threads PROVE ThreadOK(u, thread[u])'
    BY DEF ThreadInv
  <2>1. CASE /\ thread'[u] = thread[u]
             /\ thread[u].pc = "idle" \/ (Mine(u)').up
             /\ thread[u].pc \in AuditPcs => (Mine(u)').lease # 0
    <3>1. /\ thread[u].expected.state = "pending" =>
                /\ thread[u].lease # 0
                /\ thread[u].pc = "publish" /\ leases'[thread[u].lease] # "free"
                      => thread[u].lease \in vetted'
      BY <1>1, <1>2 DEF ThreadOK
    <3>2. thread[u].pc = "acquire" =>
             /\ thread[u].lease # coordinator'.lease /\ thread[u].lease \notin condemned'
             /\ \A v \in Threads \ {u} : thread'[v].lease # thread[u].lease
      BY <1>1, <1>2 DEF ThreadOK
    <3>. QED
      BY <1>1, <2>1, <3>1, <3>2 DEF ThreadOK
  <2>2. CASE /\ thread'[u].pc \in PlainPcs
             /\ thread'[u].pc = "idle" \/ (Mine(u)').up
             /\ thread'[u].lease = 0 /\ thread'[u].expected.state # "pending"
    BY <2>2 DEF ThreadOK, PlainPcs, AuditPcs
  <2>. QED
    BY <2>1, <2>2
<1>4. GenInv'
  <2>. SUFFICES ASSUME NEW u \in Threads, thread'[u].expected.state = "pending"
                PROVE  /\ coordinator'.raw = thread'[u].expected => coordinator'.lease = thread'[u].lease
                       /\ \A v \in Threads \ {u} : thread'[v].expected # thread'[u].expected
    BY DEF GenInv
  <2>1. thread'[u] = thread[u]
    OBVIOUS
  <2>2. coordinator'.raw = thread'[u].expected => coordinator'.lease = thread'[u].lease
    BY <2>1 DEF Inv, GenInv
  <2>3. ASSUME NEW v \in Threads \ {u} PROVE thread'[v].expected # thread'[u].expected
    BY <2>1 DEF Inv, GenInv
  <2>. QED
    BY <2>2, <2>3
<1>5. LeaseInv'
  BY <1>2 DEF Inv, LeaseInv
<1>6. CondemnedInv'
  <2>1. coordinator'.lease \in condemned' => coordinator' = coordinator /\ coordinator.lease \in condemned
    BY <1>2
  <2>2. ASSUME coordinator'.lease \in condemned', NEW u \in Threads
        PROVE  thread'[u].expected # coordinator'.raw
    BY <2>1, <2>2 DEF Inv, CondemnedInv
  <2>. QED
    BY <2>1, <2>2 DEF Inv, CondemnedInv
<1>7. HealthIsVetted'
  BY DEF Inv, HealthIsVetted, Healthy
<1>. QED
  BY <1>3, <1>4, <1>5, <1>6, <1>7

\* Lost elections, expiry, crashes, restarts, repair, a stale backup, damage.
LEMMA ForgetSteps ==
    ASSUME Inv,
           \/ \E t \in Threads : AcquireRefused(t) \/ AcquireLost(t)
           \/ \E c \in Computes : Crash(c) \/ Restart(c) \/ Restore(c)
           \/ \E l \in Leases : Age(l) \/ Expire(l)
           \/ Repair
           \/ \E damage \in {"counts", "content"} : Corrupt(damage)
           \/ UNCHANGED vars
    PROVE  ThreadInv' /\ GenInv' /\ LeaseInv' /\ CondemnedInv' /\ HealthIsVetted'
<1>. USE DEF OnlyLocal, control, ghosts
<1>1. \A u \in Threads : /\ Home[u] \in Computes /\ ThreadOK(u, thread[u])
                         /\ thread[u].lease \in Leases \cup {0}
  BY ThreadsAssumption DEF Inv, ThreadInv, TypeOK, Local
<1>2. /\ thread \in [Threads -> Local] /\ alloc \in [Computes -> Allocator]
      /\ leases \in [Leases -> {"free", "fresh", "aged"}]
      /\ vetted \subseteq Leases /\ condemned \subseteq Leases
      /\ coordinator.lease \in Leases \cup {0} /\ 0 \notin Leases
  BY IdsAssumption DEF Inv, TypeOK, Coordinator, Absent
<1>3. \A u \in Threads : /\ thread[u].pc = "idle" \/ Mine(u).up
                         /\ thread[u].pc \in AuditPcs => Mine(u).lease # 0
  BY <1>1 DEF ThreadOK
<1>4. /\ \A pc \in PlainPcs : /\ At(pc).pc = pc /\ At(pc).lease = 0
                              /\ At(pc).expected.state # "pending"
      /\ Idle.pc = "idle" /\ Idle.lease = 0 /\ Idle.expected.state # "pending"
  BY DEF At, Idle, NoRaw, PlainPcs
<1>5. Absent.lease = 0 /\ Absent.raw.state # "pending"
  BY DEF Absent, NoRaw
<1>6. \A l \in Leases \cup {0} : Free(l) =>
         /\ \A x \in Leases : leases'[x] = "free" <=> leases[x] = "free" \/ x \in {l}
         /\ vetted' = vetted \ {l} /\ condemned' = condemned \ {l}
         /\ \/ coordinator' = coordinator /\ coordinator.lease \notin {l}
            \/ coordinator'.lease = 0 /\ coordinator'.raw.state # "pending"
  BY <1>2, <1>5 DEF Free
<1>7. ASSUME UNCHANGED <<alloc, thread>>
      PROVE  \A u \in Threads : /\ thread'[u] = thread[u]
                                /\ thread[u].pc = "idle" \/ (Mine(u)').up
                                /\ thread[u].pc \in AuditPcs => (Mine(u)').lease # 0
  BY <1>3, <1>7 DEF Mine
<1>8. ASSUME UNCHANGED <<vetted, condemned>>,
             \A u \in Threads :
                \/ /\ thread'[u] = thread[u]
                   /\ thread[u].pc = "idle" \/ (Mine(u)').up
                   /\ thread[u].pc \in AuditPcs => (Mine(u)').lease # 0
                \/ /\ thread'[u].pc \in PlainPcs
                   /\ thread'[u].pc = "idle" \/ (Mine(u)').up
                   /\ thread'[u].lease = 0 /\ thread'[u].expected.state # "pending",
             \A x \in Leases : leases'[x] = "free" <=> leases[x] = "free",
             \/ coordinator' = coordinator
             \/ coordinator'.lease = 0 /\ coordinator'.raw.state # "pending"
      PROVE  ThreadInv' /\ GenInv' /\ LeaseInv' /\ CondemnedInv' /\ HealthIsVetted'
  <2>1. PICK none : none = {}
    OBVIOUS
  <2>2. /\ \A x \in Leases : leases'[x] = "free" <=> leases[x] = "free" \/ x \in none
        /\ vetted' = vetted \ none /\ condemned' = condemned \ none
        /\ \/ coordinator' = coordinator /\ coordinator.lease \notin none
           \/ coordinator'.lease = 0 /\ coordinator'.raw.state # "pending"
    BY <1>8, <2>1
  <2>. QED
    BY <1>8, <2>2, ForgetStep
<1>9. ASSUME NEW t \in Threads, AcquireRefused(t) \/ AcquireLost(t)
      PROVE  ThreadInv' /\ GenInv' /\ LeaseInv' /\ CondemnedInv' /\ HealthIsVetted'
  <2>1. thread[t].pc \in {"acquire", "acquired"} /\ UNCHANGED alloc
    BY <1>9 DEF AcquireRefused, AcquireLost
  <2>2. PICK l : /\ thread' = [thread EXCEPT ![t] = l]
                 /\ l.pc \in PlainPcs /\ l.lease = 0 /\ l.expected.state # "pending"
    BY <1>4, <1>9 DEF AcquireRefused, AcquireLost, Go, Elsewhere, PlainPcs
  <2>3. \A u \in Threads :
           \/ /\ thread'[u] = thread[u]
              /\ thread[u].pc = "idle" \/ (Mine(u)').up
              /\ thread[u].pc \in AuditPcs => (Mine(u)').lease # 0
           \/ /\ thread'[u].pc \in PlainPcs
              /\ thread'[u].pc = "idle" \/ (Mine(u)').up
              /\ thread'[u].lease = 0 /\ thread'[u].expected.state # "pending"
    BY <1>2, <1>3, <2>1, <2>2 DEF Mine
  <2>4. Free(thread[t].lease) \/ UNCHANGED <<coordinator, leases, ghosts>>
    BY <1>9 DEF AcquireRefused, AcquireLost
  <2>5. CASE Free(thread[t].lease)
    BY <1>1, <1>6, <2>3, <2>5, ForgetStep
  <2>6. CASE UNCHANGED <<coordinator, leases, ghosts>>
    BY <1>8, <2>3, <2>6
  <2>. QED
    BY <2>4, <2>5, <2>6
<1>10. ASSUME NEW c \in Computes, Crash(c)
       PROVE  ThreadInv' /\ GenInv' /\ LeaseInv' /\ CondemnedInv' /\ HealthIsVetted'
  <2>1. /\ alloc' = [alloc EXCEPT ![c] = Down] /\ UNCHANGED <<coordinator, leases, vetted, condemned>>
        /\ thread' = [t \in Threads |-> IF Home[t] = c THEN Idle ELSE thread[t]]
    BY <1>10 DEF Crash
  <2>2. \A u \in Threads :
           \/ /\ thread'[u] = thread[u]
              /\ thread[u].pc = "idle" \/ (Mine(u)').up
              /\ thread[u].pc \in AuditPcs => (Mine(u)').lease # 0
           \/ /\ thread'[u].pc \in PlainPcs
              /\ thread'[u].pc = "idle" \/ (Mine(u)').up
              /\ thread'[u].lease = 0 /\ thread'[u].expected.state # "pending"
    <3>. SUFFICES ASSUME NEW u \in Threads, Home[u] # c
                  PROVE  thread'[u] = thread[u] /\ Mine(u)' = Mine(u)
      BY <1>3, <1>4, <2>1 DEF PlainPcs
    <3>. QED
      BY <1>1, <1>2, <2>1 DEF Mine
  <2>3. \A x \in Leases : leases'[x] = "free" <=> leases[x] = "free"
    BY <2>1
  <2>. QED
    BY <1>8, <2>1, <2>2, <2>3
<1>11. ASSUME NEW c \in Computes, Restart(c)
       PROVE  ThreadInv' /\ GenInv' /\ LeaseInv' /\ CondemnedInv' /\ HealthIsVetted'
  <2>1. /\ alloc' = [alloc EXCEPT ![c] = Started(NewToken)] /\ ~alloc[c].up
        /\ UNCHANGED <<coordinator, leases, thread, vetted, condemned>>
    BY <1>11 DEF Restart
  <2>2. \A u \in Threads : /\ thread'[u] = thread[u]
                           /\ thread[u].pc = "idle" \/ (Mine(u)').up
                           /\ thread[u].pc \in AuditPcs => (Mine(u)').lease # 0
    BY <1>1, <1>2, <1>3, <2>1 DEF Mine, AuditPcs
  <2>3. \A x \in Leases : leases'[x] = "free" <=> leases[x] = "free"
    BY <2>1
  <2>. QED
    BY <1>8, <2>1, <2>2, <2>3
<1>12. ASSUME NEW c \in Computes, Restore(c)
       PROVE  ThreadInv' /\ GenInv' /\ LeaseInv' /\ CondemnedInv' /\ HealthIsVetted'
  <2>1. /\ coordinator' = [raw |-> alloc[c].health.raw, lease |-> 0] /\ alloc[c].health # Absent
        /\ UNCHANGED <<leases, alloc, thread, vetted, condemned>>
    BY <1>12 DEF Restore
  <2>2. coordinator'.lease = 0 /\ coordinator'.raw.state # "pending"
    BY <1>2, <2>1 DEF Allocator, Verified
  <2>3. \A x \in Leases : leases'[x] = "free" <=> leases[x] = "free"
    BY <2>1
  <2>. QED
    BY <1>7, <1>8, <2>1, <2>2, <2>3
<1>13. ASSUME NEW l \in Leases, Age(l) \/ Expire(l)
       PROVE  ThreadInv' /\ GenInv' /\ LeaseInv' /\ CondemnedInv' /\ HealthIsVetted'
  <2>1. UNCHANGED <<alloc, thread>>
    BY <1>13 DEF Age, Expire
  <2>2. CASE Expire(l)
    <3>1. /\ \A x \in Leases : leases'[x] = "free" <=> leases[x] = "free" \/ x \in {l}
          /\ vetted' = vetted \ {l} /\ condemned' = condemned \ {l}
          /\ \/ coordinator' = coordinator /\ coordinator.lease \notin {l}
             \/ coordinator'.lease = 0 /\ coordinator'.raw.state # "pending"
      BY <1>6, <2>2 DEF Expire
    <3>. QED
      BY <1>7, <2>1, <3>1, ForgetStep
  <2>3. CASE Age(l)
    <3>1. UNCHANGED <<coordinator, vetted, condemned>>
      BY <2>3 DEF Age
    <3>2. \A x \in Leases : leases'[x] = "free" <=> leases[x] = "free"
      BY <1>2, <2>3 DEF Age
    <3>. QED
      BY <1>7, <1>8, <2>1, <3>1, <3>2
  <2>. QED
    BY <1>13, <2>2, <2>3
<1>14. CASE Repair
  <2>1. /\ coordinator' = Absent /\ vetted' = {} /\ condemned' = {}
        /\ leases' = [l \in Leases |-> "free"] /\ thread' = [t \in Threads |-> Idle]
    BY <1>14 DEF Repair
  <2>2. \A u \in Threads : /\ thread'[u].pc \in PlainPcs /\ thread'[u].pc = "idle"
                           /\ thread'[u].lease = 0 /\ thread'[u].expected.state # "pending"
    BY <1>4, <2>1 DEF PlainPcs
  <2>3. /\ \A x \in Leases : leases'[x] = "free" <=> leases[x] = "free" \/ x \in Leases
        /\ vetted' = vetted \ Leases /\ condemned' = condemned \ Leases
        /\ coordinator'.lease = 0 /\ coordinator'.raw.state # "pending"
    BY <1>2, <1>5, <2>1
  <2>. QED
    BY <2>2, <2>3, ForgetStep
<1>15. ASSUME UNCHANGED <<coordinator, leases, alloc, thread, ghosts>>
       PROVE  ThreadInv' /\ GenInv' /\ LeaseInv' /\ CondemnedInv' /\ HealthIsVetted'
  <2>1. \A x \in Leases : leases'[x] = "free" <=> leases[x] = "free"
    BY <1>15
  <2>. QED
    BY <1>7, <1>8, <1>15, <2>1
<1>16. CASE UNCHANGED vars \/ \E damage \in {"counts", "content"} : Corrupt(damage)
  BY <1>15, <1>16 DEF vars, Corrupt
<1>. QED
  BY <1>9, <1>10, <1>11, <1>12, <1>13, <1>14, <1>16

-----------------------------------------------------------------------------
(* The steps that write the coordinator record, and the lease they use.    *)

\* A candidate's lease is a new one.
LEMMA ElectionStep ==
    ASSUME Inv, NEW t \in Threads, BeginElection(t)
    PROVE  ThreadInv' /\ GenInv' /\ LeaseInv' /\ CondemnedInv' /\ HealthIsVetted'
<1>. DEFINE l == [At("acquire") EXCEPT !.seen = coordinator, !.lease = NewLease]
<1>1. /\ l.pc = "acquire" /\ l.lease = NewLease /\ l.expected.state = "absent"
  BY DEF At, Idle, NoRaw
<1>2. /\ thread' = [thread EXCEPT ![t] = l] /\ leases' = [leases EXCEPT ![NewLease] = "fresh"]
      /\ UNCHANGED <<coordinator, alloc, vetted, condemned>> /\ Mine(t).up
  BY DEF BeginElection, Go, ghosts, Beginning
<1>. HIDE DEF l
<1>3. /\ NewLease \in Leases /\ coordinator.lease # NewLease /\ leases[NewLease] = "free"
      /\ \A u \in Threads : thread[u].lease # NewLease
  BY NewLeaseFresh DEF BeginElection
<1>4. \A u \in Threads : ThreadOK(u, thread[u]) /\ thread[u].lease \in Leases \cup {0}
  BY DEF Inv, ThreadInv, TypeOK, Local
<1>5. /\ NewLease \notin vetted \cup condemned /\ 0 \notin Leases
      /\ coordinator.lease \in Leases \cup {0} /\ vetted \cup condemned \subseteq Leases
  BY <1>3, IdsAssumption DEF Inv, LeaseInv, TypeOK, Coordinator, Absent
<1>6. \A u \in Threads : thread'[u] = IF u = t THEN l ELSE thread[u]
  BY <1>2 DEF Inv, TypeOK
<1>7. \A x \in Leases : leases'[x] = IF x = NewLease THEN "fresh" ELSE leases[x]
  BY <1>2 DEF Inv, TypeOK
<1>8. ThreadInv'
  <2>. SUFFICES ASSUME NEW u \in Threads PROVE ThreadOK(u, thread[u])'
    BY DEF ThreadInv
  <2>1. CASE u = t
    BY <1>1, <1>2, <1>3, <1>5, <1>6, <2>1 DEF ThreadOK, Mine, AuditPcs
  <2>2. CASE u # t
    BY <1>1, <1>2, <1>3, <1>4, <1>6, <1>7, <2>2 DEF ThreadOK, Mine
  <2>. QED
    BY <2>1, <2>2
<1>9. GenInv'
  BY <1>1, <1>2, <1>6 DEF Inv, GenInv
<1>10. LeaseInv'
  BY <1>2, <1>5, <1>7 DEF Inv, LeaseInv
<1>11. CondemnedInv'
  BY <1>1, <1>2, <1>6 DEF Inv, CondemnedInv
<1>12. HealthIsVetted'
  BY <1>2 DEF Inv, HealthIsVetted, Healthy
<1>. QED
  BY <1>8, <1>9, <1>10, <1>11, <1>12

\* The record an election puts has a generation no other thread knows.
LEMMA AcquireStep ==
    ASSUME Inv, NEW t \in Threads, Acquire(t)
    PROVE  ThreadInv' /\ GenInv' /\ LeaseInv' /\ CondemnedInv' /\ HealthIsVetted'
<1>. DEFINE pending == [token |-> Mine(t).token, state |-> "pending", gen |-> NewGen]
            l == [thread[t] EXCEPT !.pc = "acquired", !.seen = Absent, !.expected = pending]
<1>1. thread[t] \in Local
  BY DEF Inv, TypeOK
<1>2. /\ l.pc = "acquired" /\ l.lease = thread[t].lease /\ l.expected = pending
      /\ pending.state = "pending" /\ pending.gen = NewGen
  BY <1>1 DEF Local
<1>3. /\ thread' = [thread EXCEPT ![t] = l] /\ UNCHANGED <<leases, alloc, vetted, condemned>>
      /\ coordinator' = [raw |-> pending, lease |-> thread[t].lease]
      /\ thread[t].pc = "acquire" /\ leases[thread[t].lease] # "free"
  BY DEF Acquire, Go
<1>. HIDE DEF l, pending
<1>4. coordinator'.raw = pending /\ coordinator'.lease = thread[t].lease
  BY <1>3
<1>5. \A u \in Threads : ThreadOK(u, thread[u])
  BY DEF Inv, ThreadInv
<1>6. \A u \in Threads : thread[u].expected # pending
  BY <1>2, NewGenFresh DEF Acquire
<1>7. \A u \in Threads : thread'[u] = IF u = t THEN l ELSE thread[u]
  BY <1>3 DEF Inv, TypeOK
<1>8. thread[t].lease # 0 /\ thread[t].lease \notin condemned /\ Mine(t).up
  BY <1>3, <1>5 DEF ThreadOK
<1>9. ThreadInv'
  <2>. SUFFICES ASSUME NEW u \in Threads PROVE ThreadOK(u, thread[u])'
    BY DEF ThreadInv
  <2>1. CASE u = t
    BY <1>2, <1>3, <1>7, <1>8, <2>1 DEF ThreadOK, Mine, AuditPcs
  <2>2. CASE u # t
    BY <1>2, <1>3, <1>4, <1>5, <1>7, <2>2 DEF ThreadOK, Mine
  <2>. QED
    BY <2>1, <2>2
<1>10. GenInv'
  BY <1>2, <1>4, <1>6, <1>7 DEF Inv, GenInv
<1>11. LeaseInv'
  BY <1>3, <1>4 DEF Inv, LeaseInv
<1>12. CondemnedInv'
  BY <1>3, <1>4, <1>8 DEF CondemnedInv
<1>13. HealthIsVetted'
  BY <1>2, <1>4 DEF HealthIsVetted, Healthy
<1>. QED
  BY <1>9, <1>10, <1>11, <1>12, <1>13

\* A failed audit condemns the lease it was made under, and leaves a pending
\* record no thread can compare.
LEMMA WithdrawStep ==
    ASSUME Inv, NEW t \in Threads, Withdraw(t)
    PROVE  ThreadInv' /\ GenInv' /\ LeaseInv' /\ CondemnedInv' /\ HealthIsVetted'
<1>. DEFINE pending == [token |-> Mine(t).token, state |-> "pending", gen |-> NewGen]
            held == Replaces(thread[t].expected, Mine(t).lease)
            a == [Mine(t) EXCEPT !.health = Absent]
<1>1. /\ thread' = [thread EXCEPT ![t] = Idle] /\ alloc' = [alloc EXCEPT ![Home[t]] = a]
      /\ thread[t].pc = "withdraw" /\ UNCHANGED <<leases, vetted>>
      /\ condemned' = IF held THEN condemned \cup {coordinator.lease} ELSE condemned
  BY DEF Withdraw, Distrust, Step, Go
<1>2. IF thread[t].expected.state = "healthy" /\ held
      THEN coordinator' = [raw |-> pending, lease |-> Mine(t).lease]
      ELSE UNCHANGED coordinator
  BY DEF Withdraw
<1>3. pending.state = "pending" /\ pending.gen = NewGen
  OBVIOUS
<1>4. Home[t] \in Computes /\ Mine(t) \in Allocator
  BY ThreadsAssumption DEF Inv, TypeOK, Mine
<1>5. a.up = Mine(t).up /\ a.lease = Mine(t).lease
  BY <1>4 DEF Allocator
<1>6. held => coordinator.raw = thread[t].expected /\ coordinator.lease = Mine(t).lease
  BY DEF Replaces
<1>. HIDE DEF a, pending, held
<1>7. \A u \in Threads : /\ ThreadOK(u, thread[u]) /\ thread[u].lease \in Leases \cup {0}
                         /\ Home[u] \in Computes
  BY ThreadsAssumption DEF Inv, ThreadInv, TypeOK, Local
<1>8. \A u \in Threads : thread[u].expected # pending
  BY <1>3, NewGenFresh DEF Withdraw
<1>9. Mine(t).lease # 0
  BY <1>1, <1>7 DEF ThreadOK, AuditPcs
<1>10. /\ coordinator.lease \in Leases \cup {0} /\ 0 \notin Leases
       /\ coordinator.lease # 0 => coordinator.raw.state \in {"pending", "healthy"}
  BY IdsAssumption DEF Inv, TypeOK, Coordinator, Absent, Raw
<1>11. coordinator'.lease = coordinator.lease
  BY <1>2, <1>6
<1>12. \/ coordinator'.raw = pending
       \/ coordinator'.raw = coordinator.raw /\ (held => coordinator.raw.state = "pending")
  BY <1>2, <1>6, <1>9, <1>10
<1>13. /\ Idle.pc = "idle" /\ Idle.lease = 0 /\ Idle.expected = NoRaw /\ NoRaw.state = "absent"
       /\ NoRaw # pending
  BY <1>3 DEF Idle, NoRaw
<1>14. \A u \in Threads : thread'[u] = IF u = t THEN Idle ELSE thread[u]
  BY <1>1 DEF Inv, TypeOK
<1>15. \A u \in Threads : (Mine(u)').up = Mine(u).up /\ (Mine(u)').lease = Mine(u).lease
  BY <1>1, <1>5, <1>7 DEF Inv, TypeOK, Mine
<1>16. ThreadInv'
  <2>. SUFFICES ASSUME NEW u \in Threads PROVE ThreadOK(u, thread[u])'
    BY DEF ThreadInv
  <2>1. CASE u = t
    BY <1>13, <1>14, <2>1 DEF ThreadOK, AuditPcs
  <2>2. CASE u # t
    <3>1. ThreadOK(u, thread[u]) /\ thread'[u] = thread[u]
      BY <1>7, <1>14, <2>2
    <3>2. thread[u].pc = "acquire" =>
             /\ thread[u].lease # coordinator'.lease /\ thread[u].lease \notin condemned'
             /\ \A v \in Threads \ {u} : thread'[v].lease # thread[u].lease
      BY <1>1, <1>7, <1>11, <1>13, <1>14, <3>1 DEF ThreadOK
    <3>. QED
      BY <1>1, <1>15, <3>1, <3>2 DEF ThreadOK
  <2>. QED
    BY <2>1, <2>2
<1>17. GenInv'
  BY <1>8, <1>11, <1>12, <1>13, <1>14 DEF Inv, GenInv
<1>18. LeaseInv'
  BY <1>1, <1>6, <1>9, <1>11 DEF Inv, LeaseInv
<1>19. CondemnedInv'
  <2>. SUFFICES ASSUME coordinator'.lease \in condemned'
                PROVE  /\ coordinator'.raw.state = "pending"
                       /\ \A u \in Threads : thread'[u].expected # coordinator'.raw
    BY DEF CondemnedInv
  <2>1. CASE coordinator'.raw = pending
    BY <1>3, <1>8, <1>13, <1>14, <2>1
  <2>2. CASE coordinator'.raw = coordinator.raw /\ held /\ coordinator.raw.state = "pending"
    BY <1>6, <1>13, <1>14, <2>2 DEF Inv, GenInv
  <2>3. CASE coordinator'.raw = coordinator.raw /\ ~held
    BY <1>1, <1>11, <1>13, <1>14, <2>3 DEF Inv, CondemnedInv
  <2>. QED
    BY <1>12, <2>1, <2>2, <2>3
<1>20. HealthIsVetted'
  BY <1>1, <1>3, <1>11, <1>12 DEF Inv, HealthIsVetted, Healthy
<1>. QED
  BY <1>16, <1>17, <1>18, <1>19, <1>20

\* An audit publishes under the lease whose scan it rests on.
LEMMA PublishStep ==
    ASSUME Inv, NEW t \in Threads, Publish(t)
    PROVE  ThreadInv' /\ GenInv' /\ LeaseInv' /\ CondemnedInv' /\ HealthIsVetted'
<1>. DEFINE healthy == [token |-> Mine(t).token, state |-> "healthy", gen |-> NewGen]
            l == [thread[t] EXCEPT !.pc = "published", !.expected = healthy, !.lease = Mine(t).lease]
<1>1. thread[t] \in Local
  BY DEF Inv, TypeOK
<1>2. /\ l.pc = "published" /\ l.lease = Mine(t).lease /\ l.expected = healthy
      /\ healthy.state = "healthy" /\ healthy.gen = NewGen
  BY <1>1 DEF Local
<1>3. /\ thread' = [thread EXCEPT ![t] = l] /\ UNCHANGED <<leases, alloc, vetted, condemned>>
      /\ coordinator' = [raw |-> healthy, lease |-> Mine(t).lease]
      /\ thread[t].pc = "publish"
      /\ coordinator.raw = thread[t].expected /\ coordinator.lease = Mine(t).lease
  BY DEF Publish, Go, Replaces
<1>. HIDE DEF l, healthy
<1>4. coordinator'.raw = healthy /\ coordinator'.lease = coordinator.lease
  BY <1>3
<1>5. \A u \in Threads : ThreadOK(u, thread[u])
  BY DEF Inv, ThreadInv
<1>6. \A u \in Threads : thread[u].expected # healthy
  BY <1>2, NewGenFresh DEF Publish
<1>7. \A u \in Threads : thread'[u] = IF u = t THEN l ELSE thread[u]
  BY <1>3 DEF Inv, TypeOK
<1>8. Mine(t).lease # 0 /\ Mine(t).up
  BY <1>3, <1>5 DEF ThreadOK, AuditPcs
<1>9. coordinator.raw.state \in {"pending", "healthy"}
  BY <1>3, <1>8 DEF Inv, TypeOK, Coordinator, Absent, Raw
<1>10. coordinator.lease \in vetted
  <2>1. CASE coordinator.raw.state = "healthy"
    BY <1>3, <1>8, <2>1 DEF Inv, HealthIsVetted, Healthy
  <2>2. CASE coordinator.raw.state = "pending"
    <3>1. coordinator.lease = thread[t].lease
      BY <1>3, <2>2 DEF Inv, GenInv
    <3>2. leases[coordinator.lease] # "free"
      BY <1>3, <1>8 DEF Inv, LeaseInv
    <3>. QED
      BY <1>3, <1>5, <2>2, <3>1, <3>2 DEF ThreadOK
  <2>. QED
    BY <1>9, <2>1, <2>2
<1>11. coordinator.lease \notin condemned
  BY <1>3 DEF Inv, CondemnedInv
<1>12. ThreadInv'
  <2>. SUFFICES ASSUME NEW u \in Threads PROVE ThreadOK(u, thread[u])'
    BY DEF ThreadInv
  <2>1. CASE u = t
    BY <1>2, <1>3, <1>7, <1>8, <2>1 DEF ThreadOK, Mine, AuditPcs
  <2>2. CASE u # t
    <3>1. ThreadOK(u, thread[u]) /\ thread'[u] = thread[u]
      BY <1>5, <1>7, <2>2
    <3>2. thread[u].pc = "acquire" =>
             /\ thread[u].lease # coordinator'.lease /\ thread[u].lease \notin condemned'
             /\ \A v \in Threads \ {u} : thread'[v].lease # thread[u].lease
      BY <1>2, <1>3, <1>4, <1>7, <3>1 DEF ThreadOK
    <3>. QED
      BY <1>3, <3>1, <3>2 DEF ThreadOK, Mine
  <2>. QED
    BY <2>1, <2>2
<1>13. GenInv'
  BY <1>2, <1>4, <1>6, <1>7 DEF Inv, GenInv
<1>14. LeaseInv'
  BY <1>3, <1>4 DEF Inv, LeaseInv
<1>15. CondemnedInv'
  BY <1>3, <1>4, <1>11 DEF CondemnedInv
<1>16. HealthIsVetted'
  BY <1>3, <1>4, <1>10, <1>11 DEF HealthIsVetted, Healthy
<1>. QED
  BY <1>12, <1>13, <1>14, <1>15, <1>16

-----------------------------------------------------------------------------
(* Types.                                                                  *)

\* The locals and records the actions write.
LEMMA LocalTypes ==
    /\ Idle \in Local /\ Absent.raw = NoRaw /\ 0 \notin Leases
    /\ \A pc \in PCs : At(pc) \in Local
<1>1. Idle \in Local
  BY DEF Idle, Local, PCs
<1>2. \A pc \in PCs : At(pc) \in Local
  BY <1>1 DEF At, Local
<1>. QED
  BY <1>1, <1>2, IdsAssumption DEF Absent

\* What every action writes to the threads, the allocators and the control records.
LEMMA Types ==
    ASSUME Inv, Next
    PROVE  TypeOK' /\ NameInv'
<1>. USE DEF OnlyLocal, control, ghosts, bounds
<1>1. /\ registry \in {"clean", "counts", "content"} /\ failure \in BOOLEAN
      /\ coordinator \in Coordinator \cup {Absent}
      /\ leases \in [Leases -> {"free", "fresh", "aged"}] /\ alloc \in [Computes -> Named]
      /\ thread \in [Threads -> Local]
      /\ faults \in 0 .. MaxFaults /\ corruptions \in 0 .. MaxCorruptions
      /\ vetted \subseteq Leases /\ condemned \subseteq Leases
  BY DEF Inv, TypeOK, NameInv
<1>2. \A t \in Threads : /\ Home[t] \in Computes /\ Mine(t) \in Named /\ thread[t] \in Local
                         /\ ThreadOK(t, thread[t])
  BY <1>1, ThreadsAssumption DEF Inv, ThreadInv, Mine
<1>3. Fault => faults' \in 0 .. MaxFaults /\ corruptions' \in 0 .. MaxCorruptions
  BY <1>1, BoundsAssumption DEF Fault
<1>4. \A t \in Threads, l \in Local : Go(t, l) => thread' \in [Threads -> Local]
  BY <1>1 DEF Go
<1>5. \A t \in Threads, l \in Local, a \in Named :
         Step(t, l, a) => thread' \in [Threads -> Local] /\ alloc' \in [Computes -> Named]
  BY <1>1, <1>2, <1>4 DEF Step
<1>6. \A t \in Threads, l \in Local :
         /\ Healthy /\ Trust(t, l) => thread' \in [Threads -> Local] /\ alloc' \in [Computes -> Named]
         /\ Distrust(t, l) => thread' \in [Threads -> Local] /\ alloc' \in [Computes -> Named]
  <2>. SUFFICES ASSUME NEW t \in Threads, NEW l \in Local
                PROVE  /\ Healthy /\ Trust(t, l)
                             => thread' \in [Threads -> Local] /\ alloc' \in [Computes -> Named]
                       /\ Distrust(t, l)
                             => thread' \in [Threads -> Local] /\ alloc' \in [Computes -> Named]
    OBVIOUS
  <2>1. Healthy => coordinator \in Verified
    BY <1>1 DEF Healthy, Verified, Absent
  <2>2. Healthy => [Mine(t) EXCEPT !.health = coordinator] \in Named
    BY <1>2, <2>1 DEF Named, Allocator
  <2>3. [Mine(t) EXCEPT !.health = Absent] \in Named
    BY <1>2 DEF Named, Allocator
  <2>. QED
    BY <1>5, <2>2, <2>3 DEF Trust, Distrust
<1>7. \A t \in Threads : Latch(t) => thread' \in [Threads -> Local] /\ alloc' \in [Computes -> Named]
  <2>. SUFFICES ASSUME NEW t \in Threads, Latch(t)
                PROVE  thread' \in [Threads -> Local] /\ alloc' \in [Computes -> Named]
    OBVIOUS
  <2>1. [Mine(t) EXCEPT !.latch = TRUE] \in Named
    BY <1>2 DEF Named, Allocator
  <2>. QED
    BY <1>5, <2>1, LocalTypes DEF Latch
<1>8. \A l \in Leases \cup {0} : Free(l) =>
         /\ coordinator' \in Coordinator \cup {Absent}
         /\ leases' \in [Leases -> {"free", "fresh", "aged"}]
         /\ vetted' \subseteq Leases /\ condemned' \subseteq Leases
  BY <1>1 DEF Free
<1>9. ASSUME NEW t \in Threads, NEW pc \in PCs PROVE At(pc) \in Local /\ [thread[t] EXCEPT !.pc = pc] \in Local
  BY <1>2, LocalTypes DEF Local
<1>10. ASSUME NEW t \in Threads, NEW state \in {"pending", "healthy"}, Mine(t).up,
              Generations \ UsedGens # {}
       PROVE  [token |-> Mine(t).token, state |-> state, gen |-> NewGen] \in Raw
  BY <1>2, <1>10, NewGenFresh DEF Raw, Named, Allocator
<1>11. ASSUME UNCHANGED <<registry, failure, coordinator, leases, ghosts>>, UNCHANGED bounds \/ Fault,
              thread' \in [Threads -> Local], alloc' \in [Computes -> Named]
       PROVE  TypeOK' /\ NameInv'
  <2>1. alloc' \in [Computes -> Allocator]
    BY <1>11 DEF Named
  <2>. QED
    BY <1>1, <1>3, <1>11, <2>1 DEF TypeOK, NameInv
<1>12. ASSUME NEW t \in Threads, NEW l \in Local, Go(t, l), UNCHANGED alloc,
              UNCHANGED <<registry, failure, coordinator, leases, ghosts>>, UNCHANGED bounds \/ Fault
       PROVE  TypeOK' /\ NameInv'
  BY <1>1, <1>4, <1>11, <1>12
<1>13. alloc \in [Computes -> Allocator]
  BY <1>1 DEF Named
<1>14. \A t \in Threads : Idle \in Local /\ Elsewhere(t) \in Local
  BY LocalTypes DEF Elsewhere, PCs
<1>15. ASSUME NEW t \in Threads, BeginLatched(t) \/ BeginFollower(t) \/ PublishRefused(t)
       PROVE  TypeOK' /\ NameInv'
  BY <1>12, <1>14, <1>15 DEF BeginLatched, BeginFollower, PublishRefused
<1>16. ASSUME NEW t \in Threads, BeginFailed(t) PROVE TypeOK' /\ NameInv'
  BY <1>7, <1>11, <1>16 DEF BeginFailed
<1>17. ASSUME NEW t \in Threads, BeginElection(t) PROVE TypeOK' /\ NameInv'
  <2>1. NewLease \in Leases
    BY <1>17, NewLeaseFresh DEF BeginElection
  <2>2. [At("acquire") EXCEPT !.seen = coordinator, !.lease = NewLease] \in Local
    BY <1>1, <2>1, LocalTypes DEF Local, PCs
  <2>3. thread' \in [Threads -> Local] /\ leases' \in [Leases -> {"free", "fresh", "aged"}]
    BY <1>1, <1>4, <1>17, <2>2 DEF BeginElection
  <2>. QED
    BY <1>1, <1>13, <1>17, <2>3 DEF BeginElection, TypeOK, NameInv
<1>18. ASSUME NEW t \in Threads, BeginStepDown(t) PROVE TypeOK' /\ NameInv'
  <2>1. UNCHANGED <<registry, failure, coordinator, leases, ghosts>> /\ UNCHANGED bounds
    BY <1>18 DEF BeginStepDown
  <2>2. (Go(t, Idle) /\ UNCHANGED alloc) \/ Distrust(t, Idle)
    BY <1>18 DEF BeginStepDown
  <2>. QED
    BY <1>6, <1>11, <1>12, <1>14, <2>1, <2>2
<1>19. ASSUME NEW t \in Threads, BeginRoutine(t) PROVE TypeOK' /\ NameInv'
  <2>. DEFINE l == [At("refresh") EXCEPT !.full = Asked(t), !.lease = coordinator.lease,
                                         !.expected = coordinator.raw]
  <2>1. Trust(t, l) /\ Healthy /\ OnlyLocal
    BY <1>19 DEF BeginRoutine, Owns, Healthy
  <2>2. Asked(t) \in BOOLEAN
    BY <1>2 DEF Asked, Local, Named, Allocator
  <2>3. coordinator.lease \in Leases \cup {0} /\ coordinator.raw \in Raw \cup {NoRaw}
    BY <1>1 DEF Coordinator, Absent
  <2>4. l \in Local
    BY <2>2, <2>3, LocalTypes DEF Local, PCs
  <2>. HIDE DEF l
  <2>. QED
    BY <1>6, <1>11, <2>1, <2>4
<1>20. ASSUME NEW t \in Threads, Refresh(t) PROVE TypeOK' /\ NameInv'
  <2>1. PICK l \in Local : Go(t, l)
    <3>1. \A pc \in PCs : [thread[t] EXCEPT !.pc = pc, !.full = FALSE] \in Local
      BY <1>2 DEF Local
    <3>. QED
      BY <1>14, <1>20, <3>1 DEF Refresh, PCs
  <2>2. thread' \in [Threads -> Local] /\ leases' \in [Leases -> {"free", "fresh", "aged"}]
    BY <1>1, <1>4, <1>20, <2>1 DEF Refresh
  <2>. QED
    BY <1>1, <1>13, <1>20, <2>2 DEF Refresh, TypeOK, NameInv
<1>21. ASSUME NEW t \in Threads, Acquire(t) PROVE TypeOK' /\ NameInv'
  <2>. DEFINE pending == [token |-> Mine(t).token, state |-> "pending", gen |-> NewGen]
              l == [thread[t] EXCEPT !.pc = "acquired", !.seen = Absent, !.expected = pending]
  <2>1. Mine(t).up /\ thread[t].lease # 0 /\ Generations \ UsedGens # {}
    BY <1>2, <1>21 DEF ThreadOK, Acquire
  <2>2. pending \in Raw /\ thread[t].lease \in Leases
    BY <1>2, <1>10, <2>1 DEF Local
  <2>3. /\ Go(t, l) /\ coordinator' = [raw |-> pending, lease |-> thread[t].lease]
        /\ UNCHANGED <<registry, failure, leases, alloc, bounds, vetted, condemned>>
    BY <1>21 DEF Acquire
  <2>. HIDE DEF pending
  <2>4. l \in Local
    BY <1>2, <2>2 DEF Local, PCs
  <2>. HIDE DEF l
  <2>5. thread' \in [Threads -> Local] /\ coordinator' \in Coordinator
    BY <1>4, <2>2, <2>3, <2>4 DEF Coordinator
  <2>. QED
    BY <1>1, <1>13, <2>3, <2>5 DEF TypeOK, NameInv
<1>22. ASSUME NEW t \in Threads, AcquireRefused(t) \/ AcquireLost(t) PROVE TypeOK' /\ NameInv'
  <2>1. PICK l \in Local : Go(t, l)
    BY <1>14, <1>22 DEF AcquireRefused, AcquireLost
  <2>2. /\ UNCHANGED <<registry, failure, alloc>> /\ (UNCHANGED bounds \/ Fault)
        /\ Free(thread[t].lease) \/ UNCHANGED <<coordinator, leases, ghosts>>
    BY <1>22 DEF AcquireRefused, AcquireLost
  <2>3. /\ coordinator' \in Coordinator \cup {Absent}
        /\ leases' \in [Leases -> {"free", "fresh", "aged"}]
        /\ vetted' \subseteq Leases /\ condemned' \subseteq Leases
    BY <1>1, <1>2, <1>8, <2>2 DEF Local
  <2>4. thread' \in [Threads -> Local] /\ faults' \in 0 .. MaxFaults /\ corruptions' \in 0 .. MaxCorruptions
    BY <1>1, <1>3, <1>4, <2>1, <2>2
  <2>. QED
    BY <1>1, <1>13, <2>2, <2>3, <2>4 DEF TypeOK, NameInv
<1>23. ASSUME NEW t \in Threads, Acquired(t) PROVE TypeOK' /\ NameInv'
  <2>. DEFINE a == [Mine(t) EXCEPT !.lease = thread[t].lease, !.health = Absent]
              l == [thread[t] EXCEPT !.pc = "scan"]
  <2>1. a \in Named
    BY <1>2 DEF Named, Allocator, Local
  <2>2. l \in Local
    BY <1>9 DEF PCs
  <2>3. Step(t, l, a) /\ OnlyLocal
    BY <1>23 DEF Acquired
  <2>. HIDE DEF a, l
  <2>. QED
    BY <1>5, <1>11, <2>1, <2>2, <2>3
<1>24. ASSUME NEW t \in Threads, Probe(t) \/ AuditError(t) \/ TellLost(t) PROVE TypeOK' /\ NameInv'
  <2>1. PICK pc \in PCs : Go(t, [thread[t] EXCEPT !.pc = pc])
    BY <1>24 DEF Probe, AuditError, TellLost, PCs
  <2>2. UNCHANGED <<registry, failure, coordinator, leases, ghosts>> /\ UNCHANGED alloc
        /\ (UNCHANGED bounds \/ Fault)
    BY <1>24 DEF Probe, AuditError, TellLost
  <2>. DEFINE l == [thread[t] EXCEPT !.pc = pc]
  <2>3. l \in Local /\ Go(t, l)
    BY <1>9, <2>1
  <2>. HIDE DEF l
  <2>. QED
    BY <1>12, <2>2, <2>3
<1>25. ASSUME NEW t \in Threads, ScanClean(t) PROVE TypeOK' /\ NameInv'
  <2>1. [thread[t] EXCEPT !.pc = "publish", !.snapshot = TRUE] \in Local
    BY <1>2 DEF Local, PCs
  <2>2. thread' \in [Threads -> Local]
    BY <1>4, <1>25, <2>1 DEF ScanClean
  <2>3. thread[t].lease \in Leases
    BY <1>2, <1>25 DEF ScanClean, ThreadOK, AuditPcs, Local
  <2>. QED
    BY <1>1, <1>13, <1>25, <2>2, <2>3 DEF ScanClean, TypeOK, NameInv
<1>26. ASSUME NEW t \in Threads, ScanCorrupt(t) PROVE TypeOK' /\ NameInv'
  <2>. DEFINE a == [Mine(t) EXCEPT !.latch = TRUE]
              l == [thread[t] EXCEPT !.pc = "tell"]
  <2>1. a \in Named
    BY <1>2 DEF Named, Allocator
  <2>2. l \in Local
    BY <1>9 DEF PCs
  <2>3. Step(t, l, a) /\ OnlyLocal
    BY <1>26 DEF ScanCorrupt
  <2>. HIDE DEF a, l
  <2>. QED
    BY <1>5, <1>11, <2>1, <2>2, <2>3
<1>27. ASSUME NEW t \in Threads, Tell(t) PROVE TypeOK' /\ NameInv'
  <2>1. [thread[t] EXCEPT !.pc = "withdraw"] \in Local
    BY <1>9 DEF PCs
  <2>2. thread' \in [Threads -> Local]
    BY <1>4, <1>27, <2>1 DEF Tell
  <2>. QED
    BY <1>1, <1>13, <1>27, <2>2 DEF Tell, TypeOK, NameInv
<1>28. ASSUME NEW t \in Threads, Withdraw(t) PROVE TypeOK' /\ NameInv'
  <2>. DEFINE pending == [token |-> Mine(t).token, state |-> "pending", gen |-> NewGen]
  <2>1. /\ Mine(t).up /\ Mine(t).lease # 0 /\ Generations \ UsedGens # {}
        /\ Mine(t).lease \in Leases \cup {0}
    BY <1>2, <1>28 DEF ThreadOK, AuditPcs, Withdraw, Named, Allocator
  <2>2. pending \in Raw
    BY <1>10, <2>1
  <2>3. /\ \/ coordinator' = [raw |-> pending, lease |-> Mine(t).lease]
           \/ UNCHANGED coordinator
        /\ condemned' = condemned \/ (condemned' = condemned \cup {coordinator.lease}
                                      /\ coordinator.lease = Mine(t).lease)
        /\ Distrust(t, Idle) /\ UNCHANGED <<registry, failure, leases, bounds, vetted>>
    BY <1>28 DEF Withdraw, Replaces
  <2>. HIDE DEF pending
  <2>4. coordinator' \in Coordinator \cup {Absent}
    BY <1>1, <2>1, <2>2, <2>3 DEF Coordinator
  <2>5. condemned' \subseteq Leases
    BY <1>1, <2>1, <2>3
  <2>6. thread' \in [Threads -> Local] /\ alloc' \in [Computes -> Named]
    BY <1>6, <1>14, <2>3
  <2>7. alloc' \in [Computes -> Allocator]
    BY <2>6 DEF Named
  <2>. QED
    BY <1>1, <2>3, <2>4, <2>5, <2>6, <2>7 DEF TypeOK, NameInv
<1>29. ASSUME NEW t \in Threads, WithdrawLost(t) PROVE TypeOK' /\ NameInv'
  BY <1>6, <1>11, <1>14, <1>29 DEF WithdrawLost
<1>30. ASSUME NEW t \in Threads, Publish(t) PROVE TypeOK' /\ NameInv'
  <2>. DEFINE healthy == [token |-> Mine(t).token, state |-> "healthy", gen |-> NewGen]
              l == [thread[t] EXCEPT !.pc = "published", !.expected = healthy, !.lease = Mine(t).lease]
  <2>1. /\ Mine(t).up /\ Mine(t).lease \in Leases \cup {0} /\ Generations \ UsedGens # {}
    BY <1>2, <1>30 DEF ThreadOK, Publish, Named, Allocator
  <2>2. healthy \in Raw
    BY <1>10, <2>1
  <2>3. /\ Go(t, l) /\ coordinator' = [raw |-> healthy, lease |-> Mine(t).lease]
        /\ UNCHANGED <<registry, failure, leases, alloc, bounds, vetted, condemned>>
    BY <1>30 DEF Publish
  <2>. HIDE DEF healthy
  <2>4. l \in Local
    BY <1>2, <2>1, <2>2 DEF Local, PCs
  <2>. HIDE DEF l
  <2>5. thread' \in [Threads -> Local] /\ coordinator' \in Coordinator
    BY <1>4, <2>1, <2>2, <2>3, <2>4 DEF Coordinator
  <2>. QED
    BY <1>1, <1>13, <2>3, <2>5 DEF TypeOK, NameInv
<1>31. ASSUME NEW t \in Threads, PublishLost(t) \/ RequestLost(t) PROVE TypeOK' /\ NameInv'
  BY <1>12, <1>14, <1>31 DEF PublishLost, RequestLost
<1>32. ASSUME NEW t \in Threads, Published(t) PROVE TypeOK' /\ NameInv'
  <2>. DEFINE r == [raw |-> thread[t].expected, lease |-> thread[t].lease]
              a == [Mine(t) EXCEPT !.health = r,
                                   !.fullDue = @ /\ ~(t \in Periodics /\ thread[t].snapshot)]
              l == IF t \in Callers THEN At("read") ELSE Idle
  <2>1. thread[t].expected.state = "healthy" /\ thread[t].lease # 0
    BY <1>2, <1>32 DEF ThreadOK, Published
  <2>2. thread[t].expected \in Raw /\ thread[t].lease \in Leases
    BY <1>2, <2>1 DEF Local, NoRaw
  <2>3. r \in Verified
    BY <2>1, <2>2, LocalTypes DEF Verified, Coordinator
  <2>4. Step(t, l, a) /\ OnlyLocal
    BY <1>32 DEF Published
  <2>. HIDE DEF r
  <2>5. a \in Named
    BY <1>2, <2>3 DEF Named, Allocator, Local
  <2>6. l \in Local
    BY <1>9, <1>14 DEF PCs
  <2>. HIDE DEF a, l
  <2>. QED
    BY <1>5, <1>11, <2>4, <2>5, <2>6
<1>33. ASSUME NEW t \in Threads, Ensure(t) PROVE TypeOK' /\ NameInv'
  <2>1. OnlyLocal /\ At("begin") \in Local /\ At("read") \in Local
    BY <1>9, <1>33 DEF Ensure, PCs
  <2>2. [At("begin") EXCEPT !.full = TRUE] \in Local
    BY <2>1 DEF Local
  <2>3. \/ Latch(t)
        \/ Healthy /\ Trust(t, At("read"))
        \/ Go(t, [At("begin") EXCEPT !.full = TRUE]) /\ UNCHANGED alloc
    BY <1>33 DEF Ensure
  <2>. QED
    BY <1>6, <1>7, <1>11, <1>12, <2>1, <2>2, <2>3
<1>34. ASSUME NEW t \in Threads, Recheck(t) \/ Reguard(t) PROVE TypeOK' /\ NameInv'
  <2>1. OnlyLocal /\ At("read") \in Local /\ At("reread") \in Local
    BY <1>9, <1>34 DEF Recheck, Reguard, PCs
  <2>2. \/ Latch(t)
        \/ Healthy /\ Trust(t, At("read"))
        \/ Healthy /\ Trust(t, At("reread"))
        \/ Healthy /\ Trust(t, Idle)
        \/ Go(t, Idle) /\ UNCHANGED alloc
    BY <1>34 DEF Recheck, Reguard
  <2>. QED
    BY <1>6, <1>7, <1>11, <1>12, <1>14, <2>1, <2>2
<1>35. ASSUME NEW t \in Threads, Read(t) PROVE TypeOK' /\ NameInv'
  <2>1. OnlyLocal /\ UNCHANGED alloc /\ At("mutate") \in Local
    BY <1>9, <1>35 DEF Read, PCs
  <2>2. [At("reguard") EXCEPT !.expected = Mine(t).health.raw] \in Local
    <3>1. Mine(t).health.raw \in Raw \cup {NoRaw}
      BY <1>2, LocalTypes DEF Named, Allocator, Verified, Coordinator
    <3>2. At("reguard") \in Local
      BY <1>9 DEF PCs
    <3>. QED
      BY <3>1, <3>2 DEF Local
  <2>3. PICK l \in Local : Go(t, l)
    BY <1>14, <1>35, <2>1, <2>2 DEF Read
  <2>. QED
    BY <1>12, <2>1, <2>3
<1>36. ASSUME NEW t \in Threads, Mutate(t) \/ MutateRefused(t) PROVE TypeOK' /\ NameInv'
  <2>1. PICK l \in Local : Go(t, l)
    BY <1>9, <1>14, <1>36 DEF Mutate, MutateRefused, PCs
  <2>. QED
    BY <1>12, <1>36, <2>1 DEF Mutate, MutateRefused
<1>37. ASSUME NEW t \in Threads, FullDue(t) PROVE TypeOK' /\ NameInv'
  <2>. DEFINE a == [Mine(t) EXCEPT !.fullDue = TRUE]
  <2>1. a \in Named
    BY <1>2 DEF Named, Allocator
  <2>2. Step(t, thread[t], a) /\ OnlyLocal
    BY <1>37 DEF FullDue
  <2>. HIDE DEF a
  <2>. QED
    BY <1>2, <1>5, <1>11, <2>1, <2>2
<1>38. ASSUME NEW c \in Computes, Crash(c) PROVE TypeOK' /\ NameInv'
  <2>1. Down \in Named
    BY DEF Down, Named, Allocator
  <2>2. alloc' \in [Computes -> Named] /\ thread' \in [Threads -> Local]
    BY <1>1, <1>38, <2>1, LocalTypes DEF Crash
  <2>. QED
    BY <1>11, <1>38, <2>2 DEF Crash
<1>39. ASSUME NEW c \in Computes, Restart(c) PROVE TypeOK' /\ NameInv'
  <2>1. NewToken \in Tokens /\ NewToken # 0
    BY <1>39, NewTokenFresh, IdsAssumption DEF Restart
  <2>2. Started(NewToken) \in Named
    BY <2>1 DEF Started, Down, Named, Allocator
  <2>3. alloc' \in [Computes -> Named] /\ UNCHANGED thread /\ OnlyLocal
    BY <1>1, <1>39, <2>2 DEF Restart
  <2>. QED
    BY <1>1, <1>11, <2>3
<1>40. ASSUME NEW c \in Computes, Restore(c) PROVE TypeOK' /\ NameInv'
  <2>1. alloc[c].health \in Verified
    BY <1>1, <1>40 DEF Restore, Named, Allocator
  <2>2. coordinator' \in Coordinator
    BY <1>40, <2>1 DEF Restore, Verified, Coordinator
  <2>. QED
    BY <1>1, <1>3, <1>13, <1>40, <2>2 DEF Restore, TypeOK, NameInv
<1>41. ASSUME NEW l \in Leases, Age(l) \/ Expire(l) PROVE TypeOK' /\ NameInv'
  <2>1. CASE Age(l)
    BY <1>1, <1>13, <2>1 DEF Age, TypeOK, NameInv
  <2>2. CASE Expire(l)
    <3>1. (UNCHANGED bounds \/ Fault) /\ Free(l) /\ UNCHANGED <<registry, failure, alloc, thread>>
      BY <2>2 DEF Expire
    <3>2. faults' \in 0 .. MaxFaults /\ corruptions' \in 0 .. MaxCorruptions
      BY <1>1, <1>3, <3>1
    <3>. QED
      BY <1>1, <1>8, <1>13, <3>1, <3>2 DEF TypeOK, NameInv
  <2>. QED
    BY <1>41, <2>1, <2>2
<1>42. CASE Repair
  <2>1. Down \in Named
    BY DEF Down, Named, Allocator
  <2>2. alloc' \in [Computes -> Named] /\ thread' \in [Threads -> Local]
    BY <1>42, <2>1, LocalTypes DEF Repair
  <2>3. alloc' \in [Computes -> Allocator]
    BY <2>2 DEF Named
  <2>. QED
    BY <1>1, <1>42, <2>2, <2>3 DEF Repair, TypeOK, NameInv
<1>43. ASSUME NEW damage \in {"counts", "content"}, Corrupt(damage) PROVE TypeOK' /\ NameInv'
  BY <1>1, <1>13, <1>43, BoundsAssumption DEF Corrupt, TypeOK, NameInv
<1>. QED
  BY <1>15, <1>16, <1>17, <1>18, <1>19, <1>20, <1>21, <1>22, <1>23, <1>24, <1>25, <1>26, <1>27,
     <1>28, <1>29, <1>30, <1>31, <1>32, <1>33, <1>34, <1>35, <1>36, <1>37, <1>38, <1>39, <1>40,
     <1>41, <1>42, <1>43 DEF Next, Auditing, Operating, Losing

-----------------------------------------------------------------------------
(* The theorems.                                                           *)

LEMMA InitInv == Init => Inv
<1>. SUFFICES ASSUME Init PROVE Inv
  OBVIOUS
<1>1. Down \in Named /\ Down \in Allocator /\ Idle \in Local /\ 0 \notin Leases
  BY LocalTypes DEF Down, Named, Allocator
<1>2. /\ Idle.pc = "idle" /\ Idle.lease = 0 /\ Idle.expected.state = "absent"
      /\ Absent.lease = 0 /\ Absent.raw.state = "absent"
  BY DEF Idle, NoRaw, Absent
<1>3. TypeOK
  <2>1. faults \in 0 .. MaxFaults /\ corruptions \in 0 .. MaxCorruptions
    BY BoundsAssumption DEF Init
  <2>2. alloc \in [Computes -> Allocator] /\ thread \in [Threads -> Local]
    BY <1>1 DEF Init
  <2>3. leases \in [Leases -> {"free", "fresh", "aged"}]
    BY DEF Init
  <2>. QED
    BY <2>1, <2>2, <2>3 DEF Init, TypeOK
<1>4. NameInv
  BY <1>1 DEF Init, NameInv
<1>5. ThreadInv
  BY <1>2 DEF Init, ThreadInv, ThreadOK, AuditPcs
<1>6. GenInv /\ LeaseInv /\ CondemnedInv /\ HealthIsVetted
  BY <1>1, <1>2 DEF Init, GenInv, LeaseInv, CondemnedInv, HealthIsVetted, Healthy
<1>. QED
  BY <1>3, <1>4, <1>5, <1>6 DEF Inv

LEMMA NextInv == Inv /\ [Next]_vars => Inv'
<1>. SUFFICES ASSUME Inv, [Next]_vars PROVE Inv'
  OBVIOUS
<1>1. TypeOK' /\ NameInv'
  <2>1. CASE Next
    BY <2>1, Types
  <2>2. CASE UNCHANGED vars
    BY <2>2 DEF Inv, TypeOK, NameInv, vars, control, bounds, ghosts
  <2>. QED
    BY <2>1, <2>2
<1>2. ThreadInv' /\ GenInv' /\ LeaseInv' /\ CondemnedInv' /\ HealthIsVetted'
  <2>1. ASSUME NEW t \in Threads, Auditing(t) \/ Operating(t) \/ Losing(t) \/ FullDue(t)
        PROVE  ThreadInv' /\ GenInv' /\ LeaseInv' /\ CondemnedInv' /\ HealthIsVetted'
    <3>1. CASE \/ BeginLatched(t) \/ BeginFailed(t) \/ BeginFollower(t) \/ BeginStepDown(t)
               \/ WithdrawLost(t) \/ PublishRefused(t) \/ PublishLost(t) \/ Published(t)
               \/ Operating(t) \/ RequestLost(t)
      BY <3>1, PlainSteps
    <3>2. CASE \/ BeginRoutine(t) \/ Refresh(t) \/ Acquired(t) \/ Probe(t)
               \/ ScanClean(t) \/ ScanCorrupt(t) \/ AuditError(t) \/ Tell(t) \/ TellLost(t)
               \/ FullDue(t)
      BY <3>2, AuditSteps
    <3>3. CASE AcquireRefused(t) \/ AcquireLost(t)
      BY <3>3, ForgetSteps
    <3>4. CASE BeginElection(t)
      BY <3>4, ElectionStep
    <3>5. CASE Acquire(t)
      BY <3>5, AcquireStep
    <3>6. CASE Withdraw(t)
      BY <3>6, WithdrawStep
    <3>7. CASE Publish(t)
      BY <3>7, PublishStep
    <3>. QED
      BY <2>1, <3>1, <3>2, <3>3, <3>4, <3>5, <3>6, <3>7 DEF Auditing, Losing
  <2>2. ASSUME \/ \E c \in Computes : Crash(c) \/ Restart(c) \/ Restore(c)
               \/ \E l \in Leases : Age(l) \/ Expire(l)
               \/ Repair
               \/ \E damage \in {"counts", "content"} : Corrupt(damage)
               \/ UNCHANGED vars
        PROVE  ThreadInv' /\ GenInv' /\ LeaseInv' /\ CondemnedInv' /\ HealthIsVetted'
    BY <2>2, ForgetSteps
  <2>. QED
    BY <2>1, <2>2 DEF Next
<1>. QED
  BY <1>1, <1>2 DEF Inv

\* The fleet audit keeps its inductive invariant, whatever the interleaving of
\* the threads of its processes and of the expiry of their leases
\* (run_coordinated_audit with _ensure_fleet_healthy and the guarded reads).
THEOREM Invariance == Spec => []Inv
<1>1. Init => Inv
  BY InitInv
<1>2. Inv /\ [Next]_vars => Inv'
  BY NextInv
<1>. QED
  BY <1>1, <1>2, PTL DEF Spec

\* The control records, the allocators and the locals of the threads stay in
\* their types: an allocator only ever believes in a leased healthy record, and a
\* record only ever names a process that runs or ran.
THEOREM TypeCorrect == Spec => []TypeOK
<1>1. Inv => TypeOK
  BY DEF Inv
<1>. QED
  BY <1>1, Invariance, PTL

\* A leased healthy record is under a lease whose owner has found the whole
\* registry clean since it took it, and under which no audit has failed
\* (_replace_audit_coordinator compares the generation the audit started from).
THEOREM HealthVetted == Spec => []HealthIsVetted
<1>1. Inv => HealthIsVetted
  BY DEF Inv
<1>. QED
  BY <1>1, Invariance, PTL

\* A mutation commits only under a leased, healthy, vetted record and without the
\* sticky failure (_guard_compares), whatever its process verified before.
THEOREM MutationsVetted == Spec => MutationsAreVetted
<1>1. Inv /\ [Next]_vars =>
         [(\E t \in Callers : Mutate(t)) => ~failure /\ Healthy /\ coordinator.lease \in vetted]_vars
  <2>. SUFFICES ASSUME Inv, NEW t \in Callers, Mutate(t)
                PROVE  ~failure /\ Healthy /\ coordinator.lease \in vetted
    OBVIOUS
  <2>1. /\ ~failure /\ alloc[Home[t]].health # Absent
        /\ coordinator.raw = alloc[Home[t]].health.raw
        /\ coordinator.lease = alloc[Home[t]].health.lease
    BY DEF Mutate, GuardHolds
  <2>2. alloc[Home[t]].health \in Verified
    BY <2>1, ThreadsAssumption DEF Inv, TypeOK, Threads, Allocator
  <2>3. Healthy
    BY <2>1, <2>2 DEF Healthy, Verified
  <2>. QED
    BY <2>1, <2>3 DEF Inv, HealthIsVetted
<1>. QED
  BY <1>1, Invariance, PTL DEF Spec, MutationsAreVetted
=============================================================================
