---------------------------- MODULE MCFleetAudit ----------------------------
(***************************************************************************)
(* Instances of FleetAudit for TLC: the threads of one process, which      *)
(* share its allocator, and those of two processes, which do not.          *)
(*                                                                         *)
(* Ids are only ever compared for equality, so two states that differ by a *)
(* renaming of ids behave alike; Canonical names each id by the first of   *)
(* the places below that holds it (0, "none", stays 0).  A lease no place  *)
(* holds expires without effect and is left out.                           *)
(***************************************************************************)
EXTENDS FleetAudit, Sequences

\* Threads ending in 2 run on the second compute.
MCHome == [t \in Threads |-> IF t \in {"p2", "o2"} THEN "c2" ELSE "c1"]

\* The id spaces of the cfgs are large enough never to block a step.
TypesOK == TypeOK /\ IdsLeft

Each(f(_)) == LET Here(c) == c \in Computes
                  order == SelectSeq(<<"c1", "c2">>, Here)
              IN  [i \in DOMAIN order |-> f(order[i])]
All(f(_)) == LET Here(t) == t \in Threads
                 order == SelectSeq(<<"p1", "p2", "o1", "o2">>, Here)
             IN  [i \in DOMAIN order |-> f(order[i])]

Places == LET Health(c) == alloc[c].health
              Seen(t) == thread[t].seen
          IN  <<coordinator>> \o Each(Health) \o All(Seen)
GenAt == LET Gen(t) == thread[t].expected.gen
         IN  [i \in DOMAIN Places |-> Places[i].raw.gen] \o All(Gen)
TokenAt == LET Token(c) == alloc[c].token
           IN  [i \in DOMAIN Places |-> Places[i].raw.token] \o Each(Token)
LeaseAt == LET Lease(c) == alloc[c].lease
               Audited(t) == thread[t].lease
           IN  [i \in DOMAIN Places |-> Places[i].lease] \o Each(Lease) \o All(Audited)

Names(at) == [i \in DOMAIN at |-> IF at[i] = 0 THEN 0
                                  ELSE Smallest({j \in DOMAIN at : at[j] = at[i]})]
Canonical ==
    LET Flags(c) == <<alloc[c].up, alloc[c].latch, alloc[c].fullDue>>
        States(t) == <<thread[t].pc, thread[t].full, thread[t].snapshot,
                       thread[t].expected.state, thread[t].seen.raw.state>>
        Fate(l) == IF l = 0 THEN 0 ELSE <<leases[l], l \in vetted, l \in condemned>>
    IN  <<registry, failure, coordinator.raw.state, bounds, Each(Flags), All(States),
          Names(GenAt), Names(TokenAt), Names(LeaseAt),
          [i \in DOMAIN LeaseAt |-> Fate(LeaseAt[i])]>>
=============================================================================
