------------------------ MODULE IdmapRegistryFenceProofs ------------------------
(***************************************************************************)
(* The fence ledger of IdmapRegistry never names the token of a live claim *)
(* - provided powering a host off also ends the transactions it sent.      *)
(*                                                                         *)
(* The code compares nothing that would stop a delayed claim transaction   *)
(* of a fenced host from being applied after the ledger entry, so the      *)
(* argument is about who may still use a token: a token is SPENT on a host *)
(* once it was generated and no call of that host's present process holds  *)
(* it.  Ledger entries, and fencing transactions still in the network,     *)
(* name spent tokens only; claim transactions in the network carry tokens  *)
(* that are not spent.                                                     *)
(***************************************************************************)
EXTENDS IdmapRegistryStepProofs

Spent(h, T) == T \in usedTokens /\ \A u \in Instances : <<T, u>> \notin live[h]

\* Tokens are generated before they are used, by a process that is running.
TokensGenerated ==
    /\ \A h \in Hosts : \A p \in live[h] : p[1] \in usedTokens
    /\ \A h \in Hosts \ up : live[h] = {}
    /\ \A c \in claims : c.token \in usedTokens

\* What the ledger and the network say of a token.
TokensTracked ==
    /\ \A f \in fences : Spent(f.host, f.token)
    /\ \A t \in net :
          /\ t.op = "fence" => Spent(t.old.host, t.old.token)
          /\ t.op \in {"claim", "reclaim"} =>
                <<t.new.token, t.cur.uuid>> \in live[t.new.host]

FenceInv == StepInv /\ TokensGenerated /\ TokensTracked /\ FencesMatch

-----------------------------------------------------------------------------
\* Generating a token for one call does not revive a spent one, and keeps the
\* token history consistent (claim with a fresh uuid4, or with the token the
\* retrying call holds).
LEMMA DrawKeepsTokens ==
    ASSUME TypeOK, TokensGenerated, NEW h \in Hosts, NEW u \in Instances,
           NEW T \in Tokens, Draw(h, u, T), h \in up,
           UNCHANGED <<claims, up>>
    PROVE  /\ TokensGenerated'
           /\ <<T, u>> \in live'[h]
           /\ \A g \in Hosts, S \in Tokens : Spent(g, S) => Spent(g, S)'
           /\ \A g \in Hosts : live[g] \subseteq live'[g]
<1>1. live' = [live EXCEPT ![h] = @ \cup {<<T, u>>}] /\ usedTokens' = usedTokens \cup {T}
  BY DEF Draw
<1>2. live'[h] = live[h] \cup {<<T, u>>} /\ \A g \in Hosts : g # h => live'[g] = live[g]
  BY <1>1 DEF TypeOK
<1>3. TokensGenerated'
  BY <1>1, <1>2 DEF TokensGenerated
<1>4. ASSUME NEW g \in Hosts, NEW S \in Tokens, Spent(g, S) PROVE Spent(g, S)'
  <2>1. CASE g = h /\ S = T
    <3>1. <<T, u>> \in live[h]
      BY <1>4, <2>1 DEF Spent, Draw
    <3>. QED
      BY <1>4, <2>1, <3>1 DEF Spent
  <2>2. CASE ~(g = h /\ S = T)
    BY <1>1, <1>2, <1>4, <2>2 DEF Spent
  <2>. QED
    BY <2>1, <2>2
<1>. QED
  BY <1>2, <1>3, <1>4

\* A step that leaves the registry and the tokens alone and adds at most one
\* transaction, itself tracked, keeps the tokens tracked.
LEMMA SendTracked ==
    ASSUME TokensTracked, TypeOK, NEW t, Send(t), UNCHANGED fences,
           \A g \in Hosts, S \in Tokens : Spent(g, S) => Spent(g, S)',
           \A g \in Hosts : live[g] \subseteq live'[g],
           t.op = "fence" => Spent(t.old.host, t.old.token)',
           t.op \in {"claim", "reclaim"} =>
              <<t.new.token, t.cur.uuid>> \in live'[t.new.host]
    PROVE  TokensTracked'
<1>1. \A f \in fences : f.host \in Hosts /\ f.token \in Tokens
  BY DEF TypeOK, Fence
<1>2. ASSUME NEW s \in net
      PROVE  /\ s.op = "fence" => s.old.host \in Hosts /\ s.old.token \in Tokens
             /\ s.op \in {"claim", "reclaim"} => s.new.host \in Hosts
  BY <1>2, TxnFields DEF TypeOK, Claim
<1>. QED
  BY <1>1, <1>2 DEF TokensTracked, Send

\* Reads: no claim and no ledger entry changes; the tokens they use stay
\* tracked.
LEMMA ReadKeepsFenceInv ==
    ASSUME FenceInv, Read
    PROVE  TokensGenerated' /\ TokensTracked' /\ FencesMatch'
<1>1. UNCHANGED registry
  BY DEF Read, ReadAllocate, ReadClaim, ReadReclaim, ReadMarkPossible, ReadMarkCommitted,
         ReadRecordProof, ReadFenceRetire, ReadAbandon, ReadRetire, ReadRequestRelease,
         ReadRelease
<1>2. FencesMatch'
  BY <1>1 DEF FenceInv, FencesMatch, registry
<1>3. ASSUME NEW cur \in instances, NEW h \in Hosts, NEW T \in Tokens, ReadClaim(cur, h, T)
      PROVE  TokensGenerated' /\ TokensTracked'
  <2>. DEFINE t == [op |-> "claim", cur |-> cur, new |-> NewClaim(cur, h, T)]
  <2>1. cur.uuid \in Instances
    BY SnapshotFacts DEF FenceInv, StepInv
  <2>2. Draw(h, cur.uuid, T) /\ h \in up /\ UNCHANGED <<claims, fences, up>> /\ Send(t)
    BY <1>1, <1>3 DEF ReadClaim, registry
  <2>3. /\ TokensGenerated' /\ <<T, cur.uuid>> \in live'[h]
        /\ \A g \in Hosts, S \in Tokens : Spent(g, S) => Spent(g, S)'
        /\ \A g \in Hosts : live[g] \subseteq live'[g]
    BY <2>1, <2>2, DrawKeepsTokens DEF FenceInv, StepInv, Inv
  <2>4. t.op = "claim" /\ t.new.token = T /\ t.cur.uuid = cur.uuid /\ t.new.host = h
    BY DEF NewClaim
  <2>. HIDE DEF t
  <2>. QED
    BY <2>2, <2>3, <2>4, SendTracked DEF FenceInv, StepInv, Inv
<1>4. ASSUME NEW cur \in instances, NEW old \in claims, NEW T \in Tokens,
             ReadReclaim(cur, old, T)
      PROVE  TokensGenerated' /\ TokensTracked'
  <2>. DEFINE t == [op |-> "reclaim", cur |-> cur, old |-> old,
                    new |-> NewClaim(cur, old.host, T)]
  <2>1. cur.uuid \in Instances /\ old.host \in Hosts
    BY <1>4, SnapshotFacts DEF FenceInv, StepInv, ReadReclaim
  <2>2. /\ Draw(old.host, cur.uuid, T) /\ old.host \in up
        /\ UNCHANGED <<claims, fences, up>> /\ Send(t)
    BY <1>1, <1>4 DEF ReadReclaim, registry
  <2>3. /\ TokensGenerated' /\ <<T, cur.uuid>> \in live'[old.host]
        /\ \A g \in Hosts, S \in Tokens : Spent(g, S) => Spent(g, S)'
        /\ \A g \in Hosts : live[g] \subseteq live'[g]
    BY <2>1, <2>2, DrawKeepsTokens DEF FenceInv, StepInv, Inv
  <2>4. t.op = "reclaim" /\ t.new.token = T /\ t.cur.uuid = cur.uuid /\ t.new.host = old.host
    BY DEF NewClaim
  <2>. HIDE DEF t
  <2>. QED
    BY <2>2, <2>3, <2>4, SendTracked DEF FenceInv, StepInv, Inv
\* The reads that generate no token.
<1>5. ASSUME NEW t, Send(t), UNCHANGED <<usedTokens, live, up>>,
             t.op = "fence" => Spent(t.old.host, t.old.token),
             t.op \notin {"claim", "reclaim"}
      PROVE  TokensGenerated' /\ TokensTracked'
  <2>1. TokensGenerated'
    BY <1>1, <1>5 DEF FenceInv, TokensGenerated, registry
  <2>2. TokensTracked'
    BY <1>1, <1>5, SendTracked DEF FenceInv, StepInv, Inv, registry, Spent
  <2>. QED
    BY <2>1, <2>2
<1>6. ASSUME NEW cur \in instances, NEW old \in claims, ReadFenceRetire(cur, old)
      PROVE  TokensGenerated' /\ TokensTracked'
  <2>. DEFINE t == [op |-> "fence", cur |-> cur, old |-> old]
  <2>1. old.host \in Hosts \ up /\ old.token \in usedTokens
    BY <1>6, SnapshotFacts DEF FenceInv, StepInv, ReadFenceRetire, TokensGenerated
  <2>2. Spent(t.old.host, t.old.token)
    BY <2>1 DEF Spent, FenceInv, TokensGenerated
  <2>3. Send(t) /\ UNCHANGED <<usedTokens, live, up>> /\ t.op = "fence"
    BY <1>6 DEF ReadFenceRetire, fleet
  <2>. HIDE DEF t
  <2>. QED
    BY <1>5, <2>2, <2>3
<1>7. ASSUME \/ \E u \in Instances, n \in Slots, a \in Allocs : ReadAllocate(u, n, a)
             \/ \E cur \in instances :
                  \/ \E old \in claims : ReadMarkPossible(cur, old)
                  \/ \E old \in claims : ReadMarkCommitted(cur, old)
                  \/ \E old \in claims, o \in Outcomes : ReadRecordProof(cur, old, o)
                  \/ \E old \in claims : ReadAbandon(cur, old)
                  \/ \E old \in claims : ReadRetire(cur, old)
                  \/ ReadRequestRelease(cur)
                  \/ \E i \in releases : ReadRelease(cur, i)
      PROVE  TokensGenerated' /\ TokensTracked'
  <2>1. UNCHANGED <<usedTokens, live, up>>
    BY <1>7 DEF ReadAllocate, ReadMarkPossible, ReadMarkCommitted, ReadRecordProof,
       ReadAbandon, ReadRetire, ReadRequestRelease, ReadRelease, fleet
  <2>2. ASSUME NEW u \in Instances, NEW n \in Slots, NEW a \in Allocs, ReadAllocate(u, n, a)
        PROVE  TokensGenerated' /\ TokensTracked'
    BY <1>5, <2>1, <2>2 DEF ReadAllocate
  <2>3. ASSUME NEW cur \in instances, NEW old \in claims,
               \/ ReadMarkPossible(cur, old)
               \/ ReadMarkCommitted(cur, old)
               \/ \E o \in Outcomes : ReadRecordProof(cur, old, o)
        PROVE  TokensGenerated' /\ TokensTracked'
    <3>1. PICK op \in {"possible", "committed", "proof"} : \E new :
              Send([op |-> op, cur |-> cur, old |-> old, new |-> new])
      BY <2>3 DEF ReadMarkPossible, ReadMarkCommitted, ReadRecordProof
    <3>. QED
      BY <1>5, <2>1, <3>1
  <2>4. ASSUME NEW cur \in instances, NEW old \in claims,
               ReadAbandon(cur, old) \/ ReadRetire(cur, old)
        PROVE  TokensGenerated' /\ TokensTracked'
    BY <1>5, <2>1, <2>4 DEF ReadAbandon, ReadRetire
  <2>5. ASSUME NEW cur \in instances,
               ReadRequestRelease(cur) \/ \E i \in releases : ReadRelease(cur, i)
        PROVE  TokensGenerated' /\ TokensTracked'
    BY <1>5, <2>1, <2>5 DEF ReadRequestRelease, ReadRelease
  <2>. QED
    BY <1>7, <2>2, <2>3, <2>4, <2>5
<1>. QED
  BY <1>2, <1>3, <1>4, <1>6, <1>7 DEF Read

\* Commits: a claim enters with a token no ledger entry of its host names, and a
\* ledger entry enters as its claim leaves.
LEMMA CommitKeepsFenceInv ==
    ASSUME FenceInv, NEW t \in net, Commit(t)
    PROVE  TokensGenerated' /\ TokensTracked' /\ FencesMatch'
<1>1. UNCHANGED <<net, usedTokens, live, up>>
  BY DEF Commit, fleet
<1>. USE DEF FenceInv, StepInv
<1>2. ASSUME claims' \subseteq claims, UNCHANGED fences
      PROVE  TokensGenerated' /\ TokensTracked' /\ FencesMatch'
  BY <1>1, <1>2 DEF TokensGenerated, TokensTracked, FencesMatch, Spent
\* A claim whose token the present process of its host holds.
<1>3. ASSUME t.op \in {"claim", "reclaim"}, UNCHANGED fences,
             claims' \subseteq claims \cup {t.new}
      PROVE  TokensGenerated' /\ TokensTracked' /\ FencesMatch'
  <2>1. t.new.host \in Hosts /\ t.cur.uuid \in Instances
    BY <1>3, TxnFields DEF Inv, TypeOK, Claim, Assignment
  <2>2. <<t.new.token, t.cur.uuid>> \in live[t.new.host]
    BY <1>3 DEF TokensTracked
  <2>3. t.new.token \in usedTokens
    BY <2>1, <2>2 DEF TokensGenerated
  <2>4. \A f \in fences : f.host = t.new.host => f.token # t.new.token
    BY <2>1, <2>2 DEF TokensTracked, Spent
  <2>5. TokensGenerated'
    BY <1>1, <1>3, <2>3 DEF TokensGenerated
  <2>6. TokensTracked'
    BY <1>1, <1>3 DEF TokensTracked, Spent
  <2>7. FencesMatch'
    BY <1>3, <2>4 DEF FencesMatch
  <2>. QED
    BY <2>5, <2>6, <2>7
<1>4. CASE CommitClaim(t)
  <2>1. claims' = claims \cup {t.new}
    BY <1>4, NewClaims
  <2>. QED
    BY <1>3, <1>4, <2>1 DEF CommitClaim
<1>5. CASE CommitReclaim(t)
  <2>1. claims' = (claims \ {t.old}) \cup {t.new} /\ UNCHANGED fences
    BY <1>5, TransitionClaims
  <2>. QED
    BY <1>3, <1>5, <2>1 DEF CommitReclaim
<1>6. CASE CommitPossible(t) \/ CommitCommitted(t) \/ CommitProof(t)
  <2>1. /\ t.old \in claims /\ claims' = (claims \ {t.old}) \cup {t.new}
        /\ t.new.host = t.old.host /\ t.new.gen = t.old.gen /\ UNCHANGED fences
    BY <1>6, TransitionClaims
  <2>2. t.new.token = t.old.token
    BY <1>6 DEF NetPrepared, Prepared, CommitPossible, CommitCommitted, CommitProof
  <2>. QED
    BY <1>1, <2>1, <2>2 DEF TokensGenerated, TokensTracked, FencesMatch, Spent
<1>7. CASE CommitFence(t)
  <2>. DEFINE f == [host |-> t.old.host, uuid |-> t.cur.uuid,
                    alloc |-> t.cur.alloc, token |-> t.old.token]
  <2>1. t.old \in claims /\ claims' = claims \ {t.old}
    BY <1>7, RemovalClaims
  <2>2. t.op = "fence" /\ t.old.gen = Gen(t.cur)
    BY <1>7 DEF CommitFence, Inv, NetWellFormed, WellFormed
  <2>3. fences' \subseteq fences \cup {f}
    BY <1>7 DEF CommitFence, PutFence
  <2>4. Spent(f.host, f.token)
    BY <2>2 DEF TokensTracked
  <2>5. TokensGenerated'
    BY <1>1, <2>1 DEF TokensGenerated
  <2>6. TokensTracked'
    BY <1>1, <2>3, <2>4 DEF TokensTracked, Spent
  <2>7. f.host = t.old.host /\ f.uuid = t.old.gen.uuid
    BY <2>2 DEF Gen
  <2>8. \A c \in claims' : ~(c.host = f.host /\ c.gen.uuid = f.uuid)
    BY <2>1, <2>7 DEF Inv, RegistryConsistent, ClaimsMatch
  <2>. HIDE DEF f
  <2>9. FencesMatch'
    BY <2>1, <2>3, <2>8 DEF FencesMatch
  <2>. QED
    BY <2>5, <2>6, <2>9
<1>8. CASE CommitAbandon(t) \/ CommitRetire(t)
  <2>1. claims' = claims \ {t.old} /\ UNCHANGED fences
    BY <1>8, RemovalClaims DEF CommitAbandon, CommitRetire
  <2>. QED
    BY <1>2, <2>1
<1>9. CASE CommitAllocate(t) \/ CommitRequest(t) \/ CommitRelease(t)
  BY <1>2, <1>9 DEF CommitAllocate, CommitRequest, CommitRelease
<1>. QED
  BY <1>4, <1>5, <1>6, <1>7, <1>8, <1>9 DEF Commit

\* The machines: a host that stops takes its tokens and its claim transactions
\* with it.
LEMMA MachinesKeepFenceInv ==
    ASSUME FenceInv, PowerOffDrains,
           \/ \E t \in net : Forget(t)
           \/ \E h \in Hosts : PowerOff(h)
           \/ \E h \in Hosts : PowerOn(h)
           \/ UNCHANGED vars
    PROVE  TokensGenerated' /\ TokensTracked' /\ FencesMatch'
<1>. USE DEF FenceInv, StepInv
<1>1. UNCHANGED registry
  BY DEF Forget, PowerOff, PowerOn, vars
<1>2. FencesMatch'
  BY <1>1 DEF FencesMatch, registry
<1>3. ASSUME net' \subseteq net, UNCHANGED <<usedTokens, live>>, up \subseteq up'
      PROVE  TokensGenerated' /\ TokensTracked'
  BY <1>1, <1>3 DEF TokensGenerated, TokensTracked, Spent, registry
<1>4. ASSUME NEW h \in Hosts, PowerOff(h)
      PROVE  TokensGenerated' /\ TokensTracked'
  <2>1. /\ net' = {t \in net : h \notin Author(t)}
        /\ live' = [live EXCEPT ![h] = {}] /\ up' = up \ {h} /\ UNCHANGED usedTokens
    BY <1>4 DEF PowerOff
  <2>2. live'[h] = {} /\ \A g \in Hosts : g # h => live'[g] = live[g]
    BY <2>1 DEF Inv, TypeOK
  <2>3. TokensGenerated'
    BY <1>1, <2>1, <2>2 DEF TokensGenerated, registry
  <2>4. \A g \in Hosts, T \in Tokens : Spent(g, T) => Spent(g, T)'
    BY <2>1, <2>2 DEF Spent
  <2>5. \A f \in fences' : Spent(f.host, f.token)'
    BY <1>1, <2>4 DEF TokensTracked, registry, Inv, TypeOK, Fence
  <2>6. ASSUME NEW t \in net'
        PROVE  /\ t.op = "fence" => Spent(t.old.host, t.old.token)'
               /\ t.op \in {"claim", "reclaim"} =>
                     <<t.new.token, t.cur.uuid>> \in live'[t.new.host]
    <3>1. t \in net /\ t \in Txn /\ h \notin Author(t)
      BY <2>1 DEF Inv, TypeOK
    <3>2. CASE t.op = "fence"
      <4>1. t.old.host \in Hosts /\ t.old.token \in Tokens
        BY <3>1, <3>2, TxnFields DEF Claim
      <4>. QED
        BY <2>4, <3>1, <3>2, <4>1 DEF TokensTracked
    <3>3. CASE t.op \in {"claim", "reclaim"}
      <4>1. t.new.host \in Hosts
        BY <3>1, <3>3, TxnFields DEF Claim
      <4>2. t.new.host # h
        BY <3>1, <3>3 DEF Author, Inv, NetWellFormed, WellFormed
      <4>. QED
        BY <2>2, <3>1, <3>3, <4>1, <4>2 DEF TokensTracked
    <3>. QED
      BY <3>2, <3>3
  <2>7. TokensTracked'
    BY <2>5, <2>6 DEF TokensTracked
  <2>. QED
    BY <2>3, <2>7
<1>5. ASSUME NEW t \in net, Forget(t) PROVE TokensGenerated' /\ TokensTracked'
  BY <1>3, <1>5 DEF Forget, fleet
<1>6. ASSUME NEW h \in Hosts, PowerOn(h) PROVE TokensGenerated' /\ TokensTracked'
  <2>1. up' = up \cup {h} /\ live' = live /\ net' = net /\ usedTokens' = usedTokens
    BY <1>6 DEF PowerOn
  <2>. QED
    BY <1>3, <2>1
<1>7. ASSUME UNCHANGED vars PROVE TokensGenerated' /\ TokensTracked'
  BY <1>3, <1>7 DEF vars, fleet
<1>. QED
  BY <1>2, <1>4, <1>5, <1>6, <1>7

\* If a host that is powered off can no longer write, the same materialization
\* token never coexists in the fence ledger and in a live claim, so the fence
\* check of the full audit never fires (_audit_validate_fence_relationships).
THEOREM FenceDisposal == PowerOffDrains => (Spec => []FencesMatch)
<1>. SUFFICES ASSUME PowerOffDrains PROVE Spec => []FencesMatch
  OBVIOUS
<1>1. Init => FenceInv
  BY InitInv DEF Init, FenceInv, StepInv, NetPrepared, TokensGenerated, TokensTracked, FencesMatch
<1>2. FenceInv /\ [Next]_vars => FenceInv'
  <2>. SUFFICES ASSUME FenceInv, [Next]_vars PROVE FenceInv'
    OBVIOUS
  <2>1. StepInv'
    BY NextKeepsStepInv DEF FenceInv
  <2>2. TokensGenerated' /\ TokensTracked' /\ FencesMatch'
    BY ReadKeepsFenceInv, CommitKeepsFenceInv, MachinesKeepFenceInv DEF Next
  <2>. QED
    BY <2>1, <2>2 DEF FenceInv
<1>3. FenceInv => FencesMatch
  BY DEF FenceInv
<1>. QED
  BY <1>1, <1>2, <1>3, PTL DEF Spec
=============================================================================
