--------------------- MODULE RootfsMaterializationProofs ---------------------
(***************************************************************************)
(* Proofs about RootfsMaterialization, for any set of tokens: its types,   *)
(* that root storage is always covered by the claim that names it, that    *)
(* Incus's evidence outlives the claim's need of it, and that an empty     *)
(* destroy undoes nothing.                                                 *)
(*                                                                         *)
(* The inductive invariant follows one token through its life: FRESH while *)
(* only its spawn knows it, UNREGISTERED until Incus opens its attempt,    *)
(* then moved forward by Incus alone (AttemptInv).  Beside it stands what  *)
(* a worker may rely on at each program counter though the other worker    *)
(* and Incus went on since it looked (WorkOK).  The claim lock appears     *)
(* nowhere: these properties rest on the compares of the registry and on   *)
(* Incus's evidence, and would survive a lock that was lost.               *)
(***************************************************************************)
EXTENDS RootfsMaterialization, TLAPS

\* Program counters: before the claim, of a spawn, of a worker that knows a
\* token, and of one that does not settle with a receipt.
EarlyPcs == {"preflight", "opening", "claim"}
OpenedPcs == {"finish-open", "prepare", "mark"}
SpawnPcs == EarlyPcs \cup OpenedPcs \cup {"register", "create", "observe", "get"}
PlainPcs == SpawnPcs \cup {"promote", "promoting", "built", "discover", "discover-new",
                           "abandon", "abort", "settle"}
TokenPcs == PlainPcs \cup {"deleting", "exact", "record", "receipt", "ack"}

\* Incus has never heard of t's attempt.
Unregistered(t) == attempt[t] = "absent" /\ outcome[t] = "none"

\* No create of t has been sent, and none has started.
Unstarted(t) ==
    /\ <<"create", t>> \notin requests
    /\ attempt[t] \notin {"started", "aborting", "committed"}
    /\ outcome[t] # "reconciled-clean"

\* Only the spawn that generated t knows it, and has not yet told anyone.
Fresh(t) ==
    /\ Unregistered(t) /\ receipt[t] = "none" /\ claim.token # t
    /\ \A kind \in {"register", "create", "delete"} : <<kind, t>> \notin requests
    /\ \A w \in Workers : work[w].token = t => work[w].pc \in EarlyPcs

\* What worker w may rely on when its record is r and the claim is c.
WorkOK(w, r, c) ==
    /\ r.pc \in SpawnPcs => w = "request"
    /\ r.pc \in TokenPcs => r.token \in Tokens
    /\ r.pc \in PlainPcs => ~r.final
    /\ r.pc \in EarlyPcs => Fresh(r.token)
    /\ r.pc \in OpenedPcs \cup {"register"} => Unstarted(r.token)
    /\ r.pc \in OpenedPcs => ~Unregistered(r.token)
    /\ r.pc = "mark" => c.token = r.token /\ c.state = "possible"
    /\ r.pc = "promoting" => attempt[r.token] = "committed"
    /\ r.pc = "receipt" => r.final
    /\ r.pc = "record" => IF r.final THEN receipt[r.token] # "none" ELSE outcome[r.token] # "none"
    /\ r.pc = "ack" /\ c.token = r.token => c.state = "cleaned"
WorkInv == \A w \in Workers : WorkOK(w, work[w], claim)

\* How an attempt, its proof, its storage and its receipt hang together.
AttemptOK(t) ==
    /\ <<"register", t>> \in requests => Unregistered(t)
    /\ <<"create", t>> \in requests => ~Unregistered(t)
    /\ attempt[t] \in {"active", "started", "aborting", "committed"} => outcome[t] = "none"
    /\ attempt[t] \in {"proven", "retired"} => outcome[t] # "none"
    /\ t \in operations => attempt[t] \in {"started", "aborting"}
    /\ t \in rootfs => attempt[t] \in {"started", "aborting", "committed"}
    /\ container = t => attempt[t] = "committed"
    /\ attempt[t] = "committed" => container = t \/ receipt[t] # "none"
    /\ receipt[t] # "none" => attempt[t] = "committed" /\ container # t /\ t \notin rootfs
AttemptInv == \A t \in Tokens : AttemptOK(t)

\* A claim belongs to an allocation, and one that is not cleaned has lost none
\* of the evidence about its token.
ClaimInv ==
    /\ claim \in Claim => allocated
    /\ claim \in Claim /\ claim.state # "cleaned" =>
          /\ attempt[claim.token] # "retired" /\ receipt[claim.token] # "acked"
          /\ attempt[claim.token] = "absent" => outcome[claim.token] = "none"

\* A journal that an empty destroy may remove names a fresh token, and so does
\* every token not generated yet.
JournalInv ==
    /\ journal # NoJournal /\ (journal.phase = "preflight" \/ ~allocated) => Fresh(journal.token)
    /\ \A w \in Workers : work[w].pc \in {"opening", "claim"} =>
          ~(journal.phase = "preflight" /\ journal.token = work[w].token)
    /\ \A t \in Tokens \ spawned :
          Fresh(t) /\ journal.token # t /\ \A w \in Workers : work[w].token # t

SafetyInv == RootfsUnderClaim /\ EvidenceOutlivesClaim
Inv == TypeOK /\ WorkInv /\ AttemptInv /\ ClaimInv /\ JournalInv /\ SafetyInv

-----------------------------------------------------------------------------
(* Frames: what a step that changes one worker's record must respect.      *)

WorkRecord == [job: Jobs, pc: Steps, token: Tokens \cup {NoToken}, final: BOOLEAN]

\* A fresh token stays fresh while nobody else takes it up.
LEMMA FreshStays ==
    ASSUME TypeOK, NEW t \in Tokens, Fresh(t),
           NEW w \in Workers, NEW r, work' = [work EXCEPT ![w] = r],
           r.token = t => r.pc \in EarlyPcs,
           attempt'[t] = attempt[t], outcome'[t] = outcome[t], receipt'[t] = receipt[t],
           claim'.token # t,
           \A kind \in {"register", "create", "delete"} :
              <<kind, t>> \in requests' => <<kind, t>> \in requests
    PROVE  Fresh(t)'
<1>1. \A v \in Workers : work'[v] = IF v = w THEN r ELSE work[v]
  BY DEF TypeOK
<1>. QED
  BY <1>1 DEF Fresh, Unregistered

\* A worker's step that changes nothing at Incus and adds no request.  The new
\* record is one the worker may have under the new claim, with the worker's
\* token, the claim's or none; a claim behind which another worker stands ready
\* to create is left alone, and a cleaned one stays cleaned.
LEMMA Moves ==
    ASSUME Inv, NEW w \in Workers, NEW r \in WorkRecord, work' = [work EXCEPT ![w] = r],
           UNCHANGED <<incus, requests, spawned>>,
           claim'.token \in {claim.token, NoToken},
           \A v \in Workers : v # w /\ work[v].pc = "mark" => claim' = claim,
           claim'.token = claim.token /\ claim.state = "cleaned" => claim'.state = "cleaned",
           allocated => allocated' \/ journal' = NoJournal,
           journal' \in {journal, NoJournal},
           WorkOK(w, r, claim'),
           \/ r.token \in {NoToken, claim.token}
           \/ r.token = work[w].token /\ (work[w].pc \in EarlyPcs => r.pc \in EarlyPcs),
           r.pc \in {"opening", "claim"} =>
              work[w].pc \in {"opening", "claim"} /\ r.token = work[w].token
    PROVE  WorkInv' /\ AttemptInv' /\ JournalInv'
<1>1. \A v \in Workers : work'[v] = IF v = w THEN r ELSE work[v]
  BY DEF Inv, TypeOK
<1>2. \A t \in Tokens : Fresh(t) => Fresh(t)'
  <2>. SUFFICES ASSUME NEW t \in Tokens, Fresh(t) PROVE Fresh(t)'
    OBVIOUS
  <2>1. (r.token = t => r.pc \in EarlyPcs) /\ claim'.token # t
    BY NoTokenAssumption DEF Fresh
  <2>. QED
    BY <2>1, FreshStays DEF Inv, incus
<1>3. WorkInv'
  <2>. SUFFICES ASSUME NEW v \in Workers PROVE WorkOK(v, work[v], claim)'
    BY DEF WorkInv
  <2>1. WorkOK(v, work'[v], claim')
    <3>1. CASE v = w
      BY <1>1, <3>1
    <3>2. CASE v # w
      <4>1. WorkOK(v, work[v], claim) /\ work'[v] = work[v]
        BY <1>1, <3>2 DEF Inv, WorkInv
      <4>2. work[v].pc = "ack" => work[v].token \in Tokens
        BY <4>1 DEF WorkOK, TokenPcs
      <4>. QED
        BY <3>2, <4>1, <4>2, NoTokenAssumption DEF WorkOK
    <3>. QED
      BY <3>1, <3>2
  <2>2. work'[v].pc \in EarlyPcs => work'[v].token \in Tokens
    BY <2>1 DEF WorkOK, TokenPcs, PlainPcs, SpawnPcs
  <2>. QED
    BY <1>2, <2>1, <2>2 DEF WorkOK, Unstarted, Unregistered, incus
<1>4. AttemptInv'
  BY DEF Inv, AttemptInv, AttemptOK, Unregistered, incus
<1>5. JournalInv'
  <2>1. journal # NoJournal => journal.token \in Tokens
    BY DEF Inv, TypeOK, Journal
  <2>2. NoJournal.phase = "none"
    BY DEF NoJournal
  <2>3. ASSUME journal' # NoJournal, journal'.phase = "preflight" \/ ~allocated'
        PROVE  Fresh(journal.token)'
    BY <1>2, <2>1, <2>3 DEF Inv, JournalInv
  <2>4. ASSUME NEW v \in Workers, work'[v].pc \in {"opening", "claim"}
        PROVE  ~(journal'.phase = "preflight" /\ journal'.token = work'[v].token)
    BY <1>1, <2>2, <2>4 DEF Inv, JournalInv
  <2>5. ASSUME NEW t \in Tokens \ spawned
        PROVE  Fresh(t)' /\ journal'.token # t /\ \A v \in Workers : work'[v].token # t
    BY <1>1, <1>2, NoTokenAssumption DEF Inv, JournalInv, Fresh, NoJournal
  <2>. QED
    BY <2>3, <2>4, <2>5 DEF JournalInv
<1>. QED
  BY <1>3, <1>4, <1>5

\* A step that leaves the claim, the requests and Incus alone leaves the
\* properties alone.
LEMMA Quiet ==
    ASSUME Inv, UNCHANGED <<claim, incus, requests>>, allocated => allocated'
    PROVE  ClaimInv' /\ SafetyInv'
<1>1. ClaimInv'
  BY DEF Inv, ClaimInv, incus
<1>2. \A t \in Tokens : MayMaterialize(t)' => MayMaterialize(t)
  BY DEF MayMaterialize, incus
<1>3. RootfsUnderClaim'
  BY <1>2 DEF Inv, SafetyInv, RootfsUnderClaim
<1>4. EvidenceOutlivesClaim'
  BY DEF Inv, SafetyInv, EvidenceOutlivesClaim, incus
<1>. QED
  BY <1>1, <1>3, <1>4 DEF SafetyInv

\* The common case: the worker goes on to another program counter.
LEMMA Goes ==
    ASSUME Inv, NEW w \in Workers, NEW pc \in Steps, Goto(w, pc),
           UNCHANGED <<claim, incus, requests, spawned>>,
           allocated => allocated', journal' \in {journal, NoJournal},
           WorkOK(w, [work[w] EXCEPT !.pc = pc], claim),
           work[w].pc \in EarlyPcs => pc \in EarlyPcs,
           pc \in {"opening", "claim"} => work[w].pc \in {"opening", "claim"}
    PROVE  WorkInv' /\ AttemptInv' /\ ClaimInv' /\ JournalInv' /\ SafetyInv'
<1>. DEFINE r == [work[w] EXCEPT !.pc = pc]
<1>1. work[w] \in WorkRecord
  BY DEF Inv, TypeOK, WorkRecord
<1>2. r \in WorkRecord /\ r.pc = pc /\ r.token = work[w].token
  BY <1>1 DEF WorkRecord
<1>3. work' = [work EXCEPT ![w] = r]
  BY DEF Goto
<1>. HIDE DEF r
<1>. QED
  BY <1>2, <1>3, Moves, Quiet DEF r

\* A worker that is done, or has raised, forgets everything.
LEMMA Ends ==
    ASSUME Inv, NEW w \in Workers, Done(w),
           UNCHANGED <<claim, incus, requests, spawned>>,
           allocated => allocated', journal' \in {journal, NoJournal}
    PROVE  WorkInv' /\ AttemptInv' /\ ClaimInv' /\ JournalInv' /\ SafetyInv'
<1>1. Idle \in WorkRecord /\ Idle.token = NoToken /\ Idle.pc = "idle"
  BY DEF Idle, WorkRecord, Jobs, Steps
<1>2. WorkOK(w, Idle, claim)
  BY <1>1 DEF WorkOK, TokenPcs, PlainPcs, SpawnPcs, EarlyPcs, OpenedPcs
<1>. QED
  BY <1>1, <1>2, Moves, Quiet DEF Done

-----------------------------------------------------------------------------
(* Spawn.                                                                  *)

\* What the spawn of a token does on its way to the create request, and after
\* it, without changing its claim.
LEMMA SpawnMoves ==
    ASSUME Inv,
           \/ BeginAllocate \/ BeginRegistered \/ FinishSpawnAttemptOpen \/ PrepareFails
           \/ CreateReturns \/ ObserveStart \/ AbortGet
    PROVE  WorkInv' /\ AttemptInv' /\ ClaimInv' /\ JournalInv' /\ SafetyInv'
<1>. DEFINE Then(pc) == [work["request"] EXCEPT !.pc = pc]
<1>1. "request" \in Workers /\ work["request"] \in WorkRecord
  BY DEF Workers, Inv, TypeOK, WorkRecord
<1>2. WorkOK("request", work["request"], claim)
  BY <1>1 DEF Inv, WorkInv
<1>3. ASSUME NEW pc \in Steps
      PROVE  Then(pc).pc = pc /\ Then(pc).token = work["request"].token
             /\ Then(pc).final = work["request"].final
  BY <1>1 DEF WorkRecord
<1>. HIDE DEF Then
<1>. USE DEF Steps, EarlyPcs, OpenedPcs, SpawnPcs, PlainPcs, TokenPcs
<1>4. CASE BeginAllocate
  <2>1. WorkOK("request", Then("claim"), claim)
    BY <1>2, <1>3, <1>4 DEF WorkOK, BeginAllocate, At
  <2>. QED
    BY <1>1, <1>4, <2>1, Goes DEF BeginAllocate, At, nova, Then
<1>5. CASE BeginRegistered
  <2>1. WorkOK("request", Then("finish-open"), claim)
    BY <1>2, <1>3, <1>5 DEF WorkOK, BeginRegistered, At, Unregistered
  <2>. QED
    BY <1>1, <1>5, <2>1, Goes DEF BeginRegistered, At, registry, nova, Then
<1>6. CASE FinishSpawnAttemptOpen
  <2>1. WorkOK("request", Then("prepare"), claim)
    BY <1>2, <1>3, <1>6 DEF WorkOK, FinishSpawnAttemptOpen, At
  <2>. QED
    BY <1>1, <1>6, <2>1, Goes DEF FinishSpawnAttemptOpen, At, registry, nova, Then
<1>7. CASE PrepareFails
  <2>1. WorkOK("request", Then("get"), claim)
    BY <1>2, <1>3, <1>7 DEF WorkOK, PrepareFails, At
  <2>. QED
    BY <1>1, <1>7, <2>1, Goes DEF PrepareFails, At, registry, nova, Then
<1>8. CASE CreateReturns
  <2>1. WorkOK("request", Then("observe"), claim)
    BY <1>2, <1>3, <1>8 DEF WorkOK, CreateReturns, At
  <2>. QED
    BY <1>1, <1>8, <2>1, Goes DEF CreateReturns, At, registry, nova, Then
<1>9. CASE ObserveStart
  <2>1. WorkOK("request", Then("get"), claim)
    BY <1>2, <1>3, <1>9 DEF WorkOK, ObserveStart, At
  <2>2. attempt[work["request"].token] = "committed" => WorkOK("request", Then("promoting"), claim)
    BY <1>2, <1>3, <1>9 DEF WorkOK, ObserveStart, At
  <2>. QED
    BY <1>1, <1>9, <2>1, <2>2, Goes DEF ObserveStart, At, registry, nova, Then
<1>10. CASE AbortGet
  <2>. DEFINE t == work["request"].token
  <2>1. t \in Tokens /\ ~work["request"].final
    BY <1>2, <1>10 DEF WorkOK, AbortGet, At
  <2>2. \A pc \in {"abort", "settle"} : WorkOK("request", Then(pc), claim)
    BY <1>2, <1>3, <1>10 DEF WorkOK, AbortGet, At
  <2>3. attempt[t] \in {"proven", "retired"} => WorkOK("request", Then("record"), claim)
    <3>1. attempt[t] \in {"proven", "retired"} => outcome[t] # "none"
      BY <2>1 DEF Inv, AttemptInv, AttemptOK
    <3>. QED
      BY <1>3, <2>1, <3>1 DEF WorkOK
  <2>4. PICK pc \in {"abort", "settle", "record"} :
           Goto("request", pc) /\ WorkOK("request", Then(pc), claim)
    BY <1>10, <2>2, <2>3 DEF AbortGet
  <2>. QED
    BY <1>1, <1>10, <2>4, Goes DEF AbortGet, At, registry, nova, Then
<1>. QED
  BY <1>4, <1>5, <1>6, <1>7, <1>8, <1>9, <1>10

\* The opening of the journal, which keeps its token.
LEMMA Opens ==
    ASSUME Inv, OpenSpawnAttempt
    PROVE  WorkInv' /\ AttemptInv' /\ ClaimInv' /\ JournalInv' /\ SafetyInv'
<1>. DEFINE t == work["request"].token
            r == [work["request"] EXCEPT !.pc = "opening"]
<1>1. "request" \in Workers /\ work["request"] \in WorkRecord
  BY DEF Workers, Inv, TypeOK, WorkRecord
<1>2. /\ work' = [work EXCEPT !["request"] = r] /\ work["request"].pc = "preflight"
      /\ journal.phase = "preflight" /\ journal.token = t
      /\ journal' = [journal EXCEPT !.phase = "opening"]
      /\ UNCHANGED <<registry, incus, requests, spawned>>
  BY DEF OpenSpawnAttempt, Goto, At, nova
<1>3. journal \in Journal
  BY <1>2 DEF Inv, TypeOK, NoJournal
<1>4. /\ journal' # NoJournal /\ journal'.phase = "opening" /\ journal'.token = t
      /\ r.pc = "opening" /\ r.token = t /\ r.final = work["request"].final
  BY <1>1, <1>2, <1>3 DEF Journal, NoJournal, WorkRecord
<1>5. \A v \in Workers : work'[v] = IF v = "request" THEN r ELSE work[v]
  BY <1>2 DEF Inv, TypeOK
<1>6. WorkOK("request", work["request"], claim)
  BY <1>1 DEF Inv, WorkInv
<1>7. t \in Tokens /\ Fresh(t)
  BY <1>2, <1>6 DEF WorkOK, TokenPcs, PlainPcs, SpawnPcs, EarlyPcs
<1>. HIDE DEF r
<1>8. \A u \in Tokens : Fresh(u) => Fresh(u)'
  BY <1>2, <1>4, <1>1, FreshStays DEF Inv, incus, registry, Fresh, EarlyPcs
<1>9. WorkInv'
  <2>. SUFFICES ASSUME NEW v \in Workers PROVE WorkOK(v, work[v], claim)'
    BY DEF WorkInv
  <2>1. WorkOK(v, work'[v], claim)
    BY <1>2, <1>4, <1>5, <1>6, <1>7
    DEF Inv, WorkInv, WorkOK, TokenPcs, PlainPcs, SpawnPcs, EarlyPcs, OpenedPcs
  <2>2. work'[v].pc \in EarlyPcs => work'[v].token \in Tokens
    BY <2>1 DEF WorkOK, TokenPcs, PlainPcs, SpawnPcs
  <2>. QED
    BY <1>2, <1>8, <2>1, <2>2 DEF WorkOK, Unstarted, Unregistered, incus, registry
<1>10. AttemptInv' /\ ClaimInv'
  BY <1>2 DEF Inv, AttemptInv, AttemptOK, ClaimInv, Unregistered, incus, registry
<1>11. SafetyInv'
  BY <1>2 DEF Inv, SafetyInv, RootfsUnderClaim, EvidenceOutlivesClaim, MayMaterialize, incus,
              registry
<1>12. JournalInv'
  <2>1. Fresh(journal.token)'
    BY <1>2, <1>4, <1>7, <1>8
  <2>2. \A u \in Tokens \ spawned : u # t
    BY <1>2 DEF Inv, JournalInv
  <2>3. ASSUME NEW u \in Tokens \ spawned
        PROVE  Fresh(u)' /\ journal'.token # u /\ \A v \in Workers : work'[v].token # u
    BY <1>2, <1>4, <1>5, <1>8, <2>2 DEF Inv, JournalInv
  <2>. QED
    BY <1>2, <1>4, <2>1, <2>3 DEF JournalInv
<1>. QED
  BY <1>9, <1>10, <1>11, <1>12

-----------------------------------------------------------------------------
(* Settlement.                                                             *)

\* Settlement returns to its job with the token it settled, or none.
LEMMA SettledRecord ==
    ASSUME Inv, NEW w \in Workers, NEW t \in {NoToken, work[w].token},
           work[w].pc \notin EarlyPcs
    PROVE  /\ Settled(w, t) \in WorkRecord /\ WorkOK(w, Settled(w, t), claim)
           /\ Settled(w, t).token \in {NoToken, work[w].token}
           /\ Settled(w, t).pc \in {"idle", "entry", "cleanup", "fence", "raising", "retire"}
<1>1. work[w] \in WorkRecord
  BY DEF Inv, TypeOK, WorkRecord
<1>2. /\ Settled(w, t) \in WorkRecord
      /\ Settled(w, t).token \in {NoToken, work[w].token}
      /\ Settled(w, t).pc \in {"idle", "entry", "cleanup", "fence", "raising", "retire"}
  BY <1>1 DEF Settled, Idle, WorkRecord, Jobs, Steps
<1>3. WorkOK(w, Settled(w, t), claim)
  BY <1>2 DEF WorkOK, TokenPcs, PlainPcs, SpawnPcs, EarlyPcs, OpenedPcs
<1>. QED
  BY <1>2, <1>3

\* The steps of a settlement that only look.
LEMMA SettlementMoves ==
    ASSUME Inv, NEW w \in Workers, ExactClaim(w) \/ Discover(w) \/ DiscoverReceipt(w)
    PROVE  WorkInv' /\ AttemptInv' /\ ClaimInv' /\ JournalInv' /\ SafetyInv'
<1>. DEFINE t == work[w].token
            Then(pc) == [work[w] EXCEPT !.pc = pc]
<1>1. work[w] \in WorkRecord /\ WorkOK(w, work[w], claim)
  BY DEF Inv, WorkInv, TypeOK, WorkRecord
<1>2. ASSUME NEW pc \in Steps
      PROVE  Then(pc).pc = pc /\ Then(pc).token = t /\ Then(pc).final = work[w].final
  BY <1>1 DEF WorkRecord
<1>3. /\ t \in Tokens /\ work[w].pc \notin EarlyPcs
      /\ work[w].pc \in {"exact", "discover", "discover-new", "receipt"}
      /\ UNCHANGED <<registry, journal, lock, nova, incus, requests>>
  BY <1>1 DEF WorkOK, ExactClaim, Discover, DiscoverReceipt, At, TokenPcs, PlainPcs, EarlyPcs
<1>. HIDE DEF Then
<1>. USE DEF Steps, EarlyPcs, OpenedPcs, SpawnPcs, PlainPcs, TokenPcs
<1>4. CASE ExactClaim(w) /\ Settles(w, NoToken)
  <2>. DEFINE r == Settled(w, NoToken)
  <2>1. r \in WorkRecord /\ WorkOK(w, r, claim) /\ r.token \in {NoToken, t}
        /\ r.pc \in {"idle", "entry", "cleanup", "fence", "raising", "retire"}
    BY <1>3, SettledRecord
  <2>2. work' = [work EXCEPT ![w] = r]
    BY <1>4 DEF Settles
  <2>. HIDE DEF r
  <2>. QED
    BY <1>3, <2>1, <2>2, Moves, Quiet DEF registry, nova
<1>5. CASE ~(ExactClaim(w) /\ Settles(w, NoToken))
  <2>1. PICK pc \in {"ack", "receipt", "discover-new", "discover", "abandon", "abort",
                     "settle", "record"} : Goto(w, pc) /\ WorkOK(w, Then(pc), claim)
    <3>1. CASE ExactClaim(w)
      <4>1. PICK pc \in {"ack", "receipt", "discover-new", "discover"} :
               Goto(w, pc) /\ (pc = "ack" => claim.state = "cleaned")
               /\ (pc = "receipt" => work[w].final)
               /\ (pc \in {"discover-new", "discover"} => ~work[w].final)
        BY <1>5, <3>1 DEF ExactClaim
      <4>2. WorkOK(w, Then(pc), claim)
        BY <1>2, <1>3, <4>1 DEF WorkOK
      <4>. QED
        BY <4>1, <4>2
    <3>2. CASE Discover(w)
      <4>1. PICK pc \in {"abandon", "abort", "settle", "record"} :
               Goto(w, pc) /\ (pc = "record" => attempt[t] \in {"proven", "retired"})
        BY <3>2 DEF Discover
      <4>2. ~work[w].final
        BY <1>1, <3>2 DEF Discover, At, WorkOK
      <4>. QED
        <5>1. attempt[t] \in {"proven", "retired"} => outcome[t] # "none"
          BY <1>3 DEF Inv, AttemptInv, AttemptOK
        <5>. QED
          BY <1>2, <1>3, <4>1, <4>2, <5>1 DEF WorkOK
    <3>3. CASE DiscoverReceipt(w)
      <4>1. work[w].final
        BY <1>1, <3>3 DEF DiscoverReceipt, At, WorkOK
      <4>. QED
        BY <1>2, <1>3, <3>3, <4>1 DEF WorkOK, DiscoverReceipt
    <3>. QED
      BY <3>1, <3>2, <3>3
  <2>. QED
    BY <1>3, <2>1, Goes DEF registry, nova, Then
<1>. QED
  BY <1>4, <1>5

-----------------------------------------------------------------------------
(* Steps that change no claim and no evidence.                             *)

\* A worker takes up a new record: its own token, the claim's or none.
LEMMA Takes ==
    ASSUME Inv, NEW w \in Workers, NEW r \in WorkRecord, work' = [work EXCEPT ![w] = r],
           UNCHANGED <<claim, incus, requests, spawned>>,
           allocated => allocated', journal' \in {journal, NoJournal},
           r.token \in {NoToken, claim.token} \/ (r.token = work[w].token /\ ~(work[w].pc \in EarlyPcs)),
           r.pc \notin SpawnPcs \cup {"promoting", "receipt", "record", "ack"},
           r.pc \in TokenPcs => r.token \in Tokens,
           r.pc \in PlainPcs => ~r.final
    PROVE  WorkInv' /\ AttemptInv' /\ ClaimInv' /\ JournalInv' /\ SafetyInv'
<1>1. WorkOK(w, r, claim)
  BY DEF WorkOK, SpawnPcs, EarlyPcs, OpenedPcs
<1>2. r.pc \notin {"opening", "claim"}
  BY DEF SpawnPcs, EarlyPcs
<1>3. WorkInv' /\ AttemptInv' /\ JournalInv'
  BY <1>1, <1>2, Moves
<1>. QED
  BY <1>3, Quiet

\* Nobody's record changes.
LEMMA Stays ==
    ASSUME Inv, UNCHANGED <<work, claim, incus, requests, spawned>>,
           allocated => allocated', journal' \in {journal, NoJournal}
    PROVE  WorkInv' /\ AttemptInv' /\ ClaimInv' /\ JournalInv' /\ SafetyInv'
<1>1. "periodic" \in Workers /\ work["periodic"] \in WorkRecord
  BY DEF Inv, TypeOK, WorkRecord, Workers
<1>2. work' = [work EXCEPT !["periodic"] = work["periodic"]]
  BY <1>1 DEF Inv, TypeOK
<1>3. WorkOK("periodic", work["periodic"], claim)
  BY <1>1 DEF Inv, WorkInv
<1>. QED
  BY <1>1, <1>2, <1>3, Moves, Quiet

\* A claim read in a known state has a token.
LEMMA ClaimToken ==
    ASSUME TypeOK
    PROVE  /\ claim.state # "none" => claim.token \in Tokens
           /\ claim.token = NoToken <=> claim = NoClaim
           /\ claim # NoClaim => claim.state # "none" /\ claim \in Claim
BY NoTokenAssumption DEF TypeOK, Claim, NoClaim, States

\* The record of a worker that has resolved a claim (AfterPromotion).
LEMMA PromotionRecord ==
    ASSUME Inv, NEW w \in Workers, AfterPromotion(w), work[w].job \in Jobs,
           claim' \in Claim \cup {NoClaim}
    PROVE  \E r \in WorkRecord :
              /\ work' = [work EXCEPT ![w] = r]
              /\ r.token \in {NoToken, claim'.token}
              /\ r.pc \in {"built", "exact", "entry", "container"}
              /\ r.pc \in {"built", "exact"} => r.token \in Tokens
              /\ r.pc = "built" => ~r.final
<1>1. claim'.state # "none" => claim'.token \in Tokens
  BY DEF Claim, NoClaim
<1>2. claim'.token \in Tokens \cup {NoToken}
  BY DEF Claim, NoClaim
<1>. DEFINE r(pc, final) == [job |-> work[w].job, pc |-> pc, token |-> claim'.token, final |-> final]
            s == [job |-> "finaldestroy", pc |-> "entry", token |-> NoToken, final |-> FALSE]
<1>3. \A pc \in Steps, final \in BOOLEAN : r(pc, final) \in WorkRecord
  BY <1>2 DEF WorkRecord
<1>4. s \in WorkRecord
  BY DEF WorkRecord, Jobs, Steps
<1>5. {"built", "exact", "entry", "container"} \subseteq Steps
  BY DEF Steps
<1>6. CASE work' = [work EXCEPT ![w] = s]
  BY <1>4, <1>6
<1>7. ASSUME NEW pc \in {"built", "exact", "container"}, NEW final \in BOOLEAN,
             work' = [work EXCEPT ![w] = r(pc, final)],
             pc # "container" => claim'.state # "none", pc = "built" => ~final
      PROVE  \E x \in WorkRecord :
                /\ work' = [work EXCEPT ![w] = x]
                /\ x.token \in {NoToken, claim'.token}
                /\ x.pc \in {"built", "exact", "entry", "container"}
                /\ x.pc \in {"built", "exact"} => x.token \in Tokens
                /\ x.pc = "built" => ~x.final
  BY <1>1, <1>3, <1>5, <1>7
<1>8. AfterPromotion(w) =>
        \/ work' = [work EXCEPT ![w] = s]
        \/ \E pc \in {"built", "exact", "container"}, final \in BOOLEAN :
              /\ work' = [work EXCEPT ![w] = r(pc, final)]
              /\ pc # "container" => claim'.state # "none"
              /\ pc = "built" => ~final
  <2>1. CASE work[w].job = "spawn" /\ claim'.state = "committed"
             /\ work' = [work EXCEPT ![w] = r("built", FALSE)]
    BY <2>1
  <2>2. CASE work[w].job = "presettle" /\ claim'.state = "possible"
             /\ work' = [work EXCEPT ![w] = r("exact", FALSE)]
    BY <2>2
  <2>3. CASE work' = [work EXCEPT ![w] = r("container", claim'.state = "committed")]
    <3>1. (claim'.state = "committed") \in BOOLEAN
      OBVIOUS
    <3>. QED
      BY <2>3, <3>1
  <2>4. ASSUME claim'.state # "none", NEW S,
               work' = [work EXCEPT ![w] = r("exact", claim'.state \in S)]
        PROVE  \E pc \in {"built", "exact", "container"}, final \in BOOLEAN :
                  /\ work' = [work EXCEPT ![w] = r(pc, final)]
                  /\ pc # "container" => claim'.state # "none"
                  /\ pc = "built" => ~final
    <3>1. (claim'.state \in S) \in BOOLEAN
      OBVIOUS
    <3>. QED
      BY <2>4, <3>1
  <2>5. ASSUME claim'.state # "none", NEW S,
               work' = [work EXCEPT ![w] = r("exact", claim'.state \notin S)]
        PROVE  \E pc \in {"built", "exact", "container"}, final \in BOOLEAN :
                  /\ work' = [work EXCEPT ![w] = r(pc, final)]
                  /\ pc # "container" => claim'.state # "none"
                  /\ pc = "built" => ~final
    <3>1. (claim'.state \notin S) \in BOOLEAN
      OBVIOUS
    <3>. QED
      BY <2>5, <3>1
  <2>. QED
    BY <2>1, <2>2, <2>3, <2>4, <2>5 DEF AfterPromotion, Begin
<1>. QED
  BY <1>6, <1>7, <1>8

LEMMA PromotionMoves ==
    ASSUME Inv, NEW w \in Workers, DiscoverForPromotion(w)
    PROVE  WorkInv' /\ AttemptInv' /\ ClaimInv' /\ JournalInv' /\ SafetyInv'
<1>1. /\ work[w] \in WorkRecord /\ WorkOK(w, work[w], claim)
      /\ work[w].pc = "promote" /\ UNCHANGED <<registry, journal, lock, nova, incus, requests>>
  BY DEF Inv, WorkInv, TypeOK, WorkRecord, DiscoverForPromotion, At
<1>2. CASE attempt[work[w].token] = "committed" /\ Goto(w, "promoting")
  <2>. DEFINE r == [work[w] EXCEPT !.pc = "promoting"]
  <2>1. r.pc = "promoting" /\ r.token = work[w].token /\ r.final = work[w].final
    BY <1>1 DEF WorkRecord
  <2>. HIDE DEF r
  <2>2. WorkOK(w, r, claim)
    BY <1>1, <1>2, <2>1 DEF WorkOK, TokenPcs, PlainPcs, SpawnPcs, EarlyPcs, OpenedPcs
  <2>. QED
    BY <1>1, <1>2, <2>2, Goes DEF r, registry, nova, Steps, EarlyPcs
<1>3. CASE AfterPromotion(w)
  <2>1. work[w].job \in Jobs /\ claim' \in Claim \cup {NoClaim}
    BY <1>1 DEF WorkRecord, Inv, TypeOK, registry
  <2>2. PICK r \in WorkRecord :
              /\ work' = [work EXCEPT ![w] = r]
              /\ r.token \in {NoToken, claim'.token}
              /\ r.pc \in {"built", "exact", "entry", "container"}
              /\ r.pc \in {"built", "exact"} => r.token \in Tokens
              /\ r.pc = "built" => ~r.final
    BY <1>3, <2>1, PromotionRecord
  <2>3. /\ r.pc \notin SpawnPcs \cup {"promoting", "receipt", "record", "ack"}
        /\ r.pc \in TokenPcs => r.token \in Tokens
        /\ r.pc \in PlainPcs => ~r.final
    BY <2>2 DEF TokenPcs, PlainPcs, SpawnPcs, EarlyPcs, OpenedPcs
  <2>. QED
    BY <1>1, <2>2, <2>3, Takes DEF registry, nova
<1>. QED
  BY <1>2, <1>3 DEF DiscoverForPromotion

\* The steps of spawn, destroy and release that only move a worker on, or only
\* change the journal, the intent or the row.
LEMMA WorkerMoves ==
    ASSUME Inv, NEW w \in Workers,
           \/ SpawnReturns \/ DestroyContext \/ ContainerAbsent \/ DeleteReturns
           \/ ConsumePreflightNoop \/ RequestRelease \/ DeleteUnallocated
           \/ Raise(w)
    PROVE  WorkInv' /\ AttemptInv' /\ ClaimInv' /\ JournalInv' /\ SafetyInv'
<1>1. /\ "request" \in Workers /\ work["request"] \in WorkRecord
      /\ WorkOK("request", work["request"], claim)
  BY DEF Workers, Inv, TypeOK, WorkInv, WorkRecord
<1>2. /\ claim.state # "none" => claim.token \in Tokens
      /\ claim.token \in Tokens \cup {NoToken}
  BY ClaimToken DEF Inv, TypeOK, Claim, NoClaim
<1>. USE DEF Steps, Jobs, EarlyPcs, OpenedPcs, SpawnPcs, PlainPcs, TokenPcs, At
<1>3. CASE SpawnReturns
  BY <1>1, <1>3, Ends DEF SpawnReturns, registry, nova
<1>4. CASE Raise(w)
  BY <1>4, Ends DEF Raise, registry, nova
<1>5. CASE DestroyContext
  <2>. DEFINE job == IF At("request", "idle") THEN "destroy" ELSE "finaldestroy"
  <2>1. PICK pc \in {"promote", "container"}, final \in BOOLEAN :
           /\ work' = [work EXCEPT !["request"] =
                         [job |-> job, pc |-> pc, token |-> claim.token, final |-> final]]
           /\ pc = "promote" => claim.state # "none" /\ ~final
    BY <1>5 DEF DestroyContext, Begin
  <2>. DEFINE r == [job |-> job, pc |-> pc, token |-> claim.token, final |-> final]
  <2>2. r \in WorkRecord /\ r.pc = pc /\ r.token = claim.token /\ r.final = final
    BY <1>2 DEF WorkRecord
  <2>. HIDE DEF r
  <2>. QED
    BY <1>1, <1>2, <1>5, <2>1, <2>2, Takes DEF DestroyContext, registry, nova, r
<1>6. CASE ContainerAbsent
  <2>1. PICK pc \in {"cleanup", "exact"} :
           Goto("request", pc) /\ (pc = "exact" => work["request"].token # NoToken)
    BY <1>6 DEF ContainerAbsent
  <2>. DEFINE r == [work["request"] EXCEPT !.pc = pc]
  <2>2. r \in WorkRecord /\ r.pc = pc /\ r.token = work["request"].token
    BY <1>1, <2>1 DEF WorkRecord
  <2>3. r.pc = "exact" => r.token \in Tokens
    BY <1>1, <2>1, <2>2 DEF WorkRecord
  <2>4. work' = [work EXCEPT !["request"] = r]
    BY <2>1 DEF Goto
  <2>. HIDE DEF r
  <2>. QED
    BY <1>1, <1>6, <2>2, <2>3, <2>4, Takes DEF ContainerAbsent, registry, nova
<1>7. CASE DeleteReturns
  <2>. DEFINE r == [work["request"] EXCEPT !.pc = "exact", !.final = TRUE]
  <2>1. r \in WorkRecord /\ r.pc = "exact" /\ r.token = work["request"].token
    BY <1>1 DEF WorkRecord
  <2>2. r.token \in Tokens
    BY <1>1, <1>7, <2>1 DEF DeleteReturns, WorkOK
  <2>3. work' = [work EXCEPT !["request"] = r]
    BY <1>1, <1>7 DEF DeleteReturns, Inv, TypeOK
  <2>. HIDE DEF r
  <2>. QED
    BY <1>1, <1>7, <2>1, <2>2, <2>3, Takes DEF DeleteReturns, registry, nova
<1>8. ASSUME NEW job \in Jobs, NEW pc \in {"entry", "complete"},
             Begin("request", job, pc, NoToken),
             UNCHANGED <<claim, incus, requests, spawned>>,
             allocated => allocated', journal' \in {journal, NoJournal}
      PROVE  WorkInv' /\ AttemptInv' /\ ClaimInv' /\ JournalInv' /\ SafetyInv'
  <2>. DEFINE r == [job |-> job, pc |-> pc, token |-> NoToken, final |-> FALSE]
  <2>1. r \in WorkRecord /\ r.pc = pc /\ r.token = NoToken /\ r.final = FALSE
    BY DEF WorkRecord
  <2>2. work' = [work EXCEPT !["request"] = r]
    BY <1>8 DEF Begin
  <2>. HIDE DEF r
  <2>. QED
    BY <1>1, <1>8, <2>1, <2>2, Takes
<1>9. CASE ConsumePreflightNoop
  <2>1. CASE Begin("request", "release", "complete", NoToken)
    BY <1>8, <1>9, <2>1 DEF ConsumePreflightNoop, registry
  <2>2. CASE UNCHANGED work
    BY <1>9, <2>2, Stays DEF ConsumePreflightNoop, registry
  <2>. QED
    BY <1>9, <2>1, <2>2 DEF ConsumePreflightNoop
<1>10. CASE RequestRelease
  <2>1. CASE claim.state = "possible"
    <3>. DEFINE r == [job |-> "presettle", pc |-> "promote", token |-> claim.token, final |-> FALSE]
    <3>1. r \in WorkRecord /\ r.pc = "promote" /\ r.token = claim.token /\ r.final = FALSE
      BY <1>2 DEF WorkRecord
    <3>2. work' = [work EXCEPT !["request"] = r]
      BY <1>10, <2>1 DEF RequestRelease, Begin
    <3>. HIDE DEF r
    <3>. QED
      BY <1>1, <1>2, <1>10, <2>1, <3>1, <3>2, Takes DEF RequestRelease, nova
  <2>2. CASE claim.state # "possible"
    BY <1>8, <1>10, <2>2 DEF RequestRelease, nova
  <2>. QED
    BY <2>1, <2>2
<1>11. CASE DeleteUnallocated
  BY <1>8, <1>11 DEF DeleteUnallocated, registry, nova
<1>. QED
  BY <1>3, <1>4, <1>5, <1>6, <1>7, <1>9, <1>10, <1>11

\* The periodic passes pick up their work, and Nova moves on, without touching
\* the claim.
LEMMA ReconcileMoves ==
    ASSUME Inv, NEW w \in Workers,
           \/ BeginDispose \/ FenceFailedBuild \/ AdoptUnclaimed \/ BeginRelease(w)
           \/ BuildFails \/ LocalDelete
    PROVE  WorkInv' /\ AttemptInv' /\ ClaimInv' /\ JournalInv' /\ SafetyInv'
<1>1. "periodic" \in Workers
  BY DEF Workers
<1>2. /\ claim.state # "none" => claim.token \in Tokens
      /\ claim # NoClaim => claim.token \in Tokens
      /\ claim.token \in Tokens \cup {NoToken}
  BY ClaimToken DEF Inv, TypeOK, Claim, NoClaim
<1>. USE DEF Steps, Jobs, EarlyPcs, OpenedPcs, SpawnPcs, PlainPcs, TokenPcs
<1>3. ASSUME NEW v \in Workers, NEW job \in Jobs, NEW final \in BOOLEAN,
             NEW pc \in {"promote", "exact", "retire"}, NEW t \in {NoToken, claim.token},
             pc # "retire" => t \in Tokens, pc = "promote" => ~final,
             work' = [work EXCEPT ![v] = [job |-> job, pc |-> pc, token |-> t, final |-> final]],
             UNCHANGED <<claim, incus, requests, spawned>>,
             allocated => allocated', journal' \in {journal, NoJournal}
      PROVE  WorkInv' /\ AttemptInv' /\ ClaimInv' /\ JournalInv' /\ SafetyInv'
  <2>. DEFINE r == [job |-> job, pc |-> pc, token |-> t, final |-> final]
  <2>1. r \in WorkRecord /\ r.pc = pc /\ r.token = t /\ r.final = final
    BY <1>2 DEF WorkRecord
  <2>2. work' = [work EXCEPT ![v] = r]
    BY <1>3
  <2>. HIDE DEF r
  <2>. QED
    BY <1>3, <2>1, <2>2, Takes
<1>4. CASE BeginDispose
  <2>1. CASE UNCHANGED work
    BY <1>4, <2>1, Stays DEF BeginDispose, registry, nova
  <2>2. CASE claim.state = "possible" /\ Begin("periodic", "dispose", "promote", claim.token)
    BY <1>1, <1>2, <1>3, <1>4, <2>2 DEF BeginDispose, Begin, registry, nova
  <2>3. CASE work' = [work EXCEPT !["periodic"] =
               [job |-> "dispose", pc |-> "exact", token |-> claim.token,
                final |-> claim.state # "unmaterialized"]]
    <3>1. claim.token \in Tokens /\ UNCHANGED <<claim, incus, requests, spawned, allocated>>
          /\ journal' \in {journal, NoJournal}
      BY <1>2, <1>4 DEF BeginDispose, registry, nova
    <3>2. (claim.state # "unmaterialized") \in BOOLEAN
      OBVIOUS
    <3>. QED
      BY <1>1, <1>3, <2>3, <3>1, <3>2
  <2>. QED
    BY <1>4, <2>1, <2>2, <2>3 DEF BeginDispose
<1>5. CASE FenceFailedBuild
  BY <1>1, <1>5, Ends DEF FenceFailedBuild, nova
<1>6. CASE AdoptUnclaimed
  BY <1>6, Stays DEF AdoptUnclaimed, host, nova
<1>7. CASE BeginRelease(w)
  <2>0. UNCHANGED <<claim, incus, requests, spawned, allocated, journal>>
    BY <1>7 DEF BeginRelease, registry, nova
  <2>1. CASE Begin(w, "release", "retire", NoToken)
    BY <1>3, <2>0, <2>1 DEF Begin
  <2>2. CASE claim.state = "possible" /\ Begin(w, "release", "promote", claim.token)
    BY <1>2, <1>3, <2>0, <2>2 DEF Begin
  <2>3. CASE claim # NoClaim /\ work' = [work EXCEPT ![w] =
               [job |-> "release", pc |-> "exact", token |-> claim.token,
                final |-> claim.state \in {"committed", "cleaned"}]]
    <3>1. (claim.state \in {"committed", "cleaned"}) \in BOOLEAN
      OBVIOUS
    <3>. QED
      BY <1>2, <1>3, <2>0, <2>3, <3>1
  <2>. QED
    BY <1>7, <2>1, <2>2, <2>3 DEF BeginRelease
<1>8. CASE BuildFails \/ LocalDelete
  BY <1>8, Stays DEF BuildFails, LocalDelete, registry, host
<1>. QED
  BY <1>4, <1>5, <1>6, <1>7, <1>8

-----------------------------------------------------------------------------
(* Steps that write the claim.                                             *)

\* The properties when the claim alone may have changed: its new state must be
\* borne out by the evidence, and nothing may materialize behind a claim that
\* no longer says so.
LEMMA ClaimMoves ==
    ASSUME Inv, UNCHANGED <<incus, requests>>,
           claim' \in Claim \cup {NoClaim},
           claim' \in Claim =>
              /\ allocated' /\ claim'.token = claim.token
              /\ claim.state = "cleaned" => claim'.state = "cleaned",
           \A t \in Tokens : MayMaterialize(t) =>
              allocated' /\ claim'.token = t /\ claim'.state \in {"possible", "committed"},
           claim'.state \in {"possible", "committed"} => attempt[claim.token] # "absent",
           claim'.state = "committed" =>
              /\ attempt[claim.token] = "committed"
              /\ container = claim.token \/ receipt[claim.token] # "none"
    PROVE  ClaimInv' /\ SafetyInv'
<1>1. claim' \in Claim \/ claim'.state = "none"
  BY DEF NoClaim
<1>2. claim' \in Claim => claim.token \in Tokens /\ claim'.state \in States /\ claim # NoClaim
                          /\ claim \in Claim
  BY NoTokenAssumption DEF Claim, NoClaim, Inv, TypeOK
<1>3. ClaimInv'
  BY <1>1, <1>2 DEF Inv, ClaimInv, incus
<1>4. claim'.state \in {"possible", "committed"} =>
         attempt[claim.token] \notin {"absent", "retired"} /\ receipt[claim.token] # "acked"
  BY <1>1, <1>2 DEF Inv, ClaimInv
<1>5. claim.token \in Tokens => receipt[claim.token] \in {"none", "issued", "acked"}
  BY DEF Inv, TypeOK
<1>6. EvidenceOutlivesClaim'
  BY <1>1, <1>2, <1>4, <1>5 DEF EvidenceOutlivesClaim, incus
<1>7. RootfsUnderClaim'
  BY DEF RootfsUnderClaim, MayMaterialize, incus
<1>. QED
  BY <1>3, <1>6, <1>7 DEF SafetyInv

\* A claim that is clean covers nothing, and neither does one whose attempt is
\* proven or whose receipt is there.
LEMMA NothingLeft ==
    ASSUME Inv
    PROVE  /\ claim.state \in {"none", "unmaterialized", "cleaned"} =>
                 \A t \in Tokens : ~MayMaterialize(t)
           /\ \A t \in Tokens : outcome[t] # "none" \/ receipt[t] # "none" => ~MayMaterialize(t)
<1>1. claim.state \in {"none", "unmaterialized", "cleaned"} => \A t \in Tokens : ~MayMaterialize(t)
  BY DEF Inv, SafetyInv, RootfsUnderClaim
<1>2. ASSUME NEW t \in Tokens, outcome[t] # "none" \/ receipt[t] # "none"
      PROVE  ~MayMaterialize(t)
  BY <1>2 DEF Inv, AttemptInv, AttemptOK, MayMaterialize
<1>. QED
  BY <1>1, <1>2

LEMMA MarkMoves ==
    ASSUME Inv, MarkPossible
    PROVE  WorkInv' /\ AttemptInv' /\ ClaimInv' /\ JournalInv' /\ SafetyInv'
<1>. DEFINE t == work["request"].token
            r == [work["request"] EXCEPT !.pc = "mark"]
<1>1. /\ "request" \in Workers /\ work["request"] \in WorkRecord
      /\ WorkOK("request", work["request"], claim) /\ work["request"].pc = "prepare"
  BY DEF Workers, Inv, TypeOK, WorkInv, WorkRecord, MarkPossible, At
<1>2. /\ r \in WorkRecord /\ r.pc = "mark" /\ r.token = t /\ r.final = work["request"].final
      /\ work' = [work EXCEPT !["request"] = r]
  BY <1>1 DEF WorkRecord, Steps, MarkPossible, Goto
<1>3. /\ claim.token = t /\ claim.state = "unmaterialized"
      /\ claim' = [claim EXCEPT !.state = "possible"]
      /\ UNCHANGED <<allocated, journal, incus, requests, spawned>>
  BY DEF MarkPossible, nova
<1>4. claim \in Claim /\ claim' \in Claim /\ claim'.token = t /\ claim'.state = "possible"
  BY <1>3 DEF Inv, TypeOK, NoClaim, Claim, States
<1>. HIDE DEF r
<1>. USE DEF EarlyPcs, OpenedPcs, SpawnPcs, PlainPcs, TokenPcs
<1>5. t \in Tokens /\ Unstarted(t) /\ ~Unregistered(t) /\ ~work["request"].final
  BY <1>1 DEF WorkOK
<1>6. WorkOK("request", r, claim')
  BY <1>2, <1>4, <1>5 DEF WorkOK
<1>7. \A v \in Workers : v # "request" => work[v].pc # "mark"
  BY DEF Inv, WorkInv, WorkOK
<1>8. WorkInv' /\ AttemptInv' /\ JournalInv'
  BY <1>1, <1>2, <1>3, <1>4, <1>6, <1>7, Moves
<1>9. attempt[t] # "absent"
  BY <1>3, <1>4, <1>5 DEF Inv, ClaimInv, Unregistered
<1>10. ClaimInv' /\ SafetyInv'
  <2>1. allocated
    BY <1>4 DEF Inv, ClaimInv
  <2>. QED
    BY <1>3, <1>4, <1>9, <2>1, ClaimMoves, NothingLeft
<1>. QED
  BY <1>8, <1>10

\* A possible claim commits only on a committed attempt, so no spawn stands
\* ready to create behind it.
LEMMA PromoteMoves ==
    ASSUME Inv, NEW w \in Workers, PromoteClaim(w)
    PROVE  WorkInv' /\ AttemptInv' /\ ClaimInv' /\ JournalInv' /\ SafetyInv'
<1>. DEFINE t == work[w].token
<1>1. /\ work[w] \in WorkRecord /\ WorkOK(w, work[w], claim) /\ work[w].pc = "promoting"
      /\ claim.token \in {t, NoToken}
      /\ claim' = [claim EXCEPT !.state = IF @ = "possible" THEN "committed" ELSE @]
      /\ AfterPromotion(w) /\ UNCHANGED <<allocated, journal, incus, requests, spawned>>
  BY DEF Inv, TypeOK, WorkInv, WorkRecord, PromoteClaim, At, nova
<1>2. t \in Tokens /\ attempt[t] = "committed"
  BY <1>1 DEF WorkOK, TokenPcs, PlainPcs
<1>3. CASE claim = NoClaim
  <2>1. claim' = claim /\ claim.state = "none" /\ claim.token = NoToken
    BY <1>1, <1>3 DEF NoClaim
  <2>2. PICK r \in WorkRecord :
              /\ work' = [work EXCEPT ![w] = r]
              /\ r.token \in {NoToken, claim'.token}
              /\ r.pc \in {"built", "exact", "entry", "container"}
              /\ r.pc \in {"built", "exact"} => r.token \in Tokens
              /\ r.pc = "built" => ~r.final
    BY <1>1, <2>1, <1>3, PromotionRecord DEF WorkRecord
  <2>3. /\ r.pc \notin SpawnPcs \cup {"promoting", "receipt", "record", "ack"}
        /\ r.pc \in TokenPcs => r.token \in Tokens
        /\ r.pc \in PlainPcs => ~r.final
    BY <2>2 DEF TokenPcs, PlainPcs, SpawnPcs, EarlyPcs, OpenedPcs
  <2>. QED
    BY <1>1, <2>1, <2>2, <2>3, Takes
<1>4. CASE claim # NoClaim
  <2>1. /\ claim \in Claim /\ claim.token = t /\ claim' \in Claim /\ claim'.token = t
        /\ claim'.state = IF claim.state = "possible" THEN "committed" ELSE claim.state
    BY <1>1, <1>2, <1>4, NoTokenAssumption DEF Inv, TypeOK, Claim, States
  <2>2. PICK r \in WorkRecord :
              /\ work' = [work EXCEPT ![w] = r]
              /\ r.token \in {NoToken, claim'.token}
              /\ r.pc \in {"built", "exact", "entry", "container"}
              /\ r.pc \in {"built", "exact"} => r.token \in Tokens
              /\ r.pc = "built" => ~r.final
    BY <1>1, <2>1, PromotionRecord DEF WorkRecord
  <2>3. WorkOK(w, r, claim') /\ r.pc \notin {"opening", "claim"}
    BY <2>2 DEF WorkOK, TokenPcs, PlainPcs, SpawnPcs, EarlyPcs, OpenedPcs
  <2>4. \A v \in Workers : work[v].pc # "mark"
    <3>. SUFFICES ASSUME NEW v \in Workers, work[v].pc = "mark" PROVE FALSE
      OBVIOUS
    <3>1. claim.token = work[v].token /\ Unstarted(work[v].token)
      BY DEF Inv, WorkInv, WorkOK, OpenedPcs
    <3>. QED
      BY <1>2, <2>1, <3>1 DEF Unstarted
  <2>5. WorkInv' /\ AttemptInv' /\ JournalInv'
    BY <1>1, <2>1, <2>2, <2>3, <2>4, Moves
  <2>6. container = t \/ receipt[t] # "none"
    BY <1>2 DEF Inv, AttemptInv, AttemptOK
  <2>7. \A u \in Tokens : MayMaterialize(u) =>
              allocated /\ claim.token = u /\ claim.state \in {"possible", "committed"}
    BY DEF Inv, SafetyInv, RootfsUnderClaim
  <2>8. ClaimInv' /\ SafetyInv'
    <3>1. allocated
      BY <2>1 DEF Inv, ClaimInv
    <3>. QED
      BY <1>1, <1>2, <2>1, <2>6, <2>7, <3>1, ClaimMoves
  <2>. QED
    BY <2>5, <2>8
<1>. QED
  BY <1>3, <1>4

\* The claim goes: it was still unmaterialized, or it is clean.
LEMMA Retires ==
    ASSUME Inv, NEW w \in Workers, NEW r \in WorkRecord, work' = [work EXCEPT ![w] = r],
           UNCHANGED <<incus, requests, spawned>>,
           claim' = NoClaim, claim.state \in {"none", "unmaterialized", "cleaned"},
           allocated => allocated' \/ journal' = NoJournal,
           journal' \in {journal, NoJournal},
           r.token \in {NoToken, work[w].token}, work[w].pc \notin EarlyPcs,
           r.pc \in {"idle", "entry", "cleanup", "complete", "fence", "raising", "retire"}
    PROVE  WorkInv' /\ AttemptInv' /\ ClaimInv' /\ JournalInv' /\ SafetyInv'
<1>1. WorkOK(w, r, claim') /\ r.pc \notin {"opening", "claim"}
  BY DEF WorkOK, TokenPcs, PlainPcs, SpawnPcs, EarlyPcs, OpenedPcs
<1>2. \A v \in Workers : work[v].pc # "mark"
  BY DEF Inv, WorkInv, WorkOK
<1>3. claim'.token = NoToken /\ claim'.state = "none"
  BY DEF NoClaim
<1>4. claim'.token = claim.token /\ claim.state = "cleaned" => claim'.state = "cleaned"
  BY <1>3, ClaimToken DEF Inv, NoClaim
<1>5. WorkInv' /\ AttemptInv' /\ JournalInv'
  BY <1>1, <1>2, <1>3, <1>4, Moves
<1>6. NoClaim \notin Claim
  BY NoTokenAssumption DEF NoClaim, Claim
<1>7. ClaimInv' /\ SafetyInv'
  BY <1>3, <1>6, NothingLeft, ClaimMoves
<1>. QED
  BY <1>5, <1>7

\* Abandonment, retirement by a release, and the cleanup at the end of destroy.
LEMMA RetireMoves ==
    ASSUME Inv, NEW w \in Workers,
           AbandonClaim(w) \/ CompleteRelease(w) \/ \E retire \in BOOLEAN : DestroyCleanup(retire)
    PROVE  WorkInv' /\ AttemptInv' /\ ClaimInv' /\ JournalInv' /\ SafetyInv'
<1>1. "request" \in Workers /\ \A v \in Workers : work[v] \in WorkRecord
  BY DEF Workers, Inv, TypeOK, WorkRecord
<1>2. \A v \in Workers : work[v].pc \in {"abandon", "retire", "cleanup"} => work[v].pc \notin EarlyPcs
  BY DEF EarlyPcs
<1>3. Idle \in WorkRecord /\ Idle.token = NoToken /\ Idle.pc = "idle"
  BY DEF Idle, WorkRecord, Jobs, Steps
<1>4. CASE AbandonClaim(w)
  <2>. DEFINE r == Settled(w, NoToken)
  <2>1. work[w].pc = "abandon" /\ UNCHANGED <<allocated, journal, incus, requests, spawned>>
        /\ work' = [work EXCEPT ![w] = r]
    BY <1>4 DEF AbandonClaim, At, nova, Settles
  <2>2. /\ r \in WorkRecord /\ WorkOK(w, r, claim) /\ r.token = NoToken
        /\ r.pc \in {"idle", "entry", "cleanup", "fence", "raising", "retire"}
    <3>1. /\ r \in WorkRecord /\ WorkOK(w, r, claim) /\ r.token \in {NoToken, work[w].token}
          /\ r.pc \in {"idle", "entry", "cleanup", "fence", "raising", "retire"}
      BY <1>2, <2>1, SettledRecord
    <3>2. r.token = NoToken
      BY DEF Settled, Idle
    <3>. QED
      BY <3>1, <3>2
  <2>. HIDE DEF r
  <2>3. CASE claim.state = "unmaterialized" /\ claim' = NoClaim
    BY <1>2, <2>1, <2>2, <2>3, Retires
  <2>4. CASE claim = NoClaim /\ claim' = claim
    BY <1>2, <2>1, <2>2, <2>4, Retires DEF NoClaim
  <2>. QED
    BY <1>4, <2>3, <2>4 DEF AbandonClaim
<1>5. CASE CompleteRelease(w)
  <2>1. /\ work[w].pc = "retire" /\ journal' = NoJournal /\ journal' = journal /\ claim' = NoClaim
        /\ UNCHANGED <<incus, requests, spawned>> /\ work' = [work EXCEPT ![w] = Idle]
    BY <1>5 DEF CompleteRelease, At, nova, Done, ResourcesAbsent
  <2>2. claim.state \in {"none", "cleaned"}
    BY <1>5 DEF CompleteRelease, NoClaim
  <2>. QED
    BY <1>2, <1>3, <2>1, <2>2, Retires
<1>6. ASSUME NEW retire \in BOOLEAN, DestroyCleanup(retire)
      PROVE  WorkInv' /\ AttemptInv' /\ ClaimInv' /\ JournalInv' /\ SafetyInv'
  <2>1. /\ work["request"].pc = "cleanup" /\ journal' \in {journal, NoJournal}
        /\ UNCHANGED <<allocated, incus, requests, spawned>>
    BY <1>6 DEF DestroyCleanup, At
  <2>. DEFINE s == [job |-> "release", pc |-> "complete", token |-> NoToken, final |-> FALSE]
  <2>2. s \in WorkRecord /\ s.token = NoToken /\ s.pc = "complete"
    BY DEF WorkRecord, Jobs, Steps
  <2>3. PICK r \in {Idle, s} : work' = [work EXCEPT !["request"] = r]
    <3>1. \/ work' = [work EXCEPT !["request"] = Idle]
          \/ work' = [work EXCEPT !["request"] = s]
      BY <1>6 DEF DestroyCleanup, Begin, Done
    <3>. HIDE DEF s
    <3>. QED
      BY <3>1
  <2>4. r \in WorkRecord /\ r.token = NoToken /\ r.pc \in {"idle", "complete"}
    BY <1>3, <2>2, <2>3
  <2>. HIDE DEF s
  <2>5. CASE claim.state = "cleaned" /\ claim' = NoClaim
    BY <1>1, <1>2, <2>1, <2>3, <2>4, <2>5, Retires
  <2>6. CASE claim' = claim
    <3>1. /\ r.pc \notin SpawnPcs \cup {"promoting", "receipt", "record", "ack"}
          /\ r.pc \notin TokenPcs /\ r.pc \notin PlainPcs
      BY <2>4 DEF TokenPcs, PlainPcs, SpawnPcs, EarlyPcs, OpenedPcs
    <3>. QED
      BY <1>1, <2>1, <2>3, <2>4, <2>6, <3>1, Takes
  <2>. QED
    BY <1>6, <2>5, <2>6 DEF DestroyCleanup
<1>. QED
  BY <1>4, <1>5, <1>6

\* A proof or receipt cleans the claim: what it proves is that nothing of the
\* token materializes any more.
LEMMA RecordMoves ==
    ASSUME Inv, NEW w \in Workers, RecordProof(w)
    PROVE  WorkInv' /\ AttemptInv' /\ ClaimInv' /\ JournalInv' /\ SafetyInv'
<1>. DEFINE t == work[w].token
            r == [work[w] EXCEPT !.pc = "ack"]
<1>1. /\ work[w] \in WorkRecord /\ WorkOK(w, work[w], claim) /\ work[w].pc = "record"
      /\ claim.token = t /\ work' = [work EXCEPT ![w] = r]
      /\ UNCHANGED <<allocated, journal, incus, requests, spawned>>
  BY DEF Inv, TypeOK, WorkInv, WorkRecord, RecordProof, At, Goto, nova
<1>2. r \in WorkRecord /\ r.pc = "ack" /\ r.token = t
  BY <1>1 DEF WorkRecord, Steps
<1>. HIDE DEF r
<1>. USE DEF EarlyPcs, OpenedPcs, SpawnPcs, PlainPcs, TokenPcs
<1>3. t \in Tokens /\ IF work[w].final THEN receipt[t] # "none" ELSE outcome[t] # "none"
  BY <1>1 DEF WorkOK
<1>4. claim \in Claim
  BY <1>1, <1>3, NoTokenAssumption DEF Inv, TypeOK, NoClaim
<1>5. claim' \in Claim /\ claim'.token = t /\ claim'.state = "cleaned"
  <2>1. ProofHeld(w) \in Proofs
    BY <1>3 DEF ProofHeld, Proofs, Inv, TypeOK
  <2>. QED
    BY <1>1, <1>4, <2>1 DEF RecordProof, Claim, States
<1>6. \A u \in Tokens : ~MayMaterialize(u)
  <2>1. ~MayMaterialize(t)
    BY <1>3, NothingLeft
  <2>2. \A u \in Tokens : MayMaterialize(u) => u = t
    BY <1>1 DEF Inv, SafetyInv, RootfsUnderClaim
  <2>. QED
    BY <2>1, <2>2
<1>7. \A v \in Workers : v # w /\ work[v].pc = "mark" => claim' = claim
  <2>. SUFFICES ASSUME NEW v \in Workers, work[v].pc = "mark", claim' # claim PROVE FALSE
    OBVIOUS
  <2>1. claim.token = work[v].token /\ claim.state = "possible" /\ Unstarted(work[v].token)
    BY DEF Inv, WorkInv, WorkOK
  <2>2. RequiredState(ProofHeld(w)) = "possible"
    BY <2>1 DEF RecordProof
  <2>3. ~work[w].final /\ outcome[t] = "reconciled-clean"
    BY <2>2 DEF RequiredState, ProofHeld
  <2>. QED
    BY <1>1, <2>1, <2>3 DEF Unstarted
<1>8. WorkOK(w, r, claim')
  BY <1>2, <1>3, <1>5 DEF WorkOK
<1>9. WorkInv' /\ AttemptInv' /\ JournalInv'
  BY <1>1, <1>2, <1>5, <1>7, <1>8, Moves
<1>10. ClaimInv' /\ SafetyInv'
  <2>1. allocated
    BY <1>4 DEF Inv, ClaimInv
  <2>. QED
    BY <1>1, <1>4, <1>5, <1>6, <2>1, ClaimMoves
<1>. QED
  BY <1>9, <1>10

-----------------------------------------------------------------------------
(* A new token, and its claim.                                             *)

\* The journal of a new spawn names a token nobody has used.
LEMMA PreflightMoves ==
    ASSUME Inv, NEW t \in Tokens, SpawnPreflight(t)
    PROVE  WorkInv' /\ AttemptInv' /\ ClaimInv' /\ JournalInv' /\ SafetyInv'
<1>. DEFINE r == [job |-> "spawn", pc |-> "preflight", token |-> t, final |-> FALSE]
<1>1. /\ work' = [work EXCEPT !["request"] = r] /\ t \notin spawned
      /\ journal'.phase = "preflight" /\ journal'.token = t
      /\ spawned' = spawned \cup {t} /\ UNCHANGED <<allocated, claim, incus, requests>>
  BY DEF SpawnPreflight, Begin, registry
<1>2. r.pc = "preflight" /\ r.token = t /\ r.final = FALSE
  OBVIOUS
<1>3. "request" \in Workers /\ \A v \in Workers : work'[v] = IF v = "request" THEN r ELSE work[v]
  BY <1>1 DEF Inv, TypeOK, Workers
<1>. HIDE DEF r
<1>4. Fresh(t)
  BY <1>1 DEF Inv, JournalInv
<1>5. \A u \in Tokens : Fresh(u) => Fresh(u)'
  BY <1>1, <1>2, <1>3, FreshStays DEF Inv, incus, EarlyPcs, Fresh
<1>6. WorkInv'
  <2>. SUFFICES ASSUME NEW v \in Workers PROVE WorkOK(v, work[v], claim)'
    BY DEF WorkInv
  <2>1. CASE v = "request"
    BY <1>2, <1>3, <1>4, <1>5, <2>1
    DEF WorkOK, TokenPcs, PlainPcs, SpawnPcs, EarlyPcs, OpenedPcs
  <2>2. CASE v # "request"
    <3>1. WorkOK(v, work[v], claim) /\ work'[v] = work[v]
      BY <1>3, <2>2 DEF Inv, WorkInv
    <3>. QED
      BY <1>1, <2>2, <3>1 DEF WorkOK, SpawnPcs, Unstarted, Unregistered, incus
  <2>. QED
    BY <2>1, <2>2
<1>7. AttemptInv' /\ ClaimInv'
  BY <1>1 DEF Inv, AttemptInv, AttemptOK, ClaimInv, Unregistered, incus
<1>8. SafetyInv'
  BY <1>1 DEF Inv, SafetyInv, RootfsUnderClaim, EvidenceOutlivesClaim, MayMaterialize, incus
<1>9. JournalInv'
  <2>1. Fresh(journal.token)'
    BY <1>1, <1>4, <1>5
  <2>2. ASSUME NEW v \in Workers PROVE work'[v].pc \notin {"opening", "claim"}
    BY <1>2, <1>3 DEF Inv, WorkInv, WorkOK, SpawnPcs, EarlyPcs
  <2>3. ASSUME NEW u \in Tokens \ spawned'
        PROVE  Fresh(u)' /\ journal'.token # u /\ \A v \in Workers : work'[v].token # u
    BY <1>1, <1>2, <1>3, <1>5 DEF Inv, JournalInv
  <2>. QED
    BY <2>1, <2>2, <2>3 DEF JournalInv
<1>. QED
  BY <1>6, <1>7, <1>8, <1>9

\* The claim replaces one that is gone or clean, so nothing loses its cover.
LEMMA ClaimBegins ==
    ASSUME Inv, BeginClaim
    PROVE  WorkInv' /\ AttemptInv' /\ ClaimInv' /\ JournalInv' /\ SafetyInv'
<1>. DEFINE t == work["request"].token
            r == [work["request"] EXCEPT !.pc = "register"]
<1>1. /\ "request" \in Workers /\ work["request"] \in WorkRecord
      /\ WorkOK("request", work["request"], claim) /\ work["request"].pc = "claim"
  BY DEF Workers, Inv, TypeOK, WorkInv, WorkRecord, BeginClaim, At
<1>2. /\ claim' = [token |-> t, state |-> "unmaterialized", proof |-> "none"]
      /\ requests' = requests \cup {<<"register", t>>}
      /\ allocated /\ allocated' = allocated
      /\ claim.state \in {"none", "cleaned"}
      /\ UNCHANGED <<journal, spawned, incus>>
      /\ work' = [work EXCEPT !["request"] = r]
  BY DEF BeginClaim, Replaceable, NoClaim, nova, Goto
<1>3. claim'.token = t /\ claim'.state = "unmaterialized"
  BY <1>2
<1>4. r.pc = "register" /\ r.token = t /\ r.final = work["request"].final
  BY <1>1 DEF WorkRecord
<1>5. \A v \in Workers : work'[v] = IF v = "request" THEN r ELSE work[v]
  BY <1>2 DEF Inv, TypeOK
<1>. HIDE DEF r
<1>6. t \in Tokens /\ Fresh(t) /\ ~work["request"].final
  BY <1>1 DEF WorkOK, TokenPcs, PlainPcs, SpawnPcs, EarlyPcs
<1>7. \A u \in Tokens : Fresh(u) /\ u # t => Fresh(u)'
  <2>. SUFFICES ASSUME NEW u \in Tokens, Fresh(u), u # t PROVE Fresh(u)'
    OBVIOUS
  <2>1. r.token # u /\ claim'.token # u
    BY <1>3, <1>4
  <2>2. \A kind \in {"register", "create", "delete"} :
              <<kind, u>> \in requests' => <<kind, u>> \in requests
    BY <1>2
  <2>. QED
    BY <1>1, <1>2, <2>1, <2>2, FreshStays DEF Inv, incus
<1>8. WorkInv'
  <2>. SUFFICES ASSUME NEW v \in Workers PROVE WorkOK(v, work[v], claim)'
    BY DEF WorkInv
  <2>1. CASE v = "request"
    <3>1. Unstarted(t)'
      <4>1. t' = t
        BY <1>1, <1>4, <1>5
      <4>. QED
        BY <1>2, <1>6, <4>1 DEF Fresh, Unregistered, Unstarted, incus
    <3>. QED
      BY <1>4, <1>5, <1>6, <2>1, <3>1
      DEF WorkOK, TokenPcs, PlainPcs, SpawnPcs, EarlyPcs, OpenedPcs
  <2>2. CASE v # "request"
    <3>1. WorkOK(v, work[v], claim) /\ work'[v] = work[v]
      BY <1>5, <2>2 DEF Inv, WorkInv
    <3>2. work[v].token = t => work[v].pc \in EarlyPcs
      BY <1>6 DEF Fresh
    <3>. QED
      BY <1>2, <1>3, <2>2, <3>1, <3>2 DEF WorkOK, EarlyPcs, SpawnPcs, OpenedPcs, incus
  <2>. QED
    BY <2>1, <2>2
<1>9. AttemptInv'
  BY <1>2, <1>6 DEF Inv, AttemptInv, AttemptOK, Fresh, Unregistered, incus
<1>10. ClaimInv'
  BY <1>2, <1>3, <1>6 DEF ClaimInv, Fresh, Unregistered, incus
<1>11. SafetyInv'
  <2>1. \A u \in Tokens : ~MayMaterialize(u)
    BY <1>2, NothingLeft
  <2>2. \A u \in Tokens : ~MayMaterialize(u)'
    BY <1>2, <2>1 DEF MayMaterialize, incus
  <2>. QED
    BY <1>3, <2>2 DEF SafetyInv, RootfsUnderClaim, EvidenceOutlivesClaim
<1>12. JournalInv'
  <2>1. ASSUME journal' # NoJournal, journal'.phase = "preflight" \/ ~allocated'
        PROVE  Fresh(journal.token)'
    <3>1. journal.token \in Tokens
      BY <1>2, <2>1 DEF Inv, TypeOK, Journal
    <3>2. journal.token # t
      BY <1>1, <1>2, <2>1 DEF Inv, JournalInv
    <3>. QED
      BY <1>2, <1>7, <2>1, <3>1, <3>2 DEF Inv, JournalInv
  <2>2. ASSUME NEW v \in Workers PROVE work'[v].pc \notin {"opening", "claim"}
    BY <1>4, <1>5 DEF Inv, WorkInv, WorkOK, SpawnPcs, EarlyPcs
  <2>3. ASSUME NEW u \in Tokens \ spawned
        PROVE  Fresh(u)' /\ journal'.token # u /\ \A v \in Workers : work'[v].token # u
    BY <1>1, <1>2, <1>4, <1>5, <1>7 DEF Inv, JournalInv
  <2>. QED
    BY <1>2, <2>1, <2>2, <2>3 DEF JournalInv
<1>. QED
  BY <1>8, <1>9, <1>10, <1>11, <1>12

-----------------------------------------------------------------------------
(* Steps that change the evidence of one token.                            *)

\* What the others may rely on.  Worker w acts, or Incus does: the evidence of
\* one token changes, and only forwards.
LEMMA OthersRely ==
    ASSUME Inv, NEW t \in Tokens, NEW w \in Workers \cup {"incus"}, ~Fresh(t),
           UNCHANGED <<claim, allocated, journal, spawned>>,
           \A v \in Workers : v # w => work'[v] = work[v],
           w \in Workers =>
              work'[w].token \in {NoToken, t} /\ work'[w].pc \notin EarlyPcs,
           \A u \in Tokens : u # t =>
              /\ attempt'[u] = attempt[u] /\ outcome'[u] = outcome[u] /\ receipt'[u] = receipt[u]
              /\ \A kind \in {"register", "create", "delete"} :
                    <<kind, u>> \in requests' => <<kind, u>> \in requests,
           ~Unregistered(t) => ~Unregistered(t)',
           attempt[t] = "committed" => attempt'[t] = "committed",
           outcome[t] # "none" => outcome'[t] # "none",
           receipt[t] # "none" => receipt'[t] # "none",
           Unstarted(t) => Unstarted(t)' \/ w = "request"
    PROVE  JournalInv' /\ \A v \in Workers : v # w => WorkOK(v, work[v], claim)'
<1>1. \A u \in Tokens : Fresh(u) => Fresh(u)'
  <2>. SUFFICES ASSUME NEW u \in Tokens, Fresh(u) PROVE Fresh(u)'
    OBVIOUS
  <2>1. u # t /\ u # NoToken
    BY NoTokenAssumption
  <2>2. Unregistered(u)' /\ receipt'[u] = "none" /\ claim'.token # u
    BY <2>1 DEF Fresh, Unregistered
  <2>3. \A kind \in {"register", "create", "delete"} : <<kind, u>> \notin requests'
    BY <2>1 DEF Fresh
  <2>4. \A v \in Workers : work'[v].token = u => work'[v].pc \in EarlyPcs
    BY <2>1 DEF Fresh
  <2>. QED
    BY <2>2, <2>3, <2>4 DEF Fresh
<1>2. JournalInv'
  <2>1. journal # NoJournal => journal.token \in Tokens
    BY DEF Inv, TypeOK, Journal
  <2>2. ASSUME journal' # NoJournal, journal'.phase = "preflight" \/ ~allocated'
        PROVE  Fresh(journal.token)'
    BY <1>1, <2>1, <2>2 DEF Inv, JournalInv
  <2>3. ASSUME NEW v \in Workers, work'[v].pc \in {"opening", "claim"}
        PROVE  ~(journal'.phase = "preflight" /\ journal'.token = work'[v].token)
    BY <2>3 DEF Inv, JournalInv, EarlyPcs
  <2>4. ASSUME NEW u \in Tokens \ spawned
        PROVE  Fresh(u)' /\ journal'.token # u /\ \A v \in Workers : work'[v].token # u
    BY <1>1, NoTokenAssumption DEF Inv, JournalInv
  <2>. QED
    BY <2>2, <2>3, <2>4 DEF JournalInv
<1>3. ASSUME NEW v \in Workers, v # w PROVE WorkOK(v, work[v], claim)'
  <2>1. WorkOK(v, work[v], claim) /\ work'[v] = work[v] /\ claim' = claim
    BY <1>3 DEF Inv, WorkInv
  <2>2. work[v].pc \in TokenPcs \cup {"promoting", "record"} => work[v].token \in Tokens
    BY <2>1 DEF WorkOK, TokenPcs, PlainPcs
  <2>3. work[v].pc \in EarlyPcs => Fresh(work[v].token)'
    BY <1>1, <2>1, <2>2 DEF WorkOK, TokenPcs, PlainPcs, SpawnPcs
  <2>4. work[v].pc \in OpenedPcs \cup {"register"} => Unstarted(work[v].token)'
    <3>. SUFFICES ASSUME work[v].pc \in OpenedPcs \cup {"register"}
                  PROVE  Unstarted(work[v].token)'
      OBVIOUS
    <3>1. work[v].token \in Tokens /\ Unstarted(work[v].token) /\ v = "request"
      BY <2>1, <2>2 DEF WorkOK, TokenPcs, PlainPcs, SpawnPcs
    <3>2. CASE work[v].token = t
      BY <1>3, <2>1, <3>1, <3>2
    <3>3. CASE work[v].token # t
      BY <2>1, <3>1, <3>3 DEF Unstarted
    <3>. QED
      BY <3>2, <3>3
  <2>5. work[v].pc \in OpenedPcs => ~Unregistered(work[v].token)'
    <3>. SUFFICES ASSUME work[v].pc \in OpenedPcs PROVE ~Unregistered(work[v].token)'
      OBVIOUS
    <3>1. work[v].token \in Tokens /\ ~Unregistered(work[v].token)
      BY <2>1, <2>2 DEF WorkOK, TokenPcs, PlainPcs, SpawnPcs
    <3>2. CASE work[v].token = t
      BY <2>1, <3>1, <3>2
    <3>3. CASE work[v].token # t
      BY <2>1, <3>1, <3>3 DEF Unregistered
    <3>. QED
      BY <3>2, <3>3
  <2>6. work[v].pc = "promoting" => attempt'[work[v].token] = "committed"
    BY <2>1, <2>2 DEF WorkOK
  <2>7. work[v].pc = "record" =>
           IF work[v].final THEN receipt'[work[v].token] # "none"
           ELSE outcome'[work[v].token] # "none"
    BY <2>1, <2>2 DEF WorkOK
  <2>. QED
    BY <2>1, <2>3, <2>4, <2>5, <2>6, <2>7 DEF WorkOK
<1>. QED
  BY <1>2, <1>3

\* What the claim stands for when the evidence of one token changes.
LEMMA ClaimStands ==
    ASSUME Inv, NEW t \in Tokens, UNCHANGED <<claim, allocated>>,
           \A u \in Tokens : u # t =>
              /\ attempt'[u] = attempt[u] /\ outcome'[u] = outcome[u] /\ receipt'[u] = receipt[u]
              /\ container = u => container' = u,
           claim.token = t /\ claim.state # "cleaned" =>
              /\ attempt'[t] # "retired" /\ receipt'[t] # "acked"
              /\ attempt'[t] = "absent" => attempt[t] = "absent" /\ outcome'[t] = outcome[t]
              /\ attempt[t] = "committed" => attempt'[t] = "committed"
              /\ container = t \/ receipt[t] = "issued" => container' = t \/ receipt'[t] = "issued",
           \A u \in Tokens : MayMaterialize(u)' =>
              \/ MayMaterialize(u)
              \/ claim.token = u /\ claim.state \in {"possible", "committed"}
    PROVE  ClaimInv' /\ SafetyInv'
<1>1. claim \in Claim \/ claim.state = "none"
  BY DEF Inv, TypeOK, NoClaim
<1>2. claim \in Claim => claim.token \in Tokens
  BY DEF Claim
<1>3. claim.token \in Tokens => claim \in Claim
  BY NoTokenAssumption DEF Inv, TypeOK, NoClaim
<1>4. ClaimInv'
  BY <1>2 DEF Inv, ClaimInv
<1>5. EvidenceOutlivesClaim'
  BY <1>1, <1>2 DEF Inv, SafetyInv, EvidenceOutlivesClaim
<1>6. RootfsUnderClaim'
  <2>. SUFFICES ASSUME NEW u \in Tokens, MayMaterialize(u)'
                PROVE  allocated /\ claim.token = u /\ claim.state \in {"possible", "committed"}
    BY DEF RootfsUnderClaim
  <2>1. claim.token = u /\ claim.state \in {"possible", "committed"}
    BY DEF Inv, SafetyInv, RootfsUnderClaim
  <2>2. allocated
    BY <1>3, <2>1 DEF Inv, ClaimInv
  <2>. QED
    BY <2>1, <2>2
<1>. QED
  BY <1>4, <1>5, <1>6 DEF SafetyInv

\* The invariants from their parts.
LEMMA Parts ==
    ASSUME NEW w \in Workers, WorkOK(w, work[w], claim)',
           \A v \in Workers : v # w => WorkOK(v, work[v], claim)'
    PROVE  WorkInv'
BY DEF WorkInv

\* The create request goes out while the claim is possible.
LEMMA PostMoves ==
    ASSUME Inv, PostCreate
    PROVE  WorkInv' /\ AttemptInv' /\ ClaimInv' /\ JournalInv' /\ SafetyInv'
<1>1. PICK t : t = work["request"].token
  OBVIOUS
<1>2. /\ "request" \in Workers /\ work["request"] \in WorkRecord
      /\ WorkOK("request", work["request"], claim) /\ work["request"].pc = "mark"
  BY DEF Workers, Inv, TypeOK, WorkInv, WorkRecord, PostCreate, At
<1>3. /\ requests' = requests \cup {<<"create", t>>}
      /\ UNCHANGED <<allocated, claim, journal, spawned, attempt, outcome, receipt, operations,
                     container, rootfs>>
      /\ work' = [work EXCEPT !["request"].pc = "create"]
  BY <1>1 DEF PostCreate, Goto, registry, nova, incus
<1>4. /\ work'["request"].pc = "create" /\ work'["request"].token = t
      /\ work'["request"].final = work["request"].final
      /\ \A v \in Workers : v # "request" => work'[v] = work[v]
  BY <1>1, <1>2, <1>3 DEF WorkRecord, Inv, TypeOK
<1>5. /\ t \in Tokens /\ ~work["request"].final /\ ~Unregistered(t)
      /\ claim.token = t /\ claim.state = "possible"
  BY <1>1, <1>2 DEF WorkOK, TokenPcs, PlainPcs, SpawnPcs, OpenedPcs
<1>6. WorkOK("request", work["request"], claim)'
  BY <1>4, <1>5 DEF WorkOK, TokenPcs, PlainPcs, SpawnPcs, EarlyPcs, OpenedPcs
<1>7. JournalInv' /\ \A v \in Workers : v # "request" => WorkOK(v, work[v], claim)'
  <2>1. ~Fresh(t)
    BY <1>5 DEF Fresh
  <2>2. \A u \in Tokens : u # t => \A kind \in {"register", "create", "delete"} :
                    <<kind, u>> \in requests' => <<kind, u>> \in requests
    BY <1>3
  <2>3. ~Unregistered(t)'
    BY <1>3, <1>5 DEF Unregistered
  <2>4. work'["request"].pc \notin EarlyPcs
    BY <1>4 DEF EarlyPcs
  <2>. QED
    BY <1>2, <1>3, <1>4, <1>5, <2>1, <2>2, <2>3, <2>4, OthersRely
<1>8. AttemptInv'
  BY <1>3, <1>5 DEF Inv, AttemptInv, AttemptOK, Unregistered
<1>9. ClaimInv' /\ SafetyInv'
  <2>1. \A u \in Tokens : u # t /\ MayMaterialize(u)' => MayMaterialize(u)
    BY <1>3 DEF MayMaterialize
  <2>2. claim.token = t /\ claim.state # "cleaned" => attempt[t] # "retired" /\ receipt[t] # "acked"
    BY <1>5, NoTokenAssumption DEF Inv, ClaimInv, TypeOK, NoClaim
  <2>. QED
    BY <1>3, <1>5, <2>1, <2>2, ClaimStands
<1>. QED
  BY <1>2, <1>6, <1>7, <1>8, <1>9, Parts

\* The delete request adds nothing that could materialize.
LEMMA DeleteMoves ==
    ASSUME Inv, DeleteWithReceipt
    PROVE  WorkInv' /\ AttemptInv' /\ ClaimInv' /\ JournalInv' /\ SafetyInv'
<1>1. PICK t : t = work["request"].token
  OBVIOUS
<1>2. /\ "request" \in Workers /\ work["request"] \in WorkRecord
      /\ work["request"].pc \in {"container", "built"}
  BY DEF Workers, Inv, TypeOK, WorkRecord, DeleteWithReceipt, At
<1>3. /\ requests' = requests \cup {<<"delete", t>>}
      /\ UNCHANGED <<allocated, claim, journal, spawned, attempt, outcome, receipt, operations,
                     container, rootfs>>
      /\ work' = [work EXCEPT !["request"].pc = "deleting"]
      /\ claim.token = t /\ container = t /\ container # NoToken
  BY <1>1 DEF DeleteWithReceipt, Goto, registry, nova, incus
<1>4. /\ work'["request"].pc = "deleting" /\ work'["request"].token = t
      /\ \A v \in Workers : v # "request" => work'[v] = work[v]
  BY <1>1, <1>2, <1>3 DEF WorkRecord, Inv, TypeOK
<1>5. t \in Tokens /\ attempt[t] = "committed"
  BY <1>3 DEF Inv, TypeOK, AttemptInv, AttemptOK
<1>6. WorkOK("request", work["request"], claim)'
  BY <1>4, <1>5 DEF WorkOK, TokenPcs, PlainPcs, SpawnPcs, EarlyPcs, OpenedPcs
<1>7. JournalInv' /\ \A v \in Workers : v # "request" => WorkOK(v, work[v], claim)'
  <2>1. ~Fresh(t)
    BY <1>3 DEF Fresh
  <2>2. \A u \in Tokens : u # t => \A kind \in {"register", "create", "delete"} :
                    <<kind, u>> \in requests' => <<kind, u>> \in requests
    BY <1>3
  <2>3. ~Unregistered(t)'
    BY <1>3, <1>5 DEF Unregistered
  <2>4. work'["request"].pc \notin EarlyPcs
    BY <1>4 DEF EarlyPcs
  <2>. QED
    BY <1>2, <1>3, <1>4, <1>5, <2>1, <2>2, <2>3, <2>4, OthersRely
<1>8. AttemptInv'
  BY <1>3, <1>5 DEF Inv, AttemptInv, AttemptOK, Unregistered
<1>9. ClaimInv' /\ SafetyInv'
  <2>1. \A u \in Tokens : MayMaterialize(u)' => MayMaterialize(u)
    BY <1>3 DEF MayMaterialize
  <2>2. claim.token = t /\ claim.state # "cleaned" => attempt[t] # "retired" /\ receipt[t] # "acked"
    BY <1>5, NoTokenAssumption DEF Inv, ClaimInv, TypeOK, NoClaim
  <2>. QED
    BY <1>3, <1>5, <2>1, <2>2, ClaimStands
<1>. QED
  BY <1>2, <1>6, <1>7, <1>8, <1>9, Parts

\* An abort fences the attempt: at once, or for when its operation has ended.
LEMMA AbortMoves ==
    ASSUME Inv, NEW w \in Workers, AbortAttempt(w)
    PROVE  WorkInv' /\ AttemptInv' /\ ClaimInv' /\ JournalInv' /\ SafetyInv'
<1>1. PICK t : t = work[w].token
  OBVIOUS
<1>2. /\ work[w] \in WorkRecord /\ WorkOK(w, work[w], claim) /\ work[w].pc = "abort"
  BY DEF Inv, TypeOK, WorkInv, WorkRecord, AbortAttempt, At
<1>3. t \in Tokens /\ ~work[w].final
  BY <1>1, <1>2 DEF WorkOK, TokenPcs, PlainPcs
<1>4. /\ attempt[t] \notin {"committed", "absent"}
      /\ attempt' = [attempt EXCEPT ![t] = CASE @ = "active"  -> "proven"
                                             [] @ = "started" -> "aborting"
                                             [] OTHER         -> @]
      /\ outcome' = [outcome EXCEPT ![t] =
                       IF attempt[t] = "active" THEN "not-materialized" ELSE @]
      /\ work' = [work EXCEPT ![w].pc = IF attempt'[t] = "aborting" THEN "settle" ELSE "record"]
      /\ UNCHANGED <<allocated, claim, journal, spawned, requests, receipt, operations, container,
                     rootfs>>
  BY <1>1 DEF AbortAttempt, Goto, registry, nova
<1>5. /\ attempt'[t] = CASE attempt[t] = "active"  -> "proven"
                         [] attempt[t] = "started" -> "aborting"
                         [] OTHER                  -> attempt[t]
      /\ outcome'[t] = IF attempt[t] = "active" THEN "not-materialized" ELSE outcome[t]
      /\ \A u \in Tokens : u # t => attempt'[u] = attempt[u] /\ outcome'[u] = outcome[u]
  BY <1>3, <1>4 DEF Inv, TypeOK
<1>6. /\ work'[w].pc = IF attempt'[t] = "aborting" THEN "settle" ELSE "record"
      /\ work'[w].token = t /\ work'[w].final = work[w].final
      /\ \A v \in Workers : v # w => work'[v] = work[v]
  BY <1>1, <1>2, <1>4 DEF WorkRecord, Inv, TypeOK
<1>7. attempt[t] \in {"active", "started", "aborting", "proven", "retired"}
  BY <1>3, <1>4 DEF Inv, TypeOK
<1>8. /\ attempt[t] \in {"proven", "retired"} => outcome[t] # "none"
      /\ attempt[t] \in {"active", "started", "aborting", "committed"} => outcome[t] = "none"
  BY <1>3 DEF Inv, AttemptInv, AttemptOK
<1>9. WorkOK(w, work[w], claim)'
  <2>1. attempt'[t] # "aborting" => outcome'[t] # "none"
    BY <1>5, <1>7, <1>8
  <2>2. work'[w].pc = "record" => outcome'[t] # "none"
    BY <1>6, <2>1
  <2>3. work'[w].pc \in {"settle", "record"}
    BY <1>6
  <2>. QED
    BY <1>3, <1>6, <2>2, <2>3 DEF WorkOK, TokenPcs, PlainPcs, SpawnPcs, EarlyPcs, OpenedPcs
<1>10. JournalInv' /\ \A v \in Workers : v # w => WorkOK(v, work[v], claim)'
  <2>1. ~Fresh(t) /\ ~Unregistered(t)'
    BY <1>4, <1>5, <1>7 DEF Fresh, Unregistered
  <2>2. Unstarted(t) => Unstarted(t)'
    BY <1>4, <1>5, <1>7 DEF Unstarted
  <2>3. work'[w].pc \notin EarlyPcs
    BY <1>6 DEF EarlyPcs
  <2>4. outcome[t] # "none" => outcome'[t] # "none"
    BY <1>5
  <2>. QED
    BY <1>3, <1>4, <1>5, <1>6, <2>1, <2>2, <2>3, <2>4, OthersRely
<1>11. AttemptInv'
  <2>. SUFFICES ASSUME NEW u \in Tokens PROVE AttemptOK(u)'
    BY DEF AttemptInv
  <2>1. CASE u # t
    BY <1>4, <1>5, <2>1 DEF Inv, AttemptInv, AttemptOK, Unregistered
  <2>2. CASE u = t
    BY <1>4, <1>5, <1>7, <1>8, <2>2 DEF Inv, AttemptInv, AttemptOK, Unregistered
  <2>. QED
    BY <2>1, <2>2
<1>12. ClaimInv' /\ SafetyInv'
  <2>1. \A u \in Tokens : MayMaterialize(u)' => MayMaterialize(u)
    BY <1>4, <1>5 DEF MayMaterialize
  <2>2. claim.token = t /\ claim.state # "cleaned" => attempt[t] # "retired" /\ receipt[t] # "acked"
    BY <1>3, NoTokenAssumption DEF Inv, ClaimInv, TypeOK, NoClaim
  <2>. QED
    BY <1>3, <1>4, <1>5, <1>7, <2>1, <2>2, ClaimStands
<1>. QED
  BY <1>9, <1>10, <1>11, <1>12, Parts

\* Settling turns an aborted attempt into a proof, and takes its storage.
LEMMA SettleMoves ==
    ASSUME Inv, NEW w \in Workers, SettleAttempt(w)
    PROVE  WorkInv' /\ AttemptInv' /\ ClaimInv' /\ JournalInv' /\ SafetyInv'
<1>1. PICK t : t = work[w].token
  OBVIOUS
<1>2. /\ work[w] \in WorkRecord /\ WorkOK(w, work[w], claim) /\ work[w].pc = "settle"
  BY DEF Inv, TypeOK, WorkInv, WorkRecord, SettleAttempt, At
<1>3. t \in Tokens /\ ~work[w].final
  BY <1>1, <1>2 DEF WorkOK, TokenPcs, PlainPcs
<1>4. /\ attempt[t] \in {"aborting", "proven", "retired"} /\ t \notin operations
      /\ attempt' = [attempt EXCEPT ![t] = IF @ = "aborting" THEN "proven" ELSE @]
      /\ outcome' = [outcome EXCEPT ![t] =
                       IF attempt[t] = "aborting" THEN "reconciled-clean" ELSE @]
      /\ rootfs' = rootfs \ {t}
      /\ work' = [work EXCEPT ![w].pc = "record"]
      /\ UNCHANGED <<allocated, claim, journal, spawned, requests, receipt, operations, container>>
  BY <1>1 DEF SettleAttempt, Goto, registry, nova
<1>5. /\ attempt'[t] = IF attempt[t] = "aborting" THEN "proven" ELSE attempt[t]
      /\ outcome'[t] = IF attempt[t] = "aborting" THEN "reconciled-clean" ELSE outcome[t]
      /\ \A u \in Tokens : u # t => attempt'[u] = attempt[u] /\ outcome'[u] = outcome[u]
  BY <1>3, <1>4 DEF Inv, TypeOK
<1>6. /\ work'[w].pc = "record" /\ work'[w].token = t /\ work'[w].final = work[w].final
      /\ \A v \in Workers : v # w => work'[v] = work[v]
  BY <1>1, <1>2, <1>4 DEF WorkRecord, Inv, TypeOK
<1>7. attempt[t] \in {"proven", "retired"} => outcome[t] # "none"
  BY <1>3 DEF Inv, AttemptInv, AttemptOK
<1>8. outcome'[t] # "none" /\ attempt'[t] \in {"proven", "retired"}
  BY <1>4, <1>5, <1>7
<1>9. WorkOK(w, work[w], claim)'
  BY <1>3, <1>6, <1>8 DEF WorkOK, TokenPcs, PlainPcs, SpawnPcs, EarlyPcs, OpenedPcs
<1>10. JournalInv' /\ \A v \in Workers : v # w => WorkOK(v, work[v], claim)'
  <2>1. ~Fresh(t) /\ ~Unregistered(t)'
    BY <1>4, <1>8 DEF Fresh, Unregistered
  <2>2. Unstarted(t) => Unstarted(t)'
    BY <1>4, <1>5 DEF Unstarted
  <2>3. work'[w].pc \notin EarlyPcs
    BY <1>6 DEF EarlyPcs
  <2>. QED
    BY <1>3, <1>4, <1>5, <1>6, <1>8, <2>1, <2>2, <2>3, OthersRely
<1>11. AttemptInv'
  <2>. SUFFICES ASSUME NEW u \in Tokens PROVE AttemptOK(u)'
    BY DEF AttemptInv
  <2>1. CASE u # t
    BY <1>4, <1>5, <2>1 DEF Inv, AttemptInv, AttemptOK, Unregistered
  <2>2. CASE u = t
    BY <1>4, <1>5, <1>8, <2>2 DEF Inv, AttemptInv, AttemptOK, Unregistered
  <2>. QED
    BY <2>1, <2>2
<1>12. ClaimInv' /\ SafetyInv'
  <2>1. \A u \in Tokens : MayMaterialize(u)' => MayMaterialize(u)
    BY <1>4, <1>5 DEF MayMaterialize
  <2>2. claim.token = t /\ claim.state # "cleaned" => attempt[t] # "retired" /\ receipt[t] # "acked"
    BY <1>3, NoTokenAssumption DEF Inv, ClaimInv, TypeOK, NoClaim
  <2>. QED
    BY <1>3, <1>4, <1>5, <2>1, <2>2, ClaimStands
<1>. QED
  BY <1>9, <1>10, <1>11, <1>12, Parts

\* Evidence is retired only once the claim it concerns is clean or gone.
LEMMA AckMoves ==
    ASSUME Inv, NEW w \in Workers, Acknowledge(w)
    PROVE  WorkInv' /\ AttemptInv' /\ ClaimInv' /\ JournalInv' /\ SafetyInv'
<1>1. PICK t : t = work[w].token
  OBVIOUS
<1>2. /\ work[w] \in WorkRecord /\ WorkOK(w, work[w], claim) /\ work[w].pc = "ack"
  BY DEF Inv, TypeOK, WorkInv, WorkRecord, Acknowledge, At
<1>3. t \in Tokens /\ (claim.token = t => claim.state = "cleaned")
  BY <1>1, <1>2 DEF WorkOK, TokenPcs
<1>4. /\ attempt' = [attempt EXCEPT ![t] = IF @ = "proven" THEN "retired" ELSE @]
      /\ receipt' = [receipt EXCEPT ![t] = IF @ = "issued" THEN "acked" ELSE @]
      /\ work' = [work EXCEPT ![w] = Settled(w, t)]
      /\ UNCHANGED <<allocated, claim, journal, spawned, requests, outcome, operations, container,
                     rootfs>>
  BY <1>1 DEF Acknowledge, Settles, registry, nova
<1>5. /\ attempt'[t] = IF attempt[t] = "proven" THEN "retired" ELSE attempt[t]
      /\ receipt'[t] = IF receipt[t] = "issued" THEN "acked" ELSE receipt[t]
      /\ \A u \in Tokens : u # t => attempt'[u] = attempt[u] /\ receipt'[u] = receipt[u]
  BY <1>3, <1>4 DEF Inv, TypeOK
<1>6. /\ Settled(w, t).token \in {NoToken, t}
      /\ Settled(w, t).pc \in {"idle", "entry", "cleanup", "fence", "raising", "retire"}
  BY <1>1, <1>2, SettledRecord DEF EarlyPcs
<1>7. /\ work'[w].token \in {NoToken, t}
      /\ work'[w].pc \in {"idle", "entry", "cleanup", "fence", "raising", "retire"}
      /\ \A v \in Workers : v # w => work'[v] = work[v]
  BY <1>4, <1>6 DEF Inv, TypeOK
<1>8. WorkOK(w, work[w], claim)'
  BY <1>7 DEF WorkOK, TokenPcs, PlainPcs, SpawnPcs, EarlyPcs, OpenedPcs
<1>9. JournalInv' /\ \A v \in Workers : v # w => WorkOK(v, work[v], claim)'
  <2>1. ~Fresh(t)
    BY <1>1, <1>2 DEF Fresh, EarlyPcs
  <2>2. ~Unregistered(t) => ~Unregistered(t)'
    BY <1>4, <1>5 DEF Unregistered
  <2>3. Unstarted(t) => Unstarted(t)'
    BY <1>4, <1>5 DEF Unstarted
  <2>4. work'[w].pc \notin EarlyPcs
    BY <1>7 DEF EarlyPcs
  <2>5. /\ attempt[t] = "committed" => attempt'[t] = "committed"
        /\ receipt[t] # "none" => receipt'[t] # "none"
    BY <1>5
  <2>. QED
    BY <1>3, <1>4, <1>5, <1>7, <2>1, <2>2, <2>3, <2>4, <2>5, OthersRely
<1>10. AttemptInv'
  <2>. SUFFICES ASSUME NEW u \in Tokens PROVE AttemptOK(u)'
    BY DEF AttemptInv
  <2>1. CASE u # t
    BY <1>4, <1>5, <2>1 DEF Inv, AttemptInv, AttemptOK, Unregistered
  <2>2. CASE u = t
    BY <1>4, <1>5, <2>2 DEF Inv, AttemptInv, AttemptOK, Unregistered
  <2>. QED
    BY <2>1, <2>2
<1>11. ClaimInv' /\ SafetyInv'
  <2>1. \A u \in Tokens : MayMaterialize(u)' => MayMaterialize(u)
    BY <1>4, <1>5 DEF MayMaterialize
  <2>. QED
    BY <1>3, <1>4, <1>5, <2>1, ClaimStands
<1>. QED
  BY <1>8, <1>9, <1>10, <1>11, Parts

-----------------------------------------------------------------------------
(* Incus.                                                                  *)

\* A step of Incus moves one token's attempt, storage and receipt forward.
LEMMA IncusMoves ==
    ASSUME Inv, NEW t \in Tokens, ~Fresh(t),
           UNCHANGED <<claim, allocated, journal, spawned, work>>,
           \A u \in Tokens : u # t =>
              /\ attempt'[u] = attempt[u] /\ outcome'[u] = outcome[u] /\ receipt'[u] = receipt[u]
              /\ container = u <=> container' = u
              /\ u \in operations' => u \in operations
              /\ u \in rootfs' => u \in rootfs,
           requests' \subseteq requests,
           ~Unregistered(t) => ~Unregistered(t)',
           attempt[t] = "committed" => attempt'[t] = "committed",
           outcome[t] # "none" => outcome'[t] # "none",
           receipt[t] # "none" => receipt'[t] # "none",
           Unstarted(t) => Unstarted(t)',
           AttemptOK(t)',
           claim.token = t /\ claim.state # "cleaned" =>
              /\ attempt'[t] # "retired" /\ receipt'[t] # "acked"
              /\ attempt'[t] = "absent" => attempt[t] = "absent" /\ outcome'[t] = outcome[t]
              /\ container = t \/ receipt[t] = "issued" => container' = t \/ receipt'[t] = "issued",
           MayMaterialize(t)' => MayMaterialize(t)
    PROVE  WorkInv' /\ AttemptInv' /\ ClaimInv' /\ JournalInv' /\ SafetyInv'
<1>1. "incus" \notin Workers
  BY DEF Workers
<1>2. JournalInv' /\ \A v \in Workers : WorkOK(v, work[v], claim)'
  BY <1>1, OthersRely
<1>3. AttemptInv'
  <2>. SUFFICES ASSUME NEW u \in Tokens, u # t PROVE AttemptOK(u)'
    BY DEF AttemptInv
  <2>. QED
    BY DEF Inv, AttemptInv, AttemptOK, Unregistered
<1>4. ClaimInv' /\ SafetyInv'
  <2>1. \A u \in Tokens : MayMaterialize(u)' => MayMaterialize(u)
    <3>. SUFFICES ASSUME NEW u \in Tokens, u # t, MayMaterialize(u)' PROVE MayMaterialize(u)
      OBVIOUS
    <3>. QED
      BY DEF MayMaterialize
  <2>. QED
    BY <2>1, ClaimStands
<1>. QED
  BY <1>2, <1>3, <1>4 DEF WorkInv

LEMMA RegisterMoves ==
    ASSUME Inv, NEW t \in Tokens, Register(t)
    PROVE  WorkInv' /\ AttemptInv' /\ ClaimInv' /\ JournalInv' /\ SafetyInv'
<1>1. /\ <<"register", t>> \in requests /\ attempt[t] = "absent"
      /\ requests' = requests \ {<<"register", t>>}
      /\ attempt' = [attempt EXCEPT ![t] = "active"]
      /\ UNCHANGED <<claim, allocated, journal, spawned, work, outcome, receipt, operations,
                     container, rootfs>>
  BY DEF Register, Served, registry, host, nova
<1>2. attempt'[t] = "active" /\ \A u \in Tokens : u # t => attempt'[u] = attempt[u]
  BY <1>1 DEF Inv, TypeOK
<1>3. outcome[t] = "none" /\ <<"create", t>> \notin requests /\ receipt[t] = "none"
      /\ t \notin operations /\ t \notin rootfs /\ container # t
  BY <1>1 DEF Inv, AttemptInv, AttemptOK, Unregistered
<1>4. AttemptOK(t)'
  BY <1>1, <1>2, <1>3 DEF AttemptOK, Unregistered
<1>5. ~Fresh(t) /\ ~Unregistered(t)'
  BY <1>1, <1>2 DEF Fresh, Unregistered
<1>6. Unstarted(t)'
  BY <1>1, <1>2, <1>3 DEF Unstarted
<1>7. ~MayMaterialize(t)'
  BY <1>1, <1>3 DEF MayMaterialize
<1>. QED
  BY <1>1, <1>2, <1>3, <1>4, <1>5, <1>6, <1>7, IncusMoves

LEMMA AcceptMoves ==
    ASSUME Inv, NEW t \in Tokens, AcceptCreate(t)
    PROVE  WorkInv' /\ AttemptInv' /\ ClaimInv' /\ JournalInv' /\ SafetyInv'
<1>1. /\ <<"create", t>> \in requests /\ attempt[t] = "active" /\ container = NoToken
      /\ requests' = requests \ {<<"create", t>>}
      /\ attempt' = [attempt EXCEPT ![t] = "started"]
      /\ operations' = operations \cup {t} /\ rootfs' = rootfs \cup {t}
      /\ UNCHANGED <<claim, allocated, journal, spawned, work, outcome, receipt, container>>
  BY DEF AcceptCreate, Served, registry, host, nova
<1>2. attempt'[t] = "started" /\ \A u \in Tokens : u # t => attempt'[u] = attempt[u]
  BY <1>1 DEF Inv, TypeOK
<1>3. outcome[t] = "none" /\ receipt[t] = "none" /\ <<"register", t>> \notin requests
  BY <1>1 DEF Inv, AttemptInv, AttemptOK, Unregistered
<1>4. AttemptOK(t)'
  BY <1>1, <1>2, <1>3, NoTokenAssumption DEF AttemptOK, Unregistered
<1>5. ~Fresh(t) /\ ~Unregistered(t)' /\ ~Unstarted(t) /\ MayMaterialize(t)
  BY <1>1, <1>2 DEF Fresh, Unregistered, Unstarted, MayMaterialize
<1>. QED
  BY <1>1, <1>2, <1>3, <1>4, <1>5, IncusMoves

\* Only the claim's own create can be running, so no other instance is there.
LEMMA CommitMoves ==
    ASSUME Inv, NEW t \in Tokens, CommitCreate(t)
    PROVE  WorkInv' /\ AttemptInv' /\ ClaimInv' /\ JournalInv' /\ SafetyInv'
<1>1. /\ t \in operations /\ attempt[t] = "started"
      /\ attempt' = [attempt EXCEPT ![t] = "committed"]
      /\ operations' = operations \ {t} /\ container' = t
      /\ UNCHANGED <<claim, allocated, journal, spawned, work, outcome, receipt, rootfs, requests>>
  BY DEF CommitCreate, registry, host, nova
<1>2. attempt'[t] = "committed" /\ \A u \in Tokens : u # t => attempt'[u] = attempt[u]
  BY <1>1 DEF Inv, TypeOK
<1>3. /\ outcome[t] = "none" /\ receipt[t] = "none" /\ container # t
      /\ <<"register", t>> \notin requests
  BY <1>1 DEF Inv, AttemptInv, AttemptOK, Unregistered
<1>4. \A u \in Tokens : container # u
  BY <1>1, <1>3 DEF MayMaterialize, Inv, SafetyInv, RootfsUnderClaim
<1>5. AttemptOK(t)'
  BY <1>1, <1>2, <1>3 DEF AttemptOK, Unregistered
<1>6. ~Fresh(t) /\ ~Unregistered(t)' /\ ~Unstarted(t) /\ MayMaterialize(t)
  BY <1>1, <1>2 DEF Fresh, Unregistered, Unstarted, MayMaterialize
<1>. QED
  BY <1>1, <1>2, <1>3, <1>4, <1>5, <1>6, IncusMoves

LEMMA FailMoves ==
    ASSUME Inv, NEW t \in Tokens, FailCreate(t)
    PROVE  WorkInv' /\ AttemptInv' /\ ClaimInv' /\ JournalInv' /\ SafetyInv'
<1>1. /\ t \in operations /\ operations' = operations \ {t}
      /\ UNCHANGED <<claim, allocated, journal, spawned, work, attempt, outcome, receipt, container,
                     rootfs, requests>>
  BY DEF FailCreate, registry, host, nova
<1>2. AttemptOK(t) /\ attempt[t] \in {"started", "aborting"}
  BY <1>1 DEF Inv, AttemptInv, AttemptOK
<1>3. AttemptOK(t)'
  BY <1>1, <1>2 DEF AttemptOK, Unregistered
<1>4. ~Fresh(t) /\ ~Unregistered(t)' /\ ~Unstarted(t) /\ MayMaterialize(t)
  BY <1>1, <1>2 DEF Fresh, Unregistered, Unstarted, MayMaterialize
<1>5. claim.token = t /\ claim.state # "cleaned" => receipt[t] # "acked"
  BY NoTokenAssumption DEF Inv, ClaimInv, TypeOK, NoClaim
<1>. QED
  BY <1>1, <1>2, <1>3, <1>4, <1>5, IncusMoves

LEMMA AcceptDeleteMoves ==
    ASSUME Inv, NEW t \in Tokens, AcceptDelete(t)
    PROVE  WorkInv' /\ AttemptInv' /\ ClaimInv' /\ JournalInv' /\ SafetyInv'
<1>1. /\ container = t /\ container' = NoToken /\ rootfs' = rootfs \ {t}
      /\ requests' = requests \ {<<"delete", t>>}
      /\ receipt' = [receipt EXCEPT ![t] = "issued"]
      /\ UNCHANGED <<claim, allocated, journal, spawned, work, attempt, outcome, operations>>
  BY DEF AcceptDelete, Served, registry, host, nova
<1>2. receipt'[t] = "issued" /\ \A u \in Tokens : u # t => receipt'[u] = receipt[u]
  BY <1>1 DEF Inv, TypeOK
<1>3. AttemptOK(t) /\ attempt[t] = "committed"
  BY <1>1 DEF Inv, AttemptInv, AttemptOK
<1>4. AttemptOK(t)'
  BY <1>1, <1>2, <1>3, NoTokenAssumption DEF AttemptOK, Unregistered
<1>5. ~Fresh(t) /\ ~Unregistered(t)' /\ ~Unstarted(t) /\ MayMaterialize(t)
  BY <1>1, <1>3 DEF Fresh, Unregistered, Unstarted, MayMaterialize
<1>. QED
  BY <1>1, <1>2, <1>3, <1>4, <1>5, NoTokenAssumption, IncusMoves

LEMMA DropMoves ==
    ASSUME Inv, NEW x \in requests, Drop(x)
    PROVE  WorkInv' /\ AttemptInv' /\ ClaimInv' /\ JournalInv' /\ SafetyInv'
<1>1. PICK kind \in {"register", "create", "delete"}, t \in Tokens : x = <<kind, t>>
  BY DEF Inv, TypeOK, Requests
<1>2. /\ requests' = requests \ {x}
      /\ UNCHANGED <<claim, allocated, journal, spawned, work, attempt, outcome, receipt,
                     operations, container, rootfs>>
  BY DEF Drop, Served, registry, host, nova, incus
<1>3. AttemptOK(t)' /\ ~Fresh(t)
  BY <1>1, <1>2 DEF Inv, AttemptInv, AttemptOK, Unregistered, Fresh
<1>4. /\ Unregistered(t)' => Unregistered(t)
      /\ Unstarted(t) => Unstarted(t)'
      /\ MayMaterialize(t)' => MayMaterialize(t)
  BY <1>2 DEF Unregistered, Unstarted, MayMaterialize
<1>5. claim.token = t /\ claim.state # "cleaned" => attempt[t] # "retired" /\ receipt[t] # "acked"
  BY NoTokenAssumption DEF Inv, ClaimInv, TypeOK, NoClaim
<1>. QED
  BY <1>2, <1>3, <1>4, <1>5, IncusMoves

\* A tombstone that goes was acknowledged, so no claim still needs it.
LEMMA PurgeMoves ==
    ASSUME Inv, NEW t \in Tokens, Purge(t)
    PROVE  WorkInv' /\ AttemptInv' /\ ClaimInv' /\ JournalInv' /\ SafetyInv'
<1>1. /\ attempt[t] = "retired" /\ attempt' = [attempt EXCEPT ![t] = "absent"]
      /\ UNCHANGED <<claim, allocated, journal, spawned, work, outcome, receipt, operations,
                     container, rootfs, requests>>
  BY DEF Purge, registry, host, nova
<1>2. attempt'[t] = "absent" /\ \A u \in Tokens : u # t => attempt'[u] = attempt[u]
  BY <1>1 DEF Inv, TypeOK
<1>3. AttemptOK(t) /\ outcome[t] # "none"
  BY <1>1 DEF Inv, AttemptInv, AttemptOK
<1>4. AttemptOK(t)'
  BY <1>1, <1>2, <1>3 DEF AttemptOK, Unregistered
<1>5. ~Fresh(t) /\ ~Unregistered(t)' /\ (Unstarted(t) => Unstarted(t)')
      /\ (MayMaterialize(t)' => MayMaterialize(t))
  BY <1>1, <1>2, <1>3 DEF Fresh, Unregistered, Unstarted, MayMaterialize
<1>6. ~(claim.token = t /\ claim.state # "cleaned")
  BY <1>1, NoTokenAssumption DEF Inv, ClaimInv, TypeOK, NoClaim
<1>. QED
  BY <1>1, <1>2, <1>3, <1>4, <1>5, <1>6, IncusMoves

-----------------------------------------------------------------------------
(* Types.                                                                  *)

LEMMA TypesSpawn ==
    ASSUME TypeOK, WorkInv, Spawn
    PROVE  TypeOK'
<1>. USE DEF TypeOK, registry, nova, incus, host, At, Goto, Begin, Done, Workers, Jobs, Steps
<1>0. "request" \in Workers
  OBVIOUS
<1>1. ASSUME NEW t \in Tokens, SpawnPreflight(t) PROVE TypeOK'
  BY <1>1 DEF SpawnPreflight, Journal
<1>2. CASE OpenSpawnAttempt
  BY <1>2 DEF OpenSpawnAttempt, Journal, NoJournal
<1>3. CASE BeginAllocate
  BY <1>3 DEF BeginAllocate
<1>4. CASE BeginClaim
  <2>1. work["request"].token \in Tokens
    BY <1>0, <1>4 DEF BeginClaim, WorkInv, WorkOK, TokenPcs, PlainPcs, SpawnPcs, EarlyPcs
  <2>2. claim' \in Claim
    BY <1>4, <2>1 DEF BeginClaim, Claim, States
  <2>3. requests' \subseteq Requests
    BY <1>4, <2>1 DEF BeginClaim, Requests
  <2>. QED
    BY <1>4, <2>2, <2>3 DEF BeginClaim
<1>5. CASE BeginRegistered
  BY <1>5 DEF BeginRegistered
<1>6. CASE FinishSpawnAttemptOpen
  BY <1>6 DEF FinishSpawnAttemptOpen
<1>7. CASE PrepareFails
  BY <1>7 DEF PrepareFails
<1>8. CASE MarkPossible
  <2>1. claim' \in Claim
    BY <1>8 DEF MarkPossible, Claim, NoClaim, States
  <2>. QED
    BY <1>8, <2>1 DEF MarkPossible
<1>9. CASE PostCreate
  <2>1. work["request"].token \in Tokens
    BY <1>0, <1>9 DEF PostCreate, WorkInv, WorkOK, TokenPcs, PlainPcs, SpawnPcs, OpenedPcs
  <2>2. requests' \subseteq Requests
    BY <1>9, <2>1 DEF PostCreate, Requests
  <2>. QED
    BY <1>9, <2>2 DEF PostCreate
<1>10. CASE CreateReturns
  BY <1>10 DEF CreateReturns
<1>11. CASE ObserveStart
  BY <1>11 DEF ObserveStart
<1>12. CASE SpawnReturns
  BY <1>12 DEF SpawnReturns, Idle
<1>13. CASE AbortGet
  BY <1>13 DEF AbortGet
<1>. QED
  BY <1>1, <1>2, <1>3, <1>4, <1>5, <1>6, <1>7, <1>8, <1>9, <1>10, <1>11, <1>12, <1>13 DEF Spawn

\* A worker's record may be any worker record.
LEMMA TypesWork ==
    ASSUME TypeOK, NEW w \in Workers, NEW r \in WorkRecord, work' = [work EXCEPT ![w] = r]
    PROVE  work' \in [Workers -> WorkRecord]
BY DEF TypeOK, WorkRecord

LEMMA TypesDestroy ==
    ASSUME TypeOK, WorkInv, Destroy
    PROVE  TypeOK'
<1>. USE DEF TypeOK, registry, nova, incus, host, At, Goto, Workers, Jobs, Steps
<1>1. "request" \in Workers /\ claim.token \in Tokens \cup {NoToken}
  BY DEF Claim, NoClaim
<1>2. ASSUME NEW job \in Jobs, NEW pc \in Steps, NEW t \in Tokens \cup {NoToken},
             Begin("request", job, pc, t)
      PROVE  work' \in [Workers -> WorkRecord]
  <2>1. [job |-> job, pc |-> pc, token |-> t, final |-> FALSE] \in WorkRecord
    BY DEF WorkRecord
  <2>. QED
    BY <1>1, <1>2, <2>1, TypesWork DEF Begin
<1>3. Idle \in WorkRecord
  BY DEF Idle, WorkRecord
<1>4. CASE ConsumePreflightNoop
  <2>1. work' \in [Workers -> WorkRecord]
    <3>1. CASE Begin("request", "release", "complete", NoToken)
      BY <1>2, <3>1
    <3>2. CASE UNCHANGED work
      BY <3>2 DEF WorkRecord
    <3>. QED
      BY <1>4, <3>1, <3>2 DEF ConsumePreflightNoop
  <2>2. row' \in {"live", "failed", "deleted"}
    BY <1>4 DEF ConsumePreflightNoop
  <2>. QED
    BY <1>4, <2>1, <2>2 DEF ConsumePreflightNoop, WorkRecord
<1>5. CASE DestroyContext
  <2>1. work' \in [Workers -> WorkRecord]
    <3>. DEFINE r(job, pc, final) ==
                  [job |-> job, pc |-> pc, token |-> claim.token, final |-> final]
    <3>1. \A job \in Jobs, pc \in Steps, final \in BOOLEAN : r(job, pc, final) \in WorkRecord
      BY <1>1 DEF WorkRecord
    <3>2. PICK job \in {"destroy", "finaldestroy"}, pc \in {"promote", "container"},
               final \in BOOLEAN : work' = [work EXCEPT !["request"] = r(job, pc, final)]
      BY <1>5 DEF DestroyContext, Begin
    <3>3. r(job, pc, final) \in WorkRecord
      BY <3>1
    <3>. HIDE DEF r
    <3>. QED
      BY <1>1, <3>2, <3>3, TypesWork
  <2>. QED
    BY <1>5, <2>1 DEF DestroyContext, WorkRecord
<1>6. CASE ContainerAbsent
  BY <1>6 DEF ContainerAbsent
<1>7. CASE DeleteWithReceipt
  <2>1. requests' \subseteq Requests
    BY <1>7 DEF DeleteWithReceipt, Requests
  <2>. QED
    BY <1>7, <2>1 DEF DeleteWithReceipt
<1>8. CASE DeleteReturns
  <2>1. [work["request"] EXCEPT !.pc = "exact", !.final = TRUE] \in WorkRecord
    BY <1>1 DEF WorkRecord
  <2>2. work' = [work EXCEPT !["request"] =
                   [work["request"] EXCEPT !.pc = "exact", !.final = TRUE]]
    BY <1>1, <1>8 DEF DeleteReturns
  <2>3. work' \in [Workers -> WorkRecord]
    BY <1>1, <2>1, <2>2, TypesWork
  <2>. QED
    BY <1>8, <2>3 DEF DeleteReturns, WorkRecord
<1>9. ASSUME NEW retire \in BOOLEAN, DestroyCleanup(retire) PROVE TypeOK'
  <2>1. claim' \in Claim \cup {NoClaim} /\ journal' \in Journal \cup {NoJournal}
    BY <1>9 DEF DestroyCleanup
  <2>2. work' \in [Workers -> WorkRecord] /\ row' \in {"live", "failed", "deleted"}
    <3>1. CASE Begin("request", "release", "complete", NoToken)
      BY <1>9, <1>2, <3>1 DEF DestroyCleanup
    <3>2. CASE Done("request")
      <4>1. work' \in [Workers -> WorkRecord]
        BY <1>1, <1>3, <3>2, TypesWork DEF Done
      <4>. QED
        BY <1>9, <4>1 DEF DestroyCleanup
    <3>. QED
      BY <1>9, <3>1, <3>2 DEF DestroyCleanup
  <2>. QED
    BY <1>9, <2>1, <2>2 DEF DestroyCleanup, WorkRecord
<1>10. CASE RequestRelease
  <2>1. work' \in [Workers -> WorkRecord]
    BY <1>1, <1>10, <1>2 DEF RequestRelease
  <2>. QED
    BY <1>10, <2>1 DEF RequestRelease, WorkRecord
<1>11. CASE DeleteUnallocated
  <2>1. work' \in [Workers -> WorkRecord]
    BY <1>11, <1>2 DEF DeleteUnallocated
  <2>. QED
    BY <1>11, <2>1 DEF DeleteUnallocated, WorkRecord
<1>. QED
  BY <1>4, <1>5, <1>6, <1>7, <1>8, <1>9, <1>10, <1>11 DEF Destroy

LEMMA TypesSettlement ==
    ASSUME Inv, NEW w \in Workers, Settlement(w)
    PROVE  TypeOK'
<1>. USE DEF registry, nova, incus, host, At, Goto, Jobs, Steps
<1>1. TypeOK /\ work[w] \in WorkRecord /\ WorkOK(w, work[w], claim)
  BY DEF Inv, TypeOK, WorkRecord, WorkInv
<1>2. ASSUME NEW t \in {NoToken, work[w].token}, work[w].pc \notin EarlyPcs, Settles(w, t)
      PROVE  work' \in [Workers -> WorkRecord]
  BY <1>1, <1>2, SettledRecord, TypesWork DEF Settles
<1>3. ASSUME claim' \in Claim \cup {NoClaim}, AfterPromotion(w)
      PROVE  work' \in [Workers -> WorkRecord]
  <2>1. work[w].job \in Jobs
    BY <1>1 DEF WorkRecord
  <2>. QED
    BY <1>1, <1>3, <2>1, PromotionRecord, TypesWork
<1>4. CASE DiscoverForPromotion(w)
  <2>1. work' \in [Workers -> WorkRecord]
    <3>1. CASE Goto(w, "promoting")
      BY <1>1, <3>1 DEF TypeOK, WorkRecord
    <3>2. CASE AfterPromotion(w)
      BY <1>1, <1>3, <1>4, <3>2 DEF DiscoverForPromotion, TypeOK
    <3>. QED
      BY <1>4, <3>1, <3>2 DEF DiscoverForPromotion
  <2>. QED
    BY <1>1, <1>4, <2>1 DEF DiscoverForPromotion, TypeOK, WorkRecord
<1>5. CASE PromoteClaim(w)
  <2>1. claim' \in Claim \cup {NoClaim}
    BY <1>1, <1>5 DEF PromoteClaim, TypeOK, Claim, NoClaim, States
  <2>2. work' \in [Workers -> WorkRecord]
    BY <1>3, <1>5, <2>1 DEF PromoteClaim
  <2>. QED
    BY <1>1, <1>5, <2>1, <2>2 DEF PromoteClaim, TypeOK, WorkRecord
<1>6. CASE ExactClaim(w)
  <2>1. work' \in [Workers -> WorkRecord]
    <3>1. CASE Settles(w, NoToken)
      BY <1>2, <1>6, <3>1 DEF ExactClaim, EarlyPcs
    <3>2. CASE \E pc \in {"ack", "receipt", "discover", "discover-new"} : Goto(w, pc)
      BY <1>1, <3>2 DEF TypeOK, WorkRecord
    <3>. QED
      BY <1>6, <3>1, <3>2 DEF ExactClaim
  <2>. QED
    BY <1>1, <1>6, <2>1 DEF ExactClaim, TypeOK, WorkRecord
<1>7. CASE Discover(w)
  BY <1>1, <1>7 DEF Discover, TypeOK
<1>8. CASE AbandonClaim(w)
  <2>1. work' \in [Workers -> WorkRecord]
    BY <1>2, <1>8 DEF AbandonClaim, EarlyPcs
  <2>2. claim' \in {claim, NoClaim}
    BY <1>8 DEF AbandonClaim
  <2>. QED
    BY <1>1, <1>8, <2>1, <2>2 DEF AbandonClaim, TypeOK, WorkRecord
<1>9. CASE AbortAttempt(w)
  <2>1. work' \in [Workers -> WorkRecord]
    BY <1>1, <1>9 DEF AbortAttempt, TypeOK, WorkRecord
  <2>2. /\ attempt' \in [Tokens -> {"absent", "active", "started", "aborting",
                                    "committed", "proven", "retired"}]
        /\ outcome' \in [Tokens -> {"none", "not-materialized", "reconciled-clean"}]
    BY <1>1, <1>9 DEF AbortAttempt, TypeOK
  <2>. QED
    BY <1>1, <1>9, <2>1, <2>2 DEF AbortAttempt, TypeOK, WorkRecord
<1>10. CASE SettleAttempt(w)
  <2>1. work' \in [Workers -> WorkRecord]
    BY <1>1, <1>10 DEF SettleAttempt, TypeOK, WorkRecord
  <2>2. /\ attempt' \in [Tokens -> {"absent", "active", "started", "aborting",
                                    "committed", "proven", "retired"}]
        /\ outcome' \in [Tokens -> {"none", "not-materialized", "reconciled-clean"}]
    BY <1>1, <1>10 DEF SettleAttempt, TypeOK
  <2>. QED
    BY <1>1, <1>10, <2>1, <2>2 DEF SettleAttempt, TypeOK, WorkRecord
<1>11. CASE DiscoverReceipt(w)
  BY <1>1, <1>11 DEF DiscoverReceipt, TypeOK
<1>12. CASE RecordProof(w)
  <2>1. work[w].token \in Tokens /\ work[w].pc = "record"
    BY <1>1, <1>12 DEF RecordProof, WorkOK, TokenPcs
  <2>2. claim' \in Claim \cup {NoClaim}
    <3>1. ProofHeld(w) \in Proofs \cup {"none"}
      BY <1>1, <2>1 DEF ProofHeld, TypeOK, Proofs
    <3>. QED
      BY <1>1, <1>12, <2>1, <3>1, NoTokenAssumption
      DEF RecordProof, TypeOK, Claim, NoClaim, States
  <2>. QED
    BY <1>1, <1>12, <2>2 DEF RecordProof, TypeOK
<1>13. CASE Acknowledge(w)
  <2>1. work' \in [Workers -> WorkRecord]
    BY <1>2, <1>13 DEF Acknowledge, EarlyPcs
  <2>2. /\ attempt' \in [Tokens -> {"absent", "active", "started", "aborting",
                                    "committed", "proven", "retired"}]
        /\ receipt' \in [Tokens -> {"none", "issued", "acked"}]
    BY <1>1, <1>13 DEF Acknowledge, TypeOK
  <2>. QED
    BY <1>1, <1>13, <2>1, <2>2 DEF Acknowledge, TypeOK, WorkRecord
<1>. QED
  BY <1>4, <1>5, <1>6, <1>7, <1>8, <1>9, <1>10, <1>11, <1>12, <1>13 DEF Settlement

LEMMA TypesReconcile ==
    ASSUME TypeOK, Reconcile \/ BuildFails \/ LocalDelete \/ \E w \in Workers : Raise(w)
    PROVE  TypeOK'
<1>. USE DEF TypeOK, registry, nova, incus, host, At, Jobs, Steps
<1>1. "periodic" \in Workers /\ claim.token \in Tokens \cup {NoToken}
  BY DEF Workers, Claim, NoClaim
<1>2. ASSUME NEW w \in Workers, NEW job \in Jobs, NEW pc \in Steps,
             NEW t \in {NoToken, claim.token}, NEW final \in BOOLEAN,
             work' = [work EXCEPT ![w] =
                        [job |-> job, pc |-> pc, token |-> t, final |-> final]]
      PROVE  work' \in [Workers -> WorkRecord]
  <2>1. [job |-> job, pc |-> pc, token |-> t, final |-> final] \in WorkRecord
    BY <1>1 DEF WorkRecord
  <2>. QED
    BY <1>2, <2>1, TypesWork
<1>3. ASSUME NEW w \in Workers, Done(w) PROVE work' \in [Workers -> WorkRecord]
  <2>1. Idle \in WorkRecord
    BY DEF Idle, WorkRecord
  <2>. QED
    BY <1>3, <2>1, TypesWork DEF Done
<1>4. CASE BeginDispose
  <2>1. work' \in [Workers -> WorkRecord]
    <3>1. CASE UNCHANGED work
      BY <3>1 DEF WorkRecord
    <3>2. CASE Begin("periodic", "dispose", "promote", claim.token)
      BY <1>1, <1>2, <3>2 DEF Begin
    <3>3. CASE work' = [work EXCEPT !["periodic"] =
               [job |-> "dispose", pc |-> "exact", token |-> claim.token,
                final |-> claim.state # "unmaterialized"]]
      <4>1. (claim.state # "unmaterialized") \in BOOLEAN
        OBVIOUS
      <4>. QED
        BY <1>1, <1>2, <3>3, <4>1
    <3>. QED
      BY <1>4, <3>1, <3>2, <3>3 DEF BeginDispose
  <2>. QED
    BY <1>4, <2>1 DEF BeginDispose, WorkRecord
<1>5. CASE FenceFailedBuild
  <2>1. work' \in [Workers -> WorkRecord]
    BY <1>1, <1>3, <1>5 DEF FenceFailedBuild
  <2>. QED
    BY <1>5, <2>1 DEF FenceFailedBuild, WorkRecord
<1>6. CASE AdoptUnclaimed
  BY <1>6 DEF AdoptUnclaimed
<1>7. ASSUME NEW w \in Workers, BeginRelease(w) PROVE TypeOK'
  <2>1. work' \in [Workers -> WorkRecord]
    <3>1. CASE Begin(w, "release", "retire", NoToken)
      BY <1>2, <3>1 DEF Begin
    <3>2. CASE Begin(w, "release", "promote", claim.token)
      BY <1>2, <3>2 DEF Begin
    <3>3. CASE work' = [work EXCEPT ![w] =
               [job |-> "release", pc |-> "exact", token |-> claim.token,
                final |-> claim.state \in {"committed", "cleaned"}]]
      <4>1. (claim.state \in {"committed", "cleaned"}) \in BOOLEAN
        OBVIOUS
      <4>. QED
        BY <1>2, <3>3, <4>1
    <3>. QED
      BY <1>7, <3>1, <3>2, <3>3 DEF BeginRelease
  <2>. QED
    BY <1>7, <2>1 DEF BeginRelease, WorkRecord
<1>8. ASSUME NEW w \in Workers, CompleteRelease(w) PROVE TypeOK'
  <2>1. work' \in [Workers -> WorkRecord]
    BY <1>3, <1>8 DEF CompleteRelease
  <2>. QED
    BY <1>8, <2>1 DEF CompleteRelease, WorkRecord
<1>9. CASE BuildFails \/ LocalDelete
  BY <1>9 DEF BuildFails, LocalDelete
<1>10. ASSUME NEW w \in Workers, Raise(w) PROVE TypeOK'
  <2>1. work' \in [Workers -> WorkRecord]
    BY <1>3, <1>10 DEF Raise
  <2>. QED
    BY <1>10, <2>1 DEF Raise, WorkRecord
<1>. QED
  BY <1>4, <1>5, <1>6, <1>7, <1>8, <1>9, <1>10 DEF Reconcile

LEMMA TypesIncus ==
    ASSUME TypeOK, Incus
    PROVE  TypeOK'
<1>. USE DEF TypeOK, registry, nova, incus, host, Served
<1>1. ASSUME NEW t \in Tokens, Register(t) PROVE TypeOK'
  BY <1>1 DEF Register
<1>2. ASSUME NEW t \in Tokens, AcceptCreate(t) PROVE TypeOK'
  BY <1>2 DEF AcceptCreate
<1>3. ASSUME NEW t \in Tokens, CommitCreate(t) PROVE TypeOK'
  BY <1>3 DEF CommitCreate
<1>4. ASSUME NEW t \in Tokens, FailCreate(t) PROVE TypeOK'
  BY <1>4 DEF FailCreate
<1>5. ASSUME NEW t \in Tokens, AcceptDelete(t) PROVE TypeOK'
  BY <1>5 DEF AcceptDelete
<1>6. ASSUME NEW t \in Tokens, Purge(t) PROVE TypeOK'
  BY <1>6 DEF Purge
<1>7. ASSUME NEW x \in requests, Drop(x) PROVE TypeOK'
  BY <1>7 DEF Drop
<1>. QED
  BY <1>1, <1>2, <1>3, <1>4, <1>5, <1>6, <1>7 DEF Incus

-----------------------------------------------------------------------------
(* The inductive invariant, and what follows from it.                      *)

LEMMA InvInit == Init => Inv
<1>. SUFFICES ASSUME Init PROVE Inv
  OBVIOUS
<1>1. TypeOK
  BY DEF Init, TypeOK, Idle, Jobs, Steps
<1>2. \A t \in Tokens : Fresh(t)
  BY NoTokenAssumption DEF Init, Fresh, Unregistered, NoClaim, Idle
<1>3. \A w \in Workers : work[w].pc = "idle" /\ work[w].token = NoToken
  BY DEF Init, Idle
<1>4. WorkInv
  BY <1>3 DEF WorkInv, WorkOK, TokenPcs, PlainPcs, SpawnPcs, EarlyPcs, OpenedPcs
<1>5. AttemptInv
  BY NoTokenAssumption DEF Init, AttemptInv, AttemptOK, Unregistered
<1>6. ClaimInv
  BY NoTokenAssumption DEF Init, ClaimInv, NoClaim, Claim
<1>7. JournalInv
  BY <1>2, <1>3, NoTokenAssumption DEF Init, JournalInv, NoJournal
<1>8. SafetyInv
  BY NoTokenAssumption
  DEF Init, SafetyInv, RootfsUnderClaim, EvidenceOutlivesClaim, MayMaterialize, NoClaim
<1>. QED
  BY <1>1, <1>4, <1>5, <1>6, <1>7, <1>8 DEF Inv

LEMMA InvNext == Inv /\ [Next]_vars => Inv'
<1>. SUFFICES ASSUME Inv, [Next]_vars PROVE Inv'
  OBVIOUS
<1>. DEFINE Rest == WorkInv /\ AttemptInv /\ ClaimInv /\ JournalInv /\ SafetyInv
<1>1. TypeOK /\ WorkInv /\ "request" \in Workers
  BY DEF Inv, Workers
<1>2. CASE Spawn
  <2>1. TypeOK'
    BY <1>1, <1>2, TypesSpawn
  <2>2. Rest'
    BY <1>1, <1>2, PreflightMoves, Opens, SpawnMoves, ClaimBegins, MarkMoves, PostMoves,
       WorkerMoves DEF Spawn
  <2>. QED
    BY <2>1, <2>2 DEF Inv
<1>3. CASE Destroy
  <2>1. TypeOK'
    BY <1>1, <1>3, TypesDestroy
  <2>2. Rest'
    BY <1>1, <1>3, WorkerMoves, DeleteMoves, RetireMoves DEF Destroy
  <2>. QED
    BY <2>1, <2>2 DEF Inv
<1>4. ASSUME NEW w \in Workers, Settlement(w) PROVE Inv'
  <2>1. TypeOK'
    BY <1>4, TypesSettlement
  <2>2. Rest'
    BY <1>4, PromotionMoves, PromoteMoves, SettlementMoves, RetireMoves, AbortMoves, SettleMoves,
       RecordMoves, AckMoves DEF Settlement
  <2>. QED
    BY <2>1, <2>2 DEF Inv
<1>5. CASE Reconcile \/ BuildFails \/ LocalDelete
  <2>1. TypeOK'
    BY <1>1, <1>5, TypesReconcile
  <2>2. Rest'
    BY <1>1, <1>5, ReconcileMoves, RetireMoves DEF Reconcile
  <2>. QED
    BY <2>1, <2>2 DEF Inv
<1>6. ASSUME NEW w \in Workers, Raise(w) PROVE Inv'
  <2>1. TypeOK'
    BY <1>1, <1>6, TypesReconcile
  <2>2. Rest'
    BY <1>6, WorkerMoves
  <2>. QED
    BY <2>1, <2>2 DEF Inv
<1>7. CASE Incus
  <2>1. TypeOK'
    BY <1>1, <1>7, TypesIncus
  <2>2. Rest'
    BY <1>7, RegisterMoves, AcceptMoves, CommitMoves, FailMoves, AcceptDeleteMoves, PurgeMoves,
       DropMoves DEF Incus
  <2>. QED
    BY <2>1, <2>2 DEF Inv
<1>8. CASE UNCHANGED vars
  BY <1>8 DEF vars, registry, host, nova, incus, Inv, TypeOK, WorkInv, WorkOK, AttemptInv,
     AttemptOK, ClaimInv, JournalInv, SafetyInv, RootfsUnderClaim, EvidenceOutlivesClaim,
     MayMaterialize, Fresh, Unstarted, Unregistered
<1>. QED
  BY <1>2, <1>3, <1>4, <1>5, <1>6, <1>7, <1>8 DEF Next

\* The inductive invariant holds throughout, for any set of tokens.
THEOREM Invariance == Spec => []Inv
BY InvInit, InvNext, PTL DEF Spec

\* Every variable keeps its type, whatever the spawns, deletes, passes, crashes
\* and late requests do.
THEOREM TypeCorrect == Spec => []TypeOK
<1>1. Inv => TypeOK
  BY DEF Inv
<1>. QED
  BY <1>1, Invariance, PTL

\* Root storage, and every create request that can still make some, is covered
\* by the exact claim of its token: _settle_idmap_host_claim,
\* _discard_uncreated_idmap_claim and the release never let a claim go under a
\* create that is still on its way.
THEOREM RootfsCovered == Spec => []RootfsUnderClaim
<1>1. Inv => RootfsUnderClaim
  BY DEF Inv, SafetyInv
<1>. QED
  BY <1>1, Invariance, PTL

\* Incus's evidence is acknowledged only after the registry has recorded it
\* (_record_and_ack_materialization_proof), and a committed claim has its root
\* or its receipt.
THEOREM EvidenceKept == Spec => []EvidenceOutlivesClaim
<1>1. Inv => EvidenceOutlivesClaim
  BY DEF Inv, SafetyInv
<1>. QED
  BY <1>1, Invariance, PTL

\* An empty destroy (_consume_spawn_preflight_noop) removes only the journal of
\* a token of which neither the registry nor Incus knows or will learn.
THEOREM NoopIsEmpty == Spec => NoopUndoesNothing
<1>1. ASSUME Inv, journal # NoJournal, ConsumePreflightNoop
      PROVE  /\ attempt[journal.token] = "absent" /\ ~MayMaterialize(journal.token)
             /\ \A kind \in {"register", "create"} : <<kind, journal.token>> \notin requests
  <2>1. Fresh(journal.token) /\ journal.token \in Tokens
    BY <1>1 DEF ConsumePreflightNoop, Inv, JournalInv, TypeOK, Journal
  <2>2. ~MayMaterialize(journal.token)
    BY <1>1, <2>1 DEF Fresh, Unregistered, MayMaterialize, Inv, AttemptInv, AttemptOK
  <2>. QED
    BY <2>1, <2>2 DEF Fresh, Unregistered
<1>. QED
  BY <1>1, Invariance, PTL DEF NoopUndoesNothing
=============================================================================
