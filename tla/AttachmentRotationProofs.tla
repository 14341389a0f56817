---------------------- MODULE AttachmentRotationProofs ----------------------
EXTENDS AttachmentRotation, TLAPS

\* The instance failed at the source, and no operation takes it for another.
RollingBack ==
    /\ nova.status \in Failed /\ nova.host = "source"
    /\ w.op = "none" \/ w.status \in Failed

\* Where the migration is, and the RPC that drives it.
NovaInv ==
    /\ nova.host = "source" => nova.status \in {"migrating", "post-migrating"} \cup Failed
    /\ nova.host = "target" => nova.status \in {"post-migrating", "reverting", "error"} \cup Done
    /\ rpc \in {"rotate", "leave"} => nova.status = "migrating" /\ nova.host = "source"
    /\ rpc = "leaving" => nova.status = "post-migrating" /\ nova.host = "source"
    /\ rpc = "fail" => IF nova.host = "source" THEN nova.status \notin Failed
                       ELSE nova.status = "reverting"
    /\ rpc = "failed" => nova.status = "error"
    /\ rpc = "target" => nova.status = "post-migrating" /\ nova.host = "target"
    /\ rpc \in {"revert", "attach"} => nova.status = "reverting"
    /\ run = "down" => rpc \in {"none", "target", "revert"}
    /\ run = "starting" => rpc = "none" /\ nova.status \in Failed /\ nova.host = "source"

\* The operation under way, and what it read when it began.
WorkInv ==
    /\ w.op = "none" => w = Idle
    /\ w.vol \notin w.left
    /\ w.op # "none" => w.vol # None /\ run # "down"
    /\ w.op = "rotate" => rpc = "rotate" /\ w.pc \in Exchange /\ w.status = "migrating"
    /\ w.op = "handoff" =>
          rpc = "revert" /\ w.pc \in {"validate", "handed"} /\ w.status = "reverting"
    /\ w.op = "recover" => w.pc \notin {"none", "prepare", "validate", "handed"}
    /\ w.op = "recover" /\ rpc = "rotate" => w.pc = "read"
    /\ w.op = "recover" /\ w.status \in Failed => nova.status \in Failed /\ nova.host = w.host
    /\ w.op # "none" /\ nova.host = "source" => w.host = "source"
    /\ w.op # "none" /\ w.status \in Done =>
          w.host = "target" /\ nova.status \in Done \cup {"reverting", "error"}

\* Whose the volume is: Cinder's records of its attachments, Nova's BDM.
Attached(v, a, at) == cinder[v][a] = [status |-> "attached", conn |-> at]
Reserved(v, a) == cinder[v][a] = [status |-> "reserved", conn |-> "none"]
Free(v, a) == cinder[v][a] = Absent
ByOld(v) == bdm[v].att = "old" /\ Attached(v, "old", "source") /\ Free(v, "rev")
ByNew(v) == bdm[v].att = "new" /\ Free(v, "old") /\ Free(v, "rev")
ByRev(v) == /\ bdm[v].att = "rev" /\ Free(v, "old") /\ Free(v, "new") /\ Reserved(v, "rev")
            /\ nova.host = "target" /\ nova.status \in {"reverting", "error"}

\* What the phase of the rotation says of them.
PhaseInv(v) ==
    CASE rotation[v] = "prepared" -> ByOld(v) /\ Free(v, "new")
      [] rotation[v] = "creating" -> ByOld(v) /\ (Free(v, "new") \/ Reserved(v, "new"))
      [] rotation[v] = "new-created" ->
            /\ bdm[v].att = "old" /\ Free(v, "rev")
            /\ \/ Attached(v, "old", "source") /\ Reserved(v, "new")
               \/ Attached(v, "old", "source") /\ Free(v, "new") /\ RollingBack
               \/ Free(v, "old") /\ Reserved(v, "new")
      [] rotation[v] = "old-deleted" ->
            bdm[v].att \in {"old", "new"} /\ Free(v, "old") /\ Free(v, "rev") /\ Reserved(v, "new")
      [] rotation[v] = "bdm-rotated" -> (ByNew(v) /\ Present(v, "new")) \/ ByRev(v)
      [] rotation[v] = "source-old-retained" -> ByOld(v) /\ Free(v, "new") /\ RollingBack
      [] rotation[v] = "source-rollback-complete" ->
            /\ RollingBack /\ gen = "done"
            /\ (ByOld(v) /\ Free(v, "new")) \/ (ByNew(v) /\ Attached(v, "new", "source"))
      [] rotation[v] = "source-release-complete" ->
            (ByNew(v) /\ Attached(v, "new", "target")) \/ ByRev(v)
      [] OTHER -> \/ ByOld(v) /\ Free(v, "new") /\ nova.host = "source"
                  \/ ByNew(v) /\ Attached(v, "new", nova.host) /\ (nova.host = "target" \/ RollingBack)
                  \/ ByRev(v)

\* The target holds every volume, and only as much as Nova's flow has done.
HostInv(v) ==
    /\ nova.host = "target" => rotation[v] \in {"none", "bdm-rotated", "source-release-complete"}
    /\ nova.host = "source" => bdm[v].conn = "source" /\ cinder[v]["new"].conn \in {"none", "source"}
    /\ nova.status = "reverting" => bdm[v].att = "rev"
    /\ nova.status \in Done => Attached(v, "new", "target") /\ bdm[v].att = "new"
    /\ nova.host = "source" /\ rotation[v] = "bdm-rotated" =>
          Reserved(v, "new") \/ (RollingBack /\ Used(v, "new") /\ cinder[v]["new"].conn = "source")
    /\ w.op # "none" /\ w.status \in Done => nova.status \in Done \/ bdm[v].att = "rev"
    /\ rpc \in {"leave", "leaving", "target"} => rotation[v] = "bdm-rotated" /\ bdm[v].att = "new"
    /\ rpc \in {"leave", "leaving"} => Reserved(v, "new")
    /\ rpc = "rotate" /\ w.op # "rotate" => rotation[v] = "none"

\* The intent beside it.
IntentInv(v) ==
    /\ rotation[v] \notin Terminal \cup {"none"} => intent[v] # "none"
    /\ rotation[v] = "none" /\ intent[v] = "old" => ByOld(v)
    /\ rotation[v] = "source-rollback-complete" => intent[v] \in {"none", bdm[v].att}
    /\ rotation[v] = "source-release-complete" => intent[v] \in {"none", "old"}
    /\ intent[v] = "new" =>
          /\ RollingBack /\ gen = "done" /\ bdm[v].att = "new"
          /\ rotation[v] \in {"bdm-rotated", "source-rollback-complete"}
    /\ intent[v] = "rev" => rotation[v] \in {"none", "bdm-rotated"} /\ ByRev(v)
    /\ nova.host = "target" /\ rotation[v] = "none" => intent[v] \in {"none", "rev"}
    /\ rpc = "rotate" => intent[v] = "old" \/ (v = root /\ intent[v] = "none")

\* The host side, and how much of a rollback it shows.
Restored(v) == v # root => local[v] = Local("none", TRUE, TRUE)
LocalInv(v) ==
    /\ v = root => local[v] = Local("none", FALSE, FALSE)
    /\ v # root /\ ~RollingBack =>
          \/ local[v] = Local("disconnected", FALSE, FALSE)
          \/ local[v] = Local("none", FALSE, FALSE) /\ nova.host = "target"
    /\ local[v].guest => local[v].mapped
    /\ local[v].mapped =>
          \/ ByOld(v) /\ rotation[v] \in {"none", "prepared", "source-old-retained",
                                          "source-rollback-complete"}
          \/ ByNew(v) /\ Used(v, "new") /\ cinder[v]["new"].conn = "source"
    /\ rotation[v] = "source-rollback-complete" => Restored(v)
    /\ rotation[v] = "none" /\ intent[v] = "none" /\ nova.host = "source" =>
          Restored(v) /\ (v # root => gen # "owned")
    /\ nova.host = "target" /\ bdm[v].att = "new"
          /\ rotation[v] \in {"none", "source-release-complete"} =>
          local[v] = Local("none", FALSE, FALSE)

\* The source generation is marked by a rollback, and outlives the records.
GenInv ==
    /\ gen # "owned" => RollingBack
    /\ gen = "retired" => \A v \in Volumes : rotation[v] = "none" /\ intent[v] = "none"

\* The volumes an exchange has not come to, and those it has done.
RotateInv ==
    w.op = "rotate" =>
        IF w.pc = "prepare"
        THEN \A v \in Volumes :
                rotation[v] = IF v \in w.left \cup {w.vol} THEN "none" ELSE "prepared"
        ELSE \A v \in Volumes \ {w.vol} :
                rotation[v] = IF v \in w.left THEN "prepared" ELSE "bdm-rotated"

\* The owner a rollback restores, and what each of its steps may rely on.
Ready(v) == \/ ByOld(v) /\ Free(v, "new") /\ rotation[v] \in {"none", "prepared", "source-old-retained"}
            \/ ByNew(v) /\ Used(v, "new") /\ rotation[v] = "bdm-rotated"
Owned(v) == Ready(v) /\ intent[v] # "none" /\ Attached(v, bdm[v].att, "source") /\ Restored(v)

\* Steps that only a rollback has, and steps that only an exchange has.
RollPcs == {"fence", "reject", "deleteNew", "retained", "adopt", "update", "save", "intentOnly",
            "complete", "done", "replace", "proof", "terminal", "finalize"} \cup HostSteps
ForwardPcs == {"mark", "create", "name", "delete", "deleted"}
StepInv(v) ==
    /\ w.pc \in RollPcs => w.status \in Failed /\ w.host = "source"
    /\ w.pc \in ForwardPcs => w.status \notin Failed
    /\ w.pc \in {"release", "released"} => w.status \in Done
    /\ w.pc \in {"advance", "switch", "switched"} /\ w.status \in Failed =>
          w.host = "source" /\ rotation[v] \in {"old-deleted", "bdm-rotated"}
    /\ w.pc \in HostSteps => v # root
    /\ w.pc = "mark" => rotation[v] = "prepared"
    /\ w.pc \in {"create", "name"} => rotation[v] = "creating"
    /\ w.pc = "create" => Free(v, "new")
    /\ w.pc = "name" => Reserved(v, "new")
    /\ w.pc \in {"delete", "deleted", "reject", "deleteNew", "retained", "adopt"} =>
          rotation[v] = "new-created"
    /\ w.pc \in {"deleted", "adopt"} => Free(v, "old")
    /\ w.pc \in {"reject", "deleteNew", "retained"} => Attached(v, "old", "source")
    /\ w.pc = "retained" => Free(v, "new")
    /\ w.pc \in {"switch", "switched"} => rotation[v] = "old-deleted"
    /\ w.pc = "switched" => bdm[v].att = "new"
    /\ w.pc \in {"update", "save", "restart", "release", "released", "handed"} =>
          rotation[v] = "bdm-rotated"
    /\ w.pc \in {"update", "save", "restart"} => ByNew(v)
    /\ w.pc = "local" => ByOld(v) /\ Ready(v)
    /\ w.pc = "intentOnly" => rotation[v] = "none" /\ v = root
    /\ w.pc \in (HostSteps \ {"restart"}) \cup {"complete"} => Ready(v) /\ intent[v] # "none"
    /\ w.pc \in {"save", "restart"} => Used(v, "new")
    /\ w.pc \in {"connected", "expose"} => local[v].mapped
    /\ w.pc = "complete" => Restored(v)
    /\ w.pc \in {"done", "replace", "proof", "terminal"} => Owned(v)
    /\ w.pc \in {"replace", "proof", "terminal"} => gen = "done"
    /\ w.pc \in {"proof", "terminal"} => intent[v] = bdm[v].att
    /\ w.pc = "terminal" => rotation[v] # "none"
    /\ w.pc = "cancel" =>
          \/ rotation[v] \in Terminal
          \/ rotation[v] = "none" /\ Owned(v) /\ gen = "done"
    /\ w.pc \in {"unlink", "retire"} => rotation[v] \in Terminal
    /\ w.pc = "unlink" => intent[v] = "none"
    /\ w.pc = "finalize" => rotation[v] = "none" /\ intent[v] = "none"
    /\ w.pc = "released" => /\ local[v].journal = "none" /\ intent[v] = "old"
                            /\ Attached(v, "new", "target") \/ ByRev(v)
    /\ w.pc = "handed" => intent[v] = "rev"

AtStep == w.op # "none" => StepInv(w.vol)
RowInv(v) == PhaseInv(v) /\ HostInv(v) /\ IntentInv(v) /\ LocalInv(v)
VolumeInv == \A v \in Volumes : RowInv(v)
StateInv ==
    /\ NovaInv /\ WorkInv /\ GenInv /\ RotateInv /\ VolumeInv /\ AtStep
Inv == TypeOK /\ StateInv

Beginning == BeginRotate \/ BeginHandoff \/ BeginRecover
NovaStep == \/ HandOver \/ ErrorOut \/ TargetAttach \/ TargetFinish \/ TargetFail
            \/ UserConfirms \/ UserReverts
Process == Crash \/ Start \/ Started

LEMMA NextCases ==
    ASSUME Next
    PROVE  \/ Beginning \/ NovaStep \/ Process
           \/ w # Idle /\ (RotateStep \/ RollbackStep \/ HostStep \/ FinishStep)
BY Zenon DEF Next, Step, Target, Beginning, NovaStep, Process


\* What the operations put into the records has their types.
LEMMA Values ==
    /\ Idle \in Worker /\ Absent \in CinderRecord
    /\ \A j \in Journals, m \in BOOLEAN, g \in BOOLEAN : Local(j, m, g) \in LocalRecord
BY DEF Idle, Absent, Worker, Steps, CinderRecord, Local, LocalRecord

LEMMA Counts == ASSUME faults \in 0..MaxFaults PROVE NoFault \/ Fault => faults' \in 0..MaxFaults
BY FaultsAssumption DEF NoFault, Fault

\* The operation goes on, or ends.
LEMMA Goes ==
    ASSUME TypeOK
    PROVE  /\ \A pc \in Steps : Go(pc) => w' \in Worker /\ rpc' \in Rpcs
           /\ \A onward \in Rpcs : End(onward) => w' \in Worker /\ rpc' \in Rpcs
           /\ Raise => w' \in Worker /\ rpc' \in Rpcs
<1>1. \A pc \in Steps : Go(pc) => w' \in Worker /\ rpc' \in Rpcs BY DEF TypeOK, Worker, Go
<1>2. \A onward \in Rpcs : End(onward) => w' \in Worker /\ rpc' \in Rpcs
  BY Values DEF End, TypeOK
<1>3. Raise => w' \in Worker /\ rpc' \in Rpcs BY <1>2 DEF Raise, Rpcs
<1> QED BY ONLY <1>1, <1>2, <1>3

\* An operation that begins, and one that comes to its next volume.
LEMMA Begins ==
    ASSUME TypeOK
    PROVE  \A op \in {"rotate", "recover", "handoff"}, pc \in Steps, v \in Volumes,
              left \in SUBSET Volumes : Begin(op, pc, v, left) => w' \in Worker
BY DEF TypeOK, Begin, Worker, NovaRecord, BdmRecord
LEMMA Visits ==
    ASSUME TypeOK
    PROVE  /\ \A v \in Volumes, pc \in Steps :
                 [w EXCEPT !.pc = pc, !.vol = v, !.left = @ \ {v}, !.att = bdm[v].att] \in Worker
           /\ \A pc \in Steps, left \in SUBSET Volumes : [w EXCEPT !.pc = pc, !.left = left] \in Worker
           /\ w.left \in SUBSET Volumes /\ Volumes \ {w.vol} \in SUBSET Volumes
<1>1. w \in Worker /\ \A v \in Volumes : bdm[v].att \in Att BY DEF TypeOK, BdmRecord
<1>2. \A v \in Volumes : w.left \ {v} \in SUBSET Volumes BY <1>1 DEF Worker
<1>3. \A x \in Worker, v \in Volumes, pc \in Steps, a \in Att, left \in SUBSET Volumes :
          [x EXCEPT !.pc = pc, !.vol = v, !.left = left, !.att = a] \in Worker
  BY DEF Worker
<1>4. \A pc \in Steps, left \in SUBSET Volumes : [w EXCEPT !.pc = pc, !.left = left] \in Worker
  BY <1>1 DEF Worker
<1>5. ASSUME NEW v \in Volumes, NEW pc \in Steps
      PROVE  [w EXCEPT !.pc = pc, !.vol = v, !.left = @ \ {v}, !.att = bdm[v].att] \in Worker
  <2>1. [w EXCEPT !.pc = pc, !.vol = v, !.left = w.left \ {v}, !.att = bdm[v].att] \in Worker
    BY ONLY <1>1, <1>2, <1>3, <1>5
  <2> QED BY ONLY <2>1, <1>1 DEF Worker
<1>6. w.left \in SUBSET Volumes /\ Volumes \ {w.vol} \in SUBSET Volumes BY ONLY <1>1 DEF Worker
<1> QED BY ONLY <1>4, <1>5, <1>6

\* What a step makes of the records.
LEMMA SetsCinder ==
    ASSUME TypeOK, w.vol \in Volumes
    PROVE  /\ \A a \in Att, s \in {"reserved", "attaching", "attached", "absent"},
                 c \in {"none", "source", "target"} :
                 SetCinder(a, s, c) \in [Volumes -> [Att -> CinderRecord]]
           /\ [cinder EXCEPT ![w.vol][Owner].status = "attached"] \in [Volumes -> [Att -> CinderRecord]]
<1> DEFINE Changed(a, r) == [cinder EXCEPT ![w.vol] = [cinder[w.vol] EXCEPT ![a] = r]]
<1>1. cinder \in [Volumes -> [Att -> CinderRecord]] BY DEF TypeOK
<1>2. \A a \in Att, r \in CinderRecord : Changed(a, r) \in [Volumes -> [Att -> CinderRecord]]
  BY ONLY <1>1, w.vol \in Volumes
<1> HIDE DEF Changed
<1>3. ASSUME NEW a \in Att, NEW s \in {"reserved", "attaching", "attached", "absent"},
             NEW c \in {"none", "source", "target"}
      PROVE  SetCinder(a, s, c) \in [Volumes -> [Att -> CinderRecord]]
  <2>1. [status |-> s, conn |-> c] \in CinderRecord BY ONLY <1>3 DEF CinderRecord
  <2>2. SetCinder(a, s, c) = Changed(a, [status |-> s, conn |-> c])
    BY ONLY <1>1, w.vol \in Volumes DEF SetCinder, Changed
  <2> QED BY ONLY <2>1, <2>2, <1>2, <1>3
<1>4. [cinder EXCEPT ![w.vol][Owner].status = "attached"] \in [Volumes -> [Att -> CinderRecord]]
  <2>1. Owner \in Att BY w.vol \in Volumes DEF TypeOK, Owner, BdmRecord
  <2>2. \A a \in Att : [cinder EXCEPT ![w.vol][a].status = "attached"] \in [Volumes -> [Att -> CinderRecord]]
    BY ONLY <1>1, w.vol \in Volumes, SMTT(10) DEF CinderRecord
  <2> QED BY ONLY <2>1, <2>2
<1> QED BY ONLY <1>3, <1>4

LEMMA SetsBdm ==
    ASSUME TypeOK
    PROVE  /\ \A a \in Att : [bdm EXCEPT ![w.vol].att = a] \in [Volumes -> BdmRecord]
           /\ \A c \in {"source", "target"} : [bdm EXCEPT ![w.vol].conn = c] \in [Volumes -> BdmRecord]
BY DEF TypeOK, BdmRecord
LEMMA SetsLocal ==
    ASSUME TypeOK, w.vol \in Volumes
    PROVE  /\ \A j \in Journals, m \in BOOLEAN, g \in BOOLEAN : SetLocal(j, m, g) \in [Volumes -> LocalRecord]
           /\ \A j \in Journals : [local EXCEPT ![w.vol].journal = j] \in [Volumes -> LocalRecord]
           /\ [local EXCEPT ![w.vol].mapped = TRUE] \in [Volumes -> LocalRecord]
           /\ [local EXCEPT ![w.vol].guest = TRUE] \in [Volumes -> LocalRecord]
           /\ Journal \in Journals /\ local[w.vol].mapped \in BOOLEAN
<1>1. local \in [Volumes -> LocalRecord] BY DEF TypeOK
<1>2. \A j \in Journals, m \in BOOLEAN, g \in BOOLEAN : SetLocal(j, m, g) \in [Volumes -> LocalRecord]
  BY ONLY <1>1, w.vol \in Volumes DEF SetLocal, Local, LocalRecord
<1>3. \A j \in Journals : [local EXCEPT ![w.vol].journal = j] \in [Volumes -> LocalRecord]
  BY ONLY <1>1, w.vol \in Volumes DEF LocalRecord
<1>4. /\ [local EXCEPT ![w.vol].mapped = TRUE] \in [Volumes -> LocalRecord]
      /\ [local EXCEPT ![w.vol].guest = TRUE] \in [Volumes -> LocalRecord]
  BY ONLY <1>1, w.vol \in Volumes DEF LocalRecord
<1>5. Journal \in Journals /\ local[w.vol].mapped \in BOOLEAN
  BY ONLY <1>1, w.vol \in Volumes DEF LocalRecord, Journal
<1> QED BY ONLY <1>2, <1>3, <1>4, <1>5
LEMMA SetsRecords ==
    ASSUME TypeOK, w.vol \in Volumes
    PROVE  /\ \A p \in Phases : Rotate(p) \in [Volumes -> Phases]
           /\ \A a \in Att \cup {"none"} : SetIntent(a) \in [Volumes -> Att \cup {"none"}]
           /\ Owner \in Att
<1>1. \A p \in Phases : Rotate(p) \in [Volumes -> Phases] BY DEF TypeOK, Rotate
<1>2. \A a \in Att \cup {"none"} : SetIntent(a) \in [Volumes -> Att \cup {"none"}]
  BY DEF TypeOK, SetIntent
<1>3. Owner \in Att BY DEF TypeOK, Owner, BdmRecord
<1> QED BY ONLY <1>1, <1>2, <1>3
LEMMA SetsNova ==
    ASSUME nova \in NovaRecord
    PROVE  /\ \A s \in Statuses : [nova EXCEPT !.status = s] \in NovaRecord
           /\ [nova EXCEPT !.task = "none"] \in NovaRecord
           /\ \A s \in Statuses : [[nova EXCEPT !.status = s] EXCEPT !.task = "none"] \in NovaRecord
BY DEF NovaRecord
LEMMA StepTypes ==
    ASSUME TypeOK, StateInv, [Next]_vars
    PROVE  TypeOK'
<1>0. w # Idle => w.vol \in Volumes BY DEF TypeOK, StateInv, WorkInv, Worker
<1>1. ASSUME Beginning PROVE TypeOK'
  <2>1. ASSUME BeginRotate PROVE TypeOK'
    <3>1. w' \in Worker BY ONLY TypeOK, <2>1, Begins, SMTT(8) DEF BeginRotate, Steps, Exchange, HostSteps, Rpcs
    <3>2. todo' \in SUBSET Volumes
      BY ONLY TypeOK, <2>1, SMTT(8) DEF TypeOK, BeginRotate
    <3>3. UNCHANGED <<root, nova, bdm, cinder, rotation, intent, local, gen, rpc, run, faults>> BY ONLY <2>1, Zenon DEF BeginRotate, Begin, records, NoFault
    <3> QED BY ONLY TypeOK, <3>1, <3>2, <3>3 DEF TypeOK
  <2>2. ASSUME BeginHandoff PROVE TypeOK'
    <3>1. w' \in Worker BY ONLY TypeOK, <2>2, Begins, SMTT(8) DEF BeginHandoff, Steps, Exchange, HostSteps, Rpcs
    <3>2. todo' \in SUBSET Volumes
      BY ONLY TypeOK, <2>2, SMTT(8) DEF TypeOK, BeginHandoff
    <3>3. UNCHANGED <<root, nova, bdm, cinder, rotation, intent, local, gen, rpc, run, faults>> BY ONLY <2>2, Zenon DEF BeginHandoff, Begin, records, NoFault
    <3> QED BY ONLY TypeOK, <3>1, <3>2, <3>3 DEF TypeOK
  <2>3. ASSUME BeginRecover PROVE TypeOK'
    <3>1. w' \in Worker BY ONLY TypeOK, <2>3, Begins, SMTT(8) DEF BeginRecover, Steps, Exchange, HostSteps, Rpcs
    <3>2. todo' \in SUBSET Volumes
      BY ONLY TypeOK, <2>3, SMTT(8) DEF TypeOK, BeginRecover, Evidence
    <3>3. UNCHANGED <<root, nova, bdm, cinder, rotation, intent, local, gen, rpc, run, faults>> BY ONLY <2>3, Zenon DEF BeginRecover, Begin, Evidence, records, NoFault
    <3> QED BY ONLY TypeOK, <3>1, <3>2, <3>3 DEF TypeOK
  <2> QED BY ONLY <1>1, <2>1, <2>2, <2>3 DEF Beginning
<1>2. ASSUME w # Idle, RotateStep PROVE TypeOK'
  <2>1. ASSUME PrepareIntent PROVE TypeOK'
    <3>1. intent' \in [Volumes -> Att \cup {"none"}]
      BY ONLY TypeOK, <2>1, <1>0, <1>2, SetsRecords, Zenon DEF TypeOK, PrepareIntent, Write, Named, Att
    <3>2. w' \in Worker
      BY ONLY TypeOK, <2>1, <1>0, <1>2, Goes, Visits, Values, Zenon DEF TypeOK, PrepareIntent, Write, Steps, Exchange, HostSteps, Rpcs
    <3>3. UNCHANGED <<root, nova, bdm, cinder, rotation, local, gen, rpc, run, todo, faults>> BY ONLY <2>1, Zenon DEF PrepareIntent, Write, Go, Named, SetIntent, records, NoFault
    <3> QED BY ONLY TypeOK, <3>1, <3>2, <3>3 DEF TypeOK
  <2>2. ASSUME PrepareRotation PROVE TypeOK'
    <3>1. rotation' \in [Volumes -> Phases]
      <4>1. rotation' \in {rotation, Rotate("prepared")} BY ONLY <2>2 DEF PrepareRotation
      <4> QED BY ONLY <4>1, TypeOK, <1>0, <1>2, SetsRecords DEF TypeOK, Phases
    <3>2. w' \in Worker
      <4>1. \/ \E v \in w.left : w' = [w EXCEPT !.pc = "prepare", !.vol = v, !.left = @ \ {v}, !.att = bdm[v].att]
            \/ (w' = [w EXCEPT !.pc = "advance", !.left = Volumes \ {w.vol}]) \/ Raise
        BY ONLY <2>2, Zenon DEF PrepareRotation, Visit
      <4>2. ASSUME NEW v \in w.left, w' = [w EXCEPT !.pc = "prepare", !.vol = v, !.left = @ \ {v}, !.att = bdm[v].att]
            PROVE  w' \in Worker
        <5>1. v \in Volumes BY ONLY Visits, TypeOK, Zenon
        <5>2. "prepare" \in Steps BY DEF Steps, Exchange
        <5> QED BY ONLY <4>2, <5>1, <5>2, Visits, TypeOK, Zenon
      <4>3. (w' = [w EXCEPT !.pc = "advance", !.left = Volumes \ {w.vol}]) => w' \in Worker
        <5>1. "advance" \in Steps BY DEF Steps, Exchange
        <5> QED BY ONLY <5>1, Visits, TypeOK
      <4> QED BY ONLY <4>1, <4>2, <4>3, TypeOK, Goes, Visits, Zenon DEF Steps, Exchange, Rpcs
    <3>3. rpc' \in Rpcs
      BY ONLY TypeOK, <2>2, Goes, Zenon DEF TypeOK, PrepareRotation, Visit, Steps, Exchange, HostSteps, Rpcs
    <3>4. NoFault \/ Fault BY ONLY <2>2, Zenon DEF PrepareRotation, Visit, Rotate, Named, Here, Raise, End
    <3>5. UNCHANGED <<root, nova, bdm, cinder, intent, local, gen, run, todo>> BY ONLY <2>2, Zenon DEF PrepareRotation, Visit, Rotate, Named, Here, Raise, End, records
    <3> QED BY ONLY Counts, TypeOK, <3>1, <3>2, <3>3, <3>4, <3>5 DEF TypeOK
  <2>3. ASSUME Advance PROVE TypeOK'
    <3>1. w' \in Worker
      <4>1. \/ \E v \in w.left : w' = [w EXCEPT !.pc = "advance", !.vol = v, !.left = @ \ {v}, !.att = bdm[v].att]
            \/ Go("mark") \/ Go("delete") \/ Go("switch") \/ Go("update") \/ Go("release") \/ End("leave") \/ End("none") \/ Raise
        BY ONLY <2>3, Zenon DEF Advance, Decide, Rotated, Visit
      <4>2. ASSUME NEW v \in w.left, w' = [w EXCEPT !.pc = "advance", !.vol = v, !.left = @ \ {v}, !.att = bdm[v].att]
            PROVE  w' \in Worker
        <5>1. v \in Volumes BY ONLY Visits, TypeOK, Zenon
        <5>2. "advance" \in Steps BY DEF Steps, Exchange
        <5> QED BY ONLY <4>2, <5>1, <5>2, Visits, TypeOK, Zenon
      <4> QED BY ONLY <4>1, <4>2, TypeOK, Goes, Visits, Zenon DEF Steps, Exchange, Rpcs
    <3>2. rpc' \in Rpcs
      BY ONLY TypeOK, <2>3, Goes, Zenon DEF TypeOK, Advance, Decide, Rotated, Visit, Steps, Exchange, HostSteps, Rpcs
    <3>3. UNCHANGED <<root, nova, bdm, cinder, rotation, intent, local, gen, run, todo, faults>> BY ONLY <2>3, Zenon DEF Advance, Decide, Go, Rotated, Visit, End, Raise, Phase, records, NoFault
    <3> QED BY ONLY TypeOK, <3>1, <3>2, <3>3 DEF TypeOK
  <2>4. ASSUME MarkCreating PROVE TypeOK'
    <3>1. rotation' \in [Volumes -> Phases]
      BY ONLY TypeOK, <2>4, <1>0, <1>2, SetsRecords, Zenon DEF TypeOK, MarkCreating, Write, Phases, Terminal
    <3>2. w' \in Worker
      BY ONLY TypeOK, <2>4, <1>0, <1>2, Goes, Visits, Values, Zenon DEF TypeOK, MarkCreating, Write, Steps, Exchange, HostSteps, Rpcs
    <3>3. UNCHANGED <<root, nova, bdm, cinder, intent, local, gen, rpc, run, todo, faults>> BY ONLY <2>4, Zenon DEF MarkCreating, Write, Go, Rotate, records, NoFault
    <3> QED BY ONLY TypeOK, <3>1, <3>2, <3>3 DEF TypeOK
  <2>5. ASSUME Create PROVE TypeOK'
    <3>1. cinder' \in [Volumes -> [Att -> CinderRecord]]
      BY ONLY TypeOK, <2>5, <1>0, <1>2, SetsCinder, SMTT(8) DEF TypeOK, Create, Call, Att
    <3>2. w' \in Worker
      BY ONLY TypeOK, <2>5, <1>0, <1>2, Goes, Visits, Values, Zenon DEF TypeOK, Create, Call, Steps, Exchange, HostSteps, Rpcs
    <3>3. rpc' \in Rpcs
      BY ONLY TypeOK, <2>5, Goes, Zenon DEF TypeOK, Create, Call, Steps, Exchange, HostSteps, Rpcs
    <3>4. NoFault \/ Fault BY ONLY <2>5, Zenon DEF Create, Call, Go, Raise, End, SetCinder
    <3>5. UNCHANGED <<root, nova, bdm, rotation, intent, local, gen, run, todo>> BY ONLY <2>5, Zenon DEF Create, Call, Go, Raise, End, SetCinder, records
    <3> QED BY ONLY Counts, TypeOK, <3>1, <3>2, <3>3, <3>4, <3>5 DEF TypeOK
  <2>6. ASSUME NameCreated PROVE TypeOK'
    <3>1. rotation' \in [Volumes -> Phases]
      BY ONLY TypeOK, <2>6, <1>0, <1>2, SetsRecords, Zenon DEF TypeOK, NameCreated, Write, Phases, Terminal
    <3>2. w' \in Worker
      BY ONLY TypeOK, <2>6, <1>0, <1>2, Goes, Visits, Values, Zenon DEF TypeOK, NameCreated, Write, Steps, Exchange, HostSteps, Rpcs
    <3>3. UNCHANGED <<root, nova, bdm, cinder, intent, local, gen, rpc, run, todo, faults>> BY ONLY <2>6, Zenon DEF NameCreated, Write, Go, Rotate, records, NoFault
    <3> QED BY ONLY TypeOK, <3>1, <3>2, <3>3 DEF TypeOK
  <2>7. ASSUME DeleteOld PROVE TypeOK'
    <3>1. cinder' \in [Volumes -> [Att -> CinderRecord]]
      BY ONLY TypeOK, <2>7, <1>0, <1>2, SetsCinder, SMTT(8) DEF TypeOK, DeleteOld, Call, Here, Att
    <3>2. w' \in Worker
      BY ONLY TypeOK, <2>7, <1>0, <1>2, Goes, Visits, Values, Zenon DEF TypeOK, DeleteOld, Call, Steps, Exchange, HostSteps, Rpcs
    <3>3. rpc' \in Rpcs
      BY ONLY TypeOK, <2>7, Goes, Zenon DEF TypeOK, DeleteOld, Call, Steps, Exchange, HostSteps, Rpcs
    <3>4. NoFault \/ Fault BY ONLY <2>7, Zenon DEF DeleteOld, Call, Go, Raise, End, SetCinder, Here
    <3>5. UNCHANGED <<root, nova, bdm, rotation, intent, local, gen, run, todo>> BY ONLY <2>7, Zenon DEF DeleteOld, Call, Go, Raise, End, SetCinder, Here, records
    <3> QED BY ONLY Counts, TypeOK, <3>1, <3>2, <3>3, <3>4, <3>5 DEF TypeOK
  <2>8. ASSUME MarkDeleted PROVE TypeOK'
    <3>1. rotation' \in [Volumes -> Phases]
      BY ONLY TypeOK, <2>8, <1>0, <1>2, SetsRecords, Zenon DEF TypeOK, MarkDeleted, Write, Phases, Terminal
    <3>2. w' \in Worker
      BY ONLY TypeOK, <2>8, <1>0, <1>2, Goes, Visits, Values, Zenon DEF TypeOK, MarkDeleted, Write, Steps, Exchange, HostSteps, Rpcs
    <3>3. UNCHANGED <<root, nova, bdm, cinder, intent, local, gen, rpc, run, todo, faults>> BY ONLY <2>8, Zenon DEF MarkDeleted, Write, Go, Rotate, records, NoFault
    <3> QED BY ONLY TypeOK, <3>1, <3>2, <3>3 DEF TypeOK
  <2>9. ASSUME SwitchBdm PROVE TypeOK'
    <3>1. bdm' \in [Volumes -> BdmRecord]
      BY ONLY TypeOK, <2>9, <1>0, <1>2, SetsBdm, SMTT(8) DEF TypeOK, SwitchBdm, Call, Here, Owner, BdmRecord, Att, Absent
    <3>2. w' \in Worker
      BY ONLY TypeOK, <2>9, <1>0, <1>2, Goes, Visits, Values, Zenon DEF TypeOK, SwitchBdm, Call, Steps, Exchange, HostSteps, Rpcs
    <3>3. rpc' \in Rpcs
      BY ONLY TypeOK, <2>9, Goes, Zenon DEF TypeOK, SwitchBdm, Call, Steps, Exchange, HostSteps, Rpcs
    <3>4. NoFault \/ Fault BY ONLY <2>9, Zenon DEF SwitchBdm, Call, Go, Raise, End, Here, Owner
    <3>5. UNCHANGED <<root, nova, cinder, rotation, intent, local, gen, run, todo>> BY ONLY <2>9, Zenon DEF SwitchBdm, Call, Go, Raise, End, Here, Owner, records
    <3> QED BY ONLY Counts, TypeOK, <3>1, <3>2, <3>3, <3>4, <3>5 DEF TypeOK
  <2>10. ASSUME MarkRotated PROVE TypeOK'
    <3>1. rotation' \in [Volumes -> Phases]
      BY ONLY TypeOK, <2>10, <1>0, <1>2, SetsRecords, Zenon DEF TypeOK, MarkRotated, Write, Phases, Terminal
    <3>2. w' \in Worker
      <4>1. \/ \E v \in w.left : w' = [w EXCEPT !.pc = "advance", !.vol = v, !.left = @ \ {v}, !.att = bdm[v].att]
            \/ Go("update") \/ Go("release") \/ End("leave") \/ End("none")
        BY ONLY <2>10, Zenon DEF MarkRotated, Write, Rotated, Visit
      <4>2. ASSUME NEW v \in w.left, w' = [w EXCEPT !.pc = "advance", !.vol = v, !.left = @ \ {v}, !.att = bdm[v].att]
            PROVE  w' \in Worker
        <5>1. v \in Volumes BY ONLY Visits, TypeOK, Zenon
        <5>2. "advance" \in Steps BY DEF Steps, Exchange
        <5> QED BY ONLY <4>2, <5>1, <5>2, Visits, TypeOK, Zenon
      <4> QED BY ONLY <4>1, <4>2, TypeOK, Goes, Visits, Zenon DEF Steps, Exchange, Rpcs
    <3>3. rpc' \in Rpcs
      BY ONLY TypeOK, <2>10, Goes, Zenon DEF TypeOK, MarkRotated, Write, Rotated, Visit, Steps, Exchange, HostSteps, Rpcs
    <3>4. NoFault \/ Fault BY ONLY <2>10, Zenon DEF MarkRotated, Write, Go, Rotate, Rotated, Visit, End
    <3>5. UNCHANGED <<root, nova, bdm, cinder, intent, local, gen, run, todo>> BY ONLY <2>10, Zenon DEF MarkRotated, Write, Go, Rotate, Rotated, Visit, End, records
    <3> QED BY ONLY Counts, TypeOK, <3>1, <3>2, <3>3, <3>4, <3>5 DEF TypeOK
  <2> QED BY ONLY <1>2, <2>1, <2>2, <2>3, <2>4, <2>5, <2>6, <2>7, <2>8, <2>9, <2>10 DEF RotateStep
<1>3. ASSUME w # Idle, RollbackStep PROVE TypeOK'
  <2>1. ASSUME Dispatch PROVE TypeOK'
    <3>1. w' \in Worker
      BY ONLY TypeOK, <2>1, <1>0, <1>3, Goes, Visits, Values, Zenon DEF TypeOK, Dispatch, Read, Steps, Exchange, HostSteps, Rpcs
    <3>2. rpc' \in Rpcs
      BY ONLY TypeOK, <2>1, Goes, Zenon DEF TypeOK, Dispatch, Read, Steps, Exchange, HostSteps, Rpcs
    <3>3. NoFault \/ Fault BY ONLY <2>1, Zenon DEF Dispatch, Read, Go, Raise, End, Phase, Named, Boot
    <3>4. UNCHANGED <<root, nova, bdm, cinder, rotation, intent, local, gen, run, todo>> BY ONLY <2>1, Zenon DEF Dispatch, Read, Go, Raise, End, Phase, Named, Boot, records
    <3> QED BY ONLY Counts, TypeOK, <3>1, <3>2, <3>3, <3>4 DEF TypeOK
  <2>2. ASSUME Fence PROVE TypeOK'
    <3>1. w' \in Worker
      BY ONLY TypeOK, <2>2, <1>0, <1>3, Goes, Visits, Values, Zenon DEF TypeOK, Fence, Read, RollBack, Steps, Exchange, HostSteps, Rpcs
    <3>2. rpc' \in Rpcs
      BY ONLY TypeOK, <2>2, Goes, Zenon DEF TypeOK, Fence, Read, RollBack, Steps, Exchange, HostSteps, Rpcs
    <3>3. NoFault \/ Fault BY ONLY <2>2, Zenon DEF Fence, Read, RollBack, Go, Raise, End, Phase, Boot, Here
    <3>4. UNCHANGED <<root, nova, bdm, cinder, rotation, intent, local, gen, run, todo>> BY ONLY <2>2, Zenon DEF Fence, Read, RollBack, Go, Raise, End, Phase, Boot, Here, records
    <3> QED BY ONLY Counts, TypeOK, <3>1, <3>2, <3>3, <3>4 DEF TypeOK
  <2>3. ASSUME RejectNew PROVE TypeOK'
    <3>1. w' \in Worker
      BY ONLY TypeOK, <2>3, <1>0, <1>3, Goes, Visits, Values, Zenon DEF TypeOK, RejectNew, Decide, Steps, Exchange, HostSteps, Rpcs
    <3>2. rpc' \in Rpcs
      BY ONLY TypeOK, <2>3, Goes, Zenon DEF TypeOK, RejectNew, Decide, Steps, Exchange, HostSteps, Rpcs
    <3>3. UNCHANGED <<root, nova, bdm, cinder, rotation, intent, local, gen, run, todo, faults>> BY ONLY <2>3, Zenon DEF RejectNew, Decide, Go, Raise, End, Here, records, NoFault
    <3> QED BY ONLY TypeOK, <3>1, <3>2, <3>3 DEF TypeOK
  <2>4. ASSUME DeleteNew PROVE TypeOK'
    <3>1. cinder' \in [Volumes -> [Att -> CinderRecord]]
      BY ONLY TypeOK, <2>4, <1>0, <1>3, SetsCinder, SMTT(8) DEF TypeOK, DeleteNew, Call, Att
    <3>2. w' \in Worker
      BY ONLY TypeOK, <2>4, <1>0, <1>3, Goes, Visits, Values, Zenon DEF TypeOK, DeleteNew, Call, Steps, Exchange, HostSteps, Rpcs
    <3>3. rpc' \in Rpcs
      BY ONLY TypeOK, <2>4, Goes, Zenon DEF TypeOK, DeleteNew, Call, Steps, Exchange, HostSteps, Rpcs
    <3>4. NoFault \/ Fault BY ONLY <2>4, Zenon DEF DeleteNew, Call, Go, Raise, End, SetCinder
    <3>5. UNCHANGED <<root, nova, bdm, rotation, intent, local, gen, run, todo>> BY ONLY <2>4, Zenon DEF DeleteNew, Call, Go, Raise, End, SetCinder, records
    <3> QED BY ONLY Counts, TypeOK, <3>1, <3>2, <3>3, <3>4, <3>5 DEF TypeOK
  <2>5. ASSUME MarkRetained PROVE TypeOK'
    <3>1. rotation' \in [Volumes -> Phases]
      BY ONLY TypeOK, <2>5, <1>0, <1>3, SetsRecords, Zenon DEF TypeOK, MarkRetained, Write, Boot, Phases, Terminal
    <3>2. w' \in Worker
      BY ONLY TypeOK, <2>5, <1>0, <1>3, Goes, Visits, Values, Zenon DEF TypeOK, MarkRetained, Write, Steps, Exchange, HostSteps, Rpcs
    <3>3. UNCHANGED <<root, nova, bdm, cinder, intent, local, gen, rpc, run, todo, faults>> BY ONLY <2>5, Zenon DEF MarkRetained, Write, Go, Rotate, Boot, records, NoFault
    <3> QED BY ONLY TypeOK, <3>1, <3>2, <3>3 DEF TypeOK
  <2>6. ASSUME AdoptNew PROVE TypeOK'
    <3>1. rotation' \in [Volumes -> Phases]
      BY ONLY TypeOK, <2>6, <1>0, <1>3, SetsRecords, Zenon DEF TypeOK, AdoptNew, Write, Here, Phases, Terminal
    <3>2. w' \in Worker
      BY ONLY TypeOK, <2>6, <1>0, <1>3, Goes, Visits, Values, Zenon DEF TypeOK, AdoptNew, Write, Steps, Exchange, HostSteps, Rpcs
    <3>3. UNCHANGED <<root, nova, bdm, cinder, intent, local, gen, rpc, run, todo, faults>> BY ONLY <2>6, Zenon DEF AdoptNew, Write, Go, Rotate, Here, records, NoFault
    <3> QED BY ONLY TypeOK, <3>1, <3>2, <3>3 DEF TypeOK
  <2>7. ASSUME UpdateNew PROVE TypeOK'
    <3>1. cinder' \in [Volumes -> [Att -> CinderRecord]]
      BY ONLY TypeOK, <2>7, <1>0, <1>3, SetsCinder, SMTT(8) DEF TypeOK, UpdateNew, Call, Decide, Here, Att
    <3>2. w' \in Worker
      BY ONLY TypeOK, <2>7, <1>0, <1>3, Goes, Visits, Values, Zenon DEF TypeOK, UpdateNew, Call, Decide, Steps, Exchange, HostSteps, Rpcs
    <3>3. rpc' \in Rpcs
      BY ONLY TypeOK, <2>7, Goes, Zenon DEF TypeOK, UpdateNew, Call, Decide, Steps, Exchange, HostSteps, Rpcs
    <3>4. NoFault \/ Fault BY ONLY <2>7, Zenon DEF UpdateNew, Call, Decide, Go, Raise, End, SetCinder, Here
    <3>5. UNCHANGED <<root, nova, bdm, rotation, intent, local, gen, run, todo>> BY ONLY <2>7, Zenon DEF UpdateNew, Call, Decide, Go, Raise, End, SetCinder, Here, records
    <3> QED BY ONLY Counts, TypeOK, <3>1, <3>2, <3>3, <3>4, <3>5 DEF TypeOK
  <2>8. ASSUME SaveBdm PROVE TypeOK'
    <3>0. Here("new").conn \in {"source", "target"}
      <4>1. w.pc = "save" BY ONLY <2>8, Zenon DEF SaveBdm, Call
      <4>2. w.op # "none" /\ w.vol \in Volumes BY ONLY StateInv, <1>0, <1>3 DEF StateInv, WorkInv
      <4>3. StepInv(w.vol) /\ WorkInv /\ HostInv(w.vol) BY ONLY StateInv, <4>2 DEF StateInv, VolumeInv, RowInv, AtStep
      <4>4. w.status \in Failed /\ rotation[w.vol] = "bdm-rotated" /\ Used(w.vol, "new")
        BY ONLY <4>1, <4>3 DEF StepInv, RollPcs
      <4>5. w.op = "recover" /\ w.host = "source" /\ nova.host = "source"
        BY ONLY <4>1, <4>2, <4>3, <4>4, TypeOK DEF TypeOK, Worker, WorkInv, StepInv, RollPcs, Failed, Exchange
      <4>6. cinder[w.vol]["new"].conn = "source"
        BY ONLY <4>3, <4>4, <4>5 DEF HostInv, Reserved, Used
      <4> QED BY ONLY <4>6 DEF Here
    <3>1. bdm' \in [Volumes -> BdmRecord]
      <4>1. bdm' \in {bdm, [bdm EXCEPT ![w.vol].conn = Here("new").conn]} BY ONLY <2>8 DEF SaveBdm, Call
      <4> QED BY ONLY <4>1, TypeOK, <1>0, <1>3, <3>0, SetsBdm DEF TypeOK
    <3>2. w' \in Worker
      BY ONLY TypeOK, <2>8, <1>0, <1>3, Goes, Visits, Values, Zenon DEF TypeOK, SaveBdm, Call, Steps, Exchange, HostSteps, Rpcs
    <3>3. rpc' \in Rpcs
      BY ONLY TypeOK, <2>8, Goes, Zenon DEF TypeOK, SaveBdm, Call, Steps, Exchange, HostSteps, Rpcs
    <3>4. NoFault \/ Fault BY ONLY <2>8, Zenon DEF SaveBdm, Call, Go, Raise, End, Here, Boot
    <3>5. UNCHANGED <<root, nova, cinder, rotation, intent, local, gen, run, todo>> BY ONLY <2>8, Zenon DEF SaveBdm, Call, Go, Raise, End, Here, Boot, records
    <3> QED BY ONLY Counts, TypeOK, <3>1, <3>2, <3>3, <3>4, <3>5 DEF TypeOK
  <2>9. ASSUME Restart PROVE TypeOK'
    <3>1. w' \in Worker
      BY ONLY TypeOK, <2>9, <1>0, <1>3, Goes, Visits, Values, Zenon DEF TypeOK, Restart, Decide, Steps, Exchange, HostSteps, Rpcs
    <3>2. rpc' \in Rpcs
      BY ONLY TypeOK, <2>9, Goes, Zenon DEF TypeOK, Restart, Decide, Steps, Exchange, HostSteps, Rpcs
    <3>3. UNCHANGED <<root, nova, bdm, cinder, rotation, intent, local, gen, run, todo, faults>> BY ONLY <2>9, Zenon DEF Restart, Decide, Go, Raise, End, Journal, Disconnecting, records, NoFault
    <3> QED BY ONLY TypeOK, <3>1, <3>2, <3>3 DEF TypeOK
  <2>10. ASSUME Replay PROVE TypeOK'
    <3>1. w' \in Worker
      BY ONLY TypeOK, <2>10, <1>0, <1>3, Goes, Visits, Values, Zenon DEF TypeOK, Replay, Decide, Steps, Exchange, HostSteps, Rpcs
    <3>2. rpc' \in Rpcs
      BY ONLY TypeOK, <2>10, Goes, Zenon DEF TypeOK, Replay, Decide, Steps, Exchange, HostSteps, Rpcs
    <3>3. UNCHANGED <<root, nova, bdm, cinder, rotation, intent, local, gen, run, todo, faults>> BY ONLY <2>10, Zenon DEF Replay, Decide, Go, Raise, End, Journal, Disconnecting, Named, Here, records, NoFault
    <3> QED BY ONLY TypeOK, <3>1, <3>2, <3>3 DEF TypeOK
  <2>11. ASSUME Complete PROVE TypeOK'
    <3>1. cinder' \in [Volumes -> [Att -> CinderRecord]]
      <4>1. cinder' \in {cinder, [cinder EXCEPT ![w.vol][Owner].status = "attached"]} BY ONLY <2>11 DEF Complete, Call
      <4> QED BY ONLY <4>1, TypeOK, <1>0, <1>3, SetsCinder DEF TypeOK
    <3>2. w' \in Worker
      BY ONLY TypeOK, <2>11, <1>0, <1>3, Goes, Visits, Values, Zenon DEF TypeOK, Complete, Call, Read, Steps, Exchange, HostSteps, Rpcs
    <3>3. rpc' \in Rpcs
      BY ONLY TypeOK, <2>11, Goes, Zenon DEF TypeOK, Complete, Call, Read, Steps, Exchange, HostSteps, Rpcs
    <3>4. NoFault \/ Fault BY ONLY <2>11, Zenon DEF Complete, Call, Read, Go, Raise, End, Here, Owner
    <3>5. UNCHANGED <<root, nova, bdm, rotation, intent, local, gen, run, todo>> BY ONLY <2>11, Zenon DEF Complete, Call, Read, Go, Raise, End, Here, Owner, records
    <3> QED BY ONLY Counts, TypeOK, <3>1, <3>2, <3>3, <3>4, <3>5 DEF TypeOK
  <2>12. ASSUME IntentOnly PROVE TypeOK'
    <3>1. w' \in Worker
      BY ONLY TypeOK, <2>12, <1>0, <1>3, Goes, Visits, Values, Zenon DEF TypeOK, IntentOnly, Read, Present, Steps, Exchange, HostSteps, Rpcs
    <3>2. rpc' \in Rpcs
      BY ONLY TypeOK, <2>12, Goes, Zenon DEF TypeOK, IntentOnly, Read, Present, Steps, Exchange, HostSteps, Rpcs
    <3>3. NoFault \/ Fault BY ONLY <2>12, Zenon DEF IntentOnly, Read, Go, Raise, End, Named, Present
    <3>4. UNCHANGED <<root, nova, bdm, cinder, rotation, intent, local, gen, run, todo>> BY ONLY <2>12, Zenon DEF IntentOnly, Read, Go, Raise, End, Named, Present, records
    <3> QED BY ONLY Counts, TypeOK, <3>1, <3>2, <3>3, <3>4 DEF TypeOK
  <2>13. ASSUME MarkDone PROVE TypeOK'
    <3>1. gen' \in {"owned", "done", "retired"}
      BY ONLY TypeOK, <2>13, SMTT(8) DEF TypeOK, MarkDone, Call
    <3>2. w' \in Worker
      BY ONLY TypeOK, <2>13, <1>0, <1>3, Goes, Visits, Values, Zenon DEF TypeOK, MarkDone, Call, Steps, Exchange, HostSteps, Rpcs
    <3>3. rpc' \in Rpcs
      BY ONLY TypeOK, <2>13, Goes, Zenon DEF TypeOK, MarkDone, Call, Steps, Exchange, HostSteps, Rpcs
    <3>4. NoFault \/ Fault BY ONLY <2>13, Zenon DEF MarkDone, Call, Go, Raise, End
    <3>5. UNCHANGED <<root, nova, bdm, cinder, rotation, intent, local, run, todo>> BY ONLY <2>13, Zenon DEF MarkDone, Call, Go, Raise, End, records
    <3> QED BY ONLY Counts, TypeOK, <3>1, <3>2, <3>3, <3>4, <3>5 DEF TypeOK
  <2>14. ASSUME ReplaceIntent PROVE TypeOK'
    <3>1. intent' \in [Volumes -> Att \cup {"none"}]
      BY ONLY TypeOK, <2>14, <1>0, <1>3, SetsRecords, Zenon DEF TypeOK, ReplaceIntent, Write, Att
    <3>2. w' \in Worker
      BY ONLY TypeOK, <2>14, <1>0, <1>3, Goes, Visits, Values, Zenon DEF TypeOK, ReplaceIntent, Write, Steps, Exchange, HostSteps, Rpcs
    <3>3. UNCHANGED <<root, nova, bdm, cinder, rotation, local, gen, rpc, run, todo, faults>> BY ONLY <2>14, Zenon DEF ReplaceIntent, Write, Go, SetIntent, Owner, records, NoFault
    <3> QED BY ONLY TypeOK, <3>1, <3>2, <3>3 DEF TypeOK
  <2>15. ASSUME ProveGuest PROVE TypeOK'
    <3>1. w' \in Worker
      BY ONLY TypeOK, <2>15, <1>0, <1>3, Goes, Visits, Values, Zenon DEF TypeOK, ProveGuest, Read, Steps, Exchange, HostSteps, Rpcs
    <3>2. rpc' \in Rpcs
      BY ONLY TypeOK, <2>15, Goes, Zenon DEF TypeOK, ProveGuest, Read, Steps, Exchange, HostSteps, Rpcs
    <3>3. NoFault \/ Fault BY ONLY <2>15, Zenon DEF ProveGuest, Read, Go, Raise, End, Boot, Phase
    <3>4. UNCHANGED <<root, nova, bdm, cinder, rotation, intent, local, gen, run, todo>> BY ONLY <2>15, Zenon DEF ProveGuest, Read, Go, Raise, End, Boot, Phase, records
    <3> QED BY ONLY Counts, TypeOK, <3>1, <3>2, <3>3, <3>4 DEF TypeOK
  <2>16. ASSUME RolledBack PROVE TypeOK'
    <3>1. rotation' \in [Volumes -> Phases]
      BY ONLY TypeOK, <2>16, <1>0, <1>3, SetsRecords, Zenon DEF TypeOK, RolledBack, Write, Boot, Phases, Terminal
    <3>2. w' \in Worker
      BY ONLY TypeOK, <2>16, <1>0, <1>3, Goes, Visits, Values, Zenon DEF TypeOK, RolledBack, Write, Steps, Exchange, HostSteps, Rpcs
    <3>3. UNCHANGED <<root, nova, bdm, cinder, intent, local, gen, rpc, run, todo, faults>> BY ONLY <2>16, Zenon DEF RolledBack, Write, Go, Rotate, Boot, Owner, records, NoFault
    <3> QED BY ONLY TypeOK, <3>1, <3>2, <3>3 DEF TypeOK
  <2>17. ASSUME CancelIntent PROVE TypeOK'
    <3>1. intent' \in [Volumes -> Att \cup {"none"}]
      BY ONLY TypeOK, <2>17, <1>0, <1>3, SetsRecords, Zenon DEF TypeOK, CancelIntent, Write, Phase, Att
    <3>2. w' \in Worker
      BY ONLY TypeOK, <2>17, <1>0, <1>3, Goes, Visits, Values, Zenon DEF TypeOK, CancelIntent, Write, Steps, Exchange, HostSteps, Rpcs
    <3>3. UNCHANGED <<root, nova, bdm, cinder, rotation, local, gen, rpc, run, todo, faults>> BY ONLY <2>17, Zenon DEF CancelIntent, Write, Go, SetIntent, Phase, records, NoFault
    <3> QED BY ONLY TypeOK, <3>1, <3>2, <3>3 DEF TypeOK
  <2>18. ASSUME CancelRotation PROVE TypeOK'
    <3>1. rotation' \in [Volumes -> Phases]
      BY ONLY TypeOK, <2>18, <1>0, <1>3, SetsRecords, Zenon DEF TypeOK, CancelRotation, Write, Phase, Phases, Terminal
    <3>2. w' \in Worker
      BY ONLY TypeOK, <2>18, <1>0, <1>3, Goes, Visits, Values, Zenon DEF TypeOK, CancelRotation, Write, Steps, Exchange, HostSteps, Rpcs
    <3>3. rpc' \in Rpcs
      BY ONLY TypeOK, <2>18, Goes, Zenon DEF TypeOK, CancelRotation, Write, Steps, Exchange, HostSteps, Rpcs
    <3>4. NoFault \/ Fault BY ONLY <2>18, Zenon DEF CancelRotation, Write, Go, End, Rotate, Phase
    <3>5. UNCHANGED <<root, nova, bdm, cinder, intent, local, gen, run, todo>> BY ONLY <2>18, Zenon DEF CancelRotation, Write, Go, End, Rotate, Phase, records
    <3> QED BY ONLY Counts, TypeOK, <3>1, <3>2, <3>3, <3>4, <3>5 DEF TypeOK
  <2>19. ASSUME Finalize PROVE TypeOK'
    <3>1. gen' \in {"owned", "done", "retired"}
      BY ONLY TypeOK, <2>19, SMTT(8) DEF TypeOK, Finalize, Decide, Call
    <3>2. w' \in Worker
      BY ONLY TypeOK, <2>19, <1>0, <1>3, Goes, Visits, Values, Zenon DEF TypeOK, Finalize, Decide, Call, Steps, Exchange, HostSteps, Rpcs
    <3>3. rpc' \in Rpcs
      BY ONLY TypeOK, <2>19, Goes, Zenon DEF TypeOK, Finalize, Decide, Call, Steps, Exchange, HostSteps, Rpcs
    <3>4. NoFault \/ Fault BY ONLY <2>19, Zenon DEF Finalize, Decide, Call, Go, Raise, End
    <3>5. UNCHANGED <<root, nova, bdm, cinder, rotation, intent, local, run, todo>> BY ONLY <2>19, Zenon DEF Finalize, Decide, Call, Go, Raise, End, records
    <3> QED BY ONLY Counts, TypeOK, <3>1, <3>2, <3>3, <3>4, <3>5 DEF TypeOK
  <2>20. ASSUME Retire PROVE TypeOK'
    <3>1. w' \in Worker
      BY ONLY TypeOK, <2>20, <1>0, <1>3, Goes, Visits, Values, Zenon DEF TypeOK, Retire, Read, Steps, Exchange, HostSteps, Rpcs
    <3>2. rpc' \in Rpcs
      BY ONLY TypeOK, <2>20, Goes, Zenon DEF TypeOK, Retire, Read, ReleaseProved, RollbackProved, Steps, Exchange, HostSteps, Rpcs
    <3>3. NoFault \/ Fault BY ONLY <2>20, Zenon DEF Retire, Read, Go, Raise, End, Journal, Phase, ReleaseProved, RollbackProved, Named, Here, Boot
    <3>4. UNCHANGED <<root, nova, bdm, cinder, rotation, intent, local, gen, run, todo>> BY ONLY <2>20, Zenon DEF Retire, Read, Go, Raise, End, Journal, Phase, ReleaseProved, RollbackProved, Named, Here, Boot, records
    <3> QED BY ONLY Counts, TypeOK, <3>1, <3>2, <3>3, <3>4 DEF TypeOK
  <2> QED BY ONLY <1>3, <2>1, <2>2, <2>3, <2>4, <2>5, <2>6, <2>7, <2>8, <2>9, <2>10, <2>11, <2>12, <2>13, <2>14, <2>15, <2>16, <2>17, <2>18, <2>19, <2>20 DEF RollbackStep
<1>4. ASSUME w # Idle, HostStep PROVE TypeOK'
  <2>1. ASSUME Disconnect PROVE TypeOK'
    <3>1. local' \in [Volumes -> LocalRecord]
      <4>1. local' \in {local, SetLocal("rolled-back", FALSE, FALSE), SetLocal(Journal, FALSE, FALSE)} BY ONLY <2>1 DEF Disconnect, HostCall
      <4>2. /\ SetLocal("rolled-back", FALSE, FALSE) \in [Volumes -> LocalRecord]
           /\ SetLocal(Journal, FALSE, FALSE) \in [Volumes -> LocalRecord]
        BY ONLY TypeOK, <1>0, <1>4, SetsLocal DEF Journals
      <4>3. local \in [Volumes -> LocalRecord] BY DEF TypeOK
      <4> QED BY ONLY <4>1, <4>2, <4>3
    <3>2. w' \in Worker
      BY ONLY TypeOK, <2>1, <1>0, <1>4, Goes, Visits, Values, Zenon DEF TypeOK, Disconnect, HostCall, Steps, Exchange, HostSteps, Rpcs
    <3>3. rpc' \in Rpcs
      BY ONLY TypeOK, <2>1, Goes, Zenon DEF TypeOK, Disconnect, HostCall, Steps, Exchange, HostSteps, Rpcs
    <3>4. NoFault \/ Fault BY ONLY <2>1, Zenon DEF Disconnect, HostCall, Go, Raise, End, SetLocal, Journal
    <3>5. UNCHANGED <<root, nova, bdm, cinder, rotation, intent, gen, run, todo>> BY ONLY <2>1, Zenon DEF Disconnect, HostCall, Go, Raise, End, SetLocal, Journal, records
    <3> QED BY ONLY Counts, TypeOK, <3>1, <3>2, <3>3, <3>4, <3>5 DEF TypeOK
  <2>2. ASSUME Forget PROVE TypeOK'
    <3>1. local' \in [Volumes -> LocalRecord]
      BY ONLY TypeOK, <2>2, <1>0, <1>4, SetsLocal, Values, Zenon DEF TypeOK, Forget, HostWrite, Write, Journals
    <3>2. w' \in Worker
      BY ONLY TypeOK, <2>2, <1>0, <1>4, Goes, Visits, Values, Zenon DEF TypeOK, Forget, HostWrite, Write, Steps, Exchange, HostSteps, Rpcs
    <3>3. UNCHANGED <<root, nova, bdm, cinder, rotation, intent, gen, rpc, run, todo, faults>> BY ONLY <2>2, Zenon DEF Forget, HostWrite, Write, Go, records, NoFault
    <3> QED BY ONLY TypeOK, <3>1, <3>2, <3>3 DEF TypeOK
  <2>3. ASSUME Announce PROVE TypeOK'
    <3>1. local' \in [Volumes -> LocalRecord]
      BY ONLY TypeOK, <2>3, <1>0, <1>4, SetsLocal, Values, Zenon DEF TypeOK, Announce, HostWrite, Write, Journals
    <3>2. w' \in Worker
      BY ONLY TypeOK, <2>3, <1>0, <1>4, Goes, Visits, Values, Zenon DEF TypeOK, Announce, HostWrite, Write, Steps, Exchange, HostSteps, Rpcs
    <3>3. UNCHANGED <<root, nova, bdm, cinder, rotation, intent, gen, rpc, run, todo, faults>> BY ONLY <2>3, Zenon DEF Announce, HostWrite, Write, Go, records, NoFault
    <3> QED BY ONLY TypeOK, <3>1, <3>2, <3>3 DEF TypeOK
  <2>4. ASSUME Map PROVE TypeOK'
    <3>1. local' \in [Volumes -> LocalRecord]
      BY ONLY TypeOK, <2>4, <1>0, <1>4, SetsLocal, Values, Zenon DEF TypeOK, Map, HostCall, Journals
    <3>2. w' \in Worker
      BY ONLY TypeOK, <2>4, <1>0, <1>4, Goes, Visits, Values, Zenon DEF TypeOK, Map, HostCall, Steps, Exchange, HostSteps, Rpcs
    <3>3. rpc' \in Rpcs
      BY ONLY TypeOK, <2>4, Goes, Zenon DEF TypeOK, Map, HostCall, Steps, Exchange, HostSteps, Rpcs
    <3>4. NoFault \/ Fault BY ONLY <2>4, Zenon DEF Map, HostCall, Go, Raise, End, SetLocal, Journal
    <3>5. UNCHANGED <<root, nova, bdm, cinder, rotation, intent, gen, run, todo>> BY ONLY <2>4, Zenon DEF Map, HostCall, Go, Raise, End, SetLocal, Journal, records
    <3> QED BY ONLY Counts, TypeOK, <3>1, <3>2, <3>3, <3>4, <3>5 DEF TypeOK
  <2>5. ASSUME Connected PROVE TypeOK'
    <3>1. local' \in [Volumes -> LocalRecord]
      BY ONLY TypeOK, <2>5, <1>0, <1>4, SetsLocal, Values, Zenon DEF TypeOK, Connected, HostWrite, Write, Journals
    <3>2. w' \in Worker
      BY ONLY TypeOK, <2>5, <1>0, <1>4, Goes, Visits, Values, Zenon DEF TypeOK, Connected, HostWrite, Write, Steps, Exchange, HostSteps, Rpcs
    <3>3. UNCHANGED <<root, nova, bdm, cinder, rotation, intent, gen, rpc, run, todo, faults>> BY ONLY <2>5, Zenon DEF Connected, HostWrite, Write, Go, records, NoFault
    <3> QED BY ONLY TypeOK, <3>1, <3>2, <3>3 DEF TypeOK
  <2>6. ASSUME Expose PROVE TypeOK'
    <3>1. local' \in [Volumes -> LocalRecord]
      BY ONLY TypeOK, <2>6, <1>0, <1>4, SetsLocal, Values, Zenon DEF TypeOK, Expose, HostCall, Journals
    <3>2. w' \in Worker
      BY ONLY TypeOK, <2>6, <1>0, <1>4, Goes, Visits, Values, Zenon DEF TypeOK, Expose, HostCall, Steps, Exchange, HostSteps, Rpcs
    <3>3. rpc' \in Rpcs
      BY ONLY TypeOK, <2>6, Goes, Zenon DEF TypeOK, Expose, HostCall, Steps, Exchange, HostSteps, Rpcs
    <3>4. NoFault \/ Fault BY ONLY <2>6, Zenon DEF Expose, HostCall, Go, Raise, End, SetLocal, Journal
    <3>5. UNCHANGED <<root, nova, bdm, cinder, rotation, intent, gen, run, todo>> BY ONLY <2>6, Zenon DEF Expose, HostCall, Go, Raise, End, SetLocal, Journal, records
    <3> QED BY ONLY Counts, TypeOK, <3>1, <3>2, <3>3, <3>4, <3>5 DEF TypeOK
  <2>7. ASSUME Undo PROVE TypeOK'
    <3>1. local' \in [Volumes -> LocalRecord]
      <4>1. local' \in {local, SetLocal("disconnecting", local[w.vol].mapped, FALSE)} BY ONLY <2>7 DEF Undo, HostCall
      <4>2. /\ SetLocal("disconnecting", local[w.vol].mapped, FALSE) \in [Volumes -> LocalRecord]
        BY ONLY TypeOK, <1>0, <1>4, SetsLocal DEF Journals
      <4>3. local \in [Volumes -> LocalRecord] BY DEF TypeOK
      <4> QED BY ONLY <4>1, <4>2, <4>3
    <3>2. w' \in Worker
      BY ONLY TypeOK, <2>7, <1>0, <1>4, Goes, Visits, Values, Zenon DEF TypeOK, Undo, HostCall, Steps, Exchange, HostSteps, Rpcs
    <3>3. rpc' \in Rpcs
      BY ONLY TypeOK, <2>7, Goes, Zenon DEF TypeOK, Undo, HostCall, Steps, Exchange, HostSteps, Rpcs
    <3>4. NoFault \/ Fault BY ONLY <2>7, Zenon DEF Undo, HostCall, Go, Raise, End, SetLocal, Journal
    <3>5. UNCHANGED <<root, nova, bdm, cinder, rotation, intent, gen, run, todo>> BY ONLY <2>7, Zenon DEF Undo, HostCall, Go, Raise, End, SetLocal, Journal, records
    <3> QED BY ONLY Counts, TypeOK, <3>1, <3>2, <3>3, <3>4, <3>5 DEF TypeOK
  <2>8. ASSUME Undone PROVE TypeOK'
    <3>1. local' \in [Volumes -> LocalRecord]
      <4>1. local' \in {local, SetLocal("none", FALSE, FALSE), SetLocal("disconnecting", FALSE, FALSE)} BY ONLY <2>8 DEF Undone, HostCall
      <4>2. /\ SetLocal("none", FALSE, FALSE) \in [Volumes -> LocalRecord]
           /\ SetLocal("disconnecting", FALSE, FALSE) \in [Volumes -> LocalRecord]
        BY ONLY TypeOK, <1>0, <1>4, SetsLocal DEF Journals
      <4>3. local \in [Volumes -> LocalRecord] BY DEF TypeOK
      <4> QED BY ONLY <4>1, <4>2, <4>3
    <3>2. w' \in Worker
      BY ONLY TypeOK, <2>8, <1>0, <1>4, Goes, Visits, Values, Zenon DEF TypeOK, Undone, HostCall, Steps, Exchange, HostSteps, Rpcs
    <3>3. rpc' \in Rpcs
      BY ONLY TypeOK, <2>8, Goes, Zenon DEF TypeOK, Undone, HostCall, Steps, Exchange, HostSteps, Rpcs
    <3>4. NoFault \/ Fault BY ONLY <2>8, Zenon DEF Undone, HostCall, Go, Raise, End, SetLocal, Journal
    <3>5. UNCHANGED <<root, nova, bdm, cinder, rotation, intent, gen, run, todo>> BY ONLY <2>8, Zenon DEF Undone, HostCall, Go, Raise, End, SetLocal, Journal, records
    <3> QED BY ONLY Counts, TypeOK, <3>1, <3>2, <3>3, <3>4, <3>5 DEF TypeOK
  <2>9. ASSUME Confirm PROVE TypeOK'
    <3>1. local' \in [Volumes -> LocalRecord]
      <4>1. local' \in {local, SetLocal("none", TRUE, TRUE)} BY ONLY <2>9 DEF Confirm, HostCall
      <4>2. /\ SetLocal("none", TRUE, TRUE) \in [Volumes -> LocalRecord]
        BY ONLY TypeOK, <1>0, <1>4, SetsLocal DEF Journals
      <4>3. local \in [Volumes -> LocalRecord] BY DEF TypeOK
      <4> QED BY ONLY <4>1, <4>2, <4>3
    <3>2. w' \in Worker
      BY ONLY TypeOK, <2>9, <1>0, <1>4, Goes, Visits, Values, Zenon DEF TypeOK, Confirm, HostCall, Steps, Exchange, HostSteps, Rpcs
    <3>3. rpc' \in Rpcs
      BY ONLY TypeOK, <2>9, Goes, Zenon DEF TypeOK, Confirm, HostCall, Steps, Exchange, HostSteps, Rpcs
    <3>4. NoFault \/ Fault BY ONLY <2>9, Zenon DEF Confirm, HostCall, Go, Raise, End, SetLocal, Journal
    <3>5. UNCHANGED <<root, nova, bdm, cinder, rotation, intent, gen, run, todo>> BY ONLY <2>9, Zenon DEF Confirm, HostCall, Go, Raise, End, SetLocal, Journal, records
    <3> QED BY ONLY Counts, TypeOK, <3>1, <3>2, <3>3, <3>4, <3>5 DEF TypeOK
  <2> QED BY ONLY <1>4, <2>1, <2>2, <2>3, <2>4, <2>5, <2>6, <2>7, <2>8, <2>9 DEF HostStep
<1>5. ASSUME w # Idle, FinishStep PROVE TypeOK'
  <2>1. ASSUME Release PROVE TypeOK'
    <3>1. local' \in [Volumes -> LocalRecord]
      BY ONLY TypeOK, <2>1, <1>0, <1>5, SetsLocal, Values, Zenon DEF TypeOK, Release, Call, Decide, Named, Here, Boot, Journals
    <3>2. w' \in Worker
      BY ONLY TypeOK, <2>1, <1>0, <1>5, Goes, Visits, Values, Zenon DEF TypeOK, Release, Call, Decide, Steps, Exchange, HostSteps, Rpcs
    <3>3. rpc' \in Rpcs
      BY ONLY TypeOK, <2>1, Goes, Zenon DEF TypeOK, Release, Call, Decide, Steps, Exchange, HostSteps, Rpcs
    <3>4. NoFault \/ Fault BY ONLY <2>1, Zenon DEF Release, Call, Decide, Go, Raise, End, Named, Here, Boot
    <3>5. UNCHANGED <<root, nova, bdm, cinder, rotation, intent, gen, run, todo>> BY ONLY <2>1, Zenon DEF Release, Call, Decide, Go, Raise, End, Named, Here, Boot, records
    <3> QED BY ONLY Counts, TypeOK, <3>1, <3>2, <3>3, <3>4, <3>5 DEF TypeOK
  <2>2. ASSUME Released PROVE TypeOK'
    <3>1. rotation' \in [Volumes -> Phases]
      BY ONLY TypeOK, <2>2, <1>0, <1>5, SetsRecords, Zenon DEF TypeOK, Released, Write, Phases, Terminal
    <3>2. w' \in Worker
      BY ONLY TypeOK, <2>2, <1>0, <1>5, Goes, Visits, Values, Zenon DEF TypeOK, Released, Write, Steps, Exchange, HostSteps, Rpcs
    <3>3. UNCHANGED <<root, nova, bdm, cinder, intent, local, gen, rpc, run, todo, faults>> BY ONLY <2>2, Zenon DEF Released, Write, Go, Rotate, records, NoFault
    <3> QED BY ONLY TypeOK, <3>1, <3>2, <3>3 DEF TypeOK
  <2>3. ASSUME Handoff PROVE TypeOK'
    <3>1. intent' \in [Volumes -> Att \cup {"none"}]
      <4>1. intent' \in {intent, SetIntent("rev")} BY ONLY <2>3 DEF Handoff
      <4> QED BY ONLY <4>1, TypeOK, <1>0, <1>5, SetsRecords DEF TypeOK, Att
    <3>2. w' \in Worker
      <4>1. \/ \E v \in w.left : w' = [w EXCEPT !.pc = "validate", !.vol = v, !.left = @ \ {v}, !.att = bdm[v].att]
            \/ End("attach") \/ Go("handed") \/ Raise
        BY ONLY <2>3, Zenon DEF Handoff, Visit
      <4>2. ASSUME NEW v \in w.left, w' = [w EXCEPT !.pc = "validate", !.vol = v, !.left = @ \ {v}, !.att = bdm[v].att]
            PROVE  w' \in Worker
        <5>1. v \in Volumes BY ONLY Visits, TypeOK, Zenon
        <5>2. "validate" \in Steps BY DEF Steps, Exchange
        <5> QED BY ONLY <4>2, <5>1, <5>2, Visits, TypeOK, Zenon
      <4> QED BY ONLY <4>1, <4>2, TypeOK, Goes, Visits, Zenon DEF Steps, Exchange, Rpcs
    <3>3. rpc' \in Rpcs
      BY ONLY TypeOK, <2>3, Goes, Zenon DEF TypeOK, Handoff, Visit, Steps, Exchange, HostSteps, Rpcs
    <3>4. NoFault \/ Fault BY ONLY <2>3, Zenon DEF Handoff, Visit, Go, Raise, End, Phase, Named, Here, Journal, Boot, SetIntent
    <3>5. UNCHANGED <<root, nova, bdm, cinder, rotation, local, gen, run, todo>> BY ONLY <2>3, Zenon DEF Handoff, Visit, Go, Raise, End, Phase, Named, Here, Journal, Boot, SetIntent, records
    <3> QED BY ONLY Counts, TypeOK, <3>1, <3>2, <3>3, <3>4, <3>5 DEF TypeOK
  <2>4. ASSUME HandedOff PROVE TypeOK'
    <3>1. rotation' \in [Volumes -> Phases]
      <4>1. rotation' \in {rotation, Rotate("none")} BY ONLY <2>4 DEF HandedOff
      <4> QED BY ONLY <4>1, TypeOK, <1>0, <1>5, SetsRecords DEF TypeOK, Phases
    <3>2. w' \in Worker
      <4>1. \/ \E v \in w.left : w' = [w EXCEPT !.pc = "validate", !.vol = v, !.left = @ \ {v}, !.att = bdm[v].att]
            \/ End("attach") \/ Raise
        BY ONLY <2>4, Zenon DEF HandedOff, Visit
      <4>2. ASSUME NEW v \in w.left, w' = [w EXCEPT !.pc = "validate", !.vol = v, !.left = @ \ {v}, !.att = bdm[v].att]
            PROVE  w' \in Worker
        <5>1. v \in Volumes BY ONLY Visits, TypeOK, Zenon
        <5>2. "validate" \in Steps BY DEF Steps, Exchange
        <5> QED BY ONLY <4>2, <5>1, <5>2, Visits, TypeOK, Zenon
      <4> QED BY ONLY <4>1, <4>2, TypeOK, Goes, Visits, Zenon DEF Steps, Exchange, Rpcs
    <3>3. rpc' \in Rpcs
      BY ONLY TypeOK, <2>4, Goes, Zenon DEF TypeOK, HandedOff, Visit, Steps, Exchange, HostSteps, Rpcs
    <3>4. NoFault \/ Fault BY ONLY <2>4, Zenon DEF HandedOff, Visit, Raise, End, Rotate
    <3>5. UNCHANGED <<root, nova, bdm, cinder, intent, local, gen, run, todo>> BY ONLY <2>4, Zenon DEF HandedOff, Visit, Raise, End, Rotate, records
    <3> QED BY ONLY Counts, TypeOK, <3>1, <3>2, <3>3, <3>4, <3>5 DEF TypeOK
  <2> QED BY ONLY <1>5, <2>1, <2>2, <2>3, <2>4 DEF FinishStep
<1>6. ASSUME NovaStep PROVE TypeOK'
  <2>1. ASSUME HandOver PROVE TypeOK'
    <3>1. nova' \in NovaRecord
      BY ONLY TypeOK, <2>1, SetsNova, SMTT(8) DEF TypeOK, HandOver, Move, source, Statuses, Failed, Done, NovaRecord
    <3>2. rpc' \in Rpcs
      BY ONLY TypeOK, <2>1, Goes, Zenon DEF TypeOK, HandOver, Move, source, Steps, Exchange, HostSteps, Rpcs
    <3>3. NoFault \/ Fault BY ONLY <2>1, Zenon DEF HandOver, Move, source
    <3>4. UNCHANGED <<root, bdm, cinder, rotation, intent, local, gen, w, run, todo>> BY ONLY <2>1, Zenon DEF HandOver, Move, source, records
    <3> QED BY ONLY Counts, TypeOK, <3>1, <3>2, <3>3, <3>4 DEF TypeOK
  <2>2. ASSUME ErrorOut PROVE TypeOK'
    <3>1. nova' \in NovaRecord
      BY ONLY TypeOK, <2>2, SetsNova, SMTT(8) DEF TypeOK, ErrorOut, source, Statuses, Failed, Done, NovaRecord
    <3>2. rpc' \in Rpcs
      BY ONLY TypeOK, <2>2, Goes, Zenon DEF TypeOK, ErrorOut, source, Steps, Exchange, HostSteps, Rpcs
    <3>3. UNCHANGED <<root, bdm, cinder, rotation, intent, local, gen, w, run, todo, faults>> BY ONLY <2>2, Zenon DEF ErrorOut, source, records, NoFault
    <3> QED BY ONLY TypeOK, <3>1, <3>2, <3>3 DEF TypeOK
  <2>3. ASSUME TargetAttach PROVE TypeOK'
    <3>1. bdm' \in [Volumes -> BdmRecord]
      BY ONLY TypeOK, <2>3, SetsBdm, SMTT(8) DEF TypeOK, TargetAttach, All, source, CinderRecord, BdmRecord, Att, Absent
    <3>2. cinder' \in [Volumes -> [Att -> CinderRecord]]
      BY ONLY TypeOK, <2>3, SetsCinder, SMTT(8) DEF TypeOK, TargetAttach, All, source, CinderRecord, Att
    <3>3. UNCHANGED <<root, nova, rotation, intent, local, gen, rpc, w, run, todo, faults>> BY ONLY <2>3, Zenon DEF TargetAttach, All, source, records, NoFault
    <3> QED BY ONLY TypeOK, <3>1, <3>2, <3>3 DEF TypeOK
  <2>4. ASSUME TargetFinish PROVE TypeOK'
    <3>1. cinder' \in [Volumes -> [Att -> CinderRecord]]
      <4>1. cinder \in [Volumes -> [Att -> CinderRecord]] BY DEF TypeOK
      <4>2. \A f \in [Att -> CinderRecord], a \in Att, r \in CinderRecord : [f EXCEPT ![a] = r] \in [Att -> CinderRecord]
        OBVIOUS
      <4>3. [status |-> "attached", conn |-> "target"] \in CinderRecord BY DEF CinderRecord
      <4>4. \A v \in Volumes : [cinder[v] EXCEPT !["new"] = [status |-> "attached", conn |-> "target"]] \in [Att -> CinderRecord]
        BY ONLY <4>1, <4>2, <4>3 DEF Att
      <4>5. cinder' = [v \in Volumes |-> [cinder[v] EXCEPT !["new"] = [status |-> "attached", conn |-> "target"]]]
        BY ONLY <2>4, Zenon DEF TargetFinish, All
      <4> QED BY ONLY <4>4, <4>5
    <3>2. nova' \in NovaRecord
      BY ONLY TypeOK, <2>4, SetsNova, SMTT(8) DEF TypeOK, TargetFinish, All, Move, source, CinderRecord, Statuses, Failed, Done, NovaRecord
    <3>3. rpc' \in Rpcs
      BY ONLY TypeOK, <2>4, Goes, Zenon DEF TypeOK, TargetFinish, All, Move, source, CinderRecord, Steps, Exchange, HostSteps, Rpcs
    <3>4. UNCHANGED <<root, bdm, rotation, intent, local, gen, w, run, todo, faults>> BY ONLY <2>4, Zenon DEF TargetFinish, All, Move, source, records, NoFault
    <3> QED BY ONLY TypeOK, <3>1, <3>2, <3>3, <3>4 DEF TypeOK
  <2>5. ASSUME TargetFail PROVE TypeOK'
    <3>1. nova' \in NovaRecord
      BY ONLY TypeOK, <2>5, SetsNova, SMTT(8) DEF TypeOK, TargetFail, Move, source, Statuses, Failed, Done, NovaRecord
    <3>2. rpc' \in Rpcs
      BY ONLY TypeOK, <2>5, Goes, Zenon DEF TypeOK, TargetFail, Move, source, Steps, Exchange, HostSteps, Rpcs
    <3>3. NoFault \/ Fault BY ONLY <2>5, Zenon DEF TargetFail, Move, source
    <3>4. UNCHANGED <<root, bdm, cinder, rotation, intent, local, gen, w, run, todo>> BY ONLY <2>5, Zenon DEF TargetFail, Move, source, records
    <3> QED BY ONLY Counts, TypeOK, <3>1, <3>2, <3>3, <3>4 DEF TypeOK
  <2>6. ASSUME UserConfirms PROVE TypeOK'
    <3>1. nova' \in NovaRecord
      BY ONLY TypeOK, <2>6, SetsNova, SMTT(8) DEF TypeOK, UserConfirms, Move, source, Statuses, Failed, Done, NovaRecord
    <3>2. UNCHANGED <<root, bdm, cinder, rotation, intent, local, gen, rpc, w, run, todo, faults>> BY ONLY <2>6, Zenon DEF UserConfirms, Move, source, records, NoFault
    <3> QED BY ONLY TypeOK, <3>1, <3>2 DEF TypeOK
  <2>7. ASSUME UserReverts PROVE TypeOK'
    <3>1. nova' \in NovaRecord
      BY ONLY TypeOK, <2>7, SetsNova, SMTT(8) DEF TypeOK, UserReverts, Move, source, CinderRecord, Statuses, Failed, Done, NovaRecord
    <3>2. rpc' \in Rpcs
      BY ONLY TypeOK, <2>7, Goes, Zenon DEF TypeOK, UserReverts, Move, source, CinderRecord, Steps, Exchange, HostSteps, Rpcs
    <3>3. cinder' \in [Volumes -> [Att -> CinderRecord]]
      <4>1. cinder \in [Volumes -> [Att -> CinderRecord]] BY DEF TypeOK
      <4>2. \A f \in [Att -> CinderRecord], a \in Att, r \in CinderRecord : [f EXCEPT ![a] = r] \in [Att -> CinderRecord]
        OBVIOUS
      <4>3. [status |-> "reserved", conn |-> "none"] \in CinderRecord /\ Absent \in CinderRecord BY Values DEF CinderRecord
      <4>4. \A v \in Volumes : [cinder[v] EXCEPT !["new"] = Absent] \in [Att -> CinderRecord]
        BY ONLY <4>1, <4>2, <4>3 DEF Att
      <4>5. \A v \in Volumes : [[cinder[v] EXCEPT !["new"] = Absent] EXCEPT !["rev"] = [status |-> "reserved", conn |-> "none"]]
                              \in [Att -> CinderRecord]
        BY ONLY <4>2, <4>3, <4>4 DEF Att
      <4>6. cinder' = [v \in Volumes |-> [cinder[v] EXCEPT !["new"] = Absent, !["rev"] = [status |-> "reserved", conn |-> "none"]]]
        BY ONLY <2>7, Zenon DEF UserReverts
      <4> QED BY ONLY <4>5, <4>6
    <3>4. bdm' \in [Volumes -> BdmRecord]
      BY ONLY TypeOK, <2>7, SetsBdm, SMTT(8) DEF TypeOK, UserReverts, Move, source, CinderRecord, BdmRecord, Att, Absent
    <3>5. UNCHANGED <<root, rotation, intent, local, gen, w, run, todo, faults>> BY ONLY <2>7, Zenon DEF UserReverts, Move, source, records, NoFault
    <3> QED BY ONLY TypeOK, <3>1, <3>2, <3>3, <3>4, <3>5 DEF TypeOK
  <2> QED BY ONLY <1>6, <2>1, <2>2, <2>3, <2>4, <2>5, <2>6, <2>7 DEF NovaStep
<1>7. ASSUME Process PROVE TypeOK'
  <2>1. ASSUME Crash PROVE TypeOK'
    <3>1. run' \in {"up", "down", "starting"}
      BY ONLY TypeOK, <2>1, SMTT(8) DEF TypeOK, Crash
    <3>2. w' \in Worker
      BY ONLY TypeOK, <2>1, Goes, Visits, Values, Zenon DEF TypeOK, Crash, Steps, Exchange, HostSteps, Rpcs
    <3>3. todo' \in SUBSET Volumes
      BY ONLY TypeOK, <2>1, SMTT(8) DEF TypeOK, Crash
    <3>4. rpc' \in Rpcs
      BY ONLY TypeOK, <2>1, Goes, Zenon DEF TypeOK, Crash, Steps, Exchange, HostSteps, Rpcs
    <3>5. NoFault \/ Fault BY ONLY <2>1, Zenon DEF Crash
    <3>6. UNCHANGED <<root, nova, bdm, cinder, rotation, intent, local, gen>> BY ONLY <2>1, Zenon DEF Crash, records
    <3> QED BY ONLY Counts, TypeOK, <3>1, <3>2, <3>3, <3>4, <3>5, <3>6 DEF TypeOK
  <2>2. ASSUME Start PROVE TypeOK'
    <3>1. run' \in {"up", "down", "starting"}
      BY ONLY TypeOK, <2>2, SMTT(8) DEF TypeOK, Start, Unfinished, Evidence
    <3>2. todo' \in SUBSET Volumes
      BY ONLY TypeOK, <2>2, SMTT(8) DEF TypeOK, Start, Unfinished, Evidence
    <3>3. nova' \in NovaRecord
      BY ONLY TypeOK, <2>2, SetsNova, SMTT(8) DEF TypeOK, Start, Unfinished, Evidence, Statuses, Failed, Done, NovaRecord
    <3>4. UNCHANGED <<root, bdm, cinder, rotation, intent, local, gen, rpc, w, faults>> BY ONLY <2>2, Zenon DEF Start, Unfinished, Evidence, records, NoFault
    <3> QED BY ONLY TypeOK, <3>1, <3>2, <3>3, <3>4 DEF TypeOK
  <2>3. ASSUME Started PROVE TypeOK'
    <3>1. nova' \in NovaRecord
      <4>1. nova' \in {nova, [nova EXCEPT !.status = "reverted"], [[nova EXCEPT !.status = "reverted"] EXCEPT !.task = "none"]} BY ONLY <2>3 DEF Started
      <4>2. /\ [nova EXCEPT !.status = "reverted"] \in NovaRecord
           /\ [[nova EXCEPT !.status = "reverted"] EXCEPT !.task = "none"] \in NovaRecord
        BY ONLY TypeOK, SetsNova DEF TypeOK, Statuses, Failed
      <4>3. nova \in NovaRecord BY DEF TypeOK
      <4> QED BY ONLY <4>1, <4>2, <4>3
    <3>2. gen' \in {"owned", "done", "retired"}
      BY ONLY TypeOK, <2>3, SMTT(8) DEF TypeOK, Started, Unfinished
    <3>3. run' \in {"up", "down", "starting"}
      BY ONLY TypeOK, <2>3, SMTT(8) DEF TypeOK, Started, Unfinished
    <3>4. NoFault \/ Fault BY ONLY <2>3, Zenon DEF Started, Unfinished
    <3>5. UNCHANGED <<root, bdm, cinder, rotation, intent, local, rpc, w, todo>> BY ONLY <2>3, Zenon DEF Started, Unfinished, records
    <3> QED BY ONLY Counts, TypeOK, <3>1, <3>2, <3>3, <3>4, <3>5 DEF TypeOK
  <2> QED BY ONLY <1>7, <2>1, <2>2, <2>3 DEF Process
<1>8. UNCHANGED vars => TypeOK'
  BY DEF vars, records, TypeOK
<1> QED BY ONLY [Next]_vars, NextCases, <1>1, <1>2, <1>3, <1>4, <1>5, <1>6, <1>7, <1>8


-----------------------------------------------------------------------------
(* What a step makes of the operation under way, field by field.           *)

\* The operation goes on at a step with the same volume, comes to its next
\* volume, or ends.
Moved(pc) == /\ w'.op = w.op /\ w'.pc = pc /\ w'.vol = w.vol /\ w'.left = w.left
             /\ w'.status = w.status /\ w'.host = w.host /\ w'.att = w.att /\ rpc' = rpc
Came(pc) == /\ w'.op = w.op /\ w'.pc = pc /\ w'.vol \in w.left /\ w'.left = w.left \ {w'.vol}
            /\ w'.status = w.status /\ w'.host = w.host /\ rpc' = rpc
Ended(onward) == w' = Idle /\ w'.op = "none" /\ rpc' = IF w.op = "recover" THEN rpc ELSE onward

LEMMA GoesOn ==
    ASSUME w \in Worker
    PROVE  /\ \A pc : Go(pc) => Moved(pc)
           /\ \A onward : End(onward) => Ended(onward)
           /\ Raise => Ended("fail")
           /\ \A pc : (\E v \in w.left : w' = [w EXCEPT !.pc = pc, !.vol = v, !.left = @ \ {v}, !.att = bdm[v].att])
                         /\ UNCHANGED rpc => Came(pc)
<1>1. \A pc : Go(pc) => Moved(pc) BY DEF Worker, Go, Moved
<1>2. \A onward : End(onward) => Ended(onward) BY DEF End, Ended, Idle
<1>3. Raise => Ended("fail") BY ONLY <1>2 DEF Raise
<1>4. ASSUME NEW pc, NEW v \in w.left, UNCHANGED rpc,
             w' = [w EXCEPT !.pc = pc, !.vol = v, !.left = @ \ {v}, !.att = bdm[v].att]
      PROVE  Came(pc)
  BY <1>4 DEF Worker, Came
<1> QED BY ONLY <1>1, <1>2, <1>3, <1>4, Zenon

\* What v's rows may be, the rows that a step leaves, and what it makes of
\* Cinder's record of one attachment.
Typed(v) == /\ bdm[v] \in BdmRecord /\ rotation[v] \in Phases /\ intent[v] \in Att \cup {"none"}
            /\ local[v] \in LocalRecord
            /\ cinder[v]["old"] \in CinderRecord /\ cinder[v]["new"] \in CinderRecord
            /\ cinder[v]["rev"] \in CinderRecord
Same(v) == /\ bdm'[v] = bdm[v] /\ cinder'[v] = cinder[v] /\ rotation'[v] = rotation[v]
           /\ intent'[v] = intent[v] /\ local'[v] = local[v]
Stored(a, r) == /\ cinder'[w.vol][a] = r
                /\ \A b \in Att : b # a => cinder'[w.vol][b] = cinder[w.vol][b]
                /\ \A v \in Volumes : v # w.vol => cinder'[v] = cinder[v]

LEMMA Types == ASSUME TypeOK PROVE \A v \in Volumes : Typed(v)
BY DEF TypeOK, Typed, Att
LEMMA TypesNext == ASSUME TypeOK' PROVE \A v \in Volumes : Typed(v)'
BY DEF TypeOK, Typed, Att
LEMMA Stores ==
    ASSUME TypeOK, w.vol \in Volumes
    PROVE  /\ \A a \in Att : \A s, c : cinder' = SetCinder(a, s, c) => Stored(a, [status |-> s, conn |-> c])
           /\ cinder' = [cinder EXCEPT ![w.vol][Owner].status = "attached"] =>
                 Stored(Owner, [status |-> "attached", conn |-> Here(Owner).conn])
<1>1. cinder \in [Volumes -> [Att -> CinderRecord]] BY DEF TypeOK
<1>2. \A a \in Att : \A s, c : cinder' = SetCinder(a, s, c) => Stored(a, [status |-> s, conn |-> c])
  BY ONLY <1>1, w.vol \in Volumes, SMTT(10) DEF SetCinder, Stored
<1>3. ASSUME NEW a \in Att, cinder' = [cinder EXCEPT ![w.vol][a].status = "attached"]
      PROVE  Stored(a, [status |-> "attached", conn |-> Here(a).conn])
  <2>1. cinder' = [cinder EXCEPT ![w.vol] = [cinder[w.vol] EXCEPT ![a] = [cinder[w.vol][a] EXCEPT !.status = "attached"]]]
    BY ONLY <1>1, <1>3, w.vol \in Volumes
  <2>2. cinder'[w.vol][a] = [cinder[w.vol][a] EXCEPT !.status = "attached"]
        /\ (\A b \in Att : b # a => cinder'[w.vol][b] = cinder[w.vol][b])
        /\ (\A v \in Volumes : v # w.vol => cinder'[v] = cinder[v])
    BY ONLY <1>1, <1>3, <2>1, w.vol \in Volumes
  <2>3. cinder[w.vol][a] \in CinderRecord BY ONLY <1>1, <1>3, w.vol \in Volumes
  <2>4. [cinder[w.vol][a] EXCEPT !.status = "attached"] = [status |-> "attached", conn |-> cinder[w.vol][a].conn]
    BY ONLY <2>3 DEF CinderRecord
  <2> QED BY ONLY <2>2, <2>4 DEF Stored, Here
<1> QED BY ONLY <1>2, <1>3, SetsRecords, TypeOK, w.vol \in Volumes

\* The ways an operation goes on; after the last volume of a rotation the RPC
\* leaves for the target.
Onward ==
    \/ w'.op = w.op /\ w'.status = w.status /\ w'.host = w.host /\ w'.vol \in Volumes /\ rpc' = rpc
    \/ Ended("fail")
    \/ Ended("none") /\ w.op = "recover"
    \/ Ended("attach") /\ w.op = "handoff"
    \/ Ended("leave") /\ w.op = "rotate" /\ w.pc # "prepare" /\ w.left = {}

LEMMA Acting ==
    ASSUME TypeOK, StateInv, w # Idle
    PROVE  /\ w.vol \in Volumes /\ w.op \in {"rotate", "recover", "handoff"} /\ w.vol \notin w.left
           /\ w.left \subseteq Volumes
           /\ Typed(w.vol) /\ RowInv(w.vol) /\ StepInv(w.vol) /\ NovaInv /\ WorkInv /\ GenInv
           /\ w.pc = "prepare" => w.op = "rotate"
           /\ w.pc \in {"validate", "handed"} => w.op = "handoff"
           /\ w.pc \notin Exchange \cup {"validate", "handed"} => w.op = "recover"
<1>1. w.op # "none" /\ w.vol # None BY DEF StateInv, WorkInv
<1>2. w.vol \in Volumes /\ w.op \in {"rotate", "recover", "handoff"} /\ w.left \subseteq Volumes
  BY <1>1 DEF TypeOK, Worker
<1>3. NovaInv /\ WorkInv /\ GenInv /\ RowInv(w.vol) /\ StepInv(w.vol) /\ Typed(w.vol)
  BY <1>1, <1>2, Types DEF StateInv, VolumeInv, AtStep
<1> QED BY ONLY <1>2, <1>3 DEF WorkInv, Exchange

\* A volume whose rows are left has its invariant still: a rollback under way
\* stays one, and no other part of the state concerns it.
LEMMA KeepsRow ==
    ASSUME TypeOK, StateInv, w # Idle, NEW v \in Volumes, Same(v), Onward, UNCHANGED <<root, nova, run>>,
           \/ gen' = gen \/ gen' = "done"
           \/ gen' = "retired" /\ rotation[v] = "none" /\ intent[v] = "none",
           w.op = "rotate" /\ rpc' = "leave" => rotation[v] = "bdm-rotated"
    PROVE  RowInv(v)'
<1>0. \/ gen' = gen \/ gen' = "done"
      \/ gen' = "retired" /\ rotation[v] = "none" /\ intent[v] = "none"
  OBVIOUS
<1>1. Typed(v) /\ RowInv(v) /\ NovaInv /\ WorkInv BY Types DEF StateInv, VolumeInv
<1>2. RollingBack => RollingBack' BY ONLY Acting, <1>1, TypeOK, StateInv, w # Idle, Onward, UNCHANGED nova DEF RollingBack, Onward, Ended
<1>3. \/ rpc' = rpc
      \/ w.op = "rotate" /\ rpc' \in {"fail", "leave"}
      \/ w.op = "handoff" /\ rpc' \in {"fail", "attach"}
  BY ONLY Acting, TypeOK, StateInv, w # Idle, Onward DEF Onward, Ended
<1>4. w'.op = "none" \/ (w'.op = w.op /\ w'.status = w.status) BY ONLY Onward DEF Onward, Ended
<1>11. w.op = "rotate" => ~RollingBack /\ nova.host = "source" /\ rpc = "rotate"
  BY ONLY <1>1 DEF NovaInv, WorkInv, RollingBack, Failed
<1>12. rpc' = "rotate" => rpc = "rotate" /\ (w'.op # "rotate" => w.op # "rotate")
  BY ONLY <1>3, Acting, TypeOK, StateInv, w # Idle, Onward DEF Onward, Ended
<1>5. cinder'[v] = cinder[v] /\ bdm'[v] = bdm[v] /\ rotation'[v] = rotation[v]
         /\ intent'[v] = intent[v] /\ local'[v] = local[v]
  BY ONLY Same(v) DEF Same
<1>6. /\ ByOld(v)' <=> ByOld(v)
      /\ ByNew(v)' <=> ByNew(v)
      /\ ByRev(v)' <=> ByRev(v)
      /\ Restored(v)' <=> Restored(v)
  BY ONLY <1>5, UNCHANGED <<root, nova, run>> DEF ByOld, ByNew, ByRev, Restored, Attached, Reserved, Free, Att
<1>7. PhaseInv(v)'
  BY ONLY <1>1, <1>2, <1>5, <1>6, <1>0, UNCHANGED <<root, nova, run>> DEF RowInv, PhaseInv, Attached, Reserved, Free, Present, Typed, Phases, Terminal
<1>8. HostInv(v)'
  BY ONLY <1>1, <1>2, <1>3, <1>4, <1>5, <1>6, <1>11, <1>12, UNCHANGED <<root, nova, run>>, (w.op = "rotate" /\ rpc' = "leave" => rotation[v] = "bdm-rotated") DEF RowInv, HostInv, PhaseInv, NovaInv, WorkInv, Attached, Reserved, Used, ByNew, ByRev, Failed, Done, Att
<1>9. IntentInv(v)'
  BY ONLY <1>0, <1>1, <1>2, <1>3, <1>5, <1>6, UNCHANGED <<root, nova, run>> DEF RowInv, IntentInv, PhaseInv, Terminal
<1>10. LocalInv(v)'
  BY ONLY <1>0, <1>1, <1>2, <1>5, <1>6, UNCHANGED <<root, nova, run>> DEF RowInv, LocalInv, Used, Att
<1> QED BY ONLY <1>7, <1>8, <1>9, <1>10 DEF RowInv

\* The generation is left, marked, or retired after the last record.
Marked ==
    \/ gen' = gen
    \/ gen' = "done" /\ RollingBack
    \/ gen' = "retired" /\ RollingBack /\ \A v \in Volumes : rotation[v] = "none" /\ intent[v] = "none"

\* A step of the operation keeps the invariant when it keeps that of its own
\* volume, of the worker and of the exchange.
LEMMA Concludes ==
    ASSUME TypeOK, StateInv, w # Idle, NEW x \in Volumes, x = w.vol, UNCHANGED <<root, nova, run>>, Onward,
           \A v \in Volumes : v # x => Same(v),
           Marked, RowInv(x)', gen' = "retired" => rotation'[x] = "none" /\ intent'[x] = "none",
           WorkInv', RotateInv', AtStep'
    PROVE  StateInv'
<1> USE x = w.vol
<1>1. NovaInv /\ WorkInv /\ GenInv /\ RotateInv BY DEF StateInv
<1>2. ASSUME NEW v \in Volumes PROVE RowInv(v)'
  <2>1. CASE v = x BY ONLY <2>1, RowInv(x)'
  <2>2. CASE v # x
    <3>1. w.op = "rotate" /\ rpc' = "leave" => rotation[v] = "bdm-rotated"
      BY ONLY <2>2, <1>1, Acting, TypeOK, StateInv, w # Idle, Onward, x = w.vol DEF Onward, Ended, RotateInv, WorkInv
    <3>2. Same(v) BY ONLY <2>2, \A u \in Volumes : u # x => Same(u)
    <3> QED BY ONLY <3>1, <3>2, KeepsRow, TypeOK, StateInv, w # Idle, Onward, UNCHANGED <<root, nova, run>>, Marked DEF Marked
  <2> QED BY <2>1, <2>2
<1>3. RollingBack => RollingBack'
  BY ONLY Acting, <1>1, TypeOK, StateInv, w # Idle, Onward, UNCHANGED nova DEF RollingBack, Onward, Ended
<1>4. GenInv'
  <2>1. gen' # "owned" => RollingBack' BY ONLY <1>1, <1>3,
          Marked DEF GenInv, Marked
  <2>2. ASSUME gen' = "retired", NEW v \in Volumes PROVE rotation'[v] = "none" /\ intent'[v] = "none"
    <3>1. CASE v = x BY <3>1, <2>2
    <3>2. CASE v # x
      <4>1. rotation[v] = "none" /\ intent[v] = "none"
        BY ONLY <2>2, <1>1, Marked DEF GenInv, Marked
      <4> QED BY ONLY <4>1, <3>2, <2>2, \A u \in Volumes : u # x => Same(u) DEF Same
    <3> QED BY <3>1, <3>2
  <2> QED BY ONLY <2>1, <2>2 DEF GenInv
<1>5. NovaInv'
  BY ONLY <1>1, Acting, TypeOK, StateInv, w # Idle, Onward, UNCHANGED <<root, nova, run>>
  DEF NovaInv, WorkInv, Onward, Ended, Failed, Done
<1> QED BY ONLY <1>2, <1>4, <1>5, WorkInv', RotateInv', AtStep' DEF StateInv, VolumeInv

\* One that decides changes nothing but the worker and the RPC.
LEMMA Decides ==
    ASSUME TypeOK, StateInv, w # Idle, UNCHANGED <<root, nova, run, bdm, cinder, records, local, gen>>, Onward,
           w.op = "rotate" /\ rpc' = "leave" => rotation[w.vol] = "bdm-rotated",
           WorkInv', RotateInv', AtStep'
    PROVE  StateInv'
<1>1. PICK x \in Volumes : x = w.vol BY Acting
<1>2. \A v \in Volumes : Same(v) BY DEF Same, records
<1>3. UNCHANGED <<root, nova, run>> BY ONLY UNCHANGED <<root, nova, run, bdm, cinder, records, local, gen>>
<1>4. gen' = gen BY ONLY UNCHANGED <<root, nova, run, bdm, cinder, records, local, gen>>
<1>5. RowInv(x)'
  <2>1. w.op = "rotate" /\ rpc' = "leave" => rotation[x] = "bdm-rotated" BY ONLY <1>1,
     w.op = "rotate" /\ rpc' = "leave" => rotation[w.vol] = "bdm-rotated"
  <2> QED BY ONLY KeepsRow, TypeOK, StateInv, w # Idle, Onward, <1>1, <1>2, <1>3, <1>4, <2>1
<1>6. gen' = "retired" => rotation'[x] = "none" /\ intent'[x] = "none"
  BY ONLY <1>1, <1>2, <1>4, StateInv DEF StateInv, GenInv, Same
<1> QED BY ONLY Concludes, TypeOK, StateInv, w # Idle, Onward, <1>1, <1>2, <1>3, <1>4, <1>5, <1>6, WorkInv', RotateInv', AtStep' DEF Marked

\* The operation's volume, with its invariant, and the exchange around it.
LEMMA AtVolume ==
    ASSUME TypeOK, TypeOK', StateInv, w # Idle, NEW x, x = w.vol
    PROVE  /\ x \in Volumes /\ w.op \in {"rotate", "recover", "handoff"} /\ x \notin w.left
           /\ w.left \subseteq Volumes /\ w \in Worker
           /\ w.pc = "prepare" => w.op = "rotate"
           /\ w.pc \in {"validate", "handed"} => w.op = "handoff"
           /\ w.pc \notin Exchange \cup {"validate", "handed"} => w.op = "recover"
           /\ Typed(x) /\ Typed(x)' /\ RowInv(x) /\ StepInv(x) /\ NovaInv /\ WorkInv /\ GenInv /\ RotateInv
BY Acting, TypesNext DEF TypeOK, StateInv

LEMMA NoExchange == ASSUME w'.op # "rotate" PROVE RotateInv' BY DEF RotateInv
LEMMA ExchangeGoesOn ==
    ASSUME TypeOK, TypeOK', StateInv, w # Idle, NEW x \in Volumes, x = w.vol,
           \A v \in Volumes : v # x => Same(v),
           \/ Ended("fail") \/ Ended("leave")
           \/ (\E pc \in Steps \ {"prepare"} : Moved(pc)) /\ w.pc # "prepare"
           \/ Moved("prepare") /\ w.pc = "prepare" /\ rotation' = rotation
           \/ Came("advance") /\ w.pc # "prepare" /\ rotation'[x] = "bdm-rotated"
    PROVE  RotateInv'
<1>1. \A v \in Volumes : v # x => rotation'[v] = rotation[v] BY ONLY \A v \in Volumes : v # x => Same(v) DEF Same
<1>2. CASE Ended("fail") \/ Ended("leave") BY ONLY <1>2, NoExchange DEF Ended
<1>3. CASE (\E pc \in Steps \ {"prepare"} : Moved(pc)) /\ w.pc # "prepare"
  BY ONLY <1>1, <1>3, StateInv, x = w.vol DEF StateInv, RotateInv, Moved
<1>4. CASE Moved("prepare") /\ w.pc = "prepare" /\ rotation' = rotation
  BY ONLY <1>1, <1>4, StateInv, x = w.vol DEF StateInv, RotateInv, Moved
<1>5. CASE Came("advance") /\ w.pc # "prepare" /\ rotation'[x] = "bdm-rotated"
  BY ONLY <1>1, <1>5, StateInv, x = w.vol DEF StateInv, WorkInv, RotateInv, Came
<1> QED BY <1>2, <1>3, <1>4, <1>5

\* What follows the exchange of a volume.
Went == \/ w.op = "rotate" /\ (Came("advance") \/ (w.left = {} /\ Ended("leave")))
        \/ w.op # "rotate" /\ w.status \in Failed /\ Moved("update")
        \/ w.op # "rotate" /\ w.status \in Done /\ Moved("release")
        \/ w.op # "rotate" /\ Ended("none")
LEMMA RotateKeeps ==
    ASSUME TypeOK, TypeOK', StateInv, w # Idle, NEW x, x = w.vol, RotateStep
    PROVE  StateInv'
<1>0. /\ x = w.vol /\ x \in Volumes /\ w # Idle /\ w.op \in {"rotate", "recover", "handoff"} /\ x \notin w.left
      /\ w.left \subseteq Volumes /\ w \in Worker /\ None \notin Volumes
      /\ w.pc = "prepare" => w.op = "rotate"
      /\ w.pc \in {"validate", "handed"} => w.op = "handoff"
      /\ w.pc \notin Exchange \cup {"validate", "handed"} => w.op = "recover"
  BY AtVolume, VolumesAssumption
<1>1. Typed(x) /\ Typed(x)' /\ RowInv(x) /\ StepInv(x) /\ NovaInv /\ WorkInv /\ GenInv BY AtVolume
<1>2. /\ \A pc : Go(pc) => Moved(pc)
      /\ \A onward : End(onward) => Ended(onward)
      /\ Raise => Ended("fail")
      /\ \A pc : (\E v \in w.left : w' = [w EXCEPT !.pc = pc, !.vol = v, !.left = @ \ {v}, !.att = bdm[v].att])
                         /\ UNCHANGED rpc => Came(pc)
  BY ONLY <1>0, GoesOn, Zenon
<1>3. ASSUME PrepareIntent PROVE StateInv'
  <2>1. /\ w.pc = "prepare"
        /\ intent[x] = "none"
        /\ intent'[x] = "old"
        /\ \A v \in Volumes : v # x => intent'[v] = intent[v]
        /\ UNCHANGED <<root, nova, run, bdm, cinder, rotation, local, gen>>
    BY ONLY TypeOK, <1>0, <1>1, <1>3 DEF PrepareIntent, Write, Named, SetIntent, records, TypeOK, BdmRecord, LocalRecord
  <2>2. Moved("prepare")
    BY ONLY TypeOK, <1>0, <1>1, <1>3, <1>2, Stores DEF PrepareIntent, Write, Named, SetIntent, records, TypeOK, BdmRecord, LocalRecord
  <2>3. \A v \in Volumes : v # x => Same(v) BY ONLY <1>0, <2>1, <2>2 DEF Same, Stored
  <2>4. Onward BY ONLY <1>0, <1>1, <2>1, <2>2 DEF Onward, Moved, Came, Went, Ended, WorkInv, Exchange
  <2>5. WorkInv' BY ONLY <1>0, <1>1, <2>1, <2>2 DEF WorkInv, Moved, Came, Went, Ended, NovaInv, Exchange, Idle, StepInv, RowInv, IntentInv, HostInv, Terminal, Failed, Done
  <2>6. AtStep' BY ONLY <1>0, <1>1, <2>1, <2>2, SMTT(20) DEF AtStep, RowInv, PhaseInv, Present, HostInv, IntentInv, LocalInv, ByOld, ByNew, ByRev, Free, Reserved, Attached, RollingBack, Used, Restored, Local, Absent, Ready, Owned, NovaInv, WorkInv, GenInv, StepInv, Typed, RollPcs, ForwardPcs, HostSteps, Exchange, Failed, Done, Terminal, Phases, Att, Journals, BdmRecord, CinderRecord, LocalRecord, Moved, Ended, Stored, Came, Went, Disconnecting
  <2>7. RotateInv' BY ONLY <1>0, <1>1, <2>1, <2>2, <2>3, <2>4, ExchangeGoesOn, NoExchange, TypeOK, TypeOK', StateInv DEF Went, Moved, Steps, Exchange, HostSteps
  <2>8. RowInv(x)' BY ONLY <1>0, <1>1, <2>1, <2>2, SMTT(20) DEF RowInv, PhaseInv, Present, HostInv, IntentInv, LocalInv, ByOld, ByNew, ByRev, Free, Reserved, Attached, RollingBack, Used, Restored, Local, Absent, Ready, Owned, NovaInv, WorkInv, GenInv, StepInv, Typed, RollPcs, ForwardPcs, HostSteps, Exchange, Failed, Done, Terminal, Phases, Att, Journals, BdmRecord, CinderRecord, LocalRecord, Moved, Ended, Stored, Came, Went
  <2>9. Marked /\ (gen' = "retired" => rotation'[x] = "none" /\ intent'[x] = "none")
    BY ONLY <1>0, <1>1, <2>1, <2>2 DEF Marked, GenInv, RollingBack, NovaInv, WorkInv, StepInv, RollPcs, Owned, Exchange, Failed, Done, Terminal, Moved, Ended, HostSteps
  <2> QED BY ONLY Concludes, TypeOK, StateInv, <1>0, <1>1, <2>1, <2>3, <2>4, <2>5, <2>6, <2>7, <2>8, <2>9 DEF records
<1>4. ASSUME PrepareRotation PROVE StateInv'
  <2>1. /\ w.pc = "prepare"
        /\ intent[x] = "old"
        /\ \A v \in Volumes : v # x => rotation'[v] = rotation[v]
        /\ UNCHANGED <<root, nova, run, bdm, cinder, intent, local, gen>>
    BY ONLY TypeOK, <1>0, <1>1, <1>4 DEF PrepareRotation, Visit, Rotate, Named, Here, records, TypeOK, BdmRecord, LocalRecord
  <2>11. (w' = [w EXCEPT !.pc = "advance", !.left = Volumes \ {w.vol}]) => (w'.op = w.op /\ w'.pc = "advance" /\ w'.vol = x
          /\ w'.left = Volumes \ {x} /\ w'.status = w.status /\ w'.host = w.host) BY ONLY <1>0, TypeOK DEF TypeOK, BdmRecord, LocalRecord, Here, Worker
  <2>13. rotation' = Rotate("prepared") => rotation'[x] = "prepared" BY ONLY <1>0, TypeOK DEF TypeOK, Rotate
  <2>2. \/ rotation'[x] = "prepared" /\ Came("prepare")
        \/ /\ rotation'[x] = "prepared" /\ w'.op = w.op /\ w'.pc = "advance" /\ w'.vol = x
           /\ w'.left = Volumes \ {x} /\ w'.status = w.status /\ w'.host = w.host /\ rpc' = rpc
           /\ w.left = {          }
        \/ rotation' = rotation /\ Ended("fail")
    BY ONLY <2>11, <2>13, <1>0, <1>4, <1>2, Zenon DEF PrepareRotation, Visit, Named, Here
  <2>3. \A v \in Volumes : v # x => Same(v) BY ONLY <1>0, <2>1, <2>2 DEF Same, Stored
  <2>4. Onward BY ONLY <1>0, <1>1, <2>1, <2>2 DEF Onward, Moved, Came, Went, Ended, WorkInv, Exchange
  <2>5. WorkInv' BY ONLY <1>0, <1>1, <2>1, <2>2 DEF WorkInv, Moved, Came, Went, Ended, NovaInv, Exchange, Idle, StepInv, RowInv, IntentInv, HostInv, Terminal, Failed, Done
  <2>6. AtStep' BY ONLY <1>0, <1>1, <2>1, <2>2, SMTT(20) DEF AtStep, RowInv, PhaseInv, Present, HostInv, IntentInv, LocalInv, ByOld, ByNew, ByRev, Free, Reserved, Attached, RollingBack, Used, Restored, Local, Absent, Ready, Owned, NovaInv, WorkInv, GenInv, StepInv, Typed, RollPcs, ForwardPcs, HostSteps, Exchange, Failed, Done, Terminal, Phases, Att, Journals, BdmRecord, CinderRecord, LocalRecord, Moved, Ended, Stored, Came, Went, Disconnecting
  <2>12. rotation[x] = "none" /\ rpc = "rotate" /\ nova.status = "migrating" /\ nova.host = "source"
    BY ONLY <1>0, <1>1, <2>1, <2>2, AtVolume, TypeOK, TypeOK', StateInv DEF RotateInv, WorkInv, NovaInv
  <2>7. RotateInv'
    <4>1. CASE Ended("fail") BY ONLY <4>1, NoExchange DEF Ended
    <4>2. CASE ~Ended("fail") BY ONLY <4>2, <1>0, <1>1, <2>1, <2>2, AtVolume, TypeOK, TypeOK', StateInv DEF RotateInv, Came
    <4> QED BY <4>1, <4>2
  <2>8. RowInv(x)'
    <4>1. PhaseInv(x)' BY ONLY <1>0, <1>1, <2>1, <2>2, <2>12, SMTT(20) DEF RowInv, PhaseInv, Present, HostInv, IntentInv, LocalInv, ByOld, ByNew, ByRev, Free, Reserved, Attached, RollingBack, Used, Restored, Local, Absent, Ready, Owned, NovaInv, WorkInv, GenInv, StepInv, Typed, RollPcs, ForwardPcs, HostSteps, Exchange, Failed, Done, Terminal, Phases, Att, Journals, BdmRecord, CinderRecord, LocalRecord, Moved, Ended, Stored, Came, Went
    <4>2. HostInv(x)' BY ONLY <1>0, <1>1, <2>1, <2>2, <2>12, SMTT(20) DEF RowInv, PhaseInv, Present, HostInv, IntentInv, LocalInv, ByOld, ByNew, ByRev, Free, Reserved, Attached, RollingBack, Used, Restored, Local, Absent, Ready, Owned, NovaInv, WorkInv, GenInv, StepInv, Typed, RollPcs, ForwardPcs, HostSteps, Exchange, Failed, Done, Terminal, Phases, Att, Journals, BdmRecord, CinderRecord, LocalRecord, Moved, Ended, Stored, Came, Went
    <4>3. IntentInv(x)' BY ONLY <1>0, <1>1, <2>1, <2>2, <2>12, SMTT(20) DEF RowInv, PhaseInv, Present, HostInv, IntentInv, LocalInv, ByOld, ByNew, ByRev, Free, Reserved, Attached, RollingBack, Used, Restored, Local, Absent, Ready, Owned, NovaInv, WorkInv, GenInv, StepInv, Typed, RollPcs, ForwardPcs, HostSteps, Exchange, Failed, Done, Terminal, Phases, Att, Journals, BdmRecord, CinderRecord, LocalRecord, Moved, Ended, Stored, Came, Went
    <4>4. LocalInv(x)' BY ONLY <1>0, <1>1, <2>1, <2>2, <2>12, SMTT(20) DEF RowInv, PhaseInv, Present, HostInv, IntentInv, LocalInv, ByOld, ByNew, ByRev, Free, Reserved, Attached, RollingBack, Used, Restored, Local, Absent, Ready, Owned, NovaInv, WorkInv, GenInv, StepInv, Typed, RollPcs, ForwardPcs, HostSteps, Exchange, Failed, Done, Terminal, Phases, Att, Journals, BdmRecord, CinderRecord, LocalRecord, Moved, Ended, Stored, Came, Went
    <4> QED BY ONLY <4>1, <4>2, <4>3, <4>4 DEF RowInv
  <2>9. Marked /\ (gen' = "retired" => rotation'[x] = "none" /\ intent'[x] = "none")
    BY ONLY <1>0, <1>1, <2>1, <2>2 DEF Marked, GenInv, RollingBack, NovaInv, WorkInv, StepInv, RollPcs, Owned, Exchange, Failed, Done, Terminal, Moved, Ended, HostSteps
  <2> QED BY ONLY Concludes, TypeOK, StateInv, <1>0, <1>1, <2>1, <2>3, <2>4, <2>5, <2>6, <2>7, <2>8, <2>9 DEF records
<1>5. ASSUME Advance PROVE StateInv'
  <2>1. /\ w.pc = "advance"
        /\ UNCHANGED <<root, nova, run, bdm, cinder, rotation, intent, local, gen>>
    BY ONLY TypeOK, <1>0, <1>1, <1>5 DEF Advance, Decide, Rotated, Visit, Phase, records, TypeOK, BdmRecord, LocalRecord
  <2>2. \/ rotation[x] = "prepared" /\ Moved("mark")
        \/ rotation[x] = "new-created" /\ Moved("delete")
        \/ rotation[x] = "old-deleted" /\ Moved("switch")
        \/ rotation[x] = "bdm-rotated" /\ (Went)
        \/ Ended("fail")
    BY ONLY TypeOK, <1>0, <1>1, <1>5, <1>2, Stores DEF Advance, Decide, Rotated, Visit, Phase, records, TypeOK, BdmRecord, LocalRecord, Went
  <2>3. \A v \in Volumes : v # x => Same(v) BY ONLY <1>0, <2>1, <2>2 DEF Same, Stored
  <2>4. Onward BY ONLY <1>0, <1>1, <2>1, <2>2 DEF Onward, Moved, Came, Went, Ended, WorkInv, Exchange
  <2>5. WorkInv' BY ONLY <1>0, <1>1, <2>1, <2>2 DEF WorkInv, Moved, Came, Went, Ended, NovaInv, Exchange, Idle, StepInv, RowInv, IntentInv, HostInv, Terminal, Failed, Done
  <2>6. AtStep' BY ONLY <1>0, <1>1, <2>1, <2>2, SMTT(20) DEF AtStep, RowInv, PhaseInv, Present, HostInv, IntentInv, LocalInv, ByOld, ByNew, ByRev, Free, Reserved, Attached, RollingBack, Used, Restored, Local, Absent, Ready, Owned, NovaInv, WorkInv, GenInv, StepInv, Typed, RollPcs, ForwardPcs, HostSteps, Exchange, Failed, Done, Terminal, Phases, Att, Journals, BdmRecord, CinderRecord, LocalRecord, Moved, Ended, Stored, Came, Went, Disconnecting
  <2>7. RotateInv'
    <4>1. CASE w.op # "rotate" BY ONLY <4>1, <2>2, NoExchange DEF Went, Moved, Ended
    <4>2. CASE w.op = "rotate" BY ONLY <4>2, <1>0, <1>1, <2>1, <2>2, <2>3, ExchangeGoesOn, TypeOK, TypeOK', StateInv DEF Went, Steps, Exchange
    <4> QED BY <4>1, <4>2
  <2>8. w.op = "rotate" /\ rpc' = "leave" => rotation[x] = "bdm-rotated" BY ONLY <1>0, <1>1, <2>1, <2>2 DEF Moved, Ended, Came, Went, WorkInv, Exchange
  <2> QED BY ONLY Decides, TypeOK, StateInv, <1>0, <1>1, <2>1, <2>4, <2>5, <2>6, <2>7, <2>8 DEF records
<1>6. ASSUME MarkCreating PROVE StateInv'
  <2>1. /\ w.pc = "mark"
        /\ rotation'[x] = "creating"
        /\ \A v \in Volumes : v # x => rotation'[v] = rotation[v]
        /\ UNCHANGED <<root, nova, run, bdm, cinder, intent, local, gen>>
    BY ONLY TypeOK, <1>0, <1>1, <1>6 DEF MarkCreating, Write, Rotate, records, TypeOK, BdmRecord, LocalRecord
  <2>2. Moved("create")
    BY ONLY TypeOK, <1>0, <1>1, <1>6, <1>2, Stores DEF MarkCreating, Write, Rotate, records, TypeOK, BdmRecord, LocalRecord
  <2>3. \A v \in Volumes : v # x => Same(v) BY ONLY <1>0, <2>1, <2>2 DEF Same, Stored
  <2>4. Onward BY ONLY <1>0, <1>1, <2>1, <2>2 DEF Onward, Moved, Came, Went, Ended, WorkInv, Exchange
  <2>5. WorkInv' BY ONLY <1>0, <1>1, <2>1, <2>2 DEF WorkInv, Moved, Came, Went, Ended, NovaInv, Exchange, Idle, StepInv, RowInv, IntentInv, HostInv, Terminal, Failed, Done
  <2>6. AtStep' BY ONLY <1>0, <1>1, <2>1, <2>2, SMTT(20) DEF AtStep, RowInv, PhaseInv, Present, HostInv, IntentInv, LocalInv, ByOld, ByNew, ByRev, Free, Reserved, Attached, RollingBack, Used, Restored, Local, Absent, Ready, Owned, NovaInv, WorkInv, GenInv, StepInv, Typed, RollPcs, ForwardPcs, HostSteps, Exchange, Failed, Done, Terminal, Phases, Att, Journals, BdmRecord, CinderRecord, LocalRecord, Moved, Ended, Stored, Came, Went, Disconnecting
  <2>7. RotateInv' BY ONLY <1>0, <1>1, <2>1, <2>2, <2>3, <2>4, ExchangeGoesOn, NoExchange, TypeOK, TypeOK', StateInv DEF Went, Moved, Steps, Exchange, HostSteps
  <2>8. RowInv(x)' BY ONLY <1>0, <1>1, <2>1, <2>2, SMTT(20) DEF RowInv, PhaseInv, Present, HostInv, IntentInv, LocalInv, ByOld, ByNew, ByRev, Free, Reserved, Attached, RollingBack, Used, Restored, Local, Absent, Ready, Owned, NovaInv, WorkInv, GenInv, StepInv, Typed, RollPcs, ForwardPcs, HostSteps, Exchange, Failed, Done, Terminal, Phases, Att, Journals, BdmRecord, CinderRecord, LocalRecord, Moved, Ended, Stored, Came, Went
  <2>9. Marked /\ (gen' = "retired" => rotation'[x] = "none" /\ intent'[x] = "none")
    BY ONLY <1>0, <1>1, <2>1, <2>2 DEF Marked, GenInv, RollingBack, NovaInv, WorkInv, StepInv, RollPcs, Owned, Exchange, Failed, Done, Terminal, Moved, Ended, HostSteps
  <2> QED BY ONLY Concludes, TypeOK, StateInv, <1>0, <1>1, <2>1, <2>3, <2>4, <2>5, <2>6, <2>7, <2>8, <2>9 DEF records
<1>7. ASSUME Create PROVE StateInv'
  <2>1. /\ w.pc = "create"
        /\ UNCHANGED <<root, nova, run, bdm, rotation, intent, local, gen>>
    BY ONLY TypeOK, <1>0, <1>1, <1>7 DEF Create, Call, Owner, Here, records, TypeOK, BdmRecord, LocalRecord
  <2>11. cinder' = SetCinder("new", "reserved", "none") => Stored("new", [status |-> "reserved", conn |-> "none"]) BY ONLY <1>0, TypeOK, Stores, \A q \in Att : q = q DEF Att
  <2>2. \/ Stored("new", [status |-> "reserved", conn |-> "none"]) /\ Moved("name")
        \/ (cinder' = cinder \/ Stored("new", [status |-> "reserved", conn |-> "none"])) /\ Ended("fail")
    BY ONLY <2>11, <1>0, <1>7, <1>2, Zenon DEF Create, Call, Here
  <2>3. \A v \in Volumes : v # x => Same(v) BY ONLY <1>0, <2>1, <2>2 DEF Same, Stored
  <2>4. Onward BY ONLY <1>0, <1>1, <2>1, <2>2 DEF Onward, Moved, Came, Went, Ended, WorkInv, Exchange
  <2>5. WorkInv' BY ONLY <1>0, <1>1, <2>1, <2>2 DEF WorkInv, Moved, Came, Went, Ended, NovaInv, Exchange, Idle, StepInv, RowInv, IntentInv, HostInv, Terminal, Failed, Done
  <2>6. AtStep' BY ONLY <1>0, <1>1, <2>1, <2>2, SMTT(20) DEF AtStep, RowInv, PhaseInv, Present, HostInv, IntentInv, LocalInv, ByOld, ByNew, ByRev, Free, Reserved, Attached, RollingBack, Used, Restored, Local, Absent, Ready, Owned, NovaInv, WorkInv, GenInv, StepInv, Typed, RollPcs, ForwardPcs, HostSteps, Exchange, Failed, Done, Terminal, Phases, Att, Journals, BdmRecord, CinderRecord, LocalRecord, Moved, Ended, Stored, Came, Went, Disconnecting
  <2>7. RotateInv' BY ONLY <1>0, <1>1, <2>1, <2>2, <2>3, <2>4, ExchangeGoesOn, NoExchange, TypeOK, TypeOK', StateInv DEF Went, Moved, Steps, Exchange, HostSteps
  <2>8. RowInv(x)' BY ONLY <1>0, <1>1, <2>1, <2>2, SMTT(20) DEF RowInv, PhaseInv, Present, HostInv, IntentInv, LocalInv, ByOld, ByNew, ByRev, Free, Reserved, Attached, RollingBack, Used, Restored, Local, Absent, Ready, Owned, NovaInv, WorkInv, GenInv, StepInv, Typed, RollPcs, ForwardPcs, HostSteps, Exchange, Failed, Done, Terminal, Phases, Att, Journals, BdmRecord, CinderRecord, LocalRecord, Moved, Ended, Stored, Came, Went
  <2>9. Marked /\ (gen' = "retired" => rotation'[x] = "none" /\ intent'[x] = "none")
    BY ONLY <1>0, <1>1, <2>1, <2>2 DEF Marked, GenInv, RollingBack, NovaInv, WorkInv, StepInv, RollPcs, Owned, Exchange, Failed, Done, Terminal, Moved, Ended, HostSteps
  <2> QED BY ONLY Concludes, TypeOK, StateInv, <1>0, <1>1, <2>1, <2>3, <2>4, <2>5, <2>6, <2>7, <2>8, <2>9 DEF records
<1>8. ASSUME NameCreated PROVE StateInv'
  <2>1. /\ w.pc = "name"
        /\ rotation'[x] = "new-created"
        /\ \A v \in Volumes : v # x => rotation'[v] = rotation[v]
        /\ UNCHANGED <<root, nova, run, bdm, cinder, intent, local, gen>>
    BY ONLY TypeOK, <1>0, <1>1, <1>8 DEF NameCreated, Write, Rotate, records, TypeOK, BdmRecord, LocalRecord
  <2>2. Moved("delete")
    BY ONLY TypeOK, <1>0, <1>1, <1>8, <1>2, Stores DEF NameCreated, Write, Rotate, records, TypeOK, BdmRecord, LocalRecord
  <2>3. \A v \in Volumes : v # x => Same(v) BY ONLY <1>0, <2>1, <2>2 DEF Same, Stored
  <2>4. Onward BY ONLY <1>0, <1>1, <2>1, <2>2 DEF Onward, Moved, Came, Went, Ended, WorkInv, Exchange
  <2>5. WorkInv' BY ONLY <1>0, <1>1, <2>1, <2>2 DEF WorkInv, Moved, Came, Went, Ended, NovaInv, Exchange, Idle, StepInv, RowInv, IntentInv, HostInv, Terminal, Failed, Done
  <2>6. AtStep' BY ONLY <1>0, <1>1, <2>1, <2>2, SMTT(20) DEF AtStep, RowInv, PhaseInv, Present, HostInv, IntentInv, LocalInv, ByOld, ByNew, ByRev, Free, Reserved, Attached, RollingBack, Used, Restored, Local, Absent, Ready, Owned, NovaInv, WorkInv, GenInv, StepInv, Typed, RollPcs, ForwardPcs, HostSteps, Exchange, Failed, Done, Terminal, Phases, Att, Journals, BdmRecord, CinderRecord, LocalRecord, Moved, Ended, Stored, Came, Went, Disconnecting
  <2>7. RotateInv' BY ONLY <1>0, <1>1, <2>1, <2>2, <2>3, <2>4, ExchangeGoesOn, NoExchange, TypeOK, TypeOK', StateInv DEF Went, Moved, Steps, Exchange, HostSteps
  <2>8. RowInv(x)' BY ONLY <1>0, <1>1, <2>1, <2>2, SMTT(20) DEF RowInv, PhaseInv, Present, HostInv, IntentInv, LocalInv, ByOld, ByNew, ByRev, Free, Reserved, Attached, RollingBack, Used, Restored, Local, Absent, Ready, Owned, NovaInv, WorkInv, GenInv, StepInv, Typed, RollPcs, ForwardPcs, HostSteps, Exchange, Failed, Done, Terminal, Phases, Att, Journals, BdmRecord, CinderRecord, LocalRecord, Moved, Ended, Stored, Came, Went
  <2>9. Marked /\ (gen' = "retired" => rotation'[x] = "none" /\ intent'[x] = "none")
    BY ONLY <1>0, <1>1, <2>1, <2>2 DEF Marked, GenInv, RollingBack, NovaInv, WorkInv, StepInv, RollPcs, Owned, Exchange, Failed, Done, Terminal, Moved, Ended, HostSteps
  <2> QED BY ONLY Concludes, TypeOK, StateInv, <1>0, <1>1, <2>1, <2>3, <2>4, <2>5, <2>6, <2>7, <2>8, <2>9 DEF records
<1>9. ASSUME DeleteOld PROVE StateInv'
  <2>1. /\ w.pc = "delete"
        /\ cinder[x]["new"] # Absent
        /\ UNCHANGED <<root, nova, run, bdm, rotation, intent, local, gen>>
    BY ONLY TypeOK, <1>0, <1>1, <1>9 DEF DeleteOld, Call, Here, Owner, records, TypeOK, BdmRecord, LocalRecord
  <2>11. cinder' = SetCinder("old", "absent", "none") => Stored("old", [status |-> "absent", conn |-> "none"]) BY ONLY <1>0, TypeOK, Stores, \A q \in Att : q = q DEF Att
  <2>2. \/ Stored("old", [status |-> "absent", conn |-> "none"]) /\ Moved("deleted")
        \/ (cinder' = cinder \/ Stored("old", [status |-> "absent", conn |-> "none"])) /\ Ended("fail")
    BY ONLY <2>11, <1>0, <1>9, <1>2, Zenon DEF DeleteOld, Call, Here
  <2>3. \A v \in Volumes : v # x => Same(v) BY ONLY <1>0, <2>1, <2>2 DEF Same, Stored
  <2>4. Onward BY ONLY <1>0, <1>1, <2>1, <2>2 DEF Onward, Moved, Came, Went, Ended, WorkInv, Exchange
  <2>5. WorkInv' BY ONLY <1>0, <1>1, <2>1, <2>2 DEF WorkInv, Moved, Came, Went, Ended, NovaInv, Exchange, Idle, StepInv, RowInv, IntentInv, HostInv, Terminal, Failed, Done
  <2>6. AtStep' BY ONLY <1>0, <1>1, <2>1, <2>2, SMTT(20) DEF AtStep, RowInv, PhaseInv, Present, HostInv, IntentInv, LocalInv, ByOld, ByNew, ByRev, Free, Reserved, Attached, RollingBack, Used, Restored, Local, Absent, Ready, Owned, NovaInv, WorkInv, GenInv, StepInv, Typed, RollPcs, ForwardPcs, HostSteps, Exchange, Failed, Done, Terminal, Phases, Att, Journals, BdmRecord, CinderRecord, LocalRecord, Moved, Ended, Stored, Came, Went, Disconnecting
  <2>7. RotateInv' BY ONLY <1>0, <1>1, <2>1, <2>2, <2>3, <2>4, ExchangeGoesOn, NoExchange, TypeOK, TypeOK', StateInv DEF Went, Moved, Steps, Exchange, HostSteps
  <2>8. RowInv(x)' BY ONLY <1>0, <1>1, <2>1, <2>2, SMTT(20) DEF RowInv, PhaseInv, Present, HostInv, IntentInv, LocalInv, ByOld, ByNew, ByRev, Free, Reserved, Attached, RollingBack, Used, Restored, Local, Absent, Ready, Owned, NovaInv, WorkInv, GenInv, StepInv, Typed, RollPcs, ForwardPcs, HostSteps, Exchange, Failed, Done, Terminal, Phases, Att, Journals, BdmRecord, CinderRecord, LocalRecord, Moved, Ended, Stored, Came, Went
  <2>9. Marked /\ (gen' = "retired" => rotation'[x] = "none" /\ intent'[x] = "none")
    BY ONLY <1>0, <1>1, <2>1, <2>2 DEF Marked, GenInv, RollingBack, NovaInv, WorkInv, StepInv, RollPcs, Owned, Exchange, Failed, Done, Terminal, Moved, Ended, HostSteps
  <2> QED BY ONLY Concludes, TypeOK, StateInv, <1>0, <1>1, <2>1, <2>3, <2>4, <2>5, <2>6, <2>7, <2>8, <2>9 DEF records
<1>10. ASSUME MarkDeleted PROVE StateInv'
  <2>1. /\ w.pc = "deleted"
        /\ rotation'[x] = "old-deleted"
        /\ \A v \in Volumes : v # x => rotation'[v] = rotation[v]
        /\ UNCHANGED <<root, nova, run, bdm, cinder, intent, local, gen>>
    BY ONLY TypeOK, <1>0, <1>1, <1>10 DEF MarkDeleted, Write, Rotate, records, TypeOK, BdmRecord, LocalRecord
  <2>2. Moved("switch")
    BY ONLY TypeOK, <1>0, <1>1, <1>10, <1>2, Stores DEF MarkDeleted, Write, Rotate, records, TypeOK, BdmRecord, LocalRecord
  <2>3. \A v \in Volumes : v # x => Same(v) BY ONLY <1>0, <2>1, <2>2 DEF Same, Stored
  <2>4. Onward BY ONLY <1>0, <1>1, <2>1, <2>2 DEF Onward, Moved, Came, Went, Ended, WorkInv, Exchange
  <2>5. WorkInv' BY ONLY <1>0, <1>1, <2>1, <2>2 DEF WorkInv, Moved, Came, Went, Ended, NovaInv, Exchange, Idle, StepInv, RowInv, IntentInv, HostInv, Terminal, Failed, Done
  <2>6. AtStep' BY ONLY <1>0, <1>1, <2>1, <2>2, SMTT(20) DEF AtStep, RowInv, PhaseInv, Present, HostInv, IntentInv, LocalInv, ByOld, ByNew, ByRev, Free, Reserved, Attached, RollingBack, Used, Restored, Local, Absent, Ready, Owned, NovaInv, WorkInv, GenInv, StepInv, Typed, RollPcs, ForwardPcs, HostSteps, Exchange, Failed, Done, Terminal, Phases, Att, Journals, BdmRecord, CinderRecord, LocalRecord, Moved, Ended, Stored, Came, Went, Disconnecting
  <2>7. RotateInv' BY ONLY <1>0, <1>1, <2>1, <2>2, <2>3, <2>4, ExchangeGoesOn, NoExchange, TypeOK, TypeOK', StateInv DEF Went, Moved, Steps, Exchange, HostSteps
  <2>8. RowInv(x)' BY ONLY <1>0, <1>1, <2>1, <2>2, SMTT(20) DEF RowInv, PhaseInv, Present, HostInv, IntentInv, LocalInv, ByOld, ByNew, ByRev, Free, Reserved, Attached, RollingBack, Used, Restored, Local, Absent, Ready, Owned, NovaInv, WorkInv, GenInv, StepInv, Typed, RollPcs, ForwardPcs, HostSteps, Exchange, Failed, Done, Terminal, Phases, Att, Journals, BdmRecord, CinderRecord, LocalRecord, Moved, Ended, Stored, Came, Went
  <2>9. Marked /\ (gen' = "retired" => rotation'[x] = "none" /\ intent'[x] = "none")
    BY ONLY <1>0, <1>1, <2>1, <2>2 DEF Marked, GenInv, RollingBack, NovaInv, WorkInv, StepInv, RollPcs, Owned, Exchange, Failed, Done, Terminal, Moved, Ended, HostSteps
  <2> QED BY ONLY Concludes, TypeOK, StateInv, <1>0, <1>1, <2>1, <2>3, <2>4, <2>5, <2>6, <2>7, <2>8, <2>9 DEF records
<1>11. ASSUME SwitchBdm PROVE StateInv'
  <2>1. /\ w.pc = "switch"
        /\ bdm'[x].conn = bdm[x].conn
        /\ \A v \in Volumes : v # x => bdm'[v] = bdm[v]
        /\ UNCHANGED <<root, nova, run, cinder, rotation, intent, local, gen>>
    BY ONLY TypeOK, <1>0, <1>1, <1>11 DEF SwitchBdm, Call, records, TypeOK, BdmRecord, LocalRecord
  <2>11. (bdm' = [bdm EXCEPT ![w.vol].att = "new"]) => bdm'[x].att = "new" BY ONLY <1>0, TypeOK DEF TypeOK, BdmRecord, LocalRecord, Here
  <2>2. \/ bdm'[x].att = "new" /\ Moved("switched")
        \/ (bdm' = bdm \/ bdm'[x].att = "new") /\ Ended("fail")
    BY ONLY <2>11, <1>0, <1>11, <1>2, Zenon DEF SwitchBdm, Call
  <2>3. \A v \in Volumes : v # x => Same(v) BY ONLY <1>0, <2>1, <2>2 DEF Same, Stored
  <2>4. Onward BY ONLY <1>0, <1>1, <2>1, <2>2 DEF Onward, Moved, Came, Went, Ended, WorkInv, Exchange
  <2>5. WorkInv' BY ONLY <1>0, <1>1, <2>1, <2>2 DEF WorkInv, Moved, Came, Went, Ended, NovaInv, Exchange, Idle, StepInv, RowInv, IntentInv, HostInv, Terminal, Failed, Done
  <2>6. AtStep' BY ONLY <1>0, <1>1, <2>1, <2>2, SMTT(20) DEF AtStep, RowInv, PhaseInv, Present, HostInv, IntentInv, LocalInv, ByOld, ByNew, ByRev, Free, Reserved, Attached, RollingBack, Used, Restored, Local, Absent, Ready, Owned, NovaInv, WorkInv, GenInv, StepInv, Typed, RollPcs, ForwardPcs, HostSteps, Exchange, Failed, Done, Terminal, Phases, Att, Journals, BdmRecord, CinderRecord, LocalRecord, Moved, Ended, Stored, Came, Went, Disconnecting
  <2>7. RotateInv' BY ONLY <1>0, <1>1, <2>1, <2>2, <2>3, <2>4, ExchangeGoesOn, NoExchange, TypeOK, TypeOK', StateInv DEF Went, Moved, Steps, Exchange, HostSteps
  <2>8. RowInv(x)' BY ONLY <1>0, <1>1, <2>1, <2>2, SMTT(20) DEF RowInv, PhaseInv, Present, HostInv, IntentInv, LocalInv, ByOld, ByNew, ByRev, Free, Reserved, Attached, RollingBack, Used, Restored, Local, Absent, Ready, Owned, NovaInv, WorkInv, GenInv, StepInv, Typed, RollPcs, ForwardPcs, HostSteps, Exchange, Failed, Done, Terminal, Phases, Att, Journals, BdmRecord, CinderRecord, LocalRecord, Moved, Ended, Stored, Came, Went
  <2>9. Marked /\ (gen' = "retired" => rotation'[x] = "none" /\ intent'[x] = "none")
    BY ONLY <1>0, <1>1, <2>1, <2>2 DEF Marked, GenInv, RollingBack, NovaInv, WorkInv, StepInv, RollPcs, Owned, Exchange, Failed, Done, Terminal, Moved, Ended, HostSteps
  <2> QED BY ONLY Concludes, TypeOK, StateInv, <1>0, <1>1, <2>1, <2>3, <2>4, <2>5, <2>6, <2>7, <2>8, <2>9 DEF records
<1>12. ASSUME MarkRotated PROVE StateInv'
  <2>1. /\ w.pc = "switched"
        /\ rotation'[x] = "bdm-rotated"
        /\ \A v \in Volumes : v # x => rotation'[v] = rotation[v]
        /\ UNCHANGED <<root, nova, run, bdm, cinder, intent, local, gen>>
    BY ONLY TypeOK, <1>0, <1>1, <1>12 DEF MarkRotated, Write, Rotate, Rotated, Visit, records, TypeOK, BdmRecord, LocalRecord
  <2>2. Went
    BY ONLY TypeOK, <1>0, <1>1, <1>12, <1>2, Stores DEF MarkRotated, Write, Rotate, Rotated, Visit, records, TypeOK, BdmRecord, LocalRecord, Went
  <2>3. \A v \in Volumes : v # x => Same(v) BY ONLY <1>0, <2>1, <2>2 DEF Same, Stored
  <2>4. Onward BY ONLY <1>0, <1>1, <2>1, <2>2 DEF Onward, Moved, Came, Went, Ended, WorkInv, Exchange
  <2>5. WorkInv' BY ONLY <1>0, <1>1, <2>1, <2>2 DEF WorkInv, Moved, Came, Went, Ended, NovaInv, Exchange, Idle, StepInv, RowInv, IntentInv, HostInv, Terminal, Failed, Done
  <2>6. AtStep' BY ONLY <1>0, <1>1, <2>1, <2>2, SMTT(20) DEF AtStep, RowInv, PhaseInv, Present, HostInv, IntentInv, LocalInv, ByOld, ByNew, ByRev, Free, Reserved, Attached, RollingBack, Used, Restored, Local, Absent, Ready, Owned, NovaInv, WorkInv, GenInv, StepInv, Typed, RollPcs, ForwardPcs, HostSteps, Exchange, Failed, Done, Terminal, Phases, Att, Journals, BdmRecord, CinderRecord, LocalRecord, Moved, Ended, Stored, Came, Went, Disconnecting
  <2>7. RotateInv'
    <4>1. CASE w.op # "rotate" BY ONLY <4>1, <2>2, NoExchange DEF Went, Moved, Ended
    <4>2. CASE w.op = "rotate" BY ONLY <4>2, <1>0, <1>1, <2>1, <2>2, <2>3, ExchangeGoesOn, TypeOK, TypeOK', StateInv DEF Went, Steps, Exchange
    <4> QED BY <4>1, <4>2
  <2>8. RowInv(x)' BY ONLY <1>0, <1>1, <2>1, <2>2, SMTT(20) DEF RowInv, PhaseInv, Present, HostInv, IntentInv, LocalInv, ByOld, ByNew, ByRev, Free, Reserved, Attached, RollingBack, Used, Restored, Local, Absent, Ready, Owned, NovaInv, WorkInv, GenInv, StepInv, Typed, RollPcs, ForwardPcs, HostSteps, Exchange, Failed, Done, Terminal, Phases, Att, Journals, BdmRecord, CinderRecord, LocalRecord, Moved, Ended, Stored, Came, Went
  <2>9. Marked /\ (gen' = "retired" => rotation'[x] = "none" /\ intent'[x] = "none")
    BY ONLY <1>0, <1>1, <2>1, <2>2 DEF Marked, GenInv, RollingBack, NovaInv, WorkInv, StepInv, RollPcs, Owned, Exchange, Failed, Done, Terminal, Moved, Ended, HostSteps
  <2> QED BY ONLY Concludes, TypeOK, StateInv, <1>0, <1>1, <2>1, <2>3, <2>4, <2>5, <2>6, <2>7, <2>8, <2>9 DEF records
<1> QED BY ONLY RotateStep, <1>3, <1>4, <1>5, <1>6, <1>7, <1>8, <1>9, <1>10, <1>11, <1>12 DEF RotateStep

LEMMA RollbackKeeps ==
    ASSUME TypeOK, TypeOK', StateInv, w # Idle, NEW x, x = w.vol, RollbackStep
    PROVE  StateInv'
<1>0. /\ x = w.vol /\ x \in Volumes /\ w # Idle /\ w.op \in {"rotate", "recover", "handoff"} /\ x \notin w.left
      /\ w.left \subseteq Volumes /\ w \in Worker /\ None \notin Volumes
      /\ w.pc = "prepare" => w.op = "rotate"
      /\ w.pc \in {"validate", "handed"} => w.op = "handoff"
      /\ w.pc \notin Exchange \cup {"validate", "handed"} => w.op = "recover"
  BY AtVolume, VolumesAssumption
<1>1. Typed(x) /\ Typed(x)' /\ RowInv(x) /\ StepInv(x) /\ NovaInv /\ WorkInv /\ GenInv BY AtVolume
<1>2. /\ \A pc : Go(pc) => Moved(pc)
      /\ \A onward : End(onward) => Ended(onward)
      /\ Raise => Ended("fail")
      /\ \A pc : (\E v \in w.left : w' = [w EXCEPT !.pc = pc, !.vol = v, !.left = @ \ {v}, !.att = bdm[v].att])
                         /\ UNCHANGED rpc => Came(pc)
  BY ONLY <1>0, GoesOn, Zenon
<1>3. ASSUME Dispatch PROVE StateInv'
  <2>1. /\ w.pc = "read"
        /\ UNCHANGED <<root, nova, run, bdm, cinder, rotation, intent, local, gen>>
    BY ONLY TypeOK, <1>0, <1>1, <1>3 DEF Dispatch, Read, Phase, Named, Boot, records, TypeOK, BdmRecord, LocalRecord
  <2>2. \/ rotation[x] \in Terminal /\ Moved("retire")
        \/ /\ w.status \in Failed /\ w.host = "source" /\ rotation[x] \notin Terminal
           /\ intent[x] \in {"old", "new"}
           /\ \/ rotation[x] # "none" /\ Moved("fence")
              \/ rotation[x] = "none" /\ Moved(IF x = root THEN "intentOnly" ELSE "local")
        \/ w.status \notin Failed /\ rotation[x] \notin Terminal \cup {"none"} /\ Moved("advance")
        \/ Ended("none") \/ Ended("fail")
    BY ONLY TypeOK, <1>0, <1>1, <1>3, <1>2, Stores DEF Dispatch, Read, Phase, Named, Boot, records, TypeOK, BdmRecord, LocalRecord
  <2>3. \A v \in Volumes : v # x => Same(v) BY ONLY <1>0, <2>1, <2>2 DEF Same, Stored
  <2>4. Onward BY ONLY <1>0, <1>1, <2>1, <2>2 DEF Onward, Moved, Came, Went, Ended, WorkInv, Exchange
  <2>5. WorkInv' BY ONLY <1>0, <1>1, <2>1, <2>2 DEF WorkInv, Moved, Came, Went, Ended, NovaInv, Exchange, Idle, StepInv, RowInv, IntentInv, HostInv, Terminal, Failed, Done
  <2>6. AtStep' BY ONLY <1>0, <1>1, <2>1, <2>2, SMTT(20) DEF AtStep, RowInv, PhaseInv, Present, HostInv, IntentInv, LocalInv, ByOld, ByNew, ByRev, Free, Reserved, Attached, RollingBack, Used, Restored, Local, Absent, Ready, Owned, NovaInv, WorkInv, GenInv, StepInv, Typed, RollPcs, ForwardPcs, HostSteps, Exchange, Failed, Done, Terminal, Phases, Att, Journals, BdmRecord, CinderRecord, LocalRecord, Moved, Ended, Stored, Came, Went, Disconnecting
  <2>7. RotateInv' BY ONLY <1>0, <1>1, <2>1, <2>2, NoExchange DEF Moved, Ended, Came, Exchange
  <2>8. w.op = "rotate" /\ rpc' = "leave" => rotation[x] = "bdm-rotated" BY ONLY <1>0, <1>1, <2>1, <2>2 DEF Moved, Ended, Came, Went, WorkInv, Exchange
  <2> QED BY ONLY Decides, TypeOK, StateInv, <1>0, <1>1, <2>1, <2>4, <2>5, <2>6, <2>7, <2>8 DEF records
<1>4. ASSUME Fence PROVE StateInv'
  <2>1. /\ w.pc = "fence"
        /\ UNCHANGED <<root, nova, run, bdm, cinder, rotation, intent, local, gen>>
    BY ONLY TypeOK, <1>0, <1>1, <1>4 DEF Fence, Read, RollBack, Phase, Boot, Here, records, TypeOK, BdmRecord, LocalRecord
  <2>2. \/ rotation[x] \in {"prepared", "source-old-retained"} /\ Moved(IF x = root THEN "done" ELSE "local")
        \/ /\ rotation[x] = "new-created"
           /\ Moved(IF cinder[x]["old"] # Absent THEN "reject" ELSE "adopt")
        \/ rotation[x] \in {"old-deleted", "bdm-rotated"} /\ Moved("advance")
        \/ Ended("fail")
    BY ONLY TypeOK, <1>0, <1>1, <1>4, <1>2, Stores DEF Fence, Read, RollBack, Phase, Boot, Here, records, TypeOK, BdmRecord, LocalRecord
  <2>3. \A v \in Volumes : v # x => Same(v) BY ONLY <1>0, <2>1, <2>2 DEF Same, Stored
  <2>4. Onward BY ONLY <1>0, <1>1, <2>1, <2>2 DEF Onward, Moved, Came, Went, Ended, WorkInv, Exchange
  <2>5. WorkInv' BY ONLY <1>0, <1>1, <2>1, <2>2 DEF WorkInv, Moved, Came, Went, Ended, NovaInv, Exchange, Idle, StepInv, RowInv, IntentInv, HostInv, Terminal, Failed, Done
  <2>6. AtStep' BY ONLY <1>0, <1>1, <2>1, <2>2, SMTT(20) DEF AtStep, RowInv, PhaseInv, Present, HostInv, IntentInv, LocalInv, ByOld, ByNew, ByRev, Free, Reserved, Attached, RollingBack, Used, Restored, Local, Absent, Ready, Owned, NovaInv, WorkInv, GenInv, StepInv, Typed, RollPcs, ForwardPcs, HostSteps, Exchange, Failed, Done, Terminal, Phases, Att, Journals, BdmRecord, CinderRecord, LocalRecord, Moved, Ended, Stored, Came, Went, Disconnecting
  <2>7. RotateInv' BY ONLY <1>0, <1>1, <2>1, <2>2, NoExchange DEF Moved, Ended, Came, Exchange
  <2>8. w.op = "rotate" /\ rpc' = "leave" => rotation[x] = "bdm-rotated" BY ONLY <1>0, <1>1, <2>1, <2>2 DEF Moved, Ended, Came, Went, WorkInv, Exchange
  <2> QED BY ONLY Decides, TypeOK, StateInv, <1>0, <1>1, <2>1, <2>4, <2>5, <2>6, <2>7, <2>8 DEF records
<1>5. ASSUME RejectNew PROVE StateInv'
  <2>1. /\ w.pc = "reject"
        /\ UNCHANGED <<root, nova, run, bdm, cinder, rotation, intent, local, gen>>
    BY ONLY TypeOK, <1>0, <1>1, <1>5 DEF RejectNew, Decide, Here, records, TypeOK, BdmRecord, LocalRecord
  <2>2. Moved("deleteNew") \/ Ended("fail")
    BY ONLY TypeOK, <1>0, <1>1, <1>5, <1>2, Stores DEF RejectNew, Decide, Here, records, TypeOK, BdmRecord, LocalRecord
  <2>3. \A v \in Volumes : v # x => Same(v) BY ONLY <1>0, <2>1, <2>2 DEF Same, Stored
  <2>4. Onward BY ONLY <1>0, <1>1, <2>1, <2>2 DEF Onward, Moved, Came, Went, Ended, WorkInv, Exchange
  <2>5. WorkInv' BY ONLY <1>0, <1>1, <2>1, <2>2 DEF WorkInv, Moved, Came, Went, Ended, NovaInv, Exchange, Idle, StepInv, RowInv, IntentInv, HostInv, Terminal, Failed, Done
  <2>6. AtStep' BY ONLY <1>0, <1>1, <2>1, <2>2, SMTT(20) DEF AtStep, RowInv, PhaseInv, Present, HostInv, IntentInv, LocalInv, ByOld, ByNew, ByRev, Free, Reserved, Attached, RollingBack, Used, Restored, Local, Absent, Ready, Owned, NovaInv, WorkInv, GenInv, StepInv, Typed, RollPcs, ForwardPcs, HostSteps, Exchange, Failed, Done, Terminal, Phases, Att, Journals, BdmRecord, CinderRecord, LocalRecord, Moved, Ended, Stored, Came, Went, Disconnecting
  <2>7. RotateInv' BY ONLY <1>0, <1>1, <2>1, <2>2, NoExchange DEF Moved, Ended, Came, Exchange
  <2>8. w.op = "rotate" /\ rpc' = "leave" => rotation[x] = "bdm-rotated" BY ONLY <1>0, <1>1, <2>1, <2>2 DEF Moved, Ended, Came, Went, WorkInv, Exchange
  <2> QED BY ONLY Decides, TypeOK, StateInv, <1>0, <1>1, <2>1, <2>4, <2>5, <2>6, <2>7, <2>8 DEF records
<1>6. ASSUME DeleteNew PROVE StateInv'
  <2>1. /\ w.pc = "deleteNew"
        /\ UNCHANGED <<root, nova, run, bdm, rotation, intent, local, gen>>
    BY ONLY TypeOK, <1>0, <1>1, <1>6 DEF DeleteNew, Call, Owner, Here, records, TypeOK, BdmRecord, LocalRecord
  <2>11. cinder' = SetCinder("new", "absent", "none") => Stored("new", [status |-> "absent", conn |-> "none"]) BY ONLY <1>0, TypeOK, Stores, \A q \in Att : q = q DEF Att
  <2>2. \/ Stored("new", [status |-> "absent", conn |-> "none"]) /\ Moved("retained")
        \/ (cinder' = cinder \/ Stored("new", [status |-> "absent", conn |-> "none"])) /\ Ended("fail")
    BY ONLY <2>11, <1>0, <1>6, <1>2, Zenon DEF DeleteNew, Call, Here
  <2>3. \A v \in Volumes : v # x => Same(v) BY ONLY <1>0, <2>1, <2>2 DEF Same, Stored
  <2>4. Onward BY ONLY <1>0, <1>1, <2>1, <2>2 DEF Onward, Moved, Came, Went, Ended, WorkInv, Exchange
  <2>5. WorkInv' BY ONLY <1>0, <1>1, <2>1, <2>2 DEF WorkInv, Moved, Came, Went, Ended, NovaInv, Exchange, Idle, StepInv, RowInv, IntentInv, HostInv, Terminal, Failed, Done
  <2>6. AtStep' BY ONLY <1>0, <1>1, <2>1, <2>2, SMTT(20) DEF AtStep, RowInv, PhaseInv, Present, HostInv, IntentInv, LocalInv, ByOld, ByNew, ByRev, Free, Reserved, Attached, RollingBack, Used, Restored, Local, Absent, Ready, Owned, NovaInv, WorkInv, GenInv, StepInv, Typed, RollPcs, ForwardPcs, HostSteps, Exchange, Failed, Done, Terminal, Phases, Att, Journals, BdmRecord, CinderRecord, LocalRecord, Moved, Ended, Stored, Came, Went, Disconnecting
  <2>7. RotateInv' BY ONLY <1>0, <1>1, <2>1, <2>2, NoExchange DEF Moved, Ended, Came, Exchange
  <2>8. RowInv(x)' BY ONLY <1>0, <1>1, <2>1, <2>2, SMTT(20) DEF RowInv, PhaseInv, Present, HostInv, IntentInv, LocalInv, ByOld, ByNew, ByRev, Free, Reserved, Attached, RollingBack, Used, Restored, Local, Absent, Ready, Owned, NovaInv, WorkInv, GenInv, StepInv, Typed, RollPcs, ForwardPcs, HostSteps, Exchange, Failed, Done, Terminal, Phases, Att, Journals, BdmRecord, CinderRecord, LocalRecord, Moved, Ended, Stored, Came, Went
  <2>9. Marked /\ (gen' = "retired" => rotation'[x] = "none" /\ intent'[x] = "none")
    BY ONLY <1>0, <1>1, <2>1, <2>2 DEF Marked, GenInv, RollingBack, NovaInv, WorkInv, StepInv, RollPcs, Owned, Exchange, Failed, Done, Terminal, Moved, Ended, HostSteps
  <2> QED BY ONLY Concludes, TypeOK, StateInv, <1>0, <1>1, <2>1, <2>3, <2>4, <2>5, <2>6, <2>7, <2>8, <2>9 DEF records
<1>7. ASSUME MarkRetained PROVE StateInv'
  <2>1. /\ w.pc = "retained"
        /\ rotation'[x] = "source-old-retained"
        /\ \A v \in Volumes : v # x => rotation'[v] = rotation[v]
        /\ UNCHANGED <<root, nova, run, bdm, cinder, intent, local, gen>>
    BY ONLY TypeOK, <1>0, <1>1, <1>7 DEF MarkRetained, Write, Rotate, Boot, records, TypeOK, BdmRecord, LocalRecord
  <2>2. Moved(IF x = root THEN "done" ELSE "local")
    BY ONLY TypeOK, <1>0, <1>1, <1>7, <1>2, Stores DEF MarkRetained, Write, Rotate, Boot, records, TypeOK, BdmRecord, LocalRecord
  <2>3. \A v \in Volumes : v # x => Same(v) BY ONLY <1>0, <2>1, <2>2 DEF Same, Stored
  <2>4. Onward BY ONLY <1>0, <1>1, <2>1, <2>2 DEF Onward, Moved, Came, Went, Ended, WorkInv, Exchange
  <2>5. WorkInv' BY ONLY <1>0, <1>1, <2>1, <2>2 DEF WorkInv, Moved, Came, Went, Ended, NovaInv, Exchange, Idle, StepInv, RowInv, IntentInv, HostInv, Terminal, Failed, Done
  <2>6. AtStep' BY ONLY <1>0, <1>1, <2>1, <2>2, SMTT(20) DEF AtStep, RowInv, PhaseInv, Present, HostInv, IntentInv, LocalInv, ByOld, ByNew, ByRev, Free, Reserved, Attached, RollingBack, Used, Restored, Local, Absent, Ready, Owned, NovaInv, WorkInv, GenInv, StepInv, Typed, RollPcs, ForwardPcs, HostSteps, Exchange, Failed, Done, Terminal, Phases, Att, Journals, BdmRecord, CinderRecord, LocalRecord, Moved, Ended, Stored, Came, Went, Disconnecting
  <2>7. RotateInv' BY ONLY <1>0, <1>1, <2>1, <2>2, NoExchange DEF Moved, Ended, Came, Exchange
  <2>8. RowInv(x)' BY ONLY <1>0, <1>1, <2>1, <2>2, SMTT(20) DEF RowInv, PhaseInv, Present, HostInv, IntentInv, LocalInv, ByOld, ByNew, ByRev, Free, Reserved, Attached, RollingBack, Used, Restored, Local, Absent, Ready, Owned, NovaInv, WorkInv, GenInv, StepInv, Typed, RollPcs, ForwardPcs, HostSteps, Exchange, Failed, Done, Terminal, Phases, Att, Journals, BdmRecord, CinderRecord, LocalRecord, Moved, Ended, Stored, Came, Went
  <2>9. Marked /\ (gen' = "retired" => rotation'[x] = "none" /\ intent'[x] = "none")
    BY ONLY <1>0, <1>1, <2>1, <2>2 DEF Marked, GenInv, RollingBack, NovaInv, WorkInv, StepInv, RollPcs, Owned, Exchange, Failed, Done, Terminal, Moved, Ended, HostSteps
  <2> QED BY ONLY Concludes, TypeOK, StateInv, <1>0, <1>1, <2>1, <2>3, <2>4, <2>5, <2>6, <2>7, <2>8, <2>9 DEF records
<1>8. ASSUME AdoptNew PROVE StateInv'
  <2>1. /\ w.pc = "adopt"
        /\ cinder[x]["new"] # Absent
        /\ rotation'[x] = "old-deleted"
        /\ \A v \in Volumes : v # x => rotation'[v] = rotation[v]
        /\ UNCHANGED <<root, nova, run, bdm, cinder, intent, local, gen>>
    BY ONLY TypeOK, <1>0, <1>1, <1>8 DEF AdoptNew, Write, Rotate, Here, records, TypeOK, BdmRecord, LocalRecord
  <2>2. Moved("advance")
    BY ONLY TypeOK, <1>0, <1>1, <1>8, <1>2, Stores DEF AdoptNew, Write, Rotate, Here, records, TypeOK, BdmRecord, LocalRecord
  <2>3. \A v \in Volumes : v # x => Same(v) BY ONLY <1>0, <2>1, <2>2 DEF Same, Stored
  <2>4. Onward BY ONLY <1>0, <1>1, <2>1, <2>2 DEF Onward, Moved, Came, Went, Ended, WorkInv, Exchange
  <2>5. WorkInv' BY ONLY <1>0, <1>1, <2>1, <2>2 DEF WorkInv, Moved, Came, Went, Ended, NovaInv, Exchange, Idle, StepInv, RowInv, IntentInv, HostInv, Terminal, Failed, Done
  <2>6. AtStep' BY ONLY <1>0, <1>1, <2>1, <2>2, SMTT(20) DEF AtStep, RowInv, PhaseInv, Present, HostInv, IntentInv, LocalInv, ByOld, ByNew, ByRev, Free, Reserved, Attached, RollingBack, Used, Restored, Local, Absent, Ready, Owned, NovaInv, WorkInv, GenInv, StepInv, Typed, RollPcs, ForwardPcs, HostSteps, Exchange, Failed, Done, Terminal, Phases, Att, Journals, BdmRecord, CinderRecord, LocalRecord, Moved, Ended, Stored, Came, Went, Disconnecting
  <2>7. RotateInv' BY ONLY <1>0, <1>1, <2>1, <2>2, NoExchange DEF Moved, Ended, Came, Exchange
  <2>8. RowInv(x)' BY ONLY <1>0, <1>1, <2>1, <2>2, SMTT(20) DEF RowInv, PhaseInv, Present, HostInv, IntentInv, LocalInv, ByOld, ByNew, ByRev, Free, Reserved, Attached, RollingBack, Used, Restored, Local, Absent, Ready, Owned, NovaInv, WorkInv, GenInv, StepInv, Typed, RollPcs, ForwardPcs, HostSteps, Exchange, Failed, Done, Terminal, Phases, Att, Journals, BdmRecord, CinderRecord, LocalRecord, Moved, Ended, Stored, Came, Went
  <2>9. Marked /\ (gen' = "retired" => rotation'[x] = "none" /\ intent'[x] = "none")
    BY ONLY <1>0, <1>1, <2>1, <2>2 DEF Marked, GenInv, RollingBack, NovaInv, WorkInv, StepInv, RollPcs, Owned, Exchange, Failed, Done, Terminal, Moved, Ended, HostSteps
  <2> QED BY ONLY Concludes, TypeOK, StateInv, <1>0, <1>1, <2>1, <2>3, <2>4, <2>5, <2>6, <2>7, <2>8, <2>9 DEF records
<1>9. ASSUME UpdateNew PROVE StateInv'
  <2>1. /\ w.pc = "update"
        /\ UNCHANGED <<root, nova, run, bdm, rotation, intent, local, gen>>
    BY ONLY TypeOK, <1>0, <1>1, <1>9 DEF UpdateNew, Call, Decide, Here, Owner, records, TypeOK, BdmRecord, LocalRecord
  <2>11. cinder' = SetCinder("new", "attaching", "source") => Stored("new", [status |-> "attaching", conn |-> "source"]) BY ONLY <1>0, TypeOK, Stores, \A q \in Att : q = q DEF Att
  <2>2. \/ cinder[x]["new"].status # "reserved" /\ cinder' = cinder /\ Moved("save")
        \/ /\ cinder[x]["new"].status = "reserved"
           /\ \/ Stored("new", [status |-> "attaching", conn |-> "source"]) /\ Moved("save")
              \/ (cinder' = cinder \/ Stored("new", [status |-> "attaching", conn |-> "source"])) /\ Ended("fail")
    BY ONLY <2>11, <1>0, <1>9, <1>2, Zenon DEF UpdateNew, Call, Decide, Here
  <2>3. \A v \in Volumes : v # x => Same(v) BY ONLY <1>0, <2>1, <2>2 DEF Same, Stored
  <2>4. Onward BY ONLY <1>0, <1>1, <2>1, <2>2 DEF Onward, Moved, Came, Went, Ended, WorkInv, Exchange
  <2>5. WorkInv' BY ONLY <1>0, <1>1, <2>1, <2>2 DEF WorkInv, Moved, Came, Went, Ended, NovaInv, Exchange, Idle, StepInv, RowInv, IntentInv, HostInv, Terminal, Failed, Done
  <2>6. AtStep' BY ONLY <1>0, <1>1, <2>1, <2>2, SMTT(20) DEF AtStep, RowInv, PhaseInv, Present, HostInv, IntentInv, LocalInv, ByOld, ByNew, ByRev, Free, Reserved, Attached, RollingBack, Used, Restored, Local, Absent, Ready, Owned, NovaInv, WorkInv, GenInv, StepInv, Typed, RollPcs, ForwardPcs, HostSteps, Exchange, Failed, Done, Terminal, Phases, Att, Journals, BdmRecord, CinderRecord, LocalRecord, Moved, Ended, Stored, Came, Went, Disconnecting
  <2>7. RotateInv' BY ONLY <1>0, <1>1, <2>1, <2>2, NoExchange DEF Moved, Ended, Came, Exchange
  <2>8. RowInv(x)' BY ONLY <1>0, <1>1, <2>1, <2>2, SMTT(20) DEF RowInv, PhaseInv, Present, HostInv, IntentInv, LocalInv, ByOld, ByNew, ByRev, Free, Reserved, Attached, RollingBack, Used, Restored, Local, Absent, Ready, Owned, NovaInv, WorkInv, GenInv, StepInv, Typed, RollPcs, ForwardPcs, HostSteps, Exchange, Failed, Done, Terminal, Phases, Att, Journals, BdmRecord, CinderRecord, LocalRecord, Moved, Ended, Stored, Came, Went
  <2>9. Marked /\ (gen' = "retired" => rotation'[x] = "none" /\ intent'[x] = "none")
    BY ONLY <1>0, <1>1, <2>1, <2>2 DEF Marked, GenInv, RollingBack, NovaInv, WorkInv, StepInv, RollPcs, Owned, Exchange, Failed, Done, Terminal, Moved, Ended, HostSteps
  <2> QED BY ONLY Concludes, TypeOK, StateInv, <1>0, <1>1, <2>1, <2>3, <2>4, <2>5, <2>6, <2>7, <2>8, <2>9 DEF records
<1>10. ASSUME SaveBdm PROVE StateInv'
  <2>1. /\ w.pc = "save"
        /\ bdm'[x].att = bdm[x].att
        /\ \A v \in Volumes : v # x => bdm'[v] = bdm[v]
        /\ UNCHANGED <<root, nova, run, cinder, rotation, intent, local, gen>>
    BY ONLY TypeOK, <1>0, <1>1, <1>10 DEF SaveBdm, Call, Here, Boot, records, TypeOK, BdmRecord, LocalRecord
  <2>11. (bdm' = [bdm EXCEPT ![w.vol].conn = Here("new").conn]) => bdm'[x].conn = cinder[x]["new"].conn BY ONLY <1>0, TypeOK DEF TypeOK, BdmRecord, LocalRecord, Here
  <2>2. \/ bdm'[x].conn = cinder[x]["new"].conn /\ Moved(IF x = root THEN "complete" ELSE "restart")
        \/ (bdm' = bdm \/ bdm'[x].conn = cinder[x]["new"].conn) /\ Ended("fail")
    BY ONLY <2>11, <1>0, <1>10, <1>2, Zenon DEF SaveBdm, Call, Here, Boot
  <2>3. \A v \in Volumes : v # x => Same(v) BY ONLY <1>0, <2>1, <2>2 DEF Same, Stored
  <2>4. Onward BY ONLY <1>0, <1>1, <2>1, <2>2 DEF Onward, Moved, Came, Went, Ended, WorkInv, Exchange
  <2>5. WorkInv' BY ONLY <1>0, <1>1, <2>1, <2>2 DEF WorkInv, Moved, Came, Went, Ended, NovaInv, Exchange, Idle, StepInv, RowInv, IntentInv, HostInv, Terminal, Failed, Done
  <2>6. AtStep' BY ONLY <1>0, <1>1, <2>1, <2>2, SMTT(20) DEF AtStep, RowInv, PhaseInv, Present, HostInv, IntentInv, LocalInv, ByOld, ByNew, ByRev, Free, Reserved, Attached, RollingBack, Used, Restored, Local, Absent, Ready, Owned, NovaInv, WorkInv, GenInv, StepInv, Typed, RollPcs, ForwardPcs, HostSteps, Exchange, Failed, Done, Terminal, Phases, Att, Journals, BdmRecord, CinderRecord, LocalRecord, Moved, Ended, Stored, Came, Went, Disconnecting
  <2>7. RotateInv' BY ONLY <1>0, <1>1, <2>1, <2>2, NoExchange DEF Moved, Ended, Came, Exchange
  <2>8. RowInv(x)' BY ONLY <1>0, <1>1, <2>1, <2>2, SMTT(20) DEF RowInv, PhaseInv, Present, HostInv, IntentInv, LocalInv, ByOld, ByNew, ByRev, Free, Reserved, Attached, RollingBack, Used, Restored, Local, Absent, Ready, Owned, NovaInv, WorkInv, GenInv, StepInv, Typed, RollPcs, ForwardPcs, HostSteps, Exchange, Failed, Done, Terminal, Phases, Att, Journals, BdmRecord, CinderRecord, LocalRecord, Moved, Ended, Stored, Came, Went
  <2>9. Marked /\ (gen' = "retired" => rotation'[x] = "none" /\ intent'[x] = "none")
    BY ONLY <1>0, <1>1, <2>1, <2>2 DEF Marked, GenInv, RollingBack, NovaInv, WorkInv, StepInv, RollPcs, Owned, Exchange, Failed, Done, Terminal, Moved, Ended, HostSteps
  <2> QED BY ONLY Concludes, TypeOK, StateInv, <1>0, <1>1, <2>1, <2>3, <2>4, <2>5, <2>6, <2>7, <2>8, <2>9 DEF records
<1>11. ASSUME Restart PROVE StateInv'
  <2>1. /\ w.pc = "restart"
        /\ UNCHANGED <<root, nova, run, bdm, cinder, rotation, intent, local, gen>>
    BY ONLY TypeOK, <1>0, <1>1, <1>11 DEF Restart, Decide, Journal, Disconnecting, records, TypeOK, BdmRecord, LocalRecord
  <2>2. Moved("disconnect") \/ Ended("fail")
    BY ONLY TypeOK, <1>0, <1>1, <1>11, <1>2, Stores DEF Restart, Decide, Journal, Disconnecting, records, TypeOK, BdmRecord, LocalRecord
  <2>3. \A v \in Volumes : v # x => Same(v) BY ONLY <1>0, <2>1, <2>2 DEF Same, Stored
  <2>4. Onward BY ONLY <1>0, <1>1, <2>1, <2>2 DEF Onward, Moved, Came, Went, Ended, WorkInv, Exchange
  <2>5. WorkInv' BY ONLY <1>0, <1>1, <2>1, <2>2 DEF WorkInv, Moved, Came, Went, Ended, NovaInv, Exchange, Idle, StepInv, RowInv, IntentInv, HostInv, Terminal, Failed, Done
  <2>6. AtStep' BY ONLY <1>0, <1>1, <2>1, <2>2, SMTT(20) DEF AtStep, RowInv, PhaseInv, Present, HostInv, IntentInv, LocalInv, ByOld, ByNew, ByRev, Free, Reserved, Attached, RollingBack, Used, Restored, Local, Absent, Ready, Owned, NovaInv, WorkInv, GenInv, StepInv, Typed, RollPcs, ForwardPcs, HostSteps, Exchange, Failed, Done, Terminal, Phases, Att, Journals, BdmRecord, CinderRecord, LocalRecord, Moved, Ended, Stored, Came, Went, Disconnecting
  <2>7. RotateInv' BY ONLY <1>0, <1>1, <2>1, <2>2, NoExchange DEF Moved, Ended, Came, Exchange
  <2>8. w.op = "rotate" /\ rpc' = "leave" => rotation[x] = "bdm-rotated" BY ONLY <1>0, <1>1, <2>1, <2>2 DEF Moved, Ended, Came, Went, WorkInv, Exchange
  <2> QED BY ONLY Decides, TypeOK, StateInv, <1>0, <1>1, <2>1, <2>4, <2>5, <2>6, <2>7, <2>8 DEF records
<1>12. ASSUME Replay PROVE StateInv'
  <2>1. /\ w.pc = "local"
        /\ UNCHANGED <<root, nova, run, bdm, cinder, rotation, intent, local, gen>>
    BY ONLY TypeOK, <1>0, <1>1, <1>12 DEF Replay, Decide, Journal, Disconnecting, Named, Here, records, TypeOK, BdmRecord, LocalRecord
  <2>2. (local[x].journal \in Disconnecting /\ Moved("disconnect")) \/ Moved("confirm") \/ Moved("connect") \/ Ended("fail")
    BY ONLY TypeOK, <1>0, <1>1, <1>12, <1>2, Stores DEF Replay, Decide, Journal, Disconnecting, Named, Here, records, TypeOK, BdmRecord, LocalRecord
  <2>3. \A v \in Volumes : v # x => Same(v) BY ONLY <1>0, <2>1, <2>2 DEF Same, Stored
  <2>4. Onward BY ONLY <1>0, <1>1, <2>1, <2>2 DEF Onward, Moved, Came, Went, Ended, WorkInv, Exchange
  <2>5. WorkInv' BY ONLY <1>0, <1>1, <2>1, <2>2 DEF WorkInv, Moved, Came, Went, Ended, NovaInv, Exchange, Idle, StepInv, RowInv, IntentInv, HostInv, Terminal, Failed, Done
  <2>6. AtStep' BY ONLY <1>0, <1>1, <2>1, <2>2, SMTT(20) DEF AtStep, RowInv, PhaseInv, Present, HostInv, IntentInv, LocalInv, ByOld, ByNew, ByRev, Free, Reserved, Attached, RollingBack, Used, Restored, Local, Absent, Ready, Owned, NovaInv, WorkInv, GenInv, StepInv, Typed, RollPcs, ForwardPcs, HostSteps, Exchange, Failed, Done, Terminal, Phases, Att, Journals, BdmRecord, CinderRecord, LocalRecord, Moved, Ended, Stored, Came, Went, Disconnecting
  <2>7. RotateInv' BY ONLY <1>0, <1>1, <2>1, <2>2, NoExchange DEF Moved, Ended, Came, Exchange
  <2>8. w.op = "rotate" /\ rpc' = "leave" => rotation[x] = "bdm-rotated" BY ONLY <1>0, <1>1, <2>1, <2>2 DEF Moved, Ended, Came, Went, WorkInv, Exchange
  <2> QED BY ONLY Decides, TypeOK, StateInv, <1>0, <1>1, <2>1, <2>4, <2>5, <2>6, <2>7, <2>8 DEF records
<1>13. ASSUME Complete PROVE StateInv'
  <2>1. /\ w.pc = "complete"
        /\ UNCHANGED <<root, nova, run, bdm, rotation, intent, local, gen>>
    BY ONLY TypeOK, <1>0, <1>1, <1>13 DEF Complete, Call, Read, Here, Owner, records, TypeOK, BdmRecord, LocalRecord
  <2>2. \/ cinder' = cinder /\ cinder[x][bdm[x].att].status # "attaching" /\ Moved("done")
        \/ cinder' = cinder /\ Ended("fail")
        \/ /\ cinder[x][bdm[x].att].status = "attaching"
           /\ Stored(bdm[x].att, [status |-> "attached", conn |-> cinder[x][bdm[x].att].conn])
           /\ Moved("done") \/ Ended("fail")
    BY ONLY TypeOK, <1>0, <1>1, <1>13, <1>2, Stores DEF Complete, Call, Read, Here, Owner, records, TypeOK, BdmRecord, LocalRecord
  <2>3. \A v \in Volumes : v # x => Same(v) BY ONLY <1>0, <2>1, <2>2 DEF Same, Stored
  <2>4. Onward BY ONLY <1>0, <1>1, <2>1, <2>2 DEF Onward, Moved, Came, Went, Ended, WorkInv, Exchange
  <2>5. WorkInv' BY ONLY <1>0, <1>1, <2>1, <2>2 DEF WorkInv, Moved, Came, Went, Ended, NovaInv, Exchange, Idle, StepInv, RowInv, IntentInv, HostInv, Terminal, Failed, Done
  <2>6. AtStep' BY ONLY <1>0, <1>1, <2>1, <2>2, SMTT(20) DEF AtStep, RowInv, PhaseInv, Present, HostInv, IntentInv, LocalInv, ByOld, ByNew, ByRev, Free, Reserved, Attached, RollingBack, Used, Restored, Local, Absent, Ready, Owned, NovaInv, WorkInv, GenInv, StepInv, Typed, RollPcs, ForwardPcs, HostSteps, Exchange, Failed, Done, Terminal, Phases, Att, Journals, BdmRecord, CinderRecord, LocalRecord, Moved, Ended, Stored, Came, Went, Disconnecting
  <2>7. RotateInv' BY ONLY <1>0, <1>1, <2>1, <2>2, NoExchange DEF Moved, Ended, Came, Exchange
  <2>8. RowInv(x)' BY ONLY <1>0, <1>1, <2>1, <2>2, SMTT(20) DEF RowInv, PhaseInv, Present, HostInv, IntentInv, LocalInv, ByOld, ByNew, ByRev, Free, Reserved, Attached, RollingBack, Used, Restored, Local, Absent, Ready, Owned, NovaInv, WorkInv, GenInv, StepInv, Typed, RollPcs, ForwardPcs, HostSteps, Exchange, Failed, Done, Terminal, Phases, Att, Journals, BdmRecord, CinderRecord, LocalRecord, Moved, Ended, Stored, Came, Went
  <2>9. Marked /\ (gen' = "retired" => rotation'[x] = "none" /\ intent'[x] = "none")
    BY ONLY <1>0, <1>1, <2>1, <2>2 DEF Marked, GenInv, RollingBack, NovaInv, WorkInv, StepInv, RollPcs, Owned, Exchange, Failed, Done, Terminal, Moved, Ended, HostSteps
  <2> QED BY ONLY Concludes, TypeOK, StateInv, <1>0, <1>1, <2>1, <2>3, <2>4, <2>5, <2>6, <2>7, <2>8, <2>9 DEF records
<1>14. ASSUME IntentOnly PROVE StateInv'
  <2>1. /\ w.pc = "intentOnly"
        /\ UNCHANGED <<root, nova, run, bdm, cinder, rotation, intent, local, gen>>
    BY ONLY TypeOK, <1>0, <1>1, <1>14 DEF IntentOnly, Read, Named, Present, records, TypeOK, BdmRecord, LocalRecord
  <2>11. {a \in Att : Present(w.vol, a)} = {Named} => intent[x] # "none" BY ONLY <1>0, TypeOK DEF TypeOK, BdmRecord, LocalRecord, Here, Named, Att
  <2>2. (intent[x] # "none" /\ Moved("done")) \/ Ended("fail")
    BY ONLY <2>11, <1>0, <1>14, <1>2, Zenon DEF IntentOnly, Read, Present
  <2>3. \A v \in Volumes : v # x => Same(v) BY ONLY <1>0, <2>1, <2>2 DEF Same, Stored
  <2>4. Onward BY ONLY <1>0, <1>1, <2>1, <2>2 DEF Onward, Moved, Came, Went, Ended, WorkInv, Exchange
  <2>5. WorkInv' BY ONLY <1>0, <1>1, <2>1, <2>2 DEF WorkInv, Moved, Came, Went, Ended, NovaInv, Exchange, Idle, StepInv, RowInv, IntentInv, HostInv, Terminal, Failed, Done
  <2>6. AtStep' BY ONLY <1>0, <1>1, <2>1, <2>2, SMTT(20) DEF AtStep, RowInv, PhaseInv, Present, HostInv, IntentInv, LocalInv, ByOld, ByNew, ByRev, Free, Reserved, Attached, RollingBack, Used, Restored, Local, Absent, Ready, Owned, NovaInv, WorkInv, GenInv, StepInv, Typed, RollPcs, ForwardPcs, HostSteps, Exchange, Failed, Done, Terminal, Phases, Att, Journals, BdmRecord, CinderRecord, LocalRecord, Moved, Ended, Stored, Came, Went, Disconnecting
  <2>7. RotateInv' BY ONLY <1>0, <1>1, <2>1, <2>2, NoExchange DEF Moved, Ended, Came, Exchange
  <2>8. w.op = "rotate" /\ rpc' = "leave" => rotation[x] = "bdm-rotated" BY ONLY <1>0, <1>1, <2>1, <2>2 DEF Moved, Ended, Came, Went, WorkInv, Exchange
  <2> QED BY ONLY Decides, TypeOK, StateInv, <1>0, <1>1, <2>1, <2>4, <2>5, <2>6, <2>7, <2>8 DEF records
<1>15. ASSUME MarkDone PROVE StateInv'
  <2>1. /\ w.pc = "done"
        /\ UNCHANGED <<root, nova, run, bdm, cinder, rotation, intent, local>>
    BY ONLY TypeOK, <1>0, <1>1, <1>15 DEF MarkDone, Call, records, TypeOK, BdmRecord, LocalRecord
  <2>2. \/ gen' = "done" /\ Moved("replace")
        \/ gen' \in {gen, "done"} /\ Ended("fail")
    BY ONLY TypeOK, <1>0, <1>1, <1>15, <1>2, Stores DEF MarkDone, Call, records, TypeOK, BdmRecord, LocalRecord
  <2>3. \A v \in Volumes : v # x => Same(v) BY ONLY <1>0, <2>1, <2>2 DEF Same, Stored
  <2>4. Onward BY ONLY <1>0, <1>1, <2>1, <2>2 DEF Onward, Moved, Came, Went, Ended, WorkInv, Exchange
  <2>5. WorkInv' BY ONLY <1>0, <1>1, <2>1, <2>2 DEF WorkInv, Moved, Came, Went, Ended, NovaInv, Exchange, Idle, StepInv, RowInv, IntentInv, HostInv, Terminal, Failed, Done
  <2>6. AtStep' BY ONLY <1>0, <1>1, <2>1, <2>2, SMTT(20) DEF AtStep, RowInv, PhaseInv, Present, HostInv, IntentInv, LocalInv, ByOld, ByNew, ByRev, Free, Reserved, Attached, RollingBack, Used, Restored, Local, Absent, Ready, Owned, NovaInv, WorkInv, GenInv, StepInv, Typed, RollPcs, ForwardPcs, HostSteps, Exchange, Failed, Done, Terminal, Phases, Att, Journals, BdmRecord, CinderRecord, LocalRecord, Moved, Ended, Stored, Came, Went, Disconnecting
  <2>7. RotateInv' BY ONLY <1>0, <1>1, <2>1, <2>2, NoExchange DEF Moved, Ended, Came, Exchange
  <2>8. RowInv(x)' BY ONLY <1>0, <1>1, <2>1, <2>2, SMTT(20) DEF RowInv, PhaseInv, Present, HostInv, IntentInv, LocalInv, ByOld, ByNew, ByRev, Free, Reserved, Attached, RollingBack, Used, Restored, Local, Absent, Ready, Owned, NovaInv, WorkInv, GenInv, StepInv, Typed, RollPcs, ForwardPcs, HostSteps, Exchange, Failed, Done, Terminal, Phases, Att, Journals, BdmRecord, CinderRecord, LocalRecord, Moved, Ended, Stored, Came, Went
  <2>9. Marked /\ (gen' = "retired" => rotation'[x] = "none" /\ intent'[x] = "none")
    BY ONLY <1>0, <1>1, <2>1, <2>2 DEF Marked, GenInv, RollingBack, NovaInv, WorkInv, StepInv, RollPcs, Owned, Exchange, Failed, Done, Terminal, Moved, Ended, HostSteps
  <2> QED BY ONLY Concludes, TypeOK, StateInv, <1>0, <1>1, <2>1, <2>3, <2>4, <2>5, <2>6, <2>7, <2>8, <2>9 DEF records
<1>16. ASSUME ReplaceIntent PROVE StateInv'
  <2>1. /\ w.pc = "replace"
        /\ intent'[x] = bdm[x].att
        /\ \A v \in Volumes : v # x => intent'[v] = intent[v]
        /\ UNCHANGED <<root, nova, run, bdm, cinder, rotation, local, gen>>
    BY ONLY TypeOK, <1>0, <1>1, <1>16 DEF ReplaceIntent, Write, SetIntent, Owner, records, TypeOK, BdmRecord, LocalRecord
  <2>2. Moved("proof")
    BY ONLY TypeOK, <1>0, <1>1, <1>16, <1>2, Stores DEF ReplaceIntent, Write, SetIntent, Owner, records, TypeOK, BdmRecord, LocalRecord
  <2>3. \A v \in Volumes : v # x => Same(v) BY ONLY <1>0, <2>1, <2>2 DEF Same, Stored
  <2>4. Onward BY ONLY <1>0, <1>1, <2>1, <2>2 DEF Onward, Moved, Came, Went, Ended, WorkInv, Exchange
  <2>5. WorkInv' BY ONLY <1>0, <1>1, <2>1, <2>2 DEF WorkInv, Moved, Came, Went, Ended, NovaInv, Exchange, Idle, StepInv, RowInv, IntentInv, HostInv, Terminal, Failed, Done
  <2>6. AtStep' BY ONLY <1>0, <1>1, <2>1, <2>2, SMTT(20) DEF AtStep, RowInv, PhaseInv, Present, HostInv, IntentInv, LocalInv, ByOld, ByNew, ByRev, Free, Reserved, Attached, RollingBack, Used, Restored, Local, Absent, Ready, Owned, NovaInv, WorkInv, GenInv, StepInv, Typed, RollPcs, ForwardPcs, HostSteps, Exchange, Failed, Done, Terminal, Phases, Att, Journals, BdmRecord, CinderRecord, LocalRecord, Moved, Ended, Stored, Came, Went, Disconnecting
  <2>7. RotateInv' BY ONLY <1>0, <1>1, <2>1, <2>2, NoExchange DEF Moved, Ended, Came, Exchange
  <2>8. RowInv(x)' BY ONLY <1>0, <1>1, <2>1, <2>2, SMTT(20) DEF RowInv, PhaseInv, Present, HostInv, IntentInv, LocalInv, ByOld, ByNew, ByRev, Free, Reserved, Attached, RollingBack, Used, Restored, Local, Absent, Ready, Owned, NovaInv, WorkInv, GenInv, StepInv, Typed, RollPcs, ForwardPcs, HostSteps, Exchange, Failed, Done, Terminal, Phases, Att, Journals, BdmRecord, CinderRecord, LocalRecord, Moved, Ended, Stored, Came, Went
  <2>9. Marked /\ (gen' = "retired" => rotation'[x] = "none" /\ intent'[x] = "none")
    BY ONLY <1>0, <1>1, <2>1, <2>2 DEF Marked, GenInv, RollingBack, NovaInv, WorkInv, StepInv, RollPcs, Owned, Exchange, Failed, Done, Terminal, Moved, Ended, HostSteps
  <2> QED BY ONLY Concludes, TypeOK, StateInv, <1>0, <1>1, <2>1, <2>3, <2>4, <2>5, <2>6, <2>7, <2>8, <2>9 DEF records
<1>17. ASSUME ProveGuest PROVE StateInv'
  <2>1. /\ w.pc = "proof"
        /\ UNCHANGED <<root, nova, run, bdm, cinder, rotation, intent, local, gen>>
    BY ONLY TypeOK, <1>0, <1>1, <1>17 DEF ProveGuest, Read, Boot, Phase, records, TypeOK, BdmRecord, LocalRecord
  <2>2. \/ /\ x = root \/ local[x].guest
           /\ Moved(IF rotation[x] = "none" THEN "cancel" ELSE "terminal")
        \/ Ended("fail")
    BY ONLY TypeOK, <1>0, <1>1, <1>17, <1>2, Stores DEF ProveGuest, Read, Boot, Phase, records, TypeOK, BdmRecord, LocalRecord
  <2>3. \A v \in Volumes : v # x => Same(v) BY ONLY <1>0, <2>1, <2>2 DEF Same, Stored
  <2>4. Onward BY ONLY <1>0, <1>1, <2>1, <2>2 DEF Onward, Moved, Came, Went, Ended, WorkInv, Exchange
  <2>5. WorkInv' BY ONLY <1>0, <1>1, <2>1, <2>2 DEF WorkInv, Moved, Came, Went, Ended, NovaInv, Exchange, Idle, StepInv, RowInv, IntentInv, HostInv, Terminal, Failed, Done
  <2>6. AtStep' BY ONLY <1>0, <1>1, <2>1, <2>2, SMTT(20) DEF AtStep, RowInv, PhaseInv, Present, HostInv, IntentInv, LocalInv, ByOld, ByNew, ByRev, Free, Reserved, Attached, RollingBack, Used, Restored, Local, Absent, Ready, Owned, NovaInv, WorkInv, GenInv, StepInv, Typed, RollPcs, ForwardPcs, HostSteps, Exchange, Failed, Done, Terminal, Phases, Att, Journals, BdmRecord, CinderRecord, LocalRecord, Moved, Ended, Stored, Came, Went, Disconnecting
  <2>7. RotateInv' BY ONLY <1>0, <1>1, <2>1, <2>2, NoExchange DEF Moved, Ended, Came, Exchange
  <2>8. w.op = "rotate" /\ rpc' = "leave" => rotation[x] = "bdm-rotated" BY ONLY <1>0, <1>1, <2>1, <2>2 DEF Moved, Ended, Came, Went, WorkInv, Exchange
  <2> QED BY ONLY Decides, TypeOK, StateInv, <1>0, <1>1, <2>1, <2>4, <2>5, <2>6, <2>7, <2>8 DEF records
<1>18. ASSUME RolledBack PROVE StateInv'
  <2>1. /\ w.pc = "terminal"
        /\ rotation'[x] = "source-rollback-complete"
        /\ \A v \in Volumes : v # x => rotation'[v] = rotation[v]
        /\ UNCHANGED <<root, nova, run, bdm, cinder, intent, local, gen>>
    BY ONLY TypeOK, <1>0, <1>1, <1>18 DEF RolledBack, Write, Rotate, Boot, Owner, records, TypeOK, BdmRecord, LocalRecord
  <2>2. Moved(IF x = root /\ bdm[x].att = "old" THEN "retire" ELSE "cancel")
    BY ONLY TypeOK, <1>0, <1>1, <1>18, <1>2, Stores DEF RolledBack, Write, Rotate, Boot, Owner, records, TypeOK, BdmRecord, LocalRecord
  <2>3. \A v \in Volumes : v # x => Same(v) BY ONLY <1>0, <2>1, <2>2 DEF Same, Stored
  <2>4. Onward BY ONLY <1>0, <1>1, <2>1, <2>2 DEF Onward, Moved, Came, Went, Ended, WorkInv, Exchange
  <2>5. WorkInv' BY ONLY <1>0, <1>1, <2>1, <2>2 DEF WorkInv, Moved, Came, Went, Ended, NovaInv, Exchange, Idle, StepInv, RowInv, IntentInv, HostInv, Terminal, Failed, Done
  <2>6. AtStep' BY ONLY <1>0, <1>1, <2>1, <2>2, SMTT(20) DEF AtStep, RowInv, PhaseInv, Present, HostInv, IntentInv, LocalInv, ByOld, ByNew, ByRev, Free, Reserved, Attached, RollingBack, Used, Restored, Local, Absent, Ready, Owned, NovaInv, WorkInv, GenInv, StepInv, Typed, RollPcs, ForwardPcs, HostSteps, Exchange, Failed, Done, Terminal, Phases, Att, Journals, BdmRecord, CinderRecord, LocalRecord, Moved, Ended, Stored, Came, Went, Disconnecting
  <2>7. RotateInv' BY ONLY <1>0, <1>1, <2>1, <2>2, NoExchange DEF Moved, Ended, Came, Exchange
  <2>8. RowInv(x)' BY ONLY <1>0, <1>1, <2>1, <2>2, SMTT(20) DEF RowInv, PhaseInv, Present, HostInv, IntentInv, LocalInv, ByOld, ByNew, ByRev, Free, Reserved, Attached, RollingBack, Used, Restored, Local, Absent, Ready, Owned, NovaInv, WorkInv, GenInv, StepInv, Typed, RollPcs, ForwardPcs, HostSteps, Exchange, Failed, Done, Terminal, Phases, Att, Journals, BdmRecord, CinderRecord, LocalRecord, Moved, Ended, Stored, Came, Went
  <2>9. Marked /\ (gen' = "retired" => rotation'[x] = "none" /\ intent'[x] = "none")
    BY ONLY <1>0, <1>1, <2>1, <2>2 DEF Marked, GenInv, RollingBack, NovaInv, WorkInv, StepInv, RollPcs, Owned, Exchange, Failed, Done, Terminal, Moved, Ended, HostSteps
  <2> QED BY ONLY Concludes, TypeOK, StateInv, <1>0, <1>1, <2>1, <2>3, <2>4, <2>5, <2>6, <2>7, <2>8, <2>9 DEF records
<1>19. ASSUME CancelIntent PROVE StateInv'
  <2>1. /\ w.pc = "cancel"
        /\ intent'[x] = "none"
        /\ \A v \in Volumes : v # x => intent'[v] = intent[v]
        /\ UNCHANGED <<root, nova, run, bdm, cinder, rotation, local, gen>>
    BY ONLY TypeOK, <1>0, <1>1, <1>19 DEF CancelIntent, Write, SetIntent, Phase, records, TypeOK, BdmRecord, LocalRecord
  <2>2. Moved(IF rotation[x] = "none" THEN "finalize" ELSE "unlink")
    BY ONLY TypeOK, <1>0, <1>1, <1>19, <1>2, Stores DEF CancelIntent, Write, SetIntent, Phase, records, TypeOK, BdmRecord, LocalRecord
  <2>3. \A v \in Volumes : v # x => Same(v) BY ONLY <1>0, <2>1, <2>2 DEF Same, Stored
  <2>4. Onward BY ONLY <1>0, <1>1, <2>1, <2>2 DEF Onward, Moved, Came, Went, Ended, WorkInv, Exchange
  <2>5. WorkInv' BY ONLY <1>0, <1>1, <2>1, <2>2 DEF WorkInv, Moved, Came, Went, Ended, NovaInv, Exchange, Idle, StepInv, RowInv, IntentInv, HostInv, Terminal, Failed, Done
  <2>6. AtStep' BY ONLY <1>0, <1>1, <2>1, <2>2, SMTT(20) DEF AtStep, RowInv, PhaseInv, Present, HostInv, IntentInv, LocalInv, ByOld, ByNew, ByRev, Free, Reserved, Attached, RollingBack, Used, Restored, Local, Absent, Ready, Owned, NovaInv, WorkInv, GenInv, StepInv, Typed, RollPcs, ForwardPcs, HostSteps, Exchange, Failed, Done, Terminal, Phases, Att, Journals, BdmRecord, CinderRecord, LocalRecord, Moved, Ended, Stored, Came, Went, Disconnecting
  <2>7. RotateInv' BY ONLY <1>0, <1>1, <2>1, <2>2, NoExchange DEF Moved, Ended, Came, Exchange
  <2>8. RowInv(x)' BY ONLY <1>0, <1>1, <2>1, <2>2, SMTT(20) DEF RowInv, PhaseInv, Present, HostInv, IntentInv, LocalInv, ByOld, ByNew, ByRev, Free, Reserved, Attached, RollingBack, Used, Restored, Local, Absent, Ready, Owned, NovaInv, WorkInv, GenInv, StepInv, Typed, RollPcs, ForwardPcs, HostSteps, Exchange, Failed, Done, Terminal, Phases, Att, Journals, BdmRecord, CinderRecord, LocalRecord, Moved, Ended, Stored, Came, Went
  <2>9. Marked /\ (gen' = "retired" => rotation'[x] = "none" /\ intent'[x] = "none")
    BY ONLY <1>0, <1>1, <2>1, <2>2 DEF Marked, GenInv, RollingBack, NovaInv, WorkInv, StepInv, RollPcs, Owned, Exchange, Failed, Done, Terminal, Moved, Ended, HostSteps
  <2> QED BY ONLY Concludes, TypeOK, StateInv, <1>0, <1>1, <2>1, <2>3, <2>4, <2>5, <2>6, <2>7, <2>8, <2>9 DEF records
<1>20. ASSUME CancelRotation PROVE StateInv'
  <2>1. /\ w.pc = "unlink"
        /\ rotation'[x] = "none"
        /\ \A v \in Volumes : v # x => rotation'[v] = rotation[v]
        /\ UNCHANGED <<root, nova, run, bdm, cinder, intent, local, gen>>
    BY ONLY TypeOK, <1>0, <1>1, <1>20 DEF CancelRotation, Write, Rotate, Phase, records, TypeOK, BdmRecord, LocalRecord
  <2>2. (rotation[x] = "source-rollback-complete" /\ Moved("finalize")) \/ Ended("none")
    BY ONLY TypeOK, <1>0, <1>1, <1>20, <1>2, Stores DEF CancelRotation, Write, Rotate, Phase, records, TypeOK, BdmRecord, LocalRecord
  <2>3. \A v \in Volumes : v # x => Same(v) BY ONLY <1>0, <2>1, <2>2 DEF Same, Stored
  <2>4. Onward BY ONLY <1>0, <1>1, <2>1, <2>2 DEF Onward, Moved, Came, Went, Ended, WorkInv, Exchange
  <2>5. WorkInv' BY ONLY <1>0, <1>1, <2>1, <2>2 DEF WorkInv, Moved, Came, Went, Ended, NovaInv, Exchange, Idle, StepInv, RowInv, IntentInv, HostInv, Terminal, Failed, Done
  <2>6. AtStep' BY ONLY <1>0, <1>1, <2>1, <2>2, SMTT(20) DEF AtStep, RowInv, PhaseInv, Present, HostInv, IntentInv, LocalInv, ByOld, ByNew, ByRev, Free, Reserved, Attached, RollingBack, Used, Restored, Local, Absent, Ready, Owned, NovaInv, WorkInv, GenInv, StepInv, Typed, RollPcs, ForwardPcs, HostSteps, Exchange, Failed, Done, Terminal, Phases, Att, Journals, BdmRecord, CinderRecord, LocalRecord, Moved, Ended, Stored, Came, Went, Disconnecting
  <2>12. intent[x] = "none" /\ (rotation[x] = "source-rollback-complete" \/ (rotation[x] = "source-release-complete" /\ nova.host = "target"))
    BY ONLY <1>0, <1>1, <2>1, <2>2, TypeOK DEF StepInv, RowInv, PhaseInv, HostInv, Terminal, ByRev, Attached, TypeOK, NovaRecord
  <2>7. RotateInv' BY ONLY <1>0, <1>1, <2>1, <2>2, NoExchange DEF Moved, Ended, Came, Exchange
  <2>8. RowInv(x)'
    <4>1. PhaseInv(x)' BY ONLY <1>0, <1>1, <2>1, <2>2, <2>12, SMTT(20) DEF RowInv, PhaseInv, Present, HostInv, IntentInv, LocalInv, ByOld, ByNew, ByRev, Free, Reserved, Attached, RollingBack, Used, Restored, Local, Absent, Ready, Owned, NovaInv, WorkInv, GenInv, StepInv, Typed, RollPcs, ForwardPcs, HostSteps, Exchange, Failed, Done, Terminal, Phases, Att, Journals, BdmRecord, CinderRecord, LocalRecord, Moved, Ended, Stored, Came, Went
    <4>2. HostInv(x)' BY ONLY <1>0, <1>1, <2>1, <2>2, <2>12, SMTT(20) DEF RowInv, PhaseInv, Present, HostInv, IntentInv, LocalInv, ByOld, ByNew, ByRev, Free, Reserved, Attached, RollingBack, Used, Restored, Local, Absent, Ready, Owned, NovaInv, WorkInv, GenInv, StepInv, Typed, RollPcs, ForwardPcs, HostSteps, Exchange, Failed, Done, Terminal, Phases, Att, Journals, BdmRecord, CinderRecord, LocalRecord, Moved, Ended, Stored, Came, Went
    <4>3. IntentInv(x)' BY ONLY <1>0, <1>1, <2>1, <2>2, <2>12, SMTT(20) DEF RowInv, PhaseInv, Present, HostInv, IntentInv, LocalInv, ByOld, ByNew, ByRev, Free, Reserved, Attached, RollingBack, Used, Restored, Local, Absent, Ready, Owned, NovaInv, WorkInv, GenInv, StepInv, Typed, RollPcs, ForwardPcs, HostSteps, Exchange, Failed, Done, Terminal, Phases, Att, Journals, BdmRecord, CinderRecord, LocalRecord, Moved, Ended, Stored, Came, Went
    <4>4. LocalInv(x)' BY ONLY <1>0, <1>1, <2>1, <2>2, <2>12, SMTT(20) DEF RowInv, PhaseInv, Present, HostInv, IntentInv, LocalInv, ByOld, ByNew, ByRev, Free, Reserved, Attached, RollingBack, Used, Restored, Local, Absent, Ready, Owned, NovaInv, WorkInv, GenInv, StepInv, Typed, RollPcs, ForwardPcs, HostSteps, Exchange, Failed, Done, Terminal, Phases, Att, Journals, BdmRecord, CinderRecord, LocalRecord, Moved, Ended, Stored, Came, Went
    <4> QED BY ONLY <4>1, <4>2, <4>3, <4>4 DEF RowInv
  <2>9. Marked /\ (gen' = "retired" => rotation'[x] = "none" /\ intent'[x] = "none")
    BY ONLY <1>0, <1>1, <2>1, <2>2 DEF Marked, GenInv, RollingBack, NovaInv, WorkInv, StepInv, RollPcs, Owned, Exchange, Failed, Done, Terminal, Moved, Ended, HostSteps
  <2> QED BY ONLY Concludes, TypeOK, StateInv, <1>0, <1>1, <2>1, <2>3, <2>4, <2>5, <2>6, <2>7, <2>8, <2>9 DEF records
<1>21. ASSUME Finalize PROVE StateInv'
  <2>1. /\ w.pc = "finalize"
        /\ UNCHANGED <<root, nova, run, bdm, cinder, rotation, intent, local>>
    BY ONLY TypeOK, <1>0, <1>1, <1>21 DEF Finalize, Decide, Call, records, TypeOK, BdmRecord, LocalRecord
  <2>2. \/ gen' = gen /\ (Ended("none") \/ Ended("fail"))
        \/ /\ gen' = "retired" /\ (Ended("none") \/ Ended("fail"))
           /\ \A v \in Volumes : rotation[v] = "none" /\ intent[v] = "none"
    BY ONLY TypeOK, <1>0, <1>1, <1>21, <1>2, Stores DEF Finalize, Decide, Call, records, TypeOK, BdmRecord, LocalRecord
  <2>3. \A v \in Volumes : v # x => Same(v) BY ONLY <1>0, <2>1, <2>2 DEF Same, Stored
  <2>4. Onward BY ONLY <1>0, <1>1, <2>1, <2>2 DEF Onward, Moved, Came, Went, Ended, WorkInv, Exchange
  <2>5. WorkInv' BY ONLY <1>0, <1>1, <2>1, <2>2 DEF WorkInv, Moved, Came, Went, Ended, NovaInv, Exchange, Idle, StepInv, RowInv, IntentInv, HostInv, Terminal, Failed, Done
  <2>6. AtStep' BY ONLY <1>0, <1>1, <2>1, <2>2, SMTT(20) DEF AtStep, RowInv, PhaseInv, Present, HostInv, IntentInv, LocalInv, ByOld, ByNew, ByRev, Free, Reserved, Attached, RollingBack, Used, Restored, Local, Absent, Ready, Owned, NovaInv, WorkInv, GenInv, StepInv, Typed, RollPcs, ForwardPcs, HostSteps, Exchange, Failed, Done, Terminal, Phases, Att, Journals, BdmRecord, CinderRecord, LocalRecord, Moved, Ended, Stored, Came, Went, Disconnecting
  <2>7. RotateInv' BY ONLY <1>0, <1>1, <2>1, <2>2, NoExchange DEF Moved, Ended, Came, Exchange
  <2>8. RowInv(x)' BY ONLY <1>0, <1>1, <2>1, <2>2, SMTT(20) DEF RowInv, PhaseInv, Present, HostInv, IntentInv, LocalInv, ByOld, ByNew, ByRev, Free, Reserved, Attached, RollingBack, Used, Restored, Local, Absent, Ready, Owned, NovaInv, WorkInv, GenInv, StepInv, Typed, RollPcs, ForwardPcs, HostSteps, Exchange, Failed, Done, Terminal, Phases, Att, Journals, BdmRecord, CinderRecord, LocalRecord, Moved, Ended, Stored, Came, Went
  <2>9. Marked /\ (gen' = "retired" => rotation'[x] = "none" /\ intent'[x] = "none")
    BY ONLY <1>0, <1>1, <2>1, <2>2 DEF Marked, GenInv, RollingBack, NovaInv, WorkInv, StepInv, RollPcs, Owned, Exchange, Failed, Done, Terminal, Moved, Ended, HostSteps
  <2> QED BY ONLY Concludes, TypeOK, StateInv, <1>0, <1>1, <2>1, <2>3, <2>4, <2>5, <2>6, <2>7, <2>8, <2>9 DEF records
<1>22. ASSUME Retire PROVE StateInv'
  <2>1. /\ w.pc = "retire"
        /\ UNCHANGED <<root, nova, run, bdm, cinder, rotation, intent, local, gen>>
    BY ONLY TypeOK, <1>0, <1>1, <1>22 DEF Retire, Read, Journal, Phase, ReleaseProved, RollbackProved, Named, Here, Boot, records, TypeOK, BdmRecord, LocalRecord
  <2>2. \/ intent[x] = "none" /\ Moved("unlink")
        \/ intent[x] # "none" /\ Moved("cancel")
        \/ Ended("fail")
    BY ONLY TypeOK, <1>0, <1>1, <1>22, <1>2, Stores DEF Retire, Read, Journal, Phase, ReleaseProved, RollbackProved, Named, Here, Boot, records, TypeOK, BdmRecord, LocalRecord
  <2>3. \A v \in Volumes : v # x => Same(v) BY ONLY <1>0, <2>1, <2>2 DEF Same, Stored
  <2>4. Onward BY ONLY <1>0, <1>1, <2>1, <2>2 DEF Onward, Moved, Came, Went, Ended, WorkInv, Exchange
  <2>5. WorkInv' BY ONLY <1>0, <1>1, <2>1, <2>2 DEF WorkInv, Moved, Came, Went, Ended, NovaInv, Exchange, Idle, StepInv, RowInv, IntentInv, HostInv, Terminal, Failed, Done
  <2>6. AtStep' BY ONLY <1>0, <1>1, <2>1, <2>2, SMTT(20) DEF AtStep, RowInv, PhaseInv, Present, HostInv, IntentInv, LocalInv, ByOld, ByNew, ByRev, Free, Reserved, Attached, RollingBack, Used, Restored, Local, Absent, Ready, Owned, NovaInv, WorkInv, GenInv, StepInv, Typed, RollPcs, ForwardPcs, HostSteps, Exchange, Failed, Done, Terminal, Phases, Att, Journals, BdmRecord, CinderRecord, LocalRecord, Moved, Ended, Stored, Came, Went, Disconnecting
  <2>7. RotateInv' BY ONLY <1>0, <1>1, <2>1, <2>2, NoExchange DEF Moved, Ended, Came, Exchange
  <2>8. w.op = "rotate" /\ rpc' = "leave" => rotation[x] = "bdm-rotated" BY ONLY <1>0, <1>1, <2>1, <2>2 DEF Moved, Ended, Came, Went, WorkInv, Exchange
  <2> QED BY ONLY Decides, TypeOK, StateInv, <1>0, <1>1, <2>1, <2>4, <2>5, <2>6, <2>7, <2>8 DEF records
<1> QED BY ONLY RollbackStep, <1>3, <1>4, <1>5, <1>6, <1>7, <1>8, <1>9, <1>10, <1>11, <1>12, <1>13, <1>14, <1>15, <1>16, <1>17, <1>18, <1>19, <1>20, <1>21, <1>22 DEF RollbackStep

LEMMA HostKeeps ==
    ASSUME TypeOK, TypeOK', StateInv, w # Idle, NEW x, x = w.vol, HostStep
    PROVE  StateInv'
<1>0. /\ x = w.vol /\ x \in Volumes /\ w # Idle /\ w.op \in {"rotate", "recover", "handoff"} /\ x \notin w.left
      /\ w.left \subseteq Volumes /\ w \in Worker /\ None \notin Volumes
      /\ w.pc = "prepare" => w.op = "rotate"
      /\ w.pc \in {"validate", "handed"} => w.op = "handoff"
      /\ w.pc \notin Exchange \cup {"validate", "handed"} => w.op = "recover"
  BY AtVolume, VolumesAssumption
<1>1. Typed(x) /\ Typed(x)' /\ RowInv(x) /\ StepInv(x) /\ NovaInv /\ WorkInv /\ GenInv BY AtVolume
<1>2. /\ \A pc : Go(pc) => Moved(pc)
      /\ \A onward : End(onward) => Ended(onward)
      /\ Raise => Ended("fail")
      /\ \A pc : (\E v \in w.left : w' = [w EXCEPT !.pc = pc, !.vol = v, !.left = @ \ {v}, !.att = bdm[v].att])
                         /\ UNCHANGED rpc => Came(pc)
  BY ONLY <1>0, GoesOn, Zenon
<1>3. ASSUME Disconnect PROVE StateInv'
  <2>1. /\ w.pc = "disconnect"
        /\ \A v \in Volumes : v # x => local'[v] = local[v]
        /\ UNCHANGED <<root, nova, run, bdm, cinder, rotation, intent, gen>>
    BY ONLY TypeOK, <1>0, <1>1, <1>3 DEF Disconnect, HostCall, SetLocal, Journal, records, TypeOK, BdmRecord, LocalRecord
  <2>2. \/ local'[x] = Local("rolled-back", FALSE, FALSE) /\ Moved("forget")
        \/ (local' = local \/ local'[x] = Local(local[x].journal, FALSE, FALSE)) /\ Ended("fail")
    BY ONLY TypeOK, <1>0, <1>1, <1>3, <1>2, Stores DEF Disconnect, HostCall, SetLocal, Journal, records, TypeOK, BdmRecord, LocalRecord
  <2>3. \A v \in Volumes : v # x => Same(v) BY ONLY <1>0, <2>1, <2>2 DEF Same, Stored
  <2>4. Onward BY ONLY <1>0, <1>1, <2>1, <2>2 DEF Onward, Moved, Came, Went, Ended, WorkInv, Exchange
  <2>10. Moved("forget") \/ Ended("fail") BY ONLY <2>2
  <2>5. WorkInv' BY ONLY <1>0, <1>1, <2>1, <2>10 DEF WorkInv, Moved, Came, Went, Ended, NovaInv, Exchange, Idle, StepInv, RowInv, IntentInv, HostInv, Terminal, Failed, Done
  <2>6. AtStep' BY ONLY <1>0, <1>1, <2>1, <2>2, SMTT(20) DEF AtStep, RowInv, PhaseInv, Present, HostInv, IntentInv, LocalInv, ByOld, ByNew, ByRev, Free, Reserved, Attached, RollingBack, Used, Restored, Local, Absent, Ready, Owned, NovaInv, WorkInv, GenInv, StepInv, Typed, RollPcs, ForwardPcs, HostSteps, Exchange, Failed, Done, Terminal, Phases, Att, Journals, BdmRecord, CinderRecord, LocalRecord, Moved, Ended, Stored, Came, Went, Disconnecting
  <2>7. RotateInv' BY ONLY <1>0, <1>1, <2>1, <2>2, NoExchange DEF Moved, Ended, Came, Exchange
  <2>8. RowInv(x)' BY ONLY <1>0, <1>1, <2>1, <2>2, SMTT(20) DEF RowInv, PhaseInv, Present, HostInv, IntentInv, LocalInv, ByOld, ByNew, ByRev, Free, Reserved, Attached, RollingBack, Used, Restored, Local, Absent, Ready, Owned, NovaInv, WorkInv, GenInv, StepInv, Typed, RollPcs, ForwardPcs, HostSteps, Exchange, Failed, Done, Terminal, Phases, Att, Journals, BdmRecord, CinderRecord, LocalRecord, Moved, Ended, Stored, Came, Went
  <2>9. Marked /\ (gen' = "retired" => rotation'[x] = "none" /\ intent'[x] = "none")
    BY ONLY <1>0, <1>1, <2>1, <2>2 DEF Marked, GenInv, RollingBack, NovaInv, WorkInv, StepInv, RollPcs, Owned, Exchange, Failed, Done, Terminal, Moved, Ended, HostSteps
  <2> QED BY ONLY Concludes, TypeOK, StateInv, <1>0, <1>1, <2>1, <2>3, <2>4, <2>5, <2>6, <2>7, <2>8, <2>9 DEF records
<1>4. ASSUME Forget PROVE StateInv'
  <2>1. /\ w.pc = "forget"
        /\ local'[x].journal = "none"
        /\ local'[x].mapped = local[x].mapped
        /\ local'[x].guest = local[x].guest
        /\ \A v \in Volumes : v # x => local'[v] = local[v]
        /\ UNCHANGED <<root, nova, run, bdm, cinder, rotation, intent, gen>>
    BY ONLY TypeOK, <1>0, <1>1, <1>4 DEF Forget, HostWrite, Write, records, TypeOK, BdmRecord, LocalRecord
  <2>2. Moved("connect")
    BY ONLY TypeOK, <1>0, <1>1, <1>4, <1>2, Stores DEF Forget, HostWrite, Write, records, TypeOK, BdmRecord, LocalRecord
  <2>3. \A v \in Volumes : v # x => Same(v) BY ONLY <1>0, <2>1, <2>2 DEF Same, Stored
  <2>4. Onward BY ONLY <1>0, <1>1, <2>1, <2>2 DEF Onward, Moved, Came, Went, Ended, WorkInv, Exchange
  <2>10. Moved("connect") BY ONLY <2>2
  <2>5. WorkInv' BY ONLY <1>0, <1>1, <2>1, <2>10 DEF WorkInv, Moved, Came, Went, Ended, NovaInv, Exchange, Idle, StepInv, RowInv, IntentInv, HostInv, Terminal, Failed, Done
  <2>6. AtStep' BY ONLY <1>0, <1>1, <2>1, <2>2, SMTT(20) DEF AtStep, RowInv, PhaseInv, Present, HostInv, IntentInv, LocalInv, ByOld, ByNew, ByRev, Free, Reserved, Attached, RollingBack, Used, Restored, Local, Absent, Ready, Owned, NovaInv, WorkInv, GenInv, StepInv, Typed, RollPcs, ForwardPcs, HostSteps, Exchange, Failed, Done, Terminal, Phases, Att, Journals, BdmRecord, CinderRecord, LocalRecord, Moved, Ended, Stored, Came, Went, Disconnecting
  <2>7. RotateInv' BY ONLY <1>0, <1>1, <2>1, <2>2, NoExchange DEF Moved, Ended, Came, Exchange
  <2>8. RowInv(x)' BY ONLY <1>0, <1>1, <2>1, <2>2, SMTT(20) DEF RowInv, PhaseInv, Present, HostInv, IntentInv, LocalInv, ByOld, ByNew, ByRev, Free, Reserved, Attached, RollingBack, Used, Restored, Local, Absent, Ready, Owned, NovaInv, WorkInv, GenInv, StepInv, Typed, RollPcs, ForwardPcs, HostSteps, Exchange, Failed, Done, Terminal, Phases, Att, Journals, BdmRecord, CinderRecord, LocalRecord, Moved, Ended, Stored, Came, Went
  <2>9. Marked /\ (gen' = "retired" => rotation'[x] = "none" /\ intent'[x] = "none")
    BY ONLY <1>0, <1>1, <2>1, <2>2 DEF Marked, GenInv, RollingBack, NovaInv, WorkInv, StepInv, RollPcs, Owned, Exchange, Failed, Done, Terminal, Moved, Ended, HostSteps
  <2> QED BY ONLY Concludes, TypeOK, StateInv, <1>0, <1>1, <2>1, <2>3, <2>4, <2>5, <2>6, <2>7, <2>8, <2>9 DEF records
<1>5. ASSUME Announce PROVE StateInv'
  <2>1. /\ w.pc = "connect"
        /\ local'[x].journal = "connecting"
        /\ local'[x].mapped = local[x].mapped
        /\ local'[x].guest = local[x].guest
        /\ \A v \in Volumes : v # x => local'[v] = local[v]
        /\ UNCHANGED <<root, nova, run, bdm, cinder, rotation, intent, gen>>
    BY ONLY TypeOK, <1>0, <1>1, <1>5 DEF Announce, HostWrite, Write, records, TypeOK, BdmRecord, LocalRecord
  <2>2. Moved("map")
    BY ONLY TypeOK, <1>0, <1>1, <1>5, <1>2, Stores DEF Announce, HostWrite, Write, records, TypeOK, BdmRecord, LocalRecord
  <2>3. \A v \in Volumes : v # x => Same(v) BY ONLY <1>0, <2>1, <2>2 DEF Same, Stored
  <2>4. Onward BY ONLY <1>0, <1>1, <2>1, <2>2 DEF Onward, Moved, Came, Went, Ended, WorkInv, Exchange
  <2>10. Moved("map") BY ONLY <2>2
  <2>5. WorkInv' BY ONLY <1>0, <1>1, <2>1, <2>10 DEF WorkInv, Moved, Came, Went, Ended, NovaInv, Exchange, Idle, StepInv, RowInv, IntentInv, HostInv, Terminal, Failed, Done
  <2>6. AtStep' BY ONLY <1>0, <1>1, <2>1, <2>2, SMTT(20) DEF AtStep, RowInv, PhaseInv, Present, HostInv, IntentInv, LocalInv, ByOld, ByNew, ByRev, Free, Reserved, Attached, RollingBack, Used, Restored, Local, Absent, Ready, Owned, NovaInv, WorkInv, GenInv, StepInv, Typed, RollPcs, ForwardPcs, HostSteps, Exchange, Failed, Done, Terminal, Phases, Att, Journals, BdmRecord, CinderRecord, LocalRecord, Moved, Ended, Stored, Came, Went, Disconnecting
  <2>7. RotateInv' BY ONLY <1>0, <1>1, <2>1, <2>2, NoExchange DEF Moved, Ended, Came, Exchange
  <2>8. RowInv(x)' BY ONLY <1>0, <1>1, <2>1, <2>2, SMTT(20) DEF RowInv, PhaseInv, Present, HostInv, IntentInv, LocalInv, ByOld, ByNew, ByRev, Free, Reserved, Attached, RollingBack, Used, Restored, Local, Absent, Ready, Owned, NovaInv, WorkInv, GenInv, StepInv, Typed, RollPcs, ForwardPcs, HostSteps, Exchange, Failed, Done, Terminal, Phases, Att, Journals, BdmRecord, CinderRecord, LocalRecord, Moved, Ended, Stored, Came, Went
  <2>9. Marked /\ (gen' = "retired" => rotation'[x] = "none" /\ intent'[x] = "none")
    BY ONLY <1>0, <1>1, <2>1, <2>2 DEF Marked, GenInv, RollingBack, NovaInv, WorkInv, StepInv, RollPcs, Owned, Exchange, Failed, Done, Terminal, Moved, Ended, HostSteps
  <2> QED BY ONLY Concludes, TypeOK, StateInv, <1>0, <1>1, <2>1, <2>3, <2>4, <2>5, <2>6, <2>7, <2>8, <2>9 DEF records
<1>6. ASSUME Map PROVE StateInv'
  <2>1. /\ w.pc = "map"
        /\ local'[x].journal = local[x].journal
        /\ local'[x].guest = local[x].guest
        /\ \A v \in Volumes : v # x => local'[v] = local[v]
        /\ UNCHANGED <<root, nova, run, bdm, cinder, rotation, intent, gen>>
    BY ONLY TypeOK, <1>0, <1>1, <1>6 DEF Map, HostCall, SetLocal, Journal, records, TypeOK, BdmRecord, LocalRecord
  <2>11. (local' = [local EXCEPT ![w.vol].mapped = TRUE]) => local'[x].mapped BY ONLY <1>0, TypeOK DEF TypeOK, BdmRecord, LocalRecord, Here
  <2>2. \/ local'[x].mapped /\ Moved("connected")
        \/ (local' = local \/ local'[x].mapped) /\ Moved("undo")
    BY ONLY <2>11, <1>0, <1>6, <1>2, Zenon DEF Map, HostCall, SetLocal, Journal
  <2>3. \A v \in Volumes : v # x => Same(v) BY ONLY <1>0, <2>1, <2>2 DEF Same, Stored
  <2>4. Onward BY ONLY <1>0, <1>1, <2>1, <2>2 DEF Onward, Moved, Came, Went, Ended, WorkInv, Exchange
  <2>10. Moved("connected") \/ Moved("undo") BY ONLY <2>2
  <2>5. WorkInv' BY ONLY <1>0, <1>1, <2>1, <2>10 DEF WorkInv, Moved, Came, Went, Ended, NovaInv, Exchange, Idle, StepInv, RowInv, IntentInv, HostInv, Terminal, Failed, Done
  <2>6. AtStep' BY ONLY <1>0, <1>1, <2>1, <2>2, SMTT(20) DEF AtStep, RowInv, PhaseInv, Present, HostInv, IntentInv, LocalInv, ByOld, ByNew, ByRev, Free, Reserved, Attached, RollingBack, Used, Restored, Local, Absent, Ready, Owned, NovaInv, WorkInv, GenInv, StepInv, Typed, RollPcs, ForwardPcs, HostSteps, Exchange, Failed, Done, Terminal, Phases, Att, Journals, BdmRecord, CinderRecord, LocalRecord, Moved, Ended, Stored, Came, Went, Disconnecting
  <2>7. RotateInv' BY ONLY <1>0, <1>1, <2>1, <2>2, NoExchange DEF Moved, Ended, Came, Exchange
  <2>8. RowInv(x)' BY ONLY <1>0, <1>1, <2>1, <2>2, SMTT(20) DEF RowInv, PhaseInv, Present, HostInv, IntentInv, LocalInv, ByOld, ByNew, ByRev, Free, Reserved, Attached, RollingBack, Used, Restored, Local, Absent, Ready, Owned, NovaInv, WorkInv, GenInv, StepInv, Typed, RollPcs, ForwardPcs, HostSteps, Exchange, Failed, Done, Terminal, Phases, Att, Journals, BdmRecord, CinderRecord, LocalRecord, Moved, Ended, Stored, Came, Went
  <2>9. Marked /\ (gen' = "retired" => rotation'[x] = "none" /\ intent'[x] = "none")
    BY ONLY <1>0, <1>1, <2>1, <2>2 DEF Marked, GenInv, RollingBack, NovaInv, WorkInv, StepInv, RollPcs, Owned, Exchange, Failed, Done, Terminal, Moved, Ended, HostSteps
  <2> QED BY ONLY Concludes, TypeOK, StateInv, <1>0, <1>1, <2>1, <2>3, <2>4, <2>5, <2>6, <2>7, <2>8, <2>9 DEF records
<1>7. ASSUME Connected PROVE StateInv'
  <2>1. /\ w.pc = "connected"
        /\ local'[x].journal = "connected"
        /\ local'[x].mapped = local[x].mapped
        /\ local'[x].guest = local[x].guest
        /\ \A v \in Volumes : v # x => local'[v] = local[v]
        /\ UNCHANGED <<root, nova, run, bdm, cinder, rotation, intent, gen>>
    BY ONLY TypeOK, <1>0, <1>1, <1>7 DEF Connected, HostWrite, Write, records, TypeOK, BdmRecord, LocalRecord
  <2>2. Moved("expose")
    BY ONLY TypeOK, <1>0, <1>1, <1>7, <1>2, Stores DEF Connected, HostWrite, Write, records, TypeOK, BdmRecord, LocalRecord
  <2>3. \A v \in Volumes : v # x => Same(v) BY ONLY <1>0, <2>1, <2>2 DEF Same, Stored
  <2>4. Onward BY ONLY <1>0, <1>1, <2>1, <2>2 DEF Onward, Moved, Came, Went, Ended, WorkInv, Exchange
  <2>10. Moved("expose") BY ONLY <2>2
  <2>5. WorkInv' BY ONLY <1>0, <1>1, <2>1, <2>10 DEF WorkInv, Moved, Came, Went, Ended, NovaInv, Exchange, Idle, StepInv, RowInv, IntentInv, HostInv, Terminal, Failed, Done
  <2>6. AtStep' BY ONLY <1>0, <1>1, <2>1, <2>2, SMTT(20) DEF AtStep, RowInv, PhaseInv, Present, HostInv, IntentInv, LocalInv, ByOld, ByNew, ByRev, Free, Reserved, Attached, RollingBack, Used, Restored, Local, Absent, Ready, Owned, NovaInv, WorkInv, GenInv, StepInv, Typed, RollPcs, ForwardPcs, HostSteps, Exchange, Failed, Done, Terminal, Phases, Att, Journals, BdmRecord, CinderRecord, LocalRecord, Moved, Ended, Stored, Came, Went, Disconnecting
  <2>7. RotateInv' BY ONLY <1>0, <1>1, <2>1, <2>2, NoExchange DEF Moved, Ended, Came, Exchange
  <2>8. RowInv(x)' BY ONLY <1>0, <1>1, <2>1, <2>2, SMTT(20) DEF RowInv, PhaseInv, Present, HostInv, IntentInv, LocalInv, ByOld, ByNew, ByRev, Free, Reserved, Attached, RollingBack, Used, Restored, Local, Absent, Ready, Owned, NovaInv, WorkInv, GenInv, StepInv, Typed, RollPcs, ForwardPcs, HostSteps, Exchange, Failed, Done, Terminal, Phases, Att, Journals, BdmRecord, CinderRecord, LocalRecord, Moved, Ended, Stored, Came, Went
  <2>9. Marked /\ (gen' = "retired" => rotation'[x] = "none" /\ intent'[x] = "none")
    BY ONLY <1>0, <1>1, <2>1, <2>2 DEF Marked, GenInv, RollingBack, NovaInv, WorkInv, StepInv, RollPcs, Owned, Exchange, Failed, Done, Terminal, Moved, Ended, HostSteps
  <2> QED BY ONLY Concludes, TypeOK, StateInv, <1>0, <1>1, <2>1, <2>3, <2>4, <2>5, <2>6, <2>7, <2>8, <2>9 DEF records
<1>8. ASSUME Expose PROVE StateInv'
  <2>1. /\ w.pc = "expose"
        /\ local'[x].journal = local[x].journal
        /\ local'[x].mapped = local[x].mapped
        /\ \A v \in Volumes : v # x => local'[v] = local[v]
        /\ UNCHANGED <<root, nova, run, bdm, cinder, rotation, intent, gen>>
    BY ONLY TypeOK, <1>0, <1>1, <1>8 DEF Expose, HostCall, SetLocal, Journal, records, TypeOK, BdmRecord, LocalRecord
  <2>11. (local' = [local EXCEPT ![w.vol].guest = TRUE]) => local'[x].guest BY ONLY <1>0, TypeOK DEF TypeOK, BdmRecord, LocalRecord, Here
  <2>2. \/ local'[x].guest /\ Moved("confirm")
        \/ (local' = local \/ local'[x].guest) /\ Moved("undo")
    BY ONLY <2>11, <1>0, <1>8, <1>2, Zenon DEF Expose, HostCall, SetLocal, Journal
  <2>3. \A v \in Volumes : v # x => Same(v) BY ONLY <1>0, <2>1, <2>2 DEF Same, Stored
  <2>4. Onward BY ONLY <1>0, <1>1, <2>1, <2>2 DEF Onward, Moved, Came, Went, Ended, WorkInv, Exchange
  <2>10. Moved("confirm") \/ Moved("undo") BY ONLY <2>2
  <2>5. WorkInv' BY ONLY <1>0, <1>1, <2>1, <2>10 DEF WorkInv, Moved, Came, Went, Ended, NovaInv, Exchange, Idle, StepInv, RowInv, IntentInv, HostInv, Terminal, Failed, Done
  <2>6. AtStep' BY ONLY <1>0, <1>1, <2>1, <2>2, SMTT(20) DEF AtStep, RowInv, PhaseInv, Present, HostInv, IntentInv, LocalInv, ByOld, ByNew, ByRev, Free, Reserved, Attached, RollingBack, Used, Restored, Local, Absent, Ready, Owned, NovaInv, WorkInv, GenInv, StepInv, Typed, RollPcs, ForwardPcs, HostSteps, Exchange, Failed, Done, Terminal, Phases, Att, Journals, BdmRecord, CinderRecord, LocalRecord, Moved, Ended, Stored, Came, Went, Disconnecting
  <2>7. RotateInv' BY ONLY <1>0, <1>1, <2>1, <2>2, NoExchange DEF Moved, Ended, Came, Exchange
  <2>8. RowInv(x)' BY ONLY <1>0, <1>1, <2>1, <2>2, SMTT(20) DEF RowInv, PhaseInv, Present, HostInv, IntentInv, LocalInv, ByOld, ByNew, ByRev, Free, Reserved, Attached, RollingBack, Used, Restored, Local, Absent, Ready, Owned, NovaInv, WorkInv, GenInv, StepInv, Typed, RollPcs, ForwardPcs, HostSteps, Exchange, Failed, Done, Terminal, Phases, Att, Journals, BdmRecord, CinderRecord, LocalRecord, Moved, Ended, Stored, Came, Went
  <2>9. Marked /\ (gen' = "retired" => rotation'[x] = "none" /\ intent'[x] = "none")
    BY ONLY <1>0, <1>1, <2>1, <2>2 DEF Marked, GenInv, RollingBack, NovaInv, WorkInv, StepInv, RollPcs, Owned, Exchange, Failed, Done, Terminal, Moved, Ended, HostSteps
  <2> QED BY ONLY Concludes, TypeOK, StateInv, <1>0, <1>1, <2>1, <2>3, <2>4, <2>5, <2>6, <2>7, <2>8, <2>9 DEF records
<1>9. ASSUME Undo PROVE StateInv'
  <2>1. /\ w.pc = "undo"
        /\ \A v \in Volumes : v # x => local'[v] = local[v]
        /\ UNCHANGED <<root, nova, run, bdm, cinder, rotation, intent, gen>>
    BY ONLY TypeOK, <1>0, <1>1, <1>9 DEF Undo, HostCall, SetLocal, Journal, records, TypeOK, BdmRecord, LocalRecord
  <2>2. \/ local'[x] = Local("disconnecting", local[x].mapped, FALSE) /\ Moved("undone")
        \/ (local' = local \/ local'[x] = Local("disconnecting", local[x].mapped, FALSE)) /\ Ended("fail")
    BY ONLY TypeOK, <1>0, <1>1, <1>9, <1>2, Stores DEF Undo, HostCall, SetLocal, Journal, records, TypeOK, BdmRecord, LocalRecord
  <2>3. \A v \in Volumes : v # x => Same(v) BY ONLY <1>0, <2>1, <2>2 DEF Same, Stored
  <2>4. Onward BY ONLY <1>0, <1>1, <2>1, <2>2 DEF Onward, Moved, Came, Went, Ended, WorkInv, Exchange
  <2>10. Moved("undone") \/ Ended("fail") BY ONLY <2>2
  <2>5. WorkInv' BY ONLY <1>0, <1>1, <2>1, <2>10 DEF WorkInv, Moved, Came, Went, Ended, NovaInv, Exchange, Idle, StepInv, RowInv, IntentInv, HostInv, Terminal, Failed, Done
  <2>6. AtStep' BY ONLY <1>0, <1>1, <2>1, <2>2, SMTT(20) DEF AtStep, RowInv, PhaseInv, Present, HostInv, IntentInv, LocalInv, ByOld, ByNew, ByRev, Free, Reserved, Attached, RollingBack, Used, Restored, Local, Absent, Ready, Owned, NovaInv, WorkInv, GenInv, StepInv, Typed, RollPcs, ForwardPcs, HostSteps, Exchange, Failed, Done, Terminal, Phases, Att, Journals, BdmRecord, CinderRecord, LocalRecord, Moved, Ended, Stored, Came, Went, Disconnecting
  <2>7. RotateInv' BY ONLY <1>0, <1>1, <2>1, <2>2, NoExchange DEF Moved, Ended, Came, Exchange
  <2>8. RowInv(x)' BY ONLY <1>0, <1>1, <2>1, <2>2, SMTT(20) DEF RowInv, PhaseInv, Present, HostInv, IntentInv, LocalInv, ByOld, ByNew, ByRev, Free, Reserved, Attached, RollingBack, Used, Restored, Local, Absent, Ready, Owned, NovaInv, WorkInv, GenInv, StepInv, Typed, RollPcs, ForwardPcs, HostSteps, Exchange, Failed, Done, Terminal, Phases, Att, Journals, BdmRecord, CinderRecord, LocalRecord, Moved, Ended, Stored, Came, Went
  <2>9. Marked /\ (gen' = "retired" => rotation'[x] = "none" /\ intent'[x] = "none")
    BY ONLY <1>0, <1>1, <2>1, <2>2 DEF Marked, GenInv, RollingBack, NovaInv, WorkInv, StepInv, RollPcs, Owned, Exchange, Failed, Done, Terminal, Moved, Ended, HostSteps
  <2> QED BY ONLY Concludes, TypeOK, StateInv, <1>0, <1>1, <2>1, <2>3, <2>4, <2>5, <2>6, <2>7, <2>8, <2>9 DEF records
<1>10. ASSUME Undone PROVE StateInv'
  <2>1. /\ w.pc = "undone"
        /\ \A v \in Volumes : v # x => local'[v] = local[v]
        /\ UNCHANGED <<root, nova, run, bdm, cinder, rotation, intent, gen>>
    BY ONLY TypeOK, <1>0, <1>1, <1>10 DEF Undone, HostCall, SetLocal, Journal, records, TypeOK, BdmRecord, LocalRecord
  <2>2. /\ local' = local \/ local'[x] = Local("none", FALSE, FALSE)
             \/ local'[x] = Local("disconnecting", FALSE, FALSE)
        /\ Ended("fail")
    BY ONLY TypeOK, <1>0, <1>1, <1>10, <1>2, Stores DEF Undone, HostCall, SetLocal, Journal, records, TypeOK, BdmRecord, LocalRecord
  <2>3. \A v \in Volumes : v # x => Same(v) BY ONLY <1>0, <2>1, <2>2 DEF Same, Stored
  <2>4. Onward BY ONLY <1>0, <1>1, <2>1, <2>2 DEF Onward, Moved, Came, Went, Ended, WorkInv, Exchange
  <2>10. Ended("fail") BY ONLY <2>2
  <2>5. WorkInv' BY ONLY <1>0, <1>1, <2>1, <2>10 DEF WorkInv, Moved, Came, Went, Ended, NovaInv, Exchange, Idle, StepInv, RowInv, IntentInv, HostInv, Terminal, Failed, Done
  <2>6. AtStep' BY ONLY <1>0, <1>1, <2>1, <2>2, SMTT(20) DEF AtStep, RowInv, PhaseInv, Present, HostInv, IntentInv, LocalInv, ByOld, ByNew, ByRev, Free, Reserved, Attached, RollingBack, Used, Restored, Local, Absent, Ready, Owned, NovaInv, WorkInv, GenInv, StepInv, Typed, RollPcs, ForwardPcs, HostSteps, Exchange, Failed, Done, Terminal, Phases, Att, Journals, BdmRecord, CinderRecord, LocalRecord, Moved, Ended, Stored, Came, Went, Disconnecting
  <2>7. RotateInv' BY ONLY <1>0, <1>1, <2>1, <2>2, NoExchange DEF Moved, Ended, Came, Exchange
  <2>8. RowInv(x)' BY ONLY <1>0, <1>1, <2>1, <2>2, SMTT(20) DEF RowInv, PhaseInv, Present, HostInv, IntentInv, LocalInv, ByOld, ByNew, ByRev, Free, Reserved, Attached, RollingBack, Used, Restored, Local, Absent, Ready, Owned, NovaInv, WorkInv, GenInv, StepInv, Typed, RollPcs, ForwardPcs, HostSteps, Exchange, Failed, Done, Terminal, Phases, Att, Journals, BdmRecord, CinderRecord, LocalRecord, Moved, Ended, Stored, Came, Went
  <2>9. Marked /\ (gen' = "retired" => rotation'[x] = "none" /\ intent'[x] = "none")
    BY ONLY <1>0, <1>1, <2>1, <2>2 DEF Marked, GenInv, RollingBack, NovaInv, WorkInv, StepInv, RollPcs, Owned, Exchange, Failed, Done, Terminal, Moved, Ended, HostSteps
  <2> QED BY ONLY Concludes, TypeOK, StateInv, <1>0, <1>1, <2>1, <2>3, <2>4, <2>5, <2>6, <2>7, <2>8, <2>9 DEF records
<1>11. ASSUME Confirm PROVE StateInv'
  <2>1. /\ w.pc = "confirm"
        /\ \A v \in Volumes : v # x => local'[v] = local[v]
        /\ UNCHANGED <<root, nova, run, bdm, cinder, rotation, intent, gen>>
    BY ONLY TypeOK, <1>0, <1>1, <1>11 DEF Confirm, HostCall, SetLocal, Journal, records, TypeOK, BdmRecord, LocalRecord
  <2>2. \/ local'[x] = Local("none", TRUE, TRUE) /\ Moved("complete")
        \/ (local' = local \/ local'[x] = Local("none", TRUE, TRUE)) /\ Ended("fail")
    BY ONLY TypeOK, <1>0, <1>1, <1>11, <1>2, Stores DEF Confirm, HostCall, SetLocal, Journal, records, TypeOK, BdmRecord, LocalRecord
  <2>3. \A v \in Volumes : v # x => Same(v) BY ONLY <1>0, <2>1, <2>2 DEF Same, Stored
  <2>4. Onward BY ONLY <1>0, <1>1, <2>1, <2>2 DEF Onward, Moved, Came, Went, Ended, WorkInv, Exchange
  <2>10. Moved("complete") \/ Ended("fail") BY ONLY <2>2
  <2>5. WorkInv' BY ONLY <1>0, <1>1, <2>1, <2>10 DEF WorkInv, Moved, Came, Went, Ended, NovaInv, Exchange, Idle, StepInv, RowInv, IntentInv, HostInv, Terminal, Failed, Done
  <2>6. AtStep' BY ONLY <1>0, <1>1, <2>1, <2>2, SMTT(20) DEF AtStep, RowInv, PhaseInv, Present, HostInv, IntentInv, LocalInv, ByOld, ByNew, ByRev, Free, Reserved, Attached, RollingBack, Used, Restored, Local, Absent, Ready, Owned, NovaInv, WorkInv, GenInv, StepInv, Typed, RollPcs, ForwardPcs, HostSteps, Exchange, Failed, Done, Terminal, Phases, Att, Journals, BdmRecord, CinderRecord, LocalRecord, Moved, Ended, Stored, Came, Went, Disconnecting
  <2>7. RotateInv' BY ONLY <1>0, <1>1, <2>1, <2>2, NoExchange DEF Moved, Ended, Came, Exchange
  <2>8. RowInv(x)' BY ONLY <1>0, <1>1, <2>1, <2>2, SMTT(20) DEF RowInv, PhaseInv, Present, HostInv, IntentInv, LocalInv, ByOld, ByNew, ByRev, Free, Reserved, Attached, RollingBack, Used, Restored, Local, Absent, Ready, Owned, NovaInv, WorkInv, GenInv, StepInv, Typed, RollPcs, ForwardPcs, HostSteps, Exchange, Failed, Done, Terminal, Phases, Att, Journals, BdmRecord, CinderRecord, LocalRecord, Moved, Ended, Stored, Came, Went
  <2>9. Marked /\ (gen' = "retired" => rotation'[x] = "none" /\ intent'[x] = "none")
    BY ONLY <1>0, <1>1, <2>1, <2>2 DEF Marked, GenInv, RollingBack, NovaInv, WorkInv, StepInv, RollPcs, Owned, Exchange, Failed, Done, Terminal, Moved, Ended, HostSteps
  <2> QED BY ONLY Concludes, TypeOK, StateInv, <1>0, <1>1, <2>1, <2>3, <2>4, <2>5, <2>6, <2>7, <2>8, <2>9 DEF records
<1> QED BY ONLY HostStep, <1>3, <1>4, <1>5, <1>6, <1>7, <1>8, <1>9, <1>10, <1>11 DEF HostStep

LEMMA FinishKeeps ==
    ASSUME TypeOK, TypeOK', StateInv, w # Idle, NEW x, x = w.vol, FinishStep
    PROVE  StateInv'
<1>0. /\ x = w.vol /\ x \in Volumes /\ w # Idle /\ w.op \in {"rotate", "recover", "handoff"} /\ x \notin w.left
      /\ w.left \subseteq Volumes /\ w \in Worker /\ None \notin Volumes
      /\ w.pc = "prepare" => w.op = "rotate"
      /\ w.pc \in {"validate", "handed"} => w.op = "handoff"
      /\ w.pc \notin Exchange \cup {"validate", "handed"} => w.op = "recover"
  BY AtVolume, VolumesAssumption
<1>1. Typed(x) /\ Typed(x)' /\ RowInv(x) /\ StepInv(x) /\ NovaInv /\ WorkInv /\ GenInv BY AtVolume
<1>2. /\ \A pc : Go(pc) => Moved(pc)
      /\ \A onward : End(onward) => Ended(onward)
      /\ Raise => Ended("fail")
      /\ \A pc : (\E v \in w.left : w' = [w EXCEPT !.pc = pc, !.vol = v, !.left = @ \ {v}, !.att = bdm[v].att])
                         /\ UNCHANGED rpc => Came(pc)
  BY ONLY <1>0, GoesOn, Zenon
<1>3. ASSUME Release PROVE StateInv'
  <2>1. /\ w.pc = "release"
        /\ local'[x].mapped = local[x].mapped
        /\ local'[x].guest = local[x].guest
        /\ \A v \in Volumes : v # x => local'[v] = local[v]
        /\ UNCHANGED <<root, nova, run, bdm, cinder, rotation, intent, gen>>
    BY ONLY TypeOK, <1>0, <1>1, <1>3 DEF Release, Call, Decide, Named, Here, Boot, records, TypeOK, BdmRecord, LocalRecord
  <2>11. (local' = [local EXCEPT ![w.vol].journal = "none"]) => local'[x].journal = "none" BY ONLY <1>0, TypeOK DEF TypeOK, BdmRecord, LocalRecord, Here
  <2>2. \/ local' = local /\ Ended("fail")
        \/ /\ intent[x] = "old" /\ cinder[x]["new"].status = "attached" /\ w.host = "target"
           /\ local'[x].journal = "none" /\ (Moved("released") \/ Ended("fail"))
    BY ONLY <2>11, <1>0, <1>3, <1>2, Zenon DEF Release, Call, Decide, Named, Here, Boot
  <2>3. \A v \in Volumes : v # x => Same(v) BY ONLY <1>0, <2>1, <2>2 DEF Same, Stored
  <2>4. Onward BY ONLY <1>0, <1>1, <2>1, <2>2 DEF Onward, Moved, Came, Went, Ended, WorkInv, Exchange
  <2>10. Ended("fail") \/ Moved("released") BY ONLY <2>2
  <2>5. WorkInv' BY ONLY <1>0, <1>1, <2>1, <2>10 DEF WorkInv, Moved, Came, Went, Ended, NovaInv, Exchange, Idle, StepInv, RowInv, IntentInv, HostInv, Terminal, Failed, Done
  <2>6. AtStep' BY ONLY <1>0, <1>1, <2>1, <2>2, SMTT(20) DEF AtStep, RowInv, PhaseInv, Present, HostInv, IntentInv, LocalInv, ByOld, ByNew, ByRev, Free, Reserved, Attached, RollingBack, Used, Restored, Local, Absent, Ready, Owned, NovaInv, WorkInv, GenInv, StepInv, Typed, RollPcs, ForwardPcs, HostSteps, Exchange, Failed, Done, Terminal, Phases, Att, Journals, BdmRecord, CinderRecord, LocalRecord, Moved, Ended, Stored, Came, Went, Disconnecting
  <2>12. rotation[x] = "bdm-rotated" /\ (local'[x] # local[x] => nova.host = "target" /\ intent[x] = "old" /\ local'[x].journal = "none")
    BY ONLY <1>0, <1>1, <2>1, <2>2, TypeOK DEF StepInv, WorkInv, NovaInv, Exchange, TypeOK, NovaRecord
  <2>7. RotateInv' BY ONLY <1>0, <1>1, <2>1, <2>2, NoExchange DEF Moved, Ended, Came, Exchange
  <2>8. RowInv(x)'
    <4>1. PhaseInv(x)' BY ONLY <1>0, <1>1, <2>1, <2>2, <2>12, SMTT(20) DEF RowInv, PhaseInv, Present, HostInv, IntentInv, LocalInv, ByOld, ByNew, ByRev, Free, Reserved, Attached, RollingBack, Used, Restored, Local, Absent, Ready, Owned, NovaInv, WorkInv, GenInv, StepInv, Typed, RollPcs, ForwardPcs, HostSteps, Exchange, Failed, Done, Terminal, Phases, Att, Journals, BdmRecord, CinderRecord, LocalRecord, Moved, Ended, Stored, Came, Went
    <4>2. HostInv(x)' BY ONLY <1>0, <1>1, <2>1, <2>2, <2>12, SMTT(20) DEF RowInv, PhaseInv, Present, HostInv, IntentInv, LocalInv, ByOld, ByNew, ByRev, Free, Reserved, Attached, RollingBack, Used, Restored, Local, Absent, Ready, Owned, NovaInv, WorkInv, GenInv, StepInv, Typed, RollPcs, ForwardPcs, HostSteps, Exchange, Failed, Done, Terminal, Phases, Att, Journals, BdmRecord, CinderRecord, LocalRecord, Moved, Ended, Stored, Came, Went
    <4>3. IntentInv(x)' BY ONLY <1>0, <1>1, <2>1, <2>2, <2>12, SMTT(20) DEF RowInv, PhaseInv, Present, HostInv, IntentInv, LocalInv, ByOld, ByNew, ByRev, Free, Reserved, Attached, RollingBack, Used, Restored, Local, Absent, Ready, Owned, NovaInv, WorkInv, GenInv, StepInv, Typed, RollPcs, ForwardPcs, HostSteps, Exchange, Failed, Done, Terminal, Phases, Att, Journals, BdmRecord, CinderRecord, LocalRecord, Moved, Ended, Stored, Came, Went
    <4>4. LocalInv(x)'
      <5>1. CASE local'[x] = local[x] BY ONLY <1>0, <1>1, <2>1, <2>2, <5>1, SMTT(20) DEF RowInv, PhaseInv, Present, HostInv, IntentInv, LocalInv, ByOld, ByNew, ByRev, Free, Reserved, Attached, RollingBack, Used, Restored, Local, Absent, Ready, Owned, NovaInv, WorkInv, GenInv, StepInv, Typed, RollPcs, ForwardPcs, HostSteps, Exchange, Failed, Done, Terminal, Phases, Att, Journals, BdmRecord, CinderRecord, LocalRecord, Moved, Ended, Stored
      <5>2. CASE local'[x] # local[x]
        <6>1. ~RollingBack BY ONLY <2>12, <5>2 DEF RollingBack
        <6>2. local[x] \in {Local("disconnected", FALSE, FALSE), Local("none", FALSE, FALSE)}
          BY ONLY <1>1, <6>1 DEF RowInv, LocalInv
        <6>3. local'[x].journal = "none" /\ local'[x].mapped = FALSE /\ local'[x].guest = FALSE
          BY ONLY <2>1, <2>12, <5>2, <6>2 DEF Local
        <6>4. local'[x] = Local("none", FALSE, FALSE) BY ONLY <6>3, <1>1 DEF Typed, LocalRecord, Local
        <6>5. ~local'[x].mapped /\ ~local'[x].guest BY ONLY <6>3
        <6>6. rotation'[x] = "bdm-rotated" /\ intent'[x] = "old" /\ nova'.host = "target" BY ONLY <2>1, <2>12, <5>2
        <6> QED BY ONLY <6>4, <6>5, <6>6 DEF LocalInv, Restored
      <5> QED BY ONLY <5>1, <5>2
    <4> QED BY ONLY <4>1, <4>2, <4>3, <4>4 DEF RowInv
  <2>9. Marked /\ (gen' = "retired" => rotation'[x] = "none" /\ intent'[x] = "none")
    BY ONLY <1>0, <1>1, <2>1, <2>2 DEF Marked, GenInv, RollingBack, NovaInv, WorkInv, StepInv, RollPcs, Owned, Exchange, Failed, Done, Terminal, Moved, Ended, HostSteps
  <2> QED BY ONLY Concludes, TypeOK, StateInv, <1>0, <1>1, <2>1, <2>3, <2>4, <2>5, <2>6, <2>7, <2>8, <2>9 DEF records
<1>4. ASSUME Released PROVE StateInv'
  <2>1. /\ w.pc = "released"
        /\ rotation'[x] = "source-release-complete"
        /\ \A v \in Volumes : v # x => rotation'[v] = rotation[v]
        /\ UNCHANGED <<root, nova, run, bdm, cinder, intent, local, gen>>
    BY ONLY TypeOK, <1>0, <1>1, <1>4 DEF Released, Write, Rotate, records, TypeOK, BdmRecord, LocalRecord
  <2>2. Moved("cancel")
    BY ONLY TypeOK, <1>0, <1>1, <1>4, <1>2, Stores DEF Released, Write, Rotate, records, TypeOK, BdmRecord, LocalRecord
  <2>3. \A v \in Volumes : v # x => Same(v) BY ONLY <1>0, <2>1, <2>2 DEF Same, Stored
  <2>4. Onward BY ONLY <1>0, <1>1, <2>1, <2>2 DEF Onward, Moved, Came, Went, Ended, WorkInv, Exchange
  <2>5. WorkInv' BY ONLY <1>0, <1>1, <2>1, <2>2 DEF WorkInv, Moved, Came, Went, Ended, NovaInv, Exchange, Idle, StepInv, RowInv, IntentInv, HostInv, Terminal, Failed, Done
  <2>6. AtStep' BY ONLY <1>0, <1>1, <2>1, <2>2, SMTT(20) DEF AtStep, RowInv, PhaseInv, Present, HostInv, IntentInv, LocalInv, ByOld, ByNew, ByRev, Free, Reserved, Attached, RollingBack, Used, Restored, Local, Absent, Ready, Owned, NovaInv, WorkInv, GenInv, StepInv, Typed, RollPcs, ForwardPcs, HostSteps, Exchange, Failed, Done, Terminal, Phases, Att, Journals, BdmRecord, CinderRecord, LocalRecord, Moved, Ended, Stored, Came, Went, Disconnecting
  <2>7. RotateInv' BY ONLY <1>0, <1>1, <2>1, <2>2, NoExchange DEF Moved, Ended, Came, Exchange
  <2>8. RowInv(x)' BY ONLY <1>0, <1>1, <2>1, <2>2, SMTT(20) DEF RowInv, PhaseInv, Present, HostInv, IntentInv, LocalInv, ByOld, ByNew, ByRev, Free, Reserved, Attached, RollingBack, Used, Restored, Local, Absent, Ready, Owned, NovaInv, WorkInv, GenInv, StepInv, Typed, RollPcs, ForwardPcs, HostSteps, Exchange, Failed, Done, Terminal, Phases, Att, Journals, BdmRecord, CinderRecord, LocalRecord, Moved, Ended, Stored, Came, Went
  <2>9. Marked /\ (gen' = "retired" => rotation'[x] = "none" /\ intent'[x] = "none")
    BY ONLY <1>0, <1>1, <2>1, <2>2 DEF Marked, GenInv, RollingBack, NovaInv, WorkInv, StepInv, RollPcs, Owned, Exchange, Failed, Done, Terminal, Moved, Ended, HostSteps
  <2> QED BY ONLY Concludes, TypeOK, StateInv, <1>0, <1>1, <2>1, <2>3, <2>4, <2>5, <2>6, <2>7, <2>8, <2>9 DEF records
<1>5. ASSUME Handoff PROVE StateInv'
  <2>1. /\ w.pc = "validate"
        /\ \A v \in Volumes : v # x => intent'[v] = intent[v]
        /\ UNCHANGED <<root, nova, run, bdm, cinder, rotation, local, gen>>
    BY ONLY TypeOK, <1>0, <1>1, <1>5 DEF Handoff, Visit, Phase, Named, Here, Journal, Boot, SetIntent, records, TypeOK, BdmRecord, LocalRecord
  <2>2. \/ intent' = intent /\ (Came("validate") \/ Ended("attach") \/ Ended("fail"))
        \/ /\ rotation[x] = "bdm-rotated" /\ w.att = "rev" /\ cinder[x]["rev"].status = "reserved"
           /\ cinder[x]["old"] = Absent /\ cinder[x]["new"] = Absent
           /\ intent[x] = "old" /\ intent'[x] = "rev" /\ Moved("handed")
    BY ONLY TypeOK, <1>0, <1>1, <1>5, <1>2, Stores DEF Handoff, Visit, Phase, Named, Here, Journal, Boot, SetIntent, records, TypeOK, BdmRecord, LocalRecord
  <2>3. \A v \in Volumes : v # x => Same(v) BY ONLY <1>0, <2>1, <2>2 DEF Same, Stored
  <2>4. Onward BY ONLY <1>0, <1>1, <2>1, <2>2 DEF Onward, Moved, Came, Went, Ended, WorkInv, Exchange
  <2>5. WorkInv' BY ONLY <1>0, <1>1, <2>1, <2>2 DEF WorkInv, Moved, Came, Went, Ended, NovaInv, Exchange, Idle, StepInv, RowInv, IntentInv, HostInv, Terminal, Failed, Done
  <2>6. AtStep' BY ONLY <1>0, <1>1, <2>1, <2>2, SMTT(20) DEF AtStep, RowInv, PhaseInv, Present, HostInv, IntentInv, LocalInv, ByOld, ByNew, ByRev, Free, Reserved, Attached, RollingBack, Used, Restored, Local, Absent, Ready, Owned, NovaInv, WorkInv, GenInv, StepInv, Typed, RollPcs, ForwardPcs, HostSteps, Exchange, Failed, Done, Terminal, Phases, Att, Journals, BdmRecord, CinderRecord, LocalRecord, Moved, Ended, Stored, Came, Went, Disconnecting
  <2>7. RotateInv' BY ONLY <1>0, <1>1, <2>1, <2>2, NoExchange DEF Moved, Ended, Came, Exchange
  <2>8. RowInv(x)' BY ONLY <1>0, <1>1, <2>1, <2>2, SMTT(20) DEF RowInv, PhaseInv, Present, HostInv, IntentInv, LocalInv, ByOld, ByNew, ByRev, Free, Reserved, Attached, RollingBack, Used, Restored, Local, Absent, Ready, Owned, NovaInv, WorkInv, GenInv, StepInv, Typed, RollPcs, ForwardPcs, HostSteps, Exchange, Failed, Done, Terminal, Phases, Att, Journals, BdmRecord, CinderRecord, LocalRecord, Moved, Ended, Stored, Came, Went
  <2>9. Marked /\ (gen' = "retired" => rotation'[x] = "none" /\ intent'[x] = "none")
    BY ONLY <1>0, <1>1, <2>1, <2>2 DEF Marked, GenInv, RollingBack, NovaInv, WorkInv, StepInv, RollPcs, Owned, Exchange, Failed, Done, Terminal, Moved, Ended, HostSteps
  <2> QED BY ONLY Concludes, TypeOK, StateInv, <1>0, <1>1, <2>1, <2>3, <2>4, <2>5, <2>6, <2>7, <2>8, <2>9 DEF records
<1>6. ASSUME HandedOff PROVE StateInv'
  <2>1. /\ w.pc = "handed"
        /\ \A v \in Volumes : v # x => rotation'[v] = rotation[v]
        /\ UNCHANGED <<root, nova, run, bdm, cinder, intent, local, gen>>
    BY ONLY TypeOK, <1>0, <1>1, <1>6 DEF HandedOff, Visit, Rotate, records, TypeOK, BdmRecord, LocalRecord
  <2>2. \/ rotation'[x] = "none" /\ (Came("validate") \/ Ended("attach"))
        \/ rotation' = rotation /\ Ended("fail")
    BY ONLY TypeOK, <1>0, <1>1, <1>6, <1>2, Stores DEF HandedOff, Visit, Rotate, records, TypeOK, BdmRecord, LocalRecord
  <2>3. \A v \in Volumes : v # x => Same(v) BY ONLY <1>0, <2>1, <2>2 DEF Same, Stored
  <2>4. Onward BY ONLY <1>0, <1>1, <2>1, <2>2 DEF Onward, Moved, Came, Went, Ended, WorkInv, Exchange
  <2>5. WorkInv' BY ONLY <1>0, <1>1, <2>1, <2>2 DEF WorkInv, Moved, Came, Went, Ended, NovaInv, Exchange, Idle, StepInv, RowInv, IntentInv, HostInv, Terminal, Failed, Done
  <2>6. AtStep' BY ONLY <1>0, <1>1, <2>1, <2>2, SMTT(20) DEF AtStep, RowInv, PhaseInv, Present, HostInv, IntentInv, LocalInv, ByOld, ByNew, ByRev, Free, Reserved, Attached, RollingBack, Used, Restored, Local, Absent, Ready, Owned, NovaInv, WorkInv, GenInv, StepInv, Typed, RollPcs, ForwardPcs, HostSteps, Exchange, Failed, Done, Terminal, Phases, Att, Journals, BdmRecord, CinderRecord, LocalRecord, Moved, Ended, Stored, Came, Went, Disconnecting
  <2>7. RotateInv' BY ONLY <1>0, <1>1, <2>1, <2>2, NoExchange DEF Moved, Ended, Came, Exchange
  <2>8. RowInv(x)' BY ONLY <1>0, <1>1, <2>1, <2>2, SMTT(20) DEF RowInv, PhaseInv, Present, HostInv, IntentInv, LocalInv, ByOld, ByNew, ByRev, Free, Reserved, Attached, RollingBack, Used, Restored, Local, Absent, Ready, Owned, NovaInv, WorkInv, GenInv, StepInv, Typed, RollPcs, ForwardPcs, HostSteps, Exchange, Failed, Done, Terminal, Phases, Att, Journals, BdmRecord, CinderRecord, LocalRecord, Moved, Ended, Stored, Came, Went
  <2>9. Marked /\ (gen' = "retired" => rotation'[x] = "none" /\ intent'[x] = "none")
    BY ONLY <1>0, <1>1, <2>1, <2>2 DEF Marked, GenInv, RollingBack, NovaInv, WorkInv, StepInv, RollPcs, Owned, Exchange, Failed, Done, Terminal, Moved, Ended, HostSteps
  <2> QED BY ONLY Concludes, TypeOK, StateInv, <1>0, <1>1, <2>1, <2>3, <2>4, <2>5, <2>6, <2>7, <2>8, <2>9 DEF records
<1> QED BY ONLY FinishStep, <1>3, <1>4, <1>5, <1>6 DEF FinishStep

LEMMA BeginningKeeps ==
    ASSUME TypeOK, TypeOK', StateInv, Beginning
    PROVE  StateInv'
<1>0. TypeOK /\ NovaInv /\ WorkInv /\ GenInv /\ RotateInv /\ AtStep BY DEF StateInv
<1>1. nova \in NovaRecord /\ w \in Worker BY DEF TypeOK
<1>2. \A v \in Volumes : Typed(v) /\ Typed(v)' /\ RowInv(v) BY Types, TypesNext DEF StateInv, VolumeInv
<1>3. w # Idle => w.vol \in Volumes /\ w.op \in {"rotate", "recover", "handoff"} BY Acting
<1>4. ASSUME BeginRotate PROVE StateInv'
  <2>1. /\ rpc = "rotate" /\ run = "up" /\ w = Idle /\ w.op = "none"
        /\ w'.op = "rotate" /\ w'.pc = "prepare" /\ w'.vol \in Volumes /\ w'.left = Volumes \ {w'.vol}
        /\ w'.status = nova.status /\ w'.host = nova.host
        /\ UNCHANGED <<root, nova, bdm, cinder, rotation, intent, local, gen, rpc, run>>
    BY ONLY <1>0, <1>1, <1>4 DEF BeginRotate, Begin, records, TypeOK, Idle, NovaRecord, NoFault
  <2>3. RollingBack => RollingBack' BY ONLY <1>0, <1>1, <2>1 DEF RollingBack
  <2>4. ASSUME NEW v \in Volumes PROVE RowInv(v)'
    <4>0. Typed(v) /\ Typed(v)' /\ RowInv(v) BY ONLY <1>2, <2>4
    <4>1. PhaseInv(v)' BY ONLY <1>0, <1>1, <2>1, <2>3, <2>4, <4>0, SMTT(20) DEF RowInv, PhaseInv, Present, HostInv, IntentInv, LocalInv, ByOld, ByNew, ByRev, Free, Reserved, Attached, RollingBack, Used, Restored, Local, Absent, Ready, Owned, NovaInv, WorkInv, GenInv, StepInv, Typed, RollPcs, ForwardPcs, HostSteps, Exchange, Failed, Done, Terminal, Phases, Att, Journals, BdmRecord, CinderRecord, LocalRecord, TypeOK, NovaRecord
    <4>2. HostInv(v)' BY ONLY <1>0, <1>1, <2>1, <2>3, <2>4, <4>0, SMTT(20) DEF RowInv, PhaseInv, Present, HostInv, IntentInv, LocalInv, ByOld, ByNew, ByRev, Free, Reserved, Attached, RollingBack, Used, Restored, Local, Absent, Ready, Owned, NovaInv, WorkInv, GenInv, StepInv, Typed, RollPcs, ForwardPcs, HostSteps, Exchange, Failed, Done, Terminal, Phases, Att, Journals, BdmRecord, CinderRecord, LocalRecord, TypeOK, NovaRecord
    <4>3. IntentInv(v)' BY ONLY <1>0, <1>1, <2>1, <2>3, <2>4, <4>0, SMTT(20) DEF RowInv, PhaseInv, Present, HostInv, IntentInv, LocalInv, ByOld, ByNew, ByRev, Free, Reserved, Attached, RollingBack, Used, Restored, Local, Absent, Ready, Owned, NovaInv, WorkInv, GenInv, StepInv, Typed, RollPcs, ForwardPcs, HostSteps, Exchange, Failed, Done, Terminal, Phases, Att, Journals, BdmRecord, CinderRecord, LocalRecord, TypeOK, NovaRecord
    <4>4. LocalInv(v)' BY ONLY <1>0, <1>1, <2>1, <2>3, <2>4, <4>0, SMTT(20) DEF RowInv, PhaseInv, Present, HostInv, IntentInv, LocalInv, ByOld, ByNew, ByRev, Free, Reserved, Attached, RollingBack, Used, Restored, Local, Absent, Ready, Owned, NovaInv, WorkInv, GenInv, StepInv, Typed, RollPcs, ForwardPcs, HostSteps, Exchange, Failed, Done, Terminal, Phases, Att, Journals, BdmRecord, CinderRecord, LocalRecord, TypeOK, NovaRecord
    <4> QED BY ONLY <4>1, <4>2, <4>3, <4>4 DEF RowInv
  <2>5. NovaInv' BY ONLY <1>0, <1>1, <2>1 DEF NovaInv, WorkInv, Failed, Done, TypeOK, NovaRecord
  <2>6. WorkInv' BY ONLY <1>0, <1>1, <2>1, VolumesAssumption DEF NovaInv, WorkInv, Idle, Failed, Done, Exchange, TypeOK, NovaRecord
  <2>7. GenInv' BY ONLY <1>0, <1>1, <2>1, <2>3, <1>2 DEF GenInv, RollingBack, NovaInv, WorkInv, Failed, Done, RowInv, IntentInv, ByRev, Typed, Att
  <2>8. RotateInv' BY ONLY <1>0, <1>1, <2>1, <1>2, <1>3 DEF RotateInv, RowInv, HostInv
  <2>9. AtStep' BY ONLY <1>0, <1>1, <2>1 DEF AtStep, StepInv, RollPcs, ForwardPcs, HostSteps, Idle
  <2> QED BY ONLY <2>4, <2>5, <2>6, <2>7, <2>8, <2>9 DEF StateInv, VolumeInv
<1>5. ASSUME BeginHandoff PROVE StateInv'
  <2>1. /\ rpc = "revert" /\ run = "up" /\ w = Idle /\ w.op = "none"
        /\ w'.op = "handoff" /\ w'.pc = "validate" /\ w'.vol \in Volumes /\ w'.left = Volumes \ {w'.vol}
        /\ w'.status = nova.status /\ w'.host = nova.host
        /\ UNCHANGED <<root, nova, bdm, cinder, rotation, intent, local, gen, rpc, run>>
    BY ONLY <1>0, <1>1, <1>5 DEF BeginHandoff, Begin, records, TypeOK, Idle, NovaRecord, NoFault
  <2>3. RollingBack => RollingBack' BY ONLY <1>0, <1>1, <2>1 DEF RollingBack
  <2>4. ASSUME NEW v \in Volumes PROVE RowInv(v)'
    <4>0. Typed(v) /\ Typed(v)' /\ RowInv(v) BY ONLY <1>2, <2>4
    <4>1. PhaseInv(v)' BY ONLY <1>0, <1>1, <2>1, <2>3, <2>4, <4>0, SMTT(20) DEF RowInv, PhaseInv, Present, HostInv, IntentInv, LocalInv, ByOld, ByNew, ByRev, Free, Reserved, Attached, RollingBack, Used, Restored, Local, Absent, Ready, Owned, NovaInv, WorkInv, GenInv, StepInv, Typed, RollPcs, ForwardPcs, HostSteps, Exchange, Failed, Done, Terminal, Phases, Att, Journals, BdmRecord, CinderRecord, LocalRecord, TypeOK, NovaRecord
    <4>2. HostInv(v)' BY ONLY <1>0, <1>1, <2>1, <2>3, <2>4, <4>0, SMTT(20) DEF RowInv, PhaseInv, Present, HostInv, IntentInv, LocalInv, ByOld, ByNew, ByRev, Free, Reserved, Attached, RollingBack, Used, Restored, Local, Absent, Ready, Owned, NovaInv, WorkInv, GenInv, StepInv, Typed, RollPcs, ForwardPcs, HostSteps, Exchange, Failed, Done, Terminal, Phases, Att, Journals, BdmRecord, CinderRecord, LocalRecord, TypeOK, NovaRecord
    <4>3. IntentInv(v)' BY ONLY <1>0, <1>1, <2>1, <2>3, <2>4, <4>0, SMTT(20) DEF RowInv, PhaseInv, Present, HostInv, IntentInv, LocalInv, ByOld, ByNew, ByRev, Free, Reserved, Attached, RollingBack, Used, Restored, Local, Absent, Ready, Owned, NovaInv, WorkInv, GenInv, StepInv, Typed, RollPcs, ForwardPcs, HostSteps, Exchange, Failed, Done, Terminal, Phases, Att, Journals, BdmRecord, CinderRecord, LocalRecord, TypeOK, NovaRecord
    <4>4. LocalInv(v)' BY ONLY <1>0, <1>1, <2>1, <2>3, <2>4, <4>0, SMTT(20) DEF RowInv, PhaseInv, Present, HostInv, IntentInv, LocalInv, ByOld, ByNew, ByRev, Free, Reserved, Attached, RollingBack, Used, Restored, Local, Absent, Ready, Owned, NovaInv, WorkInv, GenInv, StepInv, Typed, RollPcs, ForwardPcs, HostSteps, Exchange, Failed, Done, Terminal, Phases, Att, Journals, BdmRecord, CinderRecord, LocalRecord, TypeOK, NovaRecord
    <4> QED BY ONLY <4>1, <4>2, <4>3, <4>4 DEF RowInv
  <2>5. NovaInv' BY ONLY <1>0, <1>1, <2>1 DEF NovaInv, WorkInv, Failed, Done, TypeOK, NovaRecord
  <2>6. WorkInv' BY ONLY <1>0, <1>1, <2>1, VolumesAssumption DEF NovaInv, WorkInv, Idle, Failed, Done, Exchange, TypeOK, NovaRecord
  <2>7. GenInv' BY ONLY <1>0, <1>1, <2>1, <2>3, <1>2 DEF GenInv, RollingBack, NovaInv, WorkInv, Failed, Done, RowInv, IntentInv, ByRev, Typed, Att
  <2>8. RotateInv' BY ONLY <1>0, <1>1, <2>1, NoExchange
  <2>9. AtStep' BY ONLY <1>0, <1>1, <2>1 DEF AtStep, StepInv, RollPcs, ForwardPcs, HostSteps, Idle
  <2> QED BY ONLY <2>4, <2>5, <2>6, <2>7, <2>8, <2>9 DEF StateInv, VolumeInv
<1>6. ASSUME BeginRecover PROVE StateInv'
  <2>1. /\ run # "down" /\ w = Idle /\ w.op = "none"
        /\ w'.op = "recover" /\ w'.pc = "read" /\ w'.vol \in Volumes /\ w'.left = {}
        /\ w'.status = nova.status /\ w'.host = nova.host
        /\ UNCHANGED <<root, nova, bdm, cinder, rotation, intent, local, gen, rpc, run>>
    BY ONLY <1>0, <1>1, <1>6 DEF BeginRecover, Begin, Evidence, records, TypeOK, Idle, NovaRecord, NoFault
  <2>3. RollingBack => RollingBack' BY ONLY <1>0, <1>1, <2>1 DEF RollingBack
  <2>4. ASSUME NEW v \in Volumes PROVE RowInv(v)'
    <4>0. Typed(v) /\ Typed(v)' /\ RowInv(v) BY ONLY <1>2, <2>4
    <4>1. PhaseInv(v)' BY ONLY <1>0, <1>1, <2>1, <2>3, <2>4, <4>0, SMTT(20) DEF RowInv, PhaseInv, Present, HostInv, IntentInv, LocalInv, ByOld, ByNew, ByRev, Free, Reserved, Attached, RollingBack, Used, Restored, Local, Absent, Ready, Owned, NovaInv, WorkInv, GenInv, StepInv, Typed, RollPcs, ForwardPcs, HostSteps, Exchange, Failed, Done, Terminal, Phases, Att, Journals, BdmRecord, CinderRecord, LocalRecord, TypeOK, NovaRecord
    <4>2. HostInv(v)' BY ONLY <1>0, <1>1, <2>1, <2>3, <2>4, <4>0, SMTT(20) DEF RowInv, PhaseInv, Present, HostInv, IntentInv, LocalInv, ByOld, ByNew, ByRev, Free, Reserved, Attached, RollingBack, Used, Restored, Local, Absent, Ready, Owned, NovaInv, WorkInv, GenInv, StepInv, Typed, RollPcs, ForwardPcs, HostSteps, Exchange, Failed, Done, Terminal, Phases, Att, Journals, BdmRecord, CinderRecord, LocalRecord, TypeOK, NovaRecord
    <4>3. IntentInv(v)' BY ONLY <1>0, <1>1, <2>1, <2>3, <2>4, <4>0, SMTT(20) DEF RowInv, PhaseInv, Present, HostInv, IntentInv, LocalInv, ByOld, ByNew, ByRev, Free, Reserved, Attached, RollingBack, Used, Restored, Local, Absent, Ready, Owned, NovaInv, WorkInv, GenInv, StepInv, Typed, RollPcs, ForwardPcs, HostSteps, Exchange, Failed, Done, Terminal, Phases, Att, Journals, BdmRecord, CinderRecord, LocalRecord, TypeOK, NovaRecord
    <4>4. LocalInv(v)' BY ONLY <1>0, <1>1, <2>1, <2>3, <2>4, <4>0, SMTT(20) DEF RowInv, PhaseInv, Present, HostInv, IntentInv, LocalInv, ByOld, ByNew, ByRev, Free, Reserved, Attached, RollingBack, Used, Restored, Local, Absent, Ready, Owned, NovaInv, WorkInv, GenInv, StepInv, Typed, RollPcs, ForwardPcs, HostSteps, Exchange, Failed, Done, Terminal, Phases, Att, Journals, BdmRecord, CinderRecord, LocalRecord, TypeOK, NovaRecord
    <4> QED BY ONLY <4>1, <4>2, <4>3, <4>4 DEF RowInv
  <2>5. NovaInv' BY ONLY <1>0, <1>1, <2>1 DEF NovaInv, WorkInv, Failed, Done, TypeOK, NovaRecord
  <2>6. WorkInv' BY ONLY <1>0, <1>1, <2>1, VolumesAssumption DEF NovaInv, WorkInv, Idle, Failed, Done, Exchange, TypeOK, NovaRecord
  <2>7. GenInv' BY ONLY <1>0, <1>1, <2>1, <2>3, <1>2 DEF GenInv, RollingBack, NovaInv, WorkInv, Failed, Done, RowInv, IntentInv, ByRev, Typed, Att
  <2>8. RotateInv' BY ONLY <1>0, <1>1, <2>1, NoExchange
  <2>9. AtStep' BY ONLY <1>0, <1>1, <2>1 DEF AtStep, StepInv, RollPcs, ForwardPcs, HostSteps, Idle
  <2> QED BY ONLY <2>4, <2>5, <2>6, <2>7, <2>8, <2>9 DEF StateInv, VolumeInv
<1> QED BY ONLY Beginning, <1>4, <1>5, <1>6 DEF Beginning

LEMMA NovaKeeps ==
    ASSUME TypeOK, TypeOK', StateInv, NovaStep
    PROVE  StateInv'
<1>0. TypeOK /\ NovaInv /\ WorkInv /\ GenInv /\ RotateInv /\ AtStep BY DEF StateInv
<1>1. nova \in NovaRecord /\ w \in Worker BY DEF TypeOK
<1>2. \A v \in Volumes : Typed(v) /\ Typed(v)' /\ RowInv(v) BY Types, TypesNext DEF StateInv, VolumeInv
<1>3. w # Idle => w.vol \in Volumes /\ w.op \in {"rotate", "recover", "handoff"} BY Acting
<1>4. ASSUME HandOver PROVE StateInv'
  <2>1. /\ run = "up"
        /\ UNCHANGED <<root, bdm, cinder, rotation, intent, local, gen, w, run>>
    BY ONLY <1>0, <1>1, <1>4 DEF HandOver, Move, source, records, TypeOK, Idle, NovaRecord, NoFault
  <2>2. \/ rpc = "leave" /\ nova'.status = "post-migrating" /\ nova'.host = nova.host /\ rpc' = "leaving"
        \/ rpc = "leaving" /\ nova'.status = nova.status /\ nova'.host = "target" /\ rpc' = "target"
        \/ rpc \in {"leave", "leaving"} /\ nova' = nova /\ rpc' = "fail"
    BY ONLY <1>0, <1>1, <1>4 DEF HandOver, Move, source, records, TypeOK, Idle, NovaRecord, NoFault
  <2>3. RollingBack => RollingBack'
    BY ONLY <1>0, <1>1, <2>1, <2>2 DEF RollingBack, NovaInv, WorkInv, Failed, Done
  <2>4. ASSUME NEW v \in Volumes PROVE RowInv(v)'
    <4>0. Typed(v) /\ Typed(v)' /\ RowInv(v) BY ONLY <1>2, <2>4
    <4>1. PhaseInv(v)' BY ONLY <1>0, <1>1, <2>1, <2>2, <2>3, <2>4, <4>0, SMTT(20) DEF RowInv, PhaseInv, Present, HostInv, IntentInv, LocalInv, ByOld, ByNew, ByRev, Free, Reserved, Attached, RollingBack, Used, Restored, Local, Absent, Ready, Owned, NovaInv, WorkInv, GenInv, StepInv, Typed, RollPcs, ForwardPcs, HostSteps, Exchange, Failed, Done, Terminal, Phases, Att, Journals, BdmRecord, CinderRecord, LocalRecord, TypeOK, NovaRecord
    <4>2. HostInv(v)' BY ONLY <1>0, <1>1, <2>1, <2>2, <2>3, <2>4, <4>0, SMTT(20) DEF RowInv, PhaseInv, Present, HostInv, IntentInv, LocalInv, ByOld, ByNew, ByRev, Free, Reserved, Attached, RollingBack, Used, Restored, Local, Absent, Ready, Owned, NovaInv, WorkInv, GenInv, StepInv, Typed, RollPcs, ForwardPcs, HostSteps, Exchange, Failed, Done, Terminal, Phases, Att, Journals, BdmRecord, CinderRecord, LocalRecord, TypeOK, NovaRecord
    <4>3. IntentInv(v)' BY ONLY <1>0, <1>1, <2>1, <2>2, <2>3, <2>4, <4>0, SMTT(20) DEF RowInv, PhaseInv, Present, HostInv, IntentInv, LocalInv, ByOld, ByNew, ByRev, Free, Reserved, Attached, RollingBack, Used, Restored, Local, Absent, Ready, Owned, NovaInv, WorkInv, GenInv, StepInv, Typed, RollPcs, ForwardPcs, HostSteps, Exchange, Failed, Done, Terminal, Phases, Att, Journals, BdmRecord, CinderRecord, LocalRecord, TypeOK, NovaRecord
    <4>4. LocalInv(v)' BY ONLY <1>0, <1>1, <2>1, <2>2, <2>3, <2>4, <4>0, SMTT(20) DEF RowInv, PhaseInv, Present, HostInv, IntentInv, LocalInv, ByOld, ByNew, ByRev, Free, Reserved, Attached, RollingBack, Used, Restored, Local, Absent, Ready, Owned, NovaInv, WorkInv, GenInv, StepInv, Typed, RollPcs, ForwardPcs, HostSteps, Exchange, Failed, Done, Terminal, Phases, Att, Journals, BdmRecord, CinderRecord, LocalRecord, TypeOK, NovaRecord
    <4> QED BY ONLY <4>1, <4>2, <4>3, <4>4 DEF RowInv
  <2>5. NovaInv' BY ONLY <1>0, <1>1, <2>1, <2>2 DEF NovaInv, WorkInv, Failed, Done, TypeOK, NovaRecord
  <2>6. WorkInv' BY ONLY <1>0, <1>1, <2>1, <2>2, VolumesAssumption DEF NovaInv, WorkInv, Idle, Failed, Done, Exchange, TypeOK, NovaRecord
  <2>7. GenInv' BY ONLY <1>0, <1>1, <2>1, <2>2, <2>3, <1>2 DEF GenInv, RollingBack, NovaInv, WorkInv, Failed, Done, RowInv, IntentInv, ByRev, Typed, Att
  <2>8. RotateInv' BY ONLY <1>0, <1>1, <2>1, <2>2 DEF RotateInv
  <2>9. AtStep'
    <4>1. CASE w.op = "none" BY ONLY <1>0, <1>1, <2>1, <2>2, <4>1 DEF AtStep
    <4>2. CASE w.op # "none"
      <5>1. PICK x \in Volumes : x = w.vol /\ w.op \in {"rotate", "recover", "handoff"} BY ONLY <1>0, <1>3, <4>2 DEF Idle
      <5>2. Typed(x) /\ Typed(x)' /\ RowInv(x) /\ StepInv(x) BY ONLY <1>0, <1>2, <4>2, <5>1 DEF AtStep
      <5> QED BY ONLY <1>0, <1>1, <2>1, <2>2, <4>2, <5>1, <5>2, SMTT(20) DEF RowInv, PhaseInv, Present, HostInv, IntentInv, LocalInv, ByOld, ByNew, ByRev, Free, Reserved, Attached, RollingBack, Used, Restored, Local, Absent, Ready, Owned, NovaInv, WorkInv, GenInv, StepInv, Typed, RollPcs, ForwardPcs, HostSteps, Exchange, Failed, Done, Terminal, Phases, Att, Journals, BdmRecord, CinderRecord, LocalRecord, TypeOK, NovaRecord, AtStep
    <4> QED BY ONLY <4>1, <4>2
  <2> QED BY ONLY <2>4, <2>5, <2>6, <2>7, <2>8, <2>9 DEF StateInv, VolumeInv
<1>5. ASSUME ErrorOut PROVE StateInv'
  <2>1. /\ run = "up" /\ nova'.host = nova.host
        /\ UNCHANGED <<root, bdm, cinder, rotation, intent, local, gen, w, run>>
    BY ONLY <1>0, <1>1, <1>5 DEF ErrorOut, source, records, TypeOK, Idle, NovaRecord, NoFault
  <2>2. \/ rpc = "fail" /\ nova'.status = "error" /\ rpc' = "failed"
        \/ rpc = "failed" /\ nova'.status = nova.status /\ rpc' = "none"
    BY ONLY <1>0, <1>1, <1>5 DEF ErrorOut, source, records, TypeOK, Idle, NovaRecord, NoFault
  <2>3. RollingBack => RollingBack'
    BY ONLY <1>0, <1>1, <2>1, <2>2 DEF RollingBack, NovaInv, WorkInv, Failed, Done
  <2>4. ASSUME NEW v \in Volumes PROVE RowInv(v)'
    <4>0. Typed(v) /\ Typed(v)' /\ RowInv(v) BY ONLY <1>2, <2>4
    <4>1. PhaseInv(v)' BY ONLY <1>0, <1>1, <2>1, <2>2, <2>3, <2>4, <4>0, SMTT(20) DEF RowInv, PhaseInv, Present, HostInv, IntentInv, LocalInv, ByOld, ByNew, ByRev, Free, Reserved, Attached, RollingBack, Used, Restored, Local, Absent, Ready, Owned, NovaInv, WorkInv, GenInv, StepInv, Typed, RollPcs, ForwardPcs, HostSteps, Exchange, Failed, Done, Terminal, Phases, Att, Journals, BdmRecord, CinderRecord, LocalRecord, TypeOK, NovaRecord
    <4>2. HostInv(v)' BY ONLY <1>0, <1>1, <2>1, <2>2, <2>3, <2>4, <4>0, SMTT(20) DEF RowInv, PhaseInv, Present, HostInv, IntentInv, LocalInv, ByOld, ByNew, ByRev, Free, Reserved, Attached, RollingBack, Used, Restored, Local, Absent, Ready, Owned, NovaInv, WorkInv, GenInv, StepInv, Typed, RollPcs, ForwardPcs, HostSteps, Exchange, Failed, Done, Terminal, Phases, Att, Journals, BdmRecord, CinderRecord, LocalRecord, TypeOK, NovaRecord
    <4>3. IntentInv(v)' BY ONLY <1>0, <1>1, <2>1, <2>2, <2>3, <2>4, <4>0, SMTT(20) DEF RowInv, PhaseInv, Present, HostInv, IntentInv, LocalInv, ByOld, ByNew, ByRev, Free, Reserved, Attached, RollingBack, Used, Restored, Local, Absent, Ready, Owned, NovaInv, WorkInv, GenInv, StepInv, Typed, RollPcs, ForwardPcs, HostSteps, Exchange, Failed, Done, Terminal, Phases, Att, Journals, BdmRecord, CinderRecord, LocalRecord, TypeOK, NovaRecord
    <4>4. LocalInv(v)' BY ONLY <1>0, <1>1, <2>1, <2>2, <2>3, <2>4, <4>0, SMTT(20) DEF RowInv, PhaseInv, Present, HostInv, IntentInv, LocalInv, ByOld, ByNew, ByRev, Free, Reserved, Attached, RollingBack, Used, Restored, Local, Absent, Ready, Owned, NovaInv, WorkInv, GenInv, StepInv, Typed, RollPcs, ForwardPcs, HostSteps, Exchange, Failed, Done, Terminal, Phases, Att, Journals, BdmRecord, CinderRecord, LocalRecord, TypeOK, NovaRecord
    <4> QED BY ONLY <4>1, <4>2, <4>3, <4>4 DEF RowInv
  <2>5. NovaInv' BY ONLY <1>0, <1>1, <2>1, <2>2 DEF NovaInv, WorkInv, Failed, Done, TypeOK, NovaRecord
  <2>6. WorkInv' BY ONLY <1>0, <1>1, <2>1, <2>2, VolumesAssumption DEF NovaInv, WorkInv, Idle, Failed, Done, Exchange, TypeOK, NovaRecord
  <2>7. GenInv' BY ONLY <1>0, <1>1, <2>1, <2>2, <2>3, <1>2 DEF GenInv, RollingBack, NovaInv, WorkInv, Failed, Done, RowInv, IntentInv, ByRev, Typed, Att
  <2>8. RotateInv' BY ONLY <1>0, <1>1, <2>1, <2>2 DEF RotateInv
  <2>9. AtStep'
    <4>1. CASE w.op = "none" BY ONLY <1>0, <1>1, <2>1, <2>2, <4>1 DEF AtStep
    <4>2. CASE w.op # "none"
      <5>1. PICK x \in Volumes : x = w.vol /\ w.op \in {"rotate", "recover", "handoff"} BY ONLY <1>0, <1>3, <4>2 DEF Idle
      <5>2. Typed(x) /\ Typed(x)' /\ RowInv(x) /\ StepInv(x) BY ONLY <1>0, <1>2, <4>2, <5>1 DEF AtStep
      <5> QED BY ONLY <1>0, <1>1, <2>1, <2>2, <4>2, <5>1, <5>2, SMTT(20) DEF RowInv, PhaseInv, Present, HostInv, IntentInv, LocalInv, ByOld, ByNew, ByRev, Free, Reserved, Attached, RollingBack, Used, Restored, Local, Absent, Ready, Owned, NovaInv, WorkInv, GenInv, StepInv, Typed, RollPcs, ForwardPcs, HostSteps, Exchange, Failed, Done, Terminal, Phases, Att, Journals, BdmRecord, CinderRecord, LocalRecord, TypeOK, NovaRecord, AtStep
    <4> QED BY ONLY <4>1, <4>2
  <2> QED BY ONLY <2>4, <2>5, <2>6, <2>7, <2>8, <2>9 DEF StateInv, VolumeInv
<1>6. ASSUME TargetAttach PROVE StateInv'
  <2>0. ASSUME NEW v \in Volumes
        PROVE  cinder'[v]["new"] = [status |-> "attaching", conn |-> "target"] /\ cinder'[v]["old"] = cinder[v]["old"] /\ cinder'[v]["rev"] = cinder[v]["rev"]
    <4>1. cinder'[v] = [cinder[v] EXCEPT !["new"] = [status |-> "attaching", conn |-> "target"]] BY ONLY <2>0, <1>6 DEF TargetAttach, All
    <4>2. cinder[v] \in [Att -> CinderRecord] BY ONLY <1>0, <2>0 DEF TypeOK
    <4> QED BY ONLY <4>1, <4>2 DEF Att
  <2>10. \A v \in Volumes : bdm'[v].att = bdm[v].att
    BY ONLY <1>0, <1>6 DEF TypeOK, BdmRecord, TargetAttach
  <2>1. /\ rpc = "target"
        /\ \A v \in Volumes : cinder[v]["new"].status = "reserved"
        /\ \A v \in Volumes : cinder'[v]["new"] = [status |-> "attaching", conn |-> "target"]
        /\ \A v \in Volumes : cinder'[v]["old"] = cinder[v]["old"] /\ cinder'[v]["rev"] = cinder[v]["rev"] /\ bdm'[v].att = bdm[v].att
        /\ UNCHANGED <<root, nova, rotation, intent, local, gen, rpc, w, run>>
    BY ONLY <2>0, <2>10, <1>6 DEF TargetAttach, source, records
  <2>3. RollingBack => RollingBack'
    BY ONLY <1>0, <1>1, <2>1 DEF RollingBack, NovaInv, WorkInv, Failed, Done
  <2>4. ASSUME NEW v \in Volumes PROVE RowInv(v)'
    <4>0. Typed(v) /\ Typed(v)' /\ RowInv(v) BY ONLY <1>2, <2>4
    <4>1. PhaseInv(v)' BY ONLY <1>0, <1>1, <2>1, <2>3, <2>4, <4>0, SMTT(20) DEF RowInv, PhaseInv, Present, HostInv, IntentInv, LocalInv, ByOld, ByNew, ByRev, Free, Reserved, Attached, RollingBack, Used, Restored, Local, Absent, Ready, Owned, NovaInv, WorkInv, GenInv, StepInv, Typed, RollPcs, ForwardPcs, HostSteps, Exchange, Failed, Done, Terminal, Phases, Att, Journals, BdmRecord, CinderRecord, LocalRecord, TypeOK, NovaRecord
    <4>2. HostInv(v)' BY ONLY <1>0, <1>1, <2>1, <2>3, <2>4, <4>0, SMTT(20) DEF RowInv, PhaseInv, Present, HostInv, IntentInv, LocalInv, ByOld, ByNew, ByRev, Free, Reserved, Attached, RollingBack, Used, Restored, Local, Absent, Ready, Owned, NovaInv, WorkInv, GenInv, StepInv, Typed, RollPcs, ForwardPcs, HostSteps, Exchange, Failed, Done, Terminal, Phases, Att, Journals, BdmRecord, CinderRecord, LocalRecord, TypeOK, NovaRecord
    <4>3. IntentInv(v)' BY ONLY <1>0, <1>1, <2>1, <2>3, <2>4, <4>0, SMTT(20) DEF RowInv, PhaseInv, Present, HostInv, IntentInv, LocalInv, ByOld, ByNew, ByRev, Free, Reserved, Attached, RollingBack, Used, Restored, Local, Absent, Ready, Owned, NovaInv, WorkInv, GenInv, StepInv, Typed, RollPcs, ForwardPcs, HostSteps, Exchange, Failed, Done, Terminal, Phases, Att, Journals, BdmRecord, CinderRecord, LocalRecord, TypeOK, NovaRecord
    <4>4. LocalInv(v)' BY ONLY <1>0, <1>1, <2>1, <2>3, <2>4, <4>0, SMTT(20) DEF RowInv, PhaseInv, Present, HostInv, IntentInv, LocalInv, ByOld, ByNew, ByRev, Free, Reserved, Attached, RollingBack, Used, Restored, Local, Absent, Ready, Owned, NovaInv, WorkInv, GenInv, StepInv, Typed, RollPcs, ForwardPcs, HostSteps, Exchange, Failed, Done, Terminal, Phases, Att, Journals, BdmRecord, CinderRecord, LocalRecord, TypeOK, NovaRecord
    <4> QED BY ONLY <4>1, <4>2, <4>3, <4>4 DEF RowInv
  <2>5. NovaInv' BY ONLY <1>0, <1>1, <2>1 DEF NovaInv, WorkInv, Failed, Done, TypeOK, NovaRecord
  <2>6. WorkInv' BY ONLY <1>0, <1>1, <2>1, VolumesAssumption DEF NovaInv, WorkInv, Idle, Failed, Done, Exchange, TypeOK, NovaRecord
  <2>7. GenInv' BY ONLY <1>0, <1>1, <2>1, <2>3, <1>2 DEF GenInv, RollingBack, NovaInv, WorkInv, Failed, Done, RowInv, IntentInv, ByRev, Typed, Att
  <2>8. RotateInv' BY ONLY <1>0, <1>1, <2>1 DEF RotateInv
  <2>9. AtStep'
    <4>1. CASE w.op = "none" BY ONLY <1>0, <1>1, <2>1, <4>1 DEF AtStep
    <4>2. CASE w.op # "none"
      <5>1. PICK x \in Volumes : x = w.vol /\ w.op \in {"rotate", "recover", "handoff"} BY ONLY <1>0, <1>3, <4>2 DEF Idle
      <5>2. Typed(x) /\ Typed(x)' /\ RowInv(x) /\ StepInv(x) BY ONLY <1>0, <1>2, <4>2, <5>1 DEF AtStep
      <5>3. /\ w.status \notin Failed \cup Done /\ gen = "owned" /\ rotation[x] = "bdm-rotated"
            /\ w.pc # "handed"
        BY ONLY <1>0, <1>1, <2>1, <4>2, <5>1, <5>2 DEF NovaInv, WorkInv, GenInv, RowInv, HostInv, RollingBack, Failed, Done
      <5>4. StepInv(x)' BY ONLY <1>0, <1>1, <2>1, <5>1, <5>2, <5>3 DEF StepInv, RollPcs, ForwardPcs, HostSteps, Terminal, Owned, Ready
      <5> QED BY ONLY <1>0, <1>1, <2>1, <5>1, <5>4 DEF AtStep
    <4> QED BY ONLY <4>1, <4>2
  <2> QED BY ONLY <2>4, <2>5, <2>6, <2>7, <2>8, <2>9 DEF StateInv, VolumeInv
<1>7. ASSUME TargetFinish PROVE StateInv'
  <2>0. ASSUME NEW v \in Volumes
        PROVE  cinder'[v]["new"] = [status |-> "attached", conn |-> "target"] /\ cinder'[v]["old"] = cinder[v]["old"] /\ cinder'[v]["rev"] = cinder[v]["rev"]
    <4>1. cinder'[v] = [cinder[v] EXCEPT !["new"] = [status |-> "attached", conn |-> "target"]] BY ONLY <2>0, <1>7 DEF TargetFinish, All
    <4>2. cinder[v] \in [Att -> CinderRecord] BY ONLY <1>0, <2>0 DEF TypeOK
    <4> QED BY ONLY <4>1, <4>2 DEF Att
  <2>1. /\ rpc = "target" /\ rpc' = "none"
        /\ nova'.status = "finished" /\ nova'.host = "target"
        /\ \A v \in Volumes : cinder[v]["new"].status = "attaching"
        /\ \A v \in Volumes : cinder'[v]["new"] = [status |-> "attached", conn |-> "target"]
        /\ \A v \in Volumes : cinder'[v]["old"] = cinder[v]["old"] /\ cinder'[v]["rev"] = cinder[v]["rev"]
        /\ UNCHANGED <<root, bdm, rotation, intent, local, gen, w, run>>
    BY ONLY <2>0, <1>1, <1>7 DEF TargetFinish, Move, source, records
  <2>3. RollingBack => RollingBack'
    BY ONLY <1>0, <1>1, <2>1 DEF RollingBack, NovaInv, WorkInv, Failed, Done
  <2>4. ASSUME NEW v \in Volumes PROVE RowInv(v)'
    <4>0. Typed(v) /\ Typed(v)' /\ RowInv(v) BY ONLY <1>2, <2>4
    <4>1. PhaseInv(v)' BY ONLY <1>0, <1>1, <2>1, <2>3, <2>4, <4>0, SMTT(20) DEF RowInv, PhaseInv, Present, HostInv, IntentInv, LocalInv, ByOld, ByNew, ByRev, Free, Reserved, Attached, RollingBack, Used, Restored, Local, Absent, Ready, Owned, NovaInv, WorkInv, GenInv, StepInv, Typed, RollPcs, ForwardPcs, HostSteps, Exchange, Failed, Done, Terminal, Phases, Att, Journals, BdmRecord, CinderRecord, LocalRecord, TypeOK, NovaRecord
    <4>2. HostInv(v)' BY ONLY <1>0, <1>1, <2>1, <2>3, <2>4, <4>0, SMTT(20) DEF RowInv, PhaseInv, Present, HostInv, IntentInv, LocalInv, ByOld, ByNew, ByRev, Free, Reserved, Attached, RollingBack, Used, Restored, Local, Absent, Ready, Owned, NovaInv, WorkInv, GenInv, StepInv, Typed, RollPcs, ForwardPcs, HostSteps, Exchange, Failed, Done, Terminal, Phases, Att, Journals, BdmRecord, CinderRecord, LocalRecord, TypeOK, NovaRecord
    <4>3. IntentInv(v)' BY ONLY <1>0, <1>1, <2>1, <2>3, <2>4, <4>0, SMTT(20) DEF RowInv, PhaseInv, Present, HostInv, IntentInv, LocalInv, ByOld, ByNew, ByRev, Free, Reserved, Attached, RollingBack, Used, Restored, Local, Absent, Ready, Owned, NovaInv, WorkInv, GenInv, StepInv, Typed, RollPcs, ForwardPcs, HostSteps, Exchange, Failed, Done, Terminal, Phases, Att, Journals, BdmRecord, CinderRecord, LocalRecord, TypeOK, NovaRecord
    <4>4. LocalInv(v)' BY ONLY <1>0, <1>1, <2>1, <2>3, <2>4, <4>0, SMTT(20) DEF RowInv, PhaseInv, Present, HostInv, IntentInv, LocalInv, ByOld, ByNew, ByRev, Free, Reserved, Attached, RollingBack, Used, Restored, Local, Absent, Ready, Owned, NovaInv, WorkInv, GenInv, StepInv, Typed, RollPcs, ForwardPcs, HostSteps, Exchange, Failed, Done, Terminal, Phases, Att, Journals, BdmRecord, CinderRecord, LocalRecord, TypeOK, NovaRecord
    <4> QED BY ONLY <4>1, <4>2, <4>3, <4>4 DEF RowInv
  <2>5. NovaInv' BY ONLY <1>0, <1>1, <2>1 DEF NovaInv, WorkInv, Failed, Done, TypeOK, NovaRecord
  <2>6. WorkInv' BY ONLY <1>0, <1>1, <2>1, VolumesAssumption DEF NovaInv, WorkInv, Idle, Failed, Done, Exchange, TypeOK, NovaRecord
  <2>7. GenInv' BY ONLY <1>0, <1>1, <2>1, <2>3, <1>2 DEF GenInv, RollingBack, NovaInv, WorkInv, Failed, Done, RowInv, IntentInv, ByRev, Typed, Att
  <2>8. RotateInv' BY ONLY <1>0, <1>1, <2>1 DEF RotateInv
  <2>9. AtStep'
    <4>1. CASE w.op = "none" BY ONLY <1>0, <1>1, <2>1, <4>1 DEF AtStep
    <4>2. CASE w.op # "none"
      <5>1. PICK x \in Volumes : x = w.vol /\ w.op \in {"rotate", "recover", "handoff"} BY ONLY <1>0, <1>3, <4>2 DEF Idle
      <5>2. Typed(x) /\ Typed(x)' /\ RowInv(x) /\ StepInv(x) BY ONLY <1>0, <1>2, <4>2, <5>1 DEF AtStep
      <5>3. /\ w.status \notin Failed \cup Done /\ gen = "owned" /\ rotation[x] = "bdm-rotated"
            /\ w.pc # "handed"
        BY ONLY <1>0, <1>1, <2>1, <4>2, <5>1, <5>2 DEF NovaInv, WorkInv, GenInv, RowInv, HostInv, RollingBack, Failed, Done
      <5>4. StepInv(x)' BY ONLY <1>0, <1>1, <2>1, <5>1, <5>2, <5>3 DEF StepInv, RollPcs, ForwardPcs, HostSteps, Terminal, Owned, Ready
      <5> QED BY ONLY <1>0, <1>1, <2>1, <5>1, <5>4 DEF AtStep
    <4> QED BY ONLY <4>1, <4>2
  <2> QED BY ONLY <2>4, <2>5, <2>6, <2>7, <2>8, <2>9 DEF StateInv, VolumeInv
<1>8. ASSUME TargetFail PROVE StateInv'
  <2>1. /\ rpc = "target" /\ rpc' = "none"
        /\ nova'.status = "error" /\ nova'.host = "target"
        /\ UNCHANGED <<root, bdm, cinder, rotation, intent, local, gen, w, run>>
    BY ONLY <1>0, <1>1, <1>8 DEF TargetFail, Move, source, records, TypeOK, Idle, NovaRecord, NoFault
  <2>3. RollingBack => RollingBack'
    BY ONLY <1>0, <1>1, <2>1 DEF RollingBack, NovaInv, WorkInv, Failed, Done
  <2>4. ASSUME NEW v \in Volumes PROVE RowInv(v)'
    <4>0. Typed(v) /\ Typed(v)' /\ RowInv(v) BY ONLY <1>2, <2>4
    <4>1. PhaseInv(v)' BY ONLY <1>0, <1>1, <2>1, <2>3, <2>4, <4>0, SMTT(20) DEF RowInv, PhaseInv, Present, HostInv, IntentInv, LocalInv, ByOld, ByNew, ByRev, Free, Reserved, Attached, RollingBack, Used, Restored, Local, Absent, Ready, Owned, NovaInv, WorkInv, GenInv, StepInv, Typed, RollPcs, ForwardPcs, HostSteps, Exchange, Failed, Done, Terminal, Phases, Att, Journals, BdmRecord, CinderRecord, LocalRecord, TypeOK, NovaRecord
    <4>2. HostInv(v)' BY ONLY <1>0, <1>1, <2>1, <2>3, <2>4, <4>0, SMTT(20) DEF RowInv, PhaseInv, Present, HostInv, IntentInv, LocalInv, ByOld, ByNew, ByRev, Free, Reserved, Attached, RollingBack, Used, Restored, Local, Absent, Ready, Owned, NovaInv, WorkInv, GenInv, StepInv, Typed, RollPcs, ForwardPcs, HostSteps, Exchange, Failed, Done, Terminal, Phases, Att, Journals, BdmRecord, CinderRecord, LocalRecord, TypeOK, NovaRecord
    <4>3. IntentInv(v)' BY ONLY <1>0, <1>1, <2>1, <2>3, <2>4, <4>0, SMTT(20) DEF RowInv, PhaseInv, Present, HostInv, IntentInv, LocalInv, ByOld, ByNew, ByRev, Free, Reserved, Attached, RollingBack, Used, Restored, Local, Absent, Ready, Owned, NovaInv, WorkInv, GenInv, StepInv, Typed, RollPcs, ForwardPcs, HostSteps, Exchange, Failed, Done, Terminal, Phases, Att, Journals, BdmRecord, CinderRecord, LocalRecord, TypeOK, NovaRecord
    <4>4. LocalInv(v)' BY ONLY <1>0, <1>1, <2>1, <2>3, <2>4, <4>0, SMTT(20) DEF RowInv, PhaseInv, Present, HostInv, IntentInv, LocalInv, ByOld, ByNew, ByRev, Free, Reserved, Attached, RollingBack, Used, Restored, Local, Absent, Ready, Owned, NovaInv, WorkInv, GenInv, StepInv, Typed, RollPcs, ForwardPcs, HostSteps, Exchange, Failed, Done, Terminal, Phases, Att, Journals, BdmRecord, CinderRecord, LocalRecord, TypeOK, NovaRecord
    <4> QED BY ONLY <4>1, <4>2, <4>3, <4>4 DEF RowInv
  <2>5. NovaInv' BY ONLY <1>0, <1>1, <2>1 DEF NovaInv, WorkInv, Failed, Done, TypeOK, NovaRecord
  <2>6. WorkInv' BY ONLY <1>0, <1>1, <2>1, VolumesAssumption DEF NovaInv, WorkInv, Idle, Failed, Done, Exchange, TypeOK, NovaRecord
  <2>7. GenInv' BY ONLY <1>0, <1>1, <2>1, <2>3, <1>2 DEF GenInv, RollingBack, NovaInv, WorkInv, Failed, Done, RowInv, IntentInv, ByRev, Typed, Att
  <2>8. RotateInv' BY ONLY <1>0, <1>1, <2>1 DEF RotateInv
  <2>9. AtStep'
    <4>1. CASE w.op = "none" BY ONLY <1>0, <1>1, <2>1, <4>1 DEF AtStep
    <4>2. CASE w.op # "none"
      <5>1. PICK x \in Volumes : x = w.vol /\ w.op \in {"rotate", "recover", "handoff"} BY ONLY <1>0, <1>3, <4>2 DEF Idle
      <5>2. Typed(x) /\ Typed(x)' /\ RowInv(x) /\ StepInv(x) BY ONLY <1>0, <1>2, <4>2, <5>1 DEF AtStep
      <5> QED BY ONLY <1>0, <1>1, <2>1, <4>2, <5>1, <5>2, SMTT(20) DEF RowInv, PhaseInv, Present, HostInv, IntentInv, LocalInv, ByOld, ByNew, ByRev, Free, Reserved, Attached, RollingBack, Used, Restored, Local, Absent, Ready, Owned, NovaInv, WorkInv, GenInv, StepInv, Typed, RollPcs, ForwardPcs, HostSteps, Exchange, Failed, Done, Terminal, Phases, Att, Journals, BdmRecord, CinderRecord, LocalRecord, TypeOK, NovaRecord, AtStep
    <4> QED BY ONLY <4>1, <4>2
  <2> QED BY ONLY <2>4, <2>5, <2>6, <2>7, <2>8, <2>9 DEF StateInv, VolumeInv
<1>9. ASSUME UserConfirms PROVE StateInv'
  <2>1. /\ nova.status = "finished"
        /\ nova'.status = "confirmed" /\ nova'.host = "target"
        /\ UNCHANGED <<root, bdm, cinder, rotation, intent, local, gen, rpc, w, run>>
    BY ONLY <1>0, <1>1, <1>9 DEF UserConfirms, Move, source, records, TypeOK, Idle, NovaRecord, NoFault
  <2>3. RollingBack => RollingBack'
    BY ONLY <1>0, <1>1, <2>1 DEF RollingBack, NovaInv, WorkInv, Failed, Done
  <2>4. ASSUME NEW v \in Volumes PROVE RowInv(v)'
    <4>0. Typed(v) /\ Typed(v)' /\ RowInv(v) BY ONLY <1>2, <2>4
    <4>1. PhaseInv(v)' BY ONLY <1>0, <1>1, <2>1, <2>3, <2>4, <4>0, SMTT(20) DEF RowInv, PhaseInv, Present, HostInv, IntentInv, LocalInv, ByOld, ByNew, ByRev, Free, Reserved, Attached, RollingBack, Used, Restored, Local, Absent, Ready, Owned, NovaInv, WorkInv, GenInv, StepInv, Typed, RollPcs, ForwardPcs, HostSteps, Exchange, Failed, Done, Terminal, Phases, Att, Journals, BdmRecord, CinderRecord, LocalRecord, TypeOK, NovaRecord
    <4>2. HostInv(v)' BY ONLY <1>0, <1>1, <2>1, <2>3, <2>4, <4>0, SMTT(20) DEF RowInv, PhaseInv, Present, HostInv, IntentInv, LocalInv, ByOld, ByNew, ByRev, Free, Reserved, Attached, RollingBack, Used, Restored, Local, Absent, Ready, Owned, NovaInv, WorkInv, GenInv, StepInv, Typed, RollPcs, ForwardPcs, HostSteps, Exchange, Failed, Done, Terminal, Phases, Att, Journals, BdmRecord, CinderRecord, LocalRecord, TypeOK, NovaRecord
    <4>3. IntentInv(v)' BY ONLY <1>0, <1>1, <2>1, <2>3, <2>4, <4>0, SMTT(20) DEF RowInv, PhaseInv, Present, HostInv, IntentInv, LocalInv, ByOld, ByNew, ByRev, Free, Reserved, Attached, RollingBack, Used, Restored, Local, Absent, Ready, Owned, NovaInv, WorkInv, GenInv, StepInv, Typed, RollPcs, ForwardPcs, HostSteps, Exchange, Failed, Done, Terminal, Phases, Att, Journals, BdmRecord, CinderRecord, LocalRecord, TypeOK, NovaRecord
    <4>4. LocalInv(v)' BY ONLY <1>0, <1>1, <2>1, <2>3, <2>4, <4>0, SMTT(20) DEF RowInv, PhaseInv, Present, HostInv, IntentInv, LocalInv, ByOld, ByNew, ByRev, Free, Reserved, Attached, RollingBack, Used, Restored, Local, Absent, Ready, Owned, NovaInv, WorkInv, GenInv, StepInv, Typed, RollPcs, ForwardPcs, HostSteps, Exchange, Failed, Done, Terminal, Phases, Att, Journals, BdmRecord, CinderRecord, LocalRecord, TypeOK, NovaRecord
    <4> QED BY ONLY <4>1, <4>2, <4>3, <4>4 DEF RowInv
  <2>5. NovaInv' BY ONLY <1>0, <1>1, <2>1 DEF NovaInv, WorkInv, Failed, Done, TypeOK, NovaRecord
  <2>6. WorkInv' BY ONLY <1>0, <1>1, <2>1, VolumesAssumption DEF NovaInv, WorkInv, Idle, Failed, Done, Exchange, TypeOK, NovaRecord
  <2>7. GenInv' BY ONLY <1>0, <1>1, <2>1, <2>3, <1>2 DEF GenInv, RollingBack, NovaInv, WorkInv, Failed, Done, RowInv, IntentInv, ByRev, Typed, Att
  <2>8. RotateInv' BY ONLY <1>0, <1>1, <2>1 DEF RotateInv
  <2>9. AtStep'
    <4>1. CASE w.op = "none" BY ONLY <1>0, <1>1, <2>1, <4>1 DEF AtStep
    <4>2. CASE w.op # "none"
      <5>1. PICK x \in Volumes : x = w.vol /\ w.op \in {"rotate", "recover", "handoff"} BY ONLY <1>0, <1>3, <4>2 DEF Idle
      <5>2. Typed(x) /\ Typed(x)' /\ RowInv(x) /\ StepInv(x) BY ONLY <1>0, <1>2, <4>2, <5>1 DEF AtStep
      <5> QED BY ONLY <1>0, <1>1, <2>1, <4>2, <5>1, <5>2, SMTT(20) DEF RowInv, PhaseInv, Present, HostInv, IntentInv, LocalInv, ByOld, ByNew, ByRev, Free, Reserved, Attached, RollingBack, Used, Restored, Local, Absent, Ready, Owned, NovaInv, WorkInv, GenInv, StepInv, Typed, RollPcs, ForwardPcs, HostSteps, Exchange, Failed, Done, Terminal, Phases, Att, Journals, BdmRecord, CinderRecord, LocalRecord, TypeOK, NovaRecord, AtStep
    <4> QED BY ONLY <4>1, <4>2
  <2> QED BY ONLY <2>4, <2>5, <2>6, <2>7, <2>8, <2>9 DEF StateInv, VolumeInv
<1>10. ASSUME UserReverts PROVE StateInv'
  <2>0. ASSUME NEW v \in Volumes
        PROVE  cinder'[v]["new"] = Absent /\ cinder'[v]["old"] = cinder[v]["old"] /\ cinder'[v]["rev"] = [status |-> "reserved", conn |-> "none"]
    <4>1. cinder'[v] = [cinder[v] EXCEPT !["new"] = Absent, !["rev"] = [status |-> "reserved", conn |-> "none"]] BY ONLY <2>0, <1>10 DEF UserReverts, All
    <4>2. cinder[v] \in [Att -> CinderRecord] BY ONLY <1>0, <2>0 DEF TypeOK
    <4> QED BY ONLY <4>1, <4>2 DEF Att
  <2>10. \A v \in Volumes : bdm'[v].att = "rev"
    BY ONLY <1>0, <1>10 DEF TypeOK, BdmRecord, UserReverts
  <2>1. /\ nova.status = "finished" /\ rpc' = "revert"
        /\ nova'.status = "reverting" /\ nova'.host = "target"
        /\ \A v \in Volumes : cinder'[v]["new"] = Absent /\ cinder'[v]["old"] = cinder[v]["old"]
        /\ \A v \in Volumes : cinder'[v]["rev"] = [status |-> "reserved", conn |-> "none"]
        /\ \A v \in Volumes : bdm'[v].att = "rev"
        /\ UNCHANGED <<root, rotation, intent, local, gen, w, run>>
    BY ONLY <2>0, <1>1, <2>10, <1>10 DEF UserReverts, Move, source, records
  <2>3. RollingBack => RollingBack'
    BY ONLY <1>0, <1>1, <2>1 DEF RollingBack, NovaInv, WorkInv, Failed, Done
  <2>4. ASSUME NEW v \in Volumes PROVE RowInv(v)'
    <4>0. Typed(v) /\ Typed(v)' /\ RowInv(v) BY ONLY <1>2, <2>4
    <4>1. PhaseInv(v)' BY ONLY <1>0, <1>1, <2>1, <2>3, <2>4, <4>0, SMTT(20) DEF RowInv, PhaseInv, Present, HostInv, IntentInv, LocalInv, ByOld, ByNew, ByRev, Free, Reserved, Attached, RollingBack, Used, Restored, Local, Absent, Ready, Owned, NovaInv, WorkInv, GenInv, StepInv, Typed, RollPcs, ForwardPcs, HostSteps, Exchange, Failed, Done, Terminal, Phases, Att, Journals, BdmRecord, CinderRecord, LocalRecord, TypeOK, NovaRecord
    <4>2. HostInv(v)' BY ONLY <1>0, <1>1, <2>1, <2>3, <2>4, <4>0, SMTT(20) DEF RowInv, PhaseInv, Present, HostInv, IntentInv, LocalInv, ByOld, ByNew, ByRev, Free, Reserved, Attached, RollingBack, Used, Restored, Local, Absent, Ready, Owned, NovaInv, WorkInv, GenInv, StepInv, Typed, RollPcs, ForwardPcs, HostSteps, Exchange, Failed, Done, Terminal, Phases, Att, Journals, BdmRecord, CinderRecord, LocalRecord, TypeOK, NovaRecord
    <4>3. IntentInv(v)' BY ONLY <1>0, <1>1, <2>1, <2>3, <2>4, <4>0, SMTT(20) DEF RowInv, PhaseInv, Present, HostInv, IntentInv, LocalInv, ByOld, ByNew, ByRev, Free, Reserved, Attached, RollingBack, Used, Restored, Local, Absent, Ready, Owned, NovaInv, WorkInv, GenInv, StepInv, Typed, RollPcs, ForwardPcs, HostSteps, Exchange, Failed, Done, Terminal, Phases, Att, Journals, BdmRecord, CinderRecord, LocalRecord, TypeOK, NovaRecord
    <4>4. LocalInv(v)' BY ONLY <1>0, <1>1, <2>1, <2>3, <2>4, <4>0, SMTT(20) DEF RowInv, PhaseInv, Present, HostInv, IntentInv, LocalInv, ByOld, ByNew, ByRev, Free, Reserved, Attached, RollingBack, Used, Restored, Local, Absent, Ready, Owned, NovaInv, WorkInv, GenInv, StepInv, Typed, RollPcs, ForwardPcs, HostSteps, Exchange, Failed, Done, Terminal, Phases, Att, Journals, BdmRecord, CinderRecord, LocalRecord, TypeOK, NovaRecord
    <4> QED BY ONLY <4>1, <4>2, <4>3, <4>4 DEF RowInv
  <2>5. NovaInv' BY ONLY <1>0, <1>1, <2>1 DEF NovaInv, WorkInv, Failed, Done, TypeOK, NovaRecord
  <2>6. WorkInv' BY ONLY <1>0, <1>1, <2>1, VolumesAssumption DEF NovaInv, WorkInv, Idle, Failed, Done, Exchange, TypeOK, NovaRecord
  <2>7. GenInv' BY ONLY <1>0, <1>1, <2>1, <2>3, <1>2 DEF GenInv, RollingBack, NovaInv, WorkInv, Failed, Done, RowInv, IntentInv, ByRev, Typed, Att
  <2>8. RotateInv' BY ONLY <1>0, <1>1, <2>1 DEF RotateInv
  <2>9. AtStep'
    <4>1. CASE w.op = "none" BY ONLY <1>0, <1>1, <2>1, <4>1 DEF AtStep
    <4>2. CASE w.op # "none"
      <5>1. PICK x \in Volumes : x = w.vol /\ w.op \in {"rotate", "recover", "handoff"} BY ONLY <1>0, <1>3, <4>2 DEF Idle
      <5>2. Typed(x) /\ Typed(x)' /\ RowInv(x) /\ StepInv(x) BY ONLY <1>0, <1>2, <4>2, <5>1 DEF AtStep
      <5> QED BY ONLY <1>0, <1>1, <2>1, <4>2, <5>1, <5>2, SMTT(20) DEF RowInv, PhaseInv, Present, HostInv, IntentInv, LocalInv, ByOld, ByNew, ByRev, Free, Reserved, Attached, RollingBack, Used, Restored, Local, Absent, Ready, Owned, NovaInv, WorkInv, GenInv, StepInv, Typed, RollPcs, ForwardPcs, HostSteps, Exchange, Failed, Done, Terminal, Phases, Att, Journals, BdmRecord, CinderRecord, LocalRecord, TypeOK, NovaRecord, AtStep
    <4> QED BY ONLY <4>1, <4>2
  <2> QED BY ONLY <2>4, <2>5, <2>6, <2>7, <2>8, <2>9 DEF StateInv, VolumeInv
<1> QED BY ONLY NovaStep, <1>4, <1>5, <1>6, <1>7, <1>8, <1>9, <1>10 DEF NovaStep

LEMMA ProcessKeeps ==
    ASSUME TypeOK, TypeOK', StateInv, Process
    PROVE  StateInv'
<1>0. TypeOK /\ NovaInv /\ WorkInv /\ GenInv /\ RotateInv /\ AtStep BY DEF StateInv
<1>1. nova \in NovaRecord /\ w \in Worker BY DEF TypeOK
<1>2. \A v \in Volumes : Typed(v) /\ Typed(v)' /\ RowInv(v) BY Types, TypesNext DEF StateInv, VolumeInv
<1>3. w # Idle => w.vol \in Volumes /\ w.op \in {"rotate", "recover", "handoff"} BY Acting
<1>4. ASSUME Crash PROVE StateInv'
  <2>1. /\ run' = "down" /\ w' = Idle /\ w'.op = "none"
        /\ rpc' \in {rpc, "none"} /\ (rpc' = rpc => rpc \in {"none", "target", "revert"})
        /\ UNCHANGED <<root, nova, bdm, cinder, rotation, intent, local, gen>>
    BY ONLY <1>0, <1>1, <1>4 DEF Crash, records, TypeOK, Idle, NovaRecord, NoFault
  <2>3. RollingBack => RollingBack'
    BY ONLY <1>0, <1>1, <2>1 DEF RollingBack, NovaInv, WorkInv, Failed, Done
  <2>4. ASSUME NEW v \in Volumes PROVE RowInv(v)'
    <4>0. Typed(v) /\ Typed(v)' /\ RowInv(v) BY ONLY <1>2, <2>4
    <4>1. PhaseInv(v)' BY ONLY <1>0, <1>1, <2>1, <2>3, <2>4, <4>0, SMTT(20) DEF RowInv, PhaseInv, Present, HostInv, IntentInv, LocalInv, ByOld, ByNew, ByRev, Free, Reserved, Attached, RollingBack, Used, Restored, Local, Absent, Ready, Owned, NovaInv, WorkInv, GenInv, StepInv, Typed, RollPcs, ForwardPcs, HostSteps, Exchange, Failed, Done, Terminal, Phases, Att, Journals, BdmRecord, CinderRecord, LocalRecord, TypeOK, NovaRecord
    <4>2. HostInv(v)' BY ONLY <1>0, <1>1, <2>1, <2>3, <2>4, <4>0, SMTT(20) DEF RowInv, PhaseInv, Present, HostInv, IntentInv, LocalInv, ByOld, ByNew, ByRev, Free, Reserved, Attached, RollingBack, Used, Restored, Local, Absent, Ready, Owned, NovaInv, WorkInv, GenInv, StepInv, Typed, RollPcs, ForwardPcs, HostSteps, Exchange, Failed, Done, Terminal, Phases, Att, Journals, BdmRecord, CinderRecord, LocalRecord, TypeOK, NovaRecord
    <4>3. IntentInv(v)' BY ONLY <1>0, <1>1, <2>1, <2>3, <2>4, <4>0, SMTT(20) DEF RowInv, PhaseInv, Present, HostInv, IntentInv, LocalInv, ByOld, ByNew, ByRev, Free, Reserved, Attached, RollingBack, Used, Restored, Local, Absent, Ready, Owned, NovaInv, WorkInv, GenInv, StepInv, Typed, RollPcs, ForwardPcs, HostSteps, Exchange, Failed, Done, Terminal, Phases, Att, Journals, BdmRecord, CinderRecord, LocalRecord, TypeOK, NovaRecord
    <4>4. LocalInv(v)' BY ONLY <1>0, <1>1, <2>1, <2>3, <2>4, <4>0, SMTT(20) DEF RowInv, PhaseInv, Present, HostInv, IntentInv, LocalInv, ByOld, ByNew, ByRev, Free, Reserved, Attached, RollingBack, Used, Restored, Local, Absent, Ready, Owned, NovaInv, WorkInv, GenInv, StepInv, Typed, RollPcs, ForwardPcs, HostSteps, Exchange, Failed, Done, Terminal, Phases, Att, Journals, BdmRecord, CinderRecord, LocalRecord, TypeOK, NovaRecord
    <4> QED BY ONLY <4>1, <4>2, <4>3, <4>4 DEF RowInv
  <2>5. NovaInv' BY ONLY <1>0, <1>1, <2>1 DEF NovaInv, WorkInv, Failed, Done, TypeOK, NovaRecord
  <2>6. WorkInv' BY ONLY <1>0, <1>1, <2>1, VolumesAssumption DEF NovaInv, WorkInv, Idle, Failed, Done, Exchange, TypeOK, NovaRecord
  <2>7. GenInv' BY ONLY <1>0, <1>1, <2>1, <2>3, <1>2 DEF GenInv, RollingBack, NovaInv, WorkInv, Failed, Done, RowInv, IntentInv, ByRev, Typed, Att
  <2>8. RotateInv' BY ONLY <1>0, <1>1, <2>1, NoExchange
  <2>9. AtStep' BY ONLY <1>0, <1>1, <2>1 DEF AtStep, StepInv, RollPcs, ForwardPcs, HostSteps, Idle
  <2> QED BY ONLY <2>4, <2>5, <2>6, <2>7, <2>8, <2>9 DEF StateInv, VolumeInv
<1>5. ASSUME Start PROVE StateInv'
  <2>1. /\ run = "down" /\ nova'.host = nova.host
        /\ UNCHANGED <<root, bdm, cinder, rotation, intent, local, gen, rpc, w>>
    BY ONLY <1>0, <1>1, <1>5 DEF Start, Unfinished, Evidence, records, TypeOK, Idle, NovaRecord, NoFault
  <2>2. \/ /\ run' = "starting" /\ nova.host = "source"
           /\ nova'.status = IF nova.status \in Failed THEN nova.status ELSE "error"
        \/ run' = "up" /\ nova'.status = nova.status
    BY ONLY <1>0, <1>1, <1>5 DEF Start, Unfinished, Evidence, records, TypeOK, Idle, NovaRecord, NoFault
  <2>3. RollingBack => RollingBack'
    BY ONLY <1>0, <1>1, <2>1, <2>2 DEF RollingBack, NovaInv, WorkInv, Failed, Done
  <2>4. ASSUME NEW v \in Volumes PROVE RowInv(v)'
    <4>0. Typed(v) /\ Typed(v)' /\ RowInv(v) BY ONLY <1>2, <2>4
    <4>1. PhaseInv(v)' BY ONLY <1>0, <1>1, <2>1, <2>2, <2>3, <2>4, <4>0, SMTT(20) DEF RowInv, PhaseInv, Present, HostInv, IntentInv, LocalInv, ByOld, ByNew, ByRev, Free, Reserved, Attached, RollingBack, Used, Restored, Local, Absent, Ready, Owned, NovaInv, WorkInv, GenInv, StepInv, Typed, RollPcs, ForwardPcs, HostSteps, Exchange, Failed, Done, Terminal, Phases, Att, Journals, BdmRecord, CinderRecord, LocalRecord, TypeOK, NovaRecord
    <4>2. HostInv(v)' BY ONLY <1>0, <1>1, <2>1, <2>2, <2>3, <2>4, <4>0, SMTT(20) DEF RowInv, PhaseInv, Present, HostInv, IntentInv, LocalInv, ByOld, ByNew, ByRev, Free, Reserved, Attached, RollingBack, Used, Restored, Local, Absent, Ready, Owned, NovaInv, WorkInv, GenInv, StepInv, Typed, RollPcs, ForwardPcs, HostSteps, Exchange, Failed, Done, Terminal, Phases, Att, Journals, BdmRecord, CinderRecord, LocalRecord, TypeOK, NovaRecord
    <4>3. IntentInv(v)' BY ONLY <1>0, <1>1, <2>1, <2>2, <2>3, <2>4, <4>0, SMTT(20) DEF RowInv, PhaseInv, Present, HostInv, IntentInv, LocalInv, ByOld, ByNew, ByRev, Free, Reserved, Attached, RollingBack, Used, Restored, Local, Absent, Ready, Owned, NovaInv, WorkInv, GenInv, StepInv, Typed, RollPcs, ForwardPcs, HostSteps, Exchange, Failed, Done, Terminal, Phases, Att, Journals, BdmRecord, CinderRecord, LocalRecord, TypeOK, NovaRecord
    <4>4. LocalInv(v)' BY ONLY <1>0, <1>1, <2>1, <2>2, <2>3, <2>4, <4>0, SMTT(20) DEF RowInv, PhaseInv, Present, HostInv, IntentInv, LocalInv, ByOld, ByNew, ByRev, Free, Reserved, Attached, RollingBack, Used, Restored, Local, Absent, Ready, Owned, NovaInv, WorkInv, GenInv, StepInv, Typed, RollPcs, ForwardPcs, HostSteps, Exchange, Failed, Done, Terminal, Phases, Att, Journals, BdmRecord, CinderRecord, LocalRecord, TypeOK, NovaRecord
    <4> QED BY ONLY <4>1, <4>2, <4>3, <4>4 DEF RowInv
  <2>5. NovaInv' BY ONLY <1>0, <1>1, <2>1, <2>2 DEF NovaInv, WorkInv, Failed, Done, TypeOK, NovaRecord
  <2>6. WorkInv' BY ONLY <1>0, <1>1, <2>1, <2>2, VolumesAssumption DEF NovaInv, WorkInv, Idle, Failed, Done, Exchange, TypeOK, NovaRecord
  <2>7. GenInv' BY ONLY <1>0, <1>1, <2>1, <2>2, <2>3, <1>2 DEF GenInv, RollingBack, NovaInv, WorkInv, Failed, Done, RowInv, IntentInv, ByRev, Typed, Att
  <2>8. RotateInv' BY ONLY <1>0, <1>1, <2>1, <2>2 DEF RotateInv
  <2>9. AtStep'
    <4>1. CASE w.op = "none" BY ONLY <1>0, <1>1, <2>1, <2>2, <4>1 DEF AtStep
    <4>2. CASE w.op # "none"
      <5>1. PICK x \in Volumes : x = w.vol /\ w.op \in {"rotate", "recover", "handoff"} BY ONLY <1>0, <1>3, <4>2 DEF Idle
      <5>2. Typed(x) /\ Typed(x)' /\ RowInv(x) /\ StepInv(x) BY ONLY <1>0, <1>2, <4>2, <5>1 DEF AtStep
      <5> QED BY ONLY <1>0, <1>1, <2>1, <2>2, <4>2, <5>1, <5>2, SMTT(20) DEF RowInv, PhaseInv, Present, HostInv, IntentInv, LocalInv, ByOld, ByNew, ByRev, Free, Reserved, Attached, RollingBack, Used, Restored, Local, Absent, Ready, Owned, NovaInv, WorkInv, GenInv, StepInv, Typed, RollPcs, ForwardPcs, HostSteps, Exchange, Failed, Done, Terminal, Phases, Att, Journals, BdmRecord, CinderRecord, LocalRecord, TypeOK, NovaRecord, AtStep
    <4> QED BY ONLY <4>1, <4>2
  <2> QED BY ONLY <2>4, <2>5, <2>6, <2>7, <2>8, <2>9 DEF StateInv, VolumeInv
<1>6. ASSUME Started PROVE StateInv'
  <2>1. /\ run = "starting" /\ w = Idle /\ w.op = "none" /\ nova'.host = nova.host
        /\ UNCHANGED <<root, bdm, cinder, rotation, intent, local, rpc, w>>
    BY ONLY <1>0, <1>1, <1>6 DEF Started, Unfinished, records, TypeOK, Idle, NovaRecord, NoFault
  <2>2. \/ /\ nova'.status = "reverted" /\ gen' = "retired" /\ run' = "up" /\ gen = "done"
           /\ \A v \in Volumes : rotation[v] = "none" /\ intent[v] \notin {"old", "new"}
        \/ nova'.status \in {"reverted", nova.status} /\ gen' = gen /\ run' = "down"
    BY ONLY <1>0, <1>1, <1>6 DEF Started, Unfinished, records, TypeOK, Idle, NovaRecord, NoFault
  <2>3. RollingBack => RollingBack'
    BY ONLY <1>0, <1>1, <2>1, <2>2 DEF RollingBack, NovaInv, WorkInv, Failed, Done
  <2>4. ASSUME NEW v \in Volumes PROVE RowInv(v)'
    <4>0. Typed(v) /\ Typed(v)' /\ RowInv(v) BY ONLY <1>2, <2>4
    <4>1. PhaseInv(v)' BY ONLY <1>0, <1>1, <2>1, <2>2, <2>3, <2>4, <4>0, SMTT(20) DEF RowInv, PhaseInv, Present, HostInv, IntentInv, LocalInv, ByOld, ByNew, ByRev, Free, Reserved, Attached, RollingBack, Used, Restored, Local, Absent, Ready, Owned, NovaInv, WorkInv, GenInv, StepInv, Typed, RollPcs, ForwardPcs, HostSteps, Exchange, Failed, Done, Terminal, Phases, Att, Journals, BdmRecord, CinderRecord, LocalRecord, TypeOK, NovaRecord
    <4>2. HostInv(v)' BY ONLY <1>0, <1>1, <2>1, <2>2, <2>3, <2>4, <4>0, SMTT(20) DEF RowInv, PhaseInv, Present, HostInv, IntentInv, LocalInv, ByOld, ByNew, ByRev, Free, Reserved, Attached, RollingBack, Used, Restored, Local, Absent, Ready, Owned, NovaInv, WorkInv, GenInv, StepInv, Typed, RollPcs, ForwardPcs, HostSteps, Exchange, Failed, Done, Terminal, Phases, Att, Journals, BdmRecord, CinderRecord, LocalRecord, TypeOK, NovaRecord
    <4>3. IntentInv(v)' BY ONLY <1>0, <1>1, <2>1, <2>2, <2>3, <2>4, <4>0, SMTT(20) DEF RowInv, PhaseInv, Present, HostInv, IntentInv, LocalInv, ByOld, ByNew, ByRev, Free, Reserved, Attached, RollingBack, Used, Restored, Local, Absent, Ready, Owned, NovaInv, WorkInv, GenInv, StepInv, Typed, RollPcs, ForwardPcs, HostSteps, Exchange, Failed, Done, Terminal, Phases, Att, Journals, BdmRecord, CinderRecord, LocalRecord, TypeOK, NovaRecord
    <4>4. LocalInv(v)' BY ONLY <1>0, <1>1, <2>1, <2>2, <2>3, <2>4, <4>0, SMTT(20) DEF RowInv, PhaseInv, Present, HostInv, IntentInv, LocalInv, ByOld, ByNew, ByRev, Free, Reserved, Attached, RollingBack, Used, Restored, Local, Absent, Ready, Owned, NovaInv, WorkInv, GenInv, StepInv, Typed, RollPcs, ForwardPcs, HostSteps, Exchange, Failed, Done, Terminal, Phases, Att, Journals, BdmRecord, CinderRecord, LocalRecord, TypeOK, NovaRecord
    <4> QED BY ONLY <4>1, <4>2, <4>3, <4>4 DEF RowInv
  <2>5. NovaInv' BY ONLY <1>0, <1>1, <2>1, <2>2 DEF NovaInv, WorkInv, Failed, Done, TypeOK, NovaRecord
  <2>6. WorkInv' BY ONLY <1>0, <1>1, <2>1, <2>2, VolumesAssumption DEF NovaInv, WorkInv, Idle, Failed, Done, Exchange, TypeOK, NovaRecord
  <2>7. GenInv' BY ONLY <1>0, <1>1, <2>1, <2>2, <2>3, <1>2 DEF GenInv, RollingBack, NovaInv, WorkInv, Failed, Done, RowInv, IntentInv, ByRev, Typed, Att
  <2>8. RotateInv' BY ONLY <1>0, <1>1, <2>1, <2>2 DEF RotateInv
  <2>9. AtStep' BY ONLY <1>0, <1>1, <2>1, <2>2 DEF AtStep, StepInv, RollPcs, ForwardPcs, HostSteps, Idle
  <2> QED BY ONLY <2>4, <2>5, <2>6, <2>7, <2>8, <2>9 DEF StateInv, VolumeInv
<1> QED BY ONLY Process, <1>4, <1>5, <1>6 DEF Process


-----------------------------------------------------------------------------
(* The theorems.                                                           *)

\* The first state satisfies the invariant.
LEMMA InitInv == Init => Inv
<1> SUFFICES ASSUME Init PROVE Inv OBVIOUS
<1> USE Init
<1>1. TypeOK
  <2>1. root \in Volumes \cup {None} /\ rotation \in [Volumes -> Phases]
        /\ intent \in [Volumes -> Att \cup {"none"}]
    BY DEF Init, Phases, Att
  <2>2. nova \in NovaRecord /\ bdm \in [Volumes -> BdmRecord]
    BY DEF Init, NovaRecord, BdmRecord, Statuses, Att
  <2>3. cinder \in [Volumes -> [Att -> CinderRecord]]
    <3>1. Absent \in CinderRecord /\ [status |-> "attached", conn |-> "source"] \in CinderRecord
      BY DEF Absent, CinderRecord
    <3>2. [a \in Att |-> IF a = "old" THEN [status |-> "attached", conn |-> "source"] ELSE Absent]
            \in [Att -> CinderRecord]
      BY ONLY <3>1
    <3>3. cinder = [v \in Volumes |-> [a \in Att |->
            IF a = "old" THEN [status |-> "attached", conn |-> "source"] ELSE Absent]]
      BY ONLY Init, Zenon DEF Init
    <3> QED BY ONLY <3>2, <3>3
  <2>4. local \in [Volumes -> LocalRecord]
    BY Values DEF Init, Local, LocalRecord, Journals
  <2>5. gen = "owned" /\ rpc \in Rpcs /\ w \in Worker /\ run = "up" /\ todo = {} /\ faults \in 0..MaxFaults
    BY Values, FaultsAssumption DEF Init, Rpcs
  <2> QED BY ONLY <2>1, <2>2, <2>3, <2>4, <2>5 DEF TypeOK
<1>2. ASSUME NEW v \in Volumes PROVE RowInv(v)
  <2>1. /\ bdm[v].att = "old" /\ bdm[v].conn = "source" /\ rotation[v] = "none"
        /\ intent[v] = IF v = root THEN "none" ELSE "old"
        /\ local[v] = Local(IF v = root THEN "none" ELSE "disconnected", FALSE, FALSE)
    BY <1>2 DEF Init
  <2>2. /\ cinder[v]["old"] = [status |-> "attached", conn |-> "source"]
        /\ cinder[v]["new"] = Absent /\ cinder[v]["rev"] = Absent
    BY <1>2 DEF Init, Att
  <2>3. nova.status = "migrating" /\ nova.host = "source" /\ w.op = "none" /\ rpc = "rotate" /\ gen = "owned"
    BY DEF Init, Idle
  <2>4. PhaseInv(v) /\ HostInv(v) BY ONLY <2>1, <2>2, <2>3
    DEF PhaseInv, HostInv, ByOld, Attached, Free, Failed, Done, Absent
  <2>5. IntentInv(v) BY ONLY <2>1, <2>2, <2>3
    DEF IntentInv, ByOld, Attached, Free, Failed, Done, Terminal
  <2>6. local[v].guest = FALSE /\ local[v].mapped = FALSE BY ONLY <2>1 DEF Local
  <2>7. ~RollingBack BY ONLY <2>3 DEF RollingBack, Failed
  <2>8. LocalInv(v) BY ONLY <2>1, <2>2, <2>3, <2>6, <2>7 DEF LocalInv, Restored
  <2> QED BY ONLY <2>4, <2>5, <2>8 DEF RowInv
<1>3. NovaInv /\ WorkInv /\ GenInv /\ RotateInv /\ AtStep
  BY DEF Init, Idle, NovaInv, WorkInv, GenInv, RotateInv, AtStep, Failed, Done
<1> QED BY ONLY <1>1, <1>2, <1>3 DEF Inv, StateInv, VolumeInv

\* Every step keeps it.
LEMMA StepKeeps == ASSUME TypeOK, TypeOK', StateInv, [Next]_vars PROVE StateInv'
<1>1. CASE Beginning BY ONLY <1>1, BeginningKeeps, TypeOK, TypeOK', StateInv
<1>2. CASE NovaStep BY ONLY <1>2, NovaKeeps, TypeOK, TypeOK', StateInv
<1>3. CASE Process BY ONLY <1>3, ProcessKeeps, TypeOK, TypeOK', StateInv
<1>4. CASE w # Idle /\ (RotateStep \/ RollbackStep \/ HostStep \/ FinishStep)
  BY ONLY <1>4, RotateKeeps, RollbackKeeps, HostKeeps, FinishKeeps, TypeOK, TypeOK', StateInv
<1>5. CASE UNCHANGED vars
  <2>1. UNCHANGED <<root, nova, bdm, cinder, rotation, intent, local, gen, rpc, w, run>> BY <1>5 DEF vars, records
  <2>2. NovaInv' /\ WorkInv' /\ GenInv' /\ RotateInv'
    BY ONLY <2>1, StateInv DEF StateInv, NovaInv, WorkInv, GenInv, RotateInv, RollingBack
  <2>3. ASSUME NEW v
        PROVE  /\ ByOld(v)' <=> ByOld(v)
               /\ ByNew(v)' <=> ByNew(v)
               /\ ByRev(v)' <=> ByRev(v)
               /\ Restored(v)' <=> Restored(v)
               /\ Used(v, "new")' <=> Used(v, "new")
               /\ Free(v, "old")' <=> Free(v, "old")
               /\ Free(v, "new")' <=> Free(v, "new")
    BY ONLY <2>1 DEF ByOld, ByNew, ByRev, Free, Reserved, Attached, Used, Restored
  <2>5. \A v : (Ready(v)' <=> Ready(v)) /\ (Owned(v)' <=> Owned(v))
    BY ONLY <2>1, <2>3 DEF Ready, Owned, Attached
  <2>6. AtStep' BY ONLY <2>1, <2>3, <2>5, StateInv DEF StateInv, AtStep, StepInv, Reserved, Attached
  <2>7. RollingBack' <=> RollingBack BY ONLY <2>1 DEF RollingBack
  <2>4. ASSUME NEW v \in Volumes PROVE RowInv(v)'
    <3>0. RowInv(v) BY ONLY <2>4, StateInv DEF StateInv, VolumeInv
    <3>1. PhaseInv(v)' BY ONLY <2>1, <2>3, <2>7, <3>0 DEF RowInv, PhaseInv, Present, Reserved, Attached, Free
    <3>2. HostInv(v)' BY ONLY <2>1, <2>3, <2>7, <3>0 DEF RowInv, HostInv, Reserved, Attached
    <3>3. IntentInv(v)' BY ONLY <2>1, <2>3, <2>7, <3>0 DEF RowInv, IntentInv
    <3>4. LocalInv(v)' BY ONLY <2>1, <2>3, <2>7, <3>0 DEF RowInv, LocalInv
    <3> QED BY ONLY <3>1, <3>2, <3>3, <3>4 DEF RowInv
  <2> QED BY ONLY <2>2, <2>6, <2>4 DEF StateInv, VolumeInv
<1> QED BY ONLY [Next]_vars, NextCases, <1>1, <1>2, <1>3, <1>4, <1>5

\* The invariant holds in every state of every behaviour.
THEOREM Invariance == Spec => []Inv
<1>1. Inv /\ [Next]_vars => Inv'
  <2> SUFFICES ASSUME Inv, [Next]_vars PROVE Inv' OBVIOUS
  <2>1. TypeOK' BY ONLY StepTypes, Inv, [Next]_vars DEF Inv
  <2> QED BY ONLY <2>1, StepKeeps, Inv, [Next]_vars DEF Inv
<1> QED BY InitInv, <1>1, PTL DEF Spec

\* The state of the exchange has its types: the phases, journals and statuses
\* of the records, and the steps of the operations.
THEOREM TypeCorrect == Spec => []TypeOK
<1>1. Inv => TypeOK BY DEF Inv
<1> QED BY <1>1, Invariance, PTL

\* Wherever a step, a failed call or a crash leaves the exchange or its
\* rollback, an attachment of the instance is in Cinder that the BDM or the
\* rotation record names, and the source maps no volume without one.
THEOREM StaysOwned == Spec => []VolumeStaysOwned
<1>1. ASSUME Inv, NEW v \in Volumes
      PROVE  /\ \/ Present(v, bdm[v].att)
                \/ rotation[v] \in {"new-created", "old-deleted", "bdm-rotated"} /\ Present(v, "new")
             /\ local[v].mapped => \E a \in Att : Used(v, a) /\ cinder[v][a].conn = "source"
  <2>0. nova.host \in {"source", "target"} BY ONLY <1>1 DEF Inv, TypeOK, NovaRecord
  <2>1. Typed(v) /\ RowInv(v) BY ONLY <1>1, Types DEF Inv, StateInv, VolumeInv
  <2>2. \/ Present(v, bdm[v].att)
        \/ rotation[v] \in {"new-created", "old-deleted", "bdm-rotated"} /\ Present(v, "new")
    <3>1. /\ \A a \in Att, at \in {"source", "target"} : Attached(v, a, at) => Present(v, a)
          /\ \A a \in Att : Reserved(v, a) => Present(v, a)
      BY DEF Attached, Reserved, Present
    <3>2. \/ ByOld(v) \/ ByRev(v) \/ (ByNew(v) /\ Present(v, "new"))
          \/ rotation[v] \in {"new-created", "old-deleted"} /\ (Present(v, "new") \/ (bdm[v].att = "old" /\ Attached(v, "old", "source")))
      BY ONLY <2>1, <2>0, <3>1 DEF Typed, RowInv, PhaseInv, Phases, Terminal, Att
    <3> QED BY ONLY <3>1, <3>2 DEF ByOld, ByNew, ByRev, Att
  <2>3. CASE local[v].mapped
    <3>1. \/ Used(v, "old") /\ cinder[v]["old"].conn = "source"
          \/ Used(v, "new") /\ cinder[v]["new"].conn = "source"
      BY ONLY <2>1, <2>3 DEF RowInv, LocalInv, ByOld, Attached, Used
    <3> QED BY ONLY <2>2, <3>1 DEF Att
  <2> QED BY ONLY <2>2, <2>3
<1>2. Inv => VolumeStaysOwned BY ONLY <1>1 DEF VolumeStaysOwned
<1> QED BY <1>2, Invariance, PTL

\* The generation outlives the records of its volumes, and an exchange that
\* left no record is exact: one attachment of each volume, connected where the
\* instance is, and a failed migration has the volume back in the guest.
THEOREM Exact == Spec => []SettledIsExact
<1>1. ASSUME Inv, Settled, nova.status \in Done \/ (nova.status \in Failed /\ nova.host = "source"),
             NEW v \in Volumes
      PROVE  /\ {a \in Att : Present(v, a)} = {bdm[v].att}
             /\ cinder[v][bdm[v].att] = [status |-> "attached", conn |-> nova.host]
             /\ IF nova.host = "source"
                THEN /\ bdm[v].conn = "source"
                     /\ v # root => local[v] = Local("none", TRUE, TRUE) /\ gen # "owned"
                ELSE local[v] = Local("none", FALSE, FALSE)
  <2>1. Typed(v) /\ RowInv(v) /\ NovaInv /\ rotation[v] = "none" /\ intent[v] = "none" /\ nova.host \in {"source", "target"}
    BY ONLY <1>1, Types DEF Inv, StateInv, VolumeInv, Settled, TypeOK, NovaRecord
  <2>2. \/ ByOld(v) /\ Free(v, "new") /\ nova.host = "source"
        \/ ByNew(v) /\ Attached(v, "new", nova.host)
    BY ONLY <1>1, <2>1 DEF RowInv, PhaseInv, HostInv, NovaInv, ByRev, Failed, Done, Terminal
  <2>3. {a \in Att : Present(v, a)} = {bdm[v].att}
        /\ cinder[v][bdm[v].att] = [status |-> "attached", conn |-> nova.host]
    BY ONLY <2>1, <2>2 DEF ByOld, ByNew, Attached, Free, Absent, Present, Att
  <2>4. CASE nova.host = "source"
    <3>1. bdm[v].conn = "source" /\ (v # root => local[v] = Local("none", TRUE, TRUE) /\ gen # "owned")
      BY ONLY <2>1, <2>4 DEF RowInv, HostInv, LocalInv, Restored
    <3> QED BY ONLY <2>3, <2>4, <3>1
  <2>5. CASE nova.host # "source"
    <3>1. local[v] = Local("none", FALSE, FALSE)
      BY ONLY <2>1, <2>2, <2>5 DEF RowInv, LocalInv, ByNew
    <3> QED BY ONLY <2>3, <2>5, <3>1
  <2> QED BY ONLY <2>4, <2>5
<1>2. Inv => SettledIsExact BY ONLY <1>1 DEF SettledIsExact, Inv, StateInv, GenInv
<1> QED BY <1>2, Invariance, PTL

====
