--------------------------- MODULE Releases_proofs --------------------------
(***************************************************************************)
(* What the records of a ValidatorConfig - a condition and a hash for each *)
(* plugin - say about the releases Helm has: when nothing is stale, lost   *)
(* or restarted, whatever else fails.                                      *)
(***************************************************************************)
EXTENDS ValidatorConfig_proofs

\* The worker's caches show all writes when it reads, its patches arrive, it
\* does not restart, and the ValidatorConfig is created once.
Calm ==
    /\ ~StaleReads
    /\ {"patch", "status"} \cap Faults = {}
    /\ MaxCrashes = 0
    /\ "recreate" \notin UserOps

Untouched ==
    /\ server = NoObject /\ pc = "idle" /\ conditions = <<>>
    /\ release = [p \in Plugins |-> NoRelease]
    /\ running = None /\ detached = None

\* Until somebody deletes it, the ValidatorConfig is only being redeployed.
OnlyRedeployed ==
    /\ edits = 0 => Untouched
    /\ Live => /\ ~terminating
               /\ running = None /\ detached = None
               /\ pc \in {"idle", "deploy", "prune", "patch", "patchStatus"}

Redeploy ==
    \/ SkipPlugin \/ PrepareFails
    \/ UpgradeSucceeds \/ UpgradeFails \/ UpgradeRefused
    \/ StartPrune \/ PruneKeeps \/ PruneDeletes \/ FinishRedeploy

Deletes ==
    \/ NamespaceLookupFails \/ LookupNamespace
    \/ LookupFinds \/ LookupNotFound \/ LookupFails \/ AwaitDeletions
    \/ DropFinalizer \/ Unfinalize \/ EmitFinalizeCleanup

LEMMA WorkerCases ==
    Worker => \/ ReadNotFound \/ Read \/ Redeploy
              \/ PatchMetadata \/ PatchStatus \/ Deletes
BY DEF Worker, Redeploy, Deletes

-----------------------------------------------------------------------------
(* The steps of a ValidatorConfig that nobody has deleted *)

\* A redeployment touches neither the object nor the goroutines.
LEMMA RedeployFrame ==
    ASSUME TypeOK, Redeploy
    PROVE  /\ pc \in {"deploy", "prune"} /\ pc' \in {"deploy", "prune", "patch"}
           /\ UNCHANGED <<server, seen, edits, terminating, running, detached>>
           /\ work'.plugins = work.plugins
<1> USE DEF stored, objectVars, helm, outside, spent
<1>1. CASE \/ SkipPlugin \/ PrepareFails
           \/ UpgradeSucceeds \/ UpgradeFails \/ UpgradeRefused
  <2>1. /\ pc = "deploy" /\ \E ok \in BOOLEAN : SetCondition(ok)
    BY <1>1 DEF SkipPlugin, PrepareFails, UpgradeSucceeds, UpgradeFails,
       UpgradeRefused, Deploying
  <2>2. QED
    BY <2>1 DEF SetCondition, HashUpdated
<1>2. CASE StartPrune \/ PruneKeeps
  BY <1>2 DEF StartPrune, PruneKeeps
<1>3. CASE PruneDeletes \/ FinishRedeploy
  <2>1. pc = "prune" /\ work \in Object
    BY <1>3 DEF PruneDeletes, FinishRedeploy, TypeOK, DataOK
  <2>2. work'.plugins = work.plugins
    BY <1>3, <2>1 DEF PruneDeletes, FinishRedeploy, Object
  <2>3. QED
    BY <1>3, <2>1, <2>2 DEF PruneDeletes, FinishRedeploy
<1>4. QED
  BY <1>1, <1>2, <1>3 DEF Redeploy

\* The deletion path is taken only for an object that somebody deleted, and
\* does not bring it back.
LEMMA DeletesFrame ==
    ASSUME CopyIsVersionRead, Deletes
    PROVE  /\ pc \in {"namespace", "lookup", "dropFinalizer", "unfinalize", "emit"}
           /\ server' = server \/ server' = NoObject
           /\ UNCHANGED <<edits, release, terminating>>
<1> USE DEF stored, objectVars, helm, outside, spent
<1>1. CASE DropFinalizer \/ Unfinalize
  <2>1. /\ pc \in {"dropFinalizer", "unfinalize"}
        /\ UNCHANGED <<edits, release, terminating>>
    BY <1>1 DEF DropFinalizer, Unfinalize
  <2>2. RemoveFinalizer \/ UNCHANGED stored
    BY <1>1 DEF DropFinalizer, Unfinalize, RemoveFinalizerFails
  <2>3. work.deleting
    BY <2>1 DEF CopyIsVersionRead
  <2>4. QED
    BY <2>1, <2>2, <2>3 DEF RemoveFinalizer, Store, Write
<1>2. CASE \/ NamespaceLookupFails \/ LookupNamespace
           \/ LookupFinds \/ LookupNotFound \/ LookupFails \/ AwaitDeletions
           \/ EmitFinalizeCleanup
  BY <1>2 DEF NamespaceLookupFails, LookupNamespace, LookupFinds,
     LookupNotFound, LookupFails, AwaitDeletions, EmitFinalizeCleanup, LookingUp,
     Detach
<1>3. QED
  BY <1>1, <1>2 DEF Deletes

\* A patch keeps what is not in it.
LEMMA PatchFrame ==
    ASSUME Calm, PatchMetadata \/ PatchStatus
    PROVE  /\ pc \in {"patch", "patchStatus"} /\ pc' \in {"idle", "patchStatus"}
           /\ UNCHANGED <<edits, terminating, running, detached, release,
                          troubled>>
           /\ PatchMetadata =>
                 /\ UNCHANGED <<seen, work, i, conditions>>
                 /\ pc = "patch" /\ pc' = "patchStatus"
                 /\ server' = IF server = NoObject THEN NoObject
                              ELSE MetadataPatched(server)
           /\ PatchStatus =>
                 /\ pc = "patchStatus" /\ pc' = "idle" /\ conditions' = <<>>
                 /\ server' = IF server = NoObject THEN NoObject
                              ELSE StatusPatched(server)
<1> USE DEF stored, objectVars, helm, memory, outside
<1>1. ~Fails("patch") /\ ~Fails("status")
  BY DEF Calm, Fails
<1>2. CASE PatchMetadata
  BY <1>1, <1>2 DEF PatchMetadata, PatchStatus, Store, Write
<1>3. CASE PatchStatus
  BY <1>1, <1>3 DEF PatchMetadata, PatchStatus, Store, Write, Return
<1>4. QED
  BY <1>2, <1>3

\* The steps that touch no part of a deployment or its records
Quiet ==
    /\ UNCHANGED <<pc, seen, work, i, conditions, release, troubled>>
    /\ server' # NoObject => server'.conds = server.conds /\ server'.hash = server.hash

\* There are not many kinds of steps while the ValidatorConfig is live.
LEMMA LiveSteps ==
    ASSUME Calm, TypeOK, CopyIsVersionRead, OnlyRedeployed, [Next]_vars, Live'
    PROVE  \/ /\ Untouched /\ edits = 0
              /\ UNCHANGED <<pc, seen, work, i, conditions, release, troubled>>
              /\ server'.conds = <<>>
           \/ /\ Live
              /\ \/ Quiet
                 \/ Read
                 \/ Redeploy
                 \/ PatchMetadata
                 \/ PatchStatus
<1> USE DEF stored, objectVars, helm, memory, outside, spent
<1>1. CASE Worker
  <2>1. CASE ReadNotFound
    BY <2>1 DEF ReadNotFound, Live, Quiet
  <2>2. CASE Read
    BY <2>2 DEF Read, Live
  <2>3. CASE Redeploy
    BY <2>3, RedeployFrame DEF Live
  <2>4. CASE PatchMetadata \/ PatchStatus
    <3>1. server # NoObject
      BY <2>4, PatchFrame DEF Live
    <3>2. server'.deleting = server.deleting
      <4>1. server \in Object /\ pc # "idle"
        BY <2>4, <3>1, PatchFrame DEF TypeOK, DataOK
      <4>2. QED
        BY <2>4, <3>1, <4>1, PatchFrame, MetadataPatchedType, StatusPatchedType
        DEF TypeOK
    <3>3. QED
      BY <2>4, <3>1, <3>2 DEF Live
  <2>5. CASE Deletes
    BY <2>5, DeletesFrame DEF Live, OnlyRedeployed
  <2>6. QED
    BY <1>1, <2>1, <2>2, <2>3, <2>4, <2>5, WorkerCases
<1>2. CASE Deliver \/ Resync
  BY <1>2 DEF Deliver, Resync, ReceiveEvent, Live, Quiet
<1>3. CASE Crash
  BY <1>3 DEF Crash, Calm, TypeOK, DataOK
<1>4. ASSUME NEW p \in Plugins, DeletionEnds(p) \/ IndexRelease(p) \/ SweepNamespace(p)
      PROVE  Live /\ Quiet
  <2>1. Live
    BY <1>4 DEF DeletionEnds, IndexRelease, SweepNamespace, Live
  <2>2. ~DeletionEnds(p) /\ ~SweepNamespace(p)
    BY <2>1 DEF OnlyRedeployed, DeletionEnds, SweepNamespace, None
  <2>3. QED
    BY <1>4, <2>1, <2>2 DEF IndexRelease, Quiet
<1>5. ASSUME NEW spec \in Specs, Create(spec)
      PROVE  /\ Untouched /\ edits = 0
             /\ UNCHANGED <<pc, seen, work, i, conditions, release, troubled>>
             /\ server'.conds = <<>>
  <2>1. edits = 0 /\ UNCHANGED <<pc, seen, work, i, conditions, release, troubled>>
    <3>1. \/ UserStep("create") /\ "create" \notin UserOps
          \/ UserStep("recreate")
      BY <1>5, ConstantsAssumption DEF Create
    <3>2. ~UserStep("recreate")
      BY DEF UserStep, Calm
    <3>3. QED
      BY <3>1, <3>2 DEF UserStep
  <2>2. server' = NewObject(spec)
    BY <1>5 DEF Create, Store, Write
  <2>3. QED
    BY <2>1, <2>2 DEF OnlyRedeployed, NewObject
<1>6. ASSUME NEW spec \in Specs, Edit(spec)
      PROVE  Live /\ Quiet
  <2>1. /\ server \in Object
        /\ server' = [server EXCEPT !.plugins = spec]
    BY <1>6 DEF Edit, Store, Write, TypeOK, DataOK
  <2>2. /\ server'.deleting = server.deleting
        /\ server'.conds = server.conds /\ server'.hash = server.hash
    BY <2>1 DEF Object
  <2>3. UNCHANGED <<pc, helm, memory>>
    BY <1>6 DEF Edit, UserStep
  <2>4. QED
    BY <1>6, <2>2, <2>3 DEF Edit, Live, Quiet
<1>7. CASE Delete \/ DeleteNamespace
  <2>1. \/ server' = NoObject
        \/ server' = [server EXCEPT !.deleting = TRUE] /\ server \in Object
    BY <1>7 DEF Delete, DeleteNamespace, Deletion, Store, Write, TypeOK, DataOK
  <2>2. ~Live'
    BY <2>1 DEF Live, Object
  <2>3. QED
    BY <2>2
<1>8. CASE UNCHANGED vars
  BY <1>8 DEF vars, Live, Quiet
<1>9. QED
  BY <1>1, <1>2, <1>3, <1>4, <1>5, <1>6, <1>7, <1>8
  DEF Next, Environment

LEMMA OnlyRedeployedStep ==
    ASSUME Calm, TypeOK, CopyIsVersionRead, OnlyRedeployed, [Next]_vars
    PROVE  OnlyRedeployed'
<1> USE DEF stored, objectVars, helm, memory, outside, spent
<1>1. edits' = 0 => Untouched'
  <2> SUFFICES ASSUME edits' = 0 PROVE Untouched'
    OBVIOUS
  <2>1. CASE edits = 0
    <3>1. Untouched
      BY <2>1 DEF OnlyRedeployed
    <3>2. CASE Worker
      <4>1. ~Redeploy /\ ~PatchMetadata /\ ~PatchStatus /\ ~Deletes
        BY <3>1, RedeployFrame, PatchFrame, DeletesFrame DEF Untouched
      <4>2. cache = NoObject
        <5>1. CASE Read
          BY <3>1, <5>1 DEF Read, CanRead, Calm, CopyIsVersionRead,
             CacheFollowsServer, Untouched
        <5>2. CASE ReadNotFound
          BY <5>2 DEF ReadNotFound
        <5>3. QED
          BY <3>2, <4>1, <5>1, <5>2, WorkerCases
      <4>3. ReadNotFound
        BY <3>2, <4>1, <4>2, WorkerCases DEF Read
      <4>4. QED
        BY <3>1, <4>3 DEF ReadNotFound, Untouched
    <3>3. CASE Deliver \/ Resync
      BY <3>1, <3>3 DEF Deliver, Resync, ReceiveEvent, Untouched
    <3>4. CASE Crash
      BY <3>4 DEF Crash, Calm, TypeOK, DataOK
    <3>5. ASSUME NEW p \in Plugins, DeletionEnds(p) \/ IndexRelease(p) \/ SweepNamespace(p)
          PROVE  Untouched'
      <4>1. ~DeletionEnds(p) /\ ~SweepNamespace(p)
        BY <3>1 DEF Untouched, DeletionEnds, SweepNamespace, None, Installed
      <4>2. QED
        BY <3>1, <3>5, <4>1 DEF IndexRelease, Untouched
    <3>6. CASE \/ \E spec \in Specs : Create(spec) \/ Edit(spec)
               \/ Delete \/ DeleteNamespace
      <4>1. edits' = edits + 1
        BY <3>6 DEF Create, Edit, Delete, DeleteNamespace, UserStep
      <4>2. QED
        BY <2>1, <4>1
    <3>7. CASE UNCHANGED vars
      BY <3>1, <3>7 DEF vars, Untouched
    <3>8. QED
      BY <3>2, <3>3, <3>4, <3>5, <3>6, <3>7 DEF Next, Environment
  <2>2. CASE edits # 0
    <3>1. edits \in Nat \ {0}
      BY <2>2 DEF TypeOK, DataOK
    <3>2. edits' \in {edits, edits + 1}
      <4>1. CASE Worker
        <5>1. CASE ReadNotFound \/ Read
          BY <5>1 DEF ReadNotFound, Read
        <5>2. QED
          BY <4>1, <5>1, RedeployFrame, PatchFrame, DeletesFrame, WorkerCases
      <4>2. CASE \/ Deliver \/ Resync \/ Crash \/ UNCHANGED vars
                 \/ \E p \in Plugins :
                       DeletionEnds(p) \/ IndexRelease(p) \/ SweepNamespace(p)
        BY <4>2 DEF Deliver, Resync, Crash, DeletionEnds, IndexRelease,
           SweepNamespace, vars
      <4>3. CASE \/ \E spec \in Specs : Create(spec) \/ Edit(spec)
                 \/ Delete \/ DeleteNamespace
        BY <4>3 DEF Create, Edit, Delete, DeleteNamespace, UserStep
      <4>4. QED
        BY <4>1, <4>2, <4>3 DEF Next, Environment
    <3>3. QED
      BY <3>1, <3>2
  <2>3. QED
    BY <2>1, <2>2
<1>2. Live' => /\ ~terminating'
               /\ running' = None /\ detached' = None
               /\ pc' \in {"idle", "deploy", "prune", "patch", "patchStatus"}
  <2> SUFFICES ASSUME Live'
               PROVE  /\ ~terminating'
                      /\ running' = None /\ detached' = None
                      /\ pc' \in {"idle", "deploy", "prune", "patch", "patchStatus"}
    OBVIOUS
  <2>1. CASE Worker
    <3>1. CASE ReadNotFound
      BY <3>1 DEF ReadNotFound, Live, OnlyRedeployed
    <3>2. CASE Read
      <4>1. cache = server /\ UNCHANGED <<server, terminating, running, detached>>
        BY <3>2 DEF Read, CanRead, Calm, CopyIsVersionRead, CacheFollowsServer
      <4>2. QED
        BY <3>2, <4>1 DEF Read, Live, OnlyRedeployed
    <3>3. CASE Redeploy
      BY <3>3, RedeployFrame DEF Live, OnlyRedeployed
    <3>4. CASE PatchMetadata \/ PatchStatus
      BY <3>4, PatchFrame, LiveSteps DEF Live, OnlyRedeployed, Untouched, Quiet
    <3>5. CASE Deletes
      BY <3>5, DeletesFrame DEF Live, OnlyRedeployed
    <3>6. QED
      BY <2>1, <3>1, <3>2, <3>3, <3>4, <3>5, WorkerCases
  <2>2. CASE Deliver \/ Resync \/ \E p \in Plugins : IndexRelease(p)
    BY <2>2 DEF Deliver, ReceiveEvent, Resync, IndexRelease, Live, OnlyRedeployed
  <2>3. CASE Crash
    BY <2>3 DEF Crash, Calm, TypeOK, DataOK
  <2>4. ASSUME NEW p \in Plugins, DeletionEnds(p) \/ SweepNamespace(p) PROVE FALSE
    <3>1. Live
      BY <2>4 DEF DeletionEnds, SweepNamespace, Live
    <3>2. QED
      BY <2>4, <3>1 DEF OnlyRedeployed, DeletionEnds, SweepNamespace, None
  <2>5. ASSUME NEW op \in {"create", "edit", "delete"}, UserStep(op),
               ~terminating, Untouched \/ Live
        PROVE  /\ ~terminating'
               /\ running' = None /\ detached' = None
               /\ pc' \in {"idle", "deploy", "prune", "patch", "patchStatus"}
    <3>1. terminating' = (terminating \/ op = "namespace")
          /\ UNCHANGED <<running, detached, pc>>
      BY <2>5 DEF UserStep
    <3>2. QED
      BY <2>5, <3>1 DEF OnlyRedeployed, Untouched
  <2>6. CASE \E spec \in Specs : Create(spec)
    <3>1. UserStep("create") /\ ~terminating /\ edits = 0
      BY <2>6, ConstantsAssumption DEF Create, UserStep, Calm
    <3>2. QED
      BY <2>5, <3>1 DEF OnlyRedeployed
  <2>7. CASE \/ \E spec \in Specs : Edit(spec)
             \/ Delete
    <3>1. Live
      BY <2>7, LiveSteps DEF Edit, Delete, Untouched
    <3>2. ~terminating
      BY <3>1 DEF OnlyRedeployed
    <3>3. QED
      BY <2>5, <2>7, <3>1, <3>2 DEF Edit, Delete
  <2>8. CASE DeleteNamespace
    <3>1. \/ server' = NoObject
          \/ server' = [server EXCEPT !.deleting = TRUE] /\ server \in Object
      BY <2>8 DEF DeleteNamespace, Deletion, Store, Write, TypeOK, DataOK
    <3>2. QED
      BY <3>1 DEF Live, Object
  <2>9. CASE UNCHANGED vars
    BY <2>9 DEF vars, Live, OnlyRedeployed
  <2>10. QED
    BY <2>1, <2>2, <2>3, <2>4, <2>6, <2>7, <2>8, <2>9 DEF Next, Environment
<1>3. QED
  BY <1>1, <1>2 DEF OnlyRedeployed

-----------------------------------------------------------------------------
(* The conditions *)

\* isConditionTrue of the controller, on a list
TrueIn(conds, p) ==
    \E k \in DOMAIN conds :
        /\ conds[k] = [plugin |-> p, ok |-> TRUE]
        /\ \A m \in 1 .. k - 1 : conds[m].plugin # p

NamedIn(conds, p) == \E k \in DOMAIN conds : conds[k].plugin = p

LEMMA AppendCondition ==
    ASSUME NEW conds \in Seq(Condition), NEW p \in Plugins,
           NEW q \in Plugins, NEW ok \in BOOLEAN,
           NEW new, new = Append(conds, [plugin |-> q, ok |-> ok])
    PROVE  /\ NamedIn(new, p) <=> NamedIn(conds, p) \/ p = q
           /\ TrueIn(conds, p) => TrueIn(new, p)
           /\ ok /\ ~NamedIn(conds, q) => TrueIn(new, q)
<1> DEFINE c == [plugin |-> q, ok |-> ok]
<1>1. c \in Condition /\ c.plugin = q
  BY DEF Condition
<1>2. /\ DOMAIN new = DOMAIN conds \cup {Len(conds) + 1}
      /\ \A k \in DOMAIN conds : new[k] = conds[k]
      /\ new[Len(conds) + 1] = c
      /\ DOMAIN conds = 1 .. Len(conds) /\ Len(conds) \in Nat
  BY <1>1
<1> HIDE DEF c
<1>3. NamedIn(new, p) <=> NamedIn(conds, p) \/ p = q
  BY <1>1, <1>2 DEF NamedIn
<1>4. ASSUME TrueIn(conds, p) PROVE TrueIn(new, p)
  <2>1. PICK k \in DOMAIN conds :
            /\ conds[k] = [plugin |-> p, ok |-> TRUE]
            /\ \A m \in 1 .. k - 1 : conds[m].plugin # p
    BY <1>4 DEF TrueIn
  <2>2. \A m \in 1 .. k - 1 : m \in DOMAIN conds
    BY <1>2
  <2>3. QED
    BY <1>2, <2>1, <2>2 DEF TrueIn
<1>5. ASSUME ok, ~NamedIn(conds, q) PROVE TrueIn(new, q)
  <2>1. c = [plugin |-> q, ok |-> TRUE]
    BY <1>5 DEF c
  <2>2. \A m \in 1 .. Len(conds) : new[m].plugin # q
    BY <1>2, <1>5 DEF NamedIn
  <2>3. \A m \in 1 .. (Len(conds) + 1) - 1 : new[m].plugin # q
    BY <1>2, <2>2
  <2>4. QED
    BY <1>2, <2>1, <2>3 DEF TrueIn
<1>6. QED
  BY <1>3, <1>4, <1>5

\* One plugin, whatever becomes of it
Upgrades ==
    \/ SkipPlugin \/ PrepareFails
    \/ UpgradeSucceeds \/ UpgradeFails \/ UpgradeRefused

PluginDone(ok) ==
    /\ Deploying
    /\ conditions' = Append(conditions, [plugin |-> Plugin.name, ok |-> ok])
    /\ work' = HashUpdated
    /\ i' = i + 1
    /\ troubled' = IF ok THEN troubled ELSE troubled \cup {Plugin.name}
    /\ UNCHANGED <<pc, server, seen>>
    /\ \A p \in Plugins : p # Plugin.name => release'[p] = release[p]
    /\ ok => \/ Unchanged /\ UNCHANGED release
             \/ /\ release'[Plugin.name] \in Deployed
                /\ release'[Plugin.name].values = Plugin.values

LEMMA UpgradeFrame ==
    ASSUME TypeOK, Upgrades
    PROVE  \E ok \in BOOLEAN : PluginDone(ok)
<1> USE DEF stored, objectVars
<1>1. ASSUME NEW ok \in BOOLEAN, SetCondition(ok), Deploying,
             \A p \in Plugins : p # Plugin.name => release'[p] = release[p],
             ok => \/ Unchanged /\ UNCHANGED release
                   \/ release'[Plugin.name] =
                         [values |-> Plugin.values, version |-> Plugin.version]
      PROVE  PluginDone(ok)
  <2>1. Plugin.values \in Values /\ Plugin.version \in Versions
    BY <1>1, PluginType DEF TypeOK, Deploying
  <2>2. QED
    BY <1>1, <2>1 DEF SetCondition, Deployed, PluginDone
<1>2. Plugin.name \in Plugins
  BY PluginType DEF TypeOK, Deploying, Upgrades, SkipPlugin, PrepareFails,
     UpgradeSucceeds, UpgradeFails, UpgradeRefused
<1>3. release \in [Plugins -> Deployed \cup {NoRelease, Broken}]
  BY DEF TypeOK, DataOK
<1>4. CASE SkipPlugin
  BY <1>1, <1>4 DEF SkipPlugin
<1>5. CASE PrepareFails
  BY <1>1, <1>5 DEF PrepareFails
<1>6. CASE UpgradeSucceeds
  BY <1>1, <1>2, <1>3, <1>6 DEF UpgradeSucceeds
<1>7. CASE UpgradeFails
  BY <1>1, <1>2, <1>3, <1>7 DEF UpgradeFails
<1>8. CASE UpgradeRefused
  BY <1>1, <1>2, <1>3, <1>8 DEF UpgradeRefused
<1>9. QED
  BY <1>4, <1>5, <1>6, <1>7, <1>8 DEF Upgrades

-----------------------------------------------------------------------------
(* The two records, and the copies of them *)

\* Nobody else writes them, so the patches leave what the worker wants.
RecordsAreSeen ==
    /\ pc \in {"deploy", "prune", "patch"} =>
          server.conds = seen.conds /\ server.hash = seen.hash
    /\ pc = "patchStatus" =>
          server.conds = seen.conds /\ server.hash = work.hash
    /\ pc \in {"deploy", "prune"} => work.conds = seen.conds

LEMMA RecordsStep ==
    ASSUME Calm, TypeOK, CopyIsVersionRead, OnlyRedeployed,
           Live => RecordsAreSeen, [Next]_vars, Live'
    PROVE  RecordsAreSeen'
<1>1. CASE Untouched /\ UNCHANGED <<pc, seen, work>>
  BY <1>1 DEF Untouched, RecordsAreSeen
<1>2. CASE Live /\ Quiet
  BY <1>2 DEF Quiet, Live, RecordsAreSeen
<1>3. CASE Live /\ Read
  <2>1. cache = server /\ server' = server
    BY <1>3 DEF Read, CanRead, Calm, CopyIsVersionRead, CacheFollowsServer,
       objectVars
  <2>2. QED
    BY <1>3, <2>1 DEF Read, RecordsAreSeen
<1>4. CASE Live /\ Redeploy
  <2>1. pc \in {"deploy", "prune"} /\ UNCHANGED <<server, seen>>
        /\ pc' \in {"deploy", "prune", "patch"}
    BY <1>4, RedeployFrame
  <2>2. CASE pc' = "patch"
    BY <1>4, <2>1, <2>2 DEF RecordsAreSeen
  <2>3. CASE pc' # "patch"
    <3>1. work'.conds = work.conds
      <4>1. work \in Object
        BY <2>1 DEF TypeOK, DataOK
      <4>2. CASE Upgrades
        BY <4>1, <4>2, UpgradeFrame DEF PluginDone, HashUpdated, Object
      <4>3. CASE StartPrune \/ PruneKeeps
        BY <4>3 DEF StartPrune, PruneKeeps
      <4>4. CASE PruneDeletes
        BY <4>1, <4>4 DEF PruneDeletes, Object
      <4>5. CASE FinishRedeploy
        BY <2>3, <4>5 DEF FinishRedeploy
      <4>6. QED
        BY <1>4, <4>2, <4>3, <4>4, <4>5 DEF Redeploy, Upgrades
    <3>2. QED
      BY <1>4, <2>1, <2>3, <3>1 DEF RecordsAreSeen
  <2>4. QED
    BY <2>2, <2>3
<1>5. CASE Live /\ PatchMetadata
  <2>1. /\ server \in Object /\ seen \in Object /\ work \in Object
        /\ server' = MetadataPatched(server)
        /\ pc = "patch" /\ pc' = "patchStatus" /\ UNCHANGED <<seen, work>>
    BY <1>5, PatchFrame DEF Live, TypeOK, DataOK
  <2>2. server.conds = seen.conds /\ server.hash = seen.hash
    BY <1>5, <2>1 DEF RecordsAreSeen
  <2>3. server'.conds = server.conds
    BY <2>1 DEF MetadataPatched, Object
  <2>4. server'.hash = [p \in Plugins |-> IF work.hash[p] # seen.hash[p]
                                          THEN work.hash[p] ELSE server.hash[p]]
    BY <2>1 DEF MetadataPatched, Object
  <2>5. work.hash \in [Plugins -> Values \cup {NoHash}]
    BY <2>1 DEF Object
  <2>6. server'.hash = work.hash
    BY <2>2, <2>4, <2>5
  <2>7. QED
    BY <2>1, <2>2, <2>3, <2>6 DEF RecordsAreSeen
<1>6. CASE Live /\ PatchStatus
  BY <1>6, PatchFrame DEF RecordsAreSeen
<1>7. QED
  BY <1>1, <1>2, <1>3, <1>4, <1>5, <1>6, LiveSteps

\* The conditions that a redeployment builds: one for each entry of the list,
\* and none that says a plugin is well after a call for it has failed.
ConditionsFollow ==
    /\ pc = "idle" => conditions = <<>>
    /\ pc = "deploy" => Len(conditions) = i - 1 /\ i - 1 <= Len(work.plugins)
    /\ pc = "prune" => Len(conditions) = Len(work.plugins)
    /\ pc \in {"deploy", "prune"} =>
          \A k \in DOMAIN conditions : conditions[k].plugin = work.plugins[k].name
    /\ \A p \in Plugins \ troubled :
          NamedIn(conditions, p) => TrueIn(conditions, p)
    /\ pc \in {"patch", "patchStatus"} => work.conds = conditions

\* The step from one plugin to the next
LEMMA UpgradeConditions ==
    ASSUME TypeOK, ConditionsFollow, Upgrades
    PROVE  ConditionsFollow'
<1>1. PICK ok \in BOOLEAN : PluginDone(ok)
  BY UpgradeFrame
<1> DEFINE c == [plugin |-> Plugin.name, ok |-> ok]
<1>2. /\ pc = "deploy" /\ pc' = "deploy"
      /\ work \in Object /\ conditions \in Seq(Condition) /\ i \in Nat \ {0}
      /\ Plugin.name \in Plugins
      /\ conditions' = Append(conditions, c)
  BY <1>1, PluginType DEF PluginDone, Deploying, TypeOK, DataOK
<1>3. work'.plugins = work.plugins
  BY <1>1, <1>2 DEF PluginDone, HashUpdated, Object
<1>4. i <= Len(work.plugins) /\ work.plugins \in Seq(HelmRelease)
  BY <1>1, <1>2, ConstantsAssumption DEF PluginDone, Deploying, Object
<1>5. /\ c \in Condition
      /\ Len(conditions') = Len(conditions) + 1
      /\ \A k \in DOMAIN conditions' :
            \/ k \in DOMAIN conditions /\ conditions'[k] = conditions[k]
            \/ k = Len(conditions) + 1 /\ conditions'[k] = c
  BY <1>2 DEF Condition
<1>6. Len(conditions') = i' - 1 /\ i' - 1 <= Len(work'.plugins)
  BY <1>1, <1>2, <1>3, <1>4, <1>5 DEF PluginDone, ConditionsFollow
<1>7. \A k \in DOMAIN conditions' : conditions'[k].plugin = work'.plugins[k].name
  <2>1. Len(conditions) + 1 = i /\ c.plugin = work.plugins[i].name
    BY <1>2 DEF ConditionsFollow, Plugin
  <2>2. \A k \in DOMAIN conditions : conditions[k].plugin = work.plugins[k].name
    BY <1>2 DEF ConditionsFollow
  <2> HIDE DEF c
  <2>3. QED
    BY <1>3, <1>5, <2>1, <2>2
<1>8. ASSUME NEW p \in Plugins \ troubled', NamedIn(conditions', p)
      PROVE  TrueIn(conditions', p)
  <2>1. p \notin troubled /\ (p = Plugin.name => ok)
    BY <1>1, <1>8 DEF PluginDone
  <2>2. /\ NamedIn(conditions', p) <=> NamedIn(conditions, p) \/ p = Plugin.name
        /\ TrueIn(conditions, p) => TrueIn(conditions', p)
        /\ ok /\ ~NamedIn(conditions, Plugin.name) =>
              TrueIn(conditions', Plugin.name)
    <3>1. p \in Plugins
      BY <1>8
    <3>2. \A new : new = Append(conditions, [plugin |-> Plugin.name, ok |-> ok]) =>
              /\ NamedIn(new, p) <=> NamedIn(conditions, p) \/ p = Plugin.name
              /\ TrueIn(conditions, p) => TrueIn(new, p)
              /\ ok /\ ~NamedIn(conditions, Plugin.name) => TrueIn(new, Plugin.name)
      BY <1>2, <3>1, AppendCondition
    <3>3. QED
      BY <1>2, <3>2
  <2>3. NamedIn(conditions, p) => TrueIn(conditions, p)
    BY <2>1 DEF ConditionsFollow
  <2>4. QED
    BY <1>8, <2>1, <2>2, <2>3
<1>9. QED
  BY <1>2, <1>6, <1>7, <1>8 DEF ConditionsFollow

LEMMA ConditionsStep ==
    ASSUME Calm, TypeOK, CopyIsVersionRead, LookedUpIsHandled, OnlyRedeployed,
           Live => ConditionsFollow, [Next]_vars, Live'
    PROVE  ConditionsFollow'
<1>1. CASE Untouched /\ UNCHANGED <<pc, seen, work, conditions>>
  BY <1>1 DEF Untouched, ConditionsFollow, NamedIn
<1>2. CASE Live /\ Quiet
  BY <1>2 DEF Quiet, ConditionsFollow
<1>3. CASE Live /\ Read
  <2>1. /\ conditions' = <<>> /\ i' = 1 /\ work'.plugins \in Seq(HelmRelease)
        /\ pc' \in {"deploy", "namespace"}
    BY <1>3, ConstantsAssumption
    DEF Read, CanRead, ConditionsFollow, LookedUpIsHandled, TypeOK, DataOK, Object
  <2>2. QED
    BY <2>1 DEF ConditionsFollow, NamedIn
<1>4. CASE Live /\ Upgrades
  BY <1>4, UpgradeConditions
<1>5. CASE Live /\ StartPrune
  <2>1. /\ i \in Nat \ {0} /\ work.plugins \in Seq(HelmRelease)
        /\ i \notin DOMAIN work.plugins
    BY <1>5, ConstantsAssumption DEF StartPrune, TypeOK, DataOK, Object
  <2>2. QED
    BY <1>5, <2>1 DEF StartPrune, helm, ConditionsFollow
<1>6. CASE Live /\ (PruneKeeps \/ PruneDeletes \/ FinishRedeploy)
  <2>1. /\ conditions' = conditions /\ troubled \subseteq troubled'
        /\ pc = "prune" /\ pc' \in {"prune", "patch"}
    BY <1>6 DEF PruneKeeps, PruneDeletes, FinishRedeploy, helm
  <2>2. work'.plugins = work.plugins
    BY <1>6, RedeployFrame DEF Redeploy
  <2>3. pc' = "patch" => work'.conds = conditions'
    BY <1>6 DEF PruneKeeps, PruneDeletes, FinishRedeploy, TypeOK, DataOK, Object
  <2>4. QED
    BY <1>6, <2>1, <2>2, <2>3 DEF ConditionsFollow
<1>7. CASE Live /\ PatchMetadata
  BY <1>7, PatchFrame DEF ConditionsFollow
<1>8. CASE Live /\ PatchStatus
  BY <1>8, PatchFrame DEF ConditionsFollow, NamedIn
<1>9. QED
  BY <1>1, <1>2, <1>3, <1>4, <1>5, <1>6, <1>7, <1>8, LiveSteps
  DEF Redeploy, Upgrades

-----------------------------------------------------------------------------
(* No release escapes *)

\* Where the controller finds an installed release again
Tracked(p) ==
    /\ pc = "idle" => TrueIn(server.conds, p)
    /\ pc = "deploy" => TrueIn(seen.conds, p) \/ NamedIn(conditions, p)
    /\ pc = "prune" =>
          \/ NamedIn(conditions, p)
          \/ \E k \in DOMAIN work.conds :
                k >= i /\ work.conds[k] = [plugin |-> p, ok |-> TRUE]
    /\ pc \in {"patch", "patchStatus"} => NamedIn(conditions, p)

AllTracked == \A p \in Plugins \ troubled : Installed(p) => Tracked(p)

\* The removal loop reaches each True condition of a plugin that is not listed.
LEMMA PruneTracks ==
    ASSUME TypeOK, ConditionsFollow, AllTracked, NEW p \in Plugins \ troubled',
           Installed(p)', PruneKeeps \/ PruneDeletes
    PROVE  Tracked(p)'
<1>1. /\ pc = "prune" /\ pc' = "prune" /\ i' = i + 1 /\ conditions' = conditions
      /\ i \in DOMAIN work.conds /\ work \in Object /\ i \in Nat
      /\ troubled \subseteq troubled'
  BY DEF PruneKeeps, PruneDeletes, TypeOK, DataOK, helm
<1>2. work'.conds = work.conds /\ work.conds \in Seq(Condition)
  BY <1>1 DEF PruneKeeps, PruneDeletes, Object
<1>3. Installed(p)
  BY <1>1 DEF PruneKeeps, PruneDeletes, helm, Installed, TypeOK, DataOK
<1>4. Tracked(p)
  BY <1>1, <1>3 DEF AllTracked
<1>5. ASSUME work.conds[i] = [plugin |-> p, ok |-> TRUE]
      PROVE  NamedIn(conditions, p)
  <2>1. CASE p \in SpecNames(work)
    <3>1. PICK k \in DOMAIN work.plugins : work.plugins[k].name = p
      BY <2>1 DEF SpecNames
    <3>2. k \in DOMAIN conditions
      <4>1. work.plugins \in Seq(HelmRelease) /\ conditions \in Seq(Condition)
        BY <1>1, ConstantsAssumption DEF Object, TypeOK, DataOK
      <4>2. QED
        BY <1>1, <3>1, <4>1 DEF ConditionsFollow
    <3>3. QED
      BY <1>1, <3>1, <3>2 DEF ConditionsFollow, NamedIn
  <2>2. CASE p \notin SpecNames(work)
    <3>1. Removed(work.conds[i])
      BY <1>5, <2>2 DEF Removed
    <3>2. PruneDeletes
      BY <3>1 DEF PruneKeeps
    <3>3. release' = [release EXCEPT ![p] = NoRelease] \/ p \in troubled'
      BY <1>5, <3>2 DEF PruneDeletes
    <3>4. QED
      BY <3>3 DEF Installed, TypeOK, DataOK
  <2>3. QED
    BY <2>1, <2>2
<1>6. QED
  <2>1. CASE NamedIn(conditions, p)
    BY <1>1, <2>1 DEF Tracked
  <2>2. CASE ~NamedIn(conditions, p)
    <3>1. PICK k \in DOMAIN work.conds :
              k >= i /\ work.conds[k] = [plugin |-> p, ok |-> TRUE]
      BY <1>1, <1>4, <2>2 DEF Tracked
    <3>2. k # i /\ k \in Nat
      BY <1>2, <1>5, <2>2, <3>1
    <3>3. k >= i'
      BY <1>1, <3>1, <3>2
    <3>4. QED
      BY <1>1, <1>2, <3>1, <3>3 DEF Tracked
  <2>3. QED
    BY <2>1, <2>2

LEMMA TrackedStep ==
    ASSUME Calm, TypeOK, CopyIsVersionRead, LookedUpIsHandled, OnlyRedeployed,
           Live => RecordsAreSeen /\ ConditionsFollow /\ AllTracked,
           [Next]_vars, Live'
    PROVE  AllTracked'
<1> SUFFICES ASSUME NEW p \in Plugins \ troubled', Installed(p)'
             PROVE  Tracked(p)'
  BY DEF AllTracked
<1>1. CASE Untouched /\ UNCHANGED release
  BY <1>1 DEF Untouched, Installed
<1>2. CASE Live /\ Quiet
  <2>1. /\ server'.conds = server.conds /\ p \notin troubled
        /\ UNCHANGED <<pc, seen, work, i, conditions, release>>
    BY <1>2 DEF Quiet, Live
  <2>2. Tracked(p)
    BY <1>2, <2>1 DEF AllTracked, Installed
  <2>3. QED
    BY <2>1, <2>2 DEF Tracked
<1>3. CASE Live /\ Read
  <2>1. /\ pc = "idle" /\ seen' = server /\ pc' \in {"deploy", "namespace"}
        /\ UNCHANGED <<release, troubled>>
    BY <1>3 DEF Read, CanRead, Calm, CopyIsVersionRead, CacheFollowsServer
  <2>2. Tracked(p)
    BY <1>3, <2>1 DEF AllTracked, Installed
  <2>3. QED
    BY <2>1, <2>2 DEF Tracked
<1>4. CASE Live /\ Upgrades
  <2>1. PICK ok \in BOOLEAN : PluginDone(ok)
    BY <1>4, UpgradeFrame
  <2>2. /\ pc = "deploy" /\ pc' = "deploy" /\ seen' = seen /\ p \notin troubled
        /\ conditions \in Seq(Condition) /\ Plugin.name \in Plugins
    BY <2>1, PluginType DEF PluginDone, Deploying, TypeOK, DataOK
  <2>3. NamedIn(conditions', p) <=> NamedIn(conditions, p) \/ p = Plugin.name
    <3>1. \A new : new = Append(conditions, [plugin |-> Plugin.name, ok |-> ok]) =>
              (NamedIn(new, p) <=> NamedIn(conditions, p) \/ p = Plugin.name)
      BY <2>2, AppendCondition
    <3>2. QED
      BY <2>1, <3>1 DEF PluginDone
  <2>4. CASE p = Plugin.name
    BY <2>2, <2>3, <2>4 DEF Tracked
  <2>5. CASE p # Plugin.name
    <3>1. Installed(p)
      BY <2>1, <2>5 DEF PluginDone, Installed
    <3>2. Tracked(p)
      BY <1>4, <2>2, <3>1 DEF AllTracked
    <3>3. QED
      BY <2>2, <2>3, <3>2 DEF Tracked
  <2>6. QED
    BY <2>4, <2>5
<1>5. CASE Live /\ StartPrune
  <2>1. /\ pc = "deploy" /\ pc' = "prune" /\ i' = 1
        /\ UNCHANGED <<release, troubled, work, conditions>>
    BY <1>5 DEF StartPrune, helm
  <2>2. TrueIn(work.conds, p) \/ NamedIn(conditions, p)
    BY <1>5, <2>1 DEF AllTracked, Tracked, Installed, RecordsAreSeen
  <2>3. \A k \in DOMAIN work.conds : k >= 1
    BY <2>1 DEF TypeOK, DataOK, Object
  <2>4. QED
    BY <2>1, <2>2, <2>3 DEF Tracked, TrueIn
<1>6. CASE Live /\ (PruneKeeps \/ PruneDeletes)
  BY <1>6, PruneTracks
<1>7. CASE Live /\ FinishRedeploy
  <2>1. /\ pc = "prune" /\ pc' = "patch" /\ i \notin DOMAIN work.conds
        /\ UNCHANGED <<release, troubled, conditions>>
    BY <1>7 DEF FinishRedeploy, helm
  <2>2. /\ work.conds \in Seq(Condition) /\ i \in Nat \ {0}
    BY <2>1 DEF TypeOK, DataOK, Object
  <2>3. \A k \in DOMAIN work.conds : ~(k >= i)
    BY <2>1, <2>2
  <2>4. Tracked(p)
    BY <1>7, <2>1 DEF AllTracked, Installed
  <2>5. QED
    BY <2>1, <2>3, <2>4 DEF Tracked
<1>8. CASE Live /\ PatchMetadata
  <2>1. /\ pc = "patch" /\ pc' = "patchStatus"
        /\ UNCHANGED <<release, troubled, conditions>>
    BY <1>8, PatchFrame
  <2>2. QED
    BY <1>8, <2>1 DEF AllTracked, Tracked, Installed
<1>9. CASE Live /\ PatchStatus
  <2>1. /\ pc = "patchStatus" /\ pc' = "idle" /\ UNCHANGED <<release, troubled>>
        /\ server' = StatusPatched(server) /\ server \in Object
    BY <1>9, PatchFrame DEF Live, TypeOK, DataOK
  <2>2. server'.conds = conditions
    BY <1>9, <2>1 DEF StatusPatched, Object, RecordsAreSeen, ConditionsFollow
  <2>3. TrueIn(conditions, p)
    BY <1>9, <2>1 DEF AllTracked, Tracked, Installed, ConditionsFollow
  <2>4. QED
    BY <2>1, <2>2, <2>3 DEF Tracked
<1>10. QED
  BY <1>1, <1>2, <1>3, <1>4, <1>5, <1>6, <1>7, <1>8, <1>9, LiveSteps
  DEF Redeploy, Upgrades

TrackedInv ==
    /\ OnlyRedeployed
    /\ Live => RecordsAreSeen /\ ConditionsFollow /\ AllTracked

LEMMA TrackedInvariant ==
    ASSUME Calm
    PROVE  Spec => []TrackedInv
<1>1. Init => TrackedInv
  BY DEF Init, CachedObjectInit, TrackedInv, OnlyRedeployed, Untouched, Live
<1>2. SafetyInv /\ TrackedInv /\ [Next]_vars => TrackedInv'
  <2> SUFFICES ASSUME SafetyInv, TrackedInv, [Next]_vars PROVE TrackedInv'
    OBVIOUS
  <2>1. OnlyRedeployed'
    BY OnlyRedeployedStep DEF SafetyInv, TrackedInv
  <2>2. ASSUME Live' PROVE (RecordsAreSeen /\ ConditionsFollow /\ AllTracked)'
    BY <2>2, RecordsStep, ConditionsStep, TrackedStep DEF SafetyInv, TrackedInv
  <2>3. QED
    BY <2>1, <2>2 DEF TrackedInv
<1>3. QED
  BY <1>1, <1>2, SafetyInvariant, PTL DEF Spec

\* Between reconciliations, every installed release is listed or has a True
\* condition for the removal loop to find, unless its preparation, upgrade or
\* deletion failed at some time: whatever lists users submit, in whatever
\* order, one chart twice included.
THEOREM ReleasesAreTracked ==
    ASSUME Calm
    PROVE  Spec => []ReleasesTracked
<1>1. TrackedInv => ReleasesTracked
  BY DEF TrackedInv, Live, AllTracked, Tracked, TrueIn, ReleasesTracked,
     IsConditionTrue
<1>2. QED
  BY <1>1, TrackedInvariant, PTL

-----------------------------------------------------------------------------
(* What is skipped is deployed *)

\* No list names a chart twice.  (With two different values for one chart, the
\* condition of the first entry and the hash of the second say nothing of what
\* is deployed when the second upgrade fails.)
Distinct ==
    \A spec \in Specs : \A j, k \in DOMAIN spec :
        spec[j].name = spec[k].name => j = k

Runs(p, values) == release[p] \in Deployed /\ release[p].values = values

Honest(conds, hash, p) ==
    TrueIn(conds, p) /\ hash[p] # NoHash => Runs(p, hash[p])

\* The two records of a plugin are right together: those that were read until
\* the worker is there, and then those it has made.
HonestRecords(p) ==
    /\ pc = "idle" => Honest(server.conds, server.hash, p)
    /\ pc = "deploy" /\ ~NamedIn(conditions, p) =>
          work.hash[p] = seen.hash[p] /\ Honest(seen.conds, seen.hash, p)
    /\ pc # "idle" =>
          \A k \in DOMAIN conditions :
              conditions[k] = [plugin |-> p, ok |-> TRUE] => Runs(p, work.hash[p])

AllHonest == \A p \in Plugins : HonestRecords(p)

\* Without repetitions, the plugin that is next has no condition yet.
LEMMA NextIsNew ==
    ASSUME Distinct, TypeOK, ConditionsFollow, Deploying
    PROVE  ~NamedIn(conditions, Plugin.name)
<1>1. /\ work.plugins \in Specs /\ work.plugins \in Seq(HelmRelease)
      /\ conditions \in Seq(Condition) /\ i \in Nat \ {0}
      /\ i \in DOMAIN work.plugins
  BY ConstantsAssumption DEF TypeOK, DataOK, Deploying, Object
<1>2. Len(conditions) = i - 1 /\ i - 1 <= Len(work.plugins)
  BY DEF ConditionsFollow, Deploying
<1>3. \A k \in DOMAIN conditions :
          k # i /\ k \in DOMAIN work.plugins /\ conditions[k].plugin = work.plugins[k].name
  BY <1>1, <1>2 DEF ConditionsFollow, Deploying
<1>4. QED
  BY <1>1, <1>3 DEF Distinct, NamedIn, Plugin

LEMMA UpgradeHonest ==
    ASSUME Distinct, TypeOK, RecordsAreSeen, ConditionsFollow, AllHonest,
           NEW p \in Plugins, Upgrades
    PROVE  HonestRecords(p)'
<1>1. PICK ok \in BOOLEAN : PluginDone(ok)
  BY UpgradeFrame
<1> DEFINE c == [plugin |-> Plugin.name, ok |-> ok]
<1>2. /\ pc = "deploy" /\ pc' = "deploy" /\ seen' = seen
      /\ work \in Object /\ conditions \in Seq(Condition)
      /\ Plugin.name \in Plugins /\ Plugin.values \in Values
      /\ conditions' = Append(conditions, c)
  BY <1>1, PluginType DEF PluginDone, Deploying, TypeOK, DataOK
<1>3. /\ \A q \in Plugins : q # Plugin.name => work'.hash[q] = work.hash[q]
      /\ work'.hash[Plugin.name] = Plugin.values
  BY <1>1, <1>2 DEF PluginDone, HashUpdated, Object
<1>4. ~NamedIn(conditions, Plugin.name)
  BY <1>1, NextIsNew DEF PluginDone
<1>5. /\ NamedIn(conditions', p) <=> NamedIn(conditions, p) \/ p = Plugin.name
      /\ \A k \in DOMAIN conditions' :
            \/ k \in DOMAIN conditions /\ conditions'[k] = conditions[k]
            \/ conditions'[k] = c
  <2>1. \A new : new = Append(conditions, [plugin |-> Plugin.name, ok |-> ok]) =>
            (NamedIn(new, p) <=> NamedIn(conditions, p) \/ p = Plugin.name)
    BY <1>2, AppendCondition
  <2>2. c \in Condition
    BY <1>2 DEF Condition
  <2>3. \A k \in DOMAIN conditions' :
            \/ k \in DOMAIN conditions /\ conditions'[k] = conditions[k]
            \/ k = Len(conditions) + 1 /\ conditions'[k] = c
    BY <1>2, <2>2
  <2>4. NamedIn(conditions', p) <=> NamedIn(conditions, p) \/ p = Plugin.name
    BY <1>2, <2>1
  <2>5. QED
    BY <2>3, <2>4
<1>6. HonestRecords(p)
  BY DEF AllHonest
<1>7. CASE p # Plugin.name
  <2>1. release'[p] = release[p] /\ work'.hash[p] = work.hash[p]
    BY <1>1, <1>3, <1>7 DEF PluginDone
  <2>2. \A k \in DOMAIN conditions' : conditions'[k] = [plugin |-> p, ok |-> TRUE] =>
            k \in DOMAIN conditions /\ conditions[k] = [plugin |-> p, ok |-> TRUE]
    <3>1. c # [plugin |-> p, ok |-> TRUE]
      BY <1>7
    <3> HIDE DEF c
    <3>2. QED
      BY <1>5, <3>1
  <2>3. QED
    BY <1>2, <1>5, <1>6, <1>7, <2>1, <2>2 DEF HonestRecords, Honest, Runs
<1>8. CASE p = Plugin.name
  <2>1. ok => Runs(p, work.hash[p])'
    <3>1. CASE Unchanged /\ UNCHANGED release
      <4>1. TrueIn(seen.conds, p) /\ work.hash[p] = Plugin.values
        BY <1>2, <1>8, <3>1
        DEF Unchanged, IsConditionTrue, TrueIn, RecordsAreSeen
      <4>2. work.hash[p] # NoHash
        BY <1>2, <4>1, ConstantsAssumption
      <4>3. Runs(p, Plugin.values)
        BY <1>2, <1>4, <1>6, <1>8, <4>1, <4>2 DEF HonestRecords, Honest
      <4>4. QED
        BY <1>3, <1>8, <3>1, <4>3 DEF Runs
    <3>2. CASE ~(Unchanged /\ UNCHANGED release)
      BY <1>1, <1>3, <1>8, <3>2 DEF PluginDone, Runs
    <3>3. QED
      BY <3>1, <3>2
  <2>2. \A k \in DOMAIN conditions : conditions[k] # [plugin |-> p, ok |-> TRUE]
    BY <1>4, <1>8 DEF NamedIn
  <2>3. ASSUME NEW k \in DOMAIN conditions',
               conditions'[k] = [plugin |-> p, ok |-> TRUE]
        PROVE  ok
    BY <1>5, <2>2, <2>3
  <2>4. QED
    BY <1>2, <1>5, <1>8, <2>1, <2>3 DEF HonestRecords
<1>9. QED
  BY <1>7, <1>8

LEMMA HonestStep ==
    ASSUME Calm, Distinct, TypeOK, CopyIsVersionRead, OnlyRedeployed,
           Live => RecordsAreSeen /\ ConditionsFollow /\ AllHonest,
           [Next]_vars, Live'
    PROVE  AllHonest'
<1> SUFFICES ASSUME NEW p \in Plugins
             PROVE  HonestRecords(p)'
  BY DEF AllHonest
<1>1. CASE /\ Untouched /\ UNCHANGED <<pc, conditions>>
           /\ server'.conds = <<>>
  BY <1>1 DEF Untouched, HonestRecords, Honest, TrueIn
<1>2. CASE Live /\ Quiet
  <2>1. /\ server'.conds = server.conds /\ server'.hash = server.hash
        /\ UNCHANGED <<pc, seen, work, conditions, release>>
    BY <1>2 DEF Quiet, Live
  <2>2. HonestRecords(p)
    BY <1>2 DEF AllHonest
  <2>3. QED
    BY <2>1, <2>2 DEF HonestRecords, Honest, Runs
<1>3. CASE Live /\ Read
  <2>1. /\ pc = "idle" /\ seen' = server /\ work' = server /\ pc' # "idle"
        /\ UNCHANGED <<release, conditions>>
    BY <1>3 DEF Read, CanRead, Calm, CopyIsVersionRead, CacheFollowsServer
  <2>2. HonestRecords(p) /\ conditions' = <<>>
    BY <1>3, <2>1 DEF AllHonest, ConditionsFollow
  <2>3. QED
    BY <2>1, <2>2 DEF HonestRecords, Honest, Runs
<1>4. CASE Live /\ Upgrades
  BY <1>4, UpgradeHonest
<1>5. CASE Live /\ StartPrune
  <2>1. /\ pc = "deploy" /\ pc' = "prune" /\ UNCHANGED <<release, work, conditions>>
    BY <1>5 DEF StartPrune, helm
  <2>2. HonestRecords(p)
    BY <1>5 DEF AllHonest
  <2>3. QED
    BY <2>1, <2>2 DEF HonestRecords, Runs
<1>6. CASE Live /\ PruneKeeps
  <2>1. /\ pc = "prune" /\ pc' = "prune" /\ UNCHANGED <<release, work, conditions>>
    BY <1>6 DEF PruneKeeps, helm
  <2>2. HonestRecords(p)
    BY <1>6 DEF AllHonest
  <2>3. QED
    BY <2>1, <2>2 DEF HonestRecords, Runs
\* What is removed is not listed, and has no new condition.
<1>7. CASE Live /\ PruneDeletes
  <2> DEFINE q == work.conds[i].plugin
  <2>1. /\ pc = "prune" /\ pc' = "prune" /\ conditions' = conditions
        /\ work \in Object /\ i \in DOMAIN work.conds
        /\ q \notin SpecNames(work)
        /\ release' = [release EXCEPT ![q] = NoRelease] \/ UNCHANGED release
        /\ work' = [work EXCEPT !.hash[q] = NoHash]
    BY <1>7 DEF PruneDeletes, Removed, TypeOK, DataOK
  <2>2. ~NamedIn(conditions, q)
    <3>1. /\ \A k \in DOMAIN conditions : conditions[k].plugin = work.plugins[k].name
          /\ Len(conditions) = Len(work.plugins)
      BY <1>7, <2>1 DEF ConditionsFollow
    <3>2. conditions \in Seq(Condition) /\ work.plugins \in Seq(HelmRelease)
      BY <2>1, ConstantsAssumption DEF TypeOK, DataOK, Object
    <3>3. QED
      BY <2>1, <3>1, <3>2 DEF NamedIn, SpecNames
  <2>3. q \in Plugins
    <3>1. work.conds \in Seq(Condition)
      BY <2>1 DEF Object
    <3>2. work.conds[i] \in Condition
      BY <2>1, <3>1
    <3>3. QED
      BY <3>2 DEF Condition
  <2>4. HonestRecords(p)
    BY <1>7 DEF AllHonest
  <2>5. CASE p = q
    BY <2>1, <2>2, <2>5 DEF HonestRecords, NamedIn
  <2>6. CASE p # q
    <3>1. release'[p] = release[p]
      BY <2>1, <2>3, <2>6 DEF TypeOK, DataOK
    <3>2. work'.hash[p] = work.hash[p]
      BY <2>1, <2>3, <2>6 DEF Object
    <3>3. QED
      BY <2>1, <2>4, <3>1, <3>2 DEF HonestRecords, Runs
  <2>7. QED
    BY <2>5, <2>6
<1>8. CASE Live /\ FinishRedeploy
  <2>1. /\ pc = "prune" /\ pc' = "patch" /\ UNCHANGED <<release, conditions>>
        /\ work'.hash = work.hash
    BY <1>8 DEF FinishRedeploy, helm, TypeOK, DataOK, Object
  <2>2. HonestRecords(p)
    BY <1>8 DEF AllHonest
  <2>3. QED
    BY <2>1, <2>2 DEF HonestRecords, Runs
<1>9. CASE Live /\ PatchMetadata
  <2>1. /\ pc = "patch" /\ pc' = "patchStatus"
        /\ UNCHANGED <<release, work, conditions>>
    BY <1>9, PatchFrame
  <2>2. HonestRecords(p)
    BY <1>9 DEF AllHonest
  <2>3. QED
    BY <2>1, <2>2 DEF HonestRecords, Runs
<1>10. CASE Live /\ PatchStatus
  <2>1. /\ pc = "patchStatus" /\ pc' = "idle"
        /\ release' = release /\ conditions' = <<>>
        /\ server' = StatusPatched(server) /\ server \in Object
    BY <1>10, PatchFrame DEF Live, TypeOK, DataOK
  <2>2. server'.conds = conditions /\ server'.hash = work.hash
    BY <1>10, <2>1 DEF StatusPatched, Object, RecordsAreSeen, ConditionsFollow
  <2>3. TrueIn(conditions, p) => Runs(p, work.hash[p])
    BY <1>10, <2>1 DEF AllHonest, HonestRecords, TrueIn
  <2>4. QED
    BY <2>1, <2>2, <2>3 DEF HonestRecords, Honest, Runs
<1>11. QED
  BY <1>1, <1>2, <1>3, <1>4, <1>5, <1>6, <1>7, <1>8, <1>9, <1>10, LiveSteps
  DEF Redeploy, Upgrades

HonestInv == Live => AllHonest

LEMMA HonestInvariant ==
    ASSUME Calm, Distinct
    PROVE  Spec => []HonestInv
<1>1. Init => HonestInv
  BY DEF Init, CachedObjectInit, HonestInv, Live
<1>2. SafetyInv /\ TrackedInv /\ HonestInv /\ [Next]_vars => HonestInv'
  BY HonestStep DEF SafetyInv, TrackedInv, HonestInv
<1>3. QED
  BY <1>1, <1>2, SafetyInvariant, TrackedInvariant, PTL DEF Spec

\* A plugin that the controller skips does run with the values of the hash, if
\* no list names a chart twice: whatever Helm calls failed before, and in
\* whatever order users changed their minds.
THEOREM SkippedPluginsRun ==
    ASSUME Calm, Distinct
    PROVE  Spec => []SkippedIsDeployed
<1>1. HonestInv => SkippedIsDeployed
  <2> SUFFICES ASSUME HonestInv, pc = "idle", server # NoObject, ~server.deleting,
                      NEW p \in Plugins, IsConditionTrue(server, p),
                      server.hash[p] # NoHash
               PROVE  /\ release[p] \notin {NoRelease, Broken}
                      /\ release[p].values = server.hash[p]
    BY DEF SkippedIsDeployed
  <2>1. Runs(p, server.hash[p])
    BY DEF HonestInv, Live, AllHonest, HonestRecords, Honest, TrueIn,
       IsConditionTrue
  <2>2. QED
    BY <2>1, ReleaseAssumption DEF Runs
<1>2. QED
  BY <1>1, HonestInvariant, PTL

-----------------------------------------------------------------------------
(* What a pass reports is so *)

\* The conditions of a pass stand for the entries of the list that was read,
\* and the hashes of these entries are those of their values.
PassFollows ==
    pc # "idle" =>
        \A k \in DOMAIN conditions :
            /\ k \in DOMAIN work.plugins
            /\ conditions[k].plugin = work.plugins[k].name
            /\ work.hash[work.plugins[k].name] = work.plugins[k].values

\* The entry that is next changes no hash but its own.
LEMMA UpgradePasses ==
    ASSUME Distinct, TypeOK, ConditionsFollow, PassFollows, Upgrades
    PROVE  PassFollows'
<1>1. PICK ok \in BOOLEAN : PluginDone(ok)
  BY UpgradeFrame
<1> DEFINE c == [plugin |-> Plugin.name, ok |-> ok]
<1>2. /\ pc = "deploy" /\ pc' = "deploy" /\ i \in DOMAIN work.plugins
      /\ work \in Object /\ conditions \in Seq(Condition)
      /\ Plugin.name \in Plugins /\ Plugin = work.plugins[i]
      /\ conditions' = Append(conditions, c)
  BY <1>1, PluginType DEF PluginDone, Deploying, TypeOK, DataOK, Plugin
<1>3. /\ \A q \in Plugins : q # Plugin.name => work'.hash[q] = work.hash[q]
      /\ work'.hash[Plugin.name] = Plugin.values
      /\ work'.plugins = work.plugins
  BY <1>1, <1>2 DEF PluginDone, HashUpdated, Object
<1>4. ~NamedIn(conditions, Plugin.name)
  BY <1>1, NextIsNew DEF PluginDone
<1>5. \A k \in DOMAIN conditions' :
          \/ k \in DOMAIN conditions /\ conditions'[k] = conditions[k]
          \/ k = i /\ conditions'[k] = c
  <2>1. Len(conditions) + 1 = i
    BY <1>2 DEF ConditionsFollow, TypeOK, DataOK
  <2>2. c \in Condition
    BY <1>2 DEF Condition
  <2>3. QED
    BY <1>2, <2>1, <2>2
<1>6. c.plugin = Plugin.name
  OBVIOUS
<1> HIDE DEF c
<1>7. ASSUME NEW k \in DOMAIN conditions'
      PROVE  /\ k \in DOMAIN work'.plugins
             /\ conditions'[k].plugin = work'.plugins[k].name
             /\ work'.hash[work'.plugins[k].name] = work'.plugins[k].values
  <2>1. CASE k = i /\ conditions'[k] = c
    BY <1>2, <1>3, <1>6, <2>1
  <2>2. CASE k \in DOMAIN conditions /\ conditions'[k] = conditions[k]
    <3>1. /\ k \in DOMAIN work.plugins
          /\ conditions[k].plugin = work.plugins[k].name
          /\ work.hash[work.plugins[k].name] = work.plugins[k].values
      BY <1>2, <2>2 DEF PassFollows
    <3>2. work.plugins[k].name # Plugin.name
      BY <1>4, <2>2, <3>1 DEF NamedIn
    <3>3. work.plugins[k].name \in Plugins
      <4>1. conditions[k] \in Condition
        BY <1>2, <2>2
      <4>2. QED
        BY <3>1, <4>1 DEF Condition
    <3>4. QED
      BY <1>3, <2>2, <3>1, <3>2, <3>3
  <2>3. QED
    BY <1>5, <2>1, <2>2
<1>8. QED
  BY <1>7 DEF PassFollows

LEMMA PassStep ==
    ASSUME Calm, Distinct, TypeOK, CopyIsVersionRead, OnlyRedeployed,
           Live => ConditionsFollow /\ PassFollows, [Next]_vars, Live'
    PROVE  PassFollows'
<1>1. CASE Untouched /\ UNCHANGED pc
  BY <1>1 DEF Untouched, PassFollows
<1>2. CASE Live /\ Quiet
  BY <1>2 DEF Quiet, PassFollows
<1>3. CASE Live /\ Read
  BY <1>3 DEF Read, CanRead, ConditionsFollow, PassFollows
<1>4. CASE Live /\ Upgrades
  BY <1>4, UpgradePasses
<1>5. CASE Live /\ (StartPrune \/ PruneKeeps)
  BY <1>5 DEF StartPrune, PruneKeeps, PassFollows
\* What is removed is not listed.
<1>6. CASE Live /\ PruneDeletes
  <2> DEFINE q == work.conds[i].plugin
  <2>1. /\ pc = "prune" /\ conditions' = conditions
        /\ conditions \in Seq(Condition) /\ work \in Object
        /\ q \notin SpecNames(work)
        /\ work' = [work EXCEPT !.hash[q] = NoHash]
    BY <1>6 DEF PruneDeletes, Removed, TypeOK, DataOK
  <2> HIDE DEF q
  <2>2. /\ work'.plugins = work.plugins
        /\ \A p \in Plugins : p # q => work'.hash[p] = work.hash[p]
    BY <2>1 DEF Object
  <2>3. ASSUME NEW k \in DOMAIN conditions
        PROVE  /\ k \in DOMAIN work.plugins
               /\ conditions[k].plugin = work.plugins[k].name
               /\ work'.hash[work.plugins[k].name] = work.plugins[k].values
    <3>1. /\ k \in DOMAIN work.plugins
          /\ conditions[k].plugin = work.plugins[k].name
          /\ work.hash[work.plugins[k].name] = work.plugins[k].values
      BY <1>6, <2>1, <2>3 DEF PassFollows
    <3>2. conditions[k].plugin \in Plugins
      <4>1. conditions[k] \in Condition
        BY <2>1, <2>3
      <4>2. QED
        BY <4>1 DEF Condition
    <3>3. work.plugins[k].name # q
      BY <2>1, <3>1 DEF SpecNames
    <3>4. QED
      BY <2>2, <3>1, <3>2, <3>3
  <2>4. QED
    BY <2>1, <2>2, <2>3 DEF PassFollows
<1>7. CASE Live /\ FinishRedeploy
  <2>1. /\ pc = "prune" /\ conditions' = conditions
        /\ work'.hash = work.hash /\ work'.plugins = work.plugins
    BY <1>7 DEF FinishRedeploy, TypeOK, DataOK, Object
  <2>2. QED
    BY <1>7, <2>1 DEF PassFollows
<1>8. CASE Live /\ (PatchMetadata \/ PatchStatus)
  BY <1>8, PatchFrame DEF PassFollows
<1>9. QED
  BY <1>1, <1>2, <1>3, <1>4, <1>5, <1>6, <1>7, <1>8, LiveSteps
  DEF Redeploy, Upgrades

PassInv == Live => PassFollows

LEMMA PassInvariant ==
    ASSUME Calm, Distinct
    PROVE  Spec => []PassInv
<1>1. Init => PassInv
  BY DEF Init, CachedObjectInit, PassInv, Live
<1>2. SafetyInv /\ TrackedInv /\ PassInv /\ [Next]_vars => PassInv'
  BY PassStep DEF SafetyInv, TrackedInv, PassInv
<1>3. QED
  BY <1>1, <1>2, SafetyInvariant, TrackedInvariant, PTL DEF Spec

\* The conditions that a pass publishes are true of Helm, and what the list
\* that was read no longer names has gone, but for the plugins whose preparation,
\* upgrade or deletion failed at some time.
THEOREM PassesDeploy ==
    ASSUME Calm, Distinct
    PROVE  Spec => []PassDeploys
<1>1. TypeOK /\ TrackedInv /\ HonestInv /\ PassInv => PassDeploys
  <2> SUFFICES ASSUME TypeOK, TrackedInv, HonestInv, PassInv,
                      pc \in {"patch", "patchStatus"}, Live
               PROVE  /\ \A k \in DOMAIN conditions : conditions[k].ok =>
                            Runs(work.plugins[k].name, work.plugins[k].values)
                      /\ \A p \in Plugins \ (SpecNames(work) \cup troubled) :
                            ~Installed(p)
    BY DEF PassDeploys, Live, Runs
  <2>1. conditions \in Seq(Condition)
    BY DEF TypeOK, DataOK
  <2>2. \A k \in DOMAIN conditions :
            /\ k \in DOMAIN work.plugins
            /\ conditions[k].plugin = work.plugins[k].name
            /\ work.hash[work.plugins[k].name] = work.plugins[k].values
    BY DEF PassInv, PassFollows
  <2>3. ASSUME NEW k \in DOMAIN conditions, conditions[k].ok
        PROVE  Runs(work.plugins[k].name, work.plugins[k].values)
    <3>1. /\ conditions[k].plugin \in Plugins
          /\ conditions[k] = [plugin |-> conditions[k].plugin, ok |-> TRUE]
      <4>1. conditions[k] \in Condition
        BY <2>1, <2>3
      <4>2. QED
        BY <2>3, <4>1 DEF Condition
    <3>2. HonestRecords(conditions[k].plugin)
      BY <3>1 DEF HonestInv, AllHonest
    <3>3. Runs(conditions[k].plugin, work.hash[conditions[k].plugin])
      BY <2>3, <3>1, <3>2 DEF HonestRecords
    <3>4. QED
      BY <2>2, <2>3, <3>3
  <2>4. ASSUME NEW p \in Plugins \ (SpecNames(work) \cup troubled), Installed(p)
        PROVE  FALSE
    <3>1. NamedIn(conditions, p)
      BY <2>4 DEF TrackedInv, AllTracked, Tracked
    <3>2. p \in SpecNames(work)
      BY <2>2, <3>1 DEF NamedIn, SpecNames
    <3>3. QED
      BY <2>4, <3>2
  <2>5. QED
    BY <2>3, <2>4
<1>2. QED
  BY <1>1, TypeCorrect, TrackedInvariant, HonestInvariant, PassInvariant, PTL
=============================================================================
