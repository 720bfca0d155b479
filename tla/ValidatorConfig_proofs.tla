----------------------- MODULE ValidatorConfig_proofs -----------------------
(***************************************************************************)
(* Proofs about ValidatorConfig, for every value of its constants.         *)
(***************************************************************************)
EXTENDS ValidatorConfig, TLAPS

-----------------------------------------------------------------------------
(* Lemmas about the operators *)

StoredOK ==
    /\ server \in Object \cup {NoObject}
    /\ feed \in Seq(Object \cup {NoObject})
    /\ cache \in Object \cup {NoObject}

\* A write keeps the types of what it writes to.
LEMMA StoreType ==
    ASSUME NEW obj \in Object \cup {NoObject}, DataOK, Store(obj)
    PROVE  /\ server' \in Object \cup {NoObject}
           /\ feed' \in Seq(Object \cup {NoObject})
           /\ cache' \in Object \cup {NoObject}
<1>1. CASE obj = server /\ UNCHANGED <<server, feed>>
  BY <1>1 DEF Store, DataOK
<1>2. CASE server' = obj /\ feed' = Append(feed, obj)
  <2>1. feed \in Seq(Object \cup {NoObject})
    BY DEF DataOK
  <2>2. feed' \in Seq(Object \cup {NoObject})
    BY <1>2, <2>1
  <2>3. QED
    BY <1>2, <2>2 DEF Store, DataOK
<1>3. QED
  BY <1>1, <1>2 DEF Store, Write

\* What spec.plugins holds while the worker has a copy of the object
LEMMA NamesType ==
    ASSUME DataOK, pc # "idle"
    PROVE  /\ DOMAIN work.plugins \subseteq Nat \ {0}
           /\ \A k \in Nat \ {0} : k \notin DOMAIN work.plugins =>
                  \A m \in DOMAIN work.plugins : m < k
           /\ \A k \in DOMAIN work.plugins : work.plugins[k].name \in Plugins
<1>1. work.plugins \in Seq(HelmRelease)
  BY ConstantsAssumption DEF DataOK, Object
<1>2. DOMAIN work.plugins = 1 .. Len(work.plugins) /\ Len(work.plugins) \in Nat
  BY <1>1
<1>3. \A k \in DOMAIN work.plugins : work.plugins[k] \in HelmRelease
  BY <1>1
<1>4. QED
  BY <1>2, <1>3 DEF HelmRelease

\* The entry that the loops over spec.plugins are at
LEMMA PluginType ==
    ASSUME DataOK, pc # "idle", i \in DOMAIN work.plugins
    PROVE  /\ Plugin \in HelmRelease
           /\ Plugin.name \in Plugins
           /\ Plugin.values \in Values
           /\ Plugin.version \in Versions
<1>1. work.plugins \in Seq(HelmRelease)
  BY ConstantsAssumption DEF DataOK, Object
<1>2. work.plugins[i] \in HelmRelease
  BY <1>1
<1>3. QED
  BY <1>2 DEF Plugin, HelmRelease

\* Setting one values hash makes an Object of an Object.
LEMMA HashType ==
    ASSUME NEW obj \in Object, NEW p \in Plugins, NEW v \in Values \cup {NoHash}
    PROVE  [obj EXCEPT !.hash[p] = v] \in Object
BY DEF Object

LEMMA MetadataPatchedType ==
    ASSUME DataOK, pc # "idle", server \in Object
    PROVE  /\ MetadataPatched(server) \in Object
           /\ MetadataPatched(server).plugins = server.plugins
           /\ MetadataPatched(server).deleting = server.deleting
BY DEF DataOK, MetadataPatched, Object

LEMMA StatusPatchedType ==
    ASSUME DataOK, pc # "idle", server \in Object
    PROVE  /\ StatusPatched(server) \in Object
           /\ StatusPatched(server).plugins = server.plugins
           /\ StatusPatched(server).deleting = server.deleting
BY DEF DataOK, StatusPatched, Object

-----------------------------------------------------------------------------
(* Type correctness *)

LEMMA RemoveFinalizerType ==
    ASSUME DataOK, pc # "idle", RemoveFinalizer
    PROVE  /\ server' \in Object \cup {NoObject}
           /\ feed' \in Seq(Object \cup {NoObject})
           /\ cache' \in Object \cup {NoObject}
<1>1. [work EXCEPT !.finalizer = FALSE] \in Object
  BY DEF DataOK, Object
<1>2. QED
  BY <1>1, StoreType DEF RemoveFinalizer

LEMMA DataInit == Init => DataOK
BY ConstantsAssumption DEF Init, CachedObjectInit, DataOK, None

\* The step from one plugin to the next, whatever Helm did
LEMMA SetConditionType ==
    ASSUME DataOK, Deploying, NEW ok \in BOOLEAN, SetCondition(ok),
           release' \in [Plugins -> Deployed \cup {NoRelease, Broken}],
           faults' \in Nat
    PROVE  DataOK'
<1>1. Plugin.name \in Plugins /\ Plugin.values \in Values
  BY PluginType DEF Deploying
<1>2. HashUpdated \in Object
  BY <1>1, HashType DEF HashUpdated, Deploying, DataOK
<1>3. conditions' \in Seq(Condition)
  BY <1>1 DEF SetCondition, DataOK, Condition
<1>4. troubled' \subseteq Plugins
  BY <1>1 DEF SetCondition, DataOK
<1>5. QED
  BY <1>2, <1>3, <1>4
  DEF SetCondition, Deploying, stored, outside, DataOK

\* The worker's steps
LEMMA DataWorker ==
    ASSUME DataOK, Worker
    PROVE  DataOK'
<1> USE DEF stored, helm, memory, outside, spent, objectVars
<1>1. CASE ReadNotFound
  BY <1>1 DEF ReadNotFound, CanRead, DataOK
<1>2. CASE Read
  BY <1>2 DEF Read, CanRead, DataOK
<1>3. CASE SkipPlugin
  <2>1. Deploying /\ SetCondition(TRUE)
    BY <1>3 DEF SkipPlugin
  <2>2. faults' \in Nat
    BY <1>3 DEF SkipPlugin, Fails, DataOK
  <2>3. release' \in [Plugins -> Deployed \cup {NoRelease, Broken}]
    BY <1>3, <2>1, PluginType DEF SkipPlugin, Deploying, Deployed, DataOK
  <2>4. QED
    BY <2>1, <2>2, <2>3, SetConditionType
<1>4. CASE PrepareFails
  <2>1. Deploying /\ SetCondition(FALSE)
    BY <1>4 DEF PrepareFails
  <2>2. faults' \in Nat
    BY <1>4 DEF PrepareFails, Fails, DataOK
  <2>3. release' \in [Plugins -> Deployed \cup {NoRelease, Broken}]
    BY <1>4, <2>1, PluginType DEF PrepareFails, Deploying, Deployed, DataOK
  <2>4. QED
    BY <2>1, <2>2, <2>3, SetConditionType
<1>5. CASE UpgradeSucceeds
  <2>1. Deploying /\ SetCondition(TRUE)
    BY <1>5 DEF UpgradeSucceeds
  <2>2. faults' \in Nat
    BY <1>5 DEF UpgradeSucceeds, Fails, DataOK
  <2>3. release' \in [Plugins -> Deployed \cup {NoRelease, Broken}]
    BY <1>5, <2>1, PluginType DEF UpgradeSucceeds, Deploying, Deployed, DataOK
  <2>4. QED
    BY <2>1, <2>2, <2>3, SetConditionType
<1>6. CASE UpgradeFails
  <2>1. Deploying /\ SetCondition(FALSE)
    BY <1>6 DEF UpgradeFails
  <2>2. faults' \in Nat
    BY <1>6 DEF UpgradeFails, Fails, DataOK
  <2>3. release' \in [Plugins -> Deployed \cup {NoRelease, Broken}]
    BY <1>6, <2>1, PluginType DEF UpgradeFails, Deploying, Deployed, DataOK
  <2>4. QED
    BY <2>1, <2>2, <2>3, SetConditionType
<1>7. CASE UpgradeRefused
  <2>1. Deploying /\ SetCondition(FALSE)
    BY <1>7 DEF UpgradeRefused
  <2>2. faults' \in Nat
    BY <1>7 DEF UpgradeRefused, Fails, DataOK
  <2>3. release' \in [Plugins -> Deployed \cup {NoRelease, Broken}]
    BY <1>7, <2>1, PluginType DEF UpgradeRefused, Deploying, Deployed, DataOK
  <2>4. QED
    BY <2>1, <2>2, <2>3, SetConditionType
<1>8. CASE StartPrune
  BY <1>8 DEF StartPrune, DataOK
<1>9. CASE PruneKeeps
  BY <1>9 DEF PruneKeeps, DataOK
<1>10. CASE PruneDeletes
  <2> DEFINE p == work.conds[i].plugin
  <2>1. work \in Object /\ pc # "idle"
    BY <1>10 DEF PruneDeletes, DataOK
  <2>2. work.conds[i] \in Condition
    BY <1>10, <2>1 DEF PruneDeletes, Object
  <2>3. p \in Plugins
    BY <2>2 DEF Condition
  <2>4. work' \in Object
    BY <1>10, <2>1, <2>3, HashType DEF PruneDeletes
  <2>5. /\ release' \in [Plugins -> Deployed \cup {NoRelease, Broken}]
        /\ troubled' \subseteq Plugins
    BY <1>10, <2>3 DEF PruneDeletes, DataOK
  <2>6. faults' \in Nat
    BY <1>10 DEF PruneDeletes, Fails, DataOK
  <2>7. /\ i' = i + 1
        /\ UNCHANGED <<stored, outside, running, detached, undeleted, crashes,
                       edits, pc, seen, conditions>>
    BY <1>10 DEF PruneDeletes
  <2>8. QED
    BY <2>1, <2>4, <2>5, <2>6, <2>7 DEF DataOK
<1>11. CASE FinishRedeploy
  BY <1>11 DEF FinishRedeploy, DataOK, Object
<1>12. CASE PatchMetadata
  <2>1. pc # "idle"
    BY <1>12 DEF PatchMetadata
  <2>2. StoredOK'
    <3>1. CASE UNCHANGED stored
      BY <3>1 DEF StoredOK, DataOK
    <3>2. CASE server # NoObject /\ Store(MetadataPatched(server))
      <4>1. server \in Object
        BY <3>2 DEF DataOK
      <4>2. MetadataPatched(server) \in Object \cup {NoObject}
        BY <2>1, <4>1, MetadataPatchedType
      <4>3. QED
        BY <3>2, <4>2, StoreType DEF StoredOK
    <3>3. QED
      BY <1>12, <3>1, <3>2 DEF PatchMetadata
  <2>3. faults' \in Nat
    BY <1>12 DEF PatchMetadata, Fails, DataOK
  <2>4. QED
    <3>1. pc' = "patchStatus" /\ UNCHANGED <<helm, memory, outside, crashes, edits>>
      BY <1>12 DEF PatchMetadata
    <3>2. QED
      BY <2>1, <2>2, <2>3, <3>1 DEF StoredOK, DataOK
<1>13. CASE PatchStatus
  <2>1. pc # "idle"
    BY <1>13 DEF PatchStatus
  <2>2. StoredOK'
    <3>1. CASE UNCHANGED stored
      BY <3>1 DEF StoredOK, DataOK
    <3>2. CASE server # NoObject /\ Store(StatusPatched(server))
      <4>1. server \in Object
        BY <3>2 DEF DataOK
      <4>2. StatusPatched(server) \in Object \cup {NoObject}
        BY <2>1, <4>1, StatusPatchedType
      <4>3. QED
        BY <3>2, <4>2, StoreType DEF StoredOK
    <3>3. QED
      BY <1>13, <3>1, <3>2 DEF PatchStatus
  <2>3. faults' \in Nat
    BY <1>13 DEF PatchStatus, Fails, DataOK
  <2>4. QED
    <3>1. /\ pc' = "idle" /\ seen' = NoObject /\ work' = NoObject
          /\ i' = 1 /\ conditions' = <<>>
          /\ UNCHANGED <<helm, outside, crashes, edits>>
      BY <1>13 DEF PatchStatus, Return
    <3>2. QED
      BY <2>2, <2>3, <3>1 DEF StoredOK, DataOK
<1>14. CASE NamespaceLookupFails
  BY <1>14 DEF NamespaceLookupFails, Return, Fails, DataOK
<1>15. CASE LookupNamespace
  BY <1>15 DEF LookupNamespace, DataOK
<1>16. CASE LookupFinds
  BY <1>16, PluginType DEF LookupFinds, LookingUp, Inc, DataOK
<1>17. CASE LookupNotFound
  BY <1>17
  DEF LookupNotFound, NoRevision, Fails, LookingUp, Detach, Plus, None, DataOK
<1>18. CASE LookupFails
  BY <1>18
  DEF LookupFails, LookingUp, Return, Fails, Detach, Plus, None, DataOK
<1>19. CASE AwaitDeletions
  BY <1>19 DEF AwaitDeletions, DataOK
<1>20. CASE DropFinalizer
  <2>1. pc # "idle"
    BY <1>20 DEF DropFinalizer
  <2>2. StoredOK'
    BY <1>20, <2>1, RemoveFinalizerType
    DEF DropFinalizer, RemoveFinalizerFails, StoredOK, DataOK
  <2>3. faults' \in Nat
    <3>1. UNCHANGED faults \/ Fails("update")
      BY <1>20 DEF DropFinalizer, RemoveFinalizerFails
    <3>2. QED
      BY <3>1 DEF Fails, DataOK
  <2>4. /\ pc' = "idle" /\ seen' = NoObject /\ work' = NoObject
        /\ i' = 1 /\ conditions' = <<>>
        /\ UNCHANGED <<helm, outside, crashes, edits>>
    BY <1>20 DEF DropFinalizer, Return
  <2>5. QED
    BY <2>2, <2>3, <2>4 DEF StoredOK, DataOK
<1>21. CASE Unfinalize
  BY <1>21, RemoveFinalizerType
  DEF Unfinalize, RemoveFinalizerFails, Return, Fails, DataOK
<1>22. CASE EmitFinalizeCleanup
  BY <1>22 DEF EmitFinalizeCleanup, Return, Fails, DataOK
<1>23. QED
  BY <1>1, <1>2, <1>3, <1>4, <1>5, <1>6, <1>7, <1>8, <1>9, <1>10, <1>11, <1>12, <1>13, <1>14, <1>15, <1>16, <1>17, <1>18, <1>19, <1>20, <1>21, <1>22 DEF Worker

LEMMA DeletionType ==
    ASSUME DataOK, server # NoObject
    PROVE  [server EXCEPT !.deleting = TRUE] \in Object
BY DEF DataOK, Object

\* Everybody else's steps
LEMMA DataEnvironment ==
    ASSUME DataOK, Environment
    PROVE  DataOK'
<1> USE DEF stored, helm, memory, outside, spent, objectVars
<1>1. CASE Deliver
  BY <1>1 DEF Deliver, ReceiveEvent, DataOK
<1>2. CASE Resync
  BY <1>2 DEF Resync, DataOK
<1>3. CASE Crash
  BY <1>3 DEF Crash, Relist, None, DataOK
<1>4. ASSUME NEW p \in Plugins, DeletionEnds(p) PROVE DataOK'
  <2>1. running' \in [Plugins -> Nat] /\ detached' \in [Plugins -> Nat]
    <3>1. CASE running[p] > 0 /\ running' = Dec(running, p) /\ UNCHANGED detached
      BY <3>1 DEF Dec, DataOK
    <3>2. CASE detached[p] > 0 /\ detached' = Dec(detached, p) /\ UNCHANGED running
      BY <3>2 DEF Dec, DataOK
    <3>3. QED
      BY <1>4, <3>1, <3>2 DEF DeletionEnds
  <2>2. /\ release' \in [Plugins -> Deployed \cup {NoRelease, Broken}]
        /\ undeleted' \subseteq Plugins
        /\ troubled' \subseteq Plugins
    BY <1>4 DEF DeletionEnds, DataOK
  <2>3. faults' \in Nat
    BY <1>4 DEF DeletionEnds, Fails, DataOK
  <2>4. UNCHANGED <<stored, memory, outside, pc, crashes, edits>>
    BY <1>4 DEF DeletionEnds
  <2>5. QED
    BY <2>1, <2>2, <2>3, <2>4 DEF DataOK
<1>5. ASSUME NEW p \in Plugins, IndexRelease(p) PROVE DataOK'
  BY <1>5 DEF IndexRelease, DataOK
<1>6. ASSUME NEW p \in Plugins, SweepNamespace(p) PROVE DataOK'
  BY <1>6 DEF SweepNamespace, DataOK
<1>7. ASSUME NEW spec \in Specs, Create(spec) PROVE DataOK'
  <2>1. NewObject(spec) \in Object
    BY DEF NewObject, Object, Condition
  <2>2. StoredOK'
    BY <1>7, <2>1, StoreType DEF Create, StoredOK, DataOK
  <2>3. /\ edits' \in Nat
        /\ UNCHANGED <<helm, memory, pc, indexed, faults, crashes>>
    BY <1>7 DEF Create, UserStep, DataOK
  <2>4. QED
    BY <2>2, <2>3 DEF StoredOK, DataOK
<1>8. ASSUME NEW spec \in Specs, Edit(spec) PROVE DataOK'
  <2>1. [server EXCEPT !.plugins = spec] \in Object
    BY <1>8 DEF Edit, Object, DataOK
  <2>2. StoredOK'
    BY <1>8, <2>1, StoreType DEF Edit, StoredOK, DataOK
  <2>3. /\ edits' \in Nat
        /\ UNCHANGED <<helm, memory, pc, indexed, faults, crashes>>
    BY <1>8 DEF Edit, UserStep, DataOK
  <2>4. QED
    BY <2>2, <2>3 DEF StoredOK, DataOK
<1>9. CASE Delete
  <2>1. [server EXCEPT !.deleting = TRUE] \in Object
    BY <1>9, DeletionType DEF Delete
  <2>2. StoredOK'
    BY <1>9, <2>1, StoreType DEF Delete, Deletion, StoredOK, DataOK
  <2>3. /\ edits' \in Nat
        /\ UNCHANGED <<helm, memory, pc, indexed, faults, crashes>>
    BY <1>9 DEF Delete, UserStep, DataOK
  <2>4. QED
    BY <2>2, <2>3 DEF StoredOK, DataOK
<1>10. CASE DeleteNamespace
  <2>1. server # NoObject => [server EXCEPT !.deleting = TRUE] \in Object
    BY DeletionType
  <2>2. StoredOK'
    BY <1>10, <2>1, StoreType DEF DeleteNamespace, Deletion, StoredOK, DataOK
  <2>3. /\ edits' \in Nat
        /\ UNCHANGED <<helm, memory, pc, indexed, faults, crashes>>
    BY <1>10 DEF DeleteNamespace, UserStep, DataOK
  <2>4. QED
    BY <2>2, <2>3 DEF StoredOK, DataOK
<1>11. QED
  BY <1>1, <1>2, <1>3, <1>4, <1>5, <1>6, <1>7, <1>8, <1>9, <1>10 DEF Environment

LEMMA DataStep == DataOK /\ [Next]_vars => DataOK'
<1> SUFFICES ASSUME DataOK, [Next]_vars PROVE DataOK'
  OBVIOUS
<1>1. CASE Worker
  BY <1>1, DataWorker
<1>2. CASE Environment
  BY <1>2, DataEnvironment
<1>3. CASE UNCHANGED vars
  BY <1>3 DEF vars, stored, helm, memory, outside, spent, DataOK
<1>4. QED
  BY <1>1, <1>2, <1>3 DEF Next

LEMMA FlagsStep == FlagsOK /\ [Next]_vars => FlagsOK'
<1> SUFFICES ASSUME FlagsOK, [Next]_vars PROVE FlagsOK'
  OBVIOUS
<1> USE DEF FlagsOK, stored, helm, memory, outside, spent
<1>1. CASE ReadNotFound
  BY <1>1 DEF ReadNotFound
<1>2. CASE Read
  BY <1>2 DEF Read
<1>3. CASE SkipPlugin
  BY <1>3 DEF SkipPlugin, SetCondition
<1>4. CASE PrepareFails
  BY <1>4 DEF PrepareFails, SetCondition
<1>5. CASE UpgradeSucceeds
  BY <1>5 DEF UpgradeSucceeds, SetCondition
<1>6. CASE UpgradeFails
  BY <1>6 DEF UpgradeFails, SetCondition
<1>7. CASE UpgradeRefused
  BY <1>7 DEF UpgradeRefused, SetCondition
<1>8. CASE StartPrune
  BY <1>8 DEF StartPrune
<1>9. CASE PruneKeeps
  BY <1>9 DEF PruneKeeps
<1>10. CASE PruneDeletes
  BY <1>10 DEF PruneDeletes
<1>11. CASE FinishRedeploy
  BY <1>11 DEF FinishRedeploy
<1>12. CASE PatchMetadata
  BY <1>12 DEF PatchMetadata, Store
<1>13. CASE PatchStatus
  BY <1>13 DEF PatchStatus, Store, Return
<1>14. CASE NamespaceLookupFails
  BY <1>14 DEF NamespaceLookupFails, Return
<1>15. CASE LookupNamespace
  BY <1>15 DEF LookupNamespace
<1>16. CASE LookupFinds
  BY <1>16 DEF LookupFinds
<1>17. CASE LookupNotFound
  BY <1>17 DEF LookupNotFound
<1>18. CASE LookupFails
  BY <1>18 DEF LookupFails, Return
<1>19. CASE AwaitDeletions
  BY <1>19 DEF AwaitDeletions
<1>20. CASE DropFinalizer
  BY <1>20 DEF DropFinalizer, RemoveFinalizer, RemoveFinalizerFails, Store, Return
<1>21. CASE Unfinalize
  BY <1>21 DEF Unfinalize, RemoveFinalizer, RemoveFinalizerFails, Store
<1>22. CASE EmitFinalizeCleanup
  BY <1>22 DEF EmitFinalizeCleanup, Return
<1>23. CASE Deliver
  BY <1>23 DEF Deliver
<1>24. CASE Resync
  BY <1>24 DEF Resync
<1>25. CASE Crash
  BY <1>25 DEF Crash
<1>26. CASE Delete
  BY <1>26 DEF Delete, Deletion, Store, UserStep
<1>27. CASE DeleteNamespace
  BY <1>27 DEF DeleteNamespace, Deletion, Store, UserStep
<1>28. ASSUME NEW p \in Plugins, DeletionEnds(p) PROVE FlagsOK'
  BY <1>28 DEF DeletionEnds
<1>29. ASSUME NEW p \in Plugins, IndexRelease(p) PROVE FlagsOK'
  BY <1>29 DEF IndexRelease
<1>30. ASSUME NEW p \in Plugins, SweepNamespace(p) PROVE FlagsOK'
  BY <1>30 DEF SweepNamespace
<1>31. ASSUME NEW spec \in Specs, Create(spec) PROVE FlagsOK'
  BY <1>31 DEF Create, Store, UserStep
<1>32. ASSUME NEW spec \in Specs, Edit(spec) PROVE FlagsOK'
  BY <1>32 DEF Edit, Store, UserStep
<1>33. CASE UNCHANGED vars
  BY <1>33 DEF vars
<1>34. QED
  BY <1>1, <1>2, <1>3, <1>4, <1>5, <1>6, <1>7, <1>8, <1>9, <1>10, <1>11,
     <1>12, <1>13, <1>14, <1>15, <1>16, <1>17, <1>18, <1>19, <1>20, <1>21,
     <1>22, <1>23, <1>24, <1>25, <1>26, <1>27, <1>28, <1>29, <1>30, <1>31,
     <1>32, <1>33
  DEF Next, Worker, Environment

\* Every variable of the controller, the cluster and the user keeps its type.
THEOREM TypeCorrect == Spec => []TypeOK
<1>1. Init => TypeOK
  BY DataInit DEF Init, TypeOK, FlagsOK
<1>2. TypeOK /\ [Next]_vars => TypeOK'
  BY DataStep, FlagsStep DEF TypeOK
<1>3. QED
  BY <1>1, <1>2, PTL DEF Spec

-----------------------------------------------------------------------------
(* The copy the worker holds *)

\* The cache keeps following the server, whoever writes.
LEMMA WriteFollows ==
    ASSUME NEW obj, CacheFollowsServer, feed \in Seq(Object \cup {NoObject}),
           Write(obj), UNCHANGED cache
    PROVE  CacheFollowsServer'
<1>1. CASE obj = server /\ UNCHANGED <<server, feed>>
  BY <1>1 DEF CacheFollowsServer
<1>2. CASE server' = obj /\ feed' = Append(feed, obj)
  <2>1. feed' # <<>> /\ feed'[Len(feed')] = obj
    BY <1>2
  <2>2. QED
    BY <1>2, <2>1 DEF CacheFollowsServer
<1>3. QED
  BY <1>1, <1>2 DEF Write

LEMMA ReceiveFollows ==
    ASSUME CacheFollowsServer, feed \in Seq(Object \cup {NoObject}), ReceiveEvent
    PROVE  CacheFollowsServer'
<1>1. CASE Tail(feed) = <<>>
  <2>1. Len(feed) = 1
    <3>1. feed # <<>> /\ Len(Tail(feed)) = 0
      BY <1>1 DEF ReceiveEvent
    <3>2. QED
      BY <3>1
  <2>2. QED
    BY <1>1, <2>1 DEF ReceiveEvent, CacheFollowsServer
<1>2. CASE Tail(feed) # <<>>
  <2>1. Tail(feed)[Len(Tail(feed))] = feed[Len(feed)]
    BY <1>2 DEF ReceiveEvent
  <2>2. QED
    BY <1>2, <2>1 DEF ReceiveEvent, CacheFollowsServer
<1>3. QED
  BY <1>1, <1>2

\* A write makes the worker's copy outdated, unless it changes nothing.
LEMMA StoreKeepsCopy ==
    ASSUME NEW obj, TypeOK, CacheFollowsServer, Store(obj),
           fresh => server = seen
    PROVE  /\ CacheFollowsServer'
           /\ fresh' => server' = seen
<1>1. Write(obj) /\ UNCHANGED cache
  BY DEF Store
<1>2. CacheFollowsServer'
  BY <1>1, WriteFollows DEF TypeOK, DataOK
<1>3. fresh' => fresh /\ obj = server
  BY DEF Store
<1>4. obj = server => server' = server
  BY <1>1 DEF Write
<1>5. QED
  BY <1>2, <1>3, <1>4

LEMMA CopyStep ==
    ASSUME TypeOK, CopyIsVersionRead, [Next]_vars
    PROVE  CopyIsVersionRead'
<1> USE DEF stored, helm, memory, outside, spent
<1>1. CASE ReadNotFound
  BY <1>1 DEF ReadNotFound, CopyIsVersionRead, CacheFollowsServer
<1>2. CASE Read
  <2>1. seen' = cache /\ work' = cache
    BY <1>2 DEF Read
  <2>2. fresh' => server = cache
    BY <1>2 DEF Read, CopyIsVersionRead, CacheFollowsServer
  <2>3. pc' = "deploy" \/ work'.deleting
    BY <1>2 DEF Read
  <2>4. UNCHANGED objectVars
    BY <1>2 DEF Read
  <2>5. QED
    BY <2>1, <2>2, <2>3, <2>4 DEF objectVars, CopyIsVersionRead, CacheFollowsServer
\* redeployIfNeeded writes nothing to the API server.
<1>3. CASE \/ SkipPlugin \/ PrepareFails
           \/ UpgradeSucceeds \/ UpgradeFails \/ UpgradeRefused
           \/ StartPrune \/ PruneKeeps \/ PruneDeletes \/ FinishRedeploy
  <2>1. /\ pc # "idle" /\ pc' \in {"deploy", "prune", "patch"}
        /\ UNCHANGED <<stored, seen>>
    BY <1>3 DEF SkipPlugin, PrepareFails, UpgradeSucceeds, UpgradeFails,
       UpgradeRefused, StartPrune, PruneKeeps, PruneDeletes, FinishRedeploy,
       Deploying, SetCondition
  <2>2. QED
    BY <2>1 DEF CopyIsVersionRead, CacheFollowsServer
\* The three places that write: the two patches and removeFinalizer
<1>4. CASE PatchMetadata \/ Unfinalize
  <2>1. pc # "idle" /\ pc' \in {"patchStatus", "emit"} /\ UNCHANGED seen
    BY <1>4 DEF PatchMetadata, Unfinalize
  <2>2. UNCHANGED stored \/ \E obj : Store(obj)
    BY <1>4 DEF PatchMetadata, Unfinalize, RemoveFinalizer, RemoveFinalizerFails
  <2>3. CacheFollowsServer' /\ (fresh' => server' = seen)
    BY <2>1, <2>2, StoreKeepsCopy DEF CopyIsVersionRead, CacheFollowsServer
  <2>4. QED
    BY <2>1, <2>3 DEF CopyIsVersionRead
<1>5. CASE PatchStatus \/ DropFinalizer
  <2>1. pc # "idle" /\ pc' = "idle"
    BY <1>5 DEF PatchStatus, DropFinalizer, Return
  <2>2. UNCHANGED stored \/ \E obj : Store(obj)
    BY <1>5 DEF PatchStatus, DropFinalizer, RemoveFinalizer, RemoveFinalizerFails
  <2>3. CacheFollowsServer'
    BY <2>1, <2>2, StoreKeepsCopy DEF CopyIsVersionRead, CacheFollowsServer
  <2>4. QED
    BY <2>1, <2>3 DEF CopyIsVersionRead
<1>6. CASE NamespaceLookupFails \/ LookupFails \/ EmitFinalizeCleanup
  <2>1. pc' = "idle" /\ UNCHANGED stored
    BY <1>6 DEF NamespaceLookupFails, LookupFails, EmitFinalizeCleanup, Return
  <2>2. QED
    BY <2>1 DEF CopyIsVersionRead, CacheFollowsServer
<1>7. CASE LookupNamespace \/ LookupFinds \/ LookupNotFound \/ AwaitDeletions
  <2>1. /\ pc \in {"namespace", "lookup"} /\ pc' # "idle"
        /\ UNCHANGED <<stored, seen, work>>
    BY <1>7 DEF LookupNamespace, LookupFinds, LookupNotFound, AwaitDeletions,
       LookingUp
  <2>2. QED
    BY <2>1 DEF CopyIsVersionRead, CacheFollowsServer
<1>8. CASE Deliver
  <2>1. ReceiveEvent /\ UNCHANGED <<server, memory, pc, fresh>>
    BY <1>8 DEF Deliver, ReceiveEvent
  <2>2. CacheFollowsServer'
    BY <2>1, ReceiveFollows DEF CopyIsVersionRead, TypeOK, DataOK
  <2>3. QED
    BY <2>1, <2>2 DEF CopyIsVersionRead
<1>9. CASE Crash
  BY <1>9 DEF Crash, Relist, CopyIsVersionRead, CacheFollowsServer
<1>10. CASE Resync \/ \E p \in Plugins : DeletionEnds(p) \/ IndexRelease(p) \/ SweepNamespace(p)
  <2>1. UNCHANGED <<stored, memory, pc>>
    BY <1>10 DEF Resync, DeletionEnds, IndexRelease, SweepNamespace
  <2>2. QED
    BY <2>1 DEF CopyIsVersionRead, CacheFollowsServer
\* A user's write leaves the worker alone.
<1>11. CASE \/ \E spec \in Specs : Create(spec) \/ Edit(spec)
            \/ Delete \/ DeleteNamespace
  <2>1. UNCHANGED <<pc, seen, work>>
    BY <1>11 DEF Create, Edit, Delete, DeleteNamespace, UserStep
  <2>2. UNCHANGED stored \/ \E obj : Store(obj)
    BY <1>11 DEF Create, Edit, Delete, DeleteNamespace, Deletion
  <2>3. CASE pc = "idle"
    <3>1. CASE UNCHANGED stored
      BY <2>1, <3>1 DEF CopyIsVersionRead, CacheFollowsServer
    <3>2. ASSUME NEW obj, Store(obj) PROVE CacheFollowsServer'
      BY <3>2, WriteFollows DEF Store, CopyIsVersionRead, TypeOK, DataOK
    <3>3. QED
      BY <2>1, <2>2, <2>3, <3>1, <3>2 DEF CopyIsVersionRead
  <2>4. CASE pc # "idle"
    <3>1. CacheFollowsServer' /\ (fresh' => server' = seen)
      BY <2>2, <2>4, StoreKeepsCopy DEF CopyIsVersionRead, CacheFollowsServer
    <3>2. QED
      BY <2>1, <3>1 DEF CopyIsVersionRead
  <2>5. QED
    BY <2>3, <2>4
<1>12. CASE UNCHANGED vars
  BY <1>12 DEF vars, CopyIsVersionRead, CacheFollowsServer
<1>13. QED
  BY <1>1, <1>2, <1>3, <1>4, <1>5, <1>6, <1>7, <1>8, <1>9, <1>10, <1>11,
     <1>12
  DEF Next, Worker, Environment

-----------------------------------------------------------------------------
(* deletePlugins *)

\* Between two steps of the lookup loop, releases go away and failures are
\* recorded: what was handled stays handled.
LEMMA DeletionKeepsHandled ==
    ASSUME TypeOK, LookedUpIsHandled, DeletionsAwaited,
           NEW p \in Plugins, DeletionEnds(p) \/ SweepNamespace(p)
    PROVE  LookedUpIsHandled' /\ DeletionsAwaited'
<1> USE DEF memory
<1>1. UNCHANGED <<memory, pc>>
  BY DEF DeletionEnds, SweepNamespace
<1>2. \A q \in Plugins : ~Installed(q) => ~Installed(q)'
  BY DEF DeletionEnds, SweepNamespace, Installed, TypeOK, DataOK
<1>3. undeleted \subseteq undeleted'
  BY DEF DeletionEnds, SweepNamespace
<1>4. \A q \in Plugins : running[q] > 0 =>
          running'[q] > 0 \/ ~Installed(q)' \/ q \in undeleted'
  <2>1. CASE SweepNamespace(p)
    BY <2>1 DEF SweepNamespace
  <2>2. CASE DeletionEnds(p)
    <3>1. ~Installed(p)' \/ p \in undeleted'
      BY <2>2 DEF DeletionEnds, Installed, TypeOK, DataOK
    <3>2. \A q \in Plugins \ {p} : running'[q] = running[q]
      BY <2>2 DEF DeletionEnds, Dec, TypeOK, DataOK
    <3>3. QED
      BY <3>1, <3>2
  <2>3. QED
    BY <2>1, <2>2
<1>5. pc # "idle" => \A k \in DOMAIN work.plugins : work.plugins[k].name \in Plugins
  BY NamesType DEF TypeOK
<1>6. LookedUpIsHandled'
  BY <1>1, <1>2, <1>3, <1>4, <1>5 DEF LookedUpIsHandled
<1>7. DeletionsAwaited'
  BY <1>1, <1>2, <1>3, <1>5 DEF DeletionsAwaited, SpecNames
<1>8. QED
  BY <1>6, <1>7

LEMMA HandledStep ==
    ASSUME TypeOK, LookedUpIsHandled, DeletionsAwaited, [Next]_vars
    PROVE  LookedUpIsHandled' /\ DeletionsAwaited'
<1> USE DEF stored, helm, memory, outside, spent
<1>1. CASE ReadNotFound \/ Read
  <2>1. i' = 1 /\ pc' \in {"idle", "namespace", "deploy"}
    BY <1>1 DEF ReadNotFound, Read, CanRead, LookedUpIsHandled
  <2>2. QED
    BY <2>1 DEF LookedUpIsHandled, DeletionsAwaited
<1>2. CASE \/ SkipPlugin \/ PrepareFails
           \/ UpgradeSucceeds \/ UpgradeFails \/ UpgradeRefused
           \/ StartPrune \/ PruneKeeps \/ PruneDeletes \/ FinishRedeploy
           \/ PatchMetadata \/ Unfinalize
  <2>1. pc' \in {"deploy", "prune", "patch", "patchStatus", "emit"}
    BY <1>2 DEF SkipPlugin, PrepareFails, UpgradeSucceeds, UpgradeFails,
       UpgradeRefused, StartPrune, PruneKeeps, PruneDeletes, FinishRedeploy,
       Deploying, SetCondition, PatchMetadata, Unfinalize
  <2>2. QED
    BY <2>1 DEF LookedUpIsHandled, DeletionsAwaited
<1>3. CASE \/ PatchStatus \/ NamespaceLookupFails \/ LookupFails
           \/ DropFinalizer \/ EmitFinalizeCleanup \/ Crash
  <2>1. pc' = "idle" /\ i' = 1
    BY <1>3 DEF PatchStatus, NamespaceLookupFails, LookupFails, DropFinalizer,
       EmitFinalizeCleanup, Crash, Return
  <2>2. QED
    BY <2>1 DEF LookedUpIsHandled, DeletionsAwaited
<1>4. CASE LookupNamespace
  <2>1. i' = 1 /\ pc' \in {"lookup", "dropFinalizer"}
    BY <1>4 DEF LookupNamespace, LookedUpIsHandled
  <2>2. UNCHANGED work
    BY <1>4 DEF LookupNamespace
  <2>3. pc # "idle"
    BY <1>4 DEF LookupNamespace
  <2>4. \A k \in DOMAIN work.plugins : ~(k < 1)
    BY <2>3, NamesType DEF TypeOK
  <2>5. QED
    BY <2>1, <2>2, <2>4 DEF LookedUpIsHandled, DeletionsAwaited
<1>5. CASE LookupFinds
  <2> DEFINE p == Plugin.name
  <2>1. pc = "lookup" /\ i \in DOMAIN work.plugins /\ p \in Plugins
    BY <1>5, PluginType DEF LookupFinds, LookingUp, TypeOK
  <2>2. UNCHANGED <<pc, work, release, undeleted>> /\ i' = i + 1
    BY <1>5 DEF LookupFinds
  <2>3. running' = [running EXCEPT ![p] = @ + 1]
    BY <1>5 DEF LookupFinds, Inc
  <2>4. \A q \in Plugins : running[q] > 0 \/ q = p => running'[q] > 0
    BY <2>1, <2>3 DEF TypeOK, DataOK
  <2>5. \A k \in DOMAIN work.plugins : work.plugins[k].name \in Plugins
    BY <2>1, NamesType DEF TypeOK
  <2>6. \A k \in DOMAIN work.plugins : k < i + 1 => k < i \/ k = i
    BY <2>1, NamesType DEF TypeOK, DataOK
  <2>7. QED
    BY <2>1, <2>2, <2>4, <2>5, <2>6
    DEF LookedUpIsHandled, DeletionsAwaited, Installed, Plugin
<1>6. CASE LookupNotFound
  <2>1. pc' = "unfinalize" /\ i \in DOMAIN work.plugins /\ UNCHANGED <<i, work>>
    BY <1>6 DEF LookupNotFound, LookingUp
  <2>2. QED
    BY <2>1 DEF LookedUpIsHandled, DeletionsAwaited
<1>7. CASE AwaitDeletions
  <2>1. /\ pc = "lookup" /\ pc' = "unfinalize"
        /\ i \notin DOMAIN work.plugins /\ running = None
        /\ UNCHANGED <<work, release, undeleted>>
    BY <1>7 DEF AwaitDeletions
  <2>2. i \in Nat \ {0}
    BY DEF TypeOK, DataOK
  <2>3. \A k \in DOMAIN work.plugins : k < i /\ work.plugins[k].name \in Plugins
    BY <2>1, <2>2, NamesType DEF TypeOK
  <2>4. \A p \in Plugins : ~(running[p] > 0)
    BY <2>1 DEF None
  <2>5. \A p \in SpecNames(work) : ~Installed(p) \/ p \in undeleted
    BY <2>1, <2>3, <2>4 DEF LookedUpIsHandled, SpecNames
  <2>6. QED
    BY <2>1, <2>5 DEF LookedUpIsHandled, DeletionsAwaited, SpecNames, Installed
<1>8. ASSUME NEW p \in Plugins, DeletionEnds(p) \/ SweepNamespace(p)
      PROVE  LookedUpIsHandled' /\ DeletionsAwaited'
  BY <1>8, DeletionKeepsHandled
<1>9. CASE \/ Deliver \/ Resync \/ \E p \in Plugins : IndexRelease(p)
           \/ \E spec \in Specs : Create(spec) \/ Edit(spec)
           \/ Delete \/ DeleteNamespace
  <2>1. UNCHANGED <<helm, memory, pc>>
    BY <1>9 DEF Deliver, Resync, IndexRelease, Create, Edit, Delete,
       DeleteNamespace, UserStep
  <2>2. QED
    BY <2>1 DEF LookedUpIsHandled, DeletionsAwaited, SpecNames, Installed
<1>10. CASE UNCHANGED vars
  BY <1>10 DEF vars, LookedUpIsHandled, DeletionsAwaited, SpecNames, Installed
<1>11. CASE Worker
  BY <1>1, <1>2, <1>3, <1>4, <1>5, <1>6, <1>7, <1>11 DEF Worker
<1>12. CASE Environment
  <2>1. CASE \E p \in Plugins : DeletionEnds(p) \/ IndexRelease(p) \/ SweepNamespace(p)
    <3>1. PICK p \in Plugins : DeletionEnds(p) \/ IndexRelease(p) \/ SweepNamespace(p)
      BY <2>1
    <3>2. CASE IndexRelease(p)
      BY <1>9, <3>2
    <3>3. QED
      BY <1>8, <3>1, <3>2
  <2>2. CASE \E spec \in Specs : Create(spec) \/ Edit(spec)
    BY <1>9, <2>2
  <2>3. CASE Deliver \/ Resync \/ Delete \/ DeleteNamespace
    BY <1>9, <2>3
  <2>4. QED
    BY <1>3, <1>12, <2>1, <2>2, <2>3 DEF Environment
<1>13. QED
  BY <1>10, <1>11, <1>12 DEF Next

-----------------------------------------------------------------------------
(* Theorems *)

THEOREM SafetyInvariant == Spec => []SafetyInv
<1>1. Init => SafetyInv
  <2>1. Init => TypeOK
    BY DataInit DEF Init, TypeOK, FlagsOK
  <2>2. QED
    BY <2>1 DEF Init, CachedObjectInit, SafetyInv, CopyIsVersionRead,
       CacheFollowsServer, LookedUpIsHandled, DeletionsAwaited
<1>2. SafetyInv /\ [Next]_vars => SafetyInv'
  BY DataStep, FlagsStep, CopyStep, HandledStep DEF SafetyInv, TypeOK
<1>3. QED
  BY <1>1, <1>2, PTL DEF Spec

\* Once deletePlugins has gone through the whole plugin list, no goroutine of
\* it is still uninstalling a release when the finalizer is removed - however
\* many plugins there are and whatever fails, restarts or is read late.
THEOREM DeletionsAreAwaited == Spec => []DeletionsAwaited
BY SafetyInvariant, PTL DEF SafetyInv

\* No step of the controller reverts what a user wrote, in particular not the
\* full update that removes the finalizer.
THEOREM UserWritesAreKept == Spec => UserWritesSurvive
<1> DEFINE Kept ==
      \/ server' = server
      \/ /\ server # NoObject /\ server' # NoObject
         /\ server'.plugins = server.plugins
         /\ server'.deleting = server.deleting
      \/ server # NoObject /\ server.deleting /\ server' = NoObject
<1>1. SafetyInv /\ [Next]_vars => [Worker => Kept]_vars
  <2> SUFFICES ASSUME SafetyInv, Worker PROVE Kept
    BY DEF vars
  <2> USE DEF stored, helm, memory, outside, spent, objectVars
  <2>1. ASSUME NEW obj \in Object, server \in Object, Write(obj),
               obj.plugins = server.plugins, obj.deleting = server.deleting
        PROVE  Kept
    BY <2>1, NoObjectAssumption DEF Write
  <2>2. CASE PatchMetadata
    <3>1. DataOK /\ pc # "idle"
      BY <2>2 DEF PatchMetadata, SafetyInv, TypeOK
    <3>2. CASE server # NoObject /\ Store(MetadataPatched(server))
      <4>1. server \in Object
        BY <3>1, <3>2 DEF DataOK
      <4>2. QED
        BY <2>1, <3>1, <3>2, <4>1, MetadataPatchedType DEF Store
    <3>3. QED
      BY <2>2, <3>2 DEF PatchMetadata
  <2>3. CASE PatchStatus
    <3>1. DataOK /\ pc # "idle"
      BY <2>3 DEF PatchStatus, SafetyInv, TypeOK
    <3>2. CASE server # NoObject /\ Store(StatusPatched(server))
      <4>1. server \in Object
        BY <3>1, <3>2 DEF DataOK
      <4>2. QED
        BY <2>1, <3>1, <3>2, <4>1, StatusPatchedType DEF Store
    <3>3. QED
      BY <2>3, <3>2 DEF PatchStatus
  \* The update is only accepted for the version that was read, which was
  \* being deleted.
  <2>4. CASE DropFinalizer \/ Unfinalize
    <3>1. CASE UNCHANGED stored
      BY <3>1
    <3>2. CASE RemoveFinalizer
      <4>1. work = seen /\ work.deleting /\ server = seen
        BY <2>4, <3>2
        DEF DropFinalizer, Unfinalize, RemoveFinalizer, SafetyInv,
            CopyIsVersionRead
      <4>2. QED
        BY <3>2, <4>1 DEF RemoveFinalizer, Store, Write
    <3>3. QED
      BY <2>4, <3>1, <3>2 DEF DropFinalizer, Unfinalize, RemoveFinalizerFails
  <2>5. CASE \/ ReadNotFound \/ Read \/ SkipPlugin \/ PrepareFails
             \/ UpgradeSucceeds \/ UpgradeFails \/ UpgradeRefused
             \/ StartPrune \/ PruneKeeps \/ PruneDeletes \/ FinishRedeploy
             \/ NamespaceLookupFails \/ LookupNamespace
             \/ LookupFinds \/ LookupNotFound \/ LookupFails
             \/ AwaitDeletions \/ EmitFinalizeCleanup
    BY <2>5
    DEF ReadNotFound, Read, SkipPlugin, PrepareFails, UpgradeSucceeds,
        UpgradeFails, UpgradeRefused, SetCondition, StartPrune, PruneKeeps,
        PruneDeletes, FinishRedeploy, NamespaceLookupFails, LookupNamespace,
        LookupFinds, LookupNotFound, LookupFails, AwaitDeletions,
        EmitFinalizeCleanup
  <2>6. QED
    BY <2>2, <2>3, <2>4, <2>5 DEF Worker
<1>2. QED
  BY <1>1, SafetyInvariant, PTL DEF Spec, UserWritesSurvive

=============================================================================
