--------------------------- MODULE Lifetime_proofs --------------------------
(***************************************************************************)
(* What holds of a ValidatorConfig for as long as it is there, however     *)
(* late the caches are, whatever fails and whenever the controller         *)
(* restarts: it is not forgotten, and its plugins keep running.            *)
(***************************************************************************)
EXTENDS Releases_proofs

-----------------------------------------------------------------------------
(* The requests in the work queue, and the watch events that make new ones  *)

\* The last version that a request was made for is the one the worker has read,
\* so a request that is gone was for something the worker knows.
RequestInv ==
    /\ pc = "idle" /\ ~due =>
          cache = NoObject \/ feed # <<>> \/ (cache.deleting /\ dropped)
    /\ pc # "idle" /\ ~due => cache = seen
    /\ pc = "emit" /\ ~due => feed # <<>>

\* The worker goes on with what it has read.
GoesOn ==
    /\ UNCHANGED <<due, cache, seen>>
    /\ pc # "idle" /\ pc' \notin {"idle", "emit"}

LEMMA WorkerGoesOn ==
    ASSUME \/ SkipPlugin \/ PrepareFails
           \/ UpgradeSucceeds \/ UpgradeFails \/ UpgradeRefused
           \/ StartPrune \/ PruneKeeps \/ PruneDeletes \/ FinishRedeploy
           \/ PatchMetadata
           \/ LookupNamespace \/ LookupFinds \/ LookupNotFound \/ AwaitDeletions
    PROVE  GoesOn
<1> USE DEF stored, objectVars, memory
<1>1. CASE \/ SkipPlugin \/ PrepareFails
           \/ UpgradeSucceeds \/ UpgradeFails \/ UpgradeRefused
  <2>1. pc = "deploy" /\ \E ok \in BOOLEAN : SetCondition(ok)
    BY <1>1 DEF SkipPlugin, PrepareFails, UpgradeSucceeds, UpgradeFails,
       UpgradeRefused, Deploying
  <2>2. QED
    BY <2>1 DEF SetCondition, GoesOn
<1>2. CASE StartPrune \/ PruneKeeps \/ PruneDeletes \/ FinishRedeploy
  BY <1>2 DEF StartPrune, PruneKeeps, PruneDeletes, FinishRedeploy, GoesOn
<1>3. CASE PatchMetadata
  BY <1>3 DEF PatchMetadata, Store, GoesOn
<1>4. CASE LookupNamespace \/ LookupFinds \/ LookupNotFound \/ AwaitDeletions
  BY <1>4 DEF LookupNamespace, LookupFinds, LookupNotFound, AwaitDeletions,
     LookingUp, GoesOn
<1>5. QED
  BY <1>1, <1>2, <1>3, <1>4

\* Removing the finalizer of an object that is being deleted is a write that
\* the cache has yet to hear of.
LEMMA RemovalIsAnnounced ==
    ASSUME TypeOK, RemoveFinalizer, work.deleting
    PROVE  feed' # <<>> /\ cache' = cache
<1>1. server # NoObject /\ Store(NoObject)
  BY DEF RemoveFinalizer
<1>2. feed \in Seq(Object \cup {NoObject})
  BY DEF TypeOK, DataOK
<1>3. QED
  BY <1>1, <1>2 DEF Store, Write

LEMMA RequestWorker ==
    ASSUME TypeOK, CopyIsVersionRead, RequestInv, Worker
    PROVE  RequestInv'
<1> USE DEF stored, objectVars, memory
<1>1. CASE GoesOn
  BY <1>1 DEF GoesOn, RequestInv
<1>2. CASE ReadNotFound \/ Read
  BY <1>2 DEF ReadNotFound, Read, CanRead, RequestInv
<1>3. CASE PatchStatus \/ LookupFails
  BY <1>3 DEF PatchStatus, LookupFails, Return, RequestInv, TypeOK, FlagsOK
<1>4. CASE NamespaceLookupFails
  <2>1. /\ pc = "namespace" /\ pc' = "idle" /\ due' = due /\ cache' = cache
        /\ dropped'
    BY <1>4 DEF NamespaceLookupFails, Return, TypeOK, FlagsOK
  <2>2. seen.deleting
    BY <2>1 DEF CopyIsVersionRead
  <2>3. QED
    BY <2>1, <2>2 DEF RequestInv
<1>5. CASE DropFinalizer \/ Unfinalize
  <2>1. work.deleting
    BY <1>5 DEF DropFinalizer, Unfinalize, CopyIsVersionRead
  <2>2. CASE RemoveFinalizer
    <3>1. feed' # <<>> /\ cache' = cache
      BY <2>1, <2>2, RemovalIsAnnounced
    <3>2. CASE DropFinalizer
      BY <3>1, <3>2 DEF DropFinalizer, Return, RequestInv
    <3>3. CASE Unfinalize /\ due' = due
      BY <3>1, <3>3 DEF Unfinalize, RequestInv
    <3>4. CASE Unfinalize /\ due'
      BY <3>4 DEF Unfinalize, RequestInv
    <3>5. QED
      BY <1>5, <3>2, <3>3, <3>4 DEF Unfinalize
  <2>3. CASE due'
    BY <2>3 DEF RequestInv
  <2>4. QED
    BY <1>5, <2>2, <2>3 DEF DropFinalizer, Unfinalize, Return, TypeOK, FlagsOK
<1>6. CASE EmitFinalizeCleanup
  BY <1>6 DEF EmitFinalizeCleanup, Return, RequestInv, TypeOK, FlagsOK
<1>7. QED
  BY <1>1, <1>2, <1>3, <1>4, <1>5, <1>6, WorkerGoesOn DEF Worker

\* A write adds an event, and nobody but the worker takes a request away.
LEMMA RequestEnvironment ==
    ASSUME TypeOK, RequestInv, Environment
    PROVE  RequestInv'
<1> USE DEF stored, objectVars, memory, outside
<1>1. CASE Deliver \/ Resync
  BY <1>1 DEF Deliver, Resync, RequestInv
<1>2. CASE Crash
  BY <1>2 DEF Crash, Relist, RequestInv
<1>3. CASE \E p \in Plugins :
              DeletionEnds(p) \/ IndexRelease(p) \/ SweepNamespace(p)
  BY <1>3 DEF DeletionEnds, IndexRelease, SweepNamespace, RequestInv
<1>4. CASE \/ \E spec \in Specs : Create(spec) \/ Edit(spec)
           \/ Delete \/ DeleteNamespace
  <2>1. UNCHANGED <<pc, due, seen, dropped>>
    BY <1>4 DEF Create, Edit, Delete, DeleteNamespace, UserStep
  <2>2. UNCHANGED stored \/ \E obj : Store(obj)
    BY <1>4 DEF Create, Edit, Delete, DeleteNamespace, Deletion
  <2>3. cache' = cache /\ (feed # <<>> => feed' # <<>>)
    <3>1. feed \in Seq(Object \cup {NoObject})
      BY DEF TypeOK, DataOK
    <3>2. QED
      BY <2>2, <3>1 DEF Store, Write
  <2>4. QED
    BY <2>1, <2>3 DEF RequestInv
<1>5. QED
  BY <1>1, <1>2, <1>3, <1>4 DEF Environment

\* However late the caches are, whatever fails and whenever the controller
\* restarts: a ValidatorConfig that is there is asked for again.
THEOREM NothingIsForgotten == Spec => []NeverForgotten
<1>1. Init => RequestInv
  BY DEF Init, CachedObjectInit, RequestInv
<1>2. SafetyInv /\ RequestInv /\ [Next]_vars => RequestInv'
  <2> SUFFICES ASSUME SafetyInv, RequestInv, [Next]_vars PROVE RequestInv'
    OBVIOUS
  <2>1. CASE Next
    BY <2>1, RequestWorker, RequestEnvironment DEF Next, SafetyInv
  <2>2. CASE UNCHANGED vars
    BY <2>2 DEF vars, stored, objectVars, memory, outside, RequestInv
  <2>3. QED
    BY <2>1, <2>2
<1>3. SafetyInv /\ RequestInv => NeverForgotten
  BY DEF SafetyInv, CopyIsVersionRead, CacheFollowsServer, RequestInv,
     NeverForgotten
<1>4. QED
  BY <1>1, <1>2, <1>3, SafetyInvariant, PTL DEF Spec

-----------------------------------------------------------------------------
(* What a ValidatorConfig that is created once is spared of *)

\* The ValidatorConfig is created once.  (Deletion goroutines that an earlier
\* one has left behind delete the releases of a later one.)
Once == "recreate" \notin UserOps

\* No version that is around is one of an object that somebody deleted.
NoDeletedCopy ==
    /\ cache # NoObject => ~cache.deleting
    /\ \A k \in DOMAIN feed : feed[k] # NoObject => ~feed[k].deleting

NothingYet == Untouched /\ feed = <<>> /\ cache = NoObject

\* Until then, nothing of the deletion path is under way.
Spared ==
    /\ edits = 0 => NothingYet
    /\ Live => /\ ~terminating
               /\ running = None /\ detached = None
               /\ pc \in {"idle", "deploy", "prune", "patch", "patchStatus"}
               /\ NoDeletedCopy

LEMMA StoreNotDeleted ==
    ASSUME TypeOK, NoDeletedCopy, NEW obj \in Object, ~obj.deleting, Store(obj)
    PROVE  NoDeletedCopy'
<1>1. feed \in Seq(Object \cup {NoObject}) /\ cache' = cache
  BY DEF TypeOK, DataOK, Store
<1>2. CASE feed' = feed
  BY <1>1, <1>2 DEF NoDeletedCopy
<1>3. CASE feed' = Append(feed, obj)
  <2>1. \A k \in DOMAIN feed' :
            feed'[k] = obj \/ (k \in DOMAIN feed /\ feed'[k] = feed[k])
    BY <1>1, <1>3
  <2>2. QED
    BY <1>1, <2>1 DEF NoDeletedCopy
<1>4. QED
  BY <1>2, <1>3 DEF Store, Write

LEMMA ReceiveNotDeleted ==
    ASSUME TypeOK, NoDeletedCopy, ReceiveEvent
    PROVE  NoDeletedCopy'
<1>1. feed \in Seq(Object \cup {NoObject}) /\ feed # <<>>
      /\ cache' = Head(feed) /\ feed' = Tail(feed)
  BY DEF TypeOK, DataOK, ReceiveEvent
<1>2. 1 \in DOMAIN feed /\ Head(feed) = feed[1]
  BY <1>1
<1>3. \A k \in DOMAIN feed' : k + 1 \in DOMAIN feed /\ feed'[k] = feed[k + 1]
  BY <1>1
<1>4. QED
  BY <1>1, <1>2, <1>3 DEF NoDeletedCopy

\* A patch, whether or not it arrives
LEMMA PatchOutcome ==
    ASSUME TypeOK, PatchMetadata \/ PatchStatus
    PROVE  /\ pc \in {"patch", "patchStatus"} /\ pc' \in {"patchStatus", "idle"}
           /\ UNCHANGED <<release, running, detached, terminating, edits>>
           /\ \/ UNCHANGED <<server, feed, cache>>
              \/ \E obj \in Object :
                    /\ server # NoObject /\ obj.deleting = server.deleting
                    /\ Store(obj)
<1> USE DEF stored, objectVars, helm, memory, outside
<1>1. CASE PatchMetadata
  <2>1. server # NoObject =>
            /\ MetadataPatched(server) \in Object
            /\ MetadataPatched(server).deleting = server.deleting
    <3>1. pc = "patch"
      BY <1>1 DEF PatchMetadata
    <3>2. QED
      BY <3>1, MetadataPatchedType DEF TypeOK, DataOK
  <2>2. QED
    BY <1>1, <2>1 DEF PatchMetadata
<1>2. CASE PatchStatus
  <2>1. server # NoObject =>
            /\ StatusPatched(server) \in Object
            /\ StatusPatched(server).deleting = server.deleting
    <3>1. pc = "patchStatus"
      BY <1>2 DEF PatchStatus
    <3>2. QED
      BY <3>1, StatusPatchedType DEF TypeOK, DataOK
  <2>2. QED
    BY <1>2, <2>1 DEF PatchStatus, Return
<1>3. QED
  BY <1>1, <1>2

LEMMA DeletedIsNotLive ==
    ASSUME TypeOK, Delete \/ DeleteNamespace
    PROVE  ~Live'
<1>1. \/ server' = NoObject
      \/ server' = [server EXCEPT !.deleting = TRUE] /\ server \in Object
  BY DEF Delete, DeleteNamespace, Deletion, Store, Write, TypeOK, DataOK,
     stored, objectVars
<1>2. QED
  BY <1>1 DEF Live, Object

LEMMA NothingYetStep ==
    ASSUME NothingYet, [Next]_vars, edits' = edits, edits \in Nat
    PROVE  NothingYet'
<1> USE DEF stored, objectVars, helm, memory, outside, spent
<1>1. CASE Worker
  <2>1. ~Redeploy /\ ~PatchMetadata /\ ~PatchStatus /\ ~Deletes /\ ~Read
    <3>1. pc = "idle" /\ cache = NoObject
      BY DEF NothingYet, Untouched
    <3>2. ~Redeploy
      BY <3>1 DEF Redeploy, SkipPlugin, PrepareFails, UpgradeSucceeds,
         UpgradeFails, UpgradeRefused, Deploying, StartPrune, PruneKeeps,
         PruneDeletes, FinishRedeploy
    <3>3. ~PatchMetadata /\ ~PatchStatus /\ ~Read
      BY <3>1 DEF PatchMetadata, PatchStatus, Read
    <3>4. ~Deletes
      BY <3>1 DEF Deletes, NamespaceLookupFails, LookupNamespace, LookingUp,
         LookupFinds, LookupNotFound, LookupFails, AwaitDeletions,
         DropFinalizer, Unfinalize, EmitFinalizeCleanup
    <3>5. QED
      BY <3>2, <3>3, <3>4
  <2>2. ReadNotFound
    BY <1>1, <2>1, WorkerCases
  <2>3. QED
    BY <2>2 DEF ReadNotFound, NothingYet, Untouched
<1>2. CASE Deliver \/ Resync
  BY <1>2 DEF Deliver, Resync, ReceiveEvent, NothingYet
<1>3. CASE Crash
  BY <1>3 DEF Crash, Relist, NothingYet, Untouched
<1>4. ASSUME NEW p \in Plugins, DeletionEnds(p) \/ IndexRelease(p) \/ SweepNamespace(p)
      PROVE  NothingYet'
  <2>1. ~DeletionEnds(p) /\ ~SweepNamespace(p)
    BY DEF NothingYet, Untouched, DeletionEnds, SweepNamespace, None, Installed
  <2>2. QED
    BY <1>4, <2>1 DEF IndexRelease, NothingYet, Untouched
<1>5. CASE \/ \E spec \in Specs : Create(spec) \/ Edit(spec)
           \/ Delete \/ DeleteNamespace
  <2>1. edits' = edits + 1
    BY <1>5 DEF Create, Edit, Delete, DeleteNamespace, UserStep
  <2>2. QED
    BY <2>1
<1>6. CASE UNCHANGED vars
  BY <1>6 DEF vars, NothingYet, Untouched
<1>7. QED
  BY <1>1, <1>2, <1>3, <1>4, <1>5, <1>6 DEF Next, Environment

LEMMA EditsGrow ==
    ASSUME TypeOK, CopyIsVersionRead, [Next]_vars
    PROVE  edits' \in {edits, edits + 1}
<1> USE DEF spent
<1>1. CASE Worker
  <2>1. CASE ReadNotFound \/ Read
    BY <2>1 DEF ReadNotFound, Read
  <2>2. QED
    BY <1>1, <2>1, RedeployFrame, PatchOutcome, DeletesFrame, WorkerCases
<1>2. CASE \/ Deliver \/ Resync \/ Crash \/ UNCHANGED vars
           \/ \E p \in Plugins :
                 DeletionEnds(p) \/ IndexRelease(p) \/ SweepNamespace(p)
  BY <1>2 DEF Deliver, Resync, Crash, DeletionEnds, IndexRelease,
     SweepNamespace, vars
<1>3. CASE \/ \E spec \in Specs : Create(spec) \/ Edit(spec)
           \/ Delete \/ DeleteNamespace
  BY <1>3 DEF Create, Edit, Delete, DeleteNamespace, UserStep
<1>4. QED
  BY <1>1, <1>2, <1>3 DEF Next, Environment

LEMMA RedeployStores ==
    ASSUME Redeploy
    PROVE  UNCHANGED <<server, feed, cache>>
<1> USE DEF stored, objectVars
<1>1. CASE \/ SkipPlugin \/ PrepareFails
           \/ UpgradeSucceeds \/ UpgradeFails \/ UpgradeRefused
  <2>1. \E ok \in BOOLEAN : SetCondition(ok)
    BY <1>1 DEF SkipPlugin, PrepareFails, UpgradeSucceeds, UpgradeFails,
       UpgradeRefused
  <2>2. QED
    BY <2>1 DEF SetCondition
<1>2. CASE StartPrune \/ PruneKeeps \/ PruneDeletes \/ FinishRedeploy
  BY <1>2 DEF StartPrune, PruneKeeps, PruneDeletes, FinishRedeploy
<1>3. QED
  BY <1>1, <1>2 DEF Redeploy

\* What a live ValidatorConfig is spared of
SparedNow ==
    /\ ~terminating
    /\ running = None /\ detached = None
    /\ pc \in {"idle", "deploy", "prune", "patch", "patchStatus"}
    /\ NoDeletedCopy

LEMMA SparedByWorker ==
    ASSUME TypeOK, CopyIsVersionRead, Live => SparedNow, Worker, Live'
    PROVE  SparedNow'
<1> USE DEF stored, objectVars, helm, outside
<1>1. CASE ReadNotFound
  BY <1>1 DEF ReadNotFound, Live, SparedNow, NoDeletedCopy
<1>2. CASE Read
  <2>1. /\ UNCHANGED <<server, feed, cache, terminating, running, detached>>
        /\ cache # NoObject
    BY <1>2 DEF Read
  <2>2. SparedNow
    BY <2>1 DEF Live
  <2>3. pc' = "deploy"
    BY <1>2, <2>1, <2>2 DEF Read, SparedNow, NoDeletedCopy
  <2>4. QED
    BY <2>1, <2>2, <2>3 DEF SparedNow, NoDeletedCopy
<1>3. CASE Redeploy
  BY <1>3, RedeployFrame, RedeployStores DEF Live, SparedNow, NoDeletedCopy
<1>4. CASE PatchMetadata \/ PatchStatus
  <2>1. /\ pc' \in {"patchStatus", "idle"}
        /\ UNCHANGED <<running, detached, terminating>>
    BY <1>4, PatchOutcome
  <2>2. CASE UNCHANGED <<server, feed, cache>>
    BY <2>1, <2>2 DEF Live, SparedNow, NoDeletedCopy
  <2>3. ASSUME NEW obj \in Object, server # NoObject,
               obj.deleting = server.deleting, Store(obj)
        PROVE  SparedNow'
    <3>1. server' = obj
      BY <2>3 DEF Store, Write
    <3>2. ~obj.deleting /\ Live
      BY <2>3, <3>1 DEF Live
    <3>3. NoDeletedCopy'
      BY <2>3, <3>2, StoreNotDeleted DEF SparedNow
    <3>4. QED
      BY <2>1, <3>2, <3>3 DEF SparedNow
  <2>4. QED
    BY <1>4, <2>2, <2>3, PatchOutcome
<1>5. CASE Deletes
  BY <1>5, DeletesFrame DEF Live, SparedNow
<1>6. QED
  BY <1>1, <1>2, <1>3, <1>4, <1>5, WorkerCases

LEMMA SparedByOthers ==
    ASSUME Once, TypeOK, edits = 0 => NothingYet, Live => SparedNow,
           Environment, Live'
    PROVE  SparedNow'
<1> USE DEF stored, objectVars, helm, outside
<1>1. CASE Deliver
  BY <1>1, ReceiveNotDeleted DEF Deliver, ReceiveEvent, Live, SparedNow
<1>2. CASE Resync
  BY <1>2 DEF Resync, Live, SparedNow, NoDeletedCopy
<1>3. CASE Crash
  BY <1>3 DEF Crash, Relist, Live, SparedNow, NoDeletedCopy
<1>4. ASSUME NEW p \in Plugins, DeletionEnds(p) \/ IndexRelease(p) \/ SweepNamespace(p)
      PROVE  SparedNow'
  <2>1. Live
    BY <1>4 DEF DeletionEnds, IndexRelease, SweepNamespace, Live
  <2>2. ~DeletionEnds(p) /\ ~SweepNamespace(p)
    BY <2>1 DEF SparedNow, DeletionEnds, SweepNamespace, None
  <2>3. QED
    BY <1>4, <2>1, <2>2 DEF IndexRelease, SparedNow, NoDeletedCopy
<1>5. ASSUME NEW spec \in Specs, Create(spec)
      PROVE  SparedNow'
  <2>1. UserStep("create") /\ edits = 0 /\ ~terminating
    <3>1. "create" \notin UserOps /\ ~UserStep("recreate")
      BY ConstantsAssumption DEF UserStep, Once
    <3>2. QED
      BY <1>5, <3>1 DEF Create, UserStep
  <2>2. NothingYet /\ NoDeletedCopy
    BY <2>1 DEF NothingYet, NoDeletedCopy
  <2>3. NewObject(spec) \in Object /\ ~NewObject(spec).deleting
    BY DEF NewObject, Object
  <2>4. NoDeletedCopy'
    BY <1>5, <2>2, <2>3, StoreNotDeleted DEF Create
  <2>5. QED
    BY <2>1, <2>2, <2>4 DEF UserStep, NothingYet, Untouched, SparedNow
<1>6. ASSUME NEW spec \in Specs, Edit(spec)
      PROVE  SparedNow'
  <2> DEFINE obj == [server EXCEPT !.plugins = spec]
  <2>1. server \in Object /\ Store(obj) /\ UserStep("edit")
    BY <1>6 DEF Edit, TypeOK, DataOK
  <2>2. obj \in Object /\ obj.deleting = server.deleting
    BY <2>1 DEF Object
  <2>3. server' = obj
    BY <2>1 DEF Store, Write
  <2>4. Live /\ ~obj.deleting
    BY <1>6, <2>2, <2>3 DEF Live, Edit
  <2> HIDE DEF obj
  <2>5. NoDeletedCopy'
    BY <2>1, <2>2, <2>4, StoreNotDeleted DEF SparedNow
  <2>6. QED
    BY <2>1, <2>4, <2>5 DEF UserStep, SparedNow
<1>7. CASE Delete \/ DeleteNamespace
  BY <1>7, DeletedIsNotLive
<1>8. QED
  BY <1>1, <1>2, <1>3, <1>4, <1>5, <1>6, <1>7 DEF Environment

LEMMA SparedInvariant ==
    ASSUME Once
    PROVE  Spec => []Spared
<1>1. Init => Spared
  BY DEF Init, CachedObjectInit, Spared, NothingYet, Untouched, Live
<1>2. SafetyInv /\ Spared /\ [Next]_vars => Spared'
  <2> SUFFICES ASSUME SafetyInv, Spared, [Next]_vars PROVE Spared'
    OBVIOUS
  <2>1. TypeOK /\ CopyIsVersionRead /\ edits \in Nat
    BY DEF SafetyInv, TypeOK, DataOK
  <2>2. edits' = 0 => NothingYet'
    <3>1. edits' = 0 => edits = 0
      BY <2>1, EditsGrow
    <3>2. QED
      BY <2>1, <3>1, NothingYetStep DEF Spared
  <2>3. ASSUME Live' PROVE SparedNow'
    <3>1. CASE Next
      BY <2>1, <2>3, <3>1, SparedByWorker, SparedByOthers
      DEF Next, Spared, SparedNow
    <3>2. CASE UNCHANGED vars
      BY <2>3, <3>2
      DEF vars, stored, objectVars, helm, outside, Spared, SparedNow, Live,
          NoDeletedCopy
    <3>3. QED
      BY <3>1, <3>2
  <2>4. QED
    BY <2>2, <2>3 DEF Spared, SparedNow
<1>3. QED
  BY <1>1, <1>2, SafetyInvariant, PTL DEF Spec

-----------------------------------------------------------------------------
(* Plugins keep running *)

\* The namespace goes only after the ValidatorConfig in it was deleted.
NamespaceStays == Live => ~terminating

LEMMA NamespaceStaysStep ==
    ASSUME TypeOK, CopyIsVersionRead, NamespaceStays, [Next]_vars
    PROVE  NamespaceStays'
<1> USE DEF stored, objectVars, helm, outside
<1>1. CASE Worker
  <2>1. CASE ReadNotFound \/ Read
    BY <2>1 DEF ReadNotFound, Read, NamespaceStays, Live
  <2>2. CASE Redeploy
    BY <2>2, RedeployFrame DEF NamespaceStays, Live
  <2>3. CASE PatchMetadata \/ PatchStatus
    BY <2>3, PatchOutcome DEF Store, Write, NamespaceStays, Live
  <2>4. CASE Deletes
    BY <2>4, DeletesFrame DEF NamespaceStays, Live
  <2>5. QED
    BY <1>1, <2>1, <2>2, <2>3, <2>4, WorkerCases
<1>2. CASE \/ Deliver \/ Resync \/ Crash \/ UNCHANGED vars
           \/ \E p \in Plugins :
                 DeletionEnds(p) \/ IndexRelease(p) \/ SweepNamespace(p)
  BY <1>2 DEF Deliver, ReceiveEvent, Resync, Crash, Relist, DeletionEnds,
     IndexRelease, SweepNamespace, vars, NamespaceStays, Live
<1>3. ASSUME NEW spec \in Specs, Create(spec)
      PROVE  NamespaceStays'
  BY <1>3 DEF Create, UserStep, NamespaceStays
<1>4. ASSUME NEW spec \in Specs, Edit(spec)
      PROVE  NamespaceStays'
  BY <1>4 DEF Edit, Store, Write, UserStep, TypeOK, DataOK, Object,
     NamespaceStays, Live
<1>5. CASE Delete \/ DeleteNamespace
  BY <1>5, DeletedIsNotLive DEF NamespaceStays
<1>6. QED
  BY <1>1, <1>2, <1>3, <1>4, <1>5 DEF Next, Environment

\* A step that takes down a release that runs, while the ValidatorConfig is
\* live, is one of the removal loop or of a deletion under way.
LEMMA TakenDown ==
    ASSUME TypeOK, CopyIsVersionRead, NamespaceStays, Live, [Next]_vars,
           NEW p \in Plugins, release[p] \in Deployed
    PROVE  \/ release'[p] \in Deployed
           \/ pc = "prune" /\ p \notin SpecNames(work)
           \/ running[p] + detached[p] > 0
<1> USE DEF stored, helm
<1>1. release \in [Plugins -> Deployed \cup {NoRelease, Broken}]
  BY DEF TypeOK, DataOK
<1>2. release[p] # NoRelease /\ release[p] # Broken
  BY ReleaseAssumption
<1>3. CASE Worker
  <2>1. CASE SkipPlugin \/ PrepareFails \/ StartPrune \/ PruneKeeps \/ FinishRedeploy
    BY <2>1 DEF SkipPlugin, PrepareFails, StartPrune, PruneKeeps, FinishRedeploy
  <2>2. CASE UpgradeSucceeds
    <3>1. Plugin.name \in Plugins /\ Plugin.values \in Values
          /\ Plugin.version \in Versions
      BY <2>2, PluginType DEF UpgradeSucceeds, Deploying, TypeOK
    <3>2. [values |-> Plugin.values, version |-> Plugin.version] \in Deployed
      BY <3>1 DEF Deployed
    <3>3. QED
      BY <1>1, <2>2, <3>1, <3>2 DEF UpgradeSucceeds
  <2>3. CASE UpgradeFails \/ UpgradeRefused
    BY <1>1, <1>2, <2>3 DEF UpgradeFails, UpgradeRefused, Installed
  <2>4. CASE PruneDeletes
    BY <1>1, <2>4 DEF PruneDeletes, Removed
  <2>5. CASE ReadNotFound \/ Read
    BY <2>5 DEF ReadNotFound, Read
  <2>6. CASE PatchMetadata \/ PatchStatus
    BY <2>6, PatchOutcome
  <2>7. CASE Deletes
    BY <2>7, DeletesFrame
  <2>8. QED
    BY <1>3, <2>1, <2>2, <2>3, <2>4, <2>5, <2>6, <2>7, WorkerCases DEF Redeploy
<1>4. CASE Deliver \/ Resync \/ Crash
  BY <1>4 DEF Deliver, Resync, Crash
<1>5. ASSUME NEW q \in Plugins, DeletionEnds(q) \/ IndexRelease(q) \/ SweepNamespace(q)
      PROVE  release'[p] = release[p] \/ running[p] + detached[p] > 0
  <2>1. CASE IndexRelease(q)
    BY <2>1 DEF IndexRelease
  <2>2. CASE DeletionEnds(q)
    <3>1. running[p] \in Nat /\ detached[p] \in Nat
      BY DEF TypeOK, DataOK
    <3>2. CASE q = p
      BY <2>2, <3>1, <3>2 DEF DeletionEnds
    <3>3. CASE q # p
      BY <1>1, <2>2, <3>3 DEF DeletionEnds
    <3>4. QED
      BY <3>2, <3>3
  <2>3. ~SweepNamespace(q)
    BY DEF NamespaceStays, SweepNamespace
  <2>4. QED
    BY <1>5, <2>1, <2>2, <2>3
<1>6. CASE \/ \E spec \in Specs : Create(spec) \/ Edit(spec)
           \/ Delete \/ DeleteNamespace
  BY <1>6 DEF Create, Edit, Delete, DeleteNamespace, UserStep
<1>7. CASE UNCHANGED vars
  BY <1>7 DEF vars
<1>8. QED
  BY <1>3, <1>4, <1>5, <1>6, <1>7 DEF Next, Environment

\* Until somebody deletes the ValidatorConfig, nothing takes down a plugin that
\* runs and that the list which was read names - no failing upgrade, no outdated
\* read and no restart - but a goroutine that an earlier ValidatorConfig has left
\* behind.
THEOREM PluginsKeepRunning == Spec => KeepsRunning
<1>1. Init => NamespaceStays
  BY DEF Init, NamespaceStays
<1>2. SafetyInv /\ NamespaceStays /\ [Next]_vars => NamespaceStays'
  BY NamespaceStaysStep DEF SafetyInv
<1>3. SafetyInv /\ NamespaceStays /\ [Next]_vars =>
          [Live => \A p \in Plugins : release[p] \in Deployed =>
                      \/ release'[p] \in Deployed
                      \/ pc = "prune" /\ p \notin SpecNames(work)
                      \/ running[p] + detached[p] > 0]_vars
  BY TakenDown DEF SafetyInv
<1>4. QED
  BY <1>1, <1>2, <1>3, SafetyInvariant, PTL DEF Spec, KeepsRunning, Live

\* A ValidatorConfig that is created once has no such goroutine to fear: for as
\* long as nobody deletes it, only the removal loop takes down a plugin.
THEOREM OnlyRemovalTakesDown ==
    ASSUME Once
    PROVE  Spec => [][Live => \A p \in Plugins : release[p] \in Deployed =>
                                 \/ release'[p] \in Deployed
                                 \/ pc = "prune" /\ p \notin SpecNames(work)]_vars
<1>1. SafetyInv /\ Spared /\ [Next]_vars =>
          [Live => \A p \in Plugins : release[p] \in Deployed =>
                      \/ release'[p] \in Deployed
                      \/ pc = "prune" /\ p \notin SpecNames(work)]_vars
  <2> SUFFICES ASSUME SafetyInv, Spared, Live, [Next]_vars,
                      NEW p \in Plugins, release[p] \in Deployed
               PROVE  \/ release'[p] \in Deployed
                      \/ pc = "prune" /\ p \notin SpecNames(work)
    OBVIOUS
  <2>1. NamespaceStays /\ running[p] = 0 /\ detached[p] = 0
    BY DEF Spared, NamespaceStays, None
  <2>2. QED
    BY <2>1, TakenDown DEF SafetyInv
<1>2. QED
  BY <1>1, SafetyInvariant, SparedInvariant, PTL DEF Spec
=============================================================================
