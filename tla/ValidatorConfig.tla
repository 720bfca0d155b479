-------------------------- MODULE ValidatorConfig --------------------------
(***************************************************************************)
(* The ValidatorConfig controller of                                       *)
(* internal/controller/validatorconfig_controller.go: one ValidatorConfig, *)
(* the Helm releases of the plugins it lists, and the single worker that   *)
(* reconciles the one with the other.                                      *)
(*                                                                         *)
(* Every API or Helm call of a reconciliation is a step of its own, since  *)
(* users, the caches, detached goroutines and a crash may come in between. *)
(* A values hash is modelled by the values it was computed from (SHA-256   *)
(* has no collisions that matter here).                                    *)
(***************************************************************************)
EXTENDS CachedObject, Integers

CONSTANTS
    Plugins,        \* chart names, which are also the Helm release names
    Values,         \* the Helm values a user may give a plugin
    Versions,       \* the chart versions a user may give a plugin
    Specs,          \* the spec.plugins lists a user may submit
    NoHash,         \* no values hash annotation for a plugin
    NoRelease,      \* Helm knows no release of that name
    Broken,         \* a release whose installation failed: Helm refuses to
                    \* upgrade it with "... has no deployed releases"
    StaleReads,     \* the worker may read before its caches show all writes
    Faults,         \* the kinds of call that may fail
    MaxFaults,      \* bound: how many calls fail
    MaxCrashes,     \* bound: how often the controller restarts
    CleanupServer,  \* CLEANUP_GRPC_SERVER_ENABLED is "true"
    MaxGoroutines,  \* bound: how many deletions of one release overlap
    UserOps,        \* what users do besides creating a ValidatorConfig
    MaxEdits        \* bound: how often the user writes the ValidatorConfig

HelmRelease == [name : Plugins, values : Values, version : Versions]
FaultKinds == {"prepare", "helm", "lookup", "decode", "namespace",
               "patch", "status", "update", "emit"}

ASSUME ConstantsAssumption ==
    /\ Specs \subseteq Seq(HelmRelease)
    /\ StaleReads \in BOOLEAN
    /\ CleanupServer \in BOOLEAN
    /\ Faults \subseteq FaultKinds
    /\ UserOps \subseteq {"edit", "delete", "recreate", "namespace"}
    /\ MaxFaults \in Nat
    /\ MaxCrashes \in Nat
    /\ MaxEdits \in Nat
    /\ MaxGoroutines \in Nat \ {0}
    /\ NoHash \notin Values

VARIABLES
    release,        \* per plugin: what Helm has installed
    indexed,        \* the plugins whose release secrets the cache holds
    terminating,    \* the namespace is being deleted
    due,            \* the work queue holds a request for the ValidatorConfig
    pc,             \* what the worker does next
    seen,           \* the ValidatorConfig as read (the patch helper's copy)
    work,           \* the ValidatorConfig as changed in memory
    i,              \* the index of the loop the worker is in
    conditions,     \* the plugin conditions built by redeployIfNeeded
    rebuilt,        \* one of them is new: its transition time differs
    fresh,          \* the API server still stores the version that was read
    running,        \* per plugin: deletion goroutines of this deletePlugins
    detached,       \* per plugin: those of a deletePlugins that returned early
    undeleted,      \* the plugins whose deletion failed in this deletePlugins
    troubled,       \* (history) the plugins whose preparation, upgrade or
                    \* deletion ever failed
    announced,      \* how the last FinalizeCleanup request to the cleanup job
                    \* ended: "no" before the first, then "sent" or "failed"
    dropped,        \* (history) the last request was dropped, as the namespace
                    \* could not be read
    faults, crashes, edits  \* what has been spent of the bounds

stored  == <<server, feed, cache, fresh>>
helm    == <<release, running, detached, undeleted, troubled>>
memory  == <<seen, work, i, conditions, rebuilt>>
outside == <<indexed, terminating, announced, dropped>>
spent   == <<faults, crashes, edits>>
vars == <<stored, helm, memory, outside, spent, due, pc>>

-----------------------------------------------------------------------------
(* Data *)

Condition == [plugin : Plugins, ok : BOOLEAN]
Deployed == [values : Values, version : Versions]
Object ==
    [plugins   : Specs,
     hash      : [Plugins -> Values \cup {NoHash}],
     conds     : Seq(Condition),
     finalizer : BOOLEAN,
     deleting  : BOOLEAN]

ASSUME NoObjectAssumption == NoObject \notin Object
ASSUME ReleaseAssumption == NoRelease \notin Deployed /\ Broken \notin Deployed

NewObject(spec) ==
    [plugins |-> spec, hash |-> [p \in Plugins |-> NoHash], conds |-> <<>>,
     finalizer |-> FALSE, deleting |-> FALSE]

Installed(p) == release[p] # NoRelease
SpecNames(vc) == {vc.plugins[k].name : k \in DOMAIN vc.plugins}

\* isConditionTrue: the first condition of the plugin decides
IsConditionTrue(vc, p) ==
    \E k \in DOMAIN vc.conds :
        /\ vc.conds[k] = [plugin |-> p, ok |-> TRUE]
        /\ \A m \in 1 .. k - 1 : vc.conds[m].plugin # p

None == [p \in Plugins |-> 0]
Plus(f, g) == [p \in Plugins |-> f[p] + g[p]]
\* (mutation) wg.Add is forgotten
NotCounted(f, p) == f

Inc(f, p) == [f EXCEPT ![p] = @ + 1]

\* (mutation) wg.Done is called twice
DoneTwice(f, p) == [f EXCEPT ![p] = @ - 2]

Dec(f, p) == [f EXCEPT ![p] = @ - 1]

-----------------------------------------------------------------------------
Init ==
    /\ CachedObjectInit
    /\ release = [p \in Plugins |-> NoRelease]
    /\ indexed = {}
    /\ terminating = FALSE
    /\ due = FALSE
    /\ pc = "idle"
    /\ seen = NoObject
    /\ work = NoObject
    /\ i = 1
    /\ conditions = <<>>
    /\ rebuilt = FALSE
    /\ fresh = FALSE
    /\ running = None
    /\ detached = None
    /\ undeleted = {}
    /\ troubled = {}
    /\ announced = "no"
    /\ dropped = FALSE
    /\ faults = 0 /\ crashes = 0 /\ edits = 0

\* A call of this kind fails.
Fails(kind) ==
    /\ kind \in Faults
    /\ faults < MaxFaults
    /\ faults' = faults + 1

\* Everybody's writes to the ValidatorConfig
Store(obj) ==
    /\ Write(obj)
    /\ fresh' = (fresh /\ obj = server)
    /\ UNCHANGED cache

\* The worker is done; the request is due again when requeue holds.
Return(requeue) ==
    /\ pc' = "idle"
    /\ seen' = NoObject
    /\ work' = NoObject
    /\ i' = 1
    /\ conditions' = <<>>
    /\ rebuilt' = FALSE
    /\ due' = (due \/ requeue)

-----------------------------------------------------------------------------
(* Reconcile *)

CanRead == pc = "idle" /\ due /\ (StaleReads \/ feed = <<>>)

ReadNotFound ==
    /\ CanRead
    /\ cache = NoObject
    /\ due' = FALSE
    /\ UNCHANGED <<stored, helm, memory, outside, spent, pc>>

Read ==
    /\ CanRead
    /\ cache # NoObject
    /\ due' = FALSE
    /\ seen' = cache
    /\ work' = cache
    /\ fresh' = (feed = <<>>)
    /\ pc' = IF cache.deleting THEN "namespace" ELSE "deploy"
    /\ undeleted' = {}
    /\ dropped' = FALSE
    /\ UNCHANGED <<objectVars, indexed, terminating, announced, spent, release,
                   running, detached, troubled, i, conditions, rebuilt>>

-----------------------------------------------------------------------------
(* redeployIfNeeded: one step per plugin *)

Plugin == work.plugins[i]
Deploying == pc = "deploy" /\ i \in DOMAIN work.plugins

\* updatePluginHash, before anything that can fail
HashUpdated == [work EXCEPT !.hash[Plugin.name] = Plugin.values]

\* conditions[i] is set and the loop goes on
SetCondition(ok) ==
    /\ conditions' = Append(conditions, [plugin |-> Plugin.name, ok |-> ok])
    /\ work' = HashUpdated
    /\ i' = i + 1
    /\ troubled' = IF ok THEN troubled ELSE troubled \cup {Plugin.name}
    /\ UNCHANGED <<stored, outside, pc, seen, due, running, detached,
                   undeleted, crashes, edits>>

\* (mutation) the condition alone decides
UnchangedCondition == IsConditionTrue(work, Plugin.name)

\* (mutation) the hash alone decides
UnchangedHash == work.hash[Plugin.name] = Plugin.values

Unchanged ==
    /\ IsConditionTrue(work, Plugin.name)
    /\ work.hash[Plugin.name] = Plugin.values

SkipPlugin ==
    /\ Deploying /\ Unchanged
    /\ SetCondition(TRUE)
    /\ UNCHANGED <<rebuilt, release, faults>>

\* The auth secret or the OCI registry fails: Helm is not called.
PrepareFails ==
    /\ Deploying /\ ~Unchanged
    /\ Fails("prepare")
    /\ SetCondition(FALSE)
    /\ rebuilt' = TRUE
    /\ UNCHANGED release

UpgradeSucceeds ==
    /\ Deploying /\ ~Unchanged
    /\ release[Plugin.name] # Broken
    /\ ~terminating
    /\ release' = [release EXCEPT ![Plugin.name] =
                      [values |-> Plugin.values, version |-> Plugin.version]]
    /\ SetCondition(TRUE)
    /\ rebuilt' = TRUE
    /\ UNCHANGED faults

\* (mutation) whatever the error was, the release is deleted
UpgradeFailsDeletes ==
    /\ Deploying /\ ~Unchanged
    /\ release[Plugin.name] # Broken
    /\ \/ Fails("helm")
       \/ terminating /\ UNCHANGED faults
    /\ release' = [release EXCEPT ![Plugin.name] = NoRelease]
    /\ SetCondition(FALSE)
    /\ rebuilt' = TRUE

\* A failed installation may leave a broken release behind; a failed upgrade
\* leaves the deployed revision.  Nothing can be installed in a terminating
\* namespace.
UpgradeFails ==
    /\ Deploying /\ ~Unchanged
    /\ release[Plugin.name] # Broken
    /\ \/ Fails("helm")
       \/ terminating /\ UNCHANGED faults
    /\ \/ UNCHANGED release
       \/ /\ ~Installed(Plugin.name) /\ ~terminating
          /\ release' = [release EXCEPT ![Plugin.name] = Broken]
    /\ SetCondition(FALSE)
    /\ rebuilt' = TRUE

\* Helm refuses a broken release, which is then deleted.
UpgradeRefused ==
    /\ Deploying /\ ~Unchanged
    /\ release[Plugin.name] = Broken
    /\ \/ /\ release' = [release EXCEPT ![Plugin.name] = NoRelease]
          /\ UNCHANGED faults
       \/ Fails("helm") /\ UNCHANGED release
    /\ SetCondition(FALSE)
    /\ rebuilt' = TRUE

StartPrune ==
    /\ pc = "deploy" /\ i \notin DOMAIN work.plugins
    /\ pc' = "prune"
    /\ i' = 1
    /\ UNCHANGED <<stored, helm, outside, spent, seen, work, conditions,
                   rebuilt, due>>

\* (mutation) the failed plugins are removed, not the installed ones
RemovedFailed(c) == ~c.ok /\ c.plugin \notin SpecNames(work)

\* The removal loop runs over the conditions of the previous status.
Removed(c) == c.ok /\ c.plugin \notin SpecNames(work)

PruneKeeps ==
    /\ pc = "prune" /\ i \in DOMAIN work.conds
    /\ ~Removed(work.conds[i])
    /\ i' = i + 1
    /\ UNCHANGED <<stored, helm, outside, spent, pc, seen, work, conditions,
                   rebuilt, due>>

\* deletePlugin only logs an error; the annotation goes either way.
PruneDeletes ==
    /\ pc = "prune" /\ i \in DOMAIN work.conds
    /\ Removed(work.conds[i])
    /\ LET p == work.conds[i].plugin IN
         /\ \/ /\ release' = [release EXCEPT ![p] = NoRelease]
               /\ UNCHANGED <<troubled, faults>>
            \/ /\ Fails("helm")
               /\ troubled' = troubled \cup {p}
               /\ UNCHANGED release
         /\ work' = [work EXCEPT !.hash[p] = NoHash]
    /\ i' = i + 1
    /\ UNCHANGED <<stored, outside, running, detached, undeleted, crashes,
                   edits, pc, seen, conditions, rebuilt, due>>

\* The new conditions replace the old ones, then ensureFinalizer.
FinishRedeploy ==
    /\ pc = "prune" /\ i \notin DOMAIN work.conds
    /\ work' = [work EXCEPT !.conds = conditions, !.finalizer = TRUE]
    /\ pc' = "patch"
    /\ UNCHANGED <<stored, helm, outside, spent, seen, i, conditions, rebuilt,
                   due>>

-----------------------------------------------------------------------------
(* The deferred patch: metadata first, then status.  Each is a merge patch  *)
(* of what changed between seen and work, applied to whatever the API       *)
(* server stores.  The second is sent even if the first failed.             *)

MetadataPatched(obj) ==
    [obj EXCEPT
        !.hash = [p \in Plugins |-> IF work.hash[p] # seen.hash[p]
                                    THEN work.hash[p] ELSE obj.hash[p]],
        !.finalizer = obj.finalizer \/ (work.finalizer /\ ~seen.finalizer)]

PatchMetadata ==
    /\ pc = "patch"
    /\ pc' = "patchStatus"
    /\ \/ /\ server = NoObject
          /\ UNCHANGED <<stored, faults>>
       \/ /\ server # NoObject
          /\ Store(MetadataPatched(server))
          /\ UNCHANGED faults
       \/ /\ Fails("patch")
          /\ UNCHANGED stored
    /\ UNCHANGED <<helm, memory, outside, crashes, edits, due>>

StatusPatched(obj) ==
    IF rebuilt \/ work.conds # seen.conds
    THEN [obj EXCEPT !.conds = work.conds]
    ELSE obj

\* Either way the worker comes back: after 30 seconds, or to retry.
PatchStatus ==
    /\ pc = "patchStatus"
    /\ \/ /\ server = NoObject
          /\ UNCHANGED <<stored, faults>>
       \/ /\ server # NoObject
          /\ Store(StatusPatched(server))
          /\ UNCHANGED faults
       \/ /\ Fails("status")
          /\ UNCHANGED stored
    /\ Return(TRUE)
    /\ UNCHANGED <<helm, outside, crashes, edits>>

-----------------------------------------------------------------------------
(* Reconcile of a ValidatorConfig that is being deleted *)

\* An error that is not returned: nothing is requeued.
NamespaceLookupFails ==
    /\ pc = "namespace"
    /\ Fails("namespace")
    /\ Return(FALSE)
    /\ dropped' = TRUE
    /\ UNCHANGED <<stored, helm, indexed, terminating, announced, crashes, edits>>

\* The namespace is read from a cache too: it may not show the deletion yet.
LookupNamespace ==
    /\ pc = "namespace"
    /\ \/ terminating /\ pc' = "dropFinalizer"
       \/ pc' = "lookup"
    /\ UNCHANGED <<stored, helm, memory, outside, spent, due>>

\* deletePlugins: one step per plugin.  A release that is found is deleted by
\* a goroutine.
LookingUp ==
    /\ pc = "lookup" /\ i \in DOMAIN work.plugins
    /\ StaleReads \/ indexed = {p \in Plugins : Installed(p)}

LookupFinds ==
    /\ LookingUp
    /\ Plugin.name \in indexed
    /\ running[Plugin.name] + detached[Plugin.name] < MaxGoroutines
    /\ running' = Inc(running, Plugin.name)
    /\ i' = i + 1
    /\ UNCHANGED <<stored, outside, spent, release, detached, undeleted, troubled, pc,
                   seen, work, conditions, rebuilt, due>>

\* Returning early leaves the goroutines behind.
Detach ==
    /\ detached' = Plus(detached, running)
    /\ running' = None
    /\ UNCHANGED <<release, undeleted, troubled>>

\* The release client skips the secrets it cannot decode: a release with no
\* other is not found either.
NoRevision ==
    \/ Plugin.name \notin indexed /\ UNCHANGED faults
    \/ Plugin.name \in indexed /\ Fails("decode")

\* (mutation) a release that is gone is an error, and the deletion is retried
LookupNotFoundRetries ==
    /\ LookingUp
    /\ NoRevision
    /\ Detach
    /\ Return(TRUE)
    /\ UNCHANGED <<stored, outside, crashes, edits>>

LookupNotFound ==
    /\ LookingUp
    /\ NoRevision
    /\ Detach
    /\ pc' = "unfinalize"
    /\ UNCHANGED <<stored, memory, outside, crashes, edits, due>>

\* (mutation) the error is not returned
LookupFailsSilently ==
    /\ LookingUp
    /\ Fails("lookup")
    /\ Detach
    /\ Return(FALSE)
    /\ UNCHANGED <<stored, outside, crashes, edits>>

LookupFails ==
    /\ LookingUp
    /\ Fails("lookup")
    /\ Detach
    /\ Return(TRUE)
    /\ UNCHANGED <<stored, outside, crashes, edits>>

\* (mutation) wg.Wait is forgotten
DoNotAwaitDeletions ==
    /\ pc = "lookup" /\ i \notin DOMAIN work.plugins
    /\ pc' = "unfinalize"
    /\ UNCHANGED <<stored, helm, memory, outside, spent, due>>

\* wg.Wait
AwaitDeletions ==
    /\ pc = "lookup" /\ i \notin DOMAIN work.plugins
    /\ running = None
    /\ pc' = "unfinalize"
    /\ UNCHANGED <<stored, helm, memory, outside, spent, due>>

\* A deletion goroutine ends; an error is only logged.
DeletionEnds(p) ==
    /\ \/ running[p] > 0 /\ running' = Dec(running, p) /\ UNCHANGED detached
       \/ detached[p] > 0 /\ detached' = Dec(detached, p) /\ UNCHANGED running
    /\ \/ /\ release' = [release EXCEPT ![p] = NoRelease]
          /\ UNCHANGED <<undeleted, troubled, faults>>
       \/ /\ Fails("helm")
          /\ undeleted' = undeleted \cup {p}
          /\ troubled' = troubled \cup {p}
          /\ UNCHANGED release
    /\ UNCHANGED <<stored, memory, outside, pc, crashes, edits, due>>

\* (mutation) the update does not depend on the version that was read
RemoveFinalizerAnyway ==
    /\ work.finalizer
    /\ server # NoObject
    /\ Store(IF work.deleting THEN NoObject
             ELSE [work EXCEPT !.finalizer = FALSE])

\* removeFinalizer replaces the whole object, which the API server refuses
\* unless it is the version that was read.  Without its last finalizer an
\* object that is being deleted is gone.
RemoveFinalizer ==
    /\ work.finalizer
    /\ fresh /\ server # NoObject
    /\ Store(IF work.deleting THEN NoObject
             ELSE [work EXCEPT !.finalizer = FALSE])

RemoveFinalizerFails ==
    /\ work.finalizer
    /\ \/ ~fresh /\ UNCHANGED faults
       \/ Fails("update")
    /\ UNCHANGED stored

\* The namespace is going away: the finalizer is all there is to remove.
DropFinalizer ==
    /\ pc = "dropFinalizer"
    /\ \/ RemoveFinalizer /\ Return(FALSE) /\ UNCHANGED faults
       \/ RemoveFinalizerFails /\ Return(TRUE)
    /\ UNCHANGED <<helm, outside, crashes, edits>>

\* The error is returned only after FinalizeCleanup was sent, so the retry is
\* noted here.
Unfinalize ==
    /\ pc = "unfinalize"
    /\ pc' = "emit"
    /\ \/ RemoveFinalizer /\ UNCHANGED <<due, faults>>
       \/ RemoveFinalizerFails /\ due' = TRUE
    /\ UNCHANGED <<helm, memory, outside, crashes, edits>>

\* emitFinalizeCleanup: an error is only logged, and without a cleanup job that
\* listens there is nothing to send.
EmitFinalizeCleanup ==
    /\ pc = "emit"
    /\ \/ ~CleanupServer /\ UNCHANGED <<announced, faults>>
       \/ CleanupServer /\ announced' = "sent" /\ UNCHANGED faults
       \/ CleanupServer /\ announced' = "failed" /\ Fails("emit")
    /\ Return(FALSE)
    /\ UNCHANGED <<stored, helm, crashes, edits, indexed, terminating, dropped>>

-----------------------------------------------------------------------------
(* Around the worker *)

\* Every watch event is also a request to reconcile.
Deliver ==
    /\ ReceiveEvent
    /\ due' = TRUE
    /\ UNCHANGED <<helm, memory, outside, spent, pc, fresh>>

\* The informers list their objects again every ten hours.
Resync ==
    /\ cache # NoObject /\ ~due
    /\ due' = TRUE
    /\ UNCHANGED <<stored, helm, memory, outside, spent, pc>>

\* The cache of Helm's release secrets follows at its own pace.
IndexRelease(p) ==
    /\ Installed(p) # (p \in indexed)
    /\ indexed' = IF Installed(p) THEN indexed \cup {p} ELSE indexed \ {p}
    /\ UNCHANGED <<stored, helm, memory, spent, pc, due, terminating,
                   announced, dropped>>

\* The controller restarts: what was in memory is lost.
Crash ==
    /\ crashes < MaxCrashes
    /\ crashes' = crashes + 1
    /\ Relist
    /\ pc' = "idle" /\ i' = 1 /\ conditions' = <<>> /\ rebuilt' = FALSE
    /\ seen' = NoObject /\ work' = NoObject
    /\ due' = (server # NoObject)
    /\ dropped' = FALSE
    /\ running' = None /\ detached' = None
    /\ indexed' = {p \in Plugins : Installed(p)}
    /\ UNCHANGED <<release, undeleted, troubled, fresh, terminating, announced, faults,
                   edits>>

UserStep(op) ==
    /\ op \in UserOps \/ (op = "create" /\ edits = 0)
    /\ edits < MaxEdits
    /\ edits' = edits + 1
    /\ terminating' = (terminating \/ op = "namespace")
    /\ UNCHANGED <<helm, memory, pc, due, indexed, announced, dropped, faults,
                   crashes>>

Create(spec) ==
    /\ server = NoObject /\ ~terminating
    /\ Store(NewObject(spec))
    /\ UserStep("create") \/ UserStep("recreate")

Edit(spec) ==
    /\ server # NoObject /\ spec # server.plugins
    /\ Store([server EXCEPT !.plugins = spec])
    /\ UserStep("edit")

\* Without a finalizer the object is gone at once.
Deletion ==
    Store(IF server.finalizer THEN [server EXCEPT !.deleting = TRUE]
          ELSE NoObject)

Delete ==
    /\ server # NoObject /\ ~server.deleting
    /\ Deletion
    /\ UserStep("delete")

DeleteNamespace ==
    /\ ~terminating
    /\ IF server = NoObject THEN UNCHANGED stored ELSE Deletion
    /\ UserStep("namespace")

\* The namespace controller deletes what the namespace holds.
SweepNamespace(p) ==
    /\ terminating /\ Installed(p)
    /\ release' = [release EXCEPT ![p] = NoRelease]
    /\ UNCHANGED <<stored, memory, outside, spent, pc, running, detached,
                   undeleted, troubled, due>>

-----------------------------------------------------------------------------
Worker ==
    \/ ReadNotFound \/ Read
    \/ SkipPlugin \/ PrepareFails
    \/ UpgradeSucceeds \/ UpgradeFails \/ UpgradeRefused
    \/ StartPrune \/ PruneKeeps \/ PruneDeletes \/ FinishRedeploy
    \/ PatchMetadata \/ PatchStatus
    \/ NamespaceLookupFails \/ LookupNamespace
    \/ LookupFinds \/ LookupNotFound \/ LookupFails \/ AwaitDeletions
    \/ DropFinalizer \/ Unfinalize \/ EmitFinalizeCleanup

Environment ==
    \/ Deliver \/ Resync \/ Crash
    \/ \E p \in Plugins :
          DeletionEnds(p) \/ IndexRelease(p) \/ SweepNamespace(p)
    \/ \E spec \in Specs : Create(spec) \/ Edit(spec)
    \/ Delete \/ DeleteNamespace

Next == Worker \/ Environment

Spec == Init /\ [][Next]_vars

\* The worker, its goroutines and the informers keep running; users, faults
\* and crashes need not happen.  The resync is relied on only for a request that
\* was dropped: the code asks for all others itself.
Fairness ==
    /\ WF_vars(Worker)
    /\ WF_vars(Deliver)
    /\ WF_vars(dropped /\ Resync)
    /\ \A p \in Plugins :
          /\ WF_vars(DeletionEnds(p))
          /\ WF_vars(IndexRelease(p))
          /\ WF_vars(SweepNamespace(p))

FairSpec == Spec /\ Fairness

-----------------------------------------------------------------------------
(* Properties *)

FlagsOK ==
    /\ terminating \in BOOLEAN
    /\ due \in BOOLEAN
    /\ rebuilt \in BOOLEAN
    /\ fresh \in BOOLEAN
    /\ announced \in {"no", "sent", "failed"}
    /\ dropped \in BOOLEAN

DataOK ==
    /\ server \in Object \cup {NoObject}
    /\ feed \in Seq(Object \cup {NoObject})
    /\ cache \in Object \cup {NoObject}
    /\ release \in [Plugins -> Deployed \cup {NoRelease, Broken}]
    /\ indexed \subseteq Plugins
    /\ pc \in {"idle", "deploy", "prune", "patch", "patchStatus", "namespace",
               "lookup", "dropFinalizer", "unfinalize", "emit"}
    /\ IF pc = "idle" THEN seen = NoObject /\ work = NoObject
                      ELSE seen \in Object /\ work \in Object
    /\ i \in Nat \ {0}
    /\ conditions \in Seq(Condition)
    /\ running \in [Plugins -> Nat]
    /\ detached \in [Plugins -> Nat]
    /\ undeleted \subseteq Plugins
    /\ troubled \subseteq Plugins
    /\ faults \in Nat /\ crashes \in Nat /\ edits \in Nat

\* Every variable keeps its type; the worker holds copies of the object while
\* it reconciles and only then.
TypeOK == DataOK /\ FlagsOK

\* Once deletePlugins has gone through the whole list, wg.Wait guarantees that
\* every listed release is gone, or that its deletion failed and was logged:
\* the finalizer is not dropped while Helm is still uninstalling.
DeletionsAwaited ==
    pc = "unfinalize" /\ i \notin DOMAIN work.plugins =>
        \A p \in SpecNames(work) : ~Installed(p) \/ p \in undeleted

\* The controller never undoes a user's write: it does not touch the plugin
\* list or the deletion mark, and it only removes an object that the user
\* deleted.  The patches are merge patches, and removeFinalizer's full update
\* depends on the resource version it read.
UserWritesSurvive ==
    [][Worker =>
        \/ server' = server
        \/ /\ server # NoObject /\ server' # NoObject
           /\ server'.plugins = server.plugins
           /\ server'.deleting = server.deleting
        \/ server # NoObject /\ server.deleting /\ server' = NoObject]_vars

\* Whatever is lost, fails, comes late or restarts, a ValidatorConfig that is
\* there is not forgotten: when the worker rests, a request for it is queued or
\* an event that makes one is on its way.  Only a deletion whose namespace
\* could not be read is dropped, until the informers list again: every other
\* error of the deletion is returned, and nothing comes after a drop unasked.
NeverForgotten ==
    pc = "idle" /\ server # NoObject =>
        due \/ feed # <<>> \/ (server.deleting /\ dropped)

\* What both rest on.  The copy the worker holds is the stored version for as
\* long as fresh says so, and on the deletion path it is still the copy that
\* was read: that makes removeFinalizer's full update harmless.
CopyIsVersionRead ==
    /\ CacheFollowsServer
    /\ pc \in {"namespace", "lookup", "dropFinalizer", "unfinalize"} =>
          work = seen /\ work.deleting
    /\ pc # "idle" /\ fresh => server = seen

\* The lookup loop has a goroutine for each release it is past, until that
\* goroutine has ended with or without success.
LookedUpIsHandled ==
    /\ pc \in {"idle", "namespace"} => i = 1
    /\ pc = "lookup" =>
          \A k \in DOMAIN work.plugins : k < i =>
              LET p == work.plugins[k].name IN
              ~Installed(p) \/ p \in undeleted \/ running[p] > 0

SafetyInv == TypeOK /\ CopyIsVersionRead /\ LookedUpIsHandled /\ DeletionsAwaited

\* When both records that let redeployIfNeeded skip a plugin agree with each
\* other, they also agree with Helm: a plugin that is skipped does run with
\* the values of the hash.
SkippedIsDeployed ==
    pc = "idle" /\ server # NoObject /\ ~server.deleting =>
        \A p \in Plugins :
            IsConditionTrue(server, p) /\ server.hash[p] # NoHash =>
                /\ release[p] \notin {NoRelease, Broken}
                /\ release[p].values = server.hash[p]

\* Between reconciliations every installed release is one that the controller
\* will still find, because the spec lists it or a True condition has it
\* pruned.  Only a plugin can escape whose preparation (auth secret, OCI
\* registry), upgrade or deletion failed at some time.
ReleasesTracked ==
    pc = "idle" /\ server # NoObject /\ ~server.deleting =>
        \A p \in Plugins \ troubled :
            Installed(p) => p \in SpecNames(server) \/ IsConditionTrue(server, p)

\* What a pass of redeployIfNeeded reports is so when it is reported: a plugin
\* with a True condition runs with the values of the list that was read, and
\* what that list no longer names is gone, unless its preparation, its upgrade
\* or its deletion failed at some time.
PassDeploys ==
    pc \in {"patch", "patchStatus"} /\ server # NoObject /\ ~server.deleting =>
        /\ \A k \in DOMAIN conditions : conditions[k].ok =>
              LET plugin == work.plugins[k] IN
              /\ release[plugin.name] \in Deployed
              /\ release[plugin.name].values = plugin.values
        /\ \A p \in Plugins \ (SpecNames(work) \cup troubled) : ~Installed(p)

\* Until somebody deletes the ValidatorConfig, a plugin that runs is taken down
\* only because the list that was read does not name it, or by a goroutine that
\* still deletes the plugins of an earlier ValidatorConfig: no failed upgrade, no
\* restart between an upgrade and its record and no outdated read does it.
KeepsRunning ==
    [][server # NoObject /\ ~server.deleting =>
        \A p \in Plugins : release[p] \in Deployed =>
            \/ release'[p] \in Deployed
            \/ pc = "prune" /\ p \notin SpecNames(work)
            \/ running[p] + detached[p] > 0]_vars

\* What users may rely on until they delete the ValidatorConfig: Deployment is
\* the contract.  In particular an edit during a reconciliation changes nothing
\* of what that reconciliation does, and no condition is True of a plugin that
\* was not upgraded to the values of the list that was read.
Live == server # NoObject /\ ~server.deleting
Busy == Live /\ pc # "idle"

Wishes(vc) ==
    {[plugin |-> vc.plugins[k].name, values |-> vc.plugins[k].values] :
        k \in DOMAIN vc.plugins}

RunsWith == [p \in Plugins |-> IF release[p] \in Deployed
                               THEN release[p].values ELSE NoHash]

Contract ==
    INSTANCE Deployment WITH
        NoValues <- NoHash,
        live     <- Live,
        wanted   <- IF Live THEN Wishes(server) ELSE {},
        busy     <- Busy,
        plan     <- IF Busy THEN Wishes(work) ELSE {},
        deployed <- RunsWith,
        reported <- IF Live THEN {p \in Plugins : IsConditionTrue(server, p)} ELSE {},
        failed   <- troubled

DeploysAsPromised == Contract!Spec

DesiredState ==
    \A p \in Plugins :
        IF p \in SpecNames(server)
        THEN \E k \in DOMAIN server.plugins :
                /\ server.plugins[k].name = p
                /\ release[p] \in Deployed
                /\ release[p].values = server.plugins[k].values
        ELSE ~Installed(p) \/ p \in troubled

\* When users and faults calm down, Helm ends up with exactly the plugins of
\* the spec, each with the values of the spec - but for the releases of
\* removed plugins whose preparation, upgrade or deletion failed at some time.
Converges ==
    <>[](server = NoObject \/ server.deleting \/ terminating \/ DesiredState)

\* A deleted ValidatorConfig does not stay around forever, and the cleanup
\* job that waits for its deletion, if there is one, is told: without an attempt
\* to tell it, which may fail, no deletion is complete.
DeletionCompletes ==
    (server # NoObject /\ server.deleting)
        ~> (server = NoObject /\ (CleanupServer => announced # "no"))

-----------------------------------------------------------------------------
(* What comments in the code say, and the code does not keep to *)

\* "deletePlugins deletes each validator plugin's Helm release": when it
\* returns without an error, every release is gone or is being deleted.
DeletesEachPlugin ==
    pc = "unfinalize" =>
        \A p \in SpecNames(work) :
            Installed(p) => running[p] + detached[p] > 0 \/ p \in undeleted

\* "CleanupFinalizer ensures that plugin Helm releases are properly garbage
\* collected": the ValidatorConfig outlives its releases.
ReleasesCollected ==
    pc = "idle" /\ server = NoObject /\ detached = None =>
        \A p \in Plugins : ~Installed(p)

\* "delete any plugins that have been removed": a plugin that runs and that the
\* spec no longer lists is still known to the removal loop, unless that loop has
\* tried to delete it, which takes its annotation away.
RemovedPluginsTracked ==
    pc = "idle" /\ server # NoObject /\ ~server.deleting =>
        \A p \in Plugins :
            release[p] \in Deployed =>
                \/ p \in SpecNames(server)
                \/ IsConditionTrue(server, p)
                \/ server.hash[p] = NoHash

\* "if Helm install/upgrade failed [...] installation is reattempted each
\* iteration": no reconciliation skips a plugin whose values are not deployed.
FailuresReattempted ==
    pc = "idle" /\ server # NoObject /\ ~server.deleting =>
        \A p \in SpecNames(server) : \A k \in DOMAIN server.plugins :
            /\ server.plugins[k].name = p
            /\ IsConditionTrue(server, p)
            /\ server.hash[p] = server.plugins[k].values
            => /\ release[p] \in Deployed
               /\ release[p].values = server.plugins[k].values

=============================================================================
