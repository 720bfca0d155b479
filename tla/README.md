# Validator: a verification project in TLA+

Validator is a Kubernetes operator. A user creates a `ValidatorConfig` that lists
*plugins* (Helm charts). The operator installs them with Helm; each plugin
evaluates its rules again and again and records what they say in a
`ValidationResult`; the operator reports every complete `ValidationResult` to a
*sink* (Alertmanager or Slack).

What makes this code hard to get right is that nothing in it is atomic. Every
reconciliation reads an object from an informer cache that may be behind, works
on a copy for as long as Helm or a sink takes, and then writes what it changed
with *two* merge patches onto whatever is stored by then. Users, other
controllers, goroutines and restarts come in between. The modules here make each
of those calls a step of its own.

All paths below are relative to `src/`.

## 1. Inventory

| Component | State | Operations | Interacts with |
|---|---|---|---|
| ValidatorConfig controller (`internal/controller/validatorconfig_controller.go`) | one worker; the object: plugin list, hash annotation and condition per plugin, finalizer | `Reconcile`, `redeployIfNeeded`, `deletePlugins` (a goroutine per release), `ensureFinalizer`, `removeFinalizer`, `emitFinalizeCleanup` | API server, caches, Helm CLI, release client, cleanup job |
| ValidationResult controller (`internal/controller/validationresult_controller.go`) | hash annotation and `SinkEmission` condition of the object | `Reconcile`, `emitToSink` | API server, caches, `ValidatorConfig`, sinks |
| validationresult library (`pkg/validationresult`, `pkg/types`) | the status of a `ValidationResult`, in memory and stored | `HandleNew`, `HandleExisting`, `SafeUpdate`, `Finalize`, `updateStatus` | called by each plugin process; shares the object with the controller |
| API objects (`api/v1alpha1`) | field layout, `ValidationResult.Hash` | | both controllers, plugins |
| sinks (`pkg/sinks`) | the transport of one HTTP client, which all sinks and the rest of the program share | `NewSink`, `NewClient`, `Configure`, `Emit` | Alertmanager, Slack, the secret that the `ValidatorConfig` names |
| Helm CLI client (`pkg/helm`) | temporary files of a call | `Upgrade`, `Delete`, `Pull` | the helm binary |
| Helm release client (`pkg/helm/release`) | none | `Get`, `List` | release secrets in the cache |
| reconciliation frequency (`pkg/plugins`) | none | `FrequencyFromAnnotations` | plugins |
| utilities, rule helpers, kube configuration | none | pure functions | plugins, main |
| manager (`cmd/main.go`) | client that reads from caches, one worker per controller | | everything |

What makes each correct, in a sentence:

* **ValidatorConfig controller**: in the end Helm has exactly the plugins of the
  spec with its values; what is skipped is deployed; nothing that is installed is
  forgotten; a deletion ends, and not before Helm is done; users' writes survive.
* **ValidationResult controller**: a complete result reaches the sink; an
  unchanged one does not reach it again; a recorded hash is never a reason to
  miss a result.
* **Sinks**: a request goes out with the settings of the secret it was made from,
  whatever was configured before; a request that is refused shows as a failure.
* **Helm CLI client**: a call takes effect at one moment or fails, whatever other
  calls do; helm reads the files its own call wrote; no path leaves one behind.
* **validationresult library**: the state is the verdict on the conditions stored
  next to it; one condition per rule; in the end both say what the rules return.

`PROJECT.json` lists the hazards at the line where each bites, with the properties
that would catch it.

## 2. Plan

1. **Done:** `CachedObject`; `ValidatorConfig` and its proofs, those about its records
   of what is deployed included; `ValidationResult`, `Sinks`, `ResultPlugin` (with the
   reconciliation frequency), `ResultController`, composed in `ValidationResults`, and
   their proofs; the three contracts `HelmReleases`, `Deployment` and `Reporting`, each
   implemented by a detailed module, with the proofs that it is.
2. **Left:** the correspondence of `ValidatorConfig` and `HelmReleases` (end of
   section 3) as a checked refinement; `Sanitize` with the names of several results;
   plugin versions.

## 3. The modules

| Module | Models | Extended by |
|---|---|---|
| `CachedObject` | one object in the API server, its watch events, one informer cache (external code, as `cmd/main.go` uses it) | both halves |
| `ValidatorConfig` | the ValidatorConfig controller | `MCValidatorConfig`, `ValidatorConfig_proofs`, `Releases_proofs`, and through that `Lifetime_proofs` and `Deployment_proofs` |
| `Deployment` | what users rely on: which plugins run, from which list, and what is reported of them | instantiated by `ValidatorConfig` as `Contract` |
| `ValidationResult` | the object that plugin and controller share; two caches of it | `Sinks`, `ResultPlugin` |
| `Sinks` | `pkg/sinks`: which secrets each sink accepts, the shared HTTP client, which requests are refused | `ResultController` |
| `ResultPlugin` | a plugin process that uses `pkg/validationresult` | `ValidationResults` |
| `ResultController` | the ValidationResult controller | `ValidationResults` |
| `ValidationResults` | both, with users who delete the result and reconfigure the sink | `MCValidationResults`, `ValidationResults_proofs`, and through it `ResultStatus_proofs` and `Reporting_proofs` |
| `Reporting` | what the sink relies on: complete results, in the order in which they were stored | instantiated by `ValidationResults` as `Contract` |
| `HelmReleases` | what callers of `helm.Client` rely on: each call takes effect at one moment or fails | instantiated by `HelmClient` as `Contract` |
| `HelmClient` | `CLIClient`: concurrent calls, their temporary files and helm processes | `MCHelmClient`, `HelmClient_proofs` |

### ValidatorConfig

`server`, `feed` and `cache` are the stored object, the watch events under way and
what `r.Get` returns. `seen` is the copy that `patch.NewHelper` keeps, `work` the
one that `Reconcile` changes; `fresh` says whether the API server still stores the
resource version that was read, which is what decides about `client.Update`.

| Code | Actions |
|---|---|
| `r.Get`, not found or found (81-91) | `ReadNotFound`, `Read` |
| `redeployIfNeeded`, one plugin (155-240) | `SkipPlugin`, `PrepareFails` (auth secret, OCI), `UpgradeSucceeds`, `UpgradeFails`, `UpgradeRefused` ("has no deployed releases", then delete) |
| removal loop (243-250) | `StartPrune`, `PruneKeeps`, `PruneDeletes` |
| conditions, `ensureFinalizer` (253, 136) | `FinishRedeploy` |
| deferred patch (122-130) | `PatchMetadata`, then `PatchStatus`, each of which may fail alone |
| deletion (98-119) | `NamespaceLookupFails`, `LookupNamespace`, `LookupFinds`, `LookupNotFound`, `LookupFails`, `AwaitDeletions`, `DropFinalizer`, `Unfinalize`, `EmitFinalizeCleanup` |
| goroutines of `deletePlugins` (328-331) | `DeletionEnds`; `running` are those of the current call, `detached` those an early return left behind |
| around it | `Deliver`, `Resync`, `IndexRelease` (cache of Helm's secrets), `Crash`, `Create`, `Edit`, `Delete`, `DeleteNamespace`, `SweepNamespace` |

A values hash is modelled by the values it was taken from. A condition that was
built anew carries a new transition time, so the status patch is never empty then;
`rebuilt` records that instead of the time. `troubled`, `undeleted` and `dropped` are
history: the plugins whose preparation (auth secret, OCI registry), upgrade or
deletion ever failed, those whose deletion failed in the current `deletePlugins`, and
whether the last request was dropped because the namespace could not be read
(line 103, which returns without an error).

The release client (`pkg/helm/release`) is the lookup of `deletePlugins`: it lists
Helm's secrets in the cache and decodes those it finds. `NoRevision` is its answer
that there is no such release: the cache shows no secret, or it shows some and none
of them can be decoded (fault `decode`), which `List` passes over without an error.
`announced` says how the one `FinalizeCleanup` request ended: its failure is only
logged. `CleanupServer` is `CLEANUP_GRPC_SERVER_ENABLED`: without it nothing is sent
(lines 415-419), and `DeletionCompletes` asks for no attempt.

`Contract` is `Deployment`, with this mapping: `wanted` is the stored list (`Wishes`),
`plan` the one in the working copy, `deployed` what Helm runs (`RunsWith`),
`reported` the plugins with a stored `True` condition, and `failed` is `troubled`. A
read is `Begin`, an upgrade `Upgrade`, a deletion of the removal loop `Remove`,
and the status patch is `Report`: the moment at which everything that is
reported must be so. The metadata patch and the decisions in between stutter. An edit
changes `wanted` and not `plan`, so a reconciliation that is overtaken by one must
still report of the list it read, and only of that one. The deletion of the
`ValidatorConfig` is `Away`, after which nothing is promised.

### ValidationResults

`ResultPlugin` is what every plugin does with the library: read, create if there is
nothing, evaluate the rules, `SafeUpdate`. The rules are external; `world` is what
each returns now: it passes, fails, fails with an error, returns an error and no
result (`nilError`), or nothing at all (`nil`, on which `updateStatus` panics).
`UpdateStatus` is one iteration of `Finalize`; `PatchesResult` is the patch.
The patch always contains the conditions, whose times differ, but the state only if
it is not the one that was read. That is why `StateIsVerdict` is not obvious.

A plugin comes back after the period that `FrequencyFromAnnotations` computes. A
`time.Duration` wraps around (`Wrap`), and a period that is not positive is no
period for controller-runtime: the plugin is `"stopped"` until something else calls
it (`PluginResumes`).

`ResultController` is `Reconcile` of the ValidationResult controller:
`ReadsConfig` (without a `ValidatorConfig` the request is dropped), `ResultNotFound`,
`ReadsForEmission` or `ReadsWithoutEmission` (the decision of line 119, on the cached
copy), the emission, then `PatchesAnnotation` and `PatchesCondition`. `config` are
the sink settings that users store, with the secret they name; at first there is no
`ValidatorConfig`. `delivered` is what the sink received last; `latest`, `attempted`
and `excused` are history: what the controller looked at last, what was ever sent,
and what was complete while no sink was configured.

| Code | Actions |
|---|---|
| `emitToSink` reads the secret, `Configure` (`sinks/alertmanager.go`, `slack.go`) | `Configures`, `ConfigureFails` |
| `Emit` | `Sends`, `SendFails` (the sink may have received the result all the same) |
| `NewClient` (`sinks/sink.go`) | part of `ControllerCrash` and `ControllerInit` |

The sink settings are those of the read before, the secret is read when the sink is
configured, and both may have changed by then. `transport` is that of
`http.DefaultClient`: `Configure` of Alertmanager replaces it, Slack uses what is
there. Slack takes 50 blocks in a message, and `SlackBlocks` counts what a result
needs: a result with many conditions is refused every time.

`Contract` is `Reporting`: `stored` is the content of the stored result, `ahead` that
of the controller's cache followed by the watch events on their way to it, and
`taken` the content that is being emitted, from the decision to the answer of the
sink. A write is `Store`, a watch event `Proceed`, the decision to emit `Take`, the
answer `Report`, and a restart lists again. The contract lets the controller send a
version twice or never, which a cache that lags brings about, but not send an older
version after a newer one, nor any content that was never stored.

MD5 is taken to be injective (`Hash` is what is digested). Times, messages, and
details are left out; an error that ends up in a message is the condition result
`"error"`.

### HelmClient

The worker and the goroutines of `deletePlugins` share one `CLIClient` and the
directory for temporary files. `disk` is that directory; a file's contents are
the kubeconfig, the values of a call, or the empty string. `temp`, `kubeconfig` and
`values` are the local variables that hold file names; the last two are set when
the removal has been deferred. `step` is the program counter of a call.

| Code (`pkg/helm/helm.go`) | Actions |
|---|---|
| `Delete`, `Upgrade` (56, 87) | `Call`, `Return` |
| `writeKubeConfig` (247-293) | `CreateKubeconfig`, `WriteKubeconfig` |
| chart options (106-127) | `CheckOptions` |
| values file (130-162) | `CreateValues`, `WriteValues` |
| `exec` (204-244) | `HelmLooks` (helm reads the release), then `HelmUpgrades`, `HelmDeletes` or `HelmFails`; `Exec` is lines 233-243 |
| deferred removals (62, 98, 150) | `DropValues`, `DropKubeconfig`, last one first |

Every early return is `Fail`: it leaves the deferred removals to be done. An early
return before a removal is deferred finds no file name there. A file that could not
be closed is not removed by the code (146, 269), nor is one whose removal fails;
`lost` (history) records them.

`Contract` is `HelmReleases` over the same `release`, `call` and `result`, so that
`AtomicCalls` needs no other mapping: the step that sets `result` is the moment at
which the call takes effect. Between `HelmLooks` and the next step another call may
delete the release. Helm then either refuses, or says that there is no such release,
and line 235 takes these words for success whichever command was given. `overtaken`
(history, of both modules) are the callers of upgrades that this may have happened
to: their release was deleted by another call after they had called. Only for them
does the contract allow "ok" or "refused" with no release left, as if the upgrade had
come just before the deletion. An upgrade that nobody overtakes and that returns "ok"
leaves its release behind.

`ValidatorConfig` uses the contract. `Upgrades` with "ok", "refused" and "error" are
`UpgradeSucceeds`, `UpgradeRefused` and `UpgradeFails`; `Deletes` is `DeletionEnds`
and the deletions of the worker. An upgrade overtaken by a deletion is there an
upgrade that is followed at once by the `DeletionEnds` of the same plugin. This
correspondence is an argument, not a checked refinement; `HelmReleases` also allows
callers more than `ValidatorConfig` does (any of them deletes any release at any
time).

## 4. Runs

| Run | Expected | Shows |
|---|---|---|
| `config_prompt` | pass | `TypeOK`, `SkippedIsDeployed`, `ReleasesTracked`, `PassDeploys`, `DeploysAsPromised` (`ValidatorConfig` implements `Deployment`), and under fairness `Converges` and `DeletionCompletes`: one failing call (`FinalizeCleanup` and an undecodable release included), two plugins that come, go and change, a user who edits and deletes. |
| `config_hostile` | pass | `DeletionsAwaited`, `UserWritesSurvive`, `NeverForgotten`, `KeepsRunning` and the inductive invariant `SafetyInv`: two charts or one chart listed twice, stale reads, one crash, one failing call of any kind, deletion, re-creation, deletion of the namespace, no cleanup job. |
| `config_deletion` | violation | `deletePlugins` skips the plugins behind one that has no release. |
| `config_finalizer` | violation | A `ValidatorConfig` deleted during its first reconciliation leaves its releases behind. |
| `config_removal` | violation | A plugin that runs, whose upgrade fails and that is then removed from the spec stays deployed. |
| `config_retry` | violation | A failed upgrade whose status patch is lost is not tried again. |
| `result_report` | pass | `StateIsVerdict`, `OneConditionPerRule`, `RoundIsRecorded` and, under fairness, `Reported`: two rules that pass, fail or panic, prompt caches, one failing creation, status patch or emission, a `ValidatorConfig` that is created late, a Slack sink that refuses the result when both rules fail. |
| `result_once` | pass | `EmittedOnlyIfChanged`, `SuccessMeansDelivered` and `RequestUsesItsSecret` with prompt caches and one emission that fails: the plugin restarts, the result flaps, the `ValidatorConfig` comes and then goes or changes its sink or its TLS settings. |
| `result_hostile` | pass | `TypeOK`, `HashMeansAttempted` and `ReportsInOrder` (`ValidationResults` implements `Reporting`): stale reads of both, a crash of the controller, a lost patch or emission, a missing result, deletion and re-creation, a plugin whose frequency overflows and that does not come back by itself. |
| `result_repeat` | violation | With a stale cache an unchanged result is emitted twice. |
| `result_nilresult` | violation | An error without a result leaves a condition behind that keeps the result Failed and unreported for ever. |
| `helm_calls` | pass | `TypeOK`, `FilesInUse`, `NothingLeftBehind` and `AtomicCalls` (`HelmClient` implements `HelmReleases`): the worker and two goroutines call at the same time, and any one step of a call fails. |

The six violations are findings: each contradicts a comment or document that
`PROJECT.json` quotes. They are the program's behaviour, not the model's
assumptions: four need no failing call at all, `config_removal` needs one failing
upgrade, and `config_retry` a failing upgrade and a lost status patch.

**Bounds.** `MaxEdits` counts the creation too, so 3 or 4 leave room to create,
change and delete (or re-create). Two plugins are enough for every interplay of
the loops, as no property relates more than two; the specs of `TwoPlugins` add, remove
and change a plugin, those of `Prepending` put a new one first. One fault and one
crash are the smallest number with an effect. The two passing `config` runs subject
every kind of call to them between them: lost patches of the `ValidatorConfig` occur in
`config_hostile` (and `config_retry`) only, a failing `FinalizeCleanup` in
`config_prompt` only. `CleanupServer` is `FALSE` in `config_hostile` and `TRUE` elsewhere. `MaxLag` is how many versions a cache may be behind: 2
lets it show one that was never the latest when it was read. `MaxGoroutines` is
how many deletions of one release may be under way: 2 in `config_hostile`, so that
two lists (or one that names a chart twice) delete the same release at once, and 1
elsewhere. In `ValidationResults` a
`MaxLag` of 1 delays writers until the caches have taken in the previous version,
which never disables a step for ever; the violation `result_repeat` uses 2. Constants of the code are scaled
down with the instance: a Slack message has 50 blocks in the code and `MaxBlocks` in
the model - with 19 in `result_report`, the message about two rules (17 blocks, and
2 more per failure) is refused when both fail - and a second is 10^9 of the 2^63
that a `time.Duration` cannot hold: 10 of 1500 here, so that 150 seconds wrap around. `MaxConfigs` counts the creation of the `ValidatorConfig`: 2 in `result_once`
configure a sink and then another one, other settings, or none. The one fault of that run
is an emission, which may reach the sink and be reported as failed:
`SuccessMeansDelivered` is about the attempts that come after it.

In `helm_calls` three calls hold at most five files between them (two of
the worker, one of each deletion, one lost), so `os.CreateTemp` always finds a
name; one release is enough since calls for different ones share only files. The
files and the goroutines are symmetric: no definition tells them apart, and all the
properties of that run are safety properties. `MaxFaults` is 1; the theorems
about `HelmClient` hold for any number. `Faults` is all kinds; `Preserve` is
`FALSE` in the run (nothing is removed otherwise) and either in the theorems.

**Stale reads.** Where a cfg says `StaleReads = FALSE` (or `StalePlugin`), a process
reads only when its cache has caught up at that moment; the object may change
right afterwards. Without it, `SkippedIsDeployed`, `ReleasesTracked`, `PassDeploys`, `DeploysAsPromised`,
`EmittedOnlyIfChanged`, `SuccessMeansDelivered` and `StateIsVerdict` can be violated for a while (and
`result_repeat` shows one such case): reading its own status late, the controller
overwrites conditions it never saw. The same happens to the result's own
`SinkEmission` condition: a controller that reads a version from before its last
patch can replace `SinkEmitFailed` by `SinkEmitNA`, and as the hash is recorded the
emission is not tried again. `Reported` would not hold then, and is checked without
stale reads; what is left of it with them is `HashMeansAttempted`, in `result_hostile`.
`KeepsRunning` and `NeverForgotten` need no such condition and are checked under stale
reads and a crash.

**Fairness.** Weak fairness of the workers (controller-runtime calls `Reconcile`
for whatever is queued, and every wait in it has a timeout), of a plugin that has
not been stopped by its frequency (nobody needs to call that one), of the informers,
of the deletion goroutines and of the namespace controller. The periodic resync (ten
hours by default) is relied on only where the code drops a request: in `ValidatorConfig`
after a namespace that could not be read (`dropped`), so that no other missing requeue
hides behind it, and in `ValidationResults`, where a result is not asked for again when
there was no `ValidatorConfig` yet. Nothing is assumed of users, faults and crashes. The
bounds on faults and edits mean that they stop at some time, which is what
`Converges` and `Reported` say in words: *when things calm down*.
`DeletionCompletes` asks that `FinalizeCleanup` was called if there is a cleanup job,
since a failing call is only logged and never repeated. `Reported` asks that the sink has received the
result or that the failure shows in the `SinkEmission` condition, since nothing is
sent again before the result changes.

No liveness is stated of `HelmClient`: `exec` has no timeout, so a call returns only
if helm does.

**Deadlock** is checked in the `result` runs and in `helm_calls`. The `config` runs say
`CHECK_DEADLOCK FALSE`: when the `ValidatorConfig` is gone and the bounds are spent,
there is nothing left to do.

**Mutants.** Each property of a passing run is violated when one definition is
replaced by a plausible mistake; these stand before the definition they replace,
marked `(mutation)`, and no module uses them otherwise.

## 5. Proofs

The theorems of `ValidatorConfig_proofs`, `Releases_proofs`, `Lifetime_proofs`,
`Deployment_proofs`, `ValidationResults_proofs`, `ResultStatus_proofs`, `Reporting_proofs`
and `HelmClient_proofs` hold for all values of the constants, under the named assumptions (`ConstantsAssumption`, `NoObjectAssumption`, `ReleaseAssumption`,
`MaxLagAssumption`, `ResultAssumption`, `NoValueAssumption`, `SinkAssumption`, `PluginAssumption`,
`ControllerAssumption`, `UserAssumption`, `HelmAssumption`), which only give the constants their types
and keep the special values apart from real ones.

* **`TypeCorrect`** (of each of the three systems): each action keeps each variable's type. The lemmas
  about helpers (`MetadataPatchedType`, `UpsertType`, ...) come first; the step
  has one case per action.
* **`SafetyInvariant`**: `SafetyInv` is inductive. `DeletionsAwaited` alone is not:
  that `running` is zero says something about the releases only because
  `LookedUpIsHandled` relates the loop index to them - each release the loop is
  past is gone, failed, or has a goroutine that is still counted. It needs
  `CopyIsVersionRead` so that the list the loop runs over is the one that was read.
  `DeletionsAreAwaited` follows.
* **`UserWritesAreKept`**: every step of the worker leaves plugin list and deletion
  mark alone and removes an object only if it was being deleted. The hard case is
  `removeFinalizer`, which writes the whole object: there `fresh` and
  `CopyIsVersionRead` (with `CacheFollowsServer`) make the copy equal to what is
  stored.
* **`ReleasesAreTracked`**: under `Calm` (caches that have caught up, no lost patch, no
  restart, one creation; stale reads, a lost patch, a restart or a re-creation can
  each break the link between the records and Helm). Until somebody deletes the
  `ValidatorConfig`, only a few kinds of steps exist (`LiveSteps`), and nobody but the
  worker writes its two records (`RecordsAreSeen`). `Tracked` says for each step of a
  reconciliation where an installed release is found again: in the conditions that
  were read, in those being built, or in the part of the old ones that the removal
  loop has yet to visit.
* **`SkippedPluginsRun`**: `AllHonest` follows the two records of each plugin in the
  same way: the pair that was read is right until the worker is at that plugin, the
  pair it makes is right from then on. It needs `Distinct`: if a list names one chart
  twice with different values and the second upgrade fails, the condition of the
  first entry and the hash of the second are not about the same release.
* **`PassesDeploy`**: `PassFollows` ties the conditions of a pass to the entries of
  the list that was read and to their hashes. Then what `AllHonest` says of a `True`
  condition and its hash is what the property says of the release, and that a removed
  plugin is gone follows from `Tracked`. It needs `Calm` and `Distinct` as those do: if
  one list names a chart twice, the upgrade for the second entry makes the condition of
  the first untrue before it is published.
* **`PromiseIsKept`**: `ValidatorConfig` implements `Deployment`. There is a lemma for
  each action of the contract; `Report` is `PassDeploys` at the status patch, where
  the stored conditions become those of the pass. Under `Calm` and `Distinct`, since the
  contract contains the two properties before it.
* **`NothingIsForgotten`**: `RequestInv`, of requests and watch events: a request that
  is gone was for a version that the worker has read, so whatever comes later has an
  event of its own. It assumes nothing. The one hole is in the property itself: an
  error of the namespace lookup is dropped (line 103), so that a deletion may have
  to wait for the next resync. `dropped` is set by that step alone and reset by the next
  read and by a restart, so that the errors of lines 105, 110 and 119 are not excused.
* **`PluginsKeepRunning`**: without assumptions, under stale reads, lost patches,
  restarts and re-creation. `TakenDown` goes through the steps that can end a
  release: the removal loop, which goes by the list that was read, a goroutine that is
  still counted, and the sweep of a namespace, which `NamespaceStays` rules out while
  the `ValidatorConfig` is not being deleted.
* **`OnlyRemovalTakesDown`** is the stronger form for a `ValidatorConfig` that is created
  `Once`: then nothing of a deletion is under way while it is not being deleted
  (`Spared`): no copy, event or cache shows a deleted one, and no goroutine runs. The
  deletion goroutines that an early return left behind would otherwise take down the
  plugins of the next one.
* **`HashIsHonest`**: `HashMeansAttempted` is proved from `EmissionInv`, which asks
  the same of every hash that can still become the stored one: in the server,
  both the watch events and the cache of the controller, and its working copy.
* **`RequestsUseTheirSecret`**: only `Configures` and a restart write the transport,
  and the worker is the only one who sends.
* **`RulesHaveOneCondition`**: `UniqueRules` asks it of every version of the object,
  stored, on its way, cached or held by a process. Each iteration of `Finalize`
  preserves it since `Upsert` replaces the first condition of the rule, and the
  patch sends the whole list, so that a stale copy cannot add one.
* **`StateFollowsConditions`**: `VerdictInv`. The patch leaves the state out if it
  is the one that was read, so the state that is stored must still be that one:
  with a plugin that reads its own writes, copy and stored object agree in what only
  the plugin writes, from the read to the patch; and the patch of `HandleNew` sets
  `InProgress` on an object that has no conditions yet. The theorem states the
  property for `~StalePlugin`, as it fails otherwise.
* **`UnchangedIsNotEmitted`**: `HistoryInv`. `latest` is the content that the
  annotation of the stored object stands for, except between emission and patch,
  where the working copy has it. It assumes `Calm`: no stale reads of the
  controller, no lost annotation patch, no crash of it (each of them makes the
  property false). `UidsUsed` is needed for an object that is deleted and created
  again: the content of the new one is not `latest`.
* **`RoundsAreRecorded`**: `RoundInv` says that after k iterations of `Finalize` the
  conditions are what the last responses per rule among the first k make of those that
  were read. `Upsert` replaces the only condition of a rule, which is where
  `UniqueRules` is needed. No assumption: a stale copy is overwritten as a whole.
* **`SinkReceivesInOrder`**: `ValidationResults` implements `Reporting`, without
  assumptions. The hard steps are the writes (each of them, of either process, appends
  one version to `ahead`, although the patch is computed from a copy of any age) and
  the emission, which sends the copy of the decision and not what the cache shows by then.
* **`SuccessIsHonest`**: `SuccessInv`. Hash and condition are written by two patches, and
  while either is missing the stored pair is a mixture; the invariant says which, and
  that it is the pair that was read otherwise. It assumes `Calm` and that no status
  patch of the controller is lost: a lost one leaves `SinkEmitSucceeded` of the
  previous content next to the hash of one whose emission failed.
* **`HelmInvariant`**: `HelmInv` is inductive. `FilesInUse` alone is not: that the
  kubeconfig is still there when helm runs depends on what it was before
  (`Shape`, a call's local view at each step) and on no other call writing or
  removing it (`FilesApart`). The step is proved in two halves: `StepUndisturbed`
  says what a step leaves alone of the other calls, and `UndisturbedShape` that
  this keeps their shape; `StepShape` and `StepFiles` are about the call that takes
  the step. `FilesAreKept` and `NothingIsLeft` follow.
* **`CallsAreAtomic`**: `HelmClient` implements `HelmReleases`. Steps that touch only
  files stutter; the end of the helm process and every early return are the
  decision of the contract. What the process saw when it looked, and what is there when
  it acts, are tied together by the last parts of `Shape`: only the worker installs, so
  a release that was not there is still missing, and one that was there and is missing
  now has been deleted by another call, which `overtaken` records.

Only model-checked: liveness (`Converges`, `DeletionCompletes`, `Reported`), as
the prover has neither fairness nor `ENABLED`. Every other property of a passing
run is proved, some of them under restrictions that their theorem states.

## 6. Not modelled

* What Helm leaves behind when it is killed (a `pending-install` release). The code
  in `src/` reacts only to "has no deployed releases".
* Versions: the hash covers the values only (line 294), so a new version alone is
  never deployed; the specs of the instances use one version.
* Status `Unknown` of a condition, changes of a plugin's rule list, and the
  plugins' use of another copy for the patch than for the update: all up to the
  plugins, which are not in this repository.
* A stale read of the `ValidatorConfig` or of the secret by the ValidationResult
  controller: both are read as stored at their moments, and may change in between
  and before the request.
* `http.DefaultClient` in the hands of others: from the first emission to
  Alertmanager on, the transport of the standard library with its proxy settings is
  gone for Slack and for `FinalizeCleanup` too, and a `FinalizeCleanup` call that
  runs at the same time as `Configure` reads the field while it is written. The idle
  connections of the transports that are replaced.
* Names: `Sanitize` may give two validators the same name for their results; a name
  is a single value here, and one result is modelled.
* Error messages: a `SinkEmission` condition keeps the message of an earlier
  failure after a success. A patch that changes nothing but a message (a second failure
  with another error) makes no version in the model: its watch event would bring the
  controller a copy that is equal to the one it has, and a request that finds the hash
  recorded and ends.
* `Pull`, which no controller calls; other programs that remove temporary files (the
  wait of up to a minute in `writeKubeConfig` therefore ends at the first `Stat`
  that succeeds or fails); how long helm takes.
* The contents of sinks' messages and requests, Helm's command lines, the fields of a release that nothing reads, flags, metrics, leader election, the chart
  and the cleanup job. See `PROJECT.json` for each component's status.
