-------------------------- MODULE Deployment_proofs --------------------------
(***************************************************************************)
(* The ValidatorConfig controller keeps the contract Deployment: each of   *)
(* its steps is one of the contract, or changes nothing that it speaks of. *)
(***************************************************************************)
EXTENDS Releases_proofs

-----------------------------------------------------------------------------
(* What the contract speaks of *)

LEMMA WishesOf ==
    ASSUME NEW a, NEW b, a.plugins = b.plugins
    PROVE  Wishes(a) = Wishes(b)
BY DEF Wishes

LEMMA WishesType ==
    ASSUME NEW vc \in Object
    PROVE  Wishes(vc) \subseteq Contract!Wish
<1>1. vc.plugins \in Seq(HelmRelease)
  BY ConstantsAssumption DEF Object
<1>2. \A k \in DOMAIN vc.plugins : vc.plugins[k] \in HelmRelease
  BY <1>1
<1>3. QED
  BY <1>2 DEF Wishes, Contract!Wish, HelmRelease

LEMMA NamesOfWishes ==
    ASSUME NEW vc
    PROVE  Contract!Names(Wishes(vc)) = SpecNames(vc)
<1> DEFINE wish(k) == [plugin |-> vc.plugins[k].name, values |-> vc.plugins[k].values]
<1>1. \A k : wish(k).plugin = vc.plugins[k].name
  OBVIOUS
<1>2. Wishes(vc) = {wish(k) : k \in DOMAIN vc.plugins}
  BY DEF Wishes
<1> HIDE DEF wish
<1>3. \A p : p \in Contract!Names(Wishes(vc)) <=> p \in SpecNames(vc)
  BY <1>1, <1>2 DEF Contract!Names, SpecNames
<1>4. QED
  BY <1>3

\* What a pass goes by, as long as it lasts
Stays ==
    /\ Live /\ Live' /\ pc # "idle" /\ pc' # "idle"
    /\ server'.conds = server.conds /\ server'.plugins = server.plugins
    /\ work'.plugins = work.plugins

LEMMA StaysFrame ==
    ASSUME Stays
    PROVE  /\ Live /\ Live' /\ Busy /\ Busy'
           /\ Wishes(server)' = Wishes(server)
           /\ Wishes(work)' = Wishes(work)
           /\ \A p \in Plugins : IsConditionTrue(server, p)' <=> IsConditionTrue(server, p)
<1>1. Wishes(server') = Wishes(server) /\ Wishes(work') = Wishes(work)
  BY WishesOf DEF Stays
<1>2. QED
  BY <1>1 DEF Stays, Busy, IsConditionTrue

LEMMA StaysStutter ==
    ASSUME Stays, RunsWith' = RunsWith, troubled' = troubled
    PROVE  UNCHANGED Contract!vars
BY StaysFrame DEF Contract!vars

LEMMA StaysFail ==
    ASSUME Stays, RunsWith' = RunsWith, NEW p \in Plugins,
           troubled' = troubled \cup {p}
    PROVE  Contract!Fail(p)
BY StaysFrame DEF Contract!Fail

-----------------------------------------------------------------------------
(* The steps *)

LEMMA AwayStep ==
    ASSUME TypeOK', ~Live'
    PROVE  Contract!Away
<1>1. RunsWith' \in [Plugins -> Values \cup {NoHash}]
  <2>1. DataOK'
    BY DEF TypeOK
  <2>2. \A p \in Plugins : release'[p] \in Deployed => release'[p].values \in Values
    BY DEF Deployed
  <2>3. QED
    BY <2>2 DEF RunsWith
<1>2. troubled' \subseteq Plugins
  BY DEF TypeOK, DataOK
<1>3. QED
  BY <1>1, <1>2 DEF Contract!Away, Busy

LEMMA CreateStep ==
    ASSUME TypeOK', Untouched, UNCHANGED <<pc, release, troubled>>,
           server'.conds = <<>>, Live'
    PROVE  Contract!Create
<1>1. ~Live /\ ~Busy /\ ~Busy'
  BY DEF Untouched, Live, Busy
<1>2. RunsWith = Contract!Nothing /\ RunsWith' = RunsWith
  BY ReleaseAssumption DEF Untouched, RunsWith, Contract!Nothing
<1>3. Wishes(server') \subseteq Contract!Wish
  <2>1. server' \in Object
    BY DEF TypeOK, DataOK, Live
  <2>2. QED
    BY <2>1, WishesType
<1>4. {p \in Plugins : IsConditionTrue(server', p)} = {}
  BY DEF IsConditionTrue
<1>5. Live' = TRUE /\ Busy' = Busy
  BY <1>1 DEF Live, Busy
<1>6. QED
  BY <1>1, <1>2, <1>3, <1>4, <1>5 DEF Contract!Create

LEMMA QuietStep ==
    ASSUME TypeOK', Live, Live', Quiet
    PROVE  Contract!Edit
<1>1. Wishes(server') \subseteq Contract!Wish
  <2>1. server' \in Object
    BY DEF TypeOK, DataOK, Live
  <2>2. QED
    BY <2>1, WishesType
<1>2. \A p \in Plugins : IsConditionTrue(server, p)' <=> IsConditionTrue(server, p)
  BY DEF Quiet, Live, IsConditionTrue
<1>3. Busy' <=> Busy
  BY DEF Quiet, Busy
<1>4. RunsWith' = RunsWith /\ Wishes(work)' = Wishes(work) /\ troubled' = troubled
  BY DEF Quiet, RunsWith
<1>5. QED
  BY <1>1, <1>2, <1>3, <1>4 DEF Contract!Edit

LEMMA ReadStep ==
    ASSUME Calm, CopyIsVersionRead, Live, Live', Read
    PROVE  Contract!Begin
<1>1. /\ pc = "idle" /\ pc' # "idle" /\ server' = server /\ work' = server
      /\ UNCHANGED <<release, troubled>>
  BY DEF Read, CanRead, Calm, CopyIsVersionRead, CacheFollowsServer, objectVars
<1>2. ~Busy /\ Busy' /\ RunsWith' = RunsWith
  BY <1>1 DEF Busy, RunsWith
<1>3. QED
  BY <1>1, <1>2 DEF Contract!Begin

\* One plugin of the list
LEMMA UpgradeStep ==
    ASSUME TypeOK, Live, Upgrades
    PROVE  \/ UNCHANGED Contract!vars
           \/ \E w \in Wishes(work) : Contract!Upgrade(w)
           \/ \E p \in Plugins : Contract!Fail(p)
<1>1. PICK ok \in BOOLEAN : SetCondition(ok)
  BY DEF Upgrades, SkipPlugin, PrepareFails, UpgradeSucceeds, UpgradeFails,
     UpgradeRefused
<1>2. /\ pc = "deploy" /\ i \in DOMAIN work.plugins
      /\ Plugin.name \in Plugins /\ Plugin.values \in Values
      /\ Plugin.version \in Versions /\ Deploying
  <2>1. Deploying
    BY DEF Upgrades, SkipPlugin, PrepareFails, UpgradeSucceeds, UpgradeFails,
       UpgradeRefused
  <2>2. QED
    BY <2>1, PluginType DEF Deploying, TypeOK
<1>3. Stays
  <2>1. work \in Object
    BY <1>2 DEF TypeOK, DataOK
  <2>2. work'.plugins = work.plugins
    BY <1>1, <2>1 DEF SetCondition, HashUpdated, Object
  <2>3. QED
    BY <1>1, <1>2, <2>2 DEF SetCondition, Stays, Live, stored, objectVars
<1>4. release \in [Plugins -> Deployed \cup {NoRelease, Broken}]
  BY DEF TypeOK, DataOK
<1>5. CASE SkipPlugin
  <2>1. RunsWith' = RunsWith /\ troubled' = troubled
    BY <1>5 DEF SkipPlugin, SetCondition, RunsWith
  <2>2. QED
    BY <1>3, <2>1, StaysStutter
<1>6. CASE PrepareFails \/ UpgradeFails \/ UpgradeRefused
  <2>1. troubled' = troubled \cup {Plugin.name}
    BY <1>6 DEF PrepareFails, UpgradeFails, UpgradeRefused, SetCondition
  <2>2. RunsWith' = RunsWith
    <3>1. \/ UNCHANGED release
          \/ /\ release[Plugin.name] \notin Deployed
             /\ \E r \in {NoRelease, Broken} :
                   release' = [release EXCEPT ![Plugin.name] = r]
      BY <1>6, ReleaseAssumption
      DEF PrepareFails, UpgradeFails, UpgradeRefused, Installed
    <3>2. QED
      BY <1>2, <1>4, <3>1, ReleaseAssumption DEF RunsWith
  <2>3. QED
    BY <1>2, <1>3, <2>1, <2>2, StaysFail
<1>7. CASE UpgradeSucceeds
  <2> DEFINE w == [plugin |-> Plugin.name, values |-> Plugin.values]
  <2>1. w \in Wishes(work)
    BY <1>2 DEF Wishes, Plugin
  <2>2. troubled' = troubled
    BY <1>7 DEF UpgradeSucceeds, SetCondition
  <2>3. RunsWith' = [RunsWith EXCEPT ![w.plugin] = w.values]
    <3>1. [values |-> Plugin.values, version |-> Plugin.version] \in Deployed
      BY <1>2 DEF Deployed
    <3>2. /\ release'[Plugin.name] \in Deployed
          /\ release'[Plugin.name].values = Plugin.values
          /\ \A p \in Plugins : p # Plugin.name => release'[p] = release[p]
      BY <1>2, <1>4, <1>7, <3>1 DEF UpgradeSucceeds
    <3>3. QED
      BY <1>2, <3>2 DEF RunsWith
  <2> HIDE DEF w
  <2>4. Contract!Upgrade(w)
    BY <1>3, <2>1, <2>2, <2>3, StaysFrame DEF Contract!Upgrade
  <2>5. QED
    BY <2>1, <2>4
<1>8. QED
  BY <1>5, <1>6, <1>7 DEF Upgrades

\* The removal loop and the patch of the metadata
LEMMA PruneStep ==
    ASSUME Calm, TypeOK, Live,
           StartPrune \/ PruneKeeps \/ PruneDeletes \/ FinishRedeploy \/ PatchMetadata
    PROVE  \/ UNCHANGED Contract!vars
           \/ \E p \in Plugins : Contract!Remove(p) \/ Contract!Fail(p)
<1> USE DEF stored, objectVars, helm
<1>1. pc # "idle" /\ work \in Object
  BY DEF StartPrune, PruneKeeps, PruneDeletes, FinishRedeploy, PatchMetadata,
     TypeOK, DataOK
<1>2. Stays
  <2>1. CASE StartPrune \/ PruneKeeps \/ PruneDeletes \/ FinishRedeploy
    <3>1. UNCHANGED server /\ pc' # "idle" /\ work'.plugins = work.plugins
      BY <2>1, RedeployFrame DEF Redeploy
    <3>2. QED
      BY <1>1, <3>1 DEF Stays, Live
  <2>2. CASE PatchMetadata
    <3>1. /\ server \in Object /\ server' = MetadataPatched(server)
          /\ pc' = "patchStatus" /\ work' = work
      BY <2>2, PatchFrame DEF Live, TypeOK, DataOK
    <3>2. /\ server'.conds = server.conds /\ server'.plugins = server.plugins
          /\ server'.deleting = server.deleting /\ server' \in Object
      <4>1. MetadataPatched(server).conds = server.conds
        BY <3>1 DEF MetadataPatched, Object
      <4>2. QED
        BY <1>1, <3>1, <4>1, MetadataPatchedType DEF TypeOK
    <3>3. server' # NoObject
      BY <3>2, NoObjectAssumption
    <3>4. QED
      BY <1>1, <3>1, <3>2, <3>3 DEF Stays, Live
  <2>3. QED
    BY <2>1, <2>2
<1>3. CASE StartPrune \/ PruneKeeps \/ FinishRedeploy \/ PatchMetadata
  <2>1. UNCHANGED <<release, troubled>>
    BY <1>3 DEF StartPrune, PruneKeeps, FinishRedeploy, PatchMetadata
  <2>2. RunsWith' = RunsWith
    BY <2>1 DEF RunsWith
  <2>3. QED
    BY <1>2, <2>1, <2>2, StaysStutter
<1>4. CASE PruneDeletes
  <2>1. PICK p \in Plugins :
            /\ p \notin SpecNames(work)
            /\ \/ /\ release' = [release EXCEPT ![p] = NoRelease]
                  /\ troubled' = troubled
               \/ /\ release' = release
                  /\ troubled' = troubled \cup {p}
    <3>1. work.conds \in Seq(Condition) /\ i \in DOMAIN work.conds
      BY <1>1, <1>4 DEF PruneDeletes, Object
    <3>2. work.conds[i] \in Condition
      BY <3>1
    <3>3. work.conds[i].plugin \in Plugins
      BY <3>2 DEF Condition
    <3>4. QED
      BY <1>4, <3>3 DEF PruneDeletes, Removed
  <2>2. CASE release' = release /\ troubled' = troubled \cup {p}
    <3>1. RunsWith' = RunsWith
      BY <2>2 DEF RunsWith
    <3>2. QED
      BY <1>2, <2>2, <3>1, StaysFail
  <2>3. CASE release' = [release EXCEPT ![p] = NoRelease] /\ troubled' = troubled
    <3>1. RunsWith' = [RunsWith EXCEPT ![p] = NoHash]
      BY <2>3, ReleaseAssumption DEF RunsWith, TypeOK, DataOK
    <3>2. p \notin Contract!Names(Wishes(work))
      BY <2>1, NamesOfWishes
    <3>3. Contract!Remove(p)
      BY <1>2, <2>3, <3>1, <3>2, StaysFrame DEF Contract!Remove
    <3>4. QED
      BY <3>3
  <2>4. QED
    BY <2>1, <2>2, <2>3
<1>5. QED
  BY <1>3, <1>4

\* The conditions are published.
LEMMA StatusStep ==
    ASSUME Calm, TypeOK, RecordsAreSeen, ConditionsFollow, PassFollows,
           PassDeploys, Live, PatchStatus
    PROVE  Contract!Report
<1>1. /\ pc = "patchStatus" /\ pc' = "idle" /\ UNCHANGED <<release, troubled>>
      /\ server' = StatusPatched(server) /\ server \in Object
      /\ conditions \in Seq(Condition)
  BY PatchFrame DEF Live, TypeOK, DataOK
<1>2. server'.conds = conditions
  BY <1>1 DEF StatusPatched, Object, RecordsAreSeen, ConditionsFollow
<1>3. /\ server'.plugins = server.plugins /\ server'.deleting = server.deleting
      /\ server' \in Object
  BY <1>1, StatusPatchedType DEF TypeOK
<1>4. Live' /\ Busy /\ ~Busy'
  BY <1>1, <1>3, NoObjectAssumption DEF Live, Busy
<1>5. RunsWith' = RunsWith /\ Wishes(server') = Wishes(server)
  BY <1>1, <1>3, WishesOf DEF RunsWith
<1>6. ASSUME NEW p \in Plugins, IsConditionTrue(server', p)
      PROVE  \E w \in Wishes(work) : w.plugin = p /\ RunsWith[p] = w.values
  <2>1. PICK k \in DOMAIN conditions : conditions[k] = [plugin |-> p, ok |-> TRUE]
    BY <1>2, <1>6 DEF IsConditionTrue
  <2>2. k \in DOMAIN work.plugins /\ work.plugins[k].name = p
    BY <1>1, <2>1 DEF PassFollows
  <2>3. release[p] \in Deployed /\ release[p].values = work.plugins[k].values
    BY <1>1, <2>1, <2>2 DEF PassDeploys, Live
  <2>4. [plugin |-> work.plugins[k].name, values |-> work.plugins[k].values]
            \in Wishes(work)
    BY <2>2 DEF Wishes
  <2>5. QED
    BY <2>2, <2>3, <2>4 DEF RunsWith
<1>7. ASSUME NEW p \in Plugins \ (Contract!Names(Wishes(work)) \cup troubled)
      PROVE  RunsWith[p] = NoHash
  <2>1. p \notin SpecNames(work) /\ p \notin troubled
    BY <1>7, NamesOfWishes
  <2>2. release[p] = NoRelease
    BY <1>1, <2>1 DEF PassDeploys, Live, Installed
  <2>3. QED
    BY <2>2, ReleaseAssumption DEF RunsWith
<1>8. {p \in Plugins : IsConditionTrue(server', p)} \subseteq
          {w.plugin : w \in {w \in Wishes(work) : RunsWith[w.plugin] = w.values}}
  BY <1>6
<1>9. QED
  BY <1>1, <1>4, <1>5, <1>7, <1>8 DEF Contract!Report

-----------------------------------------------------------------------------
(* The contract *)

LEMMA ContractInit == Init => Contract!Init
<1> SUFFICES ASSUME Init PROVE Contract!Init
  OBVIOUS
<1>1. ~Live /\ ~Busy /\ troubled = {}
  BY DEF Init, CachedObjectInit, Live, Busy
<1>2. RunsWith = Contract!Nothing
  BY ReleaseAssumption DEF Init, RunsWith, Contract!Nothing
<1>3. Live = FALSE /\ Busy = FALSE
  BY <1>1 DEF Live, Busy
<1>4. QED
  BY <1>1, <1>2, <1>3 DEF Contract!Init

LEMMA ContractStep ==
    ASSUME Calm, TypeOK, TypeOK', CopyIsVersionRead, TrackedInv, PassInv,
           PassDeploys, [Next]_vars
    PROVE  [Contract!Next]_(Contract!vars)
<1>1. CASE ~Live'
  BY <1>1, AwayStep DEF Contract!Next
<1>2. ASSUME Live', Untouched, UNCHANGED <<pc, release, troubled>>,
             server'.conds = <<>>
      PROVE  Contract!Next
  BY <1>2, CreateStep DEF Contract!Next
<1>3. CASE Live /\ Live' /\ Quiet
  BY <1>3, QuietStep DEF Contract!Next
<1>4. CASE Live /\ Live' /\ Read
  BY <1>4, ReadStep DEF Contract!Next
<1>5. ASSUME Live, Redeploy \/ PatchMetadata
      PROVE  [Contract!Next]_(Contract!vars)
  <2>1. CASE Upgrades
    <3>1. \A w \in Wishes(work) : Contract!Upgrade(w) => Contract!Next
      BY <1>5, <2>1 DEF Contract!Next, Contract!Upgrade
    <3>2. \A p \in Plugins : Contract!Fail(p) => Contract!Next
      BY DEF Contract!Next
    <3>3. QED
      BY <1>5, <2>1, <3>1, <3>2, UpgradeStep
  <2>2. CASE StartPrune \/ PruneKeeps \/ PruneDeletes \/ FinishRedeploy \/ PatchMetadata
    BY <1>5, <2>2, PruneStep DEF Contract!Next
  <2>3. QED
    BY <1>5, <2>1, <2>2 DEF Redeploy, Upgrades
<1>6. CASE Live /\ PatchStatus
  BY <1>6, StatusStep DEF TrackedInv, PassInv, Contract!Next
<1>7. CASE Live'
  BY <1>2, <1>3, <1>4, <1>5, <1>6, <1>7, LiveSteps DEF TrackedInv
<1>8. QED
  BY <1>1, <1>7

\* Until somebody deletes the ValidatorConfig, its controller keeps the contract
\* with its users: one list at a time, nothing taken down that the list names,
\* nothing reported that is not so - if caches are prompt, patches arrive,
\* nothing restarts and no list names a chart twice.
THEOREM PromiseIsKept ==
    ASSUME Calm, Distinct
    PROVE  Spec => DeploysAsPromised
<1>1. SafetyInv /\ TypeOK' /\ TrackedInv /\ PassInv /\ PassDeploys /\ [Next]_vars
          => [Contract!Next]_(Contract!vars)
  BY ContractStep DEF SafetyInv
<1>2. QED
  BY <1>1, ContractInit, SafetyInvariant, TypeCorrect, TrackedInvariant,
     PassInvariant, PassesDeploy, PTL
  DEF Spec, DeploysAsPromised, Contract!Spec
=============================================================================
