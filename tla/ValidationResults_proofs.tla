---------------------- MODULE ValidationResults_proofs ----------------------
(***************************************************************************)
(* Proofs about ValidationResults, for every value of its constants.       *)
(***************************************************************************)
EXTENDS ValidationResults, TLAPS

-----------------------------------------------------------------------------
(* Lemmas about the writes *)

StoredOK ==
    /\ server \in Object \cup {NoObject}
    /\ feed \in Seq(Object \cup {NoObject})
    /\ cache \in Object \cup {NoObject}
    /\ pluginFeed \in Seq(Object \cup {NoObject})
    /\ pluginCache \in Object \cup {NoObject}

\* A write keeps the types of what it writes to.
LEMMA StoreType ==
    ASSUME NEW obj \in Object \cup {NoObject}, StoredOK, Store(obj)
    PROVE  StoredOK'
<1>1. /\ server' \in Object \cup {NoObject}
      /\ feed' \in Seq(Object \cup {NoObject})
  <2>1. CASE UNCHANGED <<server, feed>>
    BY <2>1 DEF StoredOK
  <2>2. CASE server' = obj /\ feed' = Append(feed, obj)
    <3>1. feed \in Seq(Object \cup {NoObject})
      BY DEF StoredOK
    <3>2. QED
      BY <2>2, <3>1
  <2>3. QED
    BY <2>1, <2>2 DEF Store, Write
<1>2. pluginFeed' \in Seq(Object \cup {NoObject})
  BY DEF Store, PluginView!Write, StoredOK
<1>3. QED
  BY <1>1, <1>2 DEF Store, StoredOK

LEMMA PatchedStatusType ==
    ASSUME NEW obj, StoredOK, server # NoObject => obj \in Object,
           PatchedStatus(obj)
    PROVE  StoredOK'
<1>1. CASE UNCHANGED stored
  BY <1>1 DEF stored, StoredOK
<1>2. CASE server # NoObject /\ Store(obj)
  BY <1>2, StoreType
<1>3. QED
  BY <1>1, <1>2 DEF PatchedStatus

LEMMA HashType ==
    ASSUME NEW obj \in Object
    PROVE  Hash(obj) \in Content
BY DEF Object, Content, Hash, ContentOf

LEMMA RecordedType ==
    ASSUME NEW obj \in Object, NEW reason \in EmitState
    PROVE  Recorded(obj, reason) \in Object
BY HashType, NoValueAssumption DEF Recorded, Object

\* Replacing or appending a condition makes a list of conditions.
LEMMA UpsertType ==
    ASSUME NEW conds \in Seq(Condition), NEW c \in Condition
    PROVE  Upsert(conds, c) \in Seq(Condition)
<1>1. ASSUME NEW k PROVE [conds EXCEPT ![k] = c] \in Seq(Condition)
  <2>1. /\ Len(conds) \in Nat
        /\ conds \in [1 .. Len(conds) -> Condition]
    OBVIOUS
  <2>2. [conds EXCEPT ![k] = c] \in [1 .. Len(conds) -> Condition]
    BY <2>1, Zenon
  <2>3. QED
    BY <2>1, <2>2
<1>2. Append(conds, c) \in Seq(Condition)
  OBVIOUS
<1>3. QED
  BY <1>1, <1>2 DEF Upsert

-----------------------------------------------------------------------------
(* Type correctness *)

LEMMA PluginTypes ==
    ASSUME StoreTypeOK, PluginTypeOK, Plugin
    PROVE  StoredOK' /\ faults' \in Nat /\ PluginTypeOK' /\ UNCHANGED crashes
<1> USE DEF stored, spent, pluginMemory, pluginVars
<1>0. StoredOK
  BY DEF StoreTypeOK, StoredOK
<1>1. CASE FindsResult
  BY <1>1 DEF FindsResult, CanReadResult, StoreTypeOK, StoredOK, PluginTypeOK
<1>2. CASE CreatesResult
  <2>1. results' \in Nat
    BY <1>2 DEF CreatesResult, PluginTypeOK
  <2>2. Build(results') \in Object
    BY <2>1, PluginAssumption DEF Build, Object, State, EmitState
  <2>3. StoredOK'
    BY <1>0, <1>2, <2>2, StoreType DEF CreatesResult
  <2>4. PluginTypeOK'
    BY <1>2, <2>1, <2>2 DEF CreatesResult, CanReadResult, PluginTypeOK
  <2>5. QED
    BY <1>2, <2>3, <2>4 DEF CreatesResult, StoreTypeOK
<1>3. CASE CreateFails
  BY <1>0, <1>3 DEF CreateFails, Fails, StoreTypeOK, StoredOK, PluginTypeOK
<1>4. CASE InitializesStatus
  <2>1. server # NoObject => [server EXCEPT !.state = "InProgress"] \in Object
    BY DEF StoreTypeOK, Object, State
  <2>2. StoredOK'
    BY <1>0, <1>4, <2>1, PatchedStatusType DEF InitializesStatus, StoredOK
  <2>3. PluginTypeOK'
    BY <1>4 DEF InitializesStatus, PluginIdle, PluginEnds, PluginTypeOK
  <2>4. faults' \in Nat
    BY <1>4 DEF InitializesStatus, Fails, StoreTypeOK
  <2>5. QED
    BY <1>4, <2>2, <2>3, <2>4 DEF InitializesStatus
<1>5. CASE Validate
  <2>1. response' \in Seq(Response)
    <3>1. RuleList \in Seq(Rules) /\ world \in [Rules -> Outcomes]
      BY PluginAssumption DEF PluginTypeOK
    <3>2. \A k \in DOMAIN RuleList :
             [rule |-> RuleList[k], outcome |-> world[RuleList[k]]] \in Response
      BY <3>1 DEF Response
    <3>3. /\ DOMAIN RuleList = 1 .. Len(RuleList) /\ Len(RuleList) \in Nat
          /\ response' = [k \in DOMAIN RuleList |->
                  [rule |-> RuleList[k], outcome |-> world[RuleList[k]]]]
      BY <1>5, <3>1 DEF Validate
    <3>4. QED
      BY <3>2, <3>3
  <2>2. QED
    BY <1>0, <1>5, <2>1 DEF Validate, StoreTypeOK, StoredOK, PluginTypeOK
<1>6. CASE UpdateStatus
  <2>1. response[n] \in Response
    BY <1>6 DEF UpdateStatus, Finalizing, PluginTypeOK
  <2>2. ConditionOf(response[n]) \in Condition
    BY <1>6, <2>1, ResultAssumption
    DEF UpdateStatus, ConditionOf, Response, Condition, OutcomeKinds
  <2>3. vr \in Object /\ vr.conds \in Seq(Condition)
    BY <1>6 DEF UpdateStatus, Finalizing, PluginTypeOK, Object
  <2>4. Upsert(vr.conds, ConditionOf(response[n])) \in Seq(Condition)
    BY <2>2, <2>3, UpsertType
  <2>5. vr' \in Object
    BY <1>6, <2>3, <2>4 DEF UpdateStatus, OverallState, Object, State
  <2>6. QED
    BY <1>0, <1>6, <2>5
    DEF UpdateStatus, Finalizing, StoreTypeOK, StoredOK, PluginTypeOK
<1>7. CASE Panics
  BY <1>0, <1>7 DEF Panics, PluginIdle, PluginEnds, StoreTypeOK, StoredOK, PluginTypeOK
<1>8. CASE PatchesResult
  <2>1. vr \in Object
    BY <1>8 DEF PatchesResult, PluginTypeOK
  <2>2. server # NoObject => Patched(server) \in Object
    BY <2>1 DEF StoreTypeOK, Patched, Object
  <2>3. StoredOK'
    BY <1>0, <1>8, <2>2, PatchedStatusType DEF PatchesResult, StoredOK
  <2>4. PluginTypeOK'
    <3>1. PICK next \in {"idle", "stopped"} : PluginEnds(next)
      BY <1>8 DEF PatchesResult, PluginIdle
    <3>2. QED
      BY <1>8, <3>1 DEF PatchesResult, PluginEnds, PluginTypeOK
  <2>5. faults' \in Nat
    BY <1>8 DEF PatchesResult, Fails, StoreTypeOK
  <2>6. QED
    BY <1>8, <2>3, <2>4, <2>5 DEF PatchesResult
<1>9. QED
  BY <1>1, <1>2, <1>3, <1>4, <1>5, <1>6, <1>7, <1>8 DEF Plugin

LEMMA PluginStepTypes ==
    ASSUME StoreTypeOK, PluginTypeOK, ControllerTypeOK, PluginStep
    PROVE  StoreTypeOK' /\ PluginTypeOK' /\ ControllerTypeOK'
<1> USE DEF stored, spent, pluginMemory, pluginVars
<1>1. UNCHANGED <<controllerVars, deletions, configs>>
  BY DEF PluginStep
<1>2. ControllerTypeOK'
  BY <1>1 DEF controllerVars, controllerMemory, history, ControllerTypeOK
<1>3. CASE Plugin
  BY <1>1, <1>2, <1>3, PluginTypes DEF StoreTypeOK, StoredOK
<1>4. CASE PluginDeliver
  <2>1. pluginFeed' \in Seq(Object \cup {NoObject}) /\ pluginCache' \in Object \cup {NoObject}
    BY <1>4 DEF PluginDeliver, PluginView!ReceiveEvent, StoreTypeOK
  <2>2. QED
    BY <1>1, <1>2, <1>4, <2>1
    DEF PluginDeliver, PluginView!ReceiveEvent, StoreTypeOK, PluginTypeOK
<1>5. CASE PluginCrash
  <2>1. crashes' \in Nat
    BY <1>5 DEF PluginCrash, Restarts, StoreTypeOK
  <2>2. QED
    BY <1>1, <1>2, <1>5, <2>1
    DEF PluginCrash, PluginView!Relist, PluginIdle, PluginEnds, StoreTypeOK, PluginTypeOK
<1>6. CASE \E r \in Rules : WorldChanges(r)
  <2>1. PICK r \in Rules : WorldChanges(r)
    BY <1>6
  <2>2. world' \in [Rules -> Outcomes] /\ changes' \in Nat
    BY <2>1 DEF WorldChanges, PluginTypeOK
  <2>3. QED
    BY <1>1, <1>2, <2>1, <2>2 DEF WorldChanges, StoreTypeOK, PluginTypeOK
<1>7. CASE PluginResumes
  BY <1>1, <1>2, <1>7 DEF PluginResumes, StoreTypeOK, PluginTypeOK
<1>8. QED
  BY <1>3, <1>4, <1>5, <1>6, <1>7 DEF PluginStep

LEMMA ControllerTypes ==
    ASSUME StoreTypeOK, ControllerTypeOK, Controller
    PROVE  StoredOK' /\ faults' \in Nat /\ ControllerTypeOK' /\ UNCHANGED crashes
<1> USE DEF stored, spent, controllerMemory, history
<1>0. StoredOK
  BY DEF StoreTypeOK, StoredOK
<1>1. CASE ReadsConfig
  <2>1. [config EXCEPT !.secret = NoSecret] \in Config
    BY DEF ControllerTypeOK, Config
  <2>2. QED
    BY <1>0, <1>1, <2>1
    DEF ReadsConfig, StoreTypeOK, StoredOK, ControllerTypeOK
<1>2. CASE ResultNotFound
  BY <1>0, <1>2
  DEF ResultNotFound, ControllerIdle, NoConfig, Config, SinkKind, StoreTypeOK,
      StoredOK, ControllerTypeOK
<1>3. CASE ReadsForEmission
  BY <1>0, <1>3
  DEF ReadsForEmission, StoreTypeOK, StoredOK, ControllerTypeOK
<1>4. CASE ReadsWithoutEmission
  <2>1. cache \in Object
    BY <1>4 DEF ReadsWithoutEmission, StoreTypeOK
  <2>2. cache.sink \in EmitState /\ "SinkEmitNA" \in EmitState
    BY <2>1 DEF Object, EmitState
  <2>3. work' \in Object
    BY <1>4, <2>1, <2>2, RecordedType DEF ReadsWithoutEmission
  <2>4. excused' \subseteq Content /\ latest' \in Content
    BY <1>4, <2>1, HashType DEF ReadsWithoutEmission, ControllerTypeOK, Hash
  <2>5. QED
    BY <1>0, <1>4, <2>1, <2>3, <2>4
    DEF ReadsWithoutEmission, StoreTypeOK, StoredOK, ControllerTypeOK
<1>5. CASE Configures
  <2>1. config.secret \in Secret
    BY <1>5 DEF Configures, Accepts, AlertmanagerAccepts, SlackAccepts,
       ControllerTypeOK, Config
  <2>2. [sinkConfig EXCEPT !.secret = config.secret] \in Config
    BY <2>1 DEF ControllerTypeOK, Config
  <2>3. TLSOf(config.secret) \in Transport
    BY <2>1 DEF TLSOf, Secret, TLSConfig, Transport
  <2>4. transport' \in Transport
    BY <1>5, <2>3 DEF Configures, Configure, ControllerTypeOK
  <2>5. QED
    BY <1>0, <1>5, <2>2, <2>4
    DEF Configures, StoreTypeOK, StoredOK, ControllerTypeOK
<1>6. CASE Emission
  <2>1. pc \in {"emit", "send"} /\ work \in Object /\ seen \in Object
    BY <1>6 DEF Emission, Sends, SendFails, ConfigureFails, ControllerTypeOK
  <2>2. Hash(work) \in Content
    BY <2>1, HashType
  <2>3. PICK reason \in EmitState : Emitted(reason)
    BY <1>6 DEF Emission, Sends, SendFails, ConfigureFails, EmitState
  <2>4. work' \in Object
    BY <2>1, <2>3, RecordedType DEF Emitted
  <2>5. attempted' \subseteq Content /\ latest' \in Content
    BY <2>2, <2>3 DEF Emitted, ControllerTypeOK, Hash
  <2>6. delivered' \in Content \cup {NoHash}
    BY <1>6, <2>2
    DEF Emission, Sends, SendFails, ConfigureFails, ControllerTypeOK, Hash
  <2>7. faults' \in Nat
    BY <1>6 DEF Emission, Sends, SendFails, ConfigureFails, Fails, StoreTypeOK
  <2>8. UNCHANGED <<transport, sinkConfig>>
    BY <1>6 DEF Emission, Sends, SendFails, ConfigureFails
  <2>9. QED
    BY <1>0, <2>1, <2>3, <2>4, <2>5, <2>6, <2>7, <2>8
    DEF Emitted, StoredOK, ControllerTypeOK
<1>7. CASE PatchesAnnotation
  <2>1. work \in Object /\ seen \in Object
    BY <1>7 DEF PatchesAnnotation, ControllerTypeOK
  <2>2. server # NoObject => [server EXCEPT !.hash = work.hash] \in Object
    BY <2>1 DEF StoreTypeOK, Object
  <2>3. StoredOK'
    <3>1. CASE UNCHANGED stored
      BY <1>0, <3>1 DEF StoredOK
    <3>2. CASE server # NoObject /\ Store([server EXCEPT !.hash = work.hash])
      BY <1>0, <2>2, <3>2, StoreType
    <3>3. QED
      BY <1>7, <3>1, <3>2 DEF PatchesAnnotation
  <2>4. faults' \in Nat
    BY <1>7 DEF PatchesAnnotation, Fails, StoreTypeOK
  <2>5. QED
    BY <1>7, <2>1, <2>3, <2>4 DEF PatchesAnnotation, ControllerTypeOK
<1>8. CASE PatchesCondition
  <2>1. work \in Object
    BY <1>8 DEF PatchesCondition, ControllerTypeOK
  <2>2. server # NoObject => /\ server \in Object
                             /\ [server EXCEPT !.sink = work.sink] \in Object
    BY <2>1 DEF StoreTypeOK, Object
  <2>3. StoredOK'
    BY <1>0, <1>8, <2>2, PatchedStatusType DEF PatchesCondition, StoredOK
  <2>4. faults' \in Nat
    BY <1>8 DEF PatchesCondition, Fails, StoreTypeOK
  <2>5. QED
    BY <1>8, <2>3, <2>4
    DEF PatchesCondition, ControllerIdle, NoConfig, Config, SinkKind,
        ControllerTypeOK
<1>9. QED
  BY <1>1, <1>2, <1>3, <1>4, <1>5, <1>6, <1>7, <1>8 DEF Controller

LEMMA ControllerStepTypes ==
    ASSUME StoreTypeOK, PluginTypeOK, ControllerTypeOK, ControllerStep
    PROVE  StoreTypeOK' /\ PluginTypeOK' /\ ControllerTypeOK'
<1> USE DEF stored, spent, controllerMemory, history
<1>1. UNCHANGED <<pluginVars, deletions, configs>>
  BY DEF ControllerStep
<1>2. PluginTypeOK'
  BY <1>1 DEF pluginVars, pluginMemory, PluginTypeOK
<1>3. CASE Controller
  BY <1>1, <1>2, <1>3, ControllerTypes DEF StoreTypeOK, StoredOK
<1>4. CASE Deliver
  <2>1. feed' \in Seq(Object \cup {NoObject}) /\ cache' \in Object \cup {NoObject}
    BY <1>4 DEF Deliver, ReceiveEvent, StoreTypeOK
  <2>2. QED
    BY <1>1, <1>2, <1>4, <2>1
    DEF Deliver, ReceiveEvent, StoreTypeOK, ControllerTypeOK
<1>5. CASE Resync
  BY <1>1, <1>2, <1>5 DEF Resync, StoreTypeOK, ControllerTypeOK
<1>6. CASE ControllerCrash
  <2>1. crashes' \in Nat
    BY <1>6 DEF ControllerCrash, Restarts, StoreTypeOK
  <2>2. QED
    BY <1>1, <1>2, <1>6, <2>1
    DEF ControllerCrash, Relist, NewClient, Transport, ControllerIdle, NoConfig,
        Config, SinkKind, StoreTypeOK, ControllerTypeOK
<1>7. QED
  BY <1>3, <1>4, <1>5, <1>6 DEF ControllerStep

LEMMA UserStepTypes ==
    ASSUME StoreTypeOK, PluginTypeOK, ControllerTypeOK,
           UserDeletes \/ \E c \in Configs : UserConfigures(c)
    PROVE  StoreTypeOK' /\ PluginTypeOK' /\ ControllerTypeOK'
<1> USE DEF stored, spent, pluginMemory, pluginVars, controllerMemory,
            controllerVars, history
<1>1. CASE UserDeletes
  <2>1. StoredOK'
    BY <1>1, StoreType DEF UserDeletes, StoreTypeOK, StoredOK
  <2>2. /\ deletions' \in Nat
        /\ UNCHANGED <<spent, pluginVars, controllerVars, configs>>
    BY <1>1 DEF UserDeletes, StoreTypeOK
  <2>3. QED
    BY <2>1, <2>2 DEF StoredOK, StoreTypeOK, PluginTypeOK, ControllerTypeOK
<1>2. ASSUME NEW c \in Configs, UserConfigures(c)
      PROVE  StoreTypeOK' /\ PluginTypeOK' /\ ControllerTypeOK'
  <2>1. configs' \in Nat
    BY <1>2 DEF UserConfigures, StoreTypeOK
  <2>2. QED
    BY <1>2, <2>1, ControllerAssumption
    DEF UserConfigures, StoreTypeOK, PluginTypeOK, ControllerTypeOK
<1>3. QED
  BY <1>1, <1>2

LEMMA DueStep == due \in BOOLEAN /\ [Next]_vars => due' \in BOOLEAN
<1> SUFFICES ASSUME due \in BOOLEAN, [Next]_vars PROVE due' \in BOOLEAN
  OBVIOUS
<1> USE DEF controllerVars
<1>1. CASE PluginStep \/ UserDeletes \/ UNCHANGED vars
  BY <1>1 DEF PluginStep, UserDeletes, vars
<1>2. CASE \E c \in Configs : UserConfigures(c)
  BY <1>2 DEF UserConfigures
<1>3. CASE ControllerStep
  BY <1>3
  DEF ControllerStep, Controller, ReadsConfig, ResultNotFound,
      ReadsForEmission, ReadsWithoutEmission, Configures, Emission, Sends,
      SendFails, ConfigureFails, Emitted, PatchesAnnotation, PatchesCondition, Deliver, Resync, ControllerCrash
<1>4. QED
  BY <1>1, <1>2, <1>3 DEF Next

LEMMA TypeStep == TypeOK /\ [Next]_vars => TypeOK'
<1> SUFFICES ASSUME TypeOK, [Next]_vars PROVE TypeOK'
  OBVIOUS
<1>1. due' \in BOOLEAN
  BY DueStep DEF TypeOK
<1>2. StoreTypeOK /\ PluginTypeOK /\ ControllerTypeOK
  BY DEF TypeOK
<1>3. CASE UNCHANGED vars
  BY <1>2, <1>3
  DEF vars, stored, spent, pluginVars, pluginMemory, controllerVars, TypeOK,
      controllerMemory, history, StoreTypeOK, PluginTypeOK, ControllerTypeOK
<1>4. QED
  BY <1>1, <1>2, <1>3, PluginStepTypes, ControllerStepTypes, UserStepTypes
  DEF Next, TypeOK

LEMMA TypeInit == Init => TypeOK
<1> SUFFICES ASSUME Init PROVE TypeOK
  OBVIOUS
<1>1. StoreTypeOK
  BY DEF Init, ResultInit, CachedObjectInit, PluginView!CachedObjectInit,
     StoreTypeOK
<1>2. PluginTypeOK
  BY DEF Init, PluginInit, PluginTypeOK
<1>3. ControllerTypeOK /\ due \in BOOLEAN
  BY DEF Init, ControllerInit, NoConfig, Config, SinkKind, Transport,
     ControllerTypeOK
<1>4. QED
  BY <1>1, <1>2, <1>3 DEF TypeOK

\* Every variable of the two processes, their caches and the users keeps its
\* type.
THEOREM TypeCorrect == Spec => []TypeOK
BY TypeInit, TypeStep, PTL DEF Spec

-----------------------------------------------------------------------------
(* The hash annotation *)

Versions ==
    /\ server # NoObject => Accounted(server.hash)
    /\ cache # NoObject => Accounted(cache.hash)
    /\ \A k \in DOMAIN feed : feed[k] # NoObject => Accounted(feed[k].hash)

\* What is stored has to be accounted for, then so is every version.
LEMMA StoreAccounts ==
    ASSUME NEW obj, feed \in Seq(Object \cup {NoObject}), Versions, Store(obj),
           obj # NoObject => Accounted(obj.hash),
           UNCHANGED <<attempted, excused>>
    PROVE  Versions'
<1>1. \A h : Accounted(h) => Accounted(h)'
  BY DEF Accounted
<1>2. CASE UNCHANGED <<server, feed>>
  BY <1>1, <1>2 DEF Store, Versions
<1>3. CASE server' = obj /\ feed' = Append(feed, obj)
  <2>1. \A k \in DOMAIN feed' : feed'[k] = obj \/ (k \in DOMAIN feed /\ feed'[k] = feed[k])
    BY <1>3
  <2>2. QED
    BY <1>1, <1>3, <2>1 DEF Store, Versions
<1>4. QED
  BY <1>2, <1>3 DEF Store, Write

LEMMA PatchAccounts ==
    ASSUME NEW obj, feed \in Seq(Object \cup {NoObject}), Versions,
           PatchedStatus(obj), server # NoObject => obj.hash = server.hash,
           UNCHANGED <<attempted, excused>>
    PROVE  Versions'
<1>1. CASE UNCHANGED stored
  BY <1>1 DEF stored, Versions, Accounted
<1>2. CASE server # NoObject /\ Store(obj)
  <2>1. Accounted(obj.hash)
    BY <1>2 DEF Versions
  <2>2. QED
    BY <1>2, <2>1, StoreAccounts
<1>3. QED
  BY <1>1, <1>2 DEF PatchedStatus

\* The plugin and the users leave the annotation alone.
LEMMA OthersAccount ==
    ASSUME TypeOK, Versions,
           PluginStep \/ UserDeletes \/ \E c \in Configs : UserConfigures(c)
    PROVE  Versions'
<1> USE DEF stored, controllerVars, controllerMemory, history
<1>1. feed \in Seq(Object \cup {NoObject}) /\ UNCHANGED <<attempted, excused>>
  BY DEF TypeOK, StoreTypeOK, PluginStep, UserDeletes, UserConfigures
<1>2. server # NoObject => server \in Object
  BY DEF TypeOK, StoreTypeOK
<1>3. CASE UNCHANGED <<server, feed, cache>>
  BY <1>1, <1>3 DEF Versions, Accounted
<1>4. CASE CreatesResult
  BY <1>1, <1>4, StoreAccounts DEF CreatesResult, Build, Accounted
<1>5. CASE InitializesStatus
  <2>1. server # NoObject =>
            [server EXCEPT !.state = "InProgress"].hash = server.hash
    BY <1>2 DEF Object
  <2>2. QED
    BY <1>1, <1>3, <1>5, <2>1, PatchAccounts DEF InitializesStatus
<1>6. CASE PatchesResult
  <2>1. server # NoObject => Patched(server).hash = server.hash
    BY <1>2 DEF Patched, Object
  <2>2. QED
    BY <1>1, <1>3, <1>6, <2>1, PatchAccounts DEF PatchesResult
<1>7. CASE UserDeletes
  BY <1>1, <1>7, StoreAccounts DEF UserDeletes
<1>8. CASE \/ FindsResult \/ CreateFails \/ Validate \/ UpdateStatus \/ Panics
           \/ PluginResumes \/ PluginDeliver \/ PluginCrash
           \/ \E r \in Rules : WorldChanges(r)
           \/ \E c \in Configs : UserConfigures(c)
  <2>1. UNCHANGED <<server, feed, cache>>
    BY <1>8
    DEF FindsResult, CreateFails, Validate, UpdateStatus, Panics, WorldChanges,
        PluginResumes, PluginDeliver, PluginView!ReceiveEvent, PluginCrash, PluginView!Relist,
        UserConfigures
  <2>2. QED
    BY <1>3, <2>1
<1>9. QED
  BY <1>4, <1>5, <1>6, <1>7, <1>8 DEF PluginStep, Plugin

\* The controller records a hash after it has emitted what it is the hash of,
\* or when it has found nothing to emit.
LEMMA ControllerAccounts ==
    ASSUME TypeOK, Versions, CopiesAccounted, ControllerStep
    PROVE  Versions' /\ CopiesAccounted'
<1> USE DEF stored, controllerMemory, history
<1>1. feed \in Seq(Object \cup {NoObject})
  BY DEF TypeOK, StoreTypeOK
<1>2. server # NoObject => server \in Object
  BY DEF TypeOK, StoreTypeOK
<1>3. CASE \/ ReadsConfig \/ ResultNotFound \/ ReadsForEmission \/ Configures
           \/ Resync
  BY <1>3
  DEF ReadsConfig, ResultNotFound, ReadsForEmission, Configures, Resync,
      CanReadResultNow, ControllerIdle, Versions, CopiesAccounted, Accounted
<1>4. CASE ReadsWithoutEmission
  <2>1. cache \in Object /\ pc = "read" /\ ~MustEmit(cache)
    BY <1>4 DEF ReadsWithoutEmission, CanReadResultNow, TypeOK, StoreTypeOK
  <2>2. \A h : Accounted(h) => Accounted(h)'
    BY <1>4 DEF ReadsWithoutEmission, Accounted
  <2>3. work'.hash = Hash(cache)
    BY <1>4, <2>1 DEF ReadsWithoutEmission, Recorded, Object
  <2>4. Accounted(Hash(cache))'
    <3>1. CASE ~Complete(Hash(cache))
      BY <1>4, <3>1 DEF ReadsWithoutEmission, Accounted, Complete, Hash, ContentOf
    <3>2. CASE Complete(Hash(cache)) /\ ~HasSink(sinkConfig)
      BY <1>4, <3>2 DEF ReadsWithoutEmission, Accounted, Hash
    <3>3. CASE cache.hash = Hash(cache)
      BY <1>4, <2>2, <3>3 DEF ReadsWithoutEmission, CopiesAccounted
    <3>4. QED
      BY <2>1, <3>1, <3>2, <3>3 DEF MustEmit
  <2>5. pc' = "patch" /\ UNCHANGED stored
    BY <1>4 DEF ReadsWithoutEmission
  <2>6. QED
    BY <2>2, <2>3, <2>4, <2>5 DEF Versions, CopiesAccounted
<1>5. CASE Emission
  <2>1. pc \in {"emit", "send"} /\ \E reason : Emitted(reason)
    BY <1>5 DEF Emission, Sends, SendFails, ConfigureFails
  <2>2. \A h : Accounted(h) => Accounted(h)'
    BY <2>1 DEF Emitted, Accounted
  <2>3. work \in Object
    BY <2>1 DEF TypeOK, ControllerTypeOK
  <2>4. work'.hash = Hash(work)
    BY <2>1, <2>3 DEF Emitted, Recorded, Object
  <2>5. Accounted(work.hash)'
    BY <2>1, <2>4 DEF Emitted, Accounted, Hash
  <2>6. pc' = "patch" /\ UNCHANGED stored
    BY <2>1 DEF Emitted
  <2>7. QED
    BY <2>2, <2>5, <2>6 DEF Versions, CopiesAccounted
<1>6. CASE PatchesAnnotation
  <2>1. /\ pc = "patch" /\ pc' = "patchStatus"
        /\ UNCHANGED <<controllerMemory, history>>
    BY <1>6 DEF PatchesAnnotation
  <2>2. Accounted(work.hash)
    BY <2>1 DEF CopiesAccounted
  <2>3. server # NoObject =>
            [server EXCEPT !.hash = work.hash].hash = work.hash
    BY <1>2 DEF Object
  <2>4. Versions'
    <3>1. CASE UNCHANGED stored
      BY <2>1, <3>1 DEF Versions, Accounted
    <3>2. CASE server # NoObject /\ Store([server EXCEPT !.hash = work.hash])
      BY <1>1, <2>1, <2>2, <2>3, <3>2, StoreAccounts
    <3>3. QED
      BY <1>6, <3>1, <3>2 DEF PatchesAnnotation
  <2>5. QED
    BY <2>1, <2>2, <2>4 DEF Versions, CopiesAccounted, Accounted
<1>7. CASE PatchesCondition
  <2>1. pc' = "idle" /\ UNCHANGED history
    BY <1>7 DEF PatchesCondition, ControllerIdle
  <2>2. server # NoObject =>
            (IF work.sink # seen.sink THEN [server EXCEPT !.sink = work.sink]
             ELSE server).hash = server.hash
    BY <1>2 DEF Object
  <2>3. Versions'
    <3>1. CASE UNCHANGED stored
      BY <2>1, <3>1 DEF Versions, Accounted
    <3>2. CASE PatchedStatus(IF work.sink # seen.sink
                             THEN [server EXCEPT !.sink = work.sink]
                             ELSE server)
      BY <1>1, <2>1, <2>2, <3>2, PatchAccounts
    <3>3. QED
      BY <1>7, <3>1, <3>2 DEF PatchesCondition
  <2>4. QED
    BY <2>1, <2>3 DEF Versions, CopiesAccounted
<1>8. CASE Deliver
  <2>1. /\ feed # <<>> /\ cache' = Head(feed) /\ feed' = Tail(feed)
        /\ UNCHANGED <<server, pc, controllerMemory, history>>
    BY <1>8 DEF Deliver, ReceiveEvent
  <2>2. Head(feed) = feed[1] /\ 1 \in DOMAIN feed
    BY <1>1, <2>1
  <2>3. \A k \in DOMAIN feed' : k + 1 \in DOMAIN feed /\ feed'[k] = feed[k + 1]
    BY <1>1, <2>1
  <2>4. Versions'
    BY <2>1, <2>2, <2>3 DEF Versions, Accounted
  <2>5. QED
    BY <2>1, <2>4 DEF Versions, CopiesAccounted, Accounted
<1>9. CASE ControllerCrash
  BY <1>9
  DEF ControllerCrash, Relist, ControllerIdle, Versions, CopiesAccounted,
      Accounted
<1>10. QED
  BY <1>3, <1>4, <1>5, <1>6, <1>7, <1>8, <1>9 DEF ControllerStep, Controller

LEMMA EmissionStep == EmissionInv /\ [Next]_vars => EmissionInv'
<1> SUFFICES ASSUME EmissionInv, [Next]_vars PROVE EmissionInv'
  OBVIOUS
<1>1. TypeOK /\ TypeOK'
  BY TypeStep DEF EmissionInv
<1>2. Versions /\ CopiesAccounted
  BY DEF EmissionInv, CopiesAccounted, Versions
<1>3. Versions' /\ CopiesAccounted'
  <2>1. CASE ControllerStep
    BY <1>1, <1>2, <2>1, ControllerAccounts
  <2>2. CASE PluginStep \/ UserDeletes \/ \E c \in Configs : UserConfigures(c)
    <3>1. UNCHANGED <<pc, sinkConfig, work, attempted, excused>>
      BY <2>2
      DEF PluginStep, UserDeletes, UserConfigures, controllerVars,
          controllerMemory, history
    <3>2. Versions'
      BY <1>1, <1>2, <2>2, OthersAccount
    <3>3. QED
      BY <1>2, <3>1, <3>2 DEF Versions, CopiesAccounted, Accounted
  <2>3. CASE UNCHANGED vars
    BY <1>2, <2>3
    DEF vars, stored, controllerVars, controllerMemory, history, Versions,
        CopiesAccounted, Accounted
  <2>4. QED
    BY <2>1, <2>2, <2>3 DEF Next
<1>4. QED
  BY <1>1, <1>3 DEF EmissionInv

LEMMA EmissionInit == Init => EmissionInv
<1> SUFFICES ASSUME Init PROVE EmissionInv
  OBVIOUS
<1>1. TypeOK
  BY TypeInit
<1>2. server = NoObject /\ cache = NoObject /\ feed = <<>> /\ pc = "idle"
  BY DEF Init, ResultInit, CachedObjectInit, ControllerInit
<1>3. QED
  BY <1>1, <1>2 DEF EmissionInv, CopiesAccounted

\* No crash, lost patch, stale read, deletion or reconfiguration makes the
\* controller record the hash of a complete result that it neither tried to
\* emit nor found without a sink - for any rules, outcomes and bounds.
THEOREM HashIsHonest == Spec => []HashMeansAttempted
<1>1. Spec => []EmissionInv
  BY EmissionInit, EmissionStep, PTL DEF Spec
<1>2. EmissionInv => HashMeansAttempted
  <2> SUFFICES ASSUME EmissionInv, server # NoObject,
                      server.hash = Hash(server), Complete(Hash(server))
               PROVE  ContentOf(server) \in attempted \cup excused
    BY DEF HashMeansAttempted
  <2>1. Hash(server) \in Content /\ Accounted(server.hash)
    BY HashType
    DEF EmissionInv, TypeOK, StoreTypeOK, CopiesAccounted
  <2>2. QED
    BY <2>1, NoValueAssumption DEF Accounted, Hash
<1>3. QED
  BY <1>1, <1>2, PTL

=============================================================================
