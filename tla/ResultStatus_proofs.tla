------------------------ MODULE ResultStatus_proofs ------------------------
(***************************************************************************)
(* Proofs about what ValidationResults stores and sends: the requests, the *)
(* conditions and state of a ValidationResult, and repeated emissions.     *)
(***************************************************************************)
EXTENDS ValidationResults_proofs

-----------------------------------------------------------------------------
(* The shared HTTP client *)

RequestInv == TypeOK /\ RequestUsesItsSecret

LEMMA RequestStep == RequestInv /\ [Next]_vars => RequestInv'
<1> SUFFICES ASSUME RequestInv, [Next]_vars PROVE RequestInv'
  OBVIOUS
<1> USE DEF stored, spent, controllerMemory, controllerVars
<1>1. TypeOK /\ TypeOK' /\ RequestUsesItsSecret
  BY TypeStep DEF RequestInv
<1>2. CASE Configures
  <2>1. /\ sinkConfig \in Config
        /\ sinkConfig' = [sinkConfig EXCEPT !.secret = config.secret]
        /\ Configure(sinkConfig.sink, config.secret)
    BY <1>1, <1>2 DEF Configures, TypeOK, ControllerTypeOK
  <2>2. sinkConfig'.sink = sinkConfig.sink /\ sinkConfig'.secret = config.secret
    BY <2>1 DEF Config
  <2>3. QED
    BY <1>1, <2>1, <2>2 DEF Configure, RequestUsesItsSecret, RequestInv
<1>3. CASE PluginStep \/ UserDeletes \/ UNCHANGED vars
           \/ \E c \in Configs : UserConfigures(c)
  <2>1. UNCHANGED <<pc, sinkConfig, transport>>
    BY <1>3 DEF PluginStep, UserDeletes, UserConfigures, vars
  <2>2. QED
    BY <1>1, <2>1 DEF RequestUsesItsSecret, RequestInv
<1>4. CASE ControllerStep /\ ~Configures
  <2>1. pc' # "send" \/ UNCHANGED <<pc, sinkConfig, transport>>
    BY <1>4
    DEF ControllerStep, Controller, ReadsConfig, ResultNotFound,
        ReadsForEmission, ReadsWithoutEmission, Emission, Sends, SendFails,
        ConfigureFails, Emitted, PatchesAnnotation, PatchesCondition, Deliver,
        Resync, ControllerCrash, ControllerIdle
  <2>2. QED
    BY <1>1, <2>1 DEF RequestUsesItsSecret, RequestInv
<1>5. QED
  BY <1>2, <1>3, <1>4 DEF Next, ControllerStep

\* Whatever sinks the users configure, one after the other, and whatever
\* secrets they name: no request to Alertmanager goes out with the TLS settings
\* of another one, although all share http.DefaultClient.
THEOREM RequestsUseTheirSecret == Spec => []RequestUsesItsSecret
<1>1. Init => RequestInv
  BY TypeInit DEF Init, ControllerInit, RequestUsesItsSecret, RequestInv
<1>2. RequestInv => RequestUsesItsSecret
  BY DEF RequestInv
<1>3. QED
  BY <1>1, <1>2, RequestStep, PTL DEF Spec

-----------------------------------------------------------------------------
(* One condition per rule *)

Unique(conds) ==
    \A j, k \in DOMAIN conds : conds[j].rule = conds[k].rule => j = k

\* Every version of the ValidationResult and the copy that the plugin works on
UniqueRules ==
    /\ server # NoObject => Unique(server.conds)
    /\ pluginCache # NoObject => Unique(pluginCache.conds)
    /\ \A k \in DOMAIN pluginFeed :
          pluginFeed[k] # NoObject => Unique(pluginFeed[k].conds)
    /\ vr # NoObject => Unique(vr.conds)

\* The first condition of a rule is the only one, and gets replaced.
LEMMA UpsertReplaces ==
    ASSUME NEW conds \in Seq(Condition), NEW c \in Condition, Unique(conds),
           NEW k \in DOMAIN conds, conds[k].rule = c.rule
    PROVE  Upsert(conds, c) = [conds EXCEPT ![k] = c]
<1>1. \A m \in DOMAIN conds : conds[m].rule = c.rule => m = k
  BY DEF Unique
<1> DEFINE P(m) == /\ conds[m].rule = c.rule
                   /\ \A l \in 1 .. m - 1 : conds[l].rule # c.rule
<1>2. P(k)
  <2>1. \A l \in 1 .. k - 1 : l \in DOMAIN conds /\ l # k
    OBVIOUS
  <2>2. QED
    BY <1>1, <2>1
<1>3. (CHOOSE m \in DOMAIN conds : P(m)) = k
  <2> HIDE DEF P
  <2>1. /\ (CHOOSE m \in DOMAIN conds : P(m)) \in DOMAIN conds
        /\ P(CHOOSE m \in DOMAIN conds : P(m))
    BY <1>2
  <2>2. QED
    BY <1>1, <2>1 DEF P
<1>4. QED
  BY <1>3 DEF Upsert

LEMMA UpsertAppends ==
    ASSUME NEW conds \in Seq(Condition), NEW c \in Condition,
           \A k \in DOMAIN conds : conds[k].rule # c.rule
    PROVE  /\ Len(conds) + 1 \notin DOMAIN conds
           /\ DOMAIN Upsert(conds, c) = DOMAIN conds \cup {Len(conds) + 1}
           /\ \A k \in DOMAIN conds : Upsert(conds, c)[k] = conds[k]
           /\ Upsert(conds, c)[Len(conds) + 1] = c
<1>1. Upsert(conds, c) = Append(conds, c)
  BY DEF Upsert
<1>2. /\ Len(conds) \in Nat /\ DOMAIN conds = 1 .. Len(conds)
      /\ DOMAIN Append(conds, c) = 1 .. Len(conds) + 1
      /\ \A k \in DOMAIN conds : Append(conds, c)[k] = conds[k]
      /\ Append(conds, c)[Len(conds) + 1] = c
  OBVIOUS
<1>3. QED
  BY <1>1, <1>2

\* A condition replaces the one of its rule, or it is the first.
LEMMA UpsertUnique ==
    ASSUME NEW conds \in Seq(Condition), NEW c \in Condition, Unique(conds)
    PROVE  Unique(Upsert(conds, c))
<1>1. ASSUME NEW k \in DOMAIN conds, conds[k].rule = c.rule
      PROVE  Unique(Upsert(conds, c))
  <2>1. Upsert(conds, c) = [conds EXCEPT ![k] = c]
    BY <1>1, UpsertReplaces
  <2>2. QED
    BY <1>1, <2>1 DEF Unique
<1>2. CASE \A k \in DOMAIN conds : conds[k].rule # c.rule
  <2> DEFINE new == Upsert(conds, c)
             end == Len(conds) + 1
  <2>1. /\ end \notin DOMAIN conds /\ DOMAIN new = DOMAIN conds \cup {end}
        /\ \A k \in DOMAIN conds : new[k] = conds[k]
        /\ new[end] = c
    BY <1>2, UpsertAppends
  <2> HIDE DEF new, end
  <2>2. Unique(new)
    BY <1>2, <2>1 DEF Unique
  <2>3. QED
    BY <2>2 DEF new
<1>3. QED
  BY <1>1, <1>2

\* ... and all others stay.
LEMMA UpsertSays ==
    ASSUME NEW conds \in Seq(Condition), NEW c \in Condition, Unique(conds)
    PROVE  Says(Upsert(conds, c)) =
               {x \in Says(conds) : x.rule # c.rule} \cup {c}
<1>1. ASSUME NEW k \in DOMAIN conds, conds[k].rule = c.rule
      PROVE  Says(Upsert(conds, c)) =
                 {x \in Says(conds) : x.rule # c.rule} \cup {c}
  <2>1. Upsert(conds, c) = [conds EXCEPT ![k] = c]
    BY <1>1, UpsertReplaces
  <2>2. \A m \in DOMAIN conds : conds[m].rule # c.rule <=> m # k
    BY <1>1 DEF Unique
  <2>3. QED
    BY <1>1, <2>1, <2>2 DEF Says
<1>2. CASE \A k \in DOMAIN conds : conds[k].rule # c.rule
  <2> DEFINE new == Upsert(conds, c)
             end == Len(conds) + 1
  <2>1. /\ end \notin DOMAIN conds /\ DOMAIN new = DOMAIN conds \cup {end}
        /\ \A k \in DOMAIN conds : new[k] = conds[k]
        /\ new[end] = c
    BY <1>2, UpsertAppends
  <2> HIDE DEF new, end
  <2>2. Says(new) = Says(conds) \cup {c}
    BY <2>1 DEF Says
  <2>3. \A x \in Says(conds) : x.rule # c.rule
    BY <1>2 DEF Says
  <2>4. QED
    BY <2>2, <2>3 DEF new
<1>3. QED
  BY <1>1, <1>2

LEMMA StoreUnique ==
    ASSUME NEW obj, TypeOK, UniqueRules, Store(obj),
           obj # NoObject => Unique(obj.conds),
           vr' # NoObject => Unique(vr'.conds)
    PROVE  UniqueRules'
<1>1. pluginFeed \in Seq(Object \cup {NoObject})
  BY DEF TypeOK, StoreTypeOK
<1>2. server' = server \/ server' = obj
  BY DEF Store, Write
<1>3. pluginFeed' = pluginFeed \/ pluginFeed' = Append(pluginFeed, obj)
  BY DEF Store, PluginView!Write
<1>4. \A k \in DOMAIN pluginFeed' :
         pluginFeed'[k] # NoObject => Unique(pluginFeed'[k].conds)
  <2>1. CASE pluginFeed' = pluginFeed
    BY <2>1 DEF UniqueRules
  <2>2. CASE pluginFeed' = Append(pluginFeed, obj)
    <3>1. \A k \in DOMAIN pluginFeed' :
             \/ pluginFeed'[k] = obj
             \/ k \in DOMAIN pluginFeed /\ pluginFeed'[k] = pluginFeed[k]
      BY <1>1, <2>2
    <3>2. QED
      BY <3>1 DEF UniqueRules
  <2>3. QED
    BY <1>3, <2>1, <2>2
<1>5. QED
  BY <1>2, <1>4 DEF Store, UniqueRules, Unique

\* A step that writes nothing, or a version with the conditions of the stored
\* one
LEMMA KeepsUnique ==
    ASSUME TypeOK, UniqueRules,
           vr' # NoObject => Unique(vr'.conds),
           \/ UNCHANGED <<server, pluginFeed, pluginCache>>
           \/ \E obj : /\ Store(obj)
                       /\ obj # NoObject => Unique(obj.conds)
    PROVE  UniqueRules'
<1>1. CASE UNCHANGED <<server, pluginFeed, pluginCache>>
  BY <1>1 DEF UniqueRules, Unique
<1>2. ASSUME NEW obj, Store(obj), obj # NoObject => Unique(obj.conds)
      PROVE  UniqueRules'
  BY <1>2, StoreUnique
<1>3. QED
  BY <1>1, <1>2

LEMMA PluginUnique ==
    ASSUME TypeOK, UniqueRules, PluginStep
    PROVE  UniqueRules'
<1> USE DEF stored, pluginMemory, pluginVars
<1>1. /\ server # NoObject => server \in Object /\ Unique(server.conds)
      /\ vr # NoObject => vr \in Object /\ Unique(vr.conds)
      /\ pluginFeed \in Seq(Object \cup {NoObject})
  BY DEF TypeOK, StoreTypeOK, PluginTypeOK, UniqueRules
<1>2. CASE FindsResult
  BY <1>2, KeepsUnique DEF FindsResult, UniqueRules
<1>3. CASE CreatesResult
  <2>1. Store(Build(results')) /\ vr' = Build(results')
    BY <1>3 DEF CreatesResult
  <2>2. Unique(Build(results').conds)
    BY DEF Build, Unique
  <2>3. QED
    BY <2>1, <2>2, KeepsUnique
<1>4. CASE InitializesStatus
  <2>1. server # NoObject =>
            [server EXCEPT !.state = "InProgress"].conds = server.conds
    BY <1>1 DEF Object
  <2>2. QED
    BY <1>1, <1>4, <2>1, KeepsUnique
    DEF InitializesStatus, PatchedStatus, PluginIdle, PluginEnds
<1>5. CASE UpdateStatus
  <2>1. vr \in Object /\ response[n] \in Response
    BY <1>5 DEF UpdateStatus, Finalizing, TypeOK, PluginTypeOK
  <2>2. ConditionOf(response[n]) \in Condition
    BY <1>5, <2>1, ResultAssumption
    DEF UpdateStatus, ConditionOf, Response, Condition, OutcomeKinds
  <2>3. vr.conds \in Seq(Condition) /\ Unique(vr.conds)
    BY <1>1, <2>1, NoValueAssumption DEF Object
  <2>4. Unique(Upsert(vr.conds, ConditionOf(response[n])))
    BY <2>2, <2>3, UpsertUnique
  <2>5. vr'.conds = Upsert(vr.conds, ConditionOf(response[n]))
    BY <1>5, <2>1 DEF UpdateStatus, Object
  <2>6. UNCHANGED stored
    BY <1>5 DEF UpdateStatus
  <2>7. QED
    BY <2>4, <2>5, <2>6, KeepsUnique
<1>6. CASE PatchesResult
  <2>1. vr \in Object /\ vr # NoObject
    BY <1>6, NoValueAssumption DEF PatchesResult, TypeOK, PluginTypeOK
  <2>2. server # NoObject => Patched(server).conds = vr.conds
    BY <1>1 DEF Patched, Object
  <2>3. vr' = NoObject
    BY <1>6 DEF PatchesResult, PluginIdle, PluginEnds
  <2>4. QED
    BY <1>1, <1>6, <2>1, <2>2, <2>3, KeepsUnique DEF PatchesResult, PatchedStatus
<1>7. CASE \/ CreateFails \/ Validate \/ Panics \/ PluginResumes
           \/ \E r \in Rules : WorldChanges(r)
  <2>1. UNCHANGED stored /\ (vr' = vr \/ vr' = NoObject)
    BY <1>7 DEF CreateFails, Validate, Panics, PluginResumes, WorldChanges,
       PluginIdle, PluginEnds
  <2>2. QED
    BY <1>1, <2>1, KeepsUnique
<1>8. CASE PluginDeliver
  <2>1. /\ pluginFeed # <<>>
        /\ pluginCache' = Head(pluginFeed) /\ pluginFeed' = Tail(pluginFeed)
        /\ UNCHANGED <<server, vr>>
    BY <1>8 DEF PluginDeliver, PluginView!ReceiveEvent
  <2>2. Head(pluginFeed) = pluginFeed[1] /\ 1 \in DOMAIN pluginFeed
    BY <1>1, <2>1
  <2>3. \A k \in DOMAIN pluginFeed' :
           k + 1 \in DOMAIN pluginFeed /\ pluginFeed'[k] = pluginFeed[k + 1]
    BY <1>1, <2>1
  <2>4. QED
    BY <2>1, <2>2, <2>3 DEF UniqueRules, Unique
<1>9. CASE PluginCrash
  BY <1>9 DEF PluginCrash, PluginView!Relist, PluginIdle, PluginEnds,
     UniqueRules, Unique
<1>10. QED
  BY <1>2, <1>3, <1>4, <1>5, <1>6, <1>7, <1>8, <1>9 DEF PluginStep, Plugin

\* The controller patches its annotation and its own condition.
LEMMA ControllerUnique ==
    ASSUME TypeOK, UniqueRules, ControllerStep
    PROVE  UniqueRules'
<1> USE DEF stored
<1>1. vr' = vr
  BY DEF ControllerStep, pluginVars, pluginMemory
<1>2. /\ server # NoObject => server \in Object /\ Unique(server.conds)
      /\ vr # NoObject => Unique(vr.conds)
  BY DEF TypeOK, StoreTypeOK, UniqueRules
<1>3. CASE PatchesAnnotation
  <2>1. server # NoObject =>
            [server EXCEPT !.hash = work.hash].conds = server.conds
    BY <1>2 DEF Object
  <2>2. QED
    BY <1>1, <1>2, <1>3, <2>1, KeepsUnique DEF PatchesAnnotation
<1>4. CASE PatchesCondition
  <2>1. server # NoObject =>
            (IF work.sink # seen.sink THEN [server EXCEPT !.sink = work.sink]
             ELSE server).conds = server.conds
    BY <1>2 DEF Object
  <2>2. QED
    BY <1>1, <1>2, <1>4, <2>1, KeepsUnique DEF PatchesCondition, PatchedStatus
<1>5. CASE ControllerStep /\ ~PatchesAnnotation /\ ~PatchesCondition
  <2>1. UNCHANGED <<server, pluginFeed, pluginCache>>
    BY <1>5
    DEF ControllerStep, Controller, ReadsConfig, ResultNotFound,
        ReadsForEmission, ReadsWithoutEmission, Configures, Emission, Sends,
        SendFails, ConfigureFails, Emitted, Deliver, ReceiveEvent, Resync,
        ControllerCrash, Relist
  <2>2. QED
    BY <1>1, <1>2, <2>1, KeepsUnique
<1>6. QED
  BY <1>3, <1>4, <1>5

LEMMA UniqueStep == TypeOK /\ UniqueRules /\ [Next]_vars => UniqueRules'
<1> SUFFICES ASSUME TypeOK, UniqueRules, [Next]_vars PROVE UniqueRules'
  OBVIOUS
<1>1. CASE UserDeletes
  <2>1. Store(NoObject) /\ vr' = vr
    BY <1>1 DEF UserDeletes, pluginVars, pluginMemory
  <2>2. QED
    BY <2>1, KeepsUnique DEF UniqueRules
<1>2. CASE UNCHANGED vars \/ \E c \in Configs : UserConfigures(c)
  BY <1>2 DEF vars, UserConfigures, stored, pluginVars, pluginMemory,
     UniqueRules, Unique
<1>3. QED
  BY <1>1, <1>2, PluginUnique, ControllerUnique DEF Next

LEMMA UniqueInit == Init => UniqueRules
BY DEF Init, ResultInit, CachedObjectInit, PluginView!CachedObjectInit,
   PluginInit, UniqueRules

\* However often the plugin evaluates its rules, on however old a copy, and
\* whatever they return: a rule never has two conditions.
THEOREM RulesHaveOneCondition == Spec => []OneConditionPerRule
<1>1. Init => UniqueRules
  BY UniqueInit
<1>2. UniqueRules => OneConditionPerRule
  BY DEF UniqueRules, Unique, OneConditionPerRule
<1>3. QED
  BY <1>1, <1>2, UniqueStep, TypeCorrect, PTL DEF Spec

-----------------------------------------------------------------------------
(* The rounds of the plugin *)

\* What Finalize has made of the old conditions after m responses
Round(old, responses, m) ==
    {c \in Says(old) : \A k \in 1 .. m : ConditionOf(responses[k]).rule # c.rule}
      \cup {ConditionOf(responses[k]) : k \in
               {k \in 1 .. m : \A i \in 1 .. m :
                   ConditionOf(responses[i]).rule = ConditionOf(responses[k]).rule
                     => i <= k}}

RoundInv ==
    /\ step # "finalize" => n = 1
    /\ step = "validate" => vr = before
    /\ step = "finalize" =>
          /\ n \in 1 .. Len(response) + 1
          /\ \A k \in 1 .. n - 1 : response[k].outcome # "nil"
          /\ Says(vr.conds) = Round(before.conds, response, n - 1)

\* One more response replaces what its rule said before.
LEMMA RoundGrows ==
    ASSUME NEW old, NEW responses, NEW m \in Nat \ {0}
    PROVE  LET c == ConditionOf(responses[m]) IN
             Round(old, responses, m) =
               {x \in Round(old, responses, m - 1) : x.rule # c.rule} \cup {c}
<1> DEFINE C(k) == ConditionOf(responses[k])
           Last(k, j) == \A i \in 1 .. j : C(i).rule = C(k).rule => i <= k
           Old(j) == {c \in Says(old) : \A k \in 1 .. j : C(k).rule # c.rule}
           New(j) == {C(k) : k \in {k \in 1 .. j : Last(k, j)}}
<1>1. \A j : Round(old, responses, j) = Old(j) \cup New(j)
  BY DEF Round
<1>2. \A k : k \in 1 .. m <=> k = m \/ k \in 1 .. m - 1
  OBVIOUS
<1>3. Old(m) = {x \in Old(m - 1) : x.rule # C(m).rule}
  BY <1>2
<1>4. New(m) = {x \in New(m - 1) : x.rule # C(m).rule} \cup {C(m)}
  <2>1. Last(m, m)
    OBVIOUS
  <2>2. \A k \in 1 .. m - 1 :
           Last(k, m) <=> Last(k, m - 1) /\ C(k).rule # C(m).rule
    BY <1>2
  <2> HIDE DEF C, Last
  <2>3. QED
    BY <1>2, <2>1, <2>2
<1> HIDE DEF C, Old, New
<1>5. QED
  BY <1>1, <1>3, <1>4 DEF C

LEMMA RoundPlugin ==
    ASSUME TypeOK, UniqueRules, RoundInv, PluginStep
    PROVE  RoundInv'
<1> USE DEF pluginMemory
<1>1. CASE FindsResult \/ CreatesResult \/ CreateFails
  BY <1>1 DEF FindsResult, CreatesResult, CreateFails, CanReadResult,
     pluginVars, RoundInv
<1>2. CASE Validate
  <2>1. /\ step = "validate" /\ step' = "finalize" /\ n = 1 /\ vr = before
        /\ UNCHANGED <<before, vr, n>>
    BY <1>2 DEF Validate, RoundInv
  <2>2. response' \in Seq(Response)
    <3>1. TypeOK'
      BY <1>2, TypeStep DEF Next, PluginStep
    <3>2. QED
      BY <3>1 DEF TypeOK, PluginTypeOK
  <2>3. \A old, r : Round(old, r, 0) = Says(old)
    BY DEF Round
  <2>4. QED
    BY <2>1, <2>2, <2>3 DEF RoundInv
<1>3. CASE UpdateStatus
  <2>1. /\ step = "finalize" /\ n \in DOMAIN response
        /\ response[n].outcome # "nil" /\ n' = n + 1
        /\ UNCHANGED <<step, before, response>>
    BY <1>3 DEF UpdateStatus, Finalizing
  <2>2. /\ n \in Nat \ {0} /\ response[n] \in Response
        /\ vr \in Object /\ vr # NoObject /\ response \in Seq(Response)
    BY <2>1, NoValueAssumption DEF TypeOK, PluginTypeOK
  <2> DEFINE c == ConditionOf(response[n])
  <2>3. c \in Condition
    BY <2>1, <2>2, ResultAssumption
    DEF ConditionOf, Response, Condition, OutcomeKinds
  <2>4. vr.conds \in Seq(Condition) /\ Unique(vr.conds)
    BY <2>2 DEF Object, UniqueRules
  <2>5. vr'.conds = Upsert(vr.conds, c)
    BY <1>3, <2>2 DEF UpdateStatus, Object
  <2>6. Says(vr'.conds) = {x \in Says(vr.conds) : x.rule # c.rule} \cup {c}
    <3> HIDE DEF c
    <3>1. QED
      BY <2>3, <2>4, <2>5, UpsertSays
  <2>7. Says(vr.conds) = Round(before.conds, response, n - 1)
    BY <2>1 DEF RoundInv
  <2>8. Says(vr'.conds) = Round(before.conds, response, n)
    BY <2>2, <2>6, <2>7, RoundGrows
  <2>9. \A k \in 1 .. n : response[k].outcome # "nil"
    <3>1. \A k \in 1 .. n : k = n \/ k \in 1 .. n - 1
      BY <2>2
    <3>2. QED
      BY <2>1, <3>1 DEF RoundInv
  <2>10. n' - 1 = n /\ n' \in 1 .. Len(response) + 1
    BY <2>1, <2>2
  <2>11. QED
    BY <2>1, <2>8, <2>9, <2>10 DEF RoundInv
<1>4. CASE InitializesStatus \/ Panics \/ PatchesResult \/ PluginCrash
  BY <1>4 DEF InitializesStatus, Panics, PatchesResult, PluginCrash,
     PluginIdle, PluginEnds, RoundInv
<1>5. CASE PluginResumes \/ PluginDeliver \/ \E r \in Rules : WorldChanges(r)
  BY <1>5 DEF PluginResumes, PluginDeliver, WorldChanges, pluginVars, RoundInv
<1>6. QED
  BY <1>1, <1>2, <1>3, <1>4, <1>5 DEF PluginStep, Plugin

LEMMA RoundStep == TypeOK /\ UniqueRules /\ RoundInv /\ [Next]_vars => RoundInv'
<1> SUFFICES ASSUME TypeOK, UniqueRules, RoundInv, [Next]_vars PROVE RoundInv'
  OBVIOUS
<1>1. CASE ControllerStep \/ UserDeletes \/ UNCHANGED vars
           \/ \E c \in Configs : UserConfigures(c)
  BY <1>1 DEF ControllerStep, UserDeletes, UserConfigures, vars, pluginVars,
     pluginMemory, RoundInv
<1>2. QED
  BY <1>1, RoundPlugin DEF Next

\* A round that is stored says what the rules returned and nothing else, of
\* any rules in any order, evaluated twice or not, from a copy of any age.
THEOREM RoundsAreRecorded == Spec => RoundIsRecorded
<1>1. Init => RoundInv /\ UniqueRules
  BY UniqueInit DEF Init, PluginInit, RoundInv
<1>2. TypeOK /\ RoundInv =>
        [(/\ PatchesResult /\ UNCHANGED faults
          /\ server # NoObject /\ Patched(server).state # "None")
            => Says(server'.conds) = AfterRound(response)]_vars
  <2> SUFFICES ASSUME TypeOK, RoundInv, PatchesResult, UNCHANGED faults,
                      server # NoObject, Patched(server).state # "None"
               PROVE  Says(server'.conds) = AfterRound(response)
    OBVIOUS
  <2>1. /\ step = "finalize" /\ n \notin DOMAIN response
        /\ response \in Seq(Response) /\ server \in Object
    BY DEF PatchesResult, TypeOK, StoreTypeOK, PluginTypeOK
  <2>2. n - 1 = Len(response)
    BY <2>1 DEF RoundInv
  <2>3. server' = Patched(server)
    <3>1. faults \in Nat /\ faults # faults + 1
      BY DEF TypeOK, StoreTypeOK
    <3>2. PatchedStatus(Patched(server))
      BY <3>1 DEF PatchesResult, Fails
    <3>3. QED
      BY <3>2 DEF PatchedStatus, Store, Write
  <2>4. server'.conds = vr.conds
    BY <2>1, <2>3 DEF Patched, Object
  <2>5. AfterRound(response) = Round(before.conds, response, Len(response))
    BY <2>1 DEF AfterRound, Round
  <2>6. QED
    BY <2>1, <2>2, <2>4, <2>5 DEF RoundInv
<1>3. QED
  BY <1>1, <1>2, UniqueStep, RoundStep, TypeCorrect, PTL DEF Spec, RoundIsRecorded

-----------------------------------------------------------------------------
(* State and conditions *)

Verdict(obj) == obj.conds # <<>> => obj.state = OverallState(obj.conds)

\* A plugin that has seen its own writes works on a copy whose state and
\* conditions are still the stored ones when it patches them, as nobody else
\* writes them; so the state may be left out if it is the one that was read.
VerdictInv ==
    /\ PluginView!CacheFollowsServer
    /\ server # NoObject => Verdict(server)
    /\ vr # NoObject => Verdict(vr)
    /\ step = "init" /\ server # NoObject => server.conds = <<>>
    /\ step \in {"validate", "finalize"} /\ server # NoObject =>
          server.conds = before.conds /\ server.state = before.state

LEMMA PluginWriteFollows ==
    ASSUME NEW obj, PluginView!CacheFollowsServer,
           pluginFeed \in Seq(Object \cup {NoObject}), Store(obj)
    PROVE  PluginView!CacheFollowsServer'
<1>1. CASE UNCHANGED <<server, pluginFeed>>
  BY <1>1 DEF Store, PluginView!CacheFollowsServer
<1>2. CASE server' = obj /\ pluginFeed' = Append(pluginFeed, obj)
  <2>1. pluginFeed' # <<>> /\ pluginFeed'[Len(pluginFeed')] = obj
    BY <1>2
  <2>2. QED
    BY <1>2, <2>1 DEF PluginView!CacheFollowsServer
<1>3. QED
  BY <1>1, <1>2 DEF Store, PluginView!Write

\* What is left of a queue ends as before; its head is its end if none is left.
LEMMA TailKeepsLast ==
    ASSUME NEW S, NEW s \in Seq(S), s # <<>>
    PROVE  /\ Tail(s) = <<>> => Head(s) = s[Len(s)]
           /\ Tail(s) # <<>> => Tail(s)[Len(Tail(s))] = s[Len(s)]
<1>1. CASE Tail(s) = <<>>
  <2>1. Len(s) = 1
    <3>1. s # <<>> /\ Len(Tail(s)) = 0
      BY <1>1
    <3>2. QED
      BY <3>1
  <2>2. QED
    BY <1>1, <2>1
<1>2. CASE Tail(s) # <<>>
  BY <1>2
<1>3. QED
  BY <1>1, <1>2

LEMMA PluginDeliverFollows ==
    ASSUME PluginView!CacheFollowsServer,
           pluginFeed \in Seq(Object \cup {NoObject}),
           PluginView!ReceiveEvent
    PROVE  PluginView!CacheFollowsServer'
<1>1. /\ pluginFeed # <<>> /\ server' = server
      /\ pluginCache' = Head(pluginFeed) /\ pluginFeed' = Tail(pluginFeed)
  BY DEF PluginView!ReceiveEvent
<1>2. QED
  BY <1>1, TailKeepsLast DEF PluginView!CacheFollowsServer

LEMMA PluginVerdict ==
    ASSUME ~StalePlugin, TypeOK, VerdictInv, PluginStep
    PROVE  VerdictInv'
<1> USE DEF stored, spent, pluginMemory, pluginVars
<1>1. /\ server # NoObject => server \in Object
      /\ pluginFeed \in Seq(Object \cup {NoObject})
  BY DEF TypeOK, StoreTypeOK
<1>2. CASE FindsResult
  <2>1. pluginCache = server
    BY <1>2 DEF FindsResult, CanReadResult, VerdictInv,
       PluginView!CacheFollowsServer
  <2>2. QED
    BY <1>2, <2>1 DEF FindsResult, VerdictInv, PluginView!CacheFollowsServer,
       Verdict
<1>3. CASE CreatesResult
  <2>1. /\ Store(Build(results')) /\ vr' = Build(results') /\ step' = "init"
    BY <1>3 DEF CreatesResult
  <2>2. server' = Build(results')
    BY <2>1 DEF Store, Write
  <2>3. Build(results').conds = <<>>
    BY DEF Build
  <2>4. QED
    BY <1>1, <2>1, <2>2, <2>3, PluginWriteFollows DEF VerdictInv, Verdict
<1>4. CASE InitializesStatus
  <2>1. server # NoObject =>
            /\ [server EXCEPT !.state = "InProgress"].conds = server.conds
            /\ server.conds = <<>>
    BY <1>1, <1>4 DEF InitializesStatus, VerdictInv, Object
  <2>2. step' = "idle" /\ vr' = NoObject
    BY <1>4 DEF InitializesStatus, PluginIdle, PluginEnds
  <2>3. CASE UNCHANGED stored
    BY <2>2, <2>3 DEF VerdictInv, PluginView!CacheFollowsServer, Verdict
  <2>4. CASE server # NoObject /\ Store([server EXCEPT !.state = "InProgress"])
    <3>1. server' # NoObject => server'.conds = <<>>
      BY <2>1, <2>4 DEF Store, Write
    <3>2. QED
      BY <1>1, <2>2, <2>4, <3>1, PluginWriteFollows DEF VerdictInv, Verdict
  <2>5. QED
    BY <1>4, <2>3, <2>4 DEF InitializesStatus, PatchedStatus
<1>5. CASE UpdateStatus
  <2>1. vr \in Object
    BY <1>5 DEF UpdateStatus, Finalizing, TypeOK, PluginTypeOK
  <2>2. PICK conds :
           vr' = [vr EXCEPT !.conds = conds, !.state = OverallState(conds)]
    BY <1>5 DEF UpdateStatus
  <2>3. Verdict(vr')
    BY <2>1, <2>2 DEF Verdict, Object, OverallState
  <2>4. UNCHANGED <<stored, step, before>>
    BY <1>5 DEF UpdateStatus
  <2>5. QED
    BY <2>3, <2>4 DEF VerdictInv, PluginView!CacheFollowsServer, Verdict
<1>6. CASE PatchesResult
  <2>1. vr # NoObject /\ Verdict(vr) /\ step = "finalize"
    BY <1>6, NoValueAssumption
    DEF PatchesResult, TypeOK, PluginTypeOK, VerdictInv
  <2>2. step' \in {"idle", "stopped"} /\ vr' = NoObject
    BY <1>6 DEF PatchesResult, PluginIdle, PluginEnds
  <2>3. CASE UNCHANGED stored
    BY <2>2, <2>3 DEF VerdictInv, PluginView!CacheFollowsServer, Verdict
  <2>4. CASE server # NoObject /\ Store(Patched(server))
    <3>1. server.state = before.state /\ server \in Object
      BY <1>1, <2>1, <2>4 DEF VerdictInv
    <3>2. Patched(server).conds = vr.conds /\ Patched(server).state = vr.state
      BY <3>1 DEF Patched, Object
    <3>3. server' = Patched(server)
      BY <2>4 DEF Store, Write
    <3>4. Verdict(server')
      BY <2>1, <3>2, <3>3 DEF Verdict
    <3>5. QED
      BY <1>1, <2>2, <2>4, <3>4, PluginWriteFollows DEF VerdictInv, Verdict
  <2>5. QED
    BY <1>6, <2>3, <2>4 DEF PatchesResult, PatchedStatus
<1>7. CASE \/ CreateFails \/ Validate \/ Panics \/ PluginResumes
           \/ \E r \in Rules : WorldChanges(r)
  <2>1. /\ UNCHANGED stored
        /\ \/ vr' = NoObject /\ step' = "idle"
           \/ UNCHANGED <<step, vr, before>>
           \/ step = "validate" /\ step' = "finalize" /\ UNCHANGED <<vr, before>>
           \/ step' = "idle" /\ UNCHANGED vr
    BY <1>7 DEF CreateFails, Validate, Panics, PluginResumes, WorldChanges,
       PluginIdle, PluginEnds
  <2>2. QED
    BY <2>1 DEF VerdictInv, PluginView!CacheFollowsServer, Verdict
<1>8. CASE PluginDeliver
  <2>1. PluginView!ReceiveEvent /\ UNCHANGED <<server, vr, step, before>>
    BY <1>8 DEF PluginDeliver, PluginView!ReceiveEvent
  <2>2. QED
    BY <1>1, <2>1, PluginDeliverFollows DEF VerdictInv, Verdict
<1>9. CASE PluginCrash
  BY <1>9 DEF PluginCrash, PluginView!Relist, PluginIdle, PluginEnds,
     VerdictInv, PluginView!CacheFollowsServer, Verdict
<1>10. QED
  BY <1>2, <1>3, <1>4, <1>5, <1>6, <1>7, <1>8, <1>9 DEF PluginStep, Plugin

\* Everybody else leaves state and conditions alone, or deletes the object.
LEMMA OthersVerdict ==
    ASSUME TypeOK, VerdictInv, UNCHANGED pluginVars,
           \/ UNCHANGED <<server, pluginFeed, pluginCache>>
           \/ Store(NoObject)
           \/ \E obj : /\ server # NoObject /\ Store(obj)
                       /\ obj.conds = server.conds /\ obj.state = server.state
    PROVE  VerdictInv'
<1> USE DEF pluginVars, pluginMemory
<1>1. pluginFeed \in Seq(Object \cup {NoObject})
  BY DEF TypeOK, StoreTypeOK
<1>2. CASE UNCHANGED <<server, pluginFeed, pluginCache>>
  BY <1>2 DEF VerdictInv, PluginView!CacheFollowsServer, Verdict
<1>3. CASE Store(NoObject)
  <2>1. server' = NoObject
    BY <1>3 DEF Store, Write
  <2>2. QED
    BY <1>1, <1>3, <2>1, PluginWriteFollows DEF VerdictInv, Verdict
<1>4. ASSUME NEW obj, server # NoObject, Store(obj),
             obj.conds = server.conds, obj.state = server.state
      PROVE  VerdictInv'
  <2>1. server' = obj
    BY <1>4 DEF Store, Write
  <2>2. QED
    BY <1>1, <1>4, <2>1, PluginWriteFollows DEF VerdictInv, Verdict
<1>5. QED
  BY <1>2, <1>3, <1>4

\* What the controller stores
LEMMA ControllerWrites ==
    ASSUME TypeOK, ControllerStep
    PROVE  \/ UNCHANGED <<server, pluginFeed, pluginCache>>
           \/ \E obj : /\ server # NoObject /\ Store(obj)
                       /\ obj.conds = server.conds /\ obj.state = server.state
                       /\ obj.uid = server.uid
<1> USE DEF stored
<1>1. server # NoObject => server \in Object
  BY DEF TypeOK, StoreTypeOK
<1>2. CASE PatchesAnnotation
  <2>1. server # NoObject =>
          LET obj == [server EXCEPT !.hash = work.hash] IN
          /\ obj.conds = server.conds /\ obj.state = server.state
          /\ obj.uid = server.uid
    BY <1>1 DEF Object
  <2>2. QED
    BY <1>2, <2>1 DEF PatchesAnnotation
<1>3. CASE PatchesCondition
  <2>1. server # NoObject =>
          LET obj == IF work.sink # seen.sink
                     THEN [server EXCEPT !.sink = work.sink] ELSE server IN
          /\ obj.conds = server.conds /\ obj.state = server.state
          /\ obj.uid = server.uid
    BY <1>1 DEF Object
  <2>2. \/ UNCHANGED stored
        \/ /\ server # NoObject
           /\ Store(IF work.sink # seen.sink
                    THEN [server EXCEPT !.sink = work.sink] ELSE server)
    BY <1>3 DEF PatchesCondition, PatchedStatus
  <2>3. QED
    BY <2>1, <2>2
<1>4. CASE ControllerStep /\ ~PatchesAnnotation /\ ~PatchesCondition
  BY <1>4
  DEF ControllerStep, Controller, ReadsConfig, ResultNotFound,
      ReadsForEmission, ReadsWithoutEmission, Configures, Emission, Sends,
      SendFails, ConfigureFails, Emitted, Deliver, ReceiveEvent, Resync,
      ControllerCrash, Relist
<1>5. QED
  BY <1>2, <1>3, <1>4

LEMMA VerdictStep ==
    ~StalePlugin /\ TypeOK /\ VerdictInv /\ [Next]_vars => VerdictInv'
<1> SUFFICES ASSUME ~StalePlugin, TypeOK, VerdictInv, [Next]_vars
             PROVE  VerdictInv'
  OBVIOUS
<1>1. CASE ControllerStep
  <2>1. UNCHANGED pluginVars
    BY <1>1 DEF ControllerStep
  <2>2. QED
    BY <1>1, <2>1, ControllerWrites, OthersVerdict
<1>2. CASE UserDeletes \/ UNCHANGED vars \/ \E c \in Configs : UserConfigures(c)
  <2>1. /\ UNCHANGED pluginVars
        /\ UNCHANGED <<server, pluginFeed, pluginCache>> \/ Store(NoObject)
    BY <1>2 DEF UserDeletes, UserConfigures, vars, stored
  <2>2. QED
    BY <2>1, OthersVerdict
<1>3. QED
  BY <1>1, <1>2, PluginVerdict DEF Next

\* Whatever the controller and the users do meanwhile, whatever is lost or
\* restarts: a plugin that reads its own writes never leaves a state that is
\* not the verdict on the conditions next to it.
THEOREM StateFollowsConditions == Spec => [](~StalePlugin => StateIsVerdict)
<1>1. Init => VerdictInv
  BY DEF Init, ResultInit, CachedObjectInit, PluginView!CachedObjectInit,
     PluginInit, VerdictInv, PluginView!CacheFollowsServer
<1>2. VerdictInv => StateIsVerdict
  BY DEF VerdictInv, Verdict, OverallState, StateIsVerdict
<1>3. CASE StalePlugin
  <2>1. ~StalePlugin => StateIsVerdict
    BY <1>3
  <2>2. QED
    BY <2>1, PTL
<1>4. CASE ~StalePlugin
  <2>1. TypeOK /\ VerdictInv /\ [Next]_vars => VerdictInv'
    BY <1>4, VerdictStep
  <2>2. QED
    BY <1>1, <1>2, <2>1, TypeCorrect, PTL DEF Spec
<1>5. QED
  BY <1>3, <1>4

-----------------------------------------------------------------------------
(* Repeated emissions *)

\* The controller has seen its own writes when it reads, and no annotation is
\* lost.
Calm == ~StaleReads /\ "patch" \notin Faults /\ "controller" \notin Crashing

\* uids tell a ValidationResult from those that were deleted before it.
UidsUsed ==
    /\ server # NoObject => server.uid <= results
    /\ pc \notin {"idle", "read"} => seen.uid <= results
    /\ latest # NoHash => latest.uid <= results

\* What the controller looked at last is what the stored annotation says of
\* that object, but for the moment before it is patched.
HistoryInv ==
    /\ CacheFollowsServer
    /\ UidsUsed
    /\ pc \in {"emit", "send"} => work = seen /\ ContentOf(work) # latest
    /\ pc \in {"emit", "send", "patch"} =>
          (server # NoObject /\ server.uid = seen.uid => server.hash = seen.hash)
    /\ pc = "patch" =>
          latest # NoHash /\ work.hash = latest /\ latest.uid = seen.uid
    /\ pc # "patch" =>
          (server # NoObject /\ latest # NoHash /\ server.uid = latest.uid
               => server.hash = latest)

LEMMA WriteFollows ==
    ASSUME NEW obj, CacheFollowsServer, feed \in Seq(Object \cup {NoObject}),
           Store(obj)
    PROVE  CacheFollowsServer'
<1>1. CASE UNCHANGED <<server, feed>>
  BY <1>1 DEF Store, CacheFollowsServer
<1>2. CASE server' = obj /\ feed' = Append(feed, obj)
  <2>1. feed' # <<>> /\ feed'[Len(feed')] = obj
    BY <1>2
  <2>2. QED
    BY <1>2, <2>1 DEF CacheFollowsServer
<1>3. QED
  BY <1>1, <1>2 DEF Store, Write

\* What the plugin and the users store
LEMMA OthersWrite ==
    ASSUME TypeOK,
           PluginStep \/ UserDeletes \/ \E c \in Configs : UserConfigures(c)
    PROVE  \/ UNCHANGED <<server, feed, cache, results>>
           \/ Store(NoObject) /\ results' = results
           \/ /\ results' = results + 1
              /\ Store(Build(results'))
           \/ \E obj : /\ server # NoObject /\ Store(obj) /\ results' = results
                       /\ obj.hash = server.hash /\ obj.uid = server.uid
                       /\ obj.sink = server.sink /\ obj.state # "None"
<1> USE DEF stored, pluginVars
<1>1. server # NoObject => server \in Object
  BY DEF TypeOK, StoreTypeOK
<1>2. CASE CreatesResult \/ UserDeletes
  BY <1>2 DEF CreatesResult, UserDeletes
<1>3. CASE InitializesStatus
  <2>1. server # NoObject =>
            /\ [server EXCEPT !.state = "InProgress"].hash = server.hash
            /\ [server EXCEPT !.state = "InProgress"].uid = server.uid
            /\ [server EXCEPT !.state = "InProgress"].sink = server.sink
            /\ [server EXCEPT !.state = "InProgress"].state = "InProgress"
    BY <1>1 DEF Object
  <2>2. /\ results' = results
        /\ \/ UNCHANGED stored
           \/ server # NoObject /\ Store([server EXCEPT !.state = "InProgress"])
    BY <1>3 DEF InitializesStatus, PatchedStatus
  <2>3. QED
    BY <2>1, <2>2
<1>4. CASE PatchesResult
  <2>1. server # NoObject => /\ Patched(server).hash = server.hash
                             /\ Patched(server).uid = server.uid
                             /\ Patched(server).sink = server.sink
    BY <1>1 DEF Patched, Object
  <2>2. /\ results' = results
        /\ \/ UNCHANGED stored
           \/ /\ server # NoObject /\ Store(Patched(server))
              /\ Patched(server).state # "None"
    BY <1>4 DEF PatchesResult, PatchedStatus
  <2>3. QED
    BY <2>1, <2>2
<1>5. CASE \/ FindsResult \/ CreateFails \/ Validate \/ UpdateStatus \/ Panics
           \/ PluginResumes \/ PluginDeliver \/ PluginCrash
           \/ \E r \in Rules : WorldChanges(r)
           \/ \E c \in Configs : UserConfigures(c)
  BY <1>5
  DEF FindsResult, CreateFails, Validate, UpdateStatus, Panics, WorldChanges,
      PluginResumes, PluginDeliver, PluginView!ReceiveEvent, PluginCrash,
      PluginView!Relist, UserConfigures
<1>6. QED
  BY <1>2, <1>3, <1>4, <1>5 DEF PluginStep, Plugin

LEMMA OthersHistory ==
    ASSUME TypeOK, HistoryInv,
           PluginStep \/ UserDeletes \/ \E c \in Configs : UserConfigures(c)
    PROVE  HistoryInv'
<1>1. UNCHANGED <<pc, seen, work, latest>>
  BY DEF PluginStep, UserDeletes, UserConfigures, controllerVars,
     controllerMemory, history
<1>2. /\ feed \in Seq(Object \cup {NoObject}) /\ results \in Nat
      /\ server # NoObject => server \in Object /\ server.uid \in Nat
      /\ pc \notin {"idle", "read"} => seen.uid \in Nat
      /\ latest # NoHash => latest.uid \in Nat
  BY DEF TypeOK, StoreTypeOK, PluginTypeOK, ControllerTypeOK, Object, Content
<1>3. CASE UNCHANGED <<server, feed, cache, results>>
  BY <1>1, <1>3 DEF HistoryInv, UidsUsed, CacheFollowsServer
<1>4. CASE Store(NoObject) /\ results' = results
  <2>1. server' = NoObject
    BY <1>4 DEF Store, Write
  <2>2. QED
    BY <1>1, <1>2, <1>4, <2>1, WriteFollows DEF HistoryInv, UidsUsed
<1>5. CASE results' = results + 1 /\ Store(Build(results'))
  <2>1. server' = Build(results') /\ Build(results').uid = results + 1
    BY <1>5 DEF Store, Write, Build
  <2>2. /\ pc \notin {"idle", "read"} => seen.uid # results + 1
        /\ latest # NoHash => latest.uid # results + 1
    BY <1>2 DEF HistoryInv, UidsUsed
  <2>3. UidsUsed'
    BY <1>1, <1>2, <1>5, <2>1 DEF HistoryInv, UidsUsed
  <2>4. CacheFollowsServer'
    BY <1>2, <1>5, WriteFollows DEF HistoryInv
  <2>5. QED
    BY <1>1, <2>1, <2>2, <2>3, <2>4 DEF HistoryInv
<1>6. ASSUME NEW obj, server # NoObject, Store(obj), results' = results,
             obj.hash = server.hash, obj.uid = server.uid
      PROVE  HistoryInv'
  <2>1. server' = obj
    BY <1>6 DEF Store, Write
  <2>2. QED
    BY <1>1, <1>2, <1>6, <2>1, WriteFollows DEF HistoryInv, UidsUsed
<1>7. QED
  BY <1>3, <1>4, <1>5, <1>6, OthersWrite

LEMMA ControllerHistory ==
    ASSUME Calm, TypeOK, TypeOK', HistoryInv, ControllerStep
    PROVE  HistoryInv'
<1> USE DEF stored, spent, controllerMemory, history
<1>1. /\ results' = results /\ results \in Nat
      /\ feed \in Seq(Object \cup {NoObject})
      /\ server # NoObject => server \in Object
  BY DEF ControllerStep, pluginVars, TypeOK, StoreTypeOK, PluginTypeOK
<1>2. CASE ReadsConfig \/ ResultNotFound \/ Configures \/ Resync
  <2>1. UNCHANGED <<server, feed, cache, latest>>
    BY <1>2 DEF ReadsConfig, ResultNotFound, Configures, Resync
  <2>2. \/ pc' \in {"idle", "read"} /\ pc # "patch"
        \/ UNCHANGED <<pc, seen, work>>
        \/ pc = "emit" /\ pc' = "send" /\ UNCHANGED <<seen, work>>
    BY <1>2 DEF ReadsConfig, ResultNotFound, Configures, Resync,
       CanReadResultNow, ControllerIdle
  <2>3. QED
    BY <1>1, <2>1, <2>2 DEF HistoryInv, UidsUsed, CacheFollowsServer
<1>3. ASSUME ReadsForEmission \/ ReadsWithoutEmission
      PROVE  /\ cache = server /\ server \in Object /\ pc = "read"
             /\ UNCHANGED <<server, feed, cache>> /\ seen' = server
  BY <1>3, <1>1 DEF ReadsForEmission, ReadsWithoutEmission, CanReadResultNow,
     Calm, HistoryInv, CacheFollowsServer
<1>4. CASE ReadsForEmission
  <2>1. work' = server /\ latest' = latest /\ pc' = "emit"
    BY <1>3, <1>4 DEF ReadsForEmission
  <2>2. ContentOf(server) # latest
    <3>1. SUFFICES ASSUME ContentOf(server) = latest PROVE FALSE
      OBVIOUS
    <3>2. latest # NoHash /\ server.uid = latest.uid
      <4>1. ContentOf(server) \in Content
        BY <1>3, <1>4, HashType DEF Hash
      <4>2. ContentOf(server).uid = server.uid
        BY DEF ContentOf
      <4>3. QED
        BY <3>1, <4>1, <4>2, NoValueAssumption
    <3>3. server.hash = latest
      BY <1>3, <1>4, <3>2, NoValueAssumption DEF HistoryInv
    <3>4. QED
      BY <1>3, <1>4, <3>1, <3>3 DEF ReadsForEmission, MustEmit, Hash
  <2>3. QED
    BY <1>1, <1>3, <1>4, <2>1, <2>2, NoValueAssumption
    DEF HistoryInv, UidsUsed, CacheFollowsServer
<1>5. CASE ReadsWithoutEmission
  <2>1. latest' = ContentOf(server) /\ pc' = "patch"
    BY <1>3, <1>5 DEF ReadsWithoutEmission
  <2>2. work'.hash = ContentOf(server)
    BY <1>3, <1>5 DEF ReadsWithoutEmission, Recorded, Hash, Object
  <2>3. ContentOf(server).uid = server.uid /\ ContentOf(server) \in Content
    BY <1>3, <1>5, HashType DEF Hash, ContentOf
  <2>4. QED
    BY <1>1, <1>3, <1>5, <2>1, <2>2, <2>3, NoValueAssumption
    DEF HistoryInv, UidsUsed, CacheFollowsServer
<1>6. CASE Emission
  <2>1. pc \in {"emit", "send"} /\ work \in Object /\ work = seen
    BY <1>6 DEF Emission, Sends, SendFails, ConfigureFails, TypeOK,
       ControllerTypeOK, HistoryInv
  <2>2. PICK reason : Emitted(reason)
    BY <1>6 DEF Emission, Sends, SendFails, ConfigureFails
  <2>3. /\ latest' = ContentOf(work) /\ pc' = "patch"
        /\ UNCHANGED <<server, feed, cache, seen>>
    BY <2>2 DEF Emitted
  <2>4. work'.hash = ContentOf(work)
    BY <2>1, <2>2 DEF Emitted, Recorded, Hash, Object
  <2>5. ContentOf(work).uid = work.uid /\ ContentOf(work) \in Content
    BY <2>1, HashType DEF Hash, ContentOf
  <2>6. QED
    BY <1>1, <2>1, <2>3, <2>4, <2>5, NoValueAssumption
    DEF HistoryInv, UidsUsed, CacheFollowsServer
<1>7. CASE PatchesAnnotation
  <2>1. /\ pc = "patch" /\ pc' = "patchStatus"
        /\ UNCHANGED <<seen, work, latest>>
        /\ \/ UNCHANGED stored /\ (server = NoObject \/ work.hash = seen.hash)
           \/ server # NoObject /\ Store([server EXCEPT !.hash = work.hash])
    BY <1>7 DEF PatchesAnnotation, Fails, Calm
  <2>2. CASE UNCHANGED stored /\ (server = NoObject \/ work.hash = seen.hash)
    BY <1>1, <2>1, <2>2 DEF HistoryInv, UidsUsed, CacheFollowsServer
  <2>3. CASE server # NoObject /\ Store([server EXCEPT !.hash = work.hash])
    <3>1. server' = [server EXCEPT !.hash = work.hash]
      BY <2>3 DEF Store, Write
    <3>2. server'.hash = work.hash /\ server'.uid = server.uid
      BY <1>1, <2>3, <3>1 DEF Object
    <3>3. CacheFollowsServer'
      BY <1>1, <2>3, WriteFollows DEF HistoryInv
    <3>4. QED
      BY <1>1, <2>1, <2>3, <3>2, <3>3 DEF HistoryInv, UidsUsed
  <2>4. QED
    BY <2>1, <2>2, <2>3
<1>8. CASE PatchesCondition
  <2>1. pc = "patchStatus" /\ pc' = "idle" /\ latest' = latest
    BY <1>8 DEF PatchesCondition, ControllerIdle
  <2> DEFINE obj == IF work.sink # seen.sink
                    THEN [server EXCEPT !.sink = work.sink] ELSE server
  <2>2. UNCHANGED stored \/ (server # NoObject /\ Store(obj))
    BY <1>8 DEF PatchesCondition, PatchedStatus
  <2>3. server # NoObject => obj.hash = server.hash /\ obj.uid = server.uid
    BY <1>1 DEF Object
  <2>4. CASE UNCHANGED stored
    BY <1>1, <2>1, <2>4 DEF HistoryInv, UidsUsed, CacheFollowsServer
  <2>5. CASE server # NoObject /\ Store(obj)
    <3>1. server' = obj
      BY <2>5 DEF Store, Write
    <3> HIDE DEF obj
    <3>2. CacheFollowsServer'
      BY <1>1, <2>5, WriteFollows DEF HistoryInv
    <3>3. QED
      BY <1>1, <2>1, <2>3, <2>5, <3>1, <3>2 DEF HistoryInv, UidsUsed
  <2>6. QED
    BY <2>2, <2>4, <2>5
<1>9. CASE Deliver
  <2>1. /\ feed # <<>> /\ cache' = Head(feed) /\ feed' = Tail(feed)
        /\ UNCHANGED <<server, pc, seen, work, latest>>
    BY <1>9 DEF Deliver, ReceiveEvent
  <2>2. CacheFollowsServer'
    BY <1>1, <2>1, TailKeepsLast DEF HistoryInv, CacheFollowsServer
  <2>3. QED
    BY <1>1, <2>1, <2>2 DEF HistoryInv, UidsUsed
<1>10. CASE ControllerCrash
  BY <1>10 DEF ControllerCrash, Restarts, Calm
<1>11. QED
  BY <1>2, <1>4, <1>5, <1>6, <1>7, <1>8, <1>9, <1>10
  DEF ControllerStep, Controller

LEMMA HistoryStep ==
    ASSUME Calm, TypeOK, HistoryInv, [Next]_vars
    PROVE  HistoryInv'
<1>1. TypeOK'
  BY TypeStep
<1>2. CASE UNCHANGED vars
  BY <1>2
  DEF vars, stored, pluginVars, controllerVars, controllerMemory, history,
      HistoryInv, UidsUsed, CacheFollowsServer
<1>3. QED
  BY <1>1, <1>2, OthersHistory, ControllerHistory DEF Next

LEMMA HistoryInit == Init => HistoryInv
BY DEF Init, ResultInit, CachedObjectInit, ControllerInit, HistoryInv,
   UidsUsed, CacheFollowsServer

\* "result events are only emitted if the result has changed": true as long as
\* the controller's cache shows its own annotations and none of them is lost -
\* however the result and the sinks change, and whoever deletes what.
THEOREM UnchangedIsNotEmitted ==
    ASSUME Calm
    PROVE  Spec => EmittedOnlyIfChanged
<1>1. Init => HistoryInv
  BY HistoryInit
<1>2. TypeOK /\ HistoryInv /\ [Next]_vars => HistoryInv'
  BY HistoryStep
<1>3. HistoryInv => [Emission => ContentOf(work) # latest]_vars
  BY DEF HistoryInv, Emission, Sends, SendFails, ConfigureFails
<1>4. QED
  BY <1>1, <1>2, <1>3, TypeCorrect, PTL DEF Spec, EmittedOnlyIfChanged

=============================================================================
