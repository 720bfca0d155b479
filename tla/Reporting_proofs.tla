-------------------------- MODULE Reporting_proofs --------------------------
(***************************************************************************)
(* Proofs about what the sink of ValidationResults receives.               *)
(***************************************************************************)
EXTENDS ResultStatus_proofs, SequenceTheorems

-----------------------------------------------------------------------------
(* The controller keeps the contract Reporting *)

contractVars == <<Version(server), Ahead, Taken, delivered>>

LEMMA VersionType ==
    ASSUME NEW obj \in Object \cup {NoObject}
    PROVE  Version(obj) \in Content \cup {NoHash}
BY HashType DEF Version, Hash

\* The versions ahead are those that the cache shows next.
LEMMA AheadFacts ==
    ASSUME feed \in Seq(Object \cup {NoObject}), cache \in Object \cup {NoObject}
    PROVE  /\ Len(feed) \in Nat /\ Len(Ahead) = Len(feed) + 1
           /\ Ahead[1] = Version(cache)
           /\ \A k \in 1 .. Len(feed) : Ahead[k + 1] = Version(feed[k])
           /\ Ahead \in Seq(Content \cup {NoHash})
<1>1. Len(feed) \in Nat
  OBVIOUS
<1>2. \A k \in 1 .. Len(feed) + 1 :
         Version(IF k = 1 THEN cache ELSE feed[k - 1]) \in Content \cup {NoHash}
  <2>1. \A k \in 1 .. Len(feed) + 1 :
           (IF k = 1 THEN cache ELSE feed[k - 1]) \in Object \cup {NoObject}
    BY <1>1
  <2>2. QED
    BY <2>1, VersionType
<1>3. QED
  BY <1>1, <1>2 DEF Ahead

LEMMA WriteIsStore ==
    ASSUME NEW obj, TypeOK, TypeOK', Write(obj),
           UNCHANGED <<cache, Taken, delivered>>
    PROVE  Contract!Store \/ UNCHANGED contractVars
<1>1. CASE UNCHANGED <<server, feed>>
  BY <1>1 DEF Version, Ahead, contractVars
<1>2. CASE server' = obj /\ feed' = Append(feed, obj)
  <2>1. feed \in Seq(Object \cup {NoObject}) /\ obj \in Object \cup {NoObject}
    BY <1>2 DEF TypeOK, StoreTypeOK
  <2>2. Version(server)' \in Content \cup {NoHash}
    <3>1. \A o : o = server' => Version(o) = Version(server)'
      BY DEF Version
    <3>2. QED
      BY <1>2, <2>1, <3>1, VersionType
  <2>3. Ahead' = Append(Ahead, Version(server)')
    <3>1. /\ Len(feed) \in Nat /\ Len(feed') = Len(feed) + 1
          /\ \A k \in 1 .. Len(feed) : feed'[k] = feed[k]
          /\ feed'[Len(feed) + 1] = server'
      BY <1>2, <2>1
    <3>2. /\ Ahead' \in Seq(Content \cup {NoHash}) /\ Len(Ahead') = Len(feed) + 2
          /\ \A k \in 1 .. Len(feed) + 1 : Ahead'[k] = Ahead[k]
          /\ Ahead'[Len(feed) + 2] = Version(server)'
      <4>1. Ahead' \in Seq(Content \cup {NoHash})
        <5>1. feed' \in Seq(Object \cup {NoObject}) /\ cache' \in Object \cup {NoObject}
          BY DEF TypeOK, StoreTypeOK
        <5>2. \A k \in 1 .. Len(feed) + 2 :
                 (IF k = 1 THEN cache' ELSE feed'[k - 1]) \in Object \cup {NoObject}
          BY <3>1, <5>1
        <5>3. \A k \in 1 .. Len(feed) + 2 :
                 Version(IF k = 1 THEN cache' ELSE feed'[k - 1])
                     \in Content \cup {NoHash}
          BY <5>2, VersionType
        <5>4. Ahead' = [k \in 1 .. Len(feed) + 2 |->
                           Version(IF k = 1 THEN cache' ELSE feed'[k - 1])]
          BY <3>1 DEF Ahead, Version
        <5>5. QED
          BY <3>1, <5>3, <5>4
      <4>2. QED
        BY <3>1, <4>1 DEF Ahead, Version
    <3>3. Ahead \in Seq(Content \cup {NoHash}) /\ Len(Ahead) = Len(feed) + 1
      BY <2>1, AheadFacts DEF TypeOK, StoreTypeOK
    <3> DEFINE new == Version(server)'
               stock == Append(Ahead, new)
    <3>4. /\ stock \in Seq(Content \cup {NoHash}) /\ Len(stock) = Len(feed) + 2
          /\ \A k \in 1 .. Len(feed) + 1 : stock[k] = Ahead[k]
          /\ stock[Len(feed) + 2] = new
      <4>1. new \in Content \cup {NoHash}
        BY <2>2
      <4> HIDE DEF new
      <4>2. QED
        BY <3>1, <3>3, <4>1
    <3>5. \A k \in 1 .. Len(Ahead') : Ahead'[k] = stock[k]
      <4> HIDE DEF new, stock
      <4>1. QED
        BY <3>1, <3>2, <3>4 DEF new
    <3> HIDE DEF stock
    <3>6. Ahead' = stock
      BY <3>2, <3>4, <3>5, SeqEqual
    <3>7. QED
      BY <3>6 DEF stock
  <2>4. QED
    BY <2>2, <2>3 DEF Contract!Store
<1>3. QED
  BY <1>1, <1>2 DEF Write

\* What the plugin and the users do, and the patches of the controller
LEMMA WritesKeepContract ==
    ASSUME TypeOK, TypeOK',
           \/ PluginStep \/ UserDeletes \/ \E c \in Configs : UserConfigures(c)
           \/ PatchesAnnotation \/ PatchesCondition
    PROVE  Contract!Store \/ UNCHANGED contractVars
<1> USE DEF stored, controllerVars, controllerMemory, history
<1>1. UNCHANGED <<Taken, delivered>>
  BY DEF PluginStep, UserDeletes, UserConfigures, PatchesAnnotation,
     PatchesCondition, ControllerIdle, Taken
<1>2. UNCHANGED <<server, feed, cache>> \/ \E obj : Write(obj) /\ cache' = cache
  BY DEF PluginStep, Plugin, FindsResult, CreatesResult, CreateFails,
     InitializesStatus, Validate, UpdateStatus, Panics, PatchesResult,
     PluginResumes, PluginDeliver, PluginView!ReceiveEvent, PluginCrash,
     PluginView!Relist, WorldChanges, UserDeletes, UserConfigures,
     PatchesAnnotation, PatchesCondition, PatchedStatus, Store
<1>3. CASE UNCHANGED <<server, feed, cache>>
  BY <1>1, <1>3 DEF Version, Ahead, contractVars
<1>4. QED
  BY <1>1, <1>2, <1>3, WriteIsStore

LEMMA DeliverIsProceed ==
    ASSUME TypeOK, Deliver
    PROVE  Contract!Proceed
<1>1. /\ feed \in Seq(Object \cup {NoObject}) /\ feed # <<>>
      /\ cache' = Head(feed) /\ feed' = Tail(feed)
      /\ UNCHANGED <<server, pc, work, delivered>>
  BY DEF Deliver, ReceiveEvent, controllerMemory, history, TypeOK, StoreTypeOK
<1>2. /\ Len(feed) \in Nat \ {0} /\ Len(feed') = Len(feed) - 1
      /\ cache' = feed[1]
      /\ \A k \in 1 .. Len(feed) - 1 : feed'[k] = feed[k + 1]
  BY <1>1
<1>3. Ahead' = [k \in 1 .. Len(feed) |-> Version(feed[k])]
  BY <1>2 DEF Ahead, Version
<1>4. /\ Tail(Ahead) \in Seq(Content \cup {NoHash})
      /\ Len(Tail(Ahead)) = Len(feed) /\ Len(Ahead) > 1
      /\ \A k \in 1 .. Len(feed) : Tail(Ahead)[k] = Version(feed[k])
  <2>1. /\ Ahead \in Seq(Content \cup {NoHash}) /\ Len(Ahead) = Len(feed) + 1
        /\ \A k \in 1 .. Len(feed) : Ahead[k + 1] = Version(feed[k])
    BY <1>1, AheadFacts DEF TypeOK, StoreTypeOK
  <2>2. QED
    BY <1>2, <2>1
<1>5. Ahead' = Tail(Ahead) /\ Len(Ahead) > 1
  <2>1. \A k \in 1 .. Len(feed) : Version(feed[k]) \in Content \cup {NoHash}
    BY <1>1, VersionType
  <2>2. /\ Ahead' \in Seq(Content \cup {NoHash}) /\ Len(Ahead') = Len(feed)
        /\ \A k \in 1 .. Len(feed) : Ahead'[k] = Version(feed[k])
    BY <1>2, <1>3, <2>1
  <2>3. QED
    BY <1>4, <2>2, SeqEqual
<1>6. QED
  BY <1>1, <1>5 DEF Contract!Proceed, Version, Taken

LEMMA ControllerKeepsContract ==
    ASSUME TypeOK, TypeOK', ControllerStep
    PROVE  Contract!Next \/ UNCHANGED contractVars
<1> USE DEF stored, controllerMemory, history
<1>1. CASE PatchesAnnotation \/ PatchesCondition
  BY <1>1, WritesKeepContract DEF Contract!Next
<1>2. CASE ReadsForEmission
  <2>1. /\ pc \in {"read"} /\ pc' = "emit" /\ work' = cache
        /\ cache # NoObject /\ Complete(ContentOf(cache))
        /\ UNCHANGED <<server, feed, cache, delivered>>
    BY <1>2 DEF ReadsForEmission, CanReadResultNow, MustEmit, Hash
  <2>2. Version(cache) = ContentOf(cache) /\ ContentOf(cache) \in Content
    BY <2>1, HashType DEF Version, Hash, TypeOK, StoreTypeOK
  <2>3. Head(Ahead) = ContentOf(cache)
    BY <2>2, AheadFacts DEF TypeOK, StoreTypeOK
  <2>4. Taken = NoHash /\ Taken' = ContentOf(cache)
    BY <2>1 DEF Taken, ContentOf
  <2>5. Contract!Take
    BY <2>1, <2>2, <2>3, <2>4, NoValueAssumption
    DEF Contract!Take, Version, Ahead
  <2>6. QED
    BY <2>5 DEF Contract!Next
<1>3. CASE Emission
  <2>1. /\ pc \in {"emit", "send"} /\ pc' = "patch"
        /\ delivered' \in {delivered, ContentOf(work)}
        /\ UNCHANGED <<server, feed, cache>>
    BY <1>3 DEF Emission, Sends, SendFails, ConfigureFails, Emitted
  <2>2. ContentOf(work) # NoHash
    BY <2>1, HashType, NoValueAssumption DEF TypeOK, ControllerTypeOK, Hash
  <2>3. Contract!Report
    BY <2>1, <2>2 DEF Contract!Report, Taken, Version, Ahead
  <2>4. QED
    BY <2>3 DEF Contract!Next
<1>4. CASE Deliver
  BY <1>4, DeliverIsProceed DEF Contract!Next
<1>5. CASE ControllerCrash
  <2>1. /\ cache' = server /\ feed' = <<>> /\ pc' = "idle"
        /\ UNCHANGED <<server, delivered>>
    BY <1>5 DEF ControllerCrash, Relist, ControllerIdle
  <2>2. Ahead' = <<Version(server)>>
    <3>1. Len(feed') = 0
      BY <2>1
    <3>2. Ahead' = [k \in 1 .. 1 |-> Version(server)]
      BY <2>1, <3>1 DEF Ahead, Version
    <3>3. QED
      BY <3>2
  <2>3. Contract!Restart
    BY <2>1, <2>2 DEF Contract!Restart, Taken, Version
  <2>4. QED
    BY <2>3 DEF Contract!Next
<1>6. CASE \/ ReadsConfig \/ ResultNotFound \/ ReadsWithoutEmission
           \/ Configures \/ Resync
  BY <1>6 DEF ReadsConfig, ResultNotFound, ReadsWithoutEmission, Configures,
     Resync, CanReadResultNow, ControllerIdle, Taken, ContentOf, Version,
     Ahead, contractVars
<1>7. QED
  BY <1>1, <1>2, <1>3, <1>4, <1>5, <1>6 DEF ControllerStep, Controller

\* Every step of the two processes and of the users is a step of the contract
\* or none of its business: what the sink receives was stored and complete, and
\* comes in the order in which it was stored - however far the cache lags,
\* however often results are deleted and processes restart, whatever is lost.
THEOREM SinkReceivesInOrder == Spec => ReportsInOrder
<1>1. Init => Contract!Init
  <2> SUFFICES ASSUME Init PROVE Contract!Init
    OBVIOUS
  <2>1. /\ server = NoObject /\ feed = <<>> /\ cache = NoObject
        /\ pc = "idle" /\ delivered = NoHash
    BY DEF Init, ResultInit, CachedObjectInit, ControllerInit
  <2>2. Ahead = <<NoHash>>
    <3>1. Len(feed) = 0
      BY <2>1
    <3>2. Ahead = [k \in 1 .. 1 |-> NoHash]
      BY <2>1, <3>1 DEF Ahead, Version
    <3>3. QED
      BY <3>2
  <2>3. QED
    BY <2>1, <2>2 DEF Contract!Init, Version, Taken
<1>2. TypeOK /\ TypeOK' /\ [Next]_vars => [Contract!Next]_contractVars
  <2> SUFFICES ASSUME TypeOK, TypeOK', [Next]_vars
               PROVE  Contract!Next \/ UNCHANGED contractVars
    OBVIOUS
  <2>1. CASE ControllerStep
    BY <2>1, ControllerKeepsContract
  <2>2. CASE PluginStep \/ UserDeletes \/ \E c \in Configs : UserConfigures(c)
    BY <2>2, WritesKeepContract DEF Contract!Next
  <2>3. CASE UNCHANGED vars
    BY <2>3 DEF vars, stored, controllerVars, controllerMemory, history,
       Version, Ahead, Taken, ContentOf, contractVars
  <2>4. QED
    BY <2>1, <2>2, <2>3 DEF Next
<1>3. QED
  BY <1>1, <1>2, TypeCorrect, PTL
  DEF Spec, ReportsInOrder, Contract!Spec, contractVars

-----------------------------------------------------------------------------
(* The SinkEmission condition *)

\* What a hash next to "SinkEmitSucceeded" may be
Sent(hash) ==
    \/ hash = NoHash \/ ~Complete(hash)
    \/ hash = delivered \/ hash \in excused

\* While the controller reports, the stored object is the one it has read, with
\* its hash and its condition, or one that was created since and has neither.
SuccessInv ==
    /\ server # NoObject /\ server.state = "None" => server.sink = "None"
    /\ pc \notin {"patch", "patchStatus"} =>
          (server # NoObject /\ server.sink = "SinkEmitSucceeded"
               => Sent(server.hash))
    /\ pc \in {"emit", "send", "patch", "patchStatus"} =>
          (server # NoObject /\ server.sink = "SinkEmitSucceeded"
               => seen.sink = "SinkEmitSucceeded")
    /\ pc \in {"emit", "send", "patch"} =>
          (server # NoObject => server.hash \in {seen.hash, NoHash})
    /\ pc \in {"patch", "patchStatus"} =>
          (work.sink = "SinkEmitSucceeded" => Sent(work.hash))
    /\ pc = "patchStatus" =>
          (server # NoObject => server.hash \in {work.hash, NoHash})

LEMMA OthersSuccess ==
    ASSUME TypeOK, SuccessInv,
           PluginStep \/ UserDeletes \/ \E c \in Configs : UserConfigures(c)
    PROVE  SuccessInv'
<1>1. UNCHANGED <<pc, seen, work, delivered, excused>>
  BY DEF PluginStep, UserDeletes, UserConfigures, controllerVars,
     controllerMemory, history
<1>2. CASE UNCHANGED server
  BY <1>1, <1>2 DEF SuccessInv, Sent
<1>3. CASE Store(NoObject)
  <2>1. server' = NoObject
    BY <1>3 DEF Store, Write
  <2>2. QED
    BY <1>1, <2>1 DEF SuccessInv, Sent
<1>4. CASE Store(Build(results'))
  <2>1. server' = Build(results')
    BY <1>4 DEF Store, Write
  <2>2. server'.hash = NoHash /\ server'.sink = "None"
    BY <2>1 DEF Build
  <2>3. QED
    BY <1>1, <2>2 DEF SuccessInv, Sent
<1>5. ASSUME NEW obj, server # NoObject, Store(obj), obj.hash = server.hash,
             obj.sink = server.sink, obj.state # "None"
      PROVE  SuccessInv'
  <2>1. server' = obj
    BY <1>5 DEF Store, Write
  <2>2. QED
    BY <1>1, <1>5, <2>1 DEF SuccessInv, Sent
<1>6. QED
  BY <1>2, <1>3, <1>4, <1>5, OthersWrite

LEMMA ControllerSuccess ==
    ASSUME Calm, "condition" \notin Faults, TypeOK, HistoryInv, SuccessInv,
           ControllerStep
    PROVE  SuccessInv'
<1> USE DEF stored, controllerMemory, history
<1>1. server # NoObject => server \in Object
  BY DEF TypeOK, StoreTypeOK
<1>2. CASE ReadsConfig \/ ResultNotFound \/ Configures \/ Resync \/ Deliver
  <2>1. UNCHANGED <<server, delivered, excused>>
    BY <1>2 DEF ReadsConfig, ResultNotFound, Configures, Resync, Deliver,
       ReceiveEvent
  <2>2. \/ pc \in {"idle", "read"} /\ pc' \in {"idle", "read"}
        \/ UNCHANGED <<pc, seen, work>>
        \/ pc = "emit" /\ pc' = "send" /\ UNCHANGED <<seen, work>>
    BY <1>2 DEF ReadsConfig, ResultNotFound, Configures, Resync, Deliver,
       CanReadResultNow, ControllerIdle
  <2>3. QED
    BY <2>1, <2>2 DEF SuccessInv, Sent
<1>3. ASSUME ReadsForEmission \/ ReadsWithoutEmission
      PROVE  /\ cache = server /\ server \in Object /\ pc = "read"
             /\ server' = server /\ seen' = server
  BY <1>3, <1>1 DEF ReadsForEmission, ReadsWithoutEmission, CanReadResultNow,
     Calm, HistoryInv, CacheFollowsServer
<1>4. CASE ReadsForEmission
  BY <1>3, <1>4 DEF ReadsForEmission, SuccessInv, Sent
<1>5. CASE ReadsWithoutEmission
  <2>1. /\ pc' = "patch" /\ delivered' = delivered
        /\ excused \subseteq excused' /\ ~MustEmit(server)
        /\ Complete(Hash(server)) /\ ~HasSink(sinkConfig) =>
              ContentOf(server) \in excused'
    BY <1>3, <1>5 DEF ReadsWithoutEmission
  <2>2. /\ work'.hash = ContentOf(server)
        /\ work'.sink = "SinkEmitSucceeded" =>
              server.sink = "SinkEmitSucceeded"
    BY <1>3, <1>5 DEF ReadsWithoutEmission, Recorded, Hash, Object
  <2>3. work'.sink = "SinkEmitSucceeded" => Sent(work.hash)'
    <3>1. CASE ~Complete(ContentOf(server))
      BY <2>2, <3>1 DEF Sent, Complete
    <3>2. CASE Complete(ContentOf(server)) /\ ~HasSink(sinkConfig)
      BY <2>1, <2>2, <3>2 DEF Sent, Hash
    <3>3. CASE server.hash = ContentOf(server)
      <4>1. server.sink = "SinkEmitSucceeded" => Sent(ContentOf(server))
        BY <1>3, <1>5, <3>3, NoValueAssumption DEF SuccessInv
      <4>2. QED
        BY <2>1, <2>2, <4>1 DEF Sent, Complete
    <3>4. QED
      BY <2>1, <3>1, <3>2, <3>3 DEF MustEmit, Hash
  <2>4. QED
    BY <1>3, <1>5, <2>1, <2>3 DEF SuccessInv, Sent
<1>6. CASE Emission
  <2>1. /\ pc \in {"emit", "send"} /\ work \in Object
        /\ pc' = "patch" /\ UNCHANGED <<server, seen, excused>>
    BY <1>6 DEF Emission, Sends, SendFails, ConfigureFails, Emitted, TypeOK,
       ControllerTypeOK
  <2>2. PICK reason \in {"SinkEmitFailed", "SinkEmitSucceeded"} :
           /\ Emitted(reason)
           /\ reason = "SinkEmitSucceeded" => delivered' = ContentOf(work)
    BY <1>6 DEF Emission, Sends, SendFails, ConfigureFails
  <2>3. work'.hash = ContentOf(work) /\ work'.sink = reason
    BY <2>1, <2>2 DEF Emitted, Recorded, Hash, Object
  <2>4. QED
    BY <2>1, <2>2, <2>3 DEF SuccessInv, Sent
<1>7. CASE PatchesAnnotation
  <2>1. /\ pc = "patch" /\ pc' = "patchStatus"
        /\ UNCHANGED <<seen, work, delivered, excused>>
        /\ \/ server' = server /\ (server = NoObject \/ work.hash = seen.hash)
           \/ /\ server # NoObject
              /\ server' = [server EXCEPT !.hash = work.hash]
    BY <1>7 DEF PatchesAnnotation, Fails, Calm, Store, Write
  <2>2. server # NoObject =>
          LET obj == [server EXCEPT !.hash = work.hash] IN
          /\ obj.hash = work.hash /\ obj.sink = server.sink
          /\ obj.state = server.state
    BY <1>1 DEF Object
  <2>3. QED
    BY <2>1, <2>2 DEF SuccessInv, Sent
<1>8. CASE PatchesCondition
  <2>1. pc = "patchStatus" /\ pc' = "idle" /\ UNCHANGED <<delivered, excused>>
    BY <1>8 DEF PatchesCondition, ControllerIdle
  <2>2. CASE server' = server /\ (work.sink = seen.sink \/ server = NoObject
                                   \/ server.state = "None")
    BY <2>1, <2>2 DEF SuccessInv, Sent
  <2>3. CASE /\ server # NoObject /\ server.state # "None"
             /\ server' = [server EXCEPT !.sink = work.sink]
    <3>1. /\ server'.sink = work.sink /\ server'.hash = server.hash
          /\ server'.state = server.state
      BY <1>1, <2>3 DEF Object
    <3>2. QED
      BY <2>1, <2>3, <3>1 DEF SuccessInv, Sent
  <2>4. QED
    <3>1. server # NoObject =>
              [server EXCEPT !.sink = work.sink].state = server.state
      BY <1>1 DEF Object
    <3>2. PatchedStatus(IF work.sink # seen.sink
                        THEN [server EXCEPT !.sink = work.sink] ELSE server)
      BY <1>8 DEF PatchesCondition, Fails
    <3>3. QED
      BY <2>2, <2>3, <3>1, <3>2 DEF PatchedStatus, Store, Write
<1>9. CASE ControllerCrash
  BY <1>9 DEF ControllerCrash, Restarts, Calm
<1>10. QED
  BY <1>2, <1>4, <1>5, <1>6, <1>7, <1>8, <1>9 DEF ControllerStep, Controller

LEMMA SuccessStep ==
    ASSUME Calm, "condition" \notin Faults, TypeOK, HistoryInv, SuccessInv,
           [Next]_vars
    PROVE  SuccessInv'
<1>1. CASE UNCHANGED vars
  BY <1>1 DEF vars, stored, controllerVars, controllerMemory, history,
     SuccessInv, Sent
<1>2. QED
  BY <1>1, OthersSuccess, ControllerSuccess DEF Next

\* A failed emission records its hash and is not repeated, so all hangs on its
\* condition: as long as the controller's cache shows its own patches, none of
\* them is lost and it does not restart, "SinkEmitSucceeded" is never said of a
\* hash whose emission failed - however the result flaps, whoever deletes it.
THEOREM SuccessIsHonest ==
    ASSUME Calm, "condition" \notin Faults
    PROVE  Spec => []SuccessMeansDelivered
<1>1. Init => SuccessInv
  BY DEF Init, ResultInit, CachedObjectInit, ControllerInit, SuccessInv
<1>2. TypeOK /\ HistoryInv /\ SuccessInv /\ [Next]_vars => SuccessInv'
  BY SuccessStep
<1>3. SuccessInv => SuccessMeansDelivered
  BY DEF SuccessInv, Sent, SuccessMeansDelivered
<1>4. Init => HistoryInv
  BY HistoryInit
<1>5. TypeOK /\ HistoryInv /\ [Next]_vars => HistoryInv'
  BY HistoryStep
<1>6. QED
  BY <1>1, <1>2, <1>3, <1>4, <1>5, TypeCorrect, PTL DEF Spec

=============================================================================
