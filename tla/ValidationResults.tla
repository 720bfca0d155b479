-------------------------- MODULE ValidationResults -------------------------
(***************************************************************************)
(* A plugin and the ValidationResult controller at work on the same        *)
(* ValidationResult, under users who delete it and reconfigure the sink.   *)
(***************************************************************************)
EXTENDS ResultPlugin, ResultController

CONSTANTS
    MaxDeletions,   \* bound: how often the ValidationResult is deleted
    MaxConfigs      \* bound: how often the sink is reconfigured

ASSUME UserAssumption == MaxDeletions \in Nat /\ MaxConfigs \in Nat

VARIABLES deletions, configs    \* what has been spent of the bounds

vars == <<stored, spent, pluginVars, controllerVars, deletions, configs>>

Init ==
    /\ ResultInit
    /\ PluginInit
    /\ ControllerInit
    /\ deletions = 0 /\ configs = 0

UserDeletes ==
    /\ server # NoObject
    /\ deletions < MaxDeletions
    /\ deletions' = deletions + 1
    /\ Store(NoObject)
    /\ UNCHANGED <<spent, pluginVars, controllerVars, configs>>

UserConfigures(c) ==
    /\ c # config
    /\ configs < MaxConfigs
    /\ configs' = configs + 1
    /\ config' = c
    /\ UNCHANGED <<stored, spent, pluginVars, due, pc, transport,
                   controllerMemory, history, deletions>>

PluginStep ==
    /\ \/ Plugin \/ PluginResumes \/ PluginDeliver \/ PluginCrash
       \/ \E r \in Rules : WorldChanges(r)
    /\ UNCHANGED <<controllerVars, deletions, configs>>

ControllerStep ==
    /\ Controller \/ Deliver \/ Resync \/ ControllerCrash
    /\ UNCHANGED <<pluginVars, deletions, configs>>

Next ==
    \/ PluginStep
    \/ ControllerStep
    \/ UserDeletes
    \/ \E c \in Configs : UserConfigures(c)

Spec == Init /\ [][Next]_vars

\* Both processes keep reconciling (the plugin unless its frequency says that
\* it stops, the controller every thirty seconds) and the informers deliver;
\* users, faults and crashes need not come.
Fairness ==
    /\ WF_vars(Plugin /\ UNCHANGED <<controllerVars, deletions, configs>>)
    /\ WF_vars(PluginDeliver /\ UNCHANGED <<controllerVars, deletions, configs>>)
    /\ WF_vars(Controller /\ UNCHANGED <<pluginVars, deletions, configs>>)
    /\ WF_vars(Deliver /\ UNCHANGED <<pluginVars, deletions, configs>>)
    /\ WF_vars(Resync /\ UNCHANGED <<pluginVars, deletions, configs>>)

FairSpec == Spec /\ Fairness

-----------------------------------------------------------------------------
(* Properties *)

Response == [rule : Rules, outcome : Outcomes]

StoreTypeOK ==
    /\ server \in Object \cup {NoObject}
    /\ feed \in Seq(Object \cup {NoObject})
    /\ cache \in Object \cup {NoObject}
    /\ pluginFeed \in Seq(Object \cup {NoObject})
    /\ pluginCache \in Object \cup {NoObject}
    /\ faults \in Nat /\ crashes \in Nat
    /\ deletions \in Nat /\ configs \in Nat

PluginTypeOK ==
    /\ world \in [Rules -> Outcomes]
    /\ changes \in Nat /\ results \in Nat
    /\ step \in {"idle", "stopped", "init", "validate", "finalize"}
    /\ IF step \in {"idle", "stopped"}
       THEN before = NoObject /\ vr = NoObject
       ELSE before \in Object /\ vr \in Object
    /\ response \in Seq(Response)
    /\ n \in Nat \ {0}

ControllerTypeOK ==
    /\ config \in Config
    /\ pc \in {"idle", "read", "emit", "send", "patch", "patchStatus"}
    /\ transport \in Transport
    /\ sinkConfig \in Config
    /\ IF pc \in {"idle", "read"}
       THEN seen = NoObject /\ work = NoObject
       ELSE seen \in Object /\ work \in Object
    /\ delivered \in Content \cup {NoHash} /\ latest \in Content \cup {NoHash}
    /\ attempted \subseteq Content /\ excused \subseteq Content

\* Every variable keeps its type, and the two processes hold copies of the
\* ValidationResult exactly while they work on it.
TypeOK == StoreTypeOK /\ PluginTypeOK /\ ControllerTypeOK /\ due \in BOOLEAN

\* A recorded hash that keeps a complete result from being emitted was not
\* recorded in vain: an emission of that very content was attempted, or there
\* was no sink then.  It is recorded after the emission, so a crash or a lost
\* patch in between repeats an emission but never skips one; and a hash that
\* is recorded on a result that was recreated meanwhile does not match it.
HashMeansAttempted ==
    server # NoObject /\ server.hash = Hash(server) /\ Complete(Hash(server)) =>
        ContentOf(server) \in attempted \cup excused

\* The same of every hash that is around, whether or not it matches: nothing
\* else can become the stored hash.
Accounted(hash) ==
    hash = NoHash \/ (Complete(hash) => hash \in attempted \cup excused)

CopiesAccounted ==
    /\ server # NoObject => Accounted(server.hash)
    /\ cache # NoObject => Accounted(cache.hash)
    /\ \A k \in DOMAIN feed : feed[k] # NoObject => Accounted(feed[k].hash)
    /\ pc \in {"patch", "patchStatus"} => Accounted(work.hash)

EmissionInv == TypeOK /\ CopiesAccounted

\* "validation results are hashed and result events are only emitted if the
\* result has changed" - since the controller looked at it last, whether it
\* was emitted then or found without a sink.
EmittedOnlyIfChanged == [][Emission => ContentOf(work) # latest]_vars

\* A request to Alertmanager goes out with the TLS settings of the secret its
\* endpoint and credentials come from, although the client is shared with
\* earlier emissions, with other sinks and with the rest of the program.
RequestUsesItsSecret ==
    pc = "send" /\ sinkConfig.sink = "alertmanager" =>
        transport = TLSOf(sinkConfig.secret)

\* The plugin's patch of the state and of the conditions leaves a status whose
\* state is the verdict on the conditions next to it, although the state is
\* left out of the patch when it is the one that was read.
StateIsVerdict ==
    server # NoObject /\ server.conds # <<>> =>
        server.state = IF \E k \in DOMAIN server.conds : IsFalse(server.conds[k])
                       THEN "Failed" ELSE "Succeeded"

\* When the rules stop changing their minds, the ValidationResult says what
\* they return, rule by rule, and the sink has received just that, or the
\* SinkEmission condition says that it has not: a failed emission never looks
\* like a success, and none is left out.
ShowsWorld ==
    /\ server # NoObject
    /\ {server.conds[k] : k \in DOMAIN server.conds} =
           {[rule |-> r, result |-> world[r]] : r \in Rules}
    /\ server.state = IF \A r \in Rules : world[r] = "pass"
                      THEN "Succeeded" ELSE "Failed"

Reported ==
    <>[](HasSink(config) /\ (\A r \in Rules : world[r] \in {"pass", "fail", "error"}) =>
           /\ ShowsWorld
           /\ \/ delivered = ContentOf(server)
              \/ server.sink = "SinkEmitFailed"
              \/ ContentOf(server) \in excused)

\* Every round of a plugin updates the conditions of its rules: there is never
\* a second one, so a rule that recovers replaces its failure - but for a failure
\* without a rule name, which is nobody's (see the run result_nilresult).
OneConditionPerRule ==
    server # NoObject =>
        \A j, k \in DOMAIN server.conds :
            server.conds[j].rule = server.conds[k].rule => j = k

\* What the sink receives was complete when it was read, and comes in the order
\* in which it was stored: a cache that lags, a crash between reading and
\* sending or a result that is deleted and created again may skip versions and
\* repeat some, but an old one never follows a newer one.
Version(obj) == IF obj = NoObject THEN NoHash ELSE ContentOf(obj)

Ahead ==
    [k \in 1 .. Len(feed) + 1 |-> Version(IF k = 1 THEN cache ELSE feed[k - 1])]

Taken == IF pc \in {"emit", "send"} THEN ContentOf(work) ELSE NoHash

Contract ==
    INSTANCE Reporting WITH
        NoContent <- NoHash, stored <- Version(server), ahead <- Ahead,
        taken <- Taken

ReportsInOrder == Contract!Spec

\* "SinkEmitSucceeded" next to a hash is about that very content: the sink has
\* received it, and nothing else since - unless it was found without a sink,
\* when the hash is recorded and the condition is left as it is.
SuccessMeansDelivered ==
    pc = "idle" /\ server # NoObject /\ server.sink = "SinkEmitSucceeded" =>
        \/ server.hash = NoHash \/ ~Complete(server.hash)
        \/ server.hash = delivered \/ server.hash \in excused

\* When a round of the plugin is stored, the ValidationResult says of every
\* rule what its last evaluation returned, and of the rules that were not
\* evaluated what the plugin had read - no more and no less, however many
\* rounds came before and whatever the other copies of the object say.
Says(conds) == {conds[k] : k \in DOMAIN conds}

AfterRound(responses) ==
    LET Rule(k) == ConditionOf(responses[k]).rule IN
    {c \in Says(before.conds) : \A k \in DOMAIN responses : Rule(k) # c.rule}
      \cup {ConditionOf(responses[k]) : k \in
               {k \in DOMAIN responses :
                   \A m \in DOMAIN responses : Rule(m) = Rule(k) => m <= k}}

RoundIsRecorded ==
    [][(/\ PatchesResult /\ UNCHANGED faults
        /\ server # NoObject /\ Patched(server).state # "None")
         => Says(server'.conds) = AfterRound(response)]_vars
=============================================================================
