---------------------------- MODULE ResultPlugin ----------------------------
(***************************************************************************)
(* A validator plugin, as far as it uses pkg/validationresult: it creates  *)
(* a ValidationResult (HandleNew), evaluates its rules over and over, and  *)
(* records what they return (SafeUpdate).  The rules themselves are other  *)
(* programs: world is what each returns when it is evaluated.              *)
(***************************************************************************)
EXTENDS ValidationResult, FiniteSets

CONSTANTS
    RuleList,       \* the rules in the order the plugin evaluates them
    StalePlugin,    \* it may read before its cache shows all writes
    Frequency,      \* the frequency annotation of the plugin's resource
    Second,         \* in units of time.Duration (10^9)
    Overflow,       \* what a time.Duration cannot hold any more (2^63)
    MaxChanges      \* bound: how often what a rule returns changes

Annotation == [kind : {"absent", "malformed", "number"}, seconds : Int]

ASSUME PluginAssumption ==
    /\ Frequency \in Annotation
    /\ Second \in Nat \ {0} /\ Overflow \in Nat \ {0}
    /\ RuleList \in Seq(Rules)
    /\ StalePlugin \in BOOLEAN
    /\ MaxChanges \in Nat

VARIABLES
    world,          \* per rule: what it returns now
    changes,        \* how often that has changed
    results,        \* how many ValidationResults were created (the last uid)
    step,           \* what the plugin does next
    before,         \* the ValidationResult as read (the patcher's copy)
    vr,             \* the ValidationResult in memory
    response,       \* what the rules returned
    n               \* the index of Finalize's loop

pluginMemory == <<before, vr, response, n>>
pluginVars == <<world, changes, results, step, pluginMemory>>

PluginInit ==
    /\ world \in [Rules -> Outcomes]
    /\ changes = 0
    /\ results = 0
    /\ step = "idle"
    /\ before = NoObject /\ vr = NoObject
    /\ response = <<>>
    /\ n = 1

PluginEnds(next) ==
    /\ step' = next
    /\ before' = NoObject /\ vr' = NoObject
    /\ response' = <<>>
    /\ n' = 1

PluginIdle == PluginEnds("idle")

Wrap(duration) == ((duration + Overflow) % (2 * Overflow)) - Overflow

\* When the plugin wants to be called again
FrequencyFromAnnotations(annotation) ==
    Wrap(Second * (IF annotation.kind = "number" THEN annotation.seconds ELSE 120))

-----------------------------------------------------------------------------
CanReadResult == step = "idle" /\ (StalePlugin \/ pluginFeed = <<>>)

\* HandleExisting only logs what it finds.
FindsResult ==
    /\ CanReadResult
    /\ pluginCache # NoObject
    /\ before' = pluginCache /\ vr' = pluginCache
    /\ step' = "validate"
    /\ UNCHANGED <<stored, spent, world, changes, results, response, n>>

\* Build: a new object has no status yet.
Build(uid) ==
    [uid |-> uid, expected |-> Len(RuleList), state |-> "None",
     conds |-> <<>>, hash |-> NoHash, sink |-> "None"]

\* HandleNew creates the object ...
CreatesResult ==
    /\ CanReadResult
    /\ pluginCache = NoObject
    /\ server = NoObject /\ results < MaxResults
    /\ results' = results + 1
    /\ Store(Build(results'))
    /\ vr' = Build(results') /\ before' = Build(results')
    /\ step' = "init"
    /\ UNCHANGED <<spent, world, changes, response, n>>

\* (or fails to: there is one that the cache does not show)
CreateFails ==
    /\ CanReadResult
    /\ pluginCache = NoObject
    /\ \/ server # NoObject /\ UNCHANGED faults
       \/ Fails("create")
    /\ UNCHANGED <<stored, crashes, pluginVars>>

\* ... and then patches its status.
InitializesStatus ==
    /\ step = "init"
    /\ \/ /\ PatchedStatus([server EXCEPT !.state = "InProgress"])
          /\ UNCHANGED faults
       \/ Fails("status") /\ UNCHANGED stored
    /\ PluginIdle
    /\ UNCHANGED <<crashes, world, changes, results>>

\* The rules are evaluated, and AddResult collects what they return.
Validate ==
    /\ step = "validate"
    /\ response' = [k \in DOMAIN RuleList |->
                      [rule |-> RuleList[k], outcome |-> world[RuleList[k]]]]
    /\ step' = "finalize"
    /\ UNCHANGED <<stored, spent, world, changes, results, before, vr, n>>

-----------------------------------------------------------------------------
(* SafeUpdate: Finalize in memory, one step per rule, then the patch *)

\* A missing result that comes with an error becomes a failed condition, which
\* has no rule name.
ConditionOf(r) ==
    CASE r.outcome \in {"pass", "fail", "error"} ->
            [rule |-> r.rule, result |-> r.outcome]
      [] r.outcome = "nilError" -> [rule |-> NoRule, result |-> "error"]

\* (mutation) a new condition every time
AppendAlways(conds, c) == Append(conds, c)

\* (mutation) a condition that is there is kept
KeepExisting(conds, c) ==
    IF \E k \in DOMAIN conds : conds[k].rule = c.rule THEN conds
    ELSE Append(conds, c)

\* Replace the condition of the rule, or append it.
Upsert(conds, c) ==
    IF \E k \in DOMAIN conds : conds[k].rule = c.rule
    THEN LET first == CHOOSE k \in DOMAIN conds :
                        /\ conds[k].rule = c.rule
                        /\ \A m \in 1 .. k - 1 : conds[m].rule # c.rule
         IN  [conds EXCEPT ![first] = c]
    ELSE Append(conds, c)

\* (mutation) the rule that was evaluated last decides
LastDecides(conds) ==
    IF IsFalse(conds[Len(conds)]) THEN "Failed" ELSE "Succeeded"

OverallState(conds) ==
    IF \E k \in DOMAIN conds : IsFalse(conds[k]) THEN "Failed" ELSE "Succeeded"

Finalizing == step = "finalize" /\ n \in DOMAIN response

UpdateStatus ==
    /\ Finalizing
    /\ response[n].outcome # "nil"
    /\ LET conds == Upsert(vr.conds, ConditionOf(response[n])) IN
         vr' = [vr EXCEPT !.conds = conds, !.state = OverallState(conds)]
    /\ n' = n + 1
    /\ UNCHANGED <<stored, spent, world, changes, results, step, before,
                   response>>

\* A missing result without an error has no state to dereference.
Panics ==
    /\ Finalizing
    /\ response[n].outcome = "nil"
    /\ PluginIdle
    /\ UNCHANGED <<stored, spent, world, changes, results>>

\* The conditions carry the time of their evaluation, so they always differ
\* from what was read; the state is sent only when it does.
Patched(obj) ==
    [obj EXCEPT !.conds = vr.conds,
                !.state = IF vr.state # before.state THEN vr.state ELSE @]

PatchesResult ==
    /\ step = "finalize" /\ n \notin DOMAIN response
    /\ \/ /\ PatchedStatus(Patched(server))
          /\ UNCHANGED faults
          /\ PluginEnds(IF FrequencyFromAnnotations(Frequency) > 0 THEN "idle"
                        ELSE "stopped")
       \/ /\ Fails("status")
          /\ UNCHANGED stored
          /\ PluginIdle
    /\ UNCHANGED <<crashes, world, changes, results>>

\* Only an edit of its resource, or the resync, calls the plugin again.
PluginResumes ==
    /\ step = "stopped"
    /\ step' = "idle"
    /\ UNCHANGED <<stored, spent, world, changes, results, pluginMemory>>

-----------------------------------------------------------------------------
PluginDeliver ==
    /\ PluginView!ReceiveEvent
    /\ UNCHANGED <<feed, cache, spent, pluginVars>>

PluginCrash ==
    /\ Restarts("plugin")
    /\ PluginView!Relist
    /\ PluginIdle
    /\ UNCHANGED <<feed, cache, faults, world, changes, results>>

\* What a rule checks is fixed, or breaks.
WorldChanges(r) ==
    /\ changes < MaxChanges
    /\ changes' = changes + 1
    /\ \E o \in Outcomes \ {world[r]} : world' = [world EXCEPT ![r] = o]
    /\ UNCHANGED <<stored, spent, results, step, pluginMemory>>

Plugin ==
    \/ FindsResult \/ CreatesResult \/ CreateFails \/ InitializesStatus
    \/ Validate \/ UpdateStatus \/ Panics \/ PatchesResult
=============================================================================
