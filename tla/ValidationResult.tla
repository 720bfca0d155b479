-------------------------- MODULE ValidationResult --------------------------
(***************************************************************************)
(* A ValidationResult and those who share it: the plugin that writes its   *)
(* validation conditions and the controller that reports it to a sink.     *)
(* Each reads it through an informer cache of its own and writes it with   *)
(* merge patches that carry only what the writer changed.                  *)
(***************************************************************************)
EXTENDS CachedObject, Integers

CONSTANTS
    Rules,          \* the validation rules of the plugin
    NoRule,         \* the empty rule name
    Outcomes,       \* what a rule may return
    NoHash,         \* no hash annotation, nothing emitted
    Faults,         \* the kinds of call that may fail
    MaxFaults,      \* bound: how many calls fail
    Crashing,       \* the processes that may restart
    MaxCrashes,     \* bound: how often they do
    MaxResults      \* bound: how often the ValidationResult is created

OutcomeKinds == {"pass", "fail", "error", "nilError", "nil"}
FaultKinds == {"create", "status", "emit", "patch", "condition"}

ASSUME ResultAssumption ==
    /\ NoRule \notin Rules
    /\ Outcomes \subseteq OutcomeKinds
    /\ Faults \subseteq FaultKinds
    /\ Crashing \subseteq {"plugin", "controller"}
    /\ MaxFaults \in Nat /\ MaxCrashes \in Nat /\ MaxResults \in Nat

VARIABLES
    pluginFeed,     \* the watch events that the plugin's cache is behind
    pluginCache,    \* the object as the plugin's client returns it
    faults, crashes \* what has been spent of the bounds

\* server, feed and cache are what the controller sees of the object.
PluginView ==
    INSTANCE CachedObject WITH feed <- pluginFeed, cache <- pluginCache

stored == <<server, feed, cache, pluginFeed, pluginCache>>
spent == <<faults, crashes>>

-----------------------------------------------------------------------------
\* A condition is what a rule said in its last evaluation: passed, failed, or
\* failed with an unexpected error, which is kept in the message.
Condition == [rule : Rules \cup {NoRule}, result : {"pass", "fail", "error"}]
IsFalse(c) == c.result # "pass"

State == {"None", "InProgress", "Succeeded", "Failed"}
EmitState == {"None", "SinkEmitNA", "SinkEmitFailed", "SinkEmitSucceeded"}

\* What a ValidationResult says.  Times are left out, and so is the plugin's
\* name, which never changes.
Content ==
    [uid : Nat, expected : Nat, state : State, conds : Seq(Condition)]

Object ==
    [uid : Nat, expected : Nat, state : State, conds : Seq(Condition),
     hash : Content \cup {NoHash}, sink : EmitState]

ASSUME NoValueAssumption == NoObject \notin Object /\ NoHash \notin Content

ContentOf(vr) ==
    [uid |-> vr.uid, expected |-> vr.expected, state |-> vr.state,
     conds |-> vr.conds]

\* (mutation) the digest leaves out the UID
HashWithoutUid(vr) == [ContentOf(vr) EXCEPT !.uid = 0]

\* MD5 is taken to be injective.
Hash(vr) == ContentOf(vr)

\* The controller reports a result when it is complete: no rule is missing.
Complete(content) ==
    /\ content.state \in {"Failed", "Succeeded"}
    /\ Len(content.conds) = content.expected

Fails(kind) ==
    /\ kind \in Faults
    /\ faults < MaxFaults
    /\ faults' = faults + 1

Restarts(process) ==
    /\ process \in Crashing
    /\ crashes < MaxCrashes
    /\ crashes' = crashes + 1

\* Everybody's writes
Store(obj) ==
    /\ Write(obj)
    /\ PluginView!Write(obj)
    /\ UNCHANGED <<cache, pluginCache>>

\* A status patch.  The status must have a state (a required field).
PatchedStatus(obj) ==
    IF server = NoObject \/ obj.state = "None" THEN UNCHANGED stored
    ELSE Store(obj)

ResultInit ==
    /\ CachedObjectInit
    /\ PluginView!CachedObjectInit
    /\ faults = 0 /\ crashes = 0
=============================================================================
