-------------------------- MODULE ResultController --------------------------
(***************************************************************************)
(* The ValidationResult controller of                                      *)
(* internal/controller/validationresult_controller.go: it reports a        *)
(* complete ValidationResult to the sink of the ValidatorConfig, and keeps *)
(* the hash of what it reported in an annotation.                          *)
(***************************************************************************)
EXTENDS Sinks

CONSTANTS
    Configs,        \* the sink settings that users try
    StaleReads      \* it may read before its cache shows all writes

ASSUME ControllerAssumption ==
    /\ Configs \subseteq Config
    /\ StaleReads \in BOOLEAN

VARIABLES
    config,         \* the sink settings, as stored
    due,            \* the work queue holds a request for the ValidationResult
    pc,             \* what the controller does next
    sinkConfig,     \* the sink settings, as read
    seen,           \* the ValidationResult as read (the patch helper's copy)
    work,           \* the ValidationResult as changed in memory
    delivered,      \* what the sink received last
    latest,         \* (history) what it looked at last
    attempted,      \* (history) what it ever tried to emit
    excused         \* (history) what was complete when there was no sink

controllerMemory == <<sinkConfig, seen, work>>
history == <<delivered, latest, attempted, excused>>
controllerVars == <<config, due, pc, transport, controllerMemory, history>>

NoConfig == [sink |-> "missing", secret |-> NoSecret]

ControllerInit ==
    /\ config = NoConfig
    /\ due = FALSE
    /\ pc = "idle"
    /\ transport = DefaultTransport
    /\ sinkConfig = NoConfig
    /\ seen = NoObject /\ work = NoObject
    /\ delivered = NoHash /\ latest = NoHash
    /\ attempted = {} /\ excused = {}

ControllerIdle ==
    /\ pc' = "idle"
    /\ sinkConfig' = NoConfig
    /\ seen' = NoObject /\ work' = NoObject

-----------------------------------------------------------------------------
\* Without a ValidatorConfig the request is dropped.
ReadsConfig ==
    /\ pc = "idle" /\ due
    /\ due' = FALSE
    /\ \/ /\ config.sink = "missing"
          /\ UNCHANGED <<pc, sinkConfig>>
       \/ /\ config.sink # "missing"
          /\ sinkConfig' = [config EXCEPT !.secret = NoSecret]
          /\ pc' = "read"
    /\ UNCHANGED <<stored, spent, config, transport, seen, work, history>>

CanReadResultNow == pc = "read" /\ (StaleReads \/ feed = <<>>)

ResultNotFound ==
    /\ CanReadResultNow
    /\ cache = NoObject
    /\ ControllerIdle
    /\ UNCHANGED <<stored, spent, config, due, transport, history>>

\* (mutation) the whole object is hashed, its annotation included
RecordedWhole(vr, reason) == [vr EXCEPT !.hash = vr, !.sink = reason]

\* (mutation) a SinkEmission condition that is there is kept
RecordedOnce(vr, reason) ==
    [vr EXCEPT !.hash = Hash(vr), !.sink = IF @ = "None" THEN reason ELSE @]

\* The hash that is recorded and the reason of the SinkEmission condition
Recorded(vr, reason) == [vr EXCEPT !.hash = Hash(vr), !.sink = reason]

\* (mutation) emit again on every reconciliation
MustEmitAgain(vr) == Complete(Hash(vr)) /\ HasSink(sinkConfig)

MustEmit(vr) ==
    /\ Complete(Hash(vr))
    /\ HasSink(sinkConfig)
    /\ vr.hash # Hash(vr)

ReadsForEmission ==
    /\ CanReadResultNow
    /\ cache # NoObject /\ MustEmit(cache)
    /\ seen' = cache /\ work' = cache
    /\ pc' = "emit"
    /\ UNCHANGED <<stored, spent, config, due, transport, sinkConfig, history>>

\* The hash is recorded all the same.
ReadsWithoutEmission ==
    /\ CanReadResultNow
    /\ cache # NoObject /\ ~MustEmit(cache)
    /\ seen' = cache
    /\ work' = Recorded(cache, IF cache.sink = "None" THEN "SinkEmitNA"
                               ELSE cache.sink)
    /\ pc' = "patch"
    /\ latest' = ContentOf(cache)
    /\ excused' = IF Complete(Hash(cache)) /\ ~HasSink(sinkConfig)
                  THEN excused \cup {ContentOf(cache)} ELSE excused
    /\ UNCHANGED <<stored, spent, config, due, transport, sinkConfig,
                   delivered, attempted>>

-----------------------------------------------------------------------------
(* emitToSink: read the secret, configure the sink, send *)

\* The emission is over; the deferred patch will say so.
Emitted(reason) ==
    /\ attempted' = attempted \cup {ContentOf(work)}
    /\ latest' = ContentOf(work)
    /\ work' = Recorded(work, reason)
    /\ pc' = "patch"
    /\ UNCHANGED <<stored, crashes, config, due, seen, excused>>

Configures ==
    /\ pc = "emit"
    /\ Accepts(sinkConfig.sink, config.secret)
    /\ sinkConfig' = [sinkConfig EXCEPT !.secret = config.secret]
    /\ Configure(sinkConfig.sink, config.secret)
    /\ pc' = "send"
    /\ UNCHANGED <<stored, spent, config, due, seen, work, history>>

\* There is no such secret, it cannot be read, or the sink rejects it.
ConfigureFails ==
    /\ pc = "emit"
    /\ \/ ~Accepts(sinkConfig.sink, config.secret) /\ UNCHANGED faults
       \/ Fails("emit")
    /\ Emitted("SinkEmitFailed")
    /\ UNCHANGED <<transport, sinkConfig, delivered>>

\* (mutation) the result is read again to be sent
SendsCached ==
    /\ pc = "send" /\ cache # NoObject
    /\ Sendable(sinkConfig.sink, cache)
    /\ delivered' = ContentOf(cache)
    /\ Emitted("SinkEmitSucceeded")
    /\ UNCHANGED <<faults, transport, sinkConfig>>

Sends ==
    /\ pc = "send"
    /\ Sendable(sinkConfig.sink, work)
    /\ delivered' = ContentOf(work)
    /\ Emitted("SinkEmitSucceeded")
    /\ UNCHANGED <<faults, transport, sinkConfig>>

\* (mutation) a refusal counts as a success
SendFailsSilently ==
    /\ pc = "send"
    /\ \/ /\ ~Sendable(sinkConfig.sink, work)
          /\ UNCHANGED <<faults, delivered>>
       \/ /\ Fails("emit")
          /\ delivered' \in {delivered, ContentOf(work)}
    /\ Emitted("SinkEmitSucceeded")
    /\ UNCHANGED <<transport, sinkConfig>>

\* The sink refuses the request or answers with an error - or not in time,
\* although it received the result.
SendFails ==
    /\ pc = "send"
    /\ \/ /\ ~Sendable(sinkConfig.sink, work)
          /\ UNCHANGED <<faults, delivered>>
       \/ /\ Fails("emit")
          /\ delivered' \in {delivered, ContentOf(work)}
    /\ Emitted("SinkEmitFailed")
    /\ UNCHANGED <<transport, sinkConfig>>

Emission == Sends \/ SendFails \/ ConfigureFails

-----------------------------------------------------------------------------
(* The deferred patch: the annotation, then the SinkEmission condition.  An *)
(* error of the first does not keep the second from being sent.             *)

PatchesAnnotation ==
    /\ pc = "patch"
    /\ \/ /\ IF server = NoObject \/ work.hash = seen.hash
             THEN UNCHANGED stored
             ELSE Store([server EXCEPT !.hash = work.hash])
          /\ UNCHANGED faults
       \/ Fails("patch") /\ UNCHANGED stored
    /\ pc' = "patchStatus"
    /\ UNCHANGED <<crashes, config, due, transport, controllerMemory, history>>

\* The next reconciliation is due in 30 seconds, or as a retry.  (The patch is
\* also sent when only the message of the condition differs.  Its watch event
\* would bring a copy that is equal in all that is modelled, and a request that
\* is due anyway.)
PatchesCondition ==
    /\ pc = "patchStatus"
    /\ \/ /\ PatchedStatus(IF work.sink # seen.sink
                           THEN [server EXCEPT !.sink = work.sink]
                           ELSE server)
          /\ UNCHANGED faults
       \/ Fails("condition") /\ UNCHANGED stored
    /\ ControllerIdle
    /\ due' = TRUE
    /\ UNCHANGED <<crashes, config, transport, history>>

-----------------------------------------------------------------------------
\* Every watch event is also a request to reconcile.
Deliver ==
    /\ ReceiveEvent
    /\ due' = TRUE
    /\ UNCHANGED <<pluginFeed, pluginCache, spent, config, pc, transport,
                   controllerMemory, history>>

\* The informers list their objects again every ten hours.
Resync ==
    /\ cache # NoObject /\ ~due
    /\ due' = TRUE
    /\ UNCHANGED <<stored, spent, config, pc, transport, controllerMemory,
                   history>>

ControllerCrash ==
    /\ Restarts("controller")
    /\ Relist
    /\ NewClient
    /\ ControllerIdle
    /\ due' = (server # NoObject)
    /\ UNCHANGED <<pluginFeed, pluginCache, faults, config, history>>

Controller ==
    \/ ReadsConfig \/ ResultNotFound \/ ReadsForEmission \/ ReadsWithoutEmission
    \/ Configures \/ Emission \/ PatchesAnnotation \/ PatchesCondition
=============================================================================
