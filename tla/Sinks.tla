------------------------------- MODULE Sinks -------------------------------
(***************************************************************************)
(* The sinks of pkg/sinks: which configurations they accept, what they do  *)
(* to the HTTP client that all of them share (http.DefaultClient), and     *)
(* which requests are refused whatever the network does.                   *)
(***************************************************************************)
EXTENDS ValidationResult, FiniteSets

CONSTANTS
    NoSecret,       \* the secret does not exist, or none is named
    DefaultTransport, \* of the standard library
    MaxBlocks       \* how many blocks Slack takes in a message (50)

ASSUME SinkAssumption == MaxBlocks \in Nat

VARIABLE transport  \* of the shared client

-----------------------------------------------------------------------------
SinkKind == {"missing", "noSink", "alertmanager", "slack"}

\* The keys of a secret, as far as Configure tells their values apart.
Secret ==
    [endpoint : {"absent", "invalid", "valid"},
     insecureSkipVerify : {"absent", "invalid", "true", "false"},
     caCert : {"absent", "present"},
     apiToken : BOOLEAN, channelId : BOOLEAN]

\* What the ValidatorConfig, if there is one, says of the sink, and the secret
\* that it names.
Config == [sink : SinkKind, secret : Secret \cup {NoSecret}]
HasSink(c) == c.sink \in {"alertmanager", "slack"}

\* The client is made with the transport of the standard library.
TLSConfig == [insecureSkipVerify : BOOLEAN, caCert : {"absent", "present"}]
Transport == TLSConfig \cup {DefaultTransport}

NewClient == transport' = DefaultTransport

-----------------------------------------------------------------------------
(* Configure *)

AlertmanagerAccepts(secret) ==
    /\ secret # NoSecret
    /\ secret.endpoint = "valid"
    /\ secret.insecureSkipVerify # "invalid"

SlackAccepts(secret) ==
    /\ secret # NoSecret
    /\ secret.apiToken /\ secret.channelId

Accepts(sink, secret) ==
    IF sink = "alertmanager" THEN AlertmanagerAccepts(secret)
                             ELSE SlackAccepts(secret)

TLSOf(secret) ==
    [insecureSkipVerify |-> secret.insecureSkipVerify = "true",
     caCert |-> secret.caCert]

\* (mutation) a transport that is there is kept
ConfigureOnce(sink, secret) ==
    transport' = IF sink = "alertmanager" /\ transport = DefaultTransport
                 THEN TLSOf(secret) ELSE transport

\* Alertmanager gives the shared client a new transport; Slack uses the one
\* that is there.
Configure(sink, secret) ==
    transport' = IF sink = "alertmanager" THEN TLSOf(secret) ELSE transport

-----------------------------------------------------------------------------
(* Emit *)

\* Three blocks, then seven for a condition - and two for its failure.
SlackBlocks(conds) ==
    3 + 7 * Len(conds)
      + 2 * Cardinality({k \in DOMAIN conds : IsFalse(conds[k])})

\* One request carries all conditions of a result.
Sendable(sink, vr) == sink = "slack" => SlackBlocks(vr.conds) <= MaxBlocks
=============================================================================
