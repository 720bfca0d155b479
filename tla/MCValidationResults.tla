------------------------- MODULE MCValidationResults ------------------------
EXTENDS ValidationResults

CONSTANTS r1, r2

OneRule == <<r1>>
TwoRules == <<r1, r2>>

Malformed == [kind |-> "malformed", seconds |-> 0]
TooLarge == [kind |-> "number", seconds |-> 150]

AnySecret ==
    [endpoint |-> "valid", insecureSkipVerify |-> "absent",
     caCert |-> "present", apiToken |-> TRUE, channelId |-> TRUE]

Sinkless == [sink |-> "noSink", secret |-> NoSecret]
Alertmanager == [sink |-> "alertmanager", secret |-> AnySecret]
Insecure ==
    [Alertmanager EXCEPT !.secret.insecureSkipVerify = "true",
                         !.secret.apiToken = FALSE]
Slack == [sink |-> "slack", secret |-> [AnySecret EXCEPT !.endpoint = "absent"]]

OneSink == {Alertmanager}
SinkOrNone == {Sinkless, Alertmanager}
SlackSink == {Slack}
SomeSinks == {NoConfig, Sinkless, Alertmanager, Insecure}
=============================================================================
