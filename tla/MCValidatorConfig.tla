------------------------- MODULE MCValidatorConfig -------------------------
(* Small instances of ValidatorConfig *)
EXTENDS ValidatorConfig, TLC

Entry(p, v) == [name |-> p, values |-> v, version |-> "1.0"]

CONSTANTS p1, p2, v1, v2

\* One plugin, two different values
OnePlugin == {<<Entry(p1, v1)>>, <<Entry(p1, v2)>>}

\* Two charts, and two entries for one chart
Repeating ==
    {<<Entry(p1, v1), Entry(p2, v1)>>, <<Entry(p1, v1), Entry(p1, v2)>>}

\* The plugin that is added comes first
Prepending == {<<Entry(p1, v1)>>, <<Entry(p2, v1), Entry(p1, v1)>>}

\* Plugins come, go and change their values
TwoPlugins ==
    {<<Entry(p1, v1)>>, <<Entry(p1, v1), Entry(p2, v1)>>, <<Entry(p2, v2)>>}
=============================================================================
