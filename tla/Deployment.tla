----------------------------- MODULE Deployment -----------------------------
(***************************************************************************)
(* What the ValidatorConfig controller promises about the plugins, for as  *)
(* long as nobody deletes the ValidatorConfig: it goes by one list at a    *)
(* time, deploys what that list names with the values given there, takes   *)
(* down nothing else than what the list does not name, and reports as      *)
(* deployed only what is.  Calls may fail, and then it says so.            *)
(***************************************************************************)
CONSTANTS
    Plugins,        \* the names of the plugins
    Values,         \* the values they may be given
    NoValues        \* the plugin does not run

VARIABLES
    live,           \* there is a ValidatorConfig that nobody has deleted
    wanted,         \* the plugins it lists, with their values
    busy,           \* a reconciliation is under way
    plan,           \* the list that it goes by
    deployed,       \* per plugin: the values it runs with
    reported,       \* the plugins that are said to be deployed
    failed          \* the plugins that something ever failed for

vars == <<live, wanted, busy, plan, deployed, reported, failed>>

Wish == [plugin : Plugins, values : Values]
Names(wishes) == {w.plugin : w \in wishes}
Nothing == [p \in Plugins |-> NoValues]

Init ==
    /\ live = FALSE /\ busy = FALSE
    /\ wanted = {} /\ plan = {}
    /\ deployed = Nothing
    /\ reported = {} /\ failed = {}

Create ==
    /\ ~live /\ deployed = Nothing
    /\ live' = TRUE
    /\ wanted' \subseteq Wish
    /\ UNCHANGED <<busy, plan, deployed, reported, failed>>

\* Users may change the list at any time; the plan stays.
Edit ==
    /\ live
    /\ wanted' \subseteq Wish
    /\ UNCHANGED <<live, busy, plan, deployed, reported, failed>>

Begin ==
    /\ live /\ ~busy
    /\ busy' = TRUE
    /\ plan' = wanted
    /\ UNCHANGED <<live, wanted, deployed, reported, failed>>

Upgrade(w) ==
    /\ w \in plan
    /\ deployed' = [deployed EXCEPT ![w.plugin] = w.values]
    /\ UNCHANGED <<live, wanted, busy, plan, reported, failed>>

Remove(p) ==
    /\ busy /\ p \notin Names(plan)
    /\ deployed' = [deployed EXCEPT ![p] = NoValues]
    /\ UNCHANGED <<live, wanted, busy, plan, reported, failed>>

\* What runs goes on running.
Fail(p) ==
    /\ busy
    /\ failed' = failed \cup {p}
    /\ UNCHANGED <<live, wanted, busy, plan, deployed, reported>>

\* What is reported runs as planned, and the rest has gone or has failed to.
Report ==
    /\ busy
    /\ reported' \subseteq {w.plugin : w \in {w \in plan : deployed[w.plugin] = w.values}}
    /\ \A p \in Plugins \ (Names(plan) \cup failed) : deployed[p] = NoValues
    /\ busy' = FALSE /\ plan' = {}
    /\ UNCHANGED <<live, wanted, deployed, failed>>

\* From its deletion on, nothing is promised.
Away ==
    /\ live' = FALSE /\ busy' = FALSE
    /\ wanted' = {} /\ plan' = {} /\ reported' = {}
    /\ deployed' \in [Plugins -> Values \cup {NoValues}]
    /\ failed' \subseteq Plugins

Next ==
    \/ Create \/ Edit \/ Begin \/ Report \/ Away
    \/ \E w \in plan : Upgrade(w)
    \/ \E p \in Plugins : Remove(p) \/ Fail(p)

Spec == Init /\ [][Next]_vars
=============================================================================
