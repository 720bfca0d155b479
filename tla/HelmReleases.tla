---------------------------- MODULE HelmReleases ----------------------------
(***************************************************************************)
(* What the controllers rely on when they call Helm: a call takes effect   *)
(* at one moment, or fails.  This is how ValidatorConfig uses helm.Client, *)
(* and what HelmClient is shown to implement with processes and files.     *)
(***************************************************************************)

CONSTANTS
    Callers,        \* the worker and the deletion goroutines
    Names,          \* release names
    Values,         \* Helm values
    NoRelease,      \* there is no release of that name
    Broken          \* a release that was never deployed

VARIABLES
    release,        \* per name: what is deployed
    call,           \* per caller: what it has called, or NoCall
    result,         \* per caller: what the call will return, or "none"
    overtaken       \* (history) the callers of upgrades whose release was
                    \* deleted by another call after they had called

NoCall == [op |-> "none"]
Request ==
    [op : {"upgrade"}, name : Names, values : Values]
        \cup [op : {"delete"}, name : Names]

Init ==
    /\ release = [n \in Names |-> NoRelease]
    /\ call = [c \in Callers |-> NoCall]
    /\ result = [c \in Callers |-> "none"]
    /\ overtaken = {}

Invoke(c, request) ==
    /\ call[c] = NoCall
    /\ call' = [call EXCEPT ![c] = request]
    /\ UNCHANGED <<release, result, overtaken>>

\* The call is decided: it will return res, and the release becomes rel.
Decide(c, res, rel) ==
    /\ call[c] # NoCall /\ result[c] = "none"
    /\ result' = [result EXCEPT ![c] = res]
    /\ release' = [release EXCEPT ![call[c].name] = rel]
    /\ UNCHANGED call

\* Helm refuses to upgrade what was never deployed.  If the release is deleted
\* during the call, helm refuses as well, or says that it is not found, which the
\* client takes for success: as if the upgrade had come just before the deletion.
Upgrades(c) ==
    /\ call[c].op = "upgrade"
    /\ LET old == release[call[c].name] IN
         \/ old # Broken /\ Decide(c, "ok", call[c].values)
         \/ old = NoRelease /\ Decide(c, "error", Broken)
         \/ old = Broken /\ Decide(c, "refused", Broken)
         \/ /\ old = NoRelease /\ c \in overtaken
            /\ \E res \in {"ok", "refused"} : Decide(c, res, NoRelease)
    /\ UNCHANGED overtaken

Overtaken(c) ==
    overtaken \cup {d \in Callers \ {c} :
                      call[d].op = "upgrade" /\ call[d].name = call[c].name}

Deletes(c) ==
    /\ call[c].op = "delete"
    /\ Decide(c, "ok", NoRelease)
    /\ overtaken' = Overtaken(c)

Fails(c) ==
    /\ Decide(c, "error", release[call[c].name])
    /\ UNCHANGED overtaken

Returns(c) ==
    /\ call[c] # NoCall /\ result[c] # "none"
    /\ call' = [call EXCEPT ![c] = NoCall]
    /\ result' = [result EXCEPT ![c] = "none"]
    /\ overtaken' = overtaken \ {c}
    /\ UNCHANGED release

Next ==
    \E c \in Callers :
        \/ \E request \in Request : Invoke(c, request)
        \/ Upgrades(c) \/ Deletes(c) \/ Fails(c) \/ Returns(c)

Spec == Init /\ [][Next]_<<release, call, result, overtaken>>
=============================================================================
