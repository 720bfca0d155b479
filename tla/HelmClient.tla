----------------------------- MODULE HelmClient -----------------------------
(***************************************************************************)
(* The Helm CLI client of pkg/helm/helm.go: each call writes temporary     *)
(* files, runs a helm process that reads them, and removes them.  The      *)
(* deletion goroutines of one or more deletePlugins and the worker make    *)
(* calls at the same time.                                                 *)
(***************************************************************************)
EXTENDS Naturals

CONSTANTS
    Worker,         \* the worker: the only one to upgrade
    Goroutines,     \* the deletion goroutines
    Names,          \* release names
    Values,         \* Helm values
    NoValues,       \* the empty string: helm is not given a values file
    NoRelease,      \* there is no release of that name
    Broken,         \* a release that was never deployed
    Files,          \* the file names that os.CreateTemp may come up with
    NoFile,         \* no file; a name that is free
    Kubeconfig,     \* the contents of a kubeconfig file
    Preserve,       \* HELM_PRESERVE_FILES
    Faults,         \* the kinds of step that may fail
    MaxFaults       \* bound: how many of them do

Callers == {Worker} \cup Goroutines
FaultKinds == {"create", "write", "close", "stat", "remove", "helm"}

ASSUME HelmAssumption ==
    /\ Worker \notin Goroutines
    /\ NoValues \in Values
    /\ Preserve \in BOOLEAN
    /\ Faults \subseteq FaultKinds
    /\ MaxFaults \in Nat
    /\ NoFile \notin Files
    /\ Kubeconfig \notin Values
    /\ NoFile \notin Values \cup {Kubeconfig}
    /\ NoRelease \notin Values /\ Broken \notin Values /\ NoRelease # Broken

VARIABLES
    release,        \* per name: what is deployed
    call,           \* per caller: what it has called
    result,         \* per caller: what the call will return
    overtaken,      \* (history) the callers of upgrades whose release was
                    \* deleted by another call after they had called
    step,           \* per caller: what the call does next
    disk,           \* per file name: NoFile, or its contents
    temp,           \* per caller: the file that is being written
    kubeconfig,     \* per caller: the file whose removal is deferred
    values,         \* per caller: likewise, the values file
    found,          \* per caller: the release as helm upgrade found it
    lost,           \* (history) the files whose removal was given up
    faults          \* what has been spent of the bound

calls == <<release, call, result, overtaken>>
vars == <<calls, step, disk, temp, kubeconfig, values, found, lost, faults>>

Contract == INSTANCE HelmReleases
NoCall == Contract!NoCall

-----------------------------------------------------------------------------
Init ==
    /\ Contract!Init
    /\ step = [c \in Callers |-> "idle"]
    /\ disk = [f \in Files |-> NoFile]
    /\ temp = [c \in Callers |-> NoFile]
    /\ kubeconfig = [c \in Callers |-> NoFile]
    /\ values = [c \in Callers |-> NoFile]
    /\ found = [c \in Callers |-> NoRelease]
    /\ lost = {}
    /\ faults = 0

Goto(c, s) == step' = [step EXCEPT ![c] = s]

Fault(kind) ==
    /\ kind \in Faults
    /\ faults < MaxFaults
    /\ faults' = faults + 1

\* (mutation) the removals are not deferred yet
FailAtOnce(c) ==
    /\ result' = [result EXCEPT ![c] = "error"]
    /\ Goto(c, "return")
    /\ UNCHANGED <<release, call, overtaken>>

\* An early return: the deferred removals are all that is left to do.
Fail(c) ==
    /\ result' = [result EXCEPT ![c] = "error"]
    /\ Goto(c, "dropValues")
    /\ UNCHANGED <<release, call, overtaken>>

Call(c, request) ==
    /\ step[c] = "idle"
    /\ request.op = "upgrade" => c = Worker
    /\ Contract!Invoke(c, request)
    /\ Goto(c, "createKubeconfig")
    /\ UNCHANGED <<disk, temp, kubeconfig, values, found, lost, faults>>

-----------------------------------------------------------------------------
(* Temporary files *)

\* (mutation) the name may be in use
CreateShared(c, next) ==
    /\ \E f \in Files :
          /\ disk' = [disk EXCEPT ![f] = NoValues]
          /\ temp' = [temp EXCEPT ![c] = f]
    /\ Goto(c, next)
    /\ UNCHANGED <<calls, faults>>

\* os.CreateTemp: the file is new and empty.
Create(c, next) ==
    /\ \E f \in Files :
          /\ disk[f] = NoFile
          /\ disk' = [disk EXCEPT ![f] = NoValues]
          /\ temp' = [temp EXCEPT ![c] = f]
    /\ Goto(c, next)
    /\ UNCHANGED <<calls, faults>>

CreateFails(c) ==
    /\ Fault("create")
    /\ Fail(c)
    /\ UNCHANGED <<disk, temp>>

CreateKubeconfig(c) ==
    /\ step[c] = "createKubeconfig"
    /\ Create(c, "writeKubeconfig") \/ CreateFails(c)
    /\ UNCHANGED <<kubeconfig, values, found, lost>>

\* The file is removed, if it can be, when it cannot be written (or found) ...
WriteFails(c, kinds) ==
    /\ \E kind \in kinds : Fault(kind)
    /\ \/ /\ disk' = [disk EXCEPT ![temp[c]] = NoFile]
          /\ UNCHANGED lost
       \/ /\ "remove" \in Faults
          /\ lost' = lost \cup {temp[c]}
          /\ UNCHANGED disk

\* ... but not when it cannot be closed.
CloseFails(c, contents) ==
    /\ Fault("close")
    /\ disk' = [disk EXCEPT ![temp[c]] = contents]
    /\ lost' = lost \cup {temp[c]}

WriteKubeconfig(c) ==
    /\ step[c] = "writeKubeconfig"
    /\ \/ /\ disk' = [disk EXCEPT ![temp[c]] = Kubeconfig]
          /\ kubeconfig' = [kubeconfig EXCEPT ![c] = temp[c]]
          /\ Goto(c, IF call[c].op = "upgrade" THEN "options" ELSE "helm")
          /\ UNCHANGED <<calls, lost, faults>>
       \/ /\ WriteFails(c, {"write", "stat"}) \/ CloseFails(c, Kubeconfig)
          /\ Fail(c)
          /\ UNCHANGED kubeconfig
    /\ temp' = [temp EXCEPT ![c] = NoFile]
    /\ UNCHANGED <<values, found>>

\* The chart's registry or repository may be missing.
CheckOptions(c) ==
    /\ step[c] = "options"
    /\ \/ Goto(c, IF call[c].values = NoValues THEN "helm" ELSE "createValues")
          /\ UNCHANGED calls
       \/ Fail(c)
    /\ UNCHANGED <<disk, temp, kubeconfig, values, found, lost, faults>>

CreateValues(c) ==
    /\ step[c] = "createValues"
    /\ Create(c, "writeValues") \/ CreateFails(c)
    /\ UNCHANGED <<kubeconfig, values, found, lost>>

WriteValues(c) ==
    /\ step[c] = "writeValues"
    /\ \/ /\ disk' = [disk EXCEPT ![temp[c]] = call[c].values]
          /\ values' = [values EXCEPT ![c] = temp[c]]
          /\ Goto(c, "helm")
          /\ UNCHANGED <<calls, lost, faults>>
       \/ /\ WriteFails(c, {"write"}) \/ CloseFails(c, call[c].values)
          /\ Fail(c)
          /\ UNCHANGED values
    /\ temp' = [temp EXCEPT ![c] = NoFile]
    /\ UNCHANGED <<kubeconfig, found>>

-----------------------------------------------------------------------------
(* The helm process: it finds out what there is, and then acts on it *)

HelmLooks(c) ==
    /\ step[c] = "helm"
    /\ found' = [found EXCEPT ![c] = release[call[c].name]]
    /\ Goto(c, "act")
    /\ UNCHANGED <<calls, disk, temp, kubeconfig, values, lost, faults>>

\* What helm reads from the file it is given
GivenValues(c) ==
    IF values[c] = NoFile THEN NoValues ELSE disk[values[c]]

\* (mutation) the output is returned as it is
ExecVerbatim(output) == output

\* (mutation) a refusal is not an error either
ExecForgiving(output) ==
    IF output \in {"not found", "refused"} THEN "ok" ELSE output

\* exec: the output "release: not found" is not an error, whatever the command.
Exec(output) == IF output = "not found" THEN "ok" ELSE output

Ends(c, output, rel) ==
    /\ result' = [result EXCEPT ![c] = Exec(output)]
    /\ release' = [release EXCEPT ![call[c].name] = rel]
    /\ Goto(c, "dropValues")
    /\ UNCHANGED <<call, disk, temp, kubeconfig, values, found, lost>>

\* helm upgrade --install
HelmUpgrades(c) ==
    /\ step[c] = "act" /\ call[c].op = "upgrade"
    /\ LET now == release[call[c].name] IN
         \/ /\ found[c] = NoRelease \/ now \notin {NoRelease, Broken}
            /\ Ends(c, "ok", GivenValues(c))
         \/ /\ found[c] # NoRelease /\ now = NoRelease
            /\ \E output \in {"not found", "refused"} :
                  Ends(c, output, NoRelease)
         \/ /\ now = Broken
            /\ Ends(c, "refused", Broken)
    /\ UNCHANGED <<overtaken, faults>>

\* helm delete
HelmDeletes(c) ==
    /\ step[c] = "act" /\ call[c].op = "delete"
    /\ Ends(c, IF release[call[c].name] = NoRelease THEN "not found" ELSE "ok",
            NoRelease)
    /\ overtaken' = Contract!Overtaken(c)
    /\ UNCHANGED faults

\* An installation that fails may leave a release behind.
HelmFails(c) ==
    /\ step[c] = "act"
    /\ Fault("helm")
    /\ LET now == release[call[c].name] IN
         \/ Ends(c, "error", now)
         \/ /\ call[c].op = "upgrade" /\ now = NoRelease
            /\ Ends(c, "error", Broken)
    /\ UNCHANGED overtaken

-----------------------------------------------------------------------------
(* The deferred removals, last one first *)

Remove(c, f) ==
    \/ /\ f = NoFile \/ Preserve
       /\ lost' = IF f = NoFile THEN lost ELSE lost \cup {f}
       /\ UNCHANGED <<disk, faults>>
    \/ /\ f # NoFile /\ ~Preserve
       /\ \/ /\ disk' = [disk EXCEPT ![f] = NoFile]
             /\ UNCHANGED <<lost, faults>>
          \/ /\ Fault("remove")
             /\ lost' = lost \cup {f}
             /\ UNCHANGED disk

DropValues(c) ==
    /\ step[c] = "dropValues"
    /\ Remove(c, values[c])
    /\ values' = [values EXCEPT ![c] = NoFile]
    /\ Goto(c, "dropKubeconfig")
    /\ UNCHANGED <<calls, temp, kubeconfig, found>>

DropKubeconfig(c) ==
    /\ step[c] = "dropKubeconfig"
    /\ Remove(c, kubeconfig[c])
    /\ kubeconfig' = [kubeconfig EXCEPT ![c] = NoFile]
    /\ Goto(c, "return")
    /\ UNCHANGED <<calls, temp, values, found>>

Return(c) ==
    /\ step[c] = "return"
    /\ Contract!Returns(c)
    /\ Goto(c, "idle")
    /\ found' = [found EXCEPT ![c] = NoRelease]
    /\ UNCHANGED <<disk, temp, kubeconfig, values, lost, faults>>

-----------------------------------------------------------------------------
Step(c) ==
    \/ \E request \in Contract!Request : Call(c, request)
    \/ CreateKubeconfig(c) \/ WriteKubeconfig(c) \/ CheckOptions(c)
    \/ CreateValues(c) \/ WriteValues(c)
    \/ HelmLooks(c) \/ HelmUpgrades(c) \/ HelmDeletes(c) \/ HelmFails(c)
    \/ DropValues(c) \/ DropKubeconfig(c) \/ Return(c)

Next == \E c \in Callers : Step(c)

Spec == Init /\ [][Next]_vars

-----------------------------------------------------------------------------
(* Properties *)

Steps == {"idle", "createKubeconfig", "writeKubeconfig", "options",
          "createValues", "writeValues", "helm", "act",
          "dropValues", "dropKubeconfig", "return"}
Release == Values \cup {NoRelease, Broken}

\* Every variable keeps its type; a call returns nothing but success, an error
\* or Helm's refusal to upgrade a release that was never deployed.
TypeOK ==
    /\ release \in [Names -> Release]
    /\ call \in [Callers -> Contract!Request \cup {NoCall}]
    /\ result \in [Callers -> {"none", "ok", "error", "refused"}]
    /\ overtaken \subseteq Callers
    /\ step \in [Callers -> Steps]
    /\ disk \in [Files -> Values \cup {Kubeconfig, NoFile}]
    /\ temp \in [Callers -> Files \cup {NoFile}]
    /\ kubeconfig \in [Callers -> Files \cup {NoFile}]
    /\ values \in [Callers -> Files \cup {NoFile}]
    /\ found \in [Callers -> Release]
    /\ lost \subseteq Files
    /\ faults \in Nat

\* While helm runs, the files it was given are there and hold what this call
\* wrote, whatever other calls create, write and remove meanwhile.
FilesInUse ==
    \A c \in Callers : step[c] \in {"helm", "act"} =>
        /\ kubeconfig[c] # NoFile /\ disk[kubeconfig[c]] = Kubeconfig
        /\ call[c].op = "upgrade" =>
              GivenValues(c) = call[c].values

\* No call leaves a file behind, on any of its paths, unless it could not be
\* closed or removed (or the files are to be preserved).
Uses(c) == {temp[c], kubeconfig[c], values[c]} \ {NoFile}

NothingLeftBehind ==
    /\ \A f \in Files : disk[f] # NoFile =>
          f \in lost \/ \E c \in Callers : f \in Uses(c)
    /\ \A c \in Callers : step[c] = "idle" => Uses(c) = {}

\* What these rest on: a call's files are its own, they exist for as long as
\* the call may still write or remove them, and what is done so far is written
\* in them.  Only the worker installs releases, so one that helm did not find
\* is still missing when it acts, and one that it did find and that is missing
\* was deleted meanwhile.
Shape(c) ==
    /\ step[c] = "idle" <=> call[c] = NoCall
    /\ result[c] = "none"
          <=> step[c] \notin {"dropValues", "dropKubeconfig", "return"}
    /\ call[c].op = "upgrade" => c = Worker
    /\ temp[c] # NoFile <=> step[c] \in {"writeKubeconfig", "writeValues"}
    /\ kubeconfig[c] # NoFile =>
          step[c] \notin {"idle", "createKubeconfig", "writeKubeconfig", "return"}
    /\ values[c] # NoFile => step[c] \in {"helm", "act", "dropValues"}
    /\ step[c] \in {"options", "createValues", "writeValues"} =>
          call[c].op = "upgrade"
    /\ step[c] \in {"options", "createValues", "writeValues", "helm", "act"} =>
          kubeconfig[c] # NoFile /\ disk[kubeconfig[c]] = Kubeconfig
    /\ step[c] \in {"helm", "act"} /\ call[c].op = "upgrade" =>
          GivenValues(c) = call[c].values
    /\ step[c] = "act" /\ call[c].op = "upgrade" /\ found[c] = NoRelease =>
          release[call[c].name] = NoRelease
    /\ step[c] = "act" /\ call[c].op = "upgrade" /\ found[c] # NoRelease =>
          release[call[c].name] # NoRelease \/ c \in overtaken

FilesApart ==
    /\ \A c \in Callers : \A f \in Uses(c) : disk[f] # NoFile
    /\ \A c \in Callers : kubeconfig[c] # NoFile =>
          kubeconfig[c] # temp[c] /\ kubeconfig[c] # values[c]
    /\ \A c, d \in Callers : c # d => Uses(c) \cap Uses(d) = {}

HelmInv ==
    /\ TypeOK
    /\ \A c \in Callers : Shape(c)
    /\ FilesApart
    /\ NothingLeftBehind

\* Calls of the Helm client take effect at one moment or fail: the view that
\* ValidatorConfig has of them.
AtomicCalls == Contract!Spec
=============================================================================
