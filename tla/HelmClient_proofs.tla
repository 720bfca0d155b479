------------------------- MODULE HelmClient_proofs -------------------------
(***************************************************************************)
(* The Helm client keeps its files apart and implements HelmReleases, for  *)
(* any callers, releases and file names.                                   *)
(***************************************************************************)
EXTENDS HelmClient, TLAPS

-----------------------------------------------------------------------------
(* Types *)

LEMMA TypeInit == Init => TypeOK
  BY HelmAssumption
  DEF Init, TypeOK, Contract!Init, NoCall, Contract!NoCall, Release, Steps

\* An early return keeps the types.
LEMMA FailType ==
  ASSUME TypeOK, NEW c \in Callers, Fail(c)
  PROVE  /\ result' \in [Callers -> {"none", "ok", "error", "refused"}]
         /\ step' \in [Callers -> Steps]
         /\ UNCHANGED <<release, call, overtaken>>
  BY DEF TypeOK, Fail, Goto, Steps

\* So does the end of the helm process.
LEMMA EndsType ==
  ASSUME TypeOK, NEW c \in Callers,
         NEW output \in {"ok", "error", "refused", "not found"},
         NEW rel \in Release, Ends(c, output, rel), faults' \in Nat,
         overtaken' \subseteq Callers
  PROVE  TypeOK'
  <1>1. Exec(output) \in {"none", "ok", "error", "refused"}
    BY DEF Exec
  <1>2. /\ release' \in [Names -> Release]
        /\ result' \in [Callers -> {"none", "ok", "error", "refused"}]
        /\ step' \in [Callers -> Steps]
    BY <1>1 DEF TypeOK, Ends, Goto, Steps
  <1> QED BY <1>2 DEF TypeOK, Ends

\* helm is given the values of the call.
LEMMA GivenType ==
  ASSUME HelmInv, NEW c \in Callers, step[c] = "act", call[c].op = "upgrade"
  PROVE  /\ GivenValues(c) = call[c].values
         /\ call[c].values \in Values
         /\ call[c].name \in Names
  <1>1. call[c] \in Contract!Request
    BY DEF HelmInv, TypeOK, Shape, NoCall, Contract!NoCall
  <1>2. GivenValues(c) = call[c].values
    BY DEF HelmInv, Shape
  <1> QED BY <1>1, <1>2 DEF Contract!Request

LEMMA FaultType ==
  ASSUME TypeOK, NEW kind, Fault(kind)
  PROVE  faults' \in Nat
  BY DEF TypeOK, Fault

LEMMA TypeStep ==
  ASSUME HelmInv, NEW c \in Callers, Step(c)
  PROVE  TypeOK'
  <1> USE HelmAssumption
  <1>0. TypeOK
    BY DEF HelmInv
  <1>1. ASSUME NEW request \in Contract!Request, Call(c, request)
        PROVE  TypeOK'
    BY <1>0, <1>1 DEF TypeOK, Call, Contract!Invoke, Goto, Steps
  <1>2. CASE CreateKubeconfig(c) \/ CreateValues(c)
    <2>1. CASE \E next \in {"writeKubeconfig", "writeValues"} : Create(c, next)
      BY <1>0, <1>2, <2>1
      DEF TypeOK, CreateKubeconfig, CreateValues, Create, Goto, Steps, calls
    <2>2. CASE CreateFails(c)
      BY <1>0, <1>2, <2>2, FailType, FaultType
      DEF TypeOK, CreateKubeconfig, CreateValues, CreateFails
    <2> QED BY <1>2, <2>1, <2>2 DEF CreateKubeconfig, CreateValues
  <1>3. CASE WriteKubeconfig(c) \/ WriteValues(c)
    <2>1. call[c] \in Contract!Request /\ temp[c] \in Files
      BY <1>3 DEF HelmInv, TypeOK, Shape, WriteKubeconfig, WriteValues
    <2>2. step[c] = "writeValues" => call[c].values \in Values
      BY <2>1 DEF HelmInv, Shape, Contract!Request
    <2>3. disk' \in [Files -> Values \cup {Kubeconfig, NoFile}]
      BY <1>0, <1>3, <2>1, <2>2
      DEF TypeOK, WriteKubeconfig, WriteValues, WriteFails, CloseFails
    <2>4. faults' \in Nat /\ lost' \subseteq Files
      BY <1>0, <1>3, <2>1, FaultType
      DEF TypeOK, WriteKubeconfig, WriteValues, WriteFails, CloseFails
    <2>5. /\ result' \in [Callers -> {"none", "ok", "error", "refused"}]
          /\ step' \in [Callers -> Steps]
          /\ UNCHANGED <<release, call, overtaken>>
      BY <1>0, <1>3, FailType
      DEF TypeOK, WriteKubeconfig, WriteValues, Goto, Steps, calls
    <2>6. /\ temp' \in [Callers -> Files \cup {NoFile}]
          /\ kubeconfig' \in [Callers -> Files \cup {NoFile}]
          /\ values' \in [Callers -> Files \cup {NoFile}]
          /\ found' \in [Callers -> Release]
      BY <1>0, <1>3, <2>1 DEF TypeOK, WriteKubeconfig, WriteValues
    <2> QED BY <1>0, <2>3, <2>4, <2>5, <2>6 DEF TypeOK
  <1>4. CASE CheckOptions(c)
    BY <1>0, <1>4, FailType DEF TypeOK, CheckOptions, Goto, Steps, calls
  <1>5. CASE HelmLooks(c)
    <2>1. call[c] \in Contract!Request
      BY <1>5 DEF HelmInv, TypeOK, Shape, HelmLooks
    <2>2. release[call[c].name] \in Release
      BY <1>0, <2>1 DEF TypeOK, Contract!Request
    <2> QED
      BY <1>0, <1>5, <2>2 DEF TypeOK, HelmLooks, Goto, Steps, calls
  <1>6. CASE HelmUpgrades(c)
    <2>1. GivenValues(c) \in Release
      BY <1>6, GivenType DEF HelmUpgrades, Release
    <2>2. faults' \in Nat /\ overtaken' \subseteq Callers
      BY <1>0, <1>6 DEF TypeOK, HelmUpgrades
    <2>3. NoRelease \in Release /\ Broken \in Release
      BY DEF Release
    <2> QED BY <1>0, <1>6, <2>1, <2>2, <2>3, EndsType DEF HelmUpgrades
  <1>7. CASE HelmDeletes(c)
    <2>1. /\ faults' \in Nat /\ NoRelease \in Release
          /\ overtaken' \subseteq Callers
      BY <1>0, <1>7 DEF TypeOK, HelmDeletes, Contract!Overtaken, Release
    <2> QED BY <1>0, <1>7, <2>1, EndsType DEF HelmDeletes
  <1>8. CASE HelmFails(c)
    <2>1. call[c] \in Contract!Request
      BY <1>8 DEF HelmInv, TypeOK, Shape, HelmFails
    <2>2. release[call[c].name] \in Release /\ Broken \in Release
      BY <1>0, <2>1 DEF TypeOK, Contract!Request, Release
    <2>3. faults' \in Nat /\ overtaken' \subseteq Callers
      BY <1>0, <1>8, FaultType DEF TypeOK, HelmFails
    <2> QED BY <1>0, <1>8, <2>2, <2>3, EndsType DEF HelmFails
  <1>9. CASE DropValues(c) \/ DropKubeconfig(c)
    <2>1. \A f \in Files \cup {NoFile} : Remove(c, f) =>
            /\ disk' \in [Files -> Values \cup {Kubeconfig, NoFile}]
            /\ lost' \subseteq Files
            /\ faults' \in Nat
      BY <1>0, FaultType DEF TypeOK, Remove
    <2>2. values[c] \in Files \cup {NoFile} /\ kubeconfig[c] \in Files \cup {NoFile}
      BY <1>0 DEF TypeOK
    <2> QED
      BY <1>0, <1>9, <2>1, <2>2
      DEF TypeOK, DropValues, DropKubeconfig, Goto, Steps, calls
  <1>10. CASE Return(c)
    <2>1. Release = Values \cup {NoRelease, Broken}
      BY DEF Release
    <2> QED
      BY <1>0, <1>10, <2>1
      DEF TypeOK, Return, Contract!Returns, NoCall, Contract!NoCall, Goto, Steps
  <1> QED
    BY <1>1, <1>2, <1>3, <1>4, <1>5, <1>6, <1>7, <1>8, <1>9, <1>10,
       Step(c) DEF Step

-----------------------------------------------------------------------------
(* A call does not disturb the others *)

Undisturbed(d) ==
    /\ step'[d] = step[d] /\ call'[d] = call[d] /\ result'[d] = result[d]
    /\ temp'[d] = temp[d] /\ kubeconfig'[d] = kubeconfig[d]
    /\ values'[d] = values[d] /\ found'[d] = found[d]
    /\ \A f \in Uses(d) : disk'[f] = disk[f]
    /\ d \in overtaken => d \in overtaken'
    /\ d = Worker => \A n \in Names :
          /\ release[n] = NoRelease => release'[n] = NoRelease
          /\ /\ call[d].op = "upgrade" /\ call[d].name = n
             /\ release[n] # NoRelease /\ release'[n] = NoRelease
             => d \in overtaken'

\* What a call relies on stays as long as nobody disturbs it.
LEMMA UndisturbedShape ==
  ASSUME HelmInv, NEW d \in Callers, Undisturbed(d)
  PROVE  Shape(d)'
  <1>1. Shape(d)
    BY DEF HelmInv
  <1>2. kubeconfig[d] # NoFile => disk'[kubeconfig[d]] = disk[kubeconfig[d]]
    BY DEF Undisturbed, Uses
  <1>3. values[d] # NoFile => disk'[values[d]] = disk[values[d]]
    BY DEF Undisturbed, Uses
  <1>4. GivenValues(d)' = GivenValues(d)
    BY <1>3 DEF GivenValues, Undisturbed
  <1>5. step[d] = "act" => call[d] \in Contract!Request
    BY <1>1 DEF HelmInv, TypeOK, Shape
  <1>6. step[d] = "act" /\ call[d].op = "upgrade" =>
          d = Worker /\ call[d].name \in Names
    BY <1>1, <1>5 DEF Shape, Contract!Request
  <1> QED
    BY <1>1, <1>2, <1>4, <1>6
    DEF Shape, Undisturbed, NoCall, Contract!NoCall

\* Writing or removing one's own files, or creating a new one, leaves those of
\* the others alone.
LEMMA OwnFiles ==
  ASSUME HelmInv, NEW c \in Callers, NEW d \in Callers, c # d,
         NEW f, f \in Uses(c) \/ (f \in Files /\ disk[f] = NoFile),
         NEW contents, disk' = [disk EXCEPT ![f] = contents]
  PROVE  \A g \in Uses(d) : disk'[g] = disk[g]
  BY DEF HelmInv, FilesApart

LEMMA StepUndisturbed ==
  ASSUME HelmInv, NEW c \in Callers, Step(c), NEW d \in Callers, c # d
  PROVE  Undisturbed(d)
  <1>0. TypeOK /\ Shape(c)
    BY DEF HelmInv
  <1>a. temp[c] # NoFile => temp[c] \in Uses(c)
    BY DEF Uses
  <1>b. kubeconfig[c] # NoFile => kubeconfig[c] \in Uses(c)
    BY DEF Uses
  <1>c. values[c] # NoFile => values[c] \in Uses(c)
    BY DEF Uses
  <1>1. ASSUME NEW request \in Contract!Request, Call(c, request)
        PROVE  Undisturbed(d)
    BY <1>0, <1>1 DEF TypeOK, Call, Contract!Invoke, Goto, Undisturbed
  <1>2. CASE CreateKubeconfig(c) \/ CreateValues(c)
    <2>1. \A g \in Uses(d) : disk'[g] = disk[g]
      BY <1>2, OwnFiles
      DEF CreateKubeconfig, CreateValues, Create, CreateFails
    <2> QED
      BY <1>0, <1>2, <2>1
      DEF TypeOK, CreateKubeconfig, CreateValues, Create, CreateFails, Fail,
          Goto, calls, Undisturbed
  <1>3. CASE WriteKubeconfig(c) \/ WriteValues(c)
    <2>1. temp[c] \in Uses(c)
      BY <1>0, <1>3, <1>a DEF Shape, WriteKubeconfig, WriteValues
    <2>2. \A g \in Uses(d) : disk'[g] = disk[g]
      BY <1>3, <2>1, OwnFiles
      DEF WriteKubeconfig, WriteValues, WriteFails, CloseFails
    <2> QED
      BY <1>0, <1>3, <2>2
      DEF TypeOK, WriteKubeconfig, WriteValues, WriteFails, CloseFails, Fail,
          Goto, calls, Undisturbed
  <1>4. CASE CheckOptions(c)
    BY <1>0, <1>4 DEF TypeOK, CheckOptions, Fail, Goto, calls, Undisturbed
  <1>5. CASE HelmLooks(c)
    BY <1>0, <1>5 DEF TypeOK, HelmLooks, Goto, calls, Undisturbed
  <1>6. CASE HelmUpgrades(c)
    <2>1. d # Worker
      BY <1>0, <1>6 DEF Shape, HelmUpgrades
    <2> QED
      BY <1>0, <1>6, <2>1 DEF TypeOK, HelmUpgrades, Ends, Goto, Undisturbed
  <1>7. CASE HelmDeletes(c)
    <2>1. call[c] \in Contract!Request
      BY <1>0, <1>7 DEF TypeOK, Shape, HelmDeletes
    <2>2. call[c].name \in Names
      BY <2>1 DEF Contract!Request
    <2>3. \A n \in Names : release'[n] # release[n] => n = call[c].name
      BY <1>0, <1>7 DEF TypeOK, HelmDeletes, Ends
    <2>4. release'[call[c].name] = NoRelease
      BY <1>0, <1>7, <2>2 DEF TypeOK, HelmDeletes, Ends
    <2>5. overtaken' = Contract!Overtaken(c)
      BY <1>7 DEF HelmDeletes
    <2> QED
      BY <1>0, <1>7, <2>3, <2>4, <2>5
      DEF TypeOK, HelmDeletes, Contract!Overtaken, Ends, Goto, Undisturbed
  <1>8. CASE HelmFails(c)
    <2>1. call[c].op = "upgrade" => d # Worker
      BY <1>0 DEF Shape
    <2> QED
      BY <1>0, <1>8, <2>1 DEF TypeOK, HelmFails, Ends, Goto, Undisturbed
  <1>9. CASE DropValues(c) \/ DropKubeconfig(c)
    <2>1. \A g \in Uses(d) : disk'[g] = disk[g]
      BY <1>9, <1>b, <1>c, OwnFiles DEF DropValues, DropKubeconfig, Remove
    <2> QED
      BY <1>0, <1>9, <2>1
      DEF TypeOK, DropValues, DropKubeconfig, Remove, Goto, calls, Undisturbed
  <1>10. CASE Return(c)
    BY <1>0, <1>10
    DEF TypeOK, Return, Contract!Returns, Goto, Undisturbed
  <1> QED
    BY <1>1, <1>2, <1>3, <1>4, <1>5, <1>6, <1>7, <1>8, <1>9, <1>10,
       Step(c) DEF Step

-----------------------------------------------------------------------------
(* A call keeps its own shape *)

LEMMA StepShape ==
  ASSUME HelmInv, NEW c \in Callers, Step(c)
  PROVE  Shape(c)'
  <1> USE HelmAssumption DEF NoCall, Contract!NoCall
  <1>0. TypeOK /\ Shape(c)
    BY DEF HelmInv
  <1>1. ASSUME NEW request \in Contract!Request, Call(c, request)
        PROVE  Shape(c)'
    <2>1. request # NoCall
      BY DEF Contract!Request
    <2> QED
      BY <1>0, <1>1, <2>1
      DEF TypeOK, Shape, Call, Contract!Invoke, Goto, GivenValues
  <1>2. CASE CreateKubeconfig(c)
    <2>1. \A f \in Files : f # NoFile
      OBVIOUS
    <2> QED
      BY <1>0, <1>2, <2>1
      DEF TypeOK, Shape, CreateKubeconfig, Create, CreateFails, Fail, Goto, calls,
          GivenValues
  <1>3. CASE CreateValues(c)
    <2>1. \A f \in Files : f # NoFile
      OBVIOUS
    <2>2. disk[kubeconfig[c]] # NoFile /\ kubeconfig[c] # NoFile
      BY <1>0, <1>3 DEF Shape, CreateValues
    <2>3. kubeconfig[c] \in Files
      BY <1>0, <2>2 DEF TypeOK
    <2>4. disk'[kubeconfig[c]] = disk[kubeconfig[c]]
      BY <1>0, <1>3, <2>2, <2>3
      DEF TypeOK, CreateValues, Create, CreateFails
    <2> QED
      BY <1>0, <1>3, <2>1, <2>4
      DEF TypeOK, Shape, CreateValues, Create, CreateFails, Fail, Goto, calls,
          GivenValues
  <1>4. CASE WriteKubeconfig(c)
    <2>1. temp[c] \in Files /\ temp[c] # NoFile
      BY <1>0, <1>4 DEF TypeOK, Shape, WriteKubeconfig
    <2> QED
      BY <1>0, <1>4, <2>1
      DEF TypeOK, Shape, WriteKubeconfig, WriteFails, CloseFails, Fail, Goto,
          calls, GivenValues
  <1>5. CASE CheckOptions(c)
    BY <1>0, <1>5
    DEF TypeOK, Shape, CheckOptions, Fail, Goto, calls, GivenValues
  <1>6. CASE WriteValues(c)
    <2>1. temp[c] \in Files /\ temp[c] # NoFile
      BY <1>0, <1>6 DEF TypeOK, Shape, WriteValues
    <2>2. kubeconfig[c] # temp[c] /\ kubeconfig[c] \in Files
      BY <1>0, <1>6 DEF TypeOK, Shape, WriteValues, HelmInv, FilesApart
    <2>3. disk'[kubeconfig[c]] = disk[kubeconfig[c]]
      BY <1>0, <1>6, <2>1, <2>2
      DEF TypeOK, WriteValues, WriteFails, CloseFails
    <2> QED
      BY <1>0, <1>6, <2>1, <2>3
      DEF TypeOK, Shape, WriteValues, WriteFails, CloseFails, Fail, Goto, calls,
          GivenValues
  <1>7. CASE HelmLooks(c)
    BY <1>0, <1>7 DEF TypeOK, Shape, HelmLooks, Goto, calls, GivenValues
  <1>8. CASE HelmUpgrades(c) \/ HelmDeletes(c) \/ HelmFails(c)
    <2>1. \A output \in {"ok", "error", "refused", "not found"} :
            Exec(output) # "none"
      BY DEF Exec
    <2>4. PICK output \in {"ok", "error", "refused", "not found"}, rel \in Release :
            Ends(c, output, rel)
      <3>1. call[c] \in Contract!Request
        BY <1>0, <1>8 DEF TypeOK, Shape, HelmUpgrades, HelmDeletes, HelmFails
      <3>2. release[call[c].name] \in Release /\ {NoRelease, Broken} \subseteq Release
        BY <1>0, <3>1 DEF TypeOK, Contract!Request, Release
      <3>3. CASE HelmUpgrades(c)
        <4>1. GivenValues(c) \in Release
          BY <3>3, GivenType DEF HelmUpgrades, Release
        <4> QED BY <3>2, <3>3, <4>1 DEF HelmUpgrades
      <3>4. CASE HelmDeletes(c)
        BY <3>2, <3>4 DEF HelmDeletes
      <3>5. CASE HelmFails(c)
        BY <3>2, <3>5 DEF HelmFails
      <3> QED BY <1>8, <3>3, <3>4, <3>5
    <2>2. /\ step'[c] = "dropValues" /\ result'[c] # "none"
          /\ UNCHANGED <<call, disk, temp, kubeconfig, values, found>>
      BY <1>0, <2>1, <2>4 DEF TypeOK, Ends, Goto
    <2>3. step[c] = "act"
      BY <1>8 DEF HelmUpgrades, HelmDeletes, HelmFails
    <2> QED BY <1>0, <2>2, <2>3 DEF Shape
  <1>9. CASE DropValues(c)
    BY <1>0, <1>9 DEF TypeOK, Shape, DropValues, Goto, calls, GivenValues
  <1>10. CASE DropKubeconfig(c)
    BY <1>0, <1>10 DEF TypeOK, Shape, DropKubeconfig, Goto, calls, GivenValues
  <1>11. CASE Return(c)
    BY <1>0, <1>11
    DEF TypeOK, Shape, Return, Contract!Returns, Goto, GivenValues
  <1> QED
    BY <1>1, <1>2, <1>3, <1>4, <1>5, <1>6, <1>7, <1>8, <1>9, <1>10, <1>11,
       Step(c) DEF Step

-----------------------------------------------------------------------------
(* What a step does to the files *)

\* The files of a call after one of its steps: they exist, they were its own or
\* free, and a file that is neither its own nor given up is not its doing.
OwnStep(c) ==
    /\ \A f \in Uses(c)' :
          disk'[f] # NoFile /\ (f \in Uses(c) \/ disk[f] = NoFile)
    /\ kubeconfig'[c] # NoFile =>
          kubeconfig'[c] # temp'[c] /\ kubeconfig'[c] # values'[c]
    /\ \A f \in Files : disk'[f] # NoFile =>
          \/ f \in lost' \cup Uses(c)'
          \/ disk[f] # NoFile /\ f \notin Uses(c)
    /\ lost \subseteq lost'

\* A step that touches no file
LEMMA NoFileStep ==
  ASSUME HelmInv, NEW c \in Callers,
         UNCHANGED <<disk, temp, kubeconfig, values>>, lost \subseteq lost'
  PROVE  OwnStep(c)
  BY DEF HelmInv, FilesApart, NothingLeftBehind, OwnStep, Uses

\* The files of a call are created, kept and removed as OwnStep says.
LEMMA StepFiles ==
  ASSUME HelmInv, NEW c \in Callers, Step(c)
  PROVE  OwnStep(c)
  <1> USE HelmAssumption
  <1>0. /\ TypeOK /\ Shape(c)
        /\ \A f \in Uses(c) : disk[f] # NoFile
        /\ kubeconfig[c] # NoFile =>
              kubeconfig[c] # temp[c] /\ kubeconfig[c] # values[c]
    BY DEF HelmInv, FilesApart
  <1>1. CASE \E request \in Contract!Request : Call(c, request)
    BY <1>1, NoFileStep DEF Call
  <1>2. CASE CreateKubeconfig(c) \/ CreateValues(c)
    <2>1. temp[c] = NoFile
      BY <1>0, <1>2 DEF Shape, CreateKubeconfig, CreateValues
    <2>2. CASE \E next \in {"writeKubeconfig", "writeValues"} : Create(c, next)
      <3>1. PICK f \in Files : /\ disk[f] = NoFile
                               /\ disk' = [disk EXCEPT ![f] = NoValues]
                               /\ temp' = [temp EXCEPT ![c] = f]
        BY <2>2 DEF Create
      <3>2. Uses(c)' = Uses(c) \cup {f}
        BY <1>0, <1>2, <2>1, <3>1
        DEF TypeOK, Uses, CreateKubeconfig, CreateValues
      <3>3. f \notin Uses(c) /\ NoValues # NoFile
        BY <1>0, <3>1
      <3>4. \A g \in Files : disk'[g] = IF g = f THEN NoValues ELSE disk[g]
        BY <1>0, <3>1 DEF TypeOK
      <3>5. Uses(c) \subseteq Files
        BY <1>0 DEF TypeOK, Uses
      <3>6. /\ kubeconfig' = kubeconfig /\ values' = values /\ lost' = lost
            /\ temp'[c] = f
        BY <1>0, <1>2, <3>1 DEF TypeOK, CreateKubeconfig, CreateValues
      <3>7. kubeconfig[c] # NoFile => kubeconfig[c] # f
        BY <3>3 DEF Uses
      <3> QED BY <1>0, <3>1, <3>2, <3>3, <3>4, <3>5, <3>6, <3>7 DEF OwnStep
    <2>3. CASE CreateFails(c)
      BY <1>2, <2>3, NoFileStep DEF CreateFails, CreateKubeconfig, CreateValues
    <2> QED BY <1>2, <2>2, <2>3 DEF CreateKubeconfig, CreateValues
  <1>3. CASE WriteKubeconfig(c) \/ WriteValues(c)
    <2>1. temp[c] \in Files /\ temp[c] # NoFile
      BY <1>0, <1>3 DEF TypeOK, Shape, WriteKubeconfig, WriteValues
    <2>2. /\ step[c] = "writeKubeconfig" => kubeconfig[c] = NoFile
          /\ values[c] = NoFile
          /\ step[c] = "writeValues" => call[c].values \in Values
      <3>1. call[c] \in Contract!Request
        BY <1>3 DEF HelmInv, TypeOK, Shape, WriteKubeconfig, WriteValues
      <3> QED
        BY <1>0, <1>3, <3>1
        DEF Shape, WriteKubeconfig, WriteValues, Contract!Request
    <2>3. temp'[c] = NoFile
      BY <1>0, <1>3 DEF TypeOK, WriteKubeconfig, WriteValues
    <2>4. \A f \in Files : f # temp[c] => disk'[f] = disk[f]
      BY <1>0, <1>3, <2>1
      DEF TypeOK, WriteKubeconfig, WriteValues, WriteFails, CloseFails
    <2>5. lost \subseteq lost'
      BY <1>3 DEF WriteKubeconfig, WriteValues, WriteFails, CloseFails
    <2>6. Uses(c) \subseteq Files
      BY <1>0 DEF TypeOK, Uses
    <2>7. \A contents \in Values \cup {Kubeconfig} :
            disk' = [disk EXCEPT ![temp[c]] = contents] =>
              disk'[temp[c]] # NoFile
      BY <1>0, <2>1 DEF TypeOK
    <2>8. CASE /\ step[c] = "writeKubeconfig"
               /\ disk' = [disk EXCEPT ![temp[c]] = Kubeconfig]
               /\ kubeconfig' = [kubeconfig EXCEPT ![c] = temp[c]]
               /\ UNCHANGED values
      <3>1. kubeconfig'[c] = temp[c] /\ values'[c] = NoFile
        BY <1>0, <2>2, <2>8 DEF TypeOK
      <3>2. Uses(c) = {temp[c]} /\ Uses(c)' = {temp[c]}
        BY <2>1, <2>2, <2>3, <2>8, <3>1 DEF Uses
      <3> QED
        BY <1>0, <2>1, <2>3, <2>4, <2>5, <2>7, <2>8, <3>1, <3>2 DEF OwnStep
    <2>9. CASE /\ step[c] = "writeValues"
               /\ disk' = [disk EXCEPT ![temp[c]] = call[c].values]
               /\ values' = [values EXCEPT ![c] = temp[c]]
               /\ UNCHANGED kubeconfig
      <3>1. values'[c] = temp[c] /\ kubeconfig'[c] = kubeconfig[c]
        BY <1>0, <2>9 DEF TypeOK
      <3>2. Uses(c)' = Uses(c)
        BY <2>1, <2>2, <2>3, <3>1 DEF Uses
      <3>3. disk'[temp[c]] # NoFile
        BY <2>2, <2>7, <2>9
      <3>4. temp[c] \in Uses(c)
        BY <2>1 DEF Uses
      <3> QED
        BY <1>0, <2>1, <2>3, <2>4, <2>5, <2>6, <3>1, <3>2, <3>3, <3>4
        DEF OwnStep
    <2>10. CASE /\ disk'[temp[c]] = NoFile \/ temp[c] \in lost'
                /\ UNCHANGED <<kubeconfig, values>>
      <3>1. Uses(c)' = Uses(c) \ {temp[c]}
        BY <1>0, <2>1, <2>2, <2>3, <2>10 DEF Uses
      <3> QED BY <1>0, <2>1, <2>3, <2>4, <2>5, <2>6, <2>10, <3>1 DEF OwnStep, Uses
    <2>11. \A contents : WriteFails(c, {"write"}) \/ WriteFails(c, {"write", "stat"})
                            \/ CloseFails(c, contents) =>
              disk'[temp[c]] = NoFile \/ temp[c] \in lost'
      BY <1>0, <2>1 DEF TypeOK, WriteFails, CloseFails
    <2>12. CASE WriteKubeconfig(c)
      BY <2>8, <2>10, <2>11, <2>12 DEF WriteKubeconfig
    <2>13. CASE WriteValues(c)
      BY <2>9, <2>10, <2>11, <2>13 DEF WriteValues
    <2> QED BY <1>3, <2>12, <2>13
  <1>4. CASE CheckOptions(c) \/ HelmLooks(c) \/ HelmUpgrades(c)
               \/ HelmDeletes(c) \/ HelmFails(c) \/ Return(c)
    BY <1>4, NoFileStep
    DEF CheckOptions, HelmLooks, HelmUpgrades, HelmDeletes, HelmFails, Ends,
        Return
  <1>5. CASE DropValues(c)
    <2>1. temp[c] = NoFile /\ values'[c] = NoFile
          /\ UNCHANGED <<temp, kubeconfig>>
      BY <1>0, <1>5 DEF TypeOK, Shape, DropValues
    <2>2. Uses(c)' = Uses(c) \ {values[c]} /\ Uses(c) \subseteq Files
      BY <1>0, <2>1 DEF TypeOK, Uses
    <2>3. /\ \A f \in Files : f # values[c] => disk'[f] = disk[f]
          /\ values[c] # NoFile =>
                disk'[values[c]] = NoFile \/ values[c] \in lost'
          /\ lost \subseteq lost'
      BY <1>0, <1>5 DEF TypeOK, DropValues, Remove
    <2> QED BY <1>0, <2>1, <2>2, <2>3 DEF OwnStep, Uses
  <1>6. CASE DropKubeconfig(c)
    <2>1. temp[c] = NoFile /\ kubeconfig'[c] = NoFile /\ values[c] = NoFile
          /\ UNCHANGED <<temp, values>>
      BY <1>0, <1>6 DEF TypeOK, Shape, DropKubeconfig
    <2>2. Uses(c)' = Uses(c) \ {kubeconfig[c]} /\ Uses(c) \subseteq Files
      BY <1>0, <2>1 DEF TypeOK, Uses
    <2>3. /\ \A f \in Files : f # kubeconfig[c] => disk'[f] = disk[f]
          /\ kubeconfig[c] # NoFile =>
                disk'[kubeconfig[c]] = NoFile \/ kubeconfig[c] \in lost'
          /\ lost \subseteq lost'
      BY <1>0, <1>6 DEF TypeOK, DropKubeconfig, Remove
    <2> QED BY <1>0, <2>1, <2>2, <2>3 DEF OwnStep, Uses
  <1> QED
    BY <1>1, <1>2, <1>3, <1>4, <1>5, <1>6, Step(c) DEF Step

-----------------------------------------------------------------------------
(* The invariant *)

\* The files of different calls stay apart, and none is left behind.
LEMMA FilesStep ==
  ASSUME HelmInv, NEW c \in Callers, Step(c)
  PROVE  FilesApart' /\ NothingLeftBehind'
  <1>1. OwnStep(c)
    BY StepFiles
  <1>2. \A d \in Callers : d # c =>
          Uses(d)' = Uses(d) /\ \A f \in Uses(d) : disk'[f] = disk[f]
    BY StepUndisturbed DEF Undisturbed, Uses
  <1>3. \A d \in Callers : d # c =>
          /\ temp'[d] = temp[d] /\ kubeconfig'[d] = kubeconfig[d]
          /\ values'[d] = values[d]
    BY StepUndisturbed DEF Undisturbed
  <1>4. \A d \in Callers : Shape(d)'
    BY StepShape, StepUndisturbed, UndisturbedShape
  <1>5. FilesApart /\ NothingLeftBehind
    BY DEF HelmInv
  <1>6. \A d \in Callers : \A f \in Uses(d)' : disk'[f] # NoFile
    BY <1>1, <1>2, <1>5 DEF OwnStep, FilesApart
  <1>7. \A d \in Callers : kubeconfig'[d] # NoFile =>
          kubeconfig'[d] # temp'[d] /\ kubeconfig'[d] # values'[d]
    BY <1>1, <1>3, <1>5 DEF OwnStep, FilesApart
  <1>8. \A d \in Callers : d # c => Uses(c)' \cap Uses(d)' = {}
    BY <1>1, <1>2, <1>5 DEF OwnStep, FilesApart
  <1>9. \A d, e \in Callers : d # e => Uses(d)' \cap Uses(e)' = {}
    BY <1>2, <1>5, <1>8 DEF FilesApart
  <1>10. \A f \in Files : disk'[f] # NoFile =>
          f \in lost' \/ \E d \in Callers : f \in Uses(d)'
    BY <1>1, <1>2, <1>5 DEF OwnStep, NothingLeftBehind
  <1>11. \A d \in Callers : step'[d] = "idle" => Uses(d)' = {}
    BY <1>4 DEF Shape, Uses
  <1> QED
    BY <1>6, <1>7, <1>9, <1>10, <1>11 DEF FilesApart, NothingLeftBehind

\* NewHelmClient: nobody has called, and there is no file.
LEMMA HelmInit == Init => HelmInv
  <1> SUFFICES ASSUME Init PROVE HelmInv
    OBVIOUS
  <1> USE HelmAssumption
  <1>1. TypeOK
    BY TypeInit
  <1>2. \A c \in Callers :
          /\ step[c] = "idle" /\ call[c] = NoCall /\ result[c] = "none"
          /\ temp[c] = NoFile /\ kubeconfig[c] = NoFile /\ values[c] = NoFile
    BY DEF Init, Contract!Init, NoCall
  <1>3. NoCall.op # "upgrade"
    BY DEF NoCall, Contract!NoCall
  <1>4. \A c \in Callers : Uses(c) = {}
    BY <1>2 DEF Uses
  <1>5. \A c \in Callers : Shape(c)
    BY <1>2, <1>3 DEF Shape
  <1>6. \A f \in Files : disk[f] = NoFile
    BY DEF Init
  <1> QED
    BY <1>1, <1>2, <1>4, <1>5, <1>6 DEF HelmInv, FilesApart, NothingLeftBehind

\* Every step of the calls keeps the invariant.
LEMMA HelmStep == HelmInv /\ [Next]_vars => HelmInv'
  <1> SUFFICES ASSUME HelmInv, [Next]_vars PROVE HelmInv'
    OBVIOUS
  <1>1. ASSUME NEW c \in Callers, Step(c)
        PROVE  HelmInv'
    <2>1. \A d \in Callers : Shape(d)'
      BY <1>1, StepShape, StepUndisturbed, UndisturbedShape
    <2> QED BY <1>1, <2>1, TypeStep, FilesStep DEF HelmInv
  <1>2. CASE UNCHANGED vars
    <2>1. TypeOK'
      BY <1>2 DEF vars, calls, HelmInv, TypeOK
    <2>2. ASSUME NEW d \in Callers
          PROVE  Shape(d)'
      <3>1. Shape(d)
        BY DEF HelmInv
      <3>2. GivenValues(d)' = GivenValues(d)
        BY <1>2 DEF vars, GivenValues
      <3> QED BY <1>2, <3>1, <3>2 DEF vars, calls, Shape
    <2>3. \A d \in Callers : Uses(d)' = Uses(d)
      BY <1>2 DEF vars, Uses
    <2>4. FilesApart'
      BY <1>2, <2>3 DEF vars, HelmInv, FilesApart
    <2>5. NothingLeftBehind'
      BY <1>2, <2>3 DEF vars, HelmInv, NothingLeftBehind
    <2> QED BY <2>1, <2>2, <2>4, <2>5 DEF HelmInv
  <1> QED BY <1>1, <1>2 DEF Next

\* The invariant holds of every behaviour of the client, for any callers,
\* releases, values and file names and any number of failing steps.
THEOREM HelmInvariant == Spec => []HelmInv
  BY HelmInit, HelmStep, PTL DEF Spec

\* Every variable keeps its type, and a call returns only what Exec lets through.
THEOREM TypeCorrect == Spec => []TypeOK
  <1>1. HelmInv => TypeOK
    BY DEF HelmInv
  <1> QED BY <1>1, HelmInvariant, PTL

\* The temporary files of a call are there, with what it wrote, while its helm
\* process runs (writeKubeConfig, run): no other call writes or removes them.
THEOREM FilesAreKept == Spec => []FilesInUse
  <1>1. HelmInv => FilesInUse
    BY DEF HelmInv, Shape, FilesInUse
  <1> QED BY <1>1, HelmInvariant, PTL

\* Every path through Delete and Upgrade removes what it created, except a file
\* that could not be closed or removed.
THEOREM NothingIsLeft == Spec => []NothingLeftBehind
  <1>1. HelmInv => NothingLeftBehind
    BY DEF HelmInv
  <1> QED BY <1>1, HelmInvariant, PTL

-----------------------------------------------------------------------------
(* The client implements HelmReleases *)

\* The step of helm that decides the call is a step of the contract; the others
\* are not seen by it, but for the call and its return.
LEMMA StepImplements ==
  ASSUME HelmInv, NEW c \in Callers, Step(c)
  PROVE  [Contract!Next]_calls
  <1> USE HelmAssumption
  <1>0. TypeOK /\ Shape(c)
    BY DEF HelmInv
  <1>1. ASSUME NEW request \in Contract!Request, Call(c, request)
        PROVE  Contract!Next
    BY <1>1 DEF Call, Contract!Next
  <1>2. ASSUME Fail(c),
               step[c] \notin {"idle", "dropValues", "dropKubeconfig", "return"}
        PROVE  Contract!Next
    <2>1. call[c] # NoCall /\ result[c] = "none"
      BY <1>0, <1>2 DEF Shape
    <2>2. release' = [release EXCEPT ![call[c].name] = release[call[c].name]]
      BY <1>0, <1>2 DEF TypeOK, Fail
    <2>3. Contract!Fails(c)
      BY <1>2, <2>1, <2>2
      DEF Fail, Contract!Fails, Contract!Decide, NoCall
    <2> QED BY <2>3 DEF Contract!Next
  <1>3. CASE CreateKubeconfig(c) \/ CreateValues(c)
    BY <1>2, <1>3
    DEF CreateKubeconfig, CreateValues, Create, CreateFails
  <1>4. CASE WriteKubeconfig(c) \/ WriteValues(c)
    BY <1>2, <1>4 DEF WriteKubeconfig, WriteValues, calls
  <1>5. CASE CheckOptions(c)
    BY <1>2, <1>5 DEF CheckOptions
  <1>6. CASE HelmLooks(c) \/ DropValues(c) \/ DropKubeconfig(c)
    BY <1>6 DEF HelmLooks, DropValues, DropKubeconfig
  <1>7. \A output, rel :
          step[c] = "act" /\ Ends(c, output, rel) =>
            Contract!Decide(c, Exec(output), rel)
    BY <1>0 DEF Shape, Ends, Contract!Decide, NoCall
  <1>8. CASE HelmUpgrades(c)
    <2>1. GivenValues(c) = call[c].values
      BY <1>8, GivenType DEF HelmUpgrades
    <2>2. /\ found[c] = NoRelease => release[call[c].name] = NoRelease
          /\ found[c] # NoRelease =>
                release[call[c].name] # NoRelease \/ c \in overtaken
      BY <1>0, <1>8 DEF Shape, HelmUpgrades
    <2>3. \/ /\ release[call[c].name] # Broken
             /\ Contract!Decide(c, "ok", call[c].values)
          \/ /\ release[call[c].name] = Broken
             /\ Contract!Decide(c, "refused", Broken)
          \/ /\ release[call[c].name] = NoRelease /\ c \in overtaken
             /\ \E res \in {"ok", "refused"} :
                   Contract!Decide(c, res, NoRelease)
      BY <1>7, <1>8, <2>1, <2>2 DEF HelmUpgrades, Exec
    <2>4. Contract!Upgrades(c)
      BY <1>8, <2>3 DEF HelmUpgrades, Contract!Upgrades
    <2> QED BY <2>4 DEF Contract!Next
  <1>9. CASE HelmDeletes(c)
    <2>1. call[c].op = "delete"
      BY <1>9 DEF HelmDeletes
    <2>2. Contract!Deletes(c)
      BY <1>7, <1>9, <2>1 DEF HelmDeletes, Exec, Contract!Deletes
    <2> QED BY <2>2 DEF Contract!Next
  <1>10. CASE HelmFails(c)
    <2>1. Contract!Fails(c) \/ Contract!Upgrades(c)
      BY <1>7, <1>10
      DEF HelmFails, Exec, Contract!Fails, Contract!Upgrades
    <2> QED BY <2>1 DEF Contract!Next
  <1>11. CASE Return(c)
    BY <1>11 DEF Return, Contract!Next
  <1> QED
    BY <1>1, <1>3, <1>4, <1>5, <1>6, <1>8, <1>9, <1>10, <1>11, Step(c) DEF Step

\* Delete and Upgrade, with their files, processes and early returns, are calls
\* that take effect at one moment or fail: what ValidatorConfig takes them for.
THEOREM CallsAreAtomic == Spec => AtomicCalls
  <1>1. Init => Contract!Init
    BY DEF Init
  <1>2. HelmInv /\ [Next]_vars => [Contract!Next]_calls
    <2>1. CASE UNCHANGED vars
      BY <2>1 DEF vars
    <2> QED BY <2>1, StepImplements DEF Next
  <1> QED
    BY <1>1, <1>2, HelmInvariant, PTL DEF Spec, AtomicCalls, Contract!Spec, calls
=============================================================================
