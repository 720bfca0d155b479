\* The worker and two goroutines, one release, two values, one failing step.
SPECIFICATION Spec
CONSTANTS
  Worker = worker
  g1 = g1
  g2 = g2
  Goroutines = {g1, g2}
  Names = {"p1"}
  Values = {"", "v1"}
  NoValues = ""
  NoRelease = NoRelease
  Broken = Broken
  f1 = f1
  f2 = f2
  f3 = f3
  f4 = f4
  f5 = f5
  Files <- FileNames
  NoFile = NoFile
  Kubeconfig = Kubeconfig
  Preserve = FALSE
  Faults = {"create", "write", "close", "stat", "remove", "helm"}
  MaxFaults = 1
SYMMETRY Symmetry
INVARIANTS TypeOK FilesInUse NothingLeftBehind
PROPERTIES AtomicCalls
