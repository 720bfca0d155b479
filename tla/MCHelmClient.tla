---------------------------- MODULE MCHelmClient ----------------------------
EXTENDS HelmClient, TLC

CONSTANTS g1, g2, f1, f2, f3, f4, f5
FileNames == {f1, f2, f3, f4, f5}
Symmetry == Permutations(FileNames) \cup Permutations({g1, g2})
=============================================================================
