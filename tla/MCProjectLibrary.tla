-------------------------- MODULE MCProjectLibrary --------------------------
(* Small instances of ProjectLibrary for TLC. *)
EXTENDS ProjectLibraryProps, TLC

CONSTANTS p1, p2, old, new

NoUpgrade == <<>>
UpgradeOld == old :> new
Symmetry == Permutations(Projects)
=============================================================================
