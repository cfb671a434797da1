------------------------------ MODULE MCEngine ------------------------------
(***************************************************************************)
(* Bounds of the runs of Engine: one signal of each kind that matters, one  *)
(* or two files.                                                            *)
(***************************************************************************)
EXTENDS Engine, TLC

CONSTANTS f1, f2, usr1, usr2, term

OneFile == {f1}
TwoFiles == {f1, f2}
MCCounted == {usr1}
NoSignals == {}
MCEnding == {term}
FileSymmetry == Permutations(TwoFiles)
=============================================================================
