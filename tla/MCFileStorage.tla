---------------------------- MODULE MCFileStorage ----------------------------
(***************************************************************************)
(* Instances of FileStorage for TLC: files that share a name, as those of  *)
(* one sensor of a repeating task on one day.  The second file to be saved *)
(* has a path of its own or, when its save races the other, the same.      *)
(***************************************************************************)
EXTENDS FileStorage, TLC

SharedName == [f \in Files |-> CHOOSE n \in Names : TRUE]

SlotSymmetry == Permutations(Movers) \union Permutations(Jobs)
=============================================================================
