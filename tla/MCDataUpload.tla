---------------------------- MODULE MCDataUpload ----------------------------
(***************************************************************************)
(* Instances of DataUpload for TLC: two tasks that share a group, one of   *)
(* them with two files, and a third that is refused.                       *)
(***************************************************************************)
EXTENDS DataUpload, TLC

CONSTANTS t1, t2, t3, f1, f2, f3, f4, n1, n2

TwoTasks   == t1 :> <<f1, f2>> @@ t2 :> <<f3>>
ThreeTasks == TwoTasks @@ t3 :> <<f1, f4>>

(* createPackage rewrites the names of f2 and f3 to the same one.          *)
SameName == f1 :> n1 @@ f2 :> n2 @@ f3 :> n2 @@ f4 :> n1

OneGroup == [f \in Files |-> CHOOSE g \in Groups : TRUE]
=============================================================================
