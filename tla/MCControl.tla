------------------------------ MODULE MCControl ------------------------------
(* A small instance of the modes and the front panel.                       *)
EXTENDS Control, FiniteSets

CONSTANT MAX_ODD      \* bound: the odd things met from one boot to the next

(* States with more are checked, but not what follows them: one more of     *)
(* these only excuses more.                                                 *)
FewOdd == Cardinality(odd) <= MAX_ODD
=============================================================================
