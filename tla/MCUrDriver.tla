------------------------------ MODULE MCUrDriver ------------------------------
(***************************************************************************)
(* Small instances of UrDriver for TLC.                                    *)
(***************************************************************************)
EXTENDS UrDriver, TLC

AllTrajectories == [g \in Goals |-> "trajectory"]

\* One goal of each resumable and unresumable kind.
Mixed == [g \in Goals |-> IF g = CHOOSE h \in Goals : TRUE THEN "relative" ELSE "trajectory"]

\* Requests differ only by name when they are of one kind.
GoalSymmetry == Permutations(Goals)
==============================================================================
