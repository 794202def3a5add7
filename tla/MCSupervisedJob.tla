--------------------------- MODULE MCSupervisedJob ---------------------------
(* SupervisedJob for TLC.                                                    *)
EXTENDS JobProperties, TLC

Symmetric == Permutations(Managers)
=============================================================================
