--------------------------- MODULE MCHdmaTransfer ---------------------------
(* Instances of HdmaTransfer for TLC: every caller has a descriptor area of *)
(* its own, or all callers share one.                                       *)
EXTENDS HdmaTransfer, TLC

OwnArea == [c \in Callers |-> c]
SharedArea == [c \in Callers |-> "shared"]
OneArea == {"shared"}
CallerSymmetry == Permutations(Callers)
=============================================================================
