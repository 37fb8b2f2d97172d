--------------------------- MODULE MCProcessTree ---------------------------
(***************************************************************************)
(* ProcessTree for TLC: the PIDs other than the target's are               *)
(* interchangeable.                                                        *)
(***************************************************************************)
EXTENDS ProcessTree, TLC

Symmetry == Permutations(Pid \ {Target})
=============================================================================
