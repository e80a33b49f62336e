---------------------------- MODULE MCCollection ----------------------------
(* Collection for TLC: worker objects and runs are interchangeable.        *)
EXTENDS Collection, TLC

Symmetry == Permutations(Workers) \union Permutations(Runs)
=============================================================================
