---------------------------- MODULE MCDesignWork ----------------------------
(* DesignWork for TLC: slots for tasks are interchangeable.                *)
EXTENDS DesignWork, TLC

Symmetry == Permutations(Tasks)
=============================================================================
