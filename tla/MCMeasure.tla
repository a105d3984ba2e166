------------------------------ MODULE MCMeasure ------------------------------
(***************************************************************************)
(* Measure for TLC: Adds differ in nothing but their names.                *)
(***************************************************************************)
EXTENDS Measure, TLC

AddsSymmetry == Permutations(Adds)
=============================================================================
