--------------------------- MODULE MCExperimentRun ---------------------------
(***************************************************************************)
(* TLC instances of ExperimentRun.  Workers are interchangeable, and so    *)
(* are the start requests: no property or fairness condition of the runs   *)
(* that use the symmetry names one of them.                                *)
(***************************************************************************)
EXTENDS ExperimentRun, TLC

Symmetry == Permutations(Workers) \cup Permutations(Starts)

=============================================================================
