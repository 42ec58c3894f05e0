--------------------------- MODULE MCExperiments ---------------------------
(* Instances of Experiments for TLC: two decisions about one task and one  *)
(* about another.                                                          *)
EXTENDS Experiments, TLC

CONSTANTS d1, d2, d3, t1, t2

About == (d1 :> t1) @@ (d2 :> t1) @@ (d3 :> t2)

\* The two decisions about one task are alike.
Symmetry == Permutations({d1, d2})
=============================================================================
