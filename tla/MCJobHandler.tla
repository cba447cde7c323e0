---------------------------- MODULE MCJobHandler ------------------------------
(***************************************************************************)
(* JobHandler on small instances.                                          *)
(***************************************************************************)
EXTENDS JobHandler, TLC

(* Verifiers are interchangeable, and so are texts and layouts: they are   *)
(* only ever compared with one another.                                    *)
Symmetry ==
  Permutations(Verifiers) \union Permutations(Texts) \union Permutations(Layouts)
===============================================================================
