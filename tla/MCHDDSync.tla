------------------------------ MODULE MCHDDSync ------------------------------
(* Two files, in two sources (OnePerSource) or in one (OneSource).          *)
EXTENDS HDDSync, TLC

CONSTANTS s1, s2, p1, p2

OnePerSource == [p \in Path |-> IF p = p1 THEN s1 ELSE s2]
OneSource == [p \in Path |-> s1]

(* The files of one source are alike. *)
Files == Permutations(Path)
=============================================================================
