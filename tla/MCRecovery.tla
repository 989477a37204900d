----------------------------- MODULE MCRecovery -----------------------------
(* Two files, in two sources (OnePerSource) or in one (OneSource).          *)
EXTENDS Recovery

CONSTANTS s1, s2, p1, p2

OnePerSource == [p \in Path |-> IF p = p1 THEN s1 ELSE s2]
OneSource == [p \in Path |-> s1]

(* Nothing is claimed of what follows the loss of an ID. *)
IndexKept == ~indexLost

(* Bound: a file is modified or removed, not both. *)
OneEdit == \A p \in Path : newest[p] > 1 => src[p] # Absent
=============================================================================
