------------------------------ MODULE MCSSDSync ------------------------------
(* Two sources: one with two files, one with one.                           *)
EXTENDS SSDSync

CONSTANTS s1, s2, p1, p2, p3

SourceOfFile == [p \in Path |-> IF p = p3 THEN s2 ELSE s1]
=============================================================================
