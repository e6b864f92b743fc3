----------------------------- MODULE MCAnalysis ----------------------------
(* Overrides of one column, of two, and of all.                              *)
EXTENDS Analysis, TLC

CONSTANTS x, y

MCOverrides ==
    UNION {[C -> {x, y}] : C \in {{"root_cause"}, {"mitre_technique_id", "severity"}}}
        \cup {[c \in Columns |-> x]}

Symmetry == Permutations(Requests)
=============================================================================
