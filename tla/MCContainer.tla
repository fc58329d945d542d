----------------------------- MODULE MCContainer -----------------------------
(* Instances of Container for model checking: p and q need each other; b   *)
(* needs a, and x needs both.                                              *)
EXTENDS Container

CONSTANTS p, q, a, b, x

MCNeeds ==
  [s \in Services |->
    CASE s = p -> {q} [] s = q -> {p} [] s = a -> {} [] s = b -> {a} [] s = x -> {a, b}]
=============================================================================
