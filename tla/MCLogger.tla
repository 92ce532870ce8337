------------------------------ MODULE MCLogger ------------------------------
(* Logger with the smallest ring its definition allows. *)
EXTENDS Logger, TLC

Symmetry == Permutations(Writer)
=============================================================================
