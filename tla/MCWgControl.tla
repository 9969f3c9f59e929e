----------------------------- MODULE MCWgControl -----------------------------
(* Instances of WgControl for TLC. *)
EXTENDS WgControl, TLC

\* Requests differ only by name.
Symmetry == Permutations(Requests)

=============================================================================
