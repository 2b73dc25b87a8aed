------------------------ MODULE MCResponseController ------------------------
(* Instances of ResponseController for TLC. *)
EXTENDS ResponseController, TLC

\* Message ids, and so request ids, are interchangeable.
Symmetry == Permutations(Identity)
=============================================================================
