---------------------------- MODULE MCChatStream ----------------------------
(* Instances of ChatStream for TLC. *)
EXTENDS ChatStream, TLC

\* Requests are interchangeable, and so are chat ids.
Symmetry == Permutations(Request) \cup Permutations(Chat)
=============================================================================
