------------------------- MODULE MCResponseDelivery -------------------------
(* Instances of ResponseDelivery for TLC. *)
EXTENDS ResponseDelivery

Plain == [text |-> FALSE, reasoning |-> FALSE, calls |-> [i \in {} |-> "named"], extra |-> FALSE,
          finish |-> "none", usage |-> FALSE]

\* Text and reasoning; one or two tools at once; an end with and without text.
MCChunks ==
  {[Plain EXCEPT !.text = TRUE], [Plain EXCEPT !.reasoning = TRUE],
   [Plain EXCEPT !.finish = "final"], [Plain EXCEPT !.text = TRUE, !.finish = "final"],
   [Plain EXCEPT !.calls = [i \in Indexes |-> "named"], !.finish = "tool"]}
=============================================================================
