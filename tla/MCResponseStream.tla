-------------------------- MODULE MCResponseStream --------------------------
(* Instances of ResponseStream for TLC. *)
EXTENDS ResponseStream

\* Contents in every combination; the finish reasons and tool calls (one, or
\* two of which the first is anonymous) with and without text.
MCChunks ==
  {c \in Chunk : /\ c.calls # NoCalls => /\ ~c.reasoning /\ ~c.text
                                         /\ 0 \in DOMAIN c.calls
                                         /\ c.finish \in {"none", "tool"}
                                         /\ 1 \in DOMAIN c.calls => c.calls[1] = "named"
                 /\ c.usage => c.finish = "final"
                 /\ c.extra => ~c.text /\ ~c.reasoning /\ c.finish = "none"
                                /\ c.calls = NoCalls
                 /\ c.finish # "none" => ~c.reasoning}

\* Providers that give every call an id and a name.
NamedChunks == {c \in MCChunks : \A i \in DOMAIN c.calls : c.calls[i] = "named"}
=============================================================================
