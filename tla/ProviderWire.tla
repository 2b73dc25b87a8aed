----------------------------- MODULE ProviderWire -----------------------------
(***************************************************************************)
(* The adapters of providers/: what each of them makes of the stream of    *)
(* its provider, and what the two readers there are make of that: the      *)
(* facade (stream_response_events()), which expects chunks, and a skill    *)
(* (skills/executor.py), which expects strings.  Neither of them asks for  *)
(* metadata; the third reader is a facade that does.                       *)
(*                                                                         *)
(* An adapter is a generator, so that a piece is parsed and read in one    *)
(* step, and whatever stops the reader stops the adapter.  Of a text only  *)
(* its kind and its place in the stream are kept.                          *)
(***************************************************************************)
EXTENDS Naturals, Sequences, SequencesExt

CONSTANTS Reader,     \* "facade", "skill", "typed"
          MaxPieces   \* bound: pieces of a stream

VARIABLES
  style,     \* the adapter: "compatible", "litellm", "nvidia", "ollama"
  reader,    \* who reads
  stream,    \* what became of the stream
  pieces,    \* how many pieces were sent
  sawTerminal, yieldedContent,  \* saw_terminal, yielded_content
  terminal,  \* received_terminal of the facade
  calls,     \* accumulated_tool_calls of the facade
  read,      \* collected text and reasoning, or the content of the skill
  sent,      \* history: the text and the reasoning that is to be passed on
  offered,   \* history: the tool calls the provider began
  cause      \* history: what an error came from

wvars == <<style, reader, stream, pieces, sawTerminal, yieldedContent, terminal,
           calls, read, sent, offered, cause>>

Style == {"compatible", "litellm", "nvidia", "ollama"}
Over  == {"answered", "length", "tools", "again", "error"}
FinishReason == {"none", "stop", "tool", "unknown"}

\* A piece of a tool call: the first has the name and the id of the call.
CallPiece == [call : {1, 2}, first : BOOLEAN, index : {0, 1, 2}]
CallPieces(s) ==
  CASE s = "nvidia" -> {<< >>, <<[call |-> 1, first |-> TRUE, index |-> 1]>>}
    [] s = "ollama" ->   \* whole calls, and perhaps no index
         {<< >>} \cup UNION {{<<[call |-> 1, first |-> TRUE, index |-> i]>>,
                              <<[call |-> 1, first |-> TRUE, index |-> i],
                                [call |-> 2, first |-> TRUE, index |-> 2 * i]>>} : i \in {0, 1}}
    [] OTHER -> {<< >>} \cup {<<p>> : p \in {q \in CallPiece : q.index = q.call}}

\* Ollama says that it is done with a reason, a count of tokens, or both.
Piece(s) ==
  {p \in [text : BOOLEAN, reasoning : BOOLEAN, calls : CallPieces(s), finish : FinishReason,
          done : BOOLEAN, counted : BOOLEAN] :
     /\ s # "ollama" => ~p.done /\ ~p.counted
     /\ s = "ollama" => ~p.reasoning /\ p.finish # "tool"
                          /\ p.done = (p.finish # "none" \/ p.counted)}

\* As the facade takes them from a chunk: the text first.
Kinds(p) == (IF p.text THEN <<"text">> ELSE << >>)
            \o (IF p.reasoning THEN <<"reasoning">> ELSE << >>)

\* What there is to pass on of a piece: NVIDIA's reasoning is not read, and the
\* strings of LiteLLM have the reasoning first.
Owed(p) ==
  CASE style = "nvidia" -> IF p.text THEN <<"text">> ELSE << >>
    [] style = "litellm" /\ reader # "typed" -> Reverse(Kinds(p))
    [] OTHER -> Kinds(p)

-----------------------------------------------------------------------------
(* What an adapter yields for a piece. *)

Chunk(kinds, cs, finish) == [typed |-> TRUE, kinds |-> kinds, calls |-> cs, finish |-> finish]
String(kind) == [typed |-> FALSE, kinds |-> <<kind>>, calls |-> << >>, finish |-> "none"]
Strings(kinds) == [i \in DOMAIN kinds |-> String(kinds[i])]

\* parse_litellm_stream_chunk(): the index of a tool call is left out.
ParseLiteLLM(p) ==
  IF Kinds(p) = << >> /\ p.calls = << >> /\ p.finish = "none" THEN << >>
  ELSE <<Chunk(Kinds(p), [i \in DOMAIN p.calls |-> [p.calls[i] EXCEPT !.index = 0]], p.finish)>>

\* Mutant of LiteLLM: without metadata the text alone is passed on.
LiteLLMTextOnly(p, metadata) ==
  IF metadata THEN ParseLiteLLM(p) ELSE IF p.text THEN <<String("text")>> ELSE << >>

\* Gemini, Anthropic and the fallback; the OpenAI-compatible ones always
\* yield chunks.
LiteLLM(p, metadata) == IF metadata THEN ParseLiteLLM(p) ELSE Strings(Reverse(Kinds(p)))

\* NVIDIA passes on neither tool calls nor reasoning.
Nvidia(p, metadata) ==
  LET kinds == IF p.text THEN <<"text">> ELSE << >>
  IN IF ~metadata THEN Strings(kinds)
     ELSE IF p.text \/ p.finish # "none" THEN <<Chunk(kinds, << >>, p.finish)>> ELSE << >>

OllamaFinish(p) ==
  CASE p.calls # << >> /\ ~p.text -> "tool"
    [] p.done /\ p.finish = "none" -> "stop"
    [] OTHER -> p.finish

Ollama(p) ==
  IF p.text \/ p.finish # "none" \/ p.counted \/ p.calls # << >>
  THEN <<Chunk(Kinds(p), p.calls, OllamaFinish(p))>> ELSE << >>

Yielded(p) ==
  CASE style = "compatible" -> ParseLiteLLM(p)
    [] style = "litellm" -> LiteLLM(p, reader = "typed")
    [] style = "nvidia" -> Nvidia(p, reader = "typed")
    [] style = "ollama" -> Ollama(p)

-----------------------------------------------------------------------------
(* What a reader does with what is yielded. *)

\* Mutant of Added: the id is that of the last piece that has one.
AddedLastId(acc, c) ==
  [i \in DOMAIN acc \cup {c.index} |->
     IF i # c.index THEN acc[i]
     ELSE LET was == IF i \in DOMAIN acc THEN acc[i] ELSE [id |-> 0, arguments |-> << >>]
          IN [id |-> IF c.first THEN c.call ELSE was.id, arguments |-> Append(was.arguments, c.call)]]

\* accumulated_tool_calls: by index; more of a call are more arguments.
Added(acc, c) ==
  IF c.index \in DOMAIN acc THEN [acc EXCEPT ![c.index].arguments = Append(@, c.call)]
  ELSE [i \in DOMAIN acc \cup {c.index} |->
          IF i = c.index THEN [id |-> IF c.first THEN c.call ELSE 0, arguments |-> <<c.call>>]
          ELSE acc[i]]

Accumulated(acc, cs) ==
  LET upTo[n \in 0..Len(cs)] == IF n = 0 THEN acc ELSE Added(upTo[n - 1], cs[n])
  IN upTo[Len(cs)]

\* After the stream: the calls that have an id, or else the finish there was.
Concluded(acc, ended) ==
  CASE \E i \in DOMAIN acc : acc[i].id # 0 -> "tools"
    [] DOMAIN acc # {} -> "again"
    [] ended -> "length"
    [] OTHER -> "error"

Reads(item) ==
  /\ read' = read \o item.kinds
  /\ calls' = Accumulated(calls, item.calls)
  /\ terminal' = (terminal \/ item.finish # "none")
  /\ stream' = CASE item.finish = "stop" -> "answered"
                 [] item.finish = "tool" -> Concluded(calls', TRUE)
                 [] OTHER -> "open"
  /\ UNCHANGED cause

Mistaken == stream' = "error" /\ cause' = "kind" /\ UNCHANGED <<read, calls, terminal>>

\* "chunk.text" of a string, and "content += token" of a chunk, raise.
Consume(items) ==
  CASE items = << >> -> UNCHANGED <<read, calls, terminal, stream, cause>>
    [] items # << >> /\ items[1].typed = (reader = "skill") -> Mistaken
    [] items # << >> /\ items[1].typed /\ reader # "skill" -> Reads(items[1])
    [] OTHER -> /\ read' = read \o [i \in DOMAIN items |-> items[i].kinds[1]]
                /\ UNCHANGED <<calls, terminal, stream, cause>>

-----------------------------------------------------------------------------

WInit ==
  /\ style \in Style /\ reader \in Reader
  /\ stream = "open" /\ pieces = 0
  /\ sawTerminal = FALSE /\ yieldedContent = FALSE /\ terminal = FALSE
  /\ calls = << >> /\ read = << >> /\ sent = << >> /\ offered = << >>
  /\ cause = "none"

\* A call is begun once, before the rest of it, and by its first piece.
Sendable(p) ==
  \A i \in DOMAIN p.calls : LET c == p.calls[i] IN
    IF c.first THEN Contains(offered, c.call) = FALSE ELSE Contains(offered, c.call)

\* The calls that pieces begin: all of those that come together, or none.
Begun(cs) == IF \A i \in DOMAIN cs : cs[i].first THEN [i \in DOMAIN cs |-> cs[i].call] ELSE << >>

Receive(p) ==
  /\ stream = "open" /\ pieces < MaxPieces /\ ~sawTerminal /\ Sendable(p)
  /\ pieces' = pieces + 1
  /\ sent' = sent \o Owed(p)
  /\ offered' = offered \o Begun(p.calls)
  /\ sawTerminal' = (style = "ollama" /\ p.done)
  /\ yieldedContent' = (yieldedContent \/ p.text \/ (style = "ollama" /\ p.calls # << >>))
  /\ Consume(Yielded(p))
  /\ UNCHANGED <<style, reader>>

\* "[DONE]" of NVIDIA: the loop is left.
ReceiveDone ==
  /\ stream = "open" /\ style = "nvidia" /\ ~sawTerminal
  /\ sawTerminal' = TRUE
  /\ UNCHANGED <<style, reader, stream, pieces, yieldedContent, terminal, calls, read,
                 sent, offered, cause>>

\* The connection ends.  NVIDIA and Ollama make sure that they have seen the
\* end of the stream and something visible; the others do not.
Complaint ==
  \/ ~sawTerminal /\ (style = "ollama" \/ (style = "nvidia" /\ reader = "typed"))
  \/ ~yieldedContent /\ style \in {"ollama", "nvidia"}

Ends ==
  /\ stream = "open"
  /\ stream' = CASE Complaint -> "error"
                 [] ~Complaint /\ reader = "skill" -> IF read = << >> THEN "error" ELSE "answered"
                 [] OTHER -> Concluded(calls, terminal)
  /\ cause' = IF stream' = "error" THEN (IF Complaint THEN "adapter" ELSE "reader") ELSE cause
  /\ UNCHANGED <<style, reader, pieces, sawTerminal, yieldedContent, terminal, calls, read,
                 sent, offered>>

\* An HTTP error, an error in the stream, a piece that is malformed.
Breaks ==
  /\ stream = "open" /\ stream' = "error" /\ cause' = "wire"
  /\ UNCHANGED <<style, reader, pieces, sawTerminal, yieldedContent, terminal, calls, read,
                 sent, offered>>

WNext == (\E p \in Piece(style) : Receive(p)) \/ ReceiveDone \/ Ends \/ Breaks

WSpec == WInit /\ [][WNext]_wvars

-----------------------------------------------------------------------------
(* Properties. *)

\* Whatever pieces the text comes in, with or without a tool call or a finish
\* reason next to it, a reader that is not stopped by an error has all of it
\* once, piece after piece, text before reasoning where both came in one chunk
\* and after it where they came as strings; one that is stopped has a beginning.
NothingLost ==
  IF stream = "error" THEN IsPrefix(read, sent) ELSE read = sent

\* A tool call is run with the id of a call the provider began, no call twice,
\* and with arguments of other calls only where the index was lost on the way
\* (parse_litellm_stream_chunk(), or Ollama's calls without one).
CallsAreOwn ==
  stream = "tools" =>
    /\ \A i, j \in DOMAIN calls : i # j => calls[i].id # calls[j].id \/ calls[i].id = 0
    /\ \A i \in DOMAIN calls : i # 0 => \A k \in DOMAIN calls[i].arguments :
         calls[i].arguments[k] = calls[i].id
    /\ 0 \in DOMAIN calls => calls[0].id = calls[0].arguments[1] /\ calls[0].id = offered[1]

\* docs/response-protocol.md:168, "application transport uses the typed path":
\* the facade never gets anything but chunks.
TypedPath == reader = "facade" => cause # "kind"
=============================================================================
