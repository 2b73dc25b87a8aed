--------------------------- MODULE ResponseStream ---------------------------
(***************************************************************************)
(* stream_response_events() of backend/providers/__init__.py: the async    *)
(* generator that turns the chunk streams of a provider into one canonical *)
(* response.  It opens a provider stream, forwards its chunks, and when    *)
(* the model has asked for tools runs them and opens another, for at most  *)
(* MaxToolRounds rounds of tools.                                          *)
(*                                                                         *)
(* The provider and the tools are the environment: a chunk, the end of a   *)
(* stream and an exception come in any order.  A chunk keeps only what the *)
(* generator branches on.                                                  *)
(***************************************************************************)
EXTENDS ResponseEvents, FiniteSets

CONSTANTS MaxToolRounds,   \* MAX_TOOL_ROUNDS (10 in the code)
          Indexes,         \* "index" values a provider gives its tool calls
          Chunks,          \* the chunks the provider may send
          MaxChunks,       \* bound: chunks in one provider stream
          MaxStreams       \* bound: provider streams opened for one response

\* What a chunk's finish_reason means to the loop: absent; TOOL; UNKNOWN,
\* which no branch handles; any of the five that end the response.
Finish == {"none", "tool", "unknown", "final"}

\* A fragment is the first piece of a tool call at an index ("named" when it
\* carries both an id and a function name, "anonymous" otherwise) or, for an
\* index already seen, more of its arguments, whatever it carries.
Fragments == UNION {[I -> {"named", "anonymous"}] : I \in SUBSET Indexes}

Chunk == [text : BOOLEAN, reasoning : BOOLEAN, calls : Fragments,
          extra : BOOLEAN, finish : Finish, usage : BOOLEAN]

ASSUME ConstantsAssumption ==
  /\ MaxToolRounds \in Nat \ {0}
  /\ MaxChunks \in Nat
  /\ MaxStreams \in Nat
  /\ Chunks \subseteq Chunk
  /\ IsFiniteSet(Indexes)

VARIABLES
  pc,            \* where the generator is, or how it returned
  builder,       \* the ResponseEventBuilder
  toolRound,     \* tool_round
  calls,         \* accumulated_tool_calls
  terminal,      \* received_terminal
  chunkCount,    \* chunks read from the current provider stream
  lastFinish,    \* history: the last finish_reason of the current stream
  streams,       \* history: provider streams opened so far
  uncounted      \* history: rounds in which no tool call had an id and a name

vars == <<pc, builder, toolRound, calls, terminal, chunkCount, lastFinish, streams, uncounted>>

Running  == {"init", "round", "streaming", "after", "tools"}
\* ended: message_end on the provider's own finish reason; exhausted:
\* message_end after the loop; failed: error; raised: an exception escaped.
Returned == {"ended", "exhausted", "failed", "raised"}

NoCalls == [i \in {} |-> "named"]

Named(c) == {i \in DOMAIN c : c[i] = "named"}

Init == /\ pc = "init"
        /\ builder = NewBuilder
        /\ toolRound = 0
        /\ calls = NoCalls
        /\ terminal = FALSE
        /\ chunkCount = 0
        /\ lastFinish = "none"
        /\ streams = 0
        /\ uncounted = 0

\* The type of the last event sent.
LastType(b) == b.sent[Len(b.sent)].type

\* The pair of statements that precedes every return.
CloseBlocks(b) == BlockEnd(BlockEnd(b, "text"), "reasoning")

-----------------------------------------------------------------------------
(* Before the loop. *)

\* Model, key and provider are resolved and message_start is yielded.
Prepare ==
  /\ pc = "init"
  /\ builder' = MessageStart(builder)
  /\ pc' = "round"
  /\ UNCHANGED <<toolRound, calls, terminal, chunkCount, lastFinish, streams, uncounted>>

\* ... or one of those lookups raises, before anything has been sent.
PrepareFails ==
  /\ pc = "init"
  /\ pc' = "raised"
  /\ UNCHANGED <<builder, toolRound, calls, terminal, chunkCount, lastFinish, streams, uncounted>>

-----------------------------------------------------------------------------
(* The loop. *)

\* Mutant of BeginRound: every round gets a builder of its own.
BeginRoundNewBuilder ==
  /\ pc = "round"
  /\ toolRound < MaxToolRounds
  /\ streams < MaxStreams
  /\ streams' = streams + 1
  /\ calls' = NoCalls
  /\ chunkCount' = 0
  /\ lastFinish' = "none"
  /\ pc' = "streaming"
  /\ builder' = MessageStart(NewBuilder)
  /\ UNCHANGED <<toolRound, terminal, uncounted>>

\* Another provider stream is opened.
BeginRound ==
  /\ pc = "round"
  /\ toolRound < MaxToolRounds
  /\ streams < MaxStreams
  /\ streams' = streams + 1
  /\ calls' = NoCalls
  /\ chunkCount' = 0
  /\ lastFinish' = "none"
  /\ pc' = "streaming"
  /\ UNCHANGED <<builder, toolRound, terminal, uncounted>>

\* The loop condition fails: the response ends with finish reason LENGTH.
RoundsExhausted ==
  /\ pc = "round"
  /\ toolRound >= MaxToolRounds
  /\ builder' = MessageEnd(CloseBlocks(builder))
  /\ pc' = "exhausted"
  /\ UNCHANGED <<toolRound, calls, terminal, chunkCount, lastFinish, streams, uncounted>>

\* The builder after the contents of a chunk have been forwarded, in the
\* order of the code: text, reasoning, then citations, artifacts and results.
Forward(b, c) ==
  LET b1 == IF c.text THEN BlockDelta(b, "text") ELSE b
      b2 == IF c.reasoning THEN BlockDelta(b1, "reasoning") ELSE b1
  IN  IF c.extra THEN Emit(b2, "citation", 1) ELSE b2

\* The builder after a chunk with a final finish reason.
Conclude(b, c) ==
  MessageEnd(IF c.usage THEN Emit(CloseBlocks(b), "usage", 1) ELSE CloseBlocks(b))

\* The first fragment at an index fixes the call's id and name for good.
Accumulate(fragments) ==
  [i \in DOMAIN calls \cup DOMAIN fragments |->
     IF i \in DOMAIN calls THEN calls[i] ELSE fragments[i]]

\* One chunk: its contents are forwarded, its tool-call fragments
\* accumulated, and a finish reason looked at.
ReadChunk(c) ==
  /\ pc = "streaming"
  /\ chunkCount < MaxChunks
  /\ chunkCount' = chunkCount + 1
  /\ calls' = Accumulate(c.calls)
  /\ terminal' = (terminal \/ c.finish # "none")
  /\ lastFinish' = IF c.finish = "none" THEN lastFinish ELSE c.finish
  /\ \/ /\ c.finish \in {"none", "unknown"}
        /\ builder' = Forward(builder, c)
        /\ pc' = "streaming"
     \/ /\ c.finish = "tool"
        /\ builder' = Forward(builder, c)
        /\ pc' = "after"
     \/ /\ c.finish = "final"
        /\ builder' = Conclude(Forward(builder, c), c)
        /\ pc' = "ended"
  /\ UNCHANGED <<toolRound, streams, uncounted>>

\* The provider stream is exhausted.
StreamEnds ==
  /\ pc = "streaming"
  /\ pc' = "after"
  /\ UNCHANGED <<builder, toolRound, calls, terminal, chunkCount, lastFinish, streams, uncounted>>

\* Mutant of StreamFails: the error is sent over open blocks.
StreamFailsUnclosed ==
  /\ pc = "streaming"
  /\ builder' = ErrorEnd(builder)
  /\ pc' = "failed"
  /\ UNCHANGED <<toolRound, calls, terminal, chunkCount, lastFinish, streams, uncounted>>

\* The provider, or the handling of a chunk, raises.
StreamFails ==
  /\ pc = "streaming"
  /\ builder' = ErrorEnd(CloseBlocks(builder))
  /\ pc' = "failed"
  /\ UNCHANGED <<toolRound, calls, terminal, chunkCount, lastFinish, streams, uncounted>>

-----------------------------------------------------------------------------
(* After a provider stream: tools, or the end. *)

Announce(b, n) ==
  Emit(Emit(Emit(b, "tool_start", n), "tool_input_delta", n), "tool_end", n)

\* No accumulated call has an id and a name: the loop continues, and the
\* round is not counted.
DropAnonymousCalls ==
  /\ pc = "after"
  /\ DOMAIN calls # {}
  /\ Named(calls) = {}
  /\ pc' = "round"
  /\ uncounted' = uncounted + 1
  /\ UNCHANGED <<builder, toolRound, calls, terminal, chunkCount, lastFinish, streams>>

\* The named calls are announced and handed to the executor.
StartTools ==
  /\ pc = "after"
  /\ Named(calls) # {}
  /\ builder' = Announce(builder, Cardinality(Named(calls)))
  /\ pc' = "tools"
  /\ UNCHANGED <<toolRound, calls, terminal, chunkCount, lastFinish, streams, uncounted>>

\* The arguments of a named call are JSON but no object: ToolCall rejects
\* them outside any try block, after the calls before it were announced.
BadArguments ==
  /\ pc = "after"
  /\ \E n \in 0..(Cardinality(Named(calls)) - 1) :
       builder' = IF n = 0 THEN builder ELSE Emit(builder, "tool_start", n)
  /\ pc' = "raised"
  /\ UNCHANGED <<toolRound, calls, terminal, chunkCount, lastFinish, streams, uncounted>>

\* Mutant of FinishTools: the round is not counted.
FinishToolsUncounted ==
  /\ pc = "tools"
  /\ builder' = Emit(builder, "tool_result", Cardinality(Named(calls)))
  /\ pc' = "round"
  /\ UNCHANGED <<toolRound, calls, terminal, chunkCount, lastFinish, streams, uncounted>>

\* execute_multiple() has returned one result per call.
FinishTools ==
  /\ pc = "tools"
  /\ builder' = Emit(builder, "tool_result", Cardinality(Named(calls)))
  /\ toolRound' = toolRound + 1
  /\ pc' = "round"
  /\ UNCHANGED <<calls, terminal, chunkCount, lastFinish, streams, uncounted>>

\* No tool call: the blocks are closed and received_terminal decides.
NoTools ==
  /\ pc = "after"
  /\ DOMAIN calls = {}
  /\ \/ /\ ~terminal
        /\ builder' = ErrorEnd(CloseBlocks(builder))
        /\ pc' = "failed"
     \/ /\ terminal
        /\ builder' = MessageEnd(CloseBlocks(builder))
        /\ pc' = "exhausted"
  /\ UNCHANGED <<toolRound, calls, terminal, chunkCount, lastFinish, streams, uncounted>>

-----------------------------------------------------------------------------
Generator ==
  \/ Prepare \/ PrepareFails
  \/ BeginRound \/ RoundsExhausted
  \/ \E c \in Chunks : ReadChunk(c)
  \/ StreamEnds \/ StreamFails
  \/ DropAnonymousCalls \/ StartTools \/ BadArguments \/ FinishTools
  \/ NoTools

Next == Generator

Spec == Init /\ [][Next]_vars

-----------------------------------------------------------------------------
(* Properties. *)

\* The type of every variable.
TypeOK ==
  /\ pc \in Running \cup Returned
  /\ builder \in Builder
  /\ toolRound \in 0..MaxToolRounds
  /\ calls \in Fragments
  /\ terminal \in BOOLEAN
  /\ chunkCount \in 0..MaxChunks
  /\ lastFinish \in Finish
  /\ streams \in 0..MaxStreams
  /\ uncounted \in Nat

\* However chunks, tool rounds and failures interleave, the events sent so
\* far form a prefix of a response in the sense of docs/response-protocol.md:
\* numbered without gaps, message_start first, nothing after a terminal
\* event, and text and reasoning blocks opened before their deltas and closed
\* before message_end or error.
WellFormedResponse ==
  /\ Contiguous(builder.sent)
  /\ StartsOnce(builder.sent)
  /\ EndsOnce(builder.sent)
  /\ Bracketed(builder.sent)

\* The builder's guards (no event after the terminal one, none before
\* message_start, no message_end over an open block) are never tripped by
\* the loop: the RuntimeErrors of ResponseEventBuilder are unreachable.
GuardsNeverTrip == ~builder.raised

\* The generator returns normally exactly when it has sent a terminal event,
\* and that event is "error" exactly on its failure paths.
ReturnsWithTerminal ==
  /\ pc \in {"ended", "exhausted", "failed"} <=> builder.terminal
  /\ builder.terminal =>
       (pc = "failed" <=> LastType(builder) = "error")

\* "Stream ended without terminal chunk - this is a stream error": a response
\* whose last provider stream broke off without a finish reason is not
\* passed off as a finished one, unless the rounds were used up.
TruncatedStreamIsError ==
  pc = "exhausted" => lastFinish # "none" \/ toolRound = MaxToolRounds

\* MAX_TOOL_ROUNDS bounds the requests one response makes to its provider, but
\* for those of rounds in which no tool call had an id and a name: they start
\* over uncounted, and nothing bounds them.  No other round is left out of the
\* count, whatever else the provider sends or leaves out.
ProviderStreamsBounded == streams <= MaxToolRounds + uncounted

\* The generator implements the abstract life cycle.
phaseOf ==
  IF builder.terminal
  THEN IF LastType(builder) = "error" THEN "failed" ELSE "ended"
  ELSE IF pc = "raised" THEN "broken"
  ELSE IF builder.started THEN "open" ELSE "idle"

Lifecycle == INSTANCE ResponseLifecycle
               WITH phase <- phaseOf, count <- builder.sequence

\* Seen from outside, the generator only ever starts, appends, finishes with
\* one terminal event, or breaks off: no step takes back or renumbers what
\* was sent, none revives a response that is over.
ImplementsLifecycle == Lifecycle!Spec
=============================================================================
