------------------------- MODULE ResponseController -------------------------
(***************************************************************************)
(* createResponseController() of response_controller.js: the one place     *)
(* through which the frames of a response reach the page.                  *)
(*                                                                         *)
(* A frame is accepted or ignored in one go.  The deltas of a block are    *)
(* buffered and drawn by an animation-frame callback, or at once by        *)
(* flush(), which clears the flag of a callback but does not cancel it.    *)
(* What a delta says is its sequence number, so that the text on the page  *)
(* shows which deltas it was made from.  The frames are the environment's: *)
(* any frame at any time from a server of the present protocol, tokens and *)
(* one terminal frame from an older one.                                   *)
(***************************************************************************)
EXTENDS Integers, Sequences, FiniteSets

CONSTANTS Identity,     \* message ids and request ids
          Tool,         \* tool ids
          None,         \* undefined and null
          MaxSequence,  \* bound: sequence numbers of events
          MaxOutcomes   \* bound: calls of the handlers messageEnd and error

ASSUME ControllerAssumption ==
  /\ None \notin Identity \cup Tool
  /\ MaxSequence \in Nat /\ MaxOutcomes \in Nat

VARIABLES
  lastSequence, terminal, sawCanonical, started,  \* as in the code
  messageId, requestId,
  open,          \* textOpen, reasoningOpen, toolOpen
  currentToolId,
  buffer,        \* textBuffer, reasoningBuffer, toolInputBuffer
  scheduled,     \* the ...BufferScheduled flags that are set
  finalized,
  callbacks,     \* animation-frame callbacks not yet run, by block
  shown,         \* what the delta handlers have been called with, by block
  toolStarts,    \* calls of the handler toolStart
  outcomes,      \* calls of messageEnd and error, in order
  server         \* which protocol the server speaks

progress == <<lastSequence, terminal, started>>
identity == <<messageId, requestId>>
drawing  == <<buffer, scheduled, finalized, callbacks, shown>>
tools    == <<currentToolId, toolStarts>>
vars == <<progress, sawCanonical, identity, open, tools, drawing, outcomes, server>>

Block == {"text", "reasoning", "tool"}

StartOf == [text |-> "text_start", reasoning |-> "reasoning_start", tool |-> "tool_start"]
DeltaOf == [text |-> "text_delta", reasoning |-> "reasoning_delta", tool |-> "tool_input_delta"]
EndOf   == [text |-> "text_end", reasoning |-> "reasoning_end", tool |-> "tool_end"]

\* "other": events that are passed on, or unknown, and change nothing here.
EventType == {StartOf[b] : b \in Block} \cup {DeltaOf[b] : b \in Block} \cup {EndOf[b] : b \in Block}
               \cup {"message_start", "message_end", "error", "other"}

\* metadata.tool_id matters to tool_start, an empty content to deltas.
Event == {e \in [type : EventType, sequence : 0..MaxSequence, message : Identity,
                 request : Identity \cup {None}, tool : Tool \cup {None}, empty : BOOLEAN] :
            /\ e.tool # None => e.type = "tool_start"
            /\ e.empty => e.type \in {DeltaOf[b] : b \in Block}}

Init == /\ lastSequence = -1
        /\ terminal = FALSE /\ sawCanonical = FALSE /\ started = FALSE /\ finalized = FALSE
        /\ messageId = None /\ requestId = None
        /\ open = {} /\ currentToolId = None
        /\ buffer = [b \in Block |-> <<>>] /\ scheduled = {}
        /\ callbacks = [b \in Block |-> 0] /\ shown = [b \in Block |-> <<>>]
        /\ toolStarts = 0 /\ outcomes = <<>>
        /\ server \in {"canonical", "legacy"}

-----------------------------------------------------------------------------
(* Drawing. *)

\* Tool input is only drawn while the id of the tool is known.
Drawable(b) == b = "tool" => currentToolId # None

\* Mutant of Draw: what is drawn stays in the buffer.
DrawKeepsBuffer(B) ==
  /\ shown' = [b \in Block |-> IF b \in B /\ Drawable(b) THEN shown[b] \o buffer[b] ELSE shown[b]]
  /\ UNCHANGED buffer

Draw(B) ==
  /\ shown'  = [b \in Block |-> IF b \in B /\ Drawable(b) THEN shown[b] \o buffer[b] ELSE shown[b]]
  /\ buffer' = [b \in Block |-> IF b \in B /\ Drawable(b) THEN <<>> ELSE buffer[b]]

Flush == Draw(Block) /\ scheduled' = {} /\ finalized' = TRUE /\ UNCHANGED callbacks

Callback(b) ==
  /\ callbacks[b] > 0
  /\ callbacks' = [callbacks EXCEPT ![b] = @ - 1]
  /\ scheduled' = scheduled \ {b}
  /\ Draw({b})
  /\ UNCHANGED <<progress, sawCanonical, identity, open, tools, finalized, outcomes, server>>

\* Mutant of Buffer: after a flush no callback is asked for.
BufferUnlessFinalized(b, n) ==
  /\ buffer' = [buffer EXCEPT ![b] = Append(@, n)]
  /\ scheduled' = IF finalized THEN scheduled ELSE scheduled \cup {b}
  /\ callbacks' = IF b \in scheduled \/ finalized THEN callbacks
                  ELSE [callbacks EXCEPT ![b] = @ + 1]
  /\ UNCHANGED <<finalized, shown>>

\* The buffer of a block grows, and a callback is asked for unless one is due.
Buffer(b, n) ==
  /\ buffer' = [buffer EXCEPT ![b] = Append(@, n)]
  /\ scheduled' = scheduled \cup {b}
  /\ callbacks' = IF b \in scheduled THEN callbacks ELSE [callbacks EXCEPT ![b] = @ + 1]
  /\ UNCHANGED <<finalized, shown>>

-----------------------------------------------------------------------------
(* Canonical events. *)

Matches(mine, theirs) == mine = None \/ theirs = None \/ mine = theirs
Learn(mine, theirs) == IF theirs = None THEN mine ELSE theirs

\* Mutant of Foreign: the terminal flag is not looked at.
ForeignUnlessEnded(e) ==
  \/ ~started /\ e.type # "message_start"
  \/ ~Matches(messageId, e.message)

\* Ignored before the event is looked at: terminal, not started, another message.
Foreign(e) ==
  \/ terminal /\ e.type # "error"
  \/ ~started /\ e.type # "message_start"
  \/ ~Matches(messageId, e.message)

Ignore(e) ==
  /\ \/ Foreign(e) /\ UNCHANGED identity
     \/ /\ ~Foreign(e) /\ ~Matches(requestId, e.request)
        /\ messageId' = Learn(messageId, e.message) /\ UNCHANGED requestId
     \/ /\ ~Foreign(e) /\ Matches(requestId, e.request) /\ e.sequence <= lastSequence
        /\ messageId' = Learn(messageId, e.message)
        /\ requestId' = Learn(requestId, e.request)
  /\ UNCHANGED <<progress, open, tools, drawing, outcomes>>

MessageStart(e) ==
  /\ e.type = "message_start"
  /\ started' = TRUE
  /\ UNCHANGED <<terminal, open, tools, drawing, outcomes>>

BlockStart(e) ==
  /\ \E b \in {"text", "reasoning"} : e.type = StartOf[b] /\ open' = open \cup {b}
  /\ UNCHANGED <<terminal, started, tools, drawing, outcomes>>

\* An open tool block gives way only to the same tool id.
ToolStart(e) ==
  /\ e.type = "tool_start"
  /\ \/ /\ "tool" \in open /\ (e.tool = None \/ currentToolId # e.tool)
        /\ UNCHANGED <<open, tools>>
     \/ /\ "tool" \notin open \/ (e.tool # None /\ currentToolId = e.tool)
        /\ open' = open \cup {"tool"} /\ currentToolId' = e.tool
        /\ toolStarts' = toolStarts + 1
  /\ UNCHANGED <<terminal, started, drawing, outcomes>>

Delta(e) ==
  /\ \E b \in Block : /\ e.type = DeltaOf[b]
                      /\ IF b \in open /\ ~e.empty THEN Buffer(b, e.sequence) ELSE UNCHANGED drawing
  /\ UNCHANGED <<terminal, started, open, tools, outcomes>>

\* Mutant of BlockEnd: the block is closed without a flush.
BlockEndUnflushed(e) ==
  /\ \E b \in Block :
       /\ e.type = EndOf[b]
       /\ open' = open \ {b}
       /\ currentToolId' = IF b = "tool" THEN None ELSE currentToolId
  /\ UNCHANGED <<terminal, started, toolStarts, drawing, outcomes>>

BlockEnd(e) ==
  /\ \E b \in Block :
       /\ e.type = EndOf[b]
       /\ open' = open \ {b}
       /\ currentToolId' = IF b = "tool" THEN None ELSE currentToolId
       /\ IF b \in open THEN Flush ELSE UNCHANGED drawing
  /\ UNCHANGED <<terminal, started, toolStarts, outcomes>>

\* An end with a block still open is reported as an error, without a flush.
MessageEnd(e) ==
  /\ e.type = "message_end"
  /\ terminal' = TRUE
  /\ \/ open # {} /\ outcomes' = Append(outcomes, "error") /\ UNCHANGED drawing
     \/ open = {} /\ outcomes' = Append(outcomes, "end") /\ Flush
  /\ UNCHANGED <<started, open, tools>>

Error(e) ==
  /\ e.type = "error"
  /\ terminal' = TRUE
  /\ outcomes' = Append(outcomes, "error")
  /\ Flush
  /\ UNCHANGED <<started, open, tools>>

Other(e) ==
  /\ e.type = "other"
  /\ UNCHANGED <<terminal, started, open, tools, drawing, outcomes>>

\* Mutant of Accept: an event may be repeated.
AcceptUnlessOlder(e) ==
  /\ ~Foreign(e) /\ Matches(requestId, e.request) /\ e.sequence >= lastSequence
  /\ messageId' = Learn(messageId, e.message)
  /\ requestId' = Learn(requestId, e.request)
  /\ lastSequence' = e.sequence
  /\ \/ MessageStart(e) \/ BlockStart(e) \/ ToolStart(e) \/ Delta(e)
     \/ BlockEnd(e) \/ MessageEnd(e) \/ Error(e) \/ Other(e)

\* The sequence number counts even if the event is then found out of place.
Accept(e) ==
  /\ ~Foreign(e) /\ Matches(requestId, e.request) /\ e.sequence > lastSequence
  /\ messageId' = Learn(messageId, e.message)
  /\ requestId' = Learn(requestId, e.request)
  /\ lastSequence' = e.sequence
  /\ \/ MessageStart(e) \/ BlockStart(e) \/ ToolStart(e) \/ Delta(e)
     \/ BlockEnd(e) \/ MessageEnd(e) \/ Error(e) \/ Other(e)

HandleCanonical(e) ==
  sawCanonical' = TRUE /\ (Ignore(e) \/ Accept(e)) /\ UNCHANGED server

\* A frame that is no JSON is an error; nothing is flushed.
Malformed ==
  /\ terminal' = TRUE
  /\ outcomes' = Append(outcomes, "error")
  /\ UNCHANGED <<lastSequence, started, sawCanonical, identity, open, tools, drawing, server>>

-----------------------------------------------------------------------------
(* Legacy frames.  Tokens and [DONE] are ignored beside canonical events. *)

LegacyToken(n) ==
  /\ shown' = IF sawCanonical THEN shown ELSE [shown EXCEPT !["text"] = Append(@, n)]
  /\ UNCHANGED <<progress, sawCanonical, identity, open, tools, buffer, scheduled,
                 finalized, callbacks, outcomes, server>>

LegacyDone ==
  /\ \/ sawCanonical /\ UNCHANGED <<terminal, drawing, outcomes>>
     \/ /\ ~sawCanonical
        /\ terminal' = TRUE /\ Flush /\ outcomes' = Append(outcomes, "end")
  /\ UNCHANGED <<lastSequence, started, sawCanonical, identity, open, tools, server>>

LegacyError ==
  /\ terminal' = TRUE /\ Flush /\ outcomes' = Append(outcomes, "error")
  /\ UNCHANGED <<lastSequence, started, sawCanonical, identity, open, tools, server>>

-----------------------------------------------------------------------------

\* A server of the present protocol may send anything, legacy frames only after
\* the first canonical one; an older one sends tokens and then ends.
Receive ==
  /\ Len(outcomes) < MaxOutcomes
  /\ \/ /\ server = "canonical"
        /\ \/ (\E e \in Event : HandleCanonical(e)) \/ Malformed
           \/ sawCanonical /\ (LegacyToken(0) \/ LegacyDone \/ LegacyError)
     \/ /\ server = "legacy" /\ ~terminal
        /\ \/ Len(shown["text"]) < MaxSequence /\ LegacyToken(0)
           \/ LegacyDone \/ LegacyError

Next == Receive \/ \E b \in Block : Callback(b)

Spec == Init /\ [][Next]_vars

-----------------------------------------------------------------------------
(* Properties. *)

\* The type of every variable of the controller.
TypeOK ==
  /\ lastSequence \in -1..MaxSequence
  /\ terminal \in BOOLEAN /\ sawCanonical \in BOOLEAN /\ started \in BOOLEAN
  /\ finalized \in BOOLEAN
  /\ messageId \in Identity \cup {None} /\ requestId \in Identity \cup {None}
  /\ open \subseteq Block /\ scheduled \subseteq Block
  /\ currentToolId \in Tool \cup {None}
  /\ buffer \in [Block -> Seq(Nat)] /\ shown \in [Block -> Seq(Nat)]
  /\ callbacks \in [Block -> Nat] /\ toolStarts \in Nat
  /\ outcomes \in Seq({"end", "error"})
  /\ server \in {"canonical", "legacy"}

\* What has been received of a block: drawn, or waiting in its buffer.
Received(b) == shown[b] \o buffer[b]

\* However frames are repeated, delayed or mixed with those of other messages,
\* and however callbacks fall between them: what is drawn of a block, followed
\* by what waits in its buffer, is made of increasing deltas, each once.
InOrder ==
  server = "canonical" =>
    \A b \in Block : \A i, j \in DOMAIN Received(b) : i < j => Received(b)[i] < Received(b)[j]

\* Text and reasoning of a block that has been closed are on the page, so that
\* a response that ends well leaves none of them behind in a buffer.
ClosedBlocksDrawn ==
  \A b \in {"text", "reasoning"} : buffer[b] # <<>> => b \in open

\* A buffer that holds anything has a callback coming for it, although flush()
\* clears the flags of callbacks that are still to run.
NothingStuck ==
  \A b \in Block : /\ b \in scheduled => callbacks[b] > 0
                   /\ b # "tool" /\ buffer[b] # <<>> => b \in scheduled

\* After messageEnd no handler is called with content and no second messageEnd
\* follows, not even by a callback asked for before.
NothingAfterEnd ==
  [][\A i \in DOMAIN outcomes : outcomes[i] = "end" =>
       /\ shown' = shown
       /\ \A j \in DOMAIN outcomes' : j # i => outcomes'[j] # "end"]_vars
=============================================================================
