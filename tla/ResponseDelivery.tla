-------------------------- MODULE ResponseDelivery --------------------------
(***************************************************************************)
(* One response on its way to the page: the generator of ResponseStream,   *)
(* the endpoint that frames its events and stores the turn, the connection *)
(* (a queue that may break), the controller of ResponseController, and the *)
(* part of runGeneration() in chat.js that reads the frames and settles    *)
(* what becomes of the answer.                                             *)
(*                                                                         *)
(* The endpoint is kept to one request here; ChatStream has the others.    *)
(***************************************************************************)
EXTENDS Integers, Sequences, SequencesExt

CONSTANTS MaxToolRounds, Indexes, Chunks, MaxChunks, MaxStreams  \* of ResponseStream

VARIABLES
  pc, builder, toolRound, calls, terminal, chunkCount, lastFinish, streams,
  uncounted, \* ResponseStream
  lastSequence, ctlTerminal, sawCanonical, started, messageId, requestId,   \* ResponseController
  open, currentToolId, buffer, scheduled, finalized, callbacks, shown,
  toolStarts, outcomes,
  srv,          \* the endpoint: "streaming", or "closed" when its response is over
  stored,       \* the turn is committed, with the text collected so far
  wire,         \* frames sent and not yet read
  page,         \* "reading", "leaving" (the loop is over), or what the user sees
  streamError,  \* where the page's streamError was set last
  aborted,      \* the user has pressed Stop
  saved         \* the text of the message the page keeps

generator  == <<pc, builder, toolRound, calls, terminal, chunkCount, lastFinish, streams,
               uncounted>>
controller == <<lastSequence, ctlTerminal, sawCanonical, started, messageId, requestId, open,
                currentToolId, buffer, scheduled, finalized, callbacks, shown, toolStarts, outcomes>>
endpoint   == <<srv, stored>>
reader     == <<page, streamError, aborted, saved>>
vars       == <<generator, controller, endpoint, wire, reader>>

Gen == INSTANCE ResponseStream
Ctl == INSTANCE ResponseController
         WITH terminal <- ctlTerminal, server <- "canonical", Identity <- {"m"}, Tool <- {},
              None <- "none", MaxSequence <- 0, MaxOutcomes <- 0

ASSUME DeliveryAssumption == Gen!ConstantsAssumption

Init == /\ Gen!Init /\ Ctl!Init
        /\ srv = "streaming" /\ stored = FALSE /\ wire = <<>>
        /\ page = "reading" /\ streamError = "none" /\ aborted = FALSE /\ saved = <<>>

-----------------------------------------------------------------------------
(* The endpoint. *)

Settled == {"saved", "partial", "stopped", "error"}

EventFrame(e)  == [kind |-> "event", type |-> e.type, sequence |-> e.sequence]
Legacy(kind)   == [kind |-> kind, type |-> kind, sequence |-> -1]

\* What the generator has yielded in this step; an error event is the last that
\* it yields.
Yielded == SubSeq(builder'.sent, Len(builder.sent) + 1, Len(builder'.sent))
Fails(events) == events # <<>> /\ events[Len(events)].type = "error"

\* An error event is followed by its legacy twin.
Framed(events) == [i \in DOMAIN events |-> EventFrame(events[i])]
                    \o (IF Fails(events) THEN <<Legacy("error")>> ELSE <<>>)

\* Frames for a page that has stopped reading are gone.
Send(frames) == wire' = IF page = "reading" THEN wire \o frames ELSE <<>>

\* Mutant of Relay: the error event does not end the response.
RelayUnclosed ==
  /\ srv = "streaming"
  /\ Gen!Generator
  /\ Send(Framed(Yielded))
  /\ UNCHANGED <<controller, endpoint, reader>>

\* What the generator yields is sent on, event by event; an error event is the
\* last the endpoint sends.
Relay ==
  /\ srv = "streaming"
  /\ Gen!Generator
  /\ Send(Framed(Yielded))
  /\ srv' = IF Fails(Yielded) THEN "closed" ELSE "streaming"
  /\ UNCHANGED <<controller, stored, reader>>

\* The generator has ended the response: the turn is committed, then [DONE].
Persist ==
  /\ srv = "streaming"
  /\ pc \in {"ended", "exhausted"}
  /\ stored' = TRUE /\ srv' = "closed"
  /\ Send(<<Legacy("done")>>)
  /\ UNCHANGED <<generator, controller, reader>>

\* Mutant of SaveFails: the failure is logged only.
SaveFailsSilently ==
  /\ srv = "streaming"
  /\ pc \in {"ended", "exhausted", "raised"}
  /\ srv' = "closed"
  /\ UNCHANGED <<generator, controller, stored, wire, reader>>

\* The generator has raised, or the commit fails: a second builder reports it
\* under the same message id.
SaveFails ==
  /\ srv = "streaming"
  /\ pc \in {"ended", "exhausted", "raised"}
  /\ srv' = "closed"
  /\ Send(<<[kind |-> "event", type |-> "message_start", sequence |-> 0],
            [kind |-> "event", type |-> "error", sequence |-> 1], Legacy("error")>>)
  /\ UNCHANGED <<generator, controller, stored, reader>>

\* The server finds out that the page has gone.
Disconnect ==
  /\ srv = "streaming" /\ page # "reading"
  /\ srv' = "closed" /\ wire' = <<>>
  /\ UNCHANGED <<generator, controller, stored, reader>>

-----------------------------------------------------------------------------
(* The page. *)

\* The canonical event as the controller sees it: the backend gives tools a
\* tool_call_id and no tool_id, and tool_input_delta has no content.
Seen(f) ==
  [type     |-> IF f.type \in {"tool_result", "citation", "artifact", "usage"} THEN "other" ELSE f.type,
   sequence |-> f.sequence, message |-> "m", request |-> "none", tool |-> "none",
   empty    |-> f.type = "tool_input_delta"]

ReadEvent ==
  /\ page = "reading" /\ wire # <<>> /\ Head(wire).kind = "event"
  /\ Ctl!HandleCanonical(Seen(Head(wire)))
  /\ streamError' = IF outcomes' # outcomes /\ Last(outcomes') = "error" THEN "event"
                    ELSE streamError
  /\ wire' = Tail(wire)
  /\ UNCHANGED <<generator, endpoint, page, aborted, saved>>

ReadDone ==
  /\ page = "reading" /\ wire # <<>> /\ Head(wire).kind = "done"
  /\ Ctl!LegacyDone
  /\ wire' = Tail(wire)
  /\ UNCHANGED <<generator, endpoint, reader>>

\* Mutant of ReadError: the legacy frame is skipped.
ReadErrorDropped ==
  /\ page = "reading" /\ wire # <<>> /\ Head(wire).kind = "error"
  /\ wire' = Tail(wire)
  /\ UNCHANGED <<generator, controller, endpoint, reader>>

\* A legacy error frame never reaches the controller.
ReadError ==
  /\ page = "reading" /\ wire # <<>> /\ Head(wire).kind = "error"
  /\ streamError' = "legacy"
  /\ wire' = Tail(wire)
  /\ UNCHANGED <<generator, controller, endpoint, page, aborted, saved>>

\* The stream has been read to its end.
StreamOver ==
  /\ page = "reading" /\ wire = <<>> /\ srv = "closed"
  /\ page' = "leaving"
  /\ streamError' = IF sawCanonical /\ ~ctlTerminal THEN "cut" ELSE streamError
  /\ UNCHANGED <<generator, controller, endpoint, wire, aborted, saved>>

\* The connection breaks or the server stops: what was under way is lost.
ConnectionLost ==
  /\ page = "reading"
  /\ page' = "leaving" /\ streamError' = "network" /\ wire' = <<>>
  /\ UNCHANGED <<generator, controller, endpoint, aborted, saved>>

\* stopGeneration(): the reader throws an AbortError; the controller is not
\* flushed.
Stop ==
  /\ page = "reading"
  /\ page' = "leaving" /\ streamError' = "none" /\ aborted' = TRUE /\ wire' = <<>>
  /\ UNCHANGED <<generator, controller, endpoint, saved>>

\* What runGeneration() makes of it after the loop.
Settle ==
  /\ page = "leaving"
  /\ LET collected == shown["text"] IN
     \/ streamError # "none" /\ page' = "error" /\ saved' = <<>>
     \/ streamError = "none" /\ collected # <<>>
          /\ page' = (IF aborted THEN "partial" ELSE "saved") /\ saved' = collected
     \/ streamError = "none" /\ collected = <<>> /\ page' = "stopped" /\ saved' = <<>>
  /\ UNCHANGED <<generator, controller, endpoint, wire, streamError, aborted>>

Draw == /\ \E b \in Ctl!Block : Ctl!Callback(b)
        /\ UNCHANGED <<generator, endpoint, wire, reader>>

Endpoint == Relay \/ Persist \/ SaveFails
Reader   == ReadEvent \/ ReadDone \/ ReadError \/ StreamOver \/ Settle

Next == Endpoint \/ Disconnect \/ Reader \/ ConnectionLost \/ Stop \/ Draw

Spec == Init /\ [][Next]_vars

\* The server runs its generator on, and the page its loop; nobody has to press
\* Stop and no callback has to come.
FairSpec == Spec /\ WF_vars(Endpoint) /\ WF_vars(Reader)

-----------------------------------------------------------------------------
(* Properties. *)

\* The text deltas of a sequence of events or frames, by number.
TextOf(s) ==
  LET text[n \in 0..Len(s)] ==
        IF n = 0 THEN <<>>
        ELSE IF s[n].type = "text_delta" THEN Append(text[n - 1], s[n].sequence)
        ELSE text[n - 1]
  IN  text[Len(s)]

\* While the page reads, no text is lost, repeated or out of order between the
\* generator and the page: what is drawn, what is buffered and what is under
\* way are together what was sent.
TextConserved ==
  page = "reading" => shown["text"] \o buffer["text"] \o TextOf(wire) = TextOf(builder.sent)

\* A message the page keeps as a complete answer is the answer the server has
\* stored, to the last delta.
SavedIsStored == page = "saved" => stored /\ saved = TextOf(builder.sent)

\* Unless the user stopped it, a response that was not stored is shown as an
\* error, never as an answer or as nothing.
FailureIsShown == page \in Settled /\ ~stored /\ ~aborted => page = "error"

\* Every response is settled on the page.
EventuallySettled == <>(page \in Settled)

=============================================================================
