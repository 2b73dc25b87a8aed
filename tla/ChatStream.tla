----------------------------- MODULE ChatStream -----------------------------
(***************************************************************************)
(* POST /chat/stream of backend/api.py, run by several requests at once    *)
(* against one database, together with DELETE /chats/{id}.                 *)
(*                                                                         *)
(* A request resolves or creates its chat in one transaction, streams the  *)
(* canonical events of stream_response_events() to its client, and then    *)
(* persists the turn in another.  Its client may go away at any time, the  *)
(* stream or the database may fail, another client may delete the chat,    *)
(* and the server may stop.  A transaction is one step: SQLite lets one    *)
(* writer commit at a time, and nothing is flushed before merge(chat).     *)
(***************************************************************************)
EXTENDS Integers, Sequences, FiniteSets

CONSTANTS Request,     \* calls of the endpoint
          Chat,        \* chat ids
          None,        \* payload.chat_id of a request for a new chat
          MaxDeltas    \* bound: text deltas in one response

ASSUME ChatStreamAssumption == None \notin Chat /\ MaxDeltas \in Nat

VARIABLES
  chats,      \* the chats table
  msgs,       \* the messages table
  used,       \* history: chat ids ever given out (they are not reused)
  pc,         \* where each request is
  chatOf,     \* chat.id of each request
  isNew,      \* "not payload.chat_id"
  regenerate, \* payload.regenerate
  sent        \* history: the canonical events yielded to each client

vars == <<chats, msgs, used, pc, chatOf, isNew, regenerate, sent>>

store   == <<chats, msgs, used>>
payload == <<chatOf, isNew, regenerate>>

Role    == {"user", "assistant"}
Message == [chat : Chat, role : Role, by : Request]

EventKind == {"message_start", "text_delta", "message_end", "error"}
Event     == [type : EventKind, sequence : Nat]

\* prepared: the chat is resolved, the generator not yet started;
\* streaming, persisting, committed: in the body of the generator;
\* erroring, raising, aborting: on the way to its clean-up after an error
\* event, an exception or a disconnect.
InBody    == {"streaming", "persisting", "committed"}
Unwinding == {"erroring", "raising", "aborting"}
InFlight  == {"prepared"} \cup InBody \cup Unwinding
\* done: [DONE] was yielded; closed: returned without it; rejected: 404;
\* killed: cut off before the generator, in its clean-up, or by a server stop.
Over      == {"done", "closed", "rejected", "killed"}

Init == /\ chats = {} /\ msgs = {} /\ used = {}
        /\ pc = [r \in Request |-> "idle"]
        /\ chatOf = [r \in Request |-> None]
        /\ isNew = [r \in Request |-> FALSE]
        /\ regenerate = [r \in Request |-> FALSE]
        /\ sent = [r \in Request |-> <<>>]

Goto(r, l) == pc' = [pc EXCEPT ![r] = l]

\* The event of type t from a builder that has produced n events.
Ev(t, n) == [type |-> t, sequence |-> n]

Yield(r, t) == sent' = [sent EXCEPT ![r] = Append(@, Ev(t, Len(@)))]

Kinds(r) == {sent[r][i].type : i \in DOMAIN sent[r]}

MsgsOf(c) == {m \in msgs : m.chat = c}
TurnOf(r) == {m \in msgs : m.by = r}

-----------------------------------------------------------------------------
(* Resolving the chat. *)

\* No chat_id: a chat is created and committed before anything is streamed.
CreateChat(r, c) ==
  /\ pc[r] = "idle"
  /\ c \notin used
  /\ chats' = chats \cup {c}
  /\ used' = used \cup {c}
  /\ chatOf' = [chatOf EXCEPT ![r] = c]
  /\ isNew' = [isNew EXCEPT ![r] = TRUE]
  /\ \E g \in BOOLEAN : regenerate' = [regenerate EXCEPT ![r] = g]
  /\ Goto(r, "prepared")
  /\ UNCHANGED <<msgs, sent>>

\* A chat_id that was given out before: the chat is found, or it is a 404.
ResolveChat(r, c) ==
  /\ pc[r] = "idle"
  /\ c \in used
  /\ chatOf' = [chatOf EXCEPT ![r] = c]
  /\ \E g \in BOOLEAN : regenerate' = [regenerate EXCEPT ![r] = g]
  /\ Goto(r, IF c \in chats THEN "prepared" ELSE "rejected")
  /\ UNCHANGED <<store, isNew, sent>>

\* An exception after the chat was committed, or a client that goes away
\* before the generator is started: there is no clean-up yet.
NeverStarts(r) ==
  /\ pc[r] = "prepared"
  /\ Goto(r, "killed")
  /\ UNCHANGED <<store, payload, sent>>

-----------------------------------------------------------------------------
(* The body of event_generator(). *)

\* The generator is started and yields the chat id.
StartStream(r) ==
  /\ pc[r] = "prepared"
  /\ Goto(r, "streaming")
  /\ UNCHANGED <<store, payload, sent>>

StreamStart(r) ==
  /\ pc[r] = "streaming"
  /\ sent[r] = <<>>
  /\ Yield(r, "message_start")
  /\ UNCHANGED <<store, pc, payload>>

StreamDelta(r) ==
  /\ pc[r] = "streaming"
  /\ sent[r] # <<>>
  /\ Cardinality({i \in DOMAIN sent[r] : sent[r][i].type = "text_delta"}) < MaxDeltas
  /\ Yield(r, "text_delta")
  /\ UNCHANGED <<store, pc, payload>>

StreamEnd(r) ==
  /\ pc[r] = "streaming"
  /\ sent[r] # <<>>
  /\ Goto(r, "persisting")
  /\ Yield(r, "message_end")
  /\ UNCHANGED <<store, payload>>

\* Mutant of StreamError: the generator returns without cleaning up.
StreamErrorReturns(r) ==
  /\ pc[r] = "streaming"
  /\ sent[r] # <<>>
  /\ Goto(r, "closed")
  /\ Yield(r, "error")
  /\ UNCHANGED <<store, payload>>

StreamError(r) ==
  /\ pc[r] = "streaming"
  /\ sent[r] # <<>>
  /\ Goto(r, "erroring")
  /\ Yield(r, "error")
  /\ UNCHANGED <<store, payload>>

\* Mutants of Persist: the answer goes to a chat that is gone; the question
\* is committed without the answer.
PersistWithoutChat(r) ==
  /\ pc[r] = "persisting"
  /\ msgs' = msgs \cup {[chat |-> chatOf[r], role |-> "assistant", by |-> r]}
  /\ Goto(r, "committed")
  /\ UNCHANGED <<chats, used, payload, sent>>

PersistQuestionOnly(r) ==
  /\ pc[r] = "persisting"
  /\ chatOf[r] \in chats
  /\ msgs' = msgs \cup {[chat |-> chatOf[r], role |-> "user", by |-> r]}
  /\ Goto(r, "committed")
  /\ UNCHANGED <<chats, used, payload, sent>>

\* The turn is committed: the question (unless it is being regenerated) and
\* the answer.  Their foreign key needs the chat to be there still.
Persist(r) ==
  /\ pc[r] = "persisting"
  /\ chatOf[r] \in chats
  /\ LET roles == IF regenerate[r] THEN {"assistant"} ELSE Role
     IN  msgs' = msgs \cup {[chat |-> chatOf[r], role |-> x, by |-> r] : x \in roles}
  /\ Goto(r, "committed")
  /\ UNCHANGED <<chats, used, payload, sent>>

\* [DONE] is yielded.
Finish(r) ==
  /\ pc[r] = "committed"
  /\ Goto(r, "done")
  /\ UNCHANGED <<store, payload, sent>>

\* Mutant of Fail: an exception of the transaction is not handled.
FailInStreamOnly(r) ==
  /\ pc[r] = "streaming"
  /\ Goto(r, "raising")
  /\ UNCHANGED <<store, payload, sent>>

\* An exception: from the stream, or from the transaction (for one, the
\* foreign key of a chat that was deleted while the answer was streamed).
Fail(r) ==
  /\ pc[r] \in {"streaming", "persisting"}
  /\ Goto(r, "raising")
  /\ UNCHANGED <<store, payload, sent>>

\* The client is gone: GeneratorExit or CancelledError, at whatever yield or
\* await the body has reached.
Disconnect(r) ==
  /\ pc[r] \in InBody
  /\ Goto(r, "aborting")
  /\ UNCHANGED <<store, payload, sent>>

\* Mutants of CleanUp: the chat is deleted although the request found it
\* there; the rollback is forgotten, and the pending turn committed.
CleanUpAnyChat(r) ==
  /\ pc[r] \in Unwinding
  /\ chats' = chats \ {chatOf[r]}
  /\ msgs' = msgs \ MsgsOf(chatOf[r])
  /\ sent' = IF pc[r] = "raising"
             THEN [sent EXCEPT ![r] = @ \o <<Ev("message_start", 0), Ev("error", 1)>>]
             ELSE sent
  /\ Goto(r, "closed")
  /\ UNCHANGED <<used, payload>>

CleanUpNoRollback(r) ==
  /\ pc[r] \in Unwinding
  /\ IF isNew[r]
     THEN /\ chats' = chats \ {chatOf[r]}
          /\ msgs' = msgs \ MsgsOf(chatOf[r])
     ELSE /\ chats' = chats
          /\ msgs' = IF chatOf[r] \in chats
                     THEN msgs \cup {[chat |-> chatOf[r], role |-> x, by |-> r] : x \in Role}
                     ELSE msgs
  /\ sent' = IF pc[r] = "raising"
             THEN [sent EXCEPT ![r] = @ \o <<Ev("message_start", 0), Ev("error", 1)>>]
             ELSE sent
  /\ Goto(r, "closed")
  /\ UNCHANGED <<used, payload>>

\* Rollback, then the chat is deleted if this request created it: the row and,
\* by the cascade of the foreign key, its messages.  An exception is then
\* reported by a fresh builder of the same message id, counting from 0.
CleanUp(r) ==
  /\ pc[r] \in Unwinding
  /\ IF isNew[r]
     THEN /\ chats' = chats \ {chatOf[r]}
          /\ msgs' = msgs \ MsgsOf(chatOf[r])
     ELSE UNCHANGED <<chats, msgs>>
  /\ sent' = IF pc[r] = "raising"
             THEN [sent EXCEPT ![r] = @ \o <<Ev("message_start", 0), Ev("error", 1)>>]
             ELSE sent
  /\ Goto(r, "closed")
  /\ UNCHANGED <<used, payload>>

\* The clean-up awaits the database: it is cancelled once more, or fails.
CleanUpCutOff(r) ==
  /\ pc[r] \in Unwinding
  /\ Goto(r, "killed")
  /\ UNCHANGED <<store, payload, sent>>

-----------------------------------------------------------------------------
(* The rest of the system. *)

\* Mutant of DeleteChat: the messages stay behind.
DeleteChatRow(c) ==
  /\ c \in chats
  /\ chats' = chats \ {c}
  /\ UNCHANGED <<msgs, used, pc, payload, sent>>

\* DELETE /chats/{c}, from any client: the chat and its messages.
DeleteChat(c) ==
  /\ c \in chats
  /\ chats' = chats \ {c}
  /\ msgs' = msgs \ MsgsOf(c)
  /\ UNCHANGED <<used, pc, payload, sent>>

\* The server process stops: what was not committed is gone.
ServerStop ==
  /\ \E r \in Request : pc[r] \in InFlight
  /\ pc' = [r \in Request |-> IF pc[r] \in InFlight THEN "killed" ELSE pc[r]]
  /\ UNCHANGED <<store, payload, sent>>

Stream(r) == StreamStart(r) \/ StreamDelta(r) \/ StreamEnd(r) \/ StreamError(r)

\* What the server does for a request of its own accord.
Serve(r) == \/ StartStream(r) \/ Stream(r) \/ Persist(r) \/ Finish(r)
            \/ Fail(r) \/ CleanUp(r)

Next == \/ \E r \in Request : \/ \E c \in Chat : CreateChat(r, c) \/ ResolveChat(r, c)
                              \/ Serve(r)
                              \/ Disconnect(r)
                              \/ NeverStarts(r) \/ CleanUpCutOff(r)
        \/ \E c \in Chat : DeleteChat(c)
        \/ ServerStop

Spec == Init /\ [][Next]_vars

\* The event loop resumes every request whose await is over; providers and
\* database answer or time out.  Clients and server stops are not fair.
FairSpec == Spec /\ \A r \in Request : WF_vars(Serve(r))

-----------------------------------------------------------------------------
(* Properties. *)

TypeOK ==
  /\ chats \subseteq used
  /\ used \subseteq Chat
  /\ msgs \subseteq Message
  /\ pc \in [Request -> {"idle"} \cup InFlight \cup Over]
  /\ chatOf \in [Request -> Chat \cup {None}]
  /\ isNew \in [Request -> BOOLEAN]
  /\ regenerate \in [Request -> BOOLEAN]
  /\ sent \in [Request -> Seq(Event)]

\* No message outlives its chat, whichever of deletion, clean-up and commit
\* comes first.
MessagesHaveChat == \A m \in msgs : m.chat \in chats

\* "a client disconnect or stream error never leaves orphaned user messages
\* in the database": the question of a request is in the history only with
\* its answer, and the answer of a fresh question only with the question.
NoHalfTurn ==
  \A r \in Request : TurnOf(r) # {} =>
    \E m \in TurnOf(r) : /\ m.role = "assistant"
                         /\ ~regenerate[r] => [m EXCEPT !.role = "user"] \in TurnOf(r)

\* "partial errored responses are not persisted": what the client was told
\* and what the store holds agree.  A response with an error event left
\* nothing in the history; a response acknowledged with [DONE] is there, for
\* as long as its chat is.
OutcomeMatchesStore ==
  \A r \in Request :
    /\ "error" \in Kinds(r) => TurnOf(r) = {}
    /\ pc[r] = "done" /\ chatOf[r] \in chats => TurnOf(r) # {}

\* A chat without messages is one whose creator is still at work on it, or
\* was cut off: requests that fail or are abandoned clean up after themselves.
EmptyChatHasCreator ==
  \A c \in chats : MsgsOf(c) = {} =>
    \E r \in Request : /\ isNew[r] /\ chatOf[r] = c
                       /\ pc[r] \in InFlight \cup {"killed"}

\* Once the request that created a chat has been acknowledged, nothing but a
\* deletion by the user removes the chat: no later request on it, whatever
\* becomes of it, takes the history down with it.
AcknowledgedChatSurvives ==
  [][\A r \in Request :
       pc[r] = "done" /\ isNew[r] /\ chatOf[r] \in chats =>
         chatOf[r] \in chats' \/ DeleteChat(chatOf[r])]_vars

\* "Clean up orphaned chat if this was a new chat": the clean-up discards no
\* chat that has messages.
CleanUpOnlyOrphans ==
  [][\A c \in chats : c \notin chats' => DeleteChat(c) \/ MsgsOf(c) = {}]_vars

\* The inductive invariant behind the properties above.
TurnRoles(r) == IF regenerate[r] THEN {"assistant"} ELSE Role

\* Where requests stand to chats: a request that has resolved its chat holds
\* an id that was given out, and no two requests have created the same chat.
PayloadInv ==
  /\ \A r \in Request : IF pc[r] = "idle" THEN ~isNew[r] ELSE chatOf[r] \in used
  /\ \A r, q \in Request : isNew[r] /\ isNew[q] /\ chatOf[r] = chatOf[q] => r = q

\* Messages are whole turns, in the chat of their request, of requests that
\* have got past their commit.
TurnInv ==
  \A m \in msgs :
    /\ m.chat = chatOf[m.by]
    /\ m.chat \in chats
    /\ pc[m.by] \in {"committed", "aborting", "done", "closed", "killed"}
    /\ m.role \in TurnRoles(m.by)
    /\ \A x \in TurnRoles(m.by) : [chat |-> m.chat, role |-> x, by |-> m.by] \in msgs

\* A request past its commit has its turn in the store while its chat is.
CommitInv ==
  \A r \in Request : pc[r] \in {"committed", "done"} /\ chatOf[r] \in chats =>
    \E m \in msgs : m.by = r

\* A request that has sent an error has taken no other way than the clean-up.
ErrorInv ==
  \A r \in Request : \A i \in DOMAIN sent[r] : sent[r][i].type = "error" =>
    /\ pc[r] \in {"erroring", "closed", "killed"}
    /\ \A m \in msgs : m.by # r

\* The conjunction is inductive.
IInv == TypeOK /\ PayloadInv /\ TurnInv /\ CommitInv /\ ErrorInv /\ EmptyChatHasCreator

\* Every request is brought to an end.
RequestsEnd == \A r \in Request : pc[r] \in InFlight ~> pc[r] \in Over

\* The interleaved requests implement the store of whole turns.
Store == INSTANCE TurnStore

\* Seen from the database alone, all there ever is are new empty chats, whole
\* turns added to chats that exist, and chats removed with all they hold.
ImplementsTurnStore == Store!Spec
=============================================================================
