------------------------------ MODULE ChatPage ------------------------------
(***************************************************************************)
(* The chat page: runGeneration() of chat.js for several generations at    *)
(* once, the handlers that start, stop and move away from them (send,      *)
(* regenerate, retry, edit, stop, new chat, and of sidebar.js open and     *)
(* delete chat), and the signals of state.js they all share.               *)
(*                                                                         *)
(* A handler runs from one await or timer to the next without being        *)
(* interrupted: that is one step.  The server is what ChatStream promises, *)
(* and no more: it resolves or creates the chat, streams, stores the turn, *)
(* closes; a request that created its chat takes it away when it fails or  *)
(* finds its client gone.                                                  *)
(***************************************************************************)
EXTENDS Integers, Sequences, FiniteSets, SequencesExt

CONSTANTS None,      \* null
          MaxOld,    \* bound: chats there are when the page is loaded
          MaxGens,   \* bound: generations started
          MaxMoves   \* bound: chats opened and deleted in the sidebar

ASSUME ChatPageAssumption ==
  /\ MaxOld \in Nat /\ MaxGens \in Nat /\ MaxMoves \in Nat
  /\ None \notin Nat

VARIABLES
  active,        \* activeChatId
  messages,      \* the list on the page
  generating,    \* isGenerating
  abort,         \* abortController: the generation it belongs to
  asked,         \* lastUserText is not empty
  button,        \* which of the two buttons is shown
  errorShown,    \* errorState is visible
  counter,       \* _genCounter
  gens,          \* the local state of each call of runGeneration(), in order
  opens,         \* the calls of openChat(), in order
  deleting,      \* the calls of the delete handler, by chat
  listed,        \* the chats of the sidebar's list
  chats,         \* the server's chats, each with its messages
  created,       \* history: chats ever made; their ids are 1, 2, ...
  course         \* history: how the page was used since it was last cleared

signals == <<active, messages, generating, abort, asked>>
view    == <<button, errorShown, counter>>
sidebar == <<opens, deleting, listed>>
server  == <<chats, created>>
vars    == <<signals, view, gens, sidebar, server, course>>

Gen  == 1..MaxGens
Chat == 1..MaxOld + MaxGens

\* A question and the answer to it have the number of their generation, those
\* from before the page was loaded have 0.
Question(g) == [role |-> "user", of |-> g]
Answer(g)   == [role |-> "assistant", of |-> g]
Message     == [role : {"user", "assistant"}, of : 0..MaxGens]

\* delayed: an edit, 100 ms before it starts; yielding: before the stop button
\* is painted; connecting, reading: the request is under way; showing: "Done"
\* is shown for 600 ms; ending: the stop button is kept for a while.
Place == {"delayed", "yielding", "connecting", "reading", "showing", "ending", "over"}

\* The request at the server: asked, running, stored ([DONE] and the end of the
\* stream are under way), and read to the end; rejected, failed; or gone, when
\* the server has found nobody to answer.
AtServer == {"none", "asked", "running", "stored", "read", "failed", "rejected", "gone"}

Generation == [at : Place, regenerate : BOOLEAN, id : Nat,
               chat : Chat \cup {None}, last : Message \cup {None},
               aborted : BOOLEAN, srv : AtServer, in : Chat \cup {None}]

NewGeneration(at, regen) ==
  [at |-> at, regenerate |-> regen, id |-> 0, chat |-> None, last |-> None,
   aborted |-> FALSE, srv |-> "none", in |-> None]

\* Plain: questions and answers, one after the other.  Irregular: some turn was
\* cut short, failed or repeated, or the server was still at work on an earlier
\* one when the page was cleared.  Overlapping: the user did not wait for an
\* answer or a chat, or opened one that is gone.
Plain == 0
Irregular == 1
Overlapping == 2

Note(c) == course' = Max({course, c})

Started == DOMAIN gens
Active(g) == gens[g].at \in {"yielding", "connecting", "reading", "showing"}
Waiting   == \/ \E g \in Started : Active(g) \/ gens[g].at = "delayed"
             \/ \E i \in DOMAIN opens : opens[i].at # "over"
AtWork    == \E g \in Started : gens[g].srv \in {"asked", "running", "stored"}

Moves == Len(opens) + Cardinality({c \in Chat : deleting[c] # "no"})

\* A page just loaded; the user need not touch the chats there are.
Init == /\ active = None /\ messages = <<>> /\ generating = FALSE /\ abort = None
        /\ asked = FALSE /\ button = "send" /\ errorShown = FALSE /\ counter = 0
        /\ gens = <<>> /\ opens = <<>> /\ deleting = [c \in Chat |-> "no"]
        /\ created = MaxOld
        /\ chats = [c \in 1..created |-> <<Question(0), Answer(0)>>] /\ listed = 1..created
        /\ course = Plain

-----------------------------------------------------------------------------
(* Starting a generation. *)

\* The first lines of runGeneration(), up to its first await.
Begin(regen) ==
  /\ Len(gens) < MaxGens
  /\ gens' = Append(gens, NewGeneration("yielding", regen))
  /\ generating' = TRUE /\ button' = "stop"

\* handleSend().
Send ==
  /\ ~generating
  /\ Begin(FALSE)
  /\ messages' = Append(messages, Question(Len(gens) + 1))
  /\ asked' = TRUE
  /\ Note(IF Waiting THEN Overlapping ELSE Plain)
  /\ UNCHANGED <<active, abort, errorShown, counter, sidebar, server>>

\* regenerate(): the last answer is removed, and all that follows it.
Regenerate ==
  /\ ~generating /\ asked
  /\ Begin(TRUE)
  /\ LET last == SelectLastInSeq(messages, LAMBDA m : m.role = "assistant")
     IN  messages' = IF last = 0 THEN messages ELSE SubSeq(messages, 1, last - 1)
  /\ Note(IF Waiting THEN Overlapping ELSE Irregular)
  /\ UNCHANGED <<active, abort, asked, errorShown, counter, sidebar, server>>

\* The retry button of the error: whether something is being generated is not
\* asked.
Retry ==
  /\ errorShown /\ asked
  /\ Begin(TRUE)
  /\ errorShown' = FALSE
  /\ Note(IF Waiting THEN Overlapping ELSE Irregular)
  /\ UNCHANGED <<active, messages, abort, asked, counter, sidebar, server>>

\* Saving an edited question: what follows it is removed.  Nor here.
Edit(i) ==
  /\ messages[i].role = "user"
  /\ Len(gens) < MaxGens
  /\ gens' = Append(gens, NewGeneration("delayed", TRUE))
  /\ messages' = Append(SubSeq(messages, 1, i - 1), Question(Len(gens) + 1))
  /\ asked' = TRUE
  /\ Note(IF Waiting THEN Overlapping ELSE Irregular)
  /\ UNCHANGED <<active, generating, abort, view, sidebar, server>>

EditStarts(g) ==
  /\ gens[g].at = "delayed"
  /\ gens' = [gens EXCEPT ![g].at = "yielding"]
  /\ generating' = TRUE /\ button' = "stop"
  /\ UNCHANGED <<active, messages, abort, asked, errorShown, counter, sidebar, server, course>>

\* The timer of 0 ms: the request is sent.  (Of two generations that yield at
\* once either may come first.)
Post(g) ==
  /\ gens[g].at = "yielding"
  /\ counter' = counter + 1
  /\ abort' = g /\ errorShown' = FALSE
  /\ gens' = [gens EXCEPT ![g].at = "connecting", ![g].id = counter', ![g].chat = active,
                          ![g].last = IF messages = <<>> THEN None ELSE Last(messages),
                          ![g].srv = "asked"]
  /\ UNCHANGED <<active, messages, generating, asked, button, sidebar, server, course>>

-----------------------------------------------------------------------------
(* The server's side of a request. *)

Valid(last) == last # None /\ last.role = "user"

\* The chat is found or made, or the request is refused: the chat is gone, or
\* the last message is not the user's.
Resolve(g) ==
  /\ gens[g].srv = "asked"
  /\ \/ /\ Valid(gens[g].last) /\ gens[g].chat = None
        /\ created' = created + 1
        /\ gens' = [gens EXCEPT ![g].srv = "running", ![g].in = created']
        /\ chats' = [c \in DOMAIN chats \cup {created'} |->
                       IF c = created' THEN <<>> ELSE chats[c]]
     \/ /\ Valid(gens[g].last) /\ gens[g].chat \in DOMAIN chats
        /\ gens' = [gens EXCEPT ![g].srv = "running", ![g].in = gens[g].chat]
        /\ UNCHANGED server
     \/ /\ ~Valid(gens[g].last) \/ gens[g].chat \notin DOMAIN chats \cup {None}
        /\ gens' = [gens EXCEPT ![g].srv = "rejected"]
        /\ UNCHANGED server
  /\ UNCHANGED <<signals, view, sidebar, course>>

Without(c) == [x \in DOMAIN chats \ {c} |-> chats[x]]
CleanedUp(g) == IF gens[g].chat = None THEN Without(gens[g].in) ELSE chats

\* Mutant of Store: the question is never stored.
StoreAnswerOnly(g) ==
  /\ gens[g].srv = "running" /\ gens[g].in \in DOMAIN chats
  /\ chats' = [chats EXCEPT ![gens[g].in] = Append(@, Answer(g))]
  /\ gens' = [gens EXCEPT ![g].srv = "stored"]
  /\ UNCHANGED <<signals, view, sidebar, created, course>>

\* The turn is committed, the question only if it is a new one.
Store(g) ==
  /\ gens[g].srv = "running" /\ gens[g].in \in DOMAIN chats
  /\ LET turn == IF gens[g].regenerate THEN <<Answer(g)>> ELSE <<gens[g].last, Answer(g)>>
     IN  chats' = [chats EXCEPT ![gens[g].in] = @ \o turn]
  /\ gens' = [gens EXCEPT ![g].srv = "stored"]
  /\ UNCHANGED <<signals, view, sidebar, created, course>>

\* An error event, or an exception (for one, the chat was deleted).
Fail(g) ==
  /\ gens[g].srv = "running"
  /\ gens' = [gens EXCEPT ![g].srv = "failed"]
  /\ chats' = CleanedUp(g)
  /\ UNCHANGED <<signals, view, sidebar, created, course>>

\* The server finds its client gone, before [DONE] was taken.
Gone(g) ==
  /\ gens[g].srv \in {"running", "stored"}
  /\ gens[g].at \in {"ending", "over"} \/ gens[g].aborted
  /\ gens' = [gens EXCEPT ![g].srv = "gone"]
  /\ chats' = CleanedUp(g)
  /\ UNCHANGED <<signals, view, sidebar, created, course>>

-----------------------------------------------------------------------------
(* Reading the answer, and what becomes of it. *)

Connected(g) ==
  /\ gens[g].at = "connecting" /\ ~gens[g].aborted
  /\ gens[g].srv \notin {"asked", "rejected"}
  /\ gens' = [gens EXCEPT ![g].at = "reading"]
  /\ UNCHANGED <<signals, view, sidebar, server, course>>

\* The flags are cleared, whoever has set them since; the button follows later.
Reset == generating' = FALSE /\ abort' = None

\* Mutant of SettleError: the flags stay set.
SettleErrorKeepingFlags(g) ==
  /\ errorShown' = TRUE
  /\ gens' = [gens EXCEPT ![g].at = "ending"]
  /\ Note(Irregular)
  /\ UNCHANGED <<signals, button, counter, sidebar, server>>

\* streamError: the error is shown.
SettleError(g) ==
  /\ errorShown' = TRUE
  /\ Reset
  /\ gens' = [gens EXCEPT ![g].at = "ending"]
  /\ Note(Irregular)
  /\ UNCHANGED <<active, messages, asked, button, counter, sidebar, server>>

\* The loop over the frames is left, at the end of the stream or by an abort.
Leave(g, at) ==
  [gens EXCEPT ![g].at = at, ![g].srv = IF gens[g].aborted THEN @ ELSE "read"]

\* Mutants of SettleText: the chat is not adopted; the flags are cleared before
\* the answer has been shown.
SettleTextUnadopted(g) ==
  /\ messages' = Append(messages, Answer(g))
  /\ gens' = Leave(g, "showing")
  /\ listed' = DOMAIN chats
  /\ Note(IF gens[g].aborted THEN Irregular ELSE Plain)
  /\ UNCHANGED <<active, generating, abort, asked, view, opens, deleting, server>>

SettleTextEarly(g) ==
  /\ active' = IF active = None THEN gens[g].in ELSE active
  /\ messages' = Append(messages, Answer(g))
  /\ Reset
  /\ gens' = Leave(g, "showing")
  /\ listed' = DOMAIN chats
  /\ Note(IF gens[g].aborted THEN Irregular ELSE Plain)
  /\ UNCHANGED <<asked, view, opens, deleting, server>>

\* An answer, or what there is of it, joins the list on the page; a page with
\* no chat adopts the chat of the answer, and the list of chats is loaded anew
\* (taken as of this moment).
SettleText(g) ==
  /\ active' = IF active = None THEN gens[g].in ELSE active
  /\ messages' = Append(messages, Answer(g))
  /\ gens' = Leave(g, "showing")
  /\ listed' = DOMAIN chats
  /\ Note(IF gens[g].aborted THEN Irregular ELSE Plain)
  /\ UNCHANGED <<generating, abort, asked, view, opens, deleting, server>>

\* Nothing to show: the generation counts as stopped.
SettleNothing(g) ==
  /\ Reset
  /\ gens' = Leave(g, "ending")
  /\ Note(Irregular)
  /\ UNCHANGED <<active, messages, asked, view, sidebar, server>>

\* Mutant of Refused: an abort before the response goes unnoticed.
RefusedUnlessAborted(g) ==
  /\ gens[g].at = "connecting" /\ gens[g].srv = "rejected"
  /\ SettleError(g)

\* The request is refused, or was aborted: whatever fetch() throws becomes an
\* ApiError, the AbortError included.
Refused(g) ==
  /\ gens[g].at = "connecting" /\ (gens[g].srv = "rejected" \/ gens[g].aborted)
  /\ SettleError(g)

\* The error event has been read.
ReadError(g) ==
  /\ gens[g].at = "reading" /\ ~gens[g].aborted /\ gens[g].srv = "failed"
  /\ SettleError(g)

\* The connection fails, before or after the server has the request.
Broken(g) ==
  /\ gens[g].at \in {"connecting", "reading"} /\ ~gens[g].aborted
  /\ SettleError(g)

\* The stream has been read to its end.
ReadEnd(g) ==
  /\ gens[g].at = "reading" /\ ~gens[g].aborted /\ gens[g].srv = "stored"
  /\ SettleText(g) \/ SettleNothing(g)

\* The reader throws the AbortError.
AbortSeen(g) ==
  /\ gens[g].at = "reading" /\ gens[g].aborted
  /\ SettleText(g) \/ SettleNothing(g)

\* The 600 ms are over.
Shown(g) ==
  /\ gens[g].at = "showing"
  /\ Reset
  /\ gens' = [gens EXCEPT ![g].at = "ending"]
  /\ UNCHANGED <<active, messages, asked, view, sidebar, server, course>>

\* The last line: the button is the latest generation's to reset.
Ended(g) ==
  /\ gens[g].at = "ending"
  /\ button' = IF gens[g].id = counter THEN "send" ELSE button
  /\ gens' = [gens EXCEPT ![g].at = "over"]
  /\ UNCHANGED <<signals, errorShown, counter, sidebar, server, course>>

-----------------------------------------------------------------------------
(* Stopping, and moving on. *)

\* The signal reaches a request that is under way, and nothing else.
Aborted(g) == IF g # None /\ gens[g].at \in {"connecting", "reading"}
              THEN [gens EXCEPT ![g].aborted = TRUE] ELSE gens

\* stopGeneration().
Stop ==
  /\ button = "stop" /\ abort # None
  /\ gens' = Aborted(abort)
  /\ UNCHANGED <<signals, view, sidebar, server, course>>

\* startNewChat().
StartNewChat ==
  /\ gens' = Aborted(IF generating THEN abort ELSE None)
  /\ active' = None /\ messages' = <<>> /\ asked' = FALSE
  /\ Reset
  /\ button' = "send" /\ errorShown' = FALSE
  /\ course' = IF Waiting THEN Overlapping ELSE IF AtWork THEN Irregular ELSE Plain
  /\ UNCHANGED counter

NewChat == StartNewChat /\ UNCHANGED <<sidebar, server>>

\* openChat(), up to its request: what is being generated goes on.
OpenChat(c) ==
  /\ c \in listed
  /\ Moves < MaxMoves
  /\ active' = c /\ errorShown' = FALSE
  /\ opens' = Append(opens, [chat |-> c, at |-> "asked", body |-> <<>>])
  /\ course' = IF Waiting THEN Overlapping ELSE IF AtWork THEN Irregular ELSE Plain
  /\ UNCHANGED <<messages, generating, abort, asked, button, counter, gens, deleting, listed, server>>

\* The server answers with the messages of the chat, or 404.
OpenServed(i) ==
  /\ opens[i].at = "asked"
  /\ opens' = IF opens[i].chat \in DOMAIN chats
              THEN [opens EXCEPT ![i].at = "served", ![i].body = chats[opens[i].chat]]
              ELSE [opens EXCEPT ![i].at = "missing"]
  /\ UNCHANGED <<signals, view, gens, deleting, listed, server, course>>

\* The answer is shown, whichever chat is the active one by now.
OpenAnswered(i) ==
  /\ opens[i].at \in {"served", "missing"}
  /\ opens' = [opens EXCEPT ![i].at = "over", ![i].body = <<>>]
  /\ IF opens[i].at = "served"
     THEN messages' = opens[i].body /\ UNCHANGED <<errorShown, course>>
     ELSE errorShown' = TRUE /\ Note(Overlapping) /\ UNCHANGED messages
  /\ UNCHANGED <<active, generating, abort, asked, button, counter, gens, deleting, listed, server>>

\* Deleting a chat: the server's part; and the answer, upon which a page that
\* shows the chat starts a new one.
Delete(c) ==
  /\ c \in listed /\ deleting[c] = "no"
  /\ Moves < MaxMoves
  /\ deleting' = [deleting EXCEPT ![c] = IF c \in DOMAIN chats THEN "served" ELSE "missing"]
  /\ chats' = Without(c)
  /\ UNCHANGED <<signals, view, gens, opens, listed, created, course>>

DeleteAnswered(c) ==
  /\ deleting[c] \in {"served", "missing"}
  /\ deleting' = [deleting EXCEPT ![c] = "over"]
  /\ listed' = IF deleting[c] = "served" THEN listed \ {c} ELSE listed
  /\ IF deleting[c] = "served" /\ active = c
     THEN StartNewChat
     ELSE UNCHANGED <<signals, view, gens, course>>
  /\ UNCHANGED <<opens, server>>

-----------------------------------------------------------------------------
User == \/ Send \/ Regenerate \/ Retry \/ Stop \/ NewChat
        \/ \E i \in DOMAIN messages : Edit(i)
        \/ \E c \in Chat : OpenChat(c) \/ Delete(c)

Serve(g) == Resolve(g) \/ Store(g) \/ Fail(g) \/ Gone(g)

\* What the page does for a generation of its own accord.
Run(g) == \/ EditStarts(g) \/ Post(g) \/ Connected(g)
          \/ Refused(g) \/ ReadError(g) \/ ReadEnd(g) \/ AbortSeen(g)
          \/ Shown(g) \/ Ended(g)

Next == \/ User
        \/ \E g \in Started : Run(g) \/ Serve(g) \/ Broken(g)
        \/ \E i \in DOMAIN opens : OpenServed(i) \/ OpenAnswered(i)
        \/ \E c \in Chat : DeleteAnswered(c)

Spec == Init /\ [][Next]_vars

\* Timers fire, the server answers and the page reads on; nobody has to press
\* anything, and connections need not break.
Progress == \E g \in Started : Run(g) \/ Serve(g)
FairSpec == Spec /\ WF_vars(Progress)

-----------------------------------------------------------------------------
(* Properties. *)

\* However generations overlap, and whichever of their timers fires first: when
\* the last is over the page is ready to send again, and a stale Stop has
\* nothing to stop.
ReadyAtRest ==
  (\A g \in Started : gens[g].at = "over") => ~generating /\ abort = None /\ button = "send"

\* As long as the user waits for answers before doing anything else, one
\* generation runs at a time and isGenerating says whether one does, through
\* errors, retries, edits and stops at any moment.
OneAtATime ==
  course # Overlapping => /\ \A g, h \in Started : Active(g) /\ Active(h) => g = h
              /\ generating <=> \E g \in Started : Active(g)

\* Then, too, every answer on the page belongs to the active chat (once that
\* has been loaded).
AnswersAreOwn ==
  course # Overlapping /\ ~Waiting => \A i \in DOMAIN messages :
    LET m == messages[i]
    IN  m.role = "assistant" /\ m.of # 0 => gens[m.of].in = active

\* And if every turn went its plain way, what the page shows is what the server
\* has, message by message.
PageAgrees ==
  course = Plain /\ ~Waiting =>
    IF active = None THEN messages = <<>>
    ELSE deleting[active] = "no" => active \in DOMAIN chats /\ messages = chats[active]

\* Every generation comes to its end.
GenerationsEnd == \A g \in Gen : g \in Started ~> g \in Started /\ gens[g].at = "over"

=============================================================================
