------------------------------ MODULE TurnStore ------------------------------
(***************************************************************************)
(* What the chat history promises: chats are created empty, a turn (the    *)
(* messages of one request) is added to an existing chat all at once, and  *)
(* messages go only together with their whole chat.                        *)
(***************************************************************************)
CONSTANTS Chat, Request

Message == [chat : Chat, role : {"user", "assistant"}, by : Request]

VARIABLES chats, msgs

vars == <<chats, msgs>>

Init == chats = {} /\ msgs = {}

Create(c) == c \notin chats /\ chats' = chats \cup {c} /\ msgs' = msgs

\* A turn has an answer, and normally the question it answers.
AddTurn(c, r) ==
  /\ c \in chats
  /\ \A m \in msgs : m.by # r
  /\ \E roles \in {{"assistant"}, {"user", "assistant"}} :
       msgs' = msgs \cup {[chat |-> c, role |-> x, by |-> r] : x \in roles}
  /\ chats' = chats

Remove(c) ==
  /\ c \in chats
  /\ chats' = chats \ {c}
  /\ msgs' = {m \in msgs : m.chat # c}

Next == \E c \in Chat : \/ Create(c)
                        \/ \E r \in Request : AddTurn(c, r)
                        \/ Remove(c)

Spec == Init /\ [][Next]_vars
==============================================================================
