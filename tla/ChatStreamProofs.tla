-------------------------- MODULE ChatStreamProofs --------------------------
(***************************************************************************)
(* Proofs about ChatStream, for any set of requests and of chat ids.       *)
(***************************************************************************)
EXTENDS ChatStream, TLAPS

\* A step keeps every table and every local of every request of
\* its type, whatever the interleaving.
LEMMA TypeStep == TypeOK /\ [Next]_vars => TypeOK'
<1> SUFFICES ASSUME TypeOK, [Next]_vars PROVE TypeOK'
  OBVIOUS
<1> USE DEF TypeOK, InFlight, InBody, Unwinding, Over, Goto
<1>1. ASSUME NEW r \in Request, NEW c \in Chat, CreateChat(r, c) PROVE TypeOK'
  BY <1>1 DEF CreateChat
<1>2. ASSUME NEW r \in Request, NEW c \in Chat, ResolveChat(r, c) PROVE TypeOK'
  BY <1>2 DEF ResolveChat, store
<1>3. ASSUME NEW r \in Request, StartStream(r) PROVE TypeOK'
  BY <1>3 DEF StartStream, store, payload
<1>4. ASSUME NEW r \in Request, Stream(r) PROVE TypeOK'
  <2>1. sent' \in [Request -> Seq(Event)]
    <3>1. ASSUME NEW t \in EventKind, Yield(r, t) PROVE sent' \in [Request -> Seq(Event)]
      <4>1. Ev(t, Len(sent[r])) \in Event
        BY DEF Ev, Event
      <4>2. Append(sent[r], Ev(t, Len(sent[r]))) \in Seq(Event)
        BY <4>1
      <4> QED
        BY <4>2, <3>1 DEF Yield
    <3> QED
      BY <3>1, <1>4 DEF Stream, StreamStart, StreamDelta, StreamEnd, StreamError, EventKind
  <2>2. pc' \in [Request -> {"idle"} \cup InFlight \cup Over]
    BY <1>4 DEF Stream, StreamStart, StreamDelta, StreamEnd, StreamError
  <2> QED
    BY <2>1, <2>2, <1>4
       DEF Stream, StreamStart, StreamDelta, StreamEnd, StreamError, store, payload
<1>5. ASSUME NEW r \in Request, Persist(r) PROVE TypeOK'
  <2>1. \A x \in Role : [chat |-> chatOf[r], role |-> x, by |-> r] \in Message
    BY <1>5, ChatStreamAssumption DEF Persist, Message
  <2> QED
    BY <1>5, <2>1 DEF Persist, payload, Role
<1>6. ASSUME NEW r \in Request,
             \/ Finish(r) \/ Fail(r)
             \/ Disconnect(r) \/ NeverStarts(r) \/ CleanUpCutOff(r)
      PROVE TypeOK'
  BY <1>6 DEF Finish, Fail, Disconnect, NeverStarts, CleanUpCutOff, store, payload
<1>7. ASSUME NEW r \in Request, CleanUp(r) PROVE TypeOK'
  <2>1. sent' \in [Request -> Seq(Event)]
    <3>1. <<Ev("message_start", 0), Ev("error", 1)>> \in Seq(Event)
      BY DEF Ev, Event, EventKind
    <3>2. sent[r] \o <<Ev("message_start", 0), Ev("error", 1)>> \in Seq(Event)
      BY <3>1
    <3> QED
      BY <1>7, <3>2 DEF CleanUp
  <2>2. chats' \subseteq used' /\ msgs' \subseteq Message
    BY <1>7 DEF CleanUp
  <2> QED
    BY <1>7, <2>1, <2>2 DEF CleanUp, payload
<1>8. ASSUME NEW c \in Chat, DeleteChat(c) PROVE TypeOK'
  BY <1>8 DEF DeleteChat, payload
<1>9. CASE ServerStop
  BY <1>9 DEF ServerStop, store, payload
<1>10. CASE UNCHANGED vars
  BY <1>10 DEF vars
<1> QED
  BY <1>1, <1>2, <1>3, <1>4, <1>5, <1>6, <1>7, <1>8, <1>9, <1>10 DEF Next, Serve

\* The tables and the locals of every request are of their types in every
\* reachable state.
THEOREM TypeInvariant == Spec => []TypeOK
<1>1. Init => TypeOK
  BY DEF Init, TypeOK, InFlight, InBody, Unwinding, Over
<1> QED
  BY <1>1, TypeStep, PTL DEF Spec

-----------------------------------------------------------------------------
(* The inductive invariant. *)

\* The set of messages of a chat, or of a request, elementwise.
LEMMA EmptyChat ==
  ASSUME NEW c PROVE MsgsOf(c) = {} <=> \A m \in msgs : m.chat # c
BY DEF MsgsOf

\* What is left of EmptyChatHasCreator' when the set of messages is taken apart.
LEMMA EmptyChatNext ==
  ASSUME \A d \in chats' : (\A m \in msgs' : m.chat # d) =>
           \E r \in Request : isNew'[r] /\ chatOf'[r] = d /\ pc'[r] \in InFlight \cup {"killed"}
  PROVE  EmptyChatHasCreator'
BY DEF EmptyChatHasCreator, MsgsOf

\* Removing a chat with its messages, while no request moves except out of
\* its clean-up, keeps the invariant: this is what the clean-up of a request
\* for a new chat and a deletion by a user have in common.
LEMMA RemoveChat ==
  ASSUME IInv, TypeOK', NEW c \in Chat,
         chats' = chats \ {c}, msgs' = msgs \ MsgsOf(c),
         used' = used, payload' = payload,
         \A r \in Request :
           \/ pc'[r] = pc[r]
           \/ pc[r] \in Unwinding /\ pc'[r] = "closed" /\ (isNew[r] => chatOf[r] = c)
  PROVE  PayloadInv' /\ TurnInv' /\ CommitInv' /\ EmptyChatHasCreator'
<1> USE DEF IInv, TypeOK, payload, Unwinding
<1>1. PayloadInv'
  <2>1. \A r \in Request : pc'[r] = "idle" <=> pc[r] = "idle"
    OBVIOUS
  <2>2. isNew' = isNew /\ chatOf' = chatOf /\ used' = used
    OBVIOUS
  <2> QED
    BY ONLY <2>1, <2>2, IInv DEF IInv, PayloadInv
<1>2. \A m \in msgs : m \in msgs' <=> m.chat # c
  BY DEF MsgsOf
<1>3. msgs' \subseteq msgs
  OBVIOUS
<1>4. TurnInv'
  <2> SUFFICES ASSUME NEW m \in msgs'
               PROVE  /\ m.chat = chatOf[m.by]
                      /\ m.chat \in chats'
                      /\ pc'[m.by] \in {"committed", "aborting", "done", "closed", "killed"}
                      /\ m.role \in TurnRoles(m.by)
                      /\ \A x \in TurnRoles(m.by) :
                           [chat |-> m.chat, role |-> x, by |-> m.by] \in msgs'
    BY DEF TurnInv, TurnRoles
  <2>1. m \in msgs /\ m.chat # c /\ m.by \in Request
    BY <1>2, <1>3 DEF Message
  <2>2. \A x \in TurnRoles(m.by) : [chat |-> m.chat, role |-> x, by |-> m.by] \in msgs'
    BY <2>1, <1>2 DEF TurnInv
  <2> QED
    BY <2>1, <2>2 DEF TurnInv
<1>5. CommitInv'
  <2> SUFFICES ASSUME NEW r \in Request, pc'[r] \in {"committed", "done"}, chatOf[r] \in chats'
               PROVE  \E m \in msgs' : m.by = r
    BY DEF CommitInv
  <2>1. PICK m \in msgs : m.by = r
    BY DEF CommitInv
  <2>2. m.chat = chatOf[r]
    BY <2>1 DEF TurnInv
  <2>3. m \in msgs'
    BY <2>1, <2>2, <1>2
  <2> QED
    BY <2>1, <2>3
<1>6. ASSUME NEW d \in chats', \A m \in msgs' : m.chat # d
      PROVE  \E r \in Request : /\ isNew'[r] /\ chatOf'[r] = d
                                /\ pc'[r] \in InFlight \cup {"killed"}
  <2>1. d \in chats /\ d # c /\ \A m \in msgs : m.chat # d
    BY <1>6, <1>2
  <2>2. PICK r \in Request : isNew[r] /\ chatOf[r] = d /\ pc[r] \in InFlight \cup {"killed"}
    BY <2>1, EmptyChat DEF EmptyChatHasCreator
  <2> QED
    BY <2>2
<1>7. EmptyChatHasCreator'
  <2> HIDE DEF IInv, TypeOK, payload, Unwinding
  <2> QED
    BY ONLY <1>6, EmptyChatNext
<1> QED
  BY <1>1, <1>4, <1>5, <1>7

\* Moving one request, whose turn is not concerned, along the body of the
\* generator keeps everything that does not depend on what was sent.
LEMMA MoveRequest ==
  ASSUME IInv, TypeOK', NEW r \in Request, UNCHANGED <<store, payload>>,
         \A q \in Request : q # r => pc'[q] = pc[q],
         pc[r] \in InFlight, pc'[r] \in InFlight \cup {"done", "killed"},
         pc'[r] \in {"committed", "done"} => pc[r] = "committed",
         pc[r] = "committed" => pc'[r] \in {"done", "aborting", "killed"},
         pc[r] = "aborting" => pc'[r] = "killed"
  PROVE  PayloadInv' /\ TurnInv' /\ CommitInv' /\ EmptyChatHasCreator'
<1> USE DEF IInv, TypeOK, store, payload, InFlight, InBody, Unwinding
<1>1. PayloadInv'
  BY DEF PayloadInv
<1>2. TurnInv'
  <2> SUFFICES ASSUME NEW m \in msgs
               PROVE  pc'[m.by] \in {"committed", "aborting", "done", "closed", "killed"}
    BY DEF TurnInv, TurnRoles
  <2> QED
    BY DEF TurnInv, Message
<1>3. CommitInv'
  BY DEF CommitInv
<1>4. ASSUME NEW d \in chats', \A m \in msgs' : m.chat # d
      PROVE  \E q \in Request : /\ isNew'[q] /\ chatOf'[q] = d
                                /\ pc'[q] \in InFlight \cup {"killed"}
  <2>0. d \in chats /\ \A m \in msgs : m.chat # d
    BY <1>4
  <2>a. MsgsOf(d) = {}
    BY <2>0 DEF MsgsOf
  <2>b. EmptyChatHasCreator
    OBVIOUS
  <2>1. PICK q \in Request : isNew[q] /\ chatOf[q] = d /\ pc[q] \in InFlight \cup {"killed"}
    BY ONLY <2>0, <2>a, <2>b DEF EmptyChatHasCreator
  <2>2. pc[q] # "committed"
    BY ZenonT(30), <2>0, <2>1 DEF CommitInv, TurnInv
  <2> QED
    BY <2>1, <2>2
<1>5. EmptyChatHasCreator'
  <2> HIDE DEF IInv, TypeOK, store, payload, InFlight, InBody, Unwinding
  <2> QED
    BY ONLY <1>4, EmptyChatNext
<1> QED
  BY <1>1, <1>2, <1>3, <1>5

\* The part about errors, for the steps that send nothing.
LEMMA ErrorUnsent ==
  ASSUME IInv, TypeOK', NEW r \in Request, sent' = sent,
         \A q \in Request : q # r => pc'[q] = pc[q],
         pc[r] \notin {"closed", "killed"},
         pc[r] = "erroring" => pc'[r] \in {"closed", "killed"},
         \A m \in msgs' : m \in msgs \/ (m.by = r /\ pc[r] = "persisting")
  PROVE  ErrorInv'
<1> SUFFICES ASSUME NEW q \in Request, NEW i \in DOMAIN sent[q], sent[q][i].type = "error"
             PROVE  /\ pc'[q] \in {"erroring", "closed", "killed"}
                    /\ \A m \in msgs' : m.by # q
  BY DEF ErrorInv
<1>1. pc[q] \in {"erroring", "closed", "killed"} /\ \A m \in msgs : m.by # q
  BY DEF IInv, ErrorInv
<1> QED
  BY <1>1

\* Every step keeps the invariant.
LEMMA InvStep == IInv /\ [Next]_vars => IInv'
<1> SUFFICES ASSUME IInv, [Next]_vars PROVE IInv'
  OBVIOUS
<1>t. TypeOK /\ TypeOK'
  BY TypeStep DEF IInv
<1> USE <1>t
<1>1. ASSUME NEW r \in Request, NEW c \in Chat, CreateChat(r, c) PROVE IInv'
  <2>1. /\ chats' = chats \cup {c} /\ used' = used \cup {c} /\ msgs' = msgs /\ sent' = sent
        /\ pc[r] = "idle" /\ pc'[r] = "prepared" /\ \A q \in Request : q # r => pc'[q] = pc[q]
        /\ chatOf'[r] = c /\ \A q \in Request : q # r => chatOf'[q] = chatOf[q]
        /\ isNew'[r] /\ \A q \in Request : q # r => isNew'[q] = isNew[q]
        /\ \A q \in Request : q # r => regenerate'[q] = regenerate[q]
        /\ c \notin used
    BY <1>1 DEF CreateChat, Goto, TypeOK
  <2>2. PayloadInv'
    BY ZenonT(30), <2>1 DEF IInv, PayloadInv, TypeOK
  <2>3. \A m \in msgs : m.by \in Request /\ m.by # r
    BY <2>1 DEF IInv, TurnInv, TypeOK, Message
  <2>4. TurnInv'
    BY <2>1, <2>3 DEF IInv, TurnInv, TurnRoles
  <2>5. CommitInv'
    BY <2>1 DEF IInv, CommitInv, PayloadInv, TypeOK
  <2>6. ErrorInv'
    BY <2>1 DEF IInv, ErrorInv
  <2>7. EmptyChatHasCreator'
    <3> SUFFICES ASSUME NEW d \in chats', \A m \in msgs : m.chat # d
                 PROVE  \E q \in Request : /\ isNew'[q] /\ chatOf'[q] = d
                                           /\ pc'[q] \in InFlight \cup {"killed"}
      BY <2>1 DEF EmptyChatHasCreator, MsgsOf
    <3>1. CASE d = c
      BY <3>1, <2>1 DEF InFlight
    <3>2. CASE d # c
      <4>1. PICK q \in Request : isNew[q] /\ chatOf[q] = d /\ pc[q] \in InFlight \cup {"killed"}
        BY <3>2, <2>1, EmptyChat DEF IInv, EmptyChatHasCreator
      <4>2. q # r
        BY <4>1, <2>1 DEF IInv, PayloadInv
      <4> QED
        BY <4>1, <4>2, <2>1
    <3> QED
      BY <3>1, <3>2
  <2> QED
    BY <2>2, <2>4, <2>5, <2>6, <2>7 DEF IInv
<1>2. ASSUME NEW r \in Request, NEW c \in Chat, ResolveChat(r, c) PROVE IInv'
  <2>1. /\ UNCHANGED <<chats, used, msgs, sent, isNew>>
        /\ pc[r] = "idle" /\ pc'[r] \in {"prepared", "rejected"}
        /\ \A q \in Request : q # r => pc'[q] = pc[q]
        /\ chatOf'[r] = c /\ \A q \in Request : q # r => chatOf'[q] = chatOf[q]
        /\ \A q \in Request : q # r => regenerate'[q] = regenerate[q]
        /\ c \in used
    BY <1>2 DEF ResolveChat, Goto, TypeOK, store
  <2>2. ~isNew[r]
    BY <2>1 DEF IInv, PayloadInv
  <2>3. PayloadInv'
    BY <2>1, <2>2 DEF IInv, PayloadInv
  <2>4. \A m \in msgs : m.by \in Request /\ m.by # r
    BY <2>1 DEF IInv, TurnInv, TypeOK, Message
  <2>5. TurnInv'
    BY <2>1, <2>4 DEF IInv, TurnInv, TurnRoles
  <2>6. CommitInv'
    BY <2>1 DEF IInv, CommitInv
  <2>7. ErrorInv'
    BY <2>1 DEF IInv, ErrorInv
  <2>8. EmptyChatHasCreator'
    BY <2>1, <2>2 DEF IInv, EmptyChatHasCreator, MsgsOf
  <2> QED
    BY <2>3, <2>5, <2>6, <2>7, <2>8 DEF IInv
<1>3. ASSUME NEW r \in Request, StartStream(r) PROVE IInv'
  <2>1. pc[r] = "prepared" /\ pc'[r] = "streaming" /\ UNCHANGED <<store, payload, sent>>
        /\ \A q \in Request : q # r => pc'[q] = pc[q]
    BY <1>3 DEF StartStream, Goto, TypeOK
  <2>2. PayloadInv' /\ TurnInv' /\ CommitInv' /\ EmptyChatHasCreator'
    BY <2>1, MoveRequest DEF InFlight, InBody
  <2>3. msgs' = msgs /\ sent' = sent
    BY <2>1 DEF store
  <2>4. ErrorInv'
    BY <2>1, <2>3, ErrorUnsent
  <2> QED
    BY <2>2, <2>4 DEF IInv
<1>4. ASSUME NEW r \in Request, Stream(r) PROVE IInv'
  <2>1. PICK t \in EventKind : Yield(r, t) /\ (t = "error" => pc'[r] = "erroring")
    BY <1>4 DEF Stream, StreamStart, StreamDelta, StreamEnd, StreamError, EventKind, Goto, TypeOK
  <2>2. /\ pc[r] = "streaming" /\ pc'[r] \in {"streaming", "persisting", "erroring"}
        /\ UNCHANGED <<store, payload>> /\ \A q \in Request : q # r => pc'[q] = pc[q]
    BY <1>4 DEF Stream, StreamStart, StreamDelta, StreamEnd, StreamError, Goto, TypeOK
  <2>3. PayloadInv' /\ TurnInv' /\ CommitInv' /\ EmptyChatHasCreator'
    BY <2>2, MoveRequest DEF InFlight, InBody, Unwinding
  <2>4. ErrorInv'
    <3> SUFFICES ASSUME NEW q \in Request, NEW i \in DOMAIN sent'[q], sent'[q][i].type = "error"
                 PROVE  /\ pc'[q] \in {"erroring", "closed", "killed"}
                        /\ \A m \in msgs' : m.by # q
      BY DEF ErrorInv
    <3>1. CASE q # r
      BY <3>1, <2>1, <2>2 DEF Yield, IInv, ErrorInv, store, TypeOK
    <3>2. CASE q = r
      <4>1. sent'[r] = Append(sent[r], Ev(t, Len(sent[r]))) /\ sent[r] \in Seq(Event)
        BY <2>1 DEF Yield, TypeOK
      <4>2. i \in 1..Len(sent[r]) + 1
        BY <4>1, <3>2
      <4>3. i # Len(sent[r]) + 1 => i \in DOMAIN sent[r] /\ sent[r][i].type = "error"
        BY <4>1, <4>2, <3>2
      <4>4. i = Len(sent[r]) + 1 /\ t = "error"
        BY <4>1, <4>2, <4>3, <3>2, <2>2 DEF IInv, ErrorInv, Ev
      <4>5. \A m \in msgs : m.by # r
        BY <2>2 DEF IInv, TurnInv
      <4> QED
        BY <4>4, <4>5, <3>2, <2>1, <2>2 DEF store
    <3> QED
      BY <3>1, <3>2
  <2> QED
    BY <2>3, <2>4 DEF IInv
<1>5. ASSUME NEW r \in Request, Persist(r) PROVE IInv'
  <2> DEFINE turn == {[chat |-> chatOf[r], role |-> x, by |-> r] : x \in TurnRoles(r)}
  <2>1. /\ UNCHANGED <<chats, used, payload, sent>> /\ msgs' = msgs \cup turn
        /\ pc[r] = "persisting" /\ pc'[r] = "committed" /\ chatOf[r] \in chats
        /\ \A q \in Request : q # r => pc'[q] = pc[q]
    BY <1>5 DEF Persist, Goto, TypeOK, TurnRoles
  <2>2. \A m \in msgs : m.by \in Request /\ m.by # r
    BY <2>1 DEF IInv, TurnInv, TypeOK, Message
  <2>3. \A m \in turn : /\ m.chat = chatOf[r] /\ m.by = r /\ m.role \in TurnRoles(r)
                        /\ \A x \in TurnRoles(r) : [chat |-> m.chat, role |-> x, by |-> r] \in turn
    OBVIOUS
  <2>4. [chat |-> chatOf[r], role |-> "assistant", by |-> r] \in turn
    BY DEF TurnRoles, Role
  <2> HIDE DEF turn
  <2>5. PayloadInv'
    BY <2>1 DEF IInv, PayloadInv, payload
  <2>6. TurnInv'
    <3> SUFFICES ASSUME NEW m \in msgs'
                 PROVE  /\ m.chat = chatOf[m.by]
                        /\ m.chat \in chats
                        /\ pc'[m.by] \in {"committed", "aborting", "done", "closed", "killed"}
                        /\ m.role \in TurnRoles(m.by)
                        /\ \A x \in TurnRoles(m.by) :
                             [chat |-> m.chat, role |-> x, by |-> m.by] \in msgs'
      BY <2>1 DEF TurnInv, TurnRoles, payload
    <3>1. CASE m \in msgs
      BY <3>1, <2>1, <2>2 DEF IInv, TurnInv
    <3>2. CASE m \in turn
      BY <3>2, <2>1, <2>3
    <3> QED
      BY <3>1, <3>2, <2>1
  <2>7. CommitInv'
    <3> SUFFICES ASSUME NEW q \in Request, pc'[q] \in {"committed", "done"}, chatOf[q] \in chats
                 PROVE  \E m \in msgs' : m.by = q
      BY <2>1 DEF CommitInv, payload
    <3>1. CASE q = r
      BY <3>1, <2>1, <2>4
    <3>2. CASE q # r
      BY <3>2, <2>1 DEF IInv, CommitInv
    <3> QED
      BY <3>1, <3>2
  <2>8. ErrorInv'
    BY <2>1, <2>3, ErrorUnsent
  <2>9. EmptyChatHasCreator'
    <3> SUFFICES ASSUME NEW d \in chats, \A m \in msgs' : m.chat # d
                 PROVE  \E q \in Request : /\ isNew[q] /\ chatOf[q] = d
                                           /\ pc'[q] \in InFlight \cup {"killed"}
      BY <2>1 DEF EmptyChatHasCreator, MsgsOf, payload
    <3>1. d # chatOf[r]
      BY <2>1, <2>4
    <3>2. PICK q \in Request : isNew[q] /\ chatOf[q] = d /\ pc[q] \in InFlight \cup {"killed"}
      BY <2>1, EmptyChat DEF IInv, EmptyChatHasCreator
    <3> QED
      BY <3>1, <3>2, <2>1
  <2> QED
    BY <2>5, <2>6, <2>7, <2>8, <2>9 DEF IInv
<1>6. ASSUME NEW r \in Request,
             \/ Finish(r) \/ Fail(r)
             \/ Disconnect(r) \/ NeverStarts(r) \/ CleanUpCutOff(r)
      PROVE IInv'
  <2>1. /\ UNCHANGED <<store, payload, sent>> /\ \A q \in Request : q # r => pc'[q] = pc[q]
        /\ \/ pc[r] = "committed" /\ pc'[r] = "done"
           \/ pc[r] \in {"streaming", "persisting"} /\ pc'[r] = "raising"
           \/ pc[r] \in InBody /\ pc'[r] = "aborting"
           \/ pc[r] \in {"prepared"} \cup Unwinding /\ pc'[r] = "killed"
    BY <1>6 DEF Finish, Fail, Disconnect, NeverStarts, CleanUpCutOff, Goto, TypeOK
  <2>2. PayloadInv' /\ TurnInv' /\ CommitInv' /\ EmptyChatHasCreator'
    BY <2>1, MoveRequest DEF InFlight, InBody, Unwinding
  <2>3. msgs' = msgs /\ sent' = sent
    BY <2>1 DEF store
  <2>4. ErrorInv'
    BY <2>1, <2>3, ErrorUnsent DEF InBody, Unwinding
  <2> QED
    BY <2>2, <2>4 DEF IInv
<1>7. ASSUME NEW r \in Request, CleanUp(r) PROVE IInv'
  <2>1. /\ used' = used /\ payload' = payload /\ pc[r] \in Unwinding /\ pc'[r] = "closed"
        /\ \A q \in Request : q # r => pc'[q] = pc[q]
        /\ \A q \in Request : q # r => sent'[q] = sent[q]
        /\ pc[r] # "raising" => sent' = sent
        /\ msgs' \subseteq msgs
    BY <1>7 DEF CleanUp, Goto, TypeOK
  <2>2. chatOf[r] \in Chat
    BY <2>1, ChatStreamAssumption DEF IInv, PayloadInv, TypeOK, Unwinding
  <2>3. PayloadInv' /\ TurnInv' /\ CommitInv' /\ EmptyChatHasCreator'
    <3>1. CASE isNew[r]
      <4>1. chats' = chats \ {chatOf[r]} /\ msgs' = msgs \ MsgsOf(chatOf[r])
        BY <3>1, <1>7 DEF CleanUp
      <4> QED
        BY <4>1, <2>1, <2>2, RemoveChat
    <3>2. CASE ~isNew[r]
      <4>1. UNCHANGED <<chats, msgs>>
        BY <3>2, <1>7 DEF CleanUp
      <4>2. PayloadInv'
        BY <2>1, <4>1 DEF IInv, PayloadInv, payload, Unwinding
      <4>3. TurnInv'
        BY ZenonT(30), <2>1, <4>1 DEF IInv, TurnInv, TurnRoles, payload, TypeOK, Message
      <4>4. CommitInv'
        BY <2>1, <4>1 DEF IInv, CommitInv, payload
      <4>5. EmptyChatHasCreator'
        BY <2>1, <4>1, <3>2 DEF IInv, EmptyChatHasCreator, MsgsOf, payload
      <4> QED
        BY <4>2, <4>3, <4>4, <4>5
    <3> QED
      BY <3>1, <3>2
  <2>4. ErrorInv'
    <3> SUFFICES ASSUME NEW q \in Request, NEW i \in DOMAIN sent'[q], sent'[q][i].type = "error"
                 PROVE  /\ pc'[q] \in {"erroring", "closed", "killed"}
                        /\ \A m \in msgs' : m.by # q
      BY DEF ErrorInv
    <3>1. CASE q = r /\ pc[r] = "raising"
      BY <3>1, <2>1 DEF IInv, TurnInv
    <3>2. CASE q # r \/ pc[r] # "raising"
      BY <3>2, <2>1 DEF IInv, ErrorInv
    <3> QED
      BY <3>1, <3>2
  <2> QED
    BY <2>3, <2>4 DEF IInv
<1>8. ASSUME NEW c \in Chat, DeleteChat(c) PROVE IInv'
  <2>1. /\ chats' = chats \ {c} /\ msgs' = msgs \ MsgsOf(c)
        /\ used' = used /\ payload' = payload /\ pc' = pc /\ sent' = sent
    BY <1>8 DEF DeleteChat
  <2>2. PayloadInv' /\ TurnInv' /\ CommitInv' /\ EmptyChatHasCreator'
    BY <2>1, RemoveChat
  <2>3. ErrorInv'
    BY <2>1 DEF IInv, ErrorInv
  <2> QED
    BY <2>2, <2>3 DEF IInv
<1>9. CASE ServerStop
  <2>1. /\ UNCHANGED <<chats, msgs, used, payload, sent>>
        /\ \A q \in Request : pc'[q] = IF pc[q] \in InFlight THEN "killed" ELSE pc[q]
    BY <1>9 DEF ServerStop, store
  <2>2. PayloadInv'
    BY <2>1 DEF IInv, PayloadInv, payload, InFlight, InBody, Unwinding
  <2>3. TurnInv'
    BY <2>1 DEF IInv, TurnInv, TurnRoles, payload, TypeOK, Message
  <2>4. CommitInv'
    BY <2>1 DEF IInv, CommitInv, payload, InFlight, InBody, Unwinding
  <2>5. ErrorInv'
    BY <2>1 DEF IInv, ErrorInv
  <2>6. EmptyChatHasCreator'
    BY <2>1 DEF IInv, EmptyChatHasCreator, MsgsOf, payload
  <2> QED
    BY <2>2, <2>3, <2>4, <2>5, <2>6 DEF IInv
<1>10. CASE UNCHANGED vars
  BY <1>10 DEF vars, IInv, PayloadInv, TurnInv, TurnRoles, CommitInv, ErrorInv,
               EmptyChatHasCreator, MsgsOf
<1> QED
  BY <1>1, <1>2, <1>3, <1>4, <1>5, <1>6, <1>7, <1>8, <1>9, <1>10 DEF Next, Serve

\* The invariant holds in every reachable state.
THEOREM Invariance == Spec => []IInv
<1>1. Init => IInv
  BY DEF Init, IInv, TypeOK, InFlight, InBody, Unwinding, Over, PayloadInv, TurnInv,
         CommitInv, ErrorInv, EmptyChatHasCreator
<1> QED
  BY <1>1, InvStep, PTL DEF Spec

-----------------------------------------------------------------------------
(* What follows from it. *)

\* No message outlives its chat.
THEOREM MessagesStayInChats == Spec => []MessagesHaveChat
<1>1. IInv => MessagesHaveChat
  BY DEF IInv, TurnInv, MessagesHaveChat
<1> QED
  BY <1>1, Invariance, PTL

\* Disconnects, failures, deletions and server stops leave no question
\* without its answer in the history.
THEOREM TurnsAreWhole == Spec => []NoHalfTurn
<1>1. ASSUME IInv PROVE NoHalfTurn
  <2> SUFFICES ASSUME NEW r \in Request, NEW n \in TurnOf(r)
               PROVE  \E m \in TurnOf(r) :
                        /\ m.role = "assistant"
                        /\ ~regenerate[r] => [m EXCEPT !.role = "user"] \in TurnOf(r)
    BY DEF NoHalfTurn
  <2> DEFINE m(x) == [chat |-> n.chat, role |-> x, by |-> r]
  <2>1. n \in msgs /\ n.by = r
    BY DEF TurnOf
  <2>2. \A x \in TurnRoles(r) : m(x) \in msgs
    BY <1>1, <2>1 DEF IInv, TurnInv
  <2>3. m("assistant") \in TurnOf(r)
    BY <2>2 DEF TurnOf, TurnRoles, Role
  <2>4. ~regenerate[r] => m("user") \in TurnOf(r)
    BY <2>2 DEF TurnOf, TurnRoles, Role
  <2>5. [m("assistant") EXCEPT !.role = "user"] = m("user")
    OBVIOUS
  <2> QED
    BY <2>3, <2>4, <2>5
<1> QED
  BY <1>1, Invariance, PTL

\* What the client was told and what the store holds agree.
THEOREM OutcomesAgree == Spec => []OutcomeMatchesStore
<1>1. ASSUME IInv PROVE OutcomeMatchesStore
  <2> SUFFICES ASSUME NEW r \in Request
               PROVE  /\ "error" \in Kinds(r) => TurnOf(r) = {}
                      /\ pc[r] = "done" /\ chatOf[r] \in chats => TurnOf(r) # {}
    BY DEF OutcomeMatchesStore
  <2>1. "error" \in Kinds(r) => TurnOf(r) = {}
    BY <1>1 DEF IInv, ErrorInv, Kinds, TurnOf
  <2>2. pc[r] = "done" /\ chatOf[r] \in chats => TurnOf(r) # {}
    BY <1>1 DEF IInv, CommitInv, TurnOf
  <2> QED
    BY <2>1, <2>2
<1> QED
  BY <1>1, Invariance, PTL

\* Requests that fail or are abandoned leave no empty chat behind, unless
\* their clean-up itself is cut off.
THEOREM EmptyChatsAreAccountedFor == Spec => []EmptyChatHasCreator
<1>1. IInv => EmptyChatHasCreator
  BY DEF IInv
<1> QED
  BY <1>1, Invariance, PTL

\* A chat disappears only by a deletion, or in the clean-up of the request
\* that created it.
LEMMA ChatGoes ==
  ASSUME IInv, Next, NEW c \in chats, c \notin chats'
  PROVE  \/ DeleteChat(c)
         \/ \E r \in Request : CleanUp(r) /\ isNew[r] /\ chatOf[r] = c
<1>1. ASSUME NEW d \in Chat, DeleteChat(d) PROVE d = c
  BY <1>1 DEF DeleteChat
<1>2. ASSUME NEW r \in Request, CleanUp(r) PROVE isNew[r] /\ chatOf[r] = c
  BY <1>2 DEF CleanUp
<1>3. (\E d \in Chat : DeleteChat(d)) \/ (\E r \in Request : CleanUp(r))
  BY DEF Next, Serve, CreateChat, ResolveChat, StartStream, Stream, StreamStart, StreamDelta,
         StreamEnd, StreamError, Persist, Finish, Fail, Disconnect, NeverStarts, CleanUpCutOff,
         ServerStop, store
<1> QED
  BY <1>1, <1>2, <1>3

\* Once its first turn is acknowledged a chat is only ever deleted by a user.
THEOREM AcknowledgedChatsSurvive == Spec => AcknowledgedChatSurvives
<1>1. ASSUME IInv, [Next]_vars, NEW r \in Request, pc[r] = "done", isNew[r], chatOf[r] \in chats
      PROVE  chatOf[r] \in chats' \/ DeleteChat(chatOf[r])
  <2>1. CASE UNCHANGED vars
    BY <1>1, <2>1 DEF vars
  <2>2. CASE Next /\ chatOf[r] \notin chats'
    <3>1. ASSUME NEW q \in Request, CleanUp(q), isNew[q], chatOf[q] = chatOf[r] PROVE FALSE
      <4>1. q = r
        BY <1>1, <3>1 DEF IInv, PayloadInv
      <4> QED
        BY <1>1, <3>1, <4>1 DEF CleanUp, Unwinding
    <3> QED
      BY <1>1, <2>2, <3>1, ChatGoes
  <2> QED
    BY <1>1, <2>1, <2>2
<1>2. IInv /\ [Next]_vars =>
        [\A r \in Request : pc[r] = "done" /\ isNew[r] /\ chatOf[r] \in chats =>
           chatOf[r] \in chats' \/ DeleteChat(chatOf[r])]_vars
  BY <1>1
<1> QED
  BY <1>2, Invariance, PTL DEF Spec, AcknowledgedChatSurvives

\* The implementation of the store of whole turns: every step of the
\* interleaved requests creates a chat, adds a whole turn, removes a chat, or
\* leaves the database as it is.
THEOREM Refinement == Spec => ImplementsTurnStore
<1>1. Init => Store!Init
  BY DEF Init, Store!Init
<1>2. ASSUME IInv, [Next]_vars PROVE [Store!Next]_(Store!vars)
  <2> USE DEF Store!vars, Store!Next
  <2>1. ASSUME NEW r \in Request, NEW c \in Chat, CreateChat(r, c) PROVE Store!Create(c)
    BY <1>2, <2>1 DEF IInv, TypeOK, CreateChat, Store!Create
  <2>2. ASSUME NEW r \in Request, Persist(r)
        PROVE  chatOf[r] \in Chat /\ Store!AddTurn(chatOf[r], r)
    <3>1. chatOf[r] \in Chat
      BY <1>2, <2>2 DEF IInv, TypeOK, Persist
    <3>2. \A m \in msgs : m.by # r
      BY <1>2, <2>2 DEF IInv, TurnInv, Persist
    <3> QED
      BY <2>2, <3>1, <3>2 DEF Persist, Role, Store!AddTurn
  <2>3. ASSUME NEW c \in Chat, DeleteChat(c) PROVE Store!Remove(c)
    BY <2>3 DEF DeleteChat, MsgsOf, Store!Remove
  <2>4. ASSUME NEW r \in Request, CleanUp(r)
        PROVE  UNCHANGED <<chats, msgs>> \/ (chatOf[r] \in Chat /\ Store!Remove(chatOf[r]))
    <3>1. chatOf[r] \in Chat
      BY <1>2, <2>4, ChatStreamAssumption DEF IInv, TypeOK, PayloadInv, CleanUp, Unwinding
    <3>2. CASE chatOf[r] \in chats /\ isNew[r]
      BY <2>4, <3>1, <3>2 DEF CleanUp, MsgsOf, Store!Remove
    <3>3. CASE chatOf[r] \notin chats \/ ~isNew[r]
      BY <1>2, <2>4, <3>3 DEF IInv, TurnInv, CleanUp, MsgsOf
    <3> QED
      BY <3>2, <3>3
  <2>5. ASSUME NEW r \in Request, NEW c \in Chat, ResolveChat(r, c) PROVE UNCHANGED <<chats, msgs>>
    BY <2>5 DEF ResolveChat, store
  <2>6. ASSUME NEW r \in Request,
               \/ StartStream(r) \/ Stream(r) \/ Finish(r) \/ Fail(r)
               \/ Disconnect(r) \/ NeverStarts(r) \/ CleanUpCutOff(r)
        PROVE  UNCHANGED <<chats, msgs>>
    BY <2>6 DEF StartStream, Stream, StreamStart, StreamDelta, StreamEnd, StreamError, Finish,
                Fail, Disconnect, NeverStarts, CleanUpCutOff, store
  <2>7. ASSUME ServerStop \/ UNCHANGED vars PROVE UNCHANGED <<chats, msgs>>
    BY <2>7 DEF ServerStop, store, vars
  <2> QED
    BY <1>2, <2>1, <2>2, <2>3, <2>4, <2>5, <2>6, <2>7 DEF Next, Serve
<1> QED
  BY <1>1, <1>2, Invariance, PTL DEF Spec, ImplementsTurnStore, Store!Spec
=============================================================================
