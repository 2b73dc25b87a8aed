--------------------------- MODULE ChatPageProofs ---------------------------
(***************************************************************************)
(* The safety properties of ChatPage, for any number of generations, of    *)
(* chats that are opened and of chats.  Each part of the invariant is      *)
(* about one thing that the page and the server have to agree on, has a    *)
(* section, and is kept by every step: by most of them for the same        *)
(* reason, so that a section begins with the reasons (a step that moves    *)
(* nothing of this, one that starts a generation, one that ends it).       *)
(***************************************************************************)
EXTENDS ChatPage, SequenceTheorems, WellFoundedInduction, TLAPS

USE ChatPageAssumption

-----------------------------------------------------------------------------
(* What the library's operators give. *)

\* The least of a set of numbers: induction over the numbers, for sets.
LEMMA LeastNat ==
  ASSUME NEW T \in SUBSET Nat, T # {}
  PROVE  \E x \in T : \A y \in T : x <= y
<1> DEFINE Less == {p \in Nat \X Nat : p[1] < p[2]}
<1>1. IsWellFoundedOn(Less, Nat)
  BY NatLessThanWellFounded DEF OpToRel
<1>2. PICK x \in T : \A y \in T : ~(<<y, x>> \in Less)
  <2> HIDE DEF Less
  <2> QED BY <1>1, WFMin
<1>3. ASSUME NEW y \in T PROVE x <= y
  <2>1. <<y, x>> \notin Less /\ x \in Nat /\ y \in Nat
    BY <1>2
  <2>2. y < x => <<y, x>> \in Less
    BY <2>1
  <2> QED
    BY <2>1, <2>2
<1> QED
  BY <1>3

\* The greatest of a bounded set of numbers.
LEMMA MaxOf ==
  ASSUME NEW n \in Nat, NEW T \in SUBSET (0..n), T # {}
  PROVE  Max(T) \in T /\ \A y \in T : Max(T) >= y
<1> DEFINE U == {x \in Nat : n - x \in T}
<1>1. PICK t \in T : TRUE
  OBVIOUS
<1>2. n - t \in U
  OBVIOUS
<1>3. PICK u \in U : \A y \in U : u <= y
  BY <1>2, LeastNat
<1>4. ASSUME NEW y \in T PROVE n - u >= y
  <2>1. n - y \in U /\ u \in Nat /\ y \in Nat
    OBVIOUS
  <2>2. u <= n - y
    BY <1>3, <2>1
  <2> QED
    BY <2>1, <2>2
<1>5. \E x \in T : \A y \in T : x >= y
  <2>1. n - u \in T
    OBVIOUS
  <2> QED BY <1>4, <2>1
<1> QED
  BY <1>5 DEF Max

\* Of two notes the greater remains.
LEMMA Noted ==
  ASSUME NEW a \in {Plain, Irregular, Overlapping}, NEW b \in {Plain, Irregular, Overlapping}
  PROVE  Max({a, b}) = IF a >= b THEN a ELSE b
BY DEF Max, Plain, Irregular, Overlapping

\* Where the last answer is.
LEMMA LastAnswer ==
  ASSUME NEW s \in Seq(Message)
  PROVE  SelectLastInSeq(s, LAMBDA m : m.role = "assistant") \in 0..Len(s)
<1> DEFINE I == {i \in 1..Len(s) : s[i].role = "assistant"}
<1>1. SelectLastInSeq(s, LAMBDA m : m.role = "assistant") = IF I # {} THEN Max(I) ELSE 0
  BY DEF SelectLastInSeq
<1>2. I # {} => Max(I) \in I
  <2>1. I \in SUBSET (0..Len(s)) /\ Len(s) \in Nat
    OBVIOUS
  <2> HIDE DEF I
  <2> QED BY <2>1, MaxOf
<1> QED BY <1>1, <1>2

-----------------------------------------------------------------------------
(* Types. *)

\* A generation; that a chat is one of Chat is said with the count of chats.
GenerationOK == [at : Place, regenerate : BOOLEAN, id : Nat,
                 chat : Nat \cup {None}, last : Message \cup {None},
                 aborted : BOOLEAN, srv : AtServer, in : Nat \cup {None}]
Opening == [chat : Nat, at : {"asked", "served", "missing", "over"}, body : Seq(Message)]

SignalsOK == /\ active \in Nat \cup {None} /\ messages \in Seq(Message)
             /\ generating \in BOOLEAN /\ abort \in Started \cup {None} /\ asked \in BOOLEAN
ViewOK    == /\ button \in {"send", "stop"} /\ errorShown \in BOOLEAN /\ counter \in Nat
             /\ course \in {Plain, Irregular, Overlapping}
GensOK    == gens \in Seq(GenerationOK) /\ Len(gens) <= MaxGens
SidebarOK == opens \in Seq(Opening) /\ listed \subseteq Nat
ServerOK  == /\ created \in Nat /\ DOMAIN chats \subseteq 1..created
             /\ \A c \in DOMAIN chats : chats[c] \in Seq(Message)

TypeOK == SignalsOK /\ ViewOK /\ GensOK /\ SidebarOK /\ ServerOK

\* The same generations, each with fields of their types.
Same(t, s) == t \in Seq(GenerationOK) /\ Len(t) = Len(s)

\* Setting one field of one generation keeps all of them of their type.
LEMMA FieldTypes ==
  ASSUME NEW s \in Seq(GenerationOK), NEW g \in DOMAIN s
  PROVE  /\ \A v \in Place : Same([s EXCEPT ![g].at = v], s)
         /\ \A v \in Nat : Same([s EXCEPT ![g].id = v], s)
         /\ \A v \in Nat \cup {None} : Same([s EXCEPT ![g].chat = v], s)
         /\ \A v \in Message \cup {None} : Same([s EXCEPT ![g].last = v], s)
         /\ \A v \in BOOLEAN : Same([s EXCEPT ![g].aborted = v], s)
         /\ \A v \in AtServer : Same([s EXCEPT ![g].srv = v], s)
         /\ \A v \in Nat \cup {None} : Same([s EXCEPT ![g].in = v], s)
<1>0. s[g] \in GenerationOK /\ g \in 1..Len(s)
  OBVIOUS
<1>1. ASSUME NEW r \in GenerationOK PROVE Same([s EXCEPT ![g] = r], s)
  BY <1>0, ExceptSeq DEF Same
<1>2. ASSUME NEW v \in Place PROVE [s[g] EXCEPT !.at = v] \in GenerationOK
  BY <1>0 DEF GenerationOK
<1>3. ASSUME NEW v \in Nat PROVE [s[g] EXCEPT !.id = v] \in GenerationOK
  BY <1>0 DEF GenerationOK
<1>4. ASSUME NEW v \in Nat \cup {None} PROVE [s[g] EXCEPT !.chat = v] \in GenerationOK
  BY <1>0 DEF GenerationOK
<1>5. ASSUME NEW v \in Message \cup {None} PROVE [s[g] EXCEPT !.last = v] \in GenerationOK
  BY <1>0 DEF GenerationOK
<1>6. ASSUME NEW v \in BOOLEAN PROVE [s[g] EXCEPT !.aborted = v] \in GenerationOK
  BY <1>0 DEF GenerationOK
<1>7. ASSUME NEW v \in AtServer PROVE [s[g] EXCEPT !.srv = v] \in GenerationOK
  BY <1>0 DEF GenerationOK
<1>8. ASSUME NEW v \in Nat \cup {None} PROVE [s[g] EXCEPT !.in = v] \in GenerationOK
  BY <1>0 DEF GenerationOK
<1> QED
  BY <1>0, <1>1, <1>2, <1>3, <1>4, <1>5, <1>6, <1>7, <1>8

\* So does starting a generation.
LEMMA NewTypes ==
  ASSUME GensOK, Len(gens) < MaxGens, NEW at \in Place, NEW regen \in BOOLEAN
  PROVE  LET t == Append(gens, NewGeneration(at, regen))
         IN  /\ t \in Seq(GenerationOK) /\ Len(t) = Len(gens) + 1 /\ Len(t) <= MaxGens
             /\ t[Len(t)] = NewGeneration(at, regen)
             /\ \A g \in Started : g \in DOMAIN t /\ t[g] = gens[g]
             /\ \A g \in DOMAIN t : g = Len(t) \/ g \in Started
<1>1. NewGeneration(at, regen) \in GenerationOK
  BY DEF NewGeneration, GenerationOK, AtServer
<1> HIDE DEF NewGeneration
<1> QED
  BY <1>1, AppendProperties DEF GensOK, Started

\* And a signal to one.
LEMMA AbortTypes ==
  ASSUME GensOK, NEW g \in Started \cup {None} PROVE Same(Aborted(g), gens)
BY FieldTypes DEF GensOK, Aborted, Started, Same

\* An empty list of messages is one.
LEMMA EmptyMessages == <<>> \in Seq(Message)
BY EmptySeq

\* What a turn adds to a list of messages are messages.
LEMMA MessageTypes ==
  ASSUME NEW g \in Gen PROVE Question(g) \in Message /\ Answer(g) \in Message
BY DEF Gen, Question, Answer, Message

\* What ends the reading of an answer: with an error, with text, with nothing.
Errs(g) == gens[g].at \in {"connecting", "reading"} /\ SettleError(g)
Left(g) == gens[g].at = "reading" /\ (gens[g].aborted \/ gens[g].srv = "stored")
Answers(g)     == Left(g) /\ SettleText(g)
LeavesEmpty(g) == Left(g) /\ SettleNothing(g)

\* The steps there are.
LEMMA Cases ==
  ASSUME Next
  PROVE  \/ Send \/ Regenerate \/ Retry \/ Stop \/ NewChat
         \/ \E i \in DOMAIN messages : Edit(i)
         \/ \E c \in Chat : OpenChat(c) \/ Delete(c) \/ DeleteAnswered(c)
         \/ \E i \in DOMAIN opens : OpenServed(i) \/ OpenAnswered(i)
         \/ \E g \in Started : \/ EditStarts(g) \/ Post(g) \/ Connected(g) \/ Errs(g) \/ Answers(g)
                              \/ LeavesEmpty(g) \/ Shown(g) \/ Ended(g)
                              \/ Resolve(g) \/ Store(g) \/ Fail(g) \/ Gone(g)
BY DEF Next, User, Run, Serve, Broken, Refused, ReadError, ReadEnd, AbortSeen, Errs, Left, Answers,
       LeavesEmpty

\* So does moving one on, at the page or at the server.
LEMMA GensTypes ==
  ASSUME GensOK, NEW g \in Started
  PROVE  /\ \A v \in Place : Same([gens EXCEPT ![g].at = v], gens)
         /\ \A v \in AtServer : Same([gens EXCEPT ![g].srv = v], gens)
BY FieldTypes DEF GensOK, Started

\* Leaving the loop over the frames keeps the types.
LEMMA LeaveTypes ==
  ASSUME GensOK, NEW g \in Started, NEW at \in Place PROVE Same(Leave(g, at), gens)
<1> DEFINE s == [gens EXCEPT ![g].at = at]
           v == IF gens[g].aborted THEN gens[g].srv ELSE "read"
<1>1. gens \in Seq(GenerationOK) /\ g \in DOMAIN gens
  BY DEF GensOK, Started
<1>2. Same(s, gens)
  BY <1>1, FieldTypes
<1>3. v \in AtServer /\ s[g].srv = gens[g].srv
  <2>1. gens[g] \in GenerationOK
    BY <1>1
  <2> QED
    BY <1>1, <2>1 DEF GenerationOK, AtServer
<1>4. Leave(g, at) = [s EXCEPT ![g].srv = v]
  BY <1>1, <1>3 DEF Leave
<1>5. Same([s EXCEPT ![g].srv = v], s)
  <2>1. s \in Seq(GenerationOK) /\ g \in DOMAIN s
    BY <1>1, <1>2 DEF Same
  <2> HIDE DEF s, v
  <2> QED
    BY <2>1, <1>3, FieldTypes
<1> QED
  BY <1>2, <1>4, <1>5 DEF Same

\* Every step keeps the types of the generations.
LEMMA GensStep == TypeOK /\ Next => GensOK'
<1> SUFFICES ASSUME TypeOK, Next PROVE GensOK'
  OBVIOUS
<1>0. SignalsOK /\ ViewOK /\ GensOK /\ SidebarOK /\ ServerOK /\ Len(gens) \in Nat
  BY LenProperties DEF TypeOK, GensOK
<1>1. ASSUME Send PROVE GensOK'
  BY <1>0, <1>1, NewTypes DEF Send, GensOK, signals, view, sidebar, server, Started, Begin, Place
<1>2. ASSUME Regenerate PROVE GensOK'
  BY <1>0, <1>2, NewTypes DEF Regenerate, GensOK, signals, view, sidebar, server, Started, Begin, Place
<1>3. ASSUME Retry PROVE GensOK'
  BY <1>0, <1>3, NewTypes DEF Retry, GensOK, signals, view, sidebar, server, Started, Begin, Place
<1>4. ASSUME Stop PROVE GensOK'
  BY <1>0, <1>4, AbortTypes DEF Stop, GensOK, signals, view, sidebar, server, Started, SignalsOK, Same
<1>5. ASSUME NewChat PROVE GensOK'
  BY <1>0, <1>5, AbortTypes DEF NewChat, GensOK, signals, view, sidebar, server, Started, StartNewChat, Reset, SignalsOK, Same
<1>6. ASSUME NEW i \in DOMAIN messages, Edit(i) PROVE GensOK'
  BY <1>0, <1>6, NewTypes DEF Edit, GensOK, signals, view, sidebar, server, Started, Place
<1>7. ASSUME NEW c \in Chat, OpenChat(c) PROVE GensOK'
  BY <1>0, <1>7 DEF OpenChat, GensOK, signals, view, sidebar, server, Started
<1>8. ASSUME NEW c \in Chat, Delete(c) PROVE GensOK'
  BY <1>0, <1>8 DEF Delete, GensOK, signals, view, sidebar, server, Started, Without
<1>9. ASSUME NEW g \in Started, EditStarts(g) PROVE GensOK'
  BY <1>0, <1>9, GensTypes DEF EditStarts, GensOK, signals, view, sidebar, server, Started, Same, Place, AtServer
<1>10. ASSUME NEW g \in Started, Post(g) PROVE GensOK'
  <2> DEFINE m == IF messages = <<>> THEN None ELSE Last(messages)
             s1 == [gens EXCEPT ![g].at = "connecting"]
             s2 == [s1 EXCEPT ![g].id = counter + 1]
             s3 == [s2 EXCEPT ![g].chat = active]
             s4 == [s3 EXCEPT ![g].last = m]
             s5 == [s4 EXCEPT ![g].srv = "asked"]
  <2>1. gens' = s5
    BY <1>10 DEF Post
  <2>2. gens \in Seq(GenerationOK) /\ g \in DOMAIN gens
    BY <1>0 DEF GensOK, Started
  <2>3. /\ "connecting" \in Place /\ counter + 1 \in Nat /\ active \in Nat \cup {None}
        /\ m \in Message \cup {None} /\ "asked" \in AtServer
    <3>1. messages # <<>> => Last(messages) \in Message
      BY <1>0 DEF SignalsOK, Last
    <3> QED
      BY <1>0, <3>1 DEF Place, AtServer, SignalsOK, ViewOK
  <2> HIDE DEF m
  <2>4. Same(s1, gens)
    BY <2>2, <2>3, FieldTypes
  <2> HIDE DEF s1
  <2>5. Same(s2, s1)
    BY <2>2, <2>3, <2>4, FieldTypes DEF Same
  <2> HIDE DEF s2
  <2>6. Same(s3, s2)
    BY <2>2, <2>3, <2>4, <2>5, FieldTypes DEF Same
  <2> HIDE DEF s3
  <2>7. Same(s4, s3)
    <3>1. s3 \in Seq(GenerationOK) /\ g \in DOMAIN s3
      BY <2>2, <2>4, <2>5, <2>6 DEF Same
    <3>2. m \in Message \cup {None}
      BY <2>3
    <3> QED
      BY <3>1, <3>2, FieldTypes
  <2> HIDE DEF s4
  <2>8. Same(s5, s4)
    BY <2>2, <2>3, <2>4, <2>5, <2>6, <2>7, FieldTypes DEF Same
  <2> QED
    BY <1>0, <2>1, <2>4, <2>5, <2>6, <2>7, <2>8 DEF Same, GensOK
<1>11. ASSUME NEW g \in Started, Connected(g) PROVE GensOK'
  BY <1>0, <1>11, GensTypes DEF Connected, GensOK, signals, view, sidebar, server, Started, Same, Place, AtServer
<1>12. ASSUME NEW g \in Started, Errs(g) PROVE GensOK'
  BY <1>0, <1>12, GensTypes DEF Errs, GensOK, signals, view, sidebar, server, Started, SettleError, Reset, Same, Place, AtServer
<1>13. ASSUME NEW g \in Started, Answers(g) PROVE GensOK'
  BY <1>0, <1>13, LeaveTypes DEF Answers, GensOK, signals, view, sidebar, server, Started, Left, SettleText, Place, Same
<1>14. ASSUME NEW g \in Started, LeavesEmpty(g) PROVE GensOK'
  BY <1>0, <1>14, LeaveTypes DEF LeavesEmpty, GensOK, signals, view, sidebar, server, Started, Left, SettleNothing, Reset, Place, Same
<1>15. ASSUME NEW g \in Started, Shown(g) PROVE GensOK'
  BY <1>0, <1>15, GensTypes DEF Shown, GensOK, signals, view, sidebar, server, Started, Reset, Same, Place, AtServer
<1>16. ASSUME NEW g \in Started, Ended(g) PROVE GensOK'
  BY <1>0, <1>16, GensTypes DEF Ended, GensOK, signals, view, sidebar, server, Started, Same, Place, AtServer
<1>17. ASSUME NEW g \in Started, Resolve(g) PROVE GensOK'
  <2>1. gens \in Seq(GenerationOK) /\ g \in DOMAIN gens /\ created + 1 \in Nat
    BY <1>0 DEF GensOK, Started, ServerOK
  <2>2. CASE gens' = [gens EXCEPT ![g].srv = "rejected"]
    <3>1. Same(gens', gens)
      BY <1>0, <2>2, GensTypes DEF AtServer
    <3> QED
      BY <1>0, <3>1 DEF GensOK, Same
  <2>3. ASSUME NEW in \in Nat, gens' = [gens EXCEPT ![g].srv = "running", ![g].in = in]
        PROVE  GensOK'
    <3> DEFINE s == [gens EXCEPT ![g].srv = "running"]
    <3>1. gens' = [s EXCEPT ![g].in = in]
      BY <2>3
    <3>2. Same(s, gens)
      BY <2>1, FieldTypes DEF AtServer
    <3> HIDE DEF s
    <3>3. Same(gens', s)
      BY <2>1, <3>1, <3>2, FieldTypes DEF Same
    <3> QED
      BY <1>0, <3>2, <3>3 DEF Same, GensOK
  <2>4. gens[g].chat \in DOMAIN chats => gens[g].chat \in Nat
    BY <1>0 DEF ServerOK
  <2> QED
    BY <1>17, <2>1, <2>2, <2>3, <2>4 DEF Resolve
<1>18. ASSUME NEW g \in Started, Store(g) PROVE GensOK'
  BY <1>0, <1>18, GensTypes DEF Store, GensOK, signals, view, sidebar, server, Started, Same, Place, AtServer
<1>19. ASSUME NEW g \in Started, Fail(g) PROVE GensOK'
  BY <1>0, <1>19, GensTypes DEF Fail, GensOK, signals, view, sidebar, server, Started, CleanedUp, Without, Same, Place, AtServer
<1>20. ASSUME NEW g \in Started, Gone(g) PROVE GensOK'
  BY <1>0, <1>20, GensTypes DEF Gone, GensOK, signals, view, sidebar, server, Started, CleanedUp, Without, Same, Place, AtServer
<1>21. ASSUME NEW i \in DOMAIN opens, OpenServed(i) PROVE GensOK'
  BY <1>0, <1>21 DEF OpenServed, GensOK, signals, view, sidebar, server, Started
<1>22. ASSUME NEW i \in DOMAIN opens, OpenAnswered(i) PROVE GensOK'
  BY <1>0, <1>22 DEF OpenAnswered, GensOK, signals, view, sidebar, server, Started
<1>23. ASSUME NEW c \in Chat, DeleteAnswered(c) PROVE GensOK'
  BY <1>0, <1>23, AbortTypes DEF DeleteAnswered, GensOK, signals, view, sidebar, server, Started, StartNewChat, Reset, SignalsOK, Same
<1> QED
  BY Cases, <1>1, <1>2, <1>3, <1>4, <1>5, <1>6, <1>7, <1>8, <1>9, <1>10, <1>11, <1>12, <1>13, <1>14, <1>15, <1>16, <1>17, <1>18, <1>19, <1>20, <1>21, <1>22, <1>23

\* No generation is forgotten.
LEMMA GrowStep == TypeOK /\ Next => Started \subseteq Started'
<1> SUFFICES ASSUME TypeOK, Next PROVE Started \subseteq Started'
  OBVIOUS
<1>0. SignalsOK /\ ViewOK /\ GensOK /\ SidebarOK /\ ServerOK /\ Len(gens) \in Nat
  BY LenProperties DEF TypeOK, GensOK
<1>1. ASSUME Send PROVE Started \subseteq Started'
  BY <1>0, <1>1, NewTypes DEF Send, GensOK, signals, view, sidebar, server, Started, Begin, Place
<1>2. ASSUME Regenerate PROVE Started \subseteq Started'
  BY <1>0, <1>2, NewTypes DEF Regenerate, GensOK, signals, view, sidebar, server, Started, Begin, Place
<1>3. ASSUME Retry PROVE Started \subseteq Started'
  BY <1>0, <1>3, NewTypes DEF Retry, GensOK, signals, view, sidebar, server, Started, Begin, Place
<1>4. ASSUME Stop PROVE Started \subseteq Started'
  BY <1>0, <1>4 DEF Stop, GensOK, signals, view, sidebar, server, Started, SignalsOK, Aborted
<1>5. ASSUME NewChat PROVE Started \subseteq Started'
  BY <1>0, <1>5 DEF NewChat, GensOK, signals, view, sidebar, server, Started, StartNewChat, Reset, SignalsOK, Aborted
<1>6. ASSUME NEW i \in DOMAIN messages, Edit(i) PROVE Started \subseteq Started'
  BY <1>0, <1>6, NewTypes DEF Edit, GensOK, signals, view, sidebar, server, Started, Place
<1>7. ASSUME NEW c \in Chat, OpenChat(c) PROVE Started \subseteq Started'
  BY <1>0, <1>7 DEF OpenChat, GensOK, signals, view, sidebar, server, Started
<1>8. ASSUME NEW c \in Chat, Delete(c) PROVE Started \subseteq Started'
  BY <1>0, <1>8 DEF Delete, GensOK, signals, view, sidebar, server, Started, Without
<1>9. ASSUME NEW g \in Started, EditStarts(g) PROVE Started \subseteq Started'
  BY <1>0, <1>9 DEF EditStarts, GensOK, signals, view, sidebar, server, Started
<1>10. ASSUME NEW g \in Started, Post(g) PROVE Started \subseteq Started'
  BY <1>0, <1>10 DEF Post, GensOK, signals, view, sidebar, server, Started
<1>11. ASSUME NEW g \in Started, Connected(g) PROVE Started \subseteq Started'
  BY <1>0, <1>11 DEF Connected, GensOK, signals, view, sidebar, server, Started
<1>12. ASSUME NEW g \in Started, Errs(g) PROVE Started \subseteq Started'
  BY <1>0, <1>12 DEF Errs, GensOK, signals, view, sidebar, server, Started, SettleError, Reset
<1>13. ASSUME NEW g \in Started, Answers(g) PROVE Started \subseteq Started'
  BY <1>0, <1>13 DEF Answers, GensOK, signals, view, sidebar, server, Started, Left, SettleText, Leave
<1>14. ASSUME NEW g \in Started, LeavesEmpty(g) PROVE Started \subseteq Started'
  BY <1>0, <1>14 DEF LeavesEmpty, GensOK, signals, view, sidebar, server, Started, Left, SettleNothing, Reset, Leave
<1>15. ASSUME NEW g \in Started, Shown(g) PROVE Started \subseteq Started'
  BY <1>0, <1>15 DEF Shown, GensOK, signals, view, sidebar, server, Started, Reset
<1>16. ASSUME NEW g \in Started, Ended(g) PROVE Started \subseteq Started'
  BY <1>0, <1>16 DEF Ended, GensOK, signals, view, sidebar, server, Started
<1>17. ASSUME NEW g \in Started, Resolve(g) PROVE Started \subseteq Started'
  BY <1>0, <1>17 DEF Resolve, GensOK, signals, view, sidebar, server, Started
<1>18. ASSUME NEW g \in Started, Store(g) PROVE Started \subseteq Started'
  BY <1>0, <1>18 DEF Store, GensOK, signals, view, sidebar, server, Started
<1>19. ASSUME NEW g \in Started, Fail(g) PROVE Started \subseteq Started'
  BY <1>0, <1>19 DEF Fail, GensOK, signals, view, sidebar, server, Started, CleanedUp, Without
<1>20. ASSUME NEW g \in Started, Gone(g) PROVE Started \subseteq Started'
  BY <1>0, <1>20 DEF Gone, GensOK, signals, view, sidebar, server, Started, CleanedUp, Without
<1>21. ASSUME NEW i \in DOMAIN opens, OpenServed(i) PROVE Started \subseteq Started'
  BY <1>0, <1>21 DEF OpenServed, GensOK, signals, view, sidebar, server, Started
<1>22. ASSUME NEW i \in DOMAIN opens, OpenAnswered(i) PROVE Started \subseteq Started'
  BY <1>0, <1>22 DEF OpenAnswered, GensOK, signals, view, sidebar, server, Started
<1>23. ASSUME NEW c \in Chat, DeleteAnswered(c) PROVE Started \subseteq Started'
  BY <1>0, <1>23 DEF DeleteAnswered, GensOK, signals, view, sidebar, server, Started, StartNewChat, Reset, SignalsOK, Aborted
<1> QED
  BY Cases, <1>1, <1>2, <1>3, <1>4, <1>5, <1>6, <1>7, <1>8, <1>9, <1>10, <1>11, <1>12, <1>13, <1>14, <1>15, <1>16, <1>17, <1>18, <1>19, <1>20, <1>21, <1>22, <1>23

\* The list of messages, isGenerating and the abort controller.
LEMMA SignalsStep == TypeOK /\ Next => SignalsOK'
<1> SUFFICES ASSUME TypeOK, Next PROVE SignalsOK'
  OBVIOUS
<1>0. SignalsOK /\ ViewOK /\ GensOK /\ SidebarOK /\ ServerOK /\ Len(gens) \in Nat
  BY LenProperties DEF TypeOK, GensOK
<1>s. Started \subseteq Started'
  BY GrowStep
<1>1. ASSUME Send PROVE SignalsOK'
  BY <1>0, <1>1, <1>s, MessageTypes DEF Send, SignalsOK, signals, view, sidebar, server, Begin, Gen, GensOK
<1>2. ASSUME Regenerate PROVE SignalsOK'
  BY <1>0, <1>2, <1>s, LastAnswer DEF Regenerate, SignalsOK, signals, view, sidebar, server, Begin
<1>3. ASSUME Retry PROVE SignalsOK'
  BY <1>0, <1>3, <1>s DEF Retry, SignalsOK, signals, view, sidebar, server, Begin
<1>4. ASSUME Stop PROVE SignalsOK'
  BY <1>0, <1>4, <1>s DEF Stop, SignalsOK, signals, view, sidebar, server
<1>5. ASSUME NewChat PROVE SignalsOK'
  BY <1>0, <1>5, <1>s, EmptyMessages DEF NewChat, SignalsOK, signals, view, sidebar, server, StartNewChat, Reset
<1>6. ASSUME NEW i \in DOMAIN messages, Edit(i) PROVE SignalsOK'
  BY <1>0, <1>6, <1>s, MessageTypes DEF Edit, SignalsOK, signals, view, sidebar, server, Gen, GensOK
<1>7. ASSUME NEW c \in Chat, OpenChat(c) PROVE SignalsOK'
  BY <1>0, <1>7, <1>s DEF OpenChat, SignalsOK, signals, view, sidebar, server, Chat
<1>8. ASSUME NEW c \in Chat, Delete(c) PROVE SignalsOK'
  BY <1>0, <1>8, <1>s DEF Delete, SignalsOK, signals, view, sidebar, server, Without
<1>9. ASSUME NEW g \in Started, EditStarts(g) PROVE SignalsOK'
  BY <1>0, <1>9, <1>s DEF EditStarts, SignalsOK, signals, view, sidebar, server
<1>10. ASSUME NEW g \in Started, Post(g) PROVE SignalsOK'
  BY <1>0, <1>10, <1>s DEF Post, SignalsOK, signals, view, sidebar, server
<1>11. ASSUME NEW g \in Started, Connected(g) PROVE SignalsOK'
  BY <1>0, <1>11, <1>s DEF Connected, SignalsOK, signals, view, sidebar, server
<1>12. ASSUME NEW g \in Started, Errs(g) PROVE SignalsOK'
  BY <1>0, <1>12, <1>s DEF Errs, SignalsOK, signals, view, sidebar, server, SettleError, Reset
<1>13. ASSUME NEW g \in Started, Answers(g) PROVE SignalsOK'
  <2>1. g \in Gen /\ gens[g].in \in Nat \cup {None}
    <3>1. gens[g] \in GenerationOK /\ g \in Gen
      BY <1>0 DEF GensOK, Started, Gen
    <3> QED
      BY <3>1 DEF GenerationOK
  <2>2. messages' \in Seq(Message)
    BY <1>0, <1>13, <2>1, MessageTypes DEF Answers, SettleText, SignalsOK
  <2> QED
    BY <1>0, <1>s, <1>13, <2>1, <2>2 DEF Answers, SettleText, SignalsOK
<1>14. ASSUME NEW g \in Started, LeavesEmpty(g) PROVE SignalsOK'
  BY <1>0, <1>14, <1>s DEF LeavesEmpty, SignalsOK, signals, view, sidebar, server, Left, SettleNothing, Reset
<1>15. ASSUME NEW g \in Started, Shown(g) PROVE SignalsOK'
  BY <1>0, <1>15, <1>s DEF Shown, SignalsOK, signals, view, sidebar, server, Reset
<1>16. ASSUME NEW g \in Started, Ended(g) PROVE SignalsOK'
  BY <1>0, <1>16, <1>s DEF Ended, SignalsOK, signals, view, sidebar, server
<1>17. ASSUME NEW g \in Started, Resolve(g) PROVE SignalsOK'
  BY <1>0, <1>17, <1>s DEF Resolve, SignalsOK, signals, view, sidebar, server
<1>18. ASSUME NEW g \in Started, Store(g) PROVE SignalsOK'
  BY <1>0, <1>18, <1>s DEF Store, SignalsOK, signals, view, sidebar, server
<1>19. ASSUME NEW g \in Started, Fail(g) PROVE SignalsOK'
  BY <1>0, <1>19, <1>s DEF Fail, SignalsOK, signals, view, sidebar, server, CleanedUp, Without
<1>20. ASSUME NEW g \in Started, Gone(g) PROVE SignalsOK'
  BY <1>0, <1>20, <1>s DEF Gone, SignalsOK, signals, view, sidebar, server, CleanedUp, Without
<1>21. ASSUME NEW i \in DOMAIN opens, OpenServed(i) PROVE SignalsOK'
  BY <1>0, <1>21, <1>s DEF OpenServed, SignalsOK, signals, view, sidebar, server
<1>22. ASSUME NEW i \in DOMAIN opens, OpenAnswered(i) PROVE SignalsOK'
  <2>1. opens[i].body \in Seq(Message)
    <3>1. opens[i] \in Opening
      BY <1>0 DEF SidebarOK
    <3> QED
      BY <3>1 DEF Opening
  <2> QED
    BY <1>0, <1>s, <1>22, <2>1 DEF OpenAnswered, SignalsOK
<1>23. ASSUME NEW c \in Chat, DeleteAnswered(c) PROVE SignalsOK'
  BY <1>0, <1>23, <1>s, EmptyMessages DEF DeleteAnswered, SignalsOK, signals, view, sidebar, server, StartNewChat, Reset
<1> QED
  BY Cases, <1>1, <1>2, <1>3, <1>4, <1>5, <1>6, <1>7, <1>8, <1>9, <1>10, <1>11, <1>12, <1>13, <1>14, <1>15, <1>16, <1>17, <1>18, <1>19, <1>20, <1>21, <1>22, <1>23

\* The button, the error, the counter and how the page is used.
LEMMA ViewStep == TypeOK /\ Next => ViewOK'
<1> SUFFICES ASSUME TypeOK, Next PROVE ViewOK'
  OBVIOUS
<1>0. SignalsOK /\ ViewOK /\ GensOK /\ SidebarOK /\ ServerOK /\ Len(gens) \in Nat
  BY LenProperties DEF TypeOK, GensOK
<1>1. ASSUME Send PROVE ViewOK'
  BY <1>0, <1>1, Noted DEF Send, ViewOK, Plain, Irregular, Overlapping, signals, view, sidebar, server, Note, Begin
<1>2. ASSUME Regenerate PROVE ViewOK'
  BY <1>0, <1>2, Noted DEF Regenerate, ViewOK, Plain, Irregular, Overlapping, signals, view, sidebar, server, Note, Begin
<1>3. ASSUME Retry PROVE ViewOK'
  BY <1>0, <1>3, Noted DEF Retry, ViewOK, Plain, Irregular, Overlapping, signals, view, sidebar, server, Note, Begin
<1>4. ASSUME Stop PROVE ViewOK'
  BY <1>0, <1>4, Noted DEF Stop, ViewOK, Plain, Irregular, Overlapping, signals, view, sidebar, server, Note
<1>5. ASSUME NewChat PROVE ViewOK'
  BY <1>0, <1>5, Noted DEF NewChat, ViewOK, Plain, Irregular, Overlapping, signals, view, sidebar, server, Note, StartNewChat, Reset
<1>6. ASSUME NEW i \in DOMAIN messages, Edit(i) PROVE ViewOK'
  BY <1>0, <1>6, Noted DEF Edit, ViewOK, Plain, Irregular, Overlapping, signals, view, sidebar, server, Note
<1>7. ASSUME NEW c \in Chat, OpenChat(c) PROVE ViewOK'
  BY <1>0, <1>7, Noted DEF OpenChat, ViewOK, Plain, Irregular, Overlapping, signals, view, sidebar, server, Note
<1>8. ASSUME NEW c \in Chat, Delete(c) PROVE ViewOK'
  BY <1>0, <1>8, Noted DEF Delete, ViewOK, Plain, Irregular, Overlapping, signals, view, sidebar, server, Note, Without
<1>9. ASSUME NEW g \in Started, EditStarts(g) PROVE ViewOK'
  BY <1>0, <1>9, Noted DEF EditStarts, ViewOK, Plain, Irregular, Overlapping, signals, view, sidebar, server, Note
<1>10. ASSUME NEW g \in Started, Post(g) PROVE ViewOK'
  <2>1. counter' = counter + 1 /\ errorShown' = FALSE /\ button' = button /\ course' = course
    BY <1>10 DEF Post
  <2>2. counter' \in Nat
    BY <1>0, <2>1 DEF ViewOK
  <2> QED
    BY <1>0, <2>1, <2>2 DEF ViewOK
<1>11. ASSUME NEW g \in Started, Connected(g) PROVE ViewOK'
  BY <1>0, <1>11, Noted DEF Connected, ViewOK, Plain, Irregular, Overlapping, signals, view, sidebar, server, Note
<1>12. ASSUME NEW g \in Started, Errs(g) PROVE ViewOK'
  BY <1>0, <1>12, Noted DEF Errs, ViewOK, Plain, Irregular, Overlapping, signals, view, sidebar, server, Note, SettleError, Reset
<1>13. ASSUME NEW g \in Started, Answers(g) PROVE ViewOK'
  BY <1>0, <1>13, Noted DEF Answers, ViewOK, Plain, Irregular, Overlapping, signals, view, sidebar, server, Note, Left, SettleText
<1>14. ASSUME NEW g \in Started, LeavesEmpty(g) PROVE ViewOK'
  BY <1>0, <1>14, Noted DEF LeavesEmpty, ViewOK, Plain, Irregular, Overlapping, signals, view, sidebar, server, Note, Left, SettleNothing, Reset
<1>15. ASSUME NEW g \in Started, Shown(g) PROVE ViewOK'
  BY <1>0, <1>15, Noted DEF Shown, ViewOK, Plain, Irregular, Overlapping, signals, view, sidebar, server, Note, Reset
<1>16. ASSUME NEW g \in Started, Ended(g) PROVE ViewOK'
  BY <1>0, <1>16, Noted DEF Ended, ViewOK, Plain, Irregular, Overlapping, signals, view, sidebar, server, Note
<1>17. ASSUME NEW g \in Started, Resolve(g) PROVE ViewOK'
  BY <1>0, <1>17, Noted DEF Resolve, ViewOK, Plain, Irregular, Overlapping, signals, view, sidebar, server, Note
<1>18. ASSUME NEW g \in Started, Store(g) PROVE ViewOK'
  BY <1>0, <1>18, Noted DEF Store, ViewOK, Plain, Irregular, Overlapping, signals, view, sidebar, server, Note
<1>19. ASSUME NEW g \in Started, Fail(g) PROVE ViewOK'
  BY <1>0, <1>19, Noted DEF Fail, ViewOK, Plain, Irregular, Overlapping, signals, view, sidebar, server, Note, CleanedUp, Without
<1>20. ASSUME NEW g \in Started, Gone(g) PROVE ViewOK'
  BY <1>0, <1>20, Noted DEF Gone, ViewOK, Plain, Irregular, Overlapping, signals, view, sidebar, server, Note, CleanedUp, Without
<1>21. ASSUME NEW i \in DOMAIN opens, OpenServed(i) PROVE ViewOK'
  BY <1>0, <1>21, Noted DEF OpenServed, ViewOK, Plain, Irregular, Overlapping, signals, view, sidebar, server, Note
<1>22. ASSUME NEW i \in DOMAIN opens, OpenAnswered(i) PROVE ViewOK'
  BY <1>0, <1>22, Noted DEF OpenAnswered, ViewOK, Plain, Irregular, Overlapping, signals, view, sidebar, server, Note
<1>23. ASSUME NEW c \in Chat, DeleteAnswered(c) PROVE ViewOK'
  BY <1>0, <1>23, Noted DEF DeleteAnswered, ViewOK, Plain, Irregular, Overlapping, signals, view, sidebar, server, Note, StartNewChat, Reset
<1> QED
  BY Cases, <1>1, <1>2, <1>3, <1>4, <1>5, <1>6, <1>7, <1>8, <1>9, <1>10, <1>11, <1>12, <1>13, <1>14, <1>15, <1>16, <1>17, <1>18, <1>19, <1>20, <1>21, <1>22, <1>23

\* The calls of openChat() and the list of chats.
LEMMA SidebarStep == TypeOK /\ Next => SidebarOK'
<1> SUFFICES ASSUME TypeOK, Next PROVE SidebarOK'
  OBVIOUS
<1>0. SignalsOK /\ ViewOK /\ GensOK /\ SidebarOK /\ ServerOK /\ Len(gens) \in Nat
  BY LenProperties DEF TypeOK, GensOK
<1>1. ASSUME Send PROVE SidebarOK'
  BY <1>0, <1>1 DEF Send, SidebarOK, signals, view, sidebar, server, Begin
<1>2. ASSUME Regenerate PROVE SidebarOK'
  BY <1>0, <1>2 DEF Regenerate, SidebarOK, signals, view, sidebar, server, Begin
<1>3. ASSUME Retry PROVE SidebarOK'
  BY <1>0, <1>3 DEF Retry, SidebarOK, signals, view, sidebar, server, Begin
<1>4. ASSUME Stop PROVE SidebarOK'
  BY <1>0, <1>4 DEF Stop, SidebarOK, signals, view, sidebar, server
<1>5. ASSUME NewChat PROVE SidebarOK'
  BY <1>0, <1>5 DEF NewChat, SidebarOK, signals, view, sidebar, server, StartNewChat, Reset
<1>6. ASSUME NEW i \in DOMAIN messages, Edit(i) PROVE SidebarOK'
  BY <1>0, <1>6 DEF Edit, SidebarOK, signals, view, sidebar, server
<1>7. ASSUME NEW c \in Chat, OpenChat(c) PROVE SidebarOK'
  BY <1>0, <1>7 DEF OpenChat, SidebarOK, signals, view, sidebar, server, Opening, Chat
<1>8. ASSUME NEW c \in Chat, Delete(c) PROVE SidebarOK'
  BY <1>0, <1>8 DEF Delete, SidebarOK, signals, view, sidebar, server, Without
<1>9. ASSUME NEW g \in Started, EditStarts(g) PROVE SidebarOK'
  BY <1>0, <1>9 DEF EditStarts, SidebarOK, signals, view, sidebar, server
<1>10. ASSUME NEW g \in Started, Post(g) PROVE SidebarOK'
  BY <1>0, <1>10 DEF Post, SidebarOK, signals, view, sidebar, server
<1>11. ASSUME NEW g \in Started, Connected(g) PROVE SidebarOK'
  BY <1>0, <1>11 DEF Connected, SidebarOK, signals, view, sidebar, server
<1>12. ASSUME NEW g \in Started, Errs(g) PROVE SidebarOK'
  BY <1>0, <1>12 DEF Errs, SidebarOK, signals, view, sidebar, server, SettleError, Reset
<1>13. ASSUME NEW g \in Started, Answers(g) PROVE SidebarOK'
  BY <1>0, <1>13 DEF Answers, SidebarOK, signals, view, sidebar, server, Left, SettleText, ServerOK
<1>14. ASSUME NEW g \in Started, LeavesEmpty(g) PROVE SidebarOK'
  BY <1>0, <1>14 DEF LeavesEmpty, SidebarOK, signals, view, sidebar, server, Left, SettleNothing, Reset
<1>15. ASSUME NEW g \in Started, Shown(g) PROVE SidebarOK'
  BY <1>0, <1>15 DEF Shown, SidebarOK, signals, view, sidebar, server, Reset
<1>16. ASSUME NEW g \in Started, Ended(g) PROVE SidebarOK'
  BY <1>0, <1>16 DEF Ended, SidebarOK, signals, view, sidebar, server
<1>17. ASSUME NEW g \in Started, Resolve(g) PROVE SidebarOK'
  BY <1>0, <1>17 DEF Resolve, SidebarOK, signals, view, sidebar, server
<1>18. ASSUME NEW g \in Started, Store(g) PROVE SidebarOK'
  BY <1>0, <1>18 DEF Store, SidebarOK, signals, view, sidebar, server
<1>19. ASSUME NEW g \in Started, Fail(g) PROVE SidebarOK'
  BY <1>0, <1>19 DEF Fail, SidebarOK, signals, view, sidebar, server, CleanedUp, Without
<1>20. ASSUME NEW g \in Started, Gone(g) PROVE SidebarOK'
  BY <1>0, <1>20 DEF Gone, SidebarOK, signals, view, sidebar, server, CleanedUp, Without
<1>21. ASSUME NEW i \in DOMAIN opens, OpenServed(i) PROVE SidebarOK'
  <2> DEFINE s == [opens EXCEPT ![i].at = "served"]
             b == chats[opens[i].chat]
  <2>1. opens \in Seq(Opening) /\ opens[i] \in Opening /\ i \in 1..Len(opens)
    BY <1>0 DEF SidebarOK
  <2>2. [opens[i] EXCEPT !.at = "served"] \in Opening /\ [opens[i] EXCEPT !.at = "missing"] \in Opening
    BY <2>1 DEF Opening
  <2>3. s \in Seq(Opening) /\ Len(s) = Len(opens) /\ [opens EXCEPT ![i].at = "missing"] \in Seq(Opening)
    BY <2>1, <2>2, ExceptSeq
  <2>4. ASSUME opens[i].chat \in DOMAIN chats PROVE [s EXCEPT ![i].body = b] \in Seq(Opening)
    <3>1. s[i] \in Opening /\ i \in 1..Len(s) /\ b \in Seq(Message)
      BY <1>0, <2>1, <2>3, <2>4 DEF ServerOK
    <3> HIDE DEF s, b
    <3>2. [s[i] EXCEPT !.body = b] \in Opening
      BY <3>1 DEF Opening
    <3> QED
      BY <2>3, <3>1, <3>2, ExceptSeq
  <2> QED
    BY <1>0, <1>21, <2>3, <2>4 DEF OpenServed, SidebarOK
<1>22. ASSUME NEW i \in DOMAIN opens, OpenAnswered(i) PROVE SidebarOK'
  <2> DEFINE s == [opens EXCEPT ![i].at = "over"]
  <2>1. opens \in Seq(Opening) /\ opens[i] \in Opening /\ i \in 1..Len(opens)
    BY <1>0 DEF SidebarOK
  <2>2. [opens[i] EXCEPT !.at = "over"] \in Opening
    BY <2>1 DEF Opening
  <2>3. s \in Seq(Opening) /\ Len(s) = Len(opens)
    BY <2>1, <2>2, ExceptSeq
  <2>4. [s EXCEPT ![i].body = <<>>] \in Seq(Opening)
    <3>1. s[i] \in Opening /\ i \in 1..Len(s)
      BY <2>1, <2>3
    <3> HIDE DEF s
    <3>2. [s[i] EXCEPT !.body = <<>>] \in Opening
      BY <3>1, EmptyMessages DEF Opening
    <3> QED
      BY <2>3, <3>1, <3>2, ExceptSeq
  <2> QED
    BY <1>0, <1>22, <2>4 DEF OpenAnswered, SidebarOK
<1>23. ASSUME NEW c \in Chat, DeleteAnswered(c) PROVE SidebarOK'
  BY <1>0, <1>23 DEF DeleteAnswered, SidebarOK, signals, view, sidebar, server, StartNewChat, Reset
<1> QED
  BY Cases, <1>1, <1>2, <1>3, <1>4, <1>5, <1>6, <1>7, <1>8, <1>9, <1>10, <1>11, <1>12, <1>13, <1>14, <1>15, <1>16, <1>17, <1>18, <1>19, <1>20, <1>21, <1>22, <1>23

\* Where the page is with a generation agrees with where the server is with its
\* request: nothing is asked before Post, nothing read before there is a chat to
\* answer in, and what is answered is a question.
Resolved == {"running", "stored", "read", "failed", "gone"}
Stage(g) ==
  /\ gens[g].at \in {"delayed", "yielding"} <=> gens[g].srv = "none"
  /\ gens[g].at = "reading" => gens[g].srv \in Resolved
  /\ gens[g].srv \in Resolved => /\ gens[g].in \in Nat
                                 /\ gens[g].chat # None => gens[g].in = gens[g].chat
                                 /\ Valid(gens[g].last)
  /\ gens[g].srv \notin Resolved => gens[g].in = None
StageInv == \A g \in Started : Stage(g)

\* The server's chats.
LEMMA ServerStep == TypeOK /\ StageInv /\ Next => ServerOK'
<1> SUFFICES ASSUME TypeOK, StageInv, Next PROVE ServerOK'
  OBVIOUS
<1>0. SignalsOK /\ ViewOK /\ GensOK /\ SidebarOK /\ ServerOK /\ Len(gens) \in Nat
  BY LenProperties DEF TypeOK, GensOK
<1>1. ASSUME Send PROVE ServerOK'
  BY <1>0, <1>1 DEF Send, ServerOK, signals, view, sidebar, server, Begin
<1>2. ASSUME Regenerate PROVE ServerOK'
  BY <1>0, <1>2 DEF Regenerate, ServerOK, signals, view, sidebar, server, Begin
<1>3. ASSUME Retry PROVE ServerOK'
  BY <1>0, <1>3 DEF Retry, ServerOK, signals, view, sidebar, server, Begin
<1>4. ASSUME Stop PROVE ServerOK'
  BY <1>0, <1>4 DEF Stop, ServerOK, signals, view, sidebar, server
<1>5. ASSUME NewChat PROVE ServerOK'
  BY <1>0, <1>5 DEF NewChat, ServerOK, signals, view, sidebar, server, StartNewChat, Reset
<1>6. ASSUME NEW i \in DOMAIN messages, Edit(i) PROVE ServerOK'
  BY <1>0, <1>6 DEF Edit, ServerOK, signals, view, sidebar, server
<1>7. ASSUME NEW c \in Chat, OpenChat(c) PROVE ServerOK'
  BY <1>0, <1>7 DEF OpenChat, ServerOK, signals, view, sidebar, server
<1>8. ASSUME NEW c \in Chat, Delete(c) PROVE ServerOK'
  BY <1>0, <1>8 DEF Delete, ServerOK, signals, view, sidebar, server, Without
<1>9. ASSUME NEW g \in Started, EditStarts(g) PROVE ServerOK'
  BY <1>0, <1>9 DEF EditStarts, ServerOK, signals, view, sidebar, server
<1>10. ASSUME NEW g \in Started, Post(g) PROVE ServerOK'
  BY <1>0, <1>10 DEF Post, ServerOK, signals, view, sidebar, server
<1>11. ASSUME NEW g \in Started, Connected(g) PROVE ServerOK'
  BY <1>0, <1>11 DEF Connected, ServerOK, signals, view, sidebar, server
<1>12. ASSUME NEW g \in Started, Errs(g) PROVE ServerOK'
  BY <1>0, <1>12 DEF Errs, ServerOK, signals, view, sidebar, server, SettleError, Reset
<1>13. ASSUME NEW g \in Started, Answers(g) PROVE ServerOK'
  BY <1>0, <1>13 DEF Answers, ServerOK, signals, view, sidebar, server, Left, SettleText
<1>14. ASSUME NEW g \in Started, LeavesEmpty(g) PROVE ServerOK'
  BY <1>0, <1>14 DEF LeavesEmpty, ServerOK, signals, view, sidebar, server, Left, SettleNothing, Reset
<1>15. ASSUME NEW g \in Started, Shown(g) PROVE ServerOK'
  BY <1>0, <1>15 DEF Shown, ServerOK, signals, view, sidebar, server, Reset
<1>16. ASSUME NEW g \in Started, Ended(g) PROVE ServerOK'
  BY <1>0, <1>16 DEF Ended, ServerOK, signals, view, sidebar, server
<1>17. ASSUME NEW g \in Started, Resolve(g) PROVE ServerOK'
  <2>1. ASSUME created' = created + 1,
               chats' = [c \in DOMAIN chats \cup {created'} |->
                           IF c = created' THEN <<>> ELSE chats[c]]
        PROVE  ServerOK'
    <3>1. /\ DOMAIN chats' = DOMAIN chats \cup {created'}
          /\ \A c \in DOMAIN chats' : chats'[c] = IF c = created' THEN <<>> ELSE chats[c]
      BY <2>1
    <3> QED
      BY <1>0, <2>1, <3>1, EmptyMessages DEF ServerOK
  <2> QED
    BY <1>0, <1>17, <2>1 DEF Resolve, server, ServerOK
<1>18. ASSUME NEW g \in Started, Store(g) PROVE ServerOK'
  <2> DEFINE c == gens[g].in
             turn == IF gens[g].regenerate THEN <<Answer(g)>> ELSE <<gens[g].last, Answer(g)>>
  <2>0. Valid(gens[g].last)
    BY <1>18 DEF Store, StageInv, Stage, Resolved
  <2>1. Answer(g) \in Message /\ gens[g].last \in Message
    <3>1. gens[g] \in GenerationOK /\ g \in Gen
      BY <1>0 DEF GensOK, Started, Gen
    <3> QED
      BY <3>1, <2>0, MessageTypes DEF GenerationOK, Valid
  <2>2. turn \in Seq(Message) /\ chats[c] \in Seq(Message)
    BY <1>0, <1>18, <2>1 DEF Store, ServerOK
  <2>3. chats' = [chats EXCEPT ![c] = chats[c] \o turn]
    BY <1>18 DEF Store
  <2>4. chats[c] \o turn \in Seq(Message)
    BY <2>2, ConcatProperties
  <2> HIDE DEF turn
  <2> QED
    BY <1>0, <1>18, <2>3, <2>4 DEF Store, ServerOK
<1>19. ASSUME NEW g \in Started, Fail(g) PROVE ServerOK'
  BY <1>0, <1>19 DEF Fail, ServerOK, signals, view, sidebar, server, CleanedUp, Without
<1>20. ASSUME NEW g \in Started, Gone(g) PROVE ServerOK'
  BY <1>0, <1>20 DEF Gone, ServerOK, signals, view, sidebar, server, CleanedUp, Without
<1>21. ASSUME NEW i \in DOMAIN opens, OpenServed(i) PROVE ServerOK'
  BY <1>0, <1>21 DEF OpenServed, ServerOK, signals, view, sidebar, server
<1>22. ASSUME NEW i \in DOMAIN opens, OpenAnswered(i) PROVE ServerOK'
  BY <1>0, <1>22 DEF OpenAnswered, ServerOK, signals, view, sidebar, server
<1>23. ASSUME NEW c \in Chat, DeleteAnswered(c) PROVE ServerOK'
  BY <1>0, <1>23 DEF DeleteAnswered, ServerOK, signals, view, sidebar, server, StartNewChat, Reset
<1> QED
  BY Cases, <1>1, <1>2, <1>3, <1>4, <1>5, <1>6, <1>7, <1>8, <1>9, <1>10, <1>11, <1>12, <1>13, <1>14, <1>15, <1>16, <1>17, <1>18, <1>19, <1>20, <1>21, <1>22, <1>23

\* What the steps that set several fields leave in them.
LEMMA PostFields ==
  ASSUME GensOK, NEW g \in Started, Post(g)
  PROVE  /\ Started' = Started
         /\ \A h \in Started \ {g} : gens'[h] = gens[h]
         /\ gens'[g].at = "connecting" /\ gens'[g].id = counter' /\ gens'[g].chat = active
         /\ gens'[g].last = (IF messages = <<>> THEN None ELSE Last(messages))
         /\ gens'[g].srv = "asked" /\ gens'[g].in = gens[g].in
         /\ gens'[g].regenerate = gens[g].regenerate /\ gens'[g].aborted = gens[g].aborted
<1>1. gens[g] \in GenerationOK
  BY DEF GensOK, Started
<1> QED
  BY <1>1 DEF Post, Started, GensOK, GenerationOK

\* Of Leave().
LEMMA LeaveFields ==
  ASSUME GensOK, NEW g \in Started, NEW at, gens' = Leave(g, at)
  PROVE  /\ Started' = Started
         /\ \A h \in Started \ {g} : gens'[h] = gens[h]
         /\ gens'[g].at = at /\ gens'[g].srv = (IF gens[g].aborted THEN gens[g].srv ELSE "read")
         /\ gens'[g].id = gens[g].id /\ gens'[g].chat = gens[g].chat /\ gens'[g].last = gens[g].last
         /\ gens'[g].in = gens[g].in /\ gens'[g].aborted = gens[g].aborted
         /\ gens'[g].regenerate = gens[g].regenerate
<1>1. gens[g] \in GenerationOK
  BY DEF GensOK, Started
<1> QED
  BY <1>1 DEF Leave, Started, GensOK, GenerationOK

\* Of Resolve(): the request finds its chat, makes one or is refused.
LEMMA ResolveFields ==
  ASSUME GensOK, ServerOK, NEW g \in Started, Resolve(g)
  PROVE  /\ Started' = Started
         /\ \A h \in Started \ {g} : gens'[h] = gens[h]
         /\ gens'[g].at = gens[g].at /\ gens'[g].id = gens[g].id /\ gens'[g].chat = gens[g].chat
         /\ gens'[g].last = gens[g].last /\ gens'[g].aborted = gens[g].aborted
         /\ gens'[g].regenerate = gens[g].regenerate
         /\ \/ /\ gens'[g].srv = "running" /\ Valid(gens[g].last)
               /\ gens'[g].in = IF gens[g].chat = None THEN created' ELSE gens[g].chat
            \/ gens'[g].srv = "rejected" /\ gens'[g].in = gens[g].in
<1>1. gens[g] \in GenerationOK /\ gens \in Seq(GenerationOK) /\ g \in DOMAIN gens
  BY DEF GensOK, Started
<1>2. \A v \in DOMAIN chats : v # None
  BY DEF ServerOK
<1>3. ASSUME NEW v, gens' = [gens EXCEPT ![g].srv = "running", ![g].in = v]
      PROVE  /\ Started' = Started
             /\ \A h \in Started \ {g} : gens'[h] = gens[h]
             /\ gens'[g].at = gens[g].at /\ gens'[g].id = gens[g].id /\ gens'[g].chat = gens[g].chat
             /\ gens'[g].last = gens[g].last /\ gens'[g].aborted = gens[g].aborted
             /\ gens'[g].regenerate = gens[g].regenerate
             /\ gens'[g].srv = "running" /\ gens'[g].in = v
  BY <1>1, <1>3 DEF Started, GenerationOK
<1>4. ASSUME gens' = [gens EXCEPT ![g].srv = "rejected"]
      PROVE  /\ Started' = Started
             /\ \A h \in Started \ {g} : gens'[h] = gens[h]
             /\ gens'[g].at = gens[g].at /\ gens'[g].id = gens[g].id /\ gens'[g].chat = gens[g].chat
             /\ gens'[g].last = gens[g].last /\ gens'[g].aborted = gens[g].aborted
             /\ gens'[g].regenerate = gens[g].regenerate
             /\ gens'[g].srv = "rejected" /\ gens'[g].in = gens[g].in
  BY <1>1, <1>4 DEF Started, GenerationOK
<1> QED
  BY <1>2, <1>3, <1>4 DEF Resolve

\* Of Aborted(): nothing but a flag.
LEMMA AbortFields ==
  ASSUME GensOK, NEW g \in Started \cup {None}, gens' = Aborted(g)
  PROVE  /\ Started' = Started
         /\ \A h \in Started :
              /\ gens'[h].at = gens[h].at /\ gens'[h].srv = gens[h].srv /\ gens'[h].id = gens[h].id
              /\ gens'[h].chat = gens[h].chat /\ gens'[h].last = gens[h].last
              /\ gens'[h].in = gens[h].in /\ gens'[h].regenerate = gens[h].regenerate
              /\ gens'[h].aborted # gens[h].aborted => g = h
<1>1. gens \in Seq(GenerationOK)
  BY DEF GensOK
<1>2. CASE gens' = gens
  BY <1>2 DEF Started
<1>3. CASE g \in Started /\ gens' = [gens EXCEPT ![g].aborted = TRUE]
  <2>1. Started' = Started /\ \A h \in Started \ {g} : gens'[h] = gens[h]
    BY <1>1, <1>3 DEF Started
  <2>2. gens[g] \in GenerationOK /\ gens'[g] = [gens[g] EXCEPT !.aborted = TRUE]
    BY <1>1, <1>3 DEF Started
  <2>3. /\ gens'[g].at = gens[g].at /\ gens'[g].srv = gens[g].srv /\ gens'[g].id = gens[g].id
        /\ gens'[g].chat = gens[g].chat /\ gens'[g].last = gens[g].last
        /\ gens'[g].in = gens[g].in /\ gens'[g].regenerate = gens[g].regenerate
    BY <2>2 DEF GenerationOK
  <2> QED
    BY <2>1, <2>3
<1> QED
  BY <1>2, <1>3 DEF Aborted

\* Of a step of the page.
LEMMA AtFields ==
  ASSUME GensOK, NEW g \in Started, NEW v, gens' = [gens EXCEPT ![g].at = v]
  PROVE  /\ Started' = Started
         /\ \A h \in Started \ {g} : gens'[h] = gens[h]
         /\ gens'[g].at = v /\ gens'[g].srv = gens[g].srv
         /\ gens'[g].id = gens[g].id /\ gens'[g].chat = gens[g].chat /\ gens'[g].last = gens[g].last
         /\ gens'[g].in = gens[g].in /\ gens'[g].aborted = gens[g].aborted
         /\ gens'[g].regenerate = gens[g].regenerate
<1>1. gens[g] \in GenerationOK
  BY DEF GensOK, Started
<1> QED
  BY <1>1 DEF Started, GensOK, GenerationOK

\* Of a step of the server.
LEMMA SrvFields ==
  ASSUME GensOK, NEW g \in Started, NEW v, gens' = [gens EXCEPT ![g].srv = v]
  PROVE  /\ Started' = Started
         /\ \A h \in Started \ {g} : gens'[h] = gens[h]
         /\ gens'[g].at = gens[g].at /\ gens'[g].srv = v
         /\ gens'[g].id = gens[g].id /\ gens'[g].chat = gens[g].chat /\ gens'[g].last = gens[g].last
         /\ gens'[g].in = gens[g].in /\ gens'[g].aborted = gens[g].aborted
         /\ gens'[g].regenerate = gens[g].regenerate
<1>1. gens[g] \in GenerationOK
  BY DEF GensOK, Started
<1> QED
  BY <1>1 DEF Started, GensOK, GenerationOK

\* Of a start.
LEMMA NewFields ==
  ASSUME GensOK, Len(gens) < MaxGens, NEW at \in Place, NEW regen \in BOOLEAN,
         gens' = Append(gens, NewGeneration(at, regen))
  PROVE  /\ Started' = Started \cup {Len(gens) + 1} /\ Len(gens) + 1 \notin Started
         /\ \A h \in Started : gens'[h] = gens[h]
         /\ gens'[Len(gens) + 1].at = at /\ gens'[Len(gens) + 1].srv = "none"
         /\ gens'[Len(gens) + 1].in = None /\ gens'[Len(gens) + 1].regenerate = regen
<1>1. Len(gens) \in Nat /\ Started = 1..Len(gens)
  BY DEF GensOK, Started
<1>2. /\ gens' \in Seq(GenerationOK) /\ Len(gens') = Len(gens) + 1
      /\ gens'[Len(gens')] = NewGeneration(at, regen)
      /\ \A h \in Started : gens'[h] = gens[h]
  BY NewTypes
<1>3. Started' = 1..(Len(gens) + 1)
  BY <1>2 DEF Started
<1> QED
  BY <1>1, <1>2, <1>3 DEF NewGeneration

-----------------------------------------------------------------------------
(* What is left when the page comes to rest. *)

\* Somebody is there to clear what is set: the flags, and the button.
Clears(g) == \/ gens[g].at = "yielding"
             \/ gens[g].at \in {"connecting", "reading", "showing", "ending"} /\ gens[g].id = counter
RestInv ==
  /\ generating => \E g \in Started : Active(g)
  /\ abort # None => gens[abort].at \in {"connecting", "reading", "showing"}
  /\ button = "stop" => \E g \in Started : Clears(g)

\* A step that moves no generation and sets no flag.
LEMMA RestKept ==
  ASSUME SignalsOK, RestInv, generating' => generating, abort' \in {abort, None},
         button' \in {button, "send"}, counter' = counter,
         \A g \in Started : g \in Started' /\ gens'[g].at = gens[g].at /\ gens'[g].id = gens[g].id
  PROVE  RestInv'
BY DEF RestInv, Clears, Active, SignalsOK

\* Every step leaves somebody to clear what is set.
LEMMA RestStep == TypeOK /\ RestInv /\ Next => RestInv'
<1> SUFFICES ASSUME TypeOK, RestInv, Next PROVE RestInv'
  OBVIOUS
<1>0. GensOK /\ SignalsOK /\ ServerOK /\ ViewOK
  BY DEF TypeOK
<1>1. ASSUME Send PROVE RestInv'
  <2>1. /\ Started' = Started \cup {Len(gens) + 1} /\ \A h \in Started : gens'[h] = gens[h]
        /\ gens'[Len(gens) + 1].at = "yielding" /\ abort' = abort
    BY <1>0, <1>1, NewFields DEF Send, Begin, Place
  <2> QED
    BY <1>0, <2>1 DEF RestInv, Active, Clears, SignalsOK
<1>2. ASSUME Regenerate PROVE RestInv'
  <2>1. /\ Started' = Started \cup {Len(gens) + 1} /\ \A h \in Started : gens'[h] = gens[h]
        /\ gens'[Len(gens) + 1].at = "yielding" /\ abort' = abort
    BY <1>0, <1>2, NewFields DEF Regenerate, Begin, Place
  <2> QED
    BY <1>0, <2>1 DEF RestInv, Active, Clears, SignalsOK
<1>3. ASSUME Retry PROVE RestInv'
  <2>1. /\ Started' = Started \cup {Len(gens) + 1} /\ \A h \in Started : gens'[h] = gens[h]
        /\ gens'[Len(gens) + 1].at = "yielding" /\ abort' = abort
    BY <1>0, <1>3, NewFields DEF Retry, Begin, Place
  <2> QED
    BY <1>0, <2>1 DEF RestInv, Active, Clears, SignalsOK
<1>4. ASSUME Stop PROVE RestInv'
  BY <1>0, <1>4, AbortFields, RestKept DEF Stop, signals, view, sidebar, server, SignalsOK
<1>5. ASSUME NewChat PROVE RestInv'
  BY <1>0, <1>5, AbortFields DEF NewChat, StartNewChat, Reset, RestInv, SignalsOK
<1>6. ASSUME NEW i \in DOMAIN messages, Edit(i) PROVE RestInv'
  BY <1>0, <1>6, NewFields, RestKept DEF Edit, Place, view
<1>7. ASSUME NEW c \in Chat, OpenChat(c) PROVE RestInv'
  BY <1>0, <1>7, RestKept DEF OpenChat, signals, view, sidebar, server, Started
<1>8. ASSUME NEW c \in Chat, Delete(c) PROVE RestInv'
  BY <1>0, <1>8, RestKept DEF Delete, signals, view, sidebar, server, Started
<1>9. ASSUME NEW g \in Started, EditStarts(g) PROVE RestInv'
  <2>1. /\ Started' = Started /\ gens'[g].at = "yielding" /\ abort' = abort
        /\ \A h \in Started : h = abort => gens'[h].at = gens[h].at \/ gens[h].at = "delayed"
    BY ZenonT(30), <1>0, <1>9, AtFields DEF EditStarts
  <2> QED
    BY <1>0, <2>1 DEF RestInv, Active, Clears, SignalsOK
<1>10. ASSUME NEW g \in Started, Post(g) PROVE RestInv'
  <2>1. /\ Started' = Started /\ gens'[g].at = "connecting" /\ gens'[g].id = counter' /\ abort' = g
    BY <1>0, <1>10, PostFields DEF Post
  <2> QED
    BY <1>0, <2>1 DEF RestInv, Active, Clears, SignalsOK
<1>11. ASSUME NEW g \in Started, Connected(g) PROVE RestInv'
  <2>1. /\ Started' = Started /\ generating' = generating /\ abort' = abort /\ button' = button
        /\ counter' = counter /\ \A h \in Started \ {g} : gens'[h] = gens[h]
        /\ gens[g].at \in {"connecting", "reading"} /\ gens'[g].at \in {"reading", "showing"}
        /\ gens'[g].id = gens[g].id
    BY <1>0, <1>11, AtFields DEF Connected, signals, view
  <2>2. \A h \in Started : (Clears(h) => Clears(h)') /\ (Active(h) => Active(h)')
    BY <2>1 DEF Clears, Active
  <2> QED
    BY <1>0, <2>1, <2>2 DEF RestInv, SignalsOK
<1>12. ASSUME NEW g \in Started, Errs(g) PROVE RestInv'
  <2>1. /\ Started' = Started /\ generating' = FALSE /\ abort' = None /\ button' = button /\ counter' = counter
        /\ \A h \in Started \ {g} : gens'[h] = gens[h]
        /\ gens[g].at # "yielding" /\ gens'[g].at = "ending" /\ gens'[g].id = gens[g].id
    BY ZenonT(30), <1>0, <1>12, AtFields DEF Errs, SettleError, Reset
  <2>2. \A h \in Started : Clears(h) => Clears(h)'
    BY <2>1 DEF Clears
  <2> QED
    BY <2>1, <2>2 DEF RestInv
<1>13. ASSUME NEW g \in Started, Answers(g) PROVE RestInv'
  <2>1. /\ Started' = Started /\ generating' = generating /\ abort' = abort /\ button' = button
        /\ counter' = counter /\ \A h \in Started \ {g} : gens'[h] = gens[h]
        /\ gens[g].at \in {"connecting", "reading"} /\ gens'[g].at \in {"reading", "showing"}
        /\ gens'[g].id = gens[g].id
    BY <1>0, <1>13, LeaveFields DEF Answers, Left, SettleText, view
  <2>2. \A h \in Started : (Clears(h) => Clears(h)') /\ (Active(h) => Active(h)')
    BY <2>1 DEF Clears, Active
  <2> QED
    BY <1>0, <2>1, <2>2 DEF RestInv, SignalsOK
<1>14. ASSUME NEW g \in Started, LeavesEmpty(g) PROVE RestInv'
  <2>1. /\ Started' = Started /\ generating' = FALSE /\ abort' = None /\ button' = button /\ counter' = counter
        /\ \A h \in Started \ {g} : gens'[h] = gens[h]
        /\ gens[g].at # "yielding" /\ gens'[g].at = "ending" /\ gens'[g].id = gens[g].id
    BY <1>0, <1>14, LeaveFields DEF LeavesEmpty, Left, SettleNothing, Reset, view
  <2>2. \A h \in Started : Clears(h) => Clears(h)'
    BY <2>1 DEF Clears
  <2> QED
    BY <2>1, <2>2 DEF RestInv
<1>15. ASSUME NEW g \in Started, Shown(g) PROVE RestInv'
  <2>1. /\ Started' = Started /\ generating' = FALSE /\ abort' = None /\ button' = button /\ counter' = counter
        /\ \A h \in Started \ {g} : gens'[h] = gens[h]
        /\ gens[g].at # "yielding" /\ gens'[g].at = "ending" /\ gens'[g].id = gens[g].id
    BY <1>0, <1>15, AtFields DEF Shown, Reset, view
  <2>2. \A h \in Started : Clears(h) => Clears(h)'
    BY <2>1 DEF Clears
  <2> QED
    BY <2>1, <2>2 DEF RestInv
<1>16. ASSUME NEW g \in Started, Ended(g) PROVE RestInv'
  <2>1. /\ Started' = Started /\ generating' = generating /\ abort' = abort /\ counter' = counter
        /\ button' = (IF gens[g].id = counter THEN "send" ELSE button)
        /\ \A h \in Started \ {g} : gens'[h] = gens[h]
        /\ gens[g].at = "ending"
    BY <1>0, <1>16, AtFields DEF Ended, signals
  <2>2. \A h \in Started \ {g} : (Clears(h) => Clears(h)') /\ (Active(h) => Active(h)')
    BY <2>1 DEF Clears, Active
  <2>3. ~Active(g) /\ (Clears(g) => gens[g].id = counter)
    BY <2>1 DEF Clears, Active
  <2> QED
    BY <1>0, <2>1, <2>2, <2>3 DEF RestInv, SignalsOK
<1>17. ASSUME NEW g \in Started, Resolve(g) PROVE RestInv'
  BY <1>0, <1>17, ResolveFields, RestKept DEF Resolve, signals, view, sidebar, server
<1>18. ASSUME NEW g \in Started, Store(g) PROVE RestInv'
  BY <1>0, <1>18, SrvFields, RestKept DEF Store, signals, view, sidebar, server
<1>19. ASSUME NEW g \in Started, Fail(g) PROVE RestInv'
  BY <1>0, <1>19, SrvFields, RestKept DEF Fail, signals, view, sidebar, server
<1>20. ASSUME NEW g \in Started, Gone(g) PROVE RestInv'
  BY <1>0, <1>20, SrvFields, RestKept DEF Gone, signals, view, sidebar, server
<1>21. ASSUME NEW i \in DOMAIN opens, OpenServed(i) PROVE RestInv'
  BY <1>0, <1>21, RestKept DEF OpenServed, signals, view, sidebar, server, Started
<1>22. ASSUME NEW i \in DOMAIN opens, OpenAnswered(i) PROVE RestInv'
  BY <1>0, <1>22, RestKept DEF OpenAnswered, signals, view, sidebar, server, Started
<1>23. ASSUME NEW c \in Chat, DeleteAnswered(c) PROVE RestInv'
  <2>1. CASE StartNewChat
    BY <1>0, <2>1, AbortFields DEF StartNewChat, Reset, RestInv, SignalsOK
  <2>2. CASE UNCHANGED <<signals, view, gens>>
    BY <1>0, <2>2, RestKept DEF signals, view, Started
  <2> QED
    BY <1>23, <2>1, <2>2 DEF DeleteAnswered
<1> QED
  BY Cases, <1>1, <1>2, <1>3, <1>4, <1>5, <1>6, <1>7, <1>8, <1>9, <1>10, <1>11, <1>12, <1>13, <1>14, <1>15, <1>16, <1>17, <1>18, <1>19, <1>20, <1>21, <1>22, <1>23

-----------------------------------------------------------------------------
(* One generation at a time. *)

Busy(g) == Active(g) \/ gens[g].at = "delayed"

OneInv ==
  course # Overlapping =>
    /\ \A g, h \in Started : Busy(g) /\ Busy(h) => g = h
    /\ \A g \in Started : Active(g) => generating

\* A note never makes a use of the page plainer than it was.
LEMMA NoteFacts ==
  ASSUME ViewOK, NEW c \in {Plain, Irregular, Overlapping}, Note(c)
  PROVE  /\ course' # Overlapping => course # Overlapping /\ c # Overlapping
         /\ course' = Plain => course = Plain /\ c = Plain
BY Noted DEF ViewOK, Note, Plain, Irregular, Overlapping

\* A step that makes no generation busy and leaves isGenerating alone.
LEMMA OneKept ==
  ASSUME OneInv, generating' = generating, Started' = Started,
         course' # Overlapping => course # Overlapping,
         \A g \in Started : (Active(g)' => Active(g)) /\ (Busy(g)' => Busy(g))
  PROVE  OneInv'
BY DEF OneInv

\* A step before which nothing was busy, or after which nothing is.
LEMMA OneRest ==
  ASSUME \A g \in Started' : course' # Overlapping => ~Busy(g)'
  PROVE  OneInv'
BY DEF OneInv, Busy

\* A step that ends a generation.
LEMMA OneEnds ==
  ASSUME OneInv, NEW g \in Started, Active(g), Started' = Started, ~Busy(g)',
         \A h \in Started \ {g} : gens'[h] = gens[h],
         course' # Overlapping => course # Overlapping
  PROVE  OneInv'
BY DEF OneInv, Busy, Active

\* A step that starts one.
LEMMA OneStarts ==
  ASSUME TypeOK, NEW at \in {"yielding", "delayed"}, NEW regen \in BOOLEAN, Len(gens) < MaxGens,
         gens' = Append(gens, NewGeneration(at, regen)),
         course' # Overlapping => ~Waiting, at = "yielding" => generating'
  PROVE  OneInv'
<1>0. PICK n : n = Len(gens) + 1
  OBVIOUS
<1>1. /\ Started' = Started \cup {n} /\ \A h \in Started : gens'[h] = gens[h]
      /\ gens'[n].at = at
  BY <1>0, NewFields DEF TypeOK, Place
<1>2. SUFFICES ASSUME course' # Overlapping PROVE OneInv'
  BY DEF OneInv
<1>3. \A h \in Started : ~Busy(h)' /\ ~Active(h)'
  BY <1>1, <1>2 DEF Busy, Active, Waiting
<1>4. Active(n)' => generating'
  BY <1>1 DEF Active
<1> QED
  BY <1>1, <1>3, <1>4 DEF OneInv

\* No step of a user who waits starts a second generation.
LEMMA OneStep == TypeOK /\ OneInv /\ Next => OneInv'
<1> SUFFICES ASSUME TypeOK, OneInv, Next PROVE OneInv'
  OBVIOUS
<1>0. GensOK /\ SignalsOK /\ ServerOK /\ ViewOK
  BY DEF TypeOK
<1>1. ASSUME Send PROVE OneInv'
  <2>1. course' # Overlapping => ~Waiting
    BY <1>0, <1>1, NoteFacts DEF Send
  <2> QED
    BY <1>1, <2>1, OneStarts DEF Send, Begin
<1>2. ASSUME Regenerate PROVE OneInv'
  <2>1. course' # Overlapping => ~Waiting
    BY <1>0, <1>2, NoteFacts DEF Regenerate
  <2> QED
    BY <1>2, <2>1, OneStarts DEF Regenerate, Begin
<1>3. ASSUME Retry PROVE OneInv'
  <2>1. course' # Overlapping => ~Waiting
    BY <1>0, <1>3, NoteFacts DEF Retry
  <2> QED
    BY <1>3, <2>1, OneStarts DEF Retry, Begin
<1>4. ASSUME Stop PROVE OneInv'
  BY <1>0, <1>4, AbortFields, OneKept DEF Stop, Busy, Active, signals, SignalsOK, Started
<1>5. ASSUME NewChat PROVE OneInv'
  <2>1. course' # Overlapping => ~Waiting
    BY <1>5 DEF NewChat, StartNewChat
  <2>2. Started' = Started /\ \A h \in Started : gens'[h].at = gens[h].at
    BY <1>0, <1>5, AbortFields DEF NewChat, StartNewChat, SignalsOK
  <2> QED
    BY <2>1, <2>2, OneRest DEF Waiting, Busy, Active
<1>6. ASSUME NEW i \in DOMAIN messages, Edit(i) PROVE OneInv'
  <2>1. course' # Overlapping => ~Waiting
    BY <1>0, <1>6, NoteFacts DEF Edit
  <2> QED
    BY <1>6, <2>1, OneStarts DEF Edit, Begin
<1>7. ASSUME NEW c \in Chat, OpenChat(c) PROVE OneInv'
  <2>1. (course' # Overlapping => ~Waiting) /\ gens' = gens
    BY <1>7 DEF OpenChat
  <2> QED
    BY <2>1, OneRest DEF Waiting, Busy, Active, Started
<1>8. ASSUME NEW c \in Chat, Delete(c) PROVE OneInv'
  BY <1>0, <1>8, OneKept DEF Delete, Busy, Active, signals, SignalsOK, Started
<1>9. ASSUME NEW g \in Started, EditStarts(g) PROVE OneInv'
  <2>1. /\ Started' = Started /\ gens'[g].at = "yielding" /\ generating' /\ course' = course
        /\ \A h \in Started \ {g} : gens'[h] = gens[h]
        /\ gens[g].at = "delayed"
    BY ZenonT(30), <1>0, <1>9, AtFields DEF EditStarts
  <2> QED
    BY <2>1 DEF OneInv, Busy, Active
<1>10. ASSUME NEW g \in Started, Post(g) PROVE OneInv'
  BY <1>0, <1>10, PostFields, OneKept DEF Post, Busy, Active, signals, SignalsOK, Started
<1>11. ASSUME NEW g \in Started, Connected(g) PROVE OneInv'
  <2>1. /\ Started' = Started /\ gens'[g].at = "reading" /\ gens[g].at = "connecting"
        /\ \A h \in Started \ {g} : gens'[h] = gens[h]
        /\ generating' = generating /\ course' = course
    BY <1>0, <1>11, AtFields DEF Connected, signals
  <2> QED
    BY <2>1, OneKept DEF Busy, Active
<1>12. ASSUME NEW g \in Started, Errs(g) PROVE OneInv'
  <2>1. /\ Active(g) /\ Started' = Started /\ gens'[g].at = "ending"
        /\ \A h \in Started \ {g} : gens'[h] = gens[h]
        /\ course' # Overlapping => course # Overlapping
    BY ZenonT(30), <1>0, <1>12, AtFields, NoteFacts DEF Errs, SettleError, Reset, Active
  <2> QED
    BY <2>1, OneEnds DEF Busy, Active
<1>13. ASSUME NEW g \in Started, Answers(g) PROVE OneInv'
  <2>1. /\ Started' = Started /\ gens'[g].at = "showing" /\ gens[g].at = "reading"
        /\ \A h \in Started \ {g} : gens'[h] = gens[h]
        /\ generating' = generating
        /\ course' # Overlapping => course # Overlapping
    BY <1>0, <1>13, LeaveFields, NoteFacts DEF Answers, Left, SettleText
  <2> QED
    BY <2>1, OneKept DEF Busy, Active
<1>14. ASSUME NEW g \in Started, LeavesEmpty(g) PROVE OneInv'
  <2>1. /\ Active(g) /\ Started' = Started /\ gens'[g].at = "ending"
        /\ \A h \in Started \ {g} : gens'[h] = gens[h]
        /\ course' # Overlapping => course # Overlapping
    BY <1>0, <1>14, LeaveFields, NoteFacts DEF LeavesEmpty, Left, SettleNothing, Reset, Active
  <2> QED
    BY <2>1, OneEnds DEF Busy, Active
<1>15. ASSUME NEW g \in Started, Shown(g) PROVE OneInv'
  <2>1. /\ Active(g) /\ Started' = Started /\ gens'[g].at = "ending"
        /\ \A h \in Started \ {g} : gens'[h] = gens[h]
        /\ course' # Overlapping => course # Overlapping
    BY <1>0, <1>15, AtFields DEF Shown, Reset, Active
  <2> QED
    BY <2>1, OneEnds DEF Busy, Active
<1>16. ASSUME NEW g \in Started, Ended(g) PROVE OneInv'
  BY <1>0, <1>16, AtFields, OneKept DEF Ended, Busy, Active, signals, SignalsOK, Started
<1>17. ASSUME NEW g \in Started, Resolve(g) PROVE OneInv'
  BY <1>0, <1>17, ResolveFields, OneKept DEF Resolve, Busy, Active, signals, SignalsOK, Started
<1>18. ASSUME NEW g \in Started, Store(g) PROVE OneInv'
  BY <1>0, <1>18, SrvFields, OneKept DEF Store, Busy, Active, signals, SignalsOK, Started
<1>19. ASSUME NEW g \in Started, Fail(g) PROVE OneInv'
  BY <1>0, <1>19, SrvFields, OneKept DEF Fail, Busy, Active, signals, SignalsOK, Started
<1>20. ASSUME NEW g \in Started, Gone(g) PROVE OneInv'
  BY <1>0, <1>20, SrvFields, OneKept DEF Gone, Busy, Active, signals, SignalsOK, Started
<1>21. ASSUME NEW i \in DOMAIN opens, OpenServed(i) PROVE OneInv'
  BY <1>0, <1>21, OneKept DEF OpenServed, Busy, Active, signals, SignalsOK, Started
<1>22. ASSUME NEW i \in DOMAIN opens, OpenAnswered(i) PROVE OneInv'
  <2>1. gens' = gens /\ generating' = generating /\ (course' # Overlapping => course # Overlapping)
    BY <1>0, <1>22, NoteFacts DEF OpenAnswered
  <2> QED
    BY <2>1, OneKept DEF Busy, Active, Started
<1>23. ASSUME NEW c \in Chat, DeleteAnswered(c) PROVE OneInv'
  <2>1. CASE StartNewChat
    <3>1. course' # Overlapping => ~Waiting
      BY <2>1 DEF StartNewChat
    <3>2. Started' = Started /\ \A h \in Started : gens'[h].at = gens[h].at
      BY <1>0, <2>1, AbortFields DEF StartNewChat, SignalsOK
    <3> QED
      BY <3>1, <3>2, OneRest DEF Waiting, Busy, Active
  <2>2. CASE UNCHANGED <<signals, view, gens, course>>
    BY <2>2, OneKept DEF signals, view, Started, Busy, Active
  <2> QED
    BY <1>23, <2>1, <2>2 DEF DeleteAnswered
<1> QED
  BY Cases, <1>1, <1>2, <1>3, <1>4, <1>5, <1>6, <1>7, <1>8, <1>9, <1>10, <1>11, <1>12, <1>13, <1>14, <1>15, <1>16, <1>17, <1>18, <1>19, <1>20, <1>21, <1>22, <1>23

-----------------------------------------------------------------------------
(* The page and the server. *)

\* A step that touches one generation.
LEMMA StageOne ==
  ASSUME StageInv, NEW g \in Started, Started' = Started,
         \A h \in Started \ {g} : gens'[h] = gens[h], Stage(g)'
  PROVE  StageInv'
BY DEF StageInv, Stage

\* A step that touches none, or only to abort.
LEMMA StageKept ==
  ASSUME StageInv, Started' = Started,
         \A h \in Started : /\ gens'[h].at = gens[h].at /\ gens'[h].srv = gens[h].srv
                            /\ gens'[h].chat = gens[h].chat /\ gens'[h].last = gens[h].last
                            /\ gens'[h].in = gens[h].in
  PROVE  StageInv'
BY DEF StageInv, Stage

\* A start.
LEMMA StageStarts ==
  ASSUME TypeOK, StageInv, NEW at \in Place, NEW regen \in BOOLEAN, Len(gens) < MaxGens,
         gens' = Append(gens, NewGeneration(at, regen)), at \in {"delayed", "yielding"}
  PROVE  StageInv'
<1>0. PICK n : n = Len(gens) + 1
  OBVIOUS
<1>1. /\ Started' = Started \cup {n} /\ \A h \in Started : gens'[h] = gens[h]
      /\ gens'[n].at = at /\ gens'[n].srv = "none" /\ gens'[n].in = None
  BY <1>0, NewFields DEF TypeOK
<1>2. ASSUME NEW h \in Started PROVE Stage(h)'
  BY <1>1 DEF StageInv, Stage, Resolved
<1>3. Stage(n)'
  BY <1>1 DEF Stage, Resolved
<1> QED
  BY <1>1, <1>2, <1>3 DEF StageInv

\* Every step keeps the page and the server in step.
LEMMA StageStep == TypeOK /\ StageInv /\ Next => StageInv'
<1> SUFFICES ASSUME TypeOK, StageInv, Next PROVE StageInv'
  OBVIOUS
<1>0. GensOK /\ SignalsOK /\ ServerOK /\ ViewOK
  BY DEF TypeOK
<1>s. StageInv /\ \A g \in Started : Stage(g)
  BY DEF StageInv
<1>1. ASSUME Send PROVE StageInv'
  BY <1>1, StageStarts DEF Send, Begin, Place
<1>2. ASSUME Regenerate PROVE StageInv'
  BY <1>2, StageStarts DEF Regenerate, Begin, Place
<1>3. ASSUME Retry PROVE StageInv'
  BY <1>3, StageStarts DEF Retry, Begin, Place
<1>4. ASSUME Stop PROVE StageInv'
  BY <1>0, <1>4, AbortFields, StageKept DEF Stop, signals, view, StartNewChat, SignalsOK, Started
<1>5. ASSUME NewChat PROVE StageInv'
  BY <1>0, <1>5, AbortFields, StageKept DEF NewChat, signals, view, StartNewChat, SignalsOK, Started
<1>6. ASSUME NEW i \in DOMAIN messages, Edit(i) PROVE StageInv'
  BY <1>6, StageStarts DEF Edit, Begin, Place
<1>7. ASSUME NEW c \in Chat, OpenChat(c) PROVE StageInv'
  BY <1>0, <1>7, StageKept DEF OpenChat, signals, view, StartNewChat, SignalsOK, Started
<1>8. ASSUME NEW c \in Chat, Delete(c) PROVE StageInv'
  BY <1>0, <1>8, StageKept DEF Delete, signals, view, StartNewChat, SignalsOK, Started
<1>9. ASSUME NEW g \in Started, EditStarts(g) PROVE StageInv'
  <2>1. Stage(g)'
    BY <1>0, <1>s, <1>9, AtFields DEF EditStarts, Stage, Resolved, Valid
  <2> QED
    BY <1>0, <1>9, AtFields, <2>1, StageOne DEF EditStarts
<1>10. ASSUME NEW g \in Started, Post(g) PROVE StageInv'
  <2>1. gens[g].at = "yielding"
    BY <1>10 DEF Post
  <2>2. Stage(g)'
    BY <1>0, <1>s, <1>10, <2>1, PostFields DEF Stage, Resolved
  <2> QED
    BY <1>0, <1>10, <2>2, PostFields, StageOne
<1>11. ASSUME NEW g \in Started, Connected(g) PROVE StageInv'
  <2>1. gens[g].srv \in Resolved
    <3>1. gens[g] \in GenerationOK
      BY <1>0 DEF GensOK, Started
    <3> QED
      BY <1>s, <1>11, <3>1 DEF Connected, Stage, Resolved, GenerationOK, AtServer
  <2>2. Stage(g)'
    BY <1>0, <1>s, <1>11, <2>1, AtFields DEF Connected, Stage, Resolved, Valid
  <2> QED
    BY <1>0, <1>11, <2>2, AtFields, StageOne DEF Connected
<1>12. ASSUME NEW g \in Started, Errs(g) PROVE StageInv'
  <2>1. Stage(g)'
    BY <1>0, <1>s, <1>12, AtFields DEF Errs, SettleError, Stage, Resolved, Valid
  <2> QED
    BY <1>0, <1>12, AtFields, <2>1, StageOne DEF Errs, SettleError
<1>13. ASSUME NEW g \in Started, Answers(g) PROVE StageInv'
  <2>1. Stage(g)'
    BY <1>0, <1>s, <1>13, LeaveFields DEF Answers, Left, SettleText, Stage, Resolved, Valid
  <2> QED
    BY <1>0, <1>13, LeaveFields, <2>1, StageOne DEF Answers, Left, SettleText
<1>14. ASSUME NEW g \in Started, LeavesEmpty(g) PROVE StageInv'
  <2>1. Stage(g)'
    BY <1>0, <1>s, <1>14, LeaveFields DEF LeavesEmpty, Left, SettleNothing, Stage, Resolved, Valid
  <2> QED
    BY <1>0, <1>14, LeaveFields, <2>1, StageOne DEF LeavesEmpty, Left, SettleNothing
<1>15. ASSUME NEW g \in Started, Shown(g) PROVE StageInv'
  <2>1. Stage(g)'
    BY <1>0, <1>s, <1>15, AtFields DEF Shown, Stage, Resolved, Valid
  <2> QED
    BY <1>0, <1>15, AtFields, <2>1, StageOne DEF Shown
<1>16. ASSUME NEW g \in Started, Ended(g) PROVE StageInv'
  <2>1. Stage(g)'
    BY <1>0, <1>s, <1>16, AtFields DEF Ended, Stage, Resolved, Valid
  <2> QED
    BY <1>0, <1>16, AtFields, <2>1, StageOne DEF Ended
<1>17. ASSUME NEW g \in Started, Resolve(g) PROVE StageInv'
  <2>1. gens[g].srv = "asked" /\ gens[g].chat \in Nat \cup {None}
    <3>1. gens[g] \in GenerationOK
      BY <1>0 DEF GensOK, Started
    <3> QED
      BY <1>17, <3>1 DEF Resolve, GenerationOK
  <2>2. created' \in Nat
    BY ServerStep, <1>s DEF TypeOK, ServerOK
  <2>3. Stage(g)'
    BY <1>0, <1>s, <1>17, <2>1, <2>2, ResolveFields DEF Stage, Resolved, Valid
  <2> QED
    BY <1>0, <1>17, <2>3, ResolveFields, StageOne
<1>18. ASSUME NEW g \in Started, Store(g) PROVE StageInv'
  <2>1. Stage(g)'
    BY <1>0, <1>s, <1>18, SrvFields DEF Store, Stage, Resolved, Valid
  <2> QED
    BY <1>0, <1>18, SrvFields, <2>1, StageOne DEF Store
<1>19. ASSUME NEW g \in Started, Fail(g) PROVE StageInv'
  <2>1. Stage(g)'
    BY <1>0, <1>s, <1>19, SrvFields DEF Fail, Stage, Resolved, Valid
  <2> QED
    BY <1>0, <1>19, SrvFields, <2>1, StageOne DEF Fail
<1>20. ASSUME NEW g \in Started, Gone(g) PROVE StageInv'
  <2>1. Stage(g)'
    BY <1>0, <1>s, <1>20, SrvFields DEF Gone, Stage, Resolved, Valid
  <2> QED
    BY <1>0, <1>20, SrvFields, <2>1, StageOne DEF Gone
<1>21. ASSUME NEW i \in DOMAIN opens, OpenServed(i) PROVE StageInv'
  BY <1>0, <1>21, StageKept DEF OpenServed, signals, view, StartNewChat, SignalsOK, Started
<1>22. ASSUME NEW i \in DOMAIN opens, OpenAnswered(i) PROVE StageInv'
  BY <1>0, <1>22, StageKept DEF OpenAnswered, signals, view, StartNewChat, SignalsOK, Started
<1>23. ASSUME NEW c \in Chat, DeleteAnswered(c) PROVE StageInv'
  BY <1>0, <1>23, AbortFields, StageKept DEF DeleteAnswered, signals, view, StartNewChat, SignalsOK, Started
<1> QED
  BY Cases, <1>1, <1>2, <1>3, <1>4, <1>5, <1>6, <1>7, <1>8, <1>9, <1>10, <1>11, <1>12, <1>13, <1>14, <1>15, <1>16, <1>17, <1>18, <1>19, <1>20, <1>21, <1>22, <1>23

-----------------------------------------------------------------------------
(* Whose answers the page shows. *)

\* An answer to one of the generations is the answer given in that chat.
Own(G, m, c) ==
  m.role = "assistant" /\ m.of # 0 => c \in Nat /\ m.of \in DOMAIN G /\ G[m.of].in = c
AllOwn(G, s, c) == \A i \in DOMAIN s : Own(G, s[i], c)

\* So it is at the server, and in what openChat() has been answered.
ChatsOwn  == \A c \in DOMAIN chats : AllOwn(gens, chats[c], c)
BodiesOwn == \A i \in DOMAIN opens :
  opens[i].at = "served" => AllOwn(gens, opens[i].body, opens[i].chat)

\* A step leaves a generation in the chat it answers in.
InsStay == \A h \in Started : h \in Started' /\ (gens[h].in # None => gens'[h].in = gens[h].in)
LEMMA InsKept == TypeOK /\ StageInv /\ Next => InsStay
<1> SUFFICES ASSUME TypeOK, StageInv, Next PROVE InsStay
  OBVIOUS
<1>0. GensOK /\ SignalsOK /\ ServerOK /\ ViewOK
  BY DEF TypeOK
<1>s. StageInv /\ \A g \in Started : Stage(g)
  BY DEF StageInv
<1>1. ASSUME Send PROVE InsStay
  BY <1>0, <1>1, NewFields DEF Send, Begin, Place, InsStay
<1>2. ASSUME Regenerate PROVE InsStay
  BY <1>0, <1>2, NewFields DEF Regenerate, Begin, Place, InsStay
<1>3. ASSUME Retry PROVE InsStay
  BY <1>0, <1>3, NewFields DEF Retry, Begin, Place, InsStay
<1>4. ASSUME Stop PROVE InsStay
  BY <1>0, <1>4, AbortFields DEF Stop, signals, view, StartNewChat, SignalsOK, Started, InsStay
<1>5. ASSUME NewChat PROVE InsStay
  BY <1>0, <1>5, AbortFields DEF NewChat, signals, view, StartNewChat, SignalsOK, Started, InsStay
<1>6. ASSUME NEW i \in DOMAIN messages, Edit(i) PROVE InsStay
  BY <1>0, <1>6, NewFields DEF Edit, Begin, Place, InsStay
<1>7. ASSUME NEW c \in Chat, OpenChat(c) PROVE InsStay
  BY <1>0, <1>7 DEF OpenChat, signals, view, StartNewChat, SignalsOK, Started, InsStay
<1>8. ASSUME NEW c \in Chat, Delete(c) PROVE InsStay
  BY <1>0, <1>8 DEF Delete, signals, view, StartNewChat, SignalsOK, Started, InsStay
<1>9. ASSUME NEW g \in Started, EditStarts(g) PROVE InsStay
  BY <1>0, <1>9, AtFields DEF EditStarts, InsStay
<1>10. ASSUME NEW g \in Started, Post(g) PROVE InsStay
  BY <1>0, <1>10, PostFields DEF Post, InsStay
<1>11. ASSUME NEW g \in Started, Connected(g) PROVE InsStay
  BY <1>0, <1>11, AtFields DEF Connected, InsStay
<1>12. ASSUME NEW g \in Started, Errs(g) PROVE InsStay
  BY <1>0, <1>12, AtFields DEF Errs, SettleError, InsStay
<1>13. ASSUME NEW g \in Started, Answers(g) PROVE InsStay
  BY <1>0, <1>13, LeaveFields DEF Answers, Left, SettleText, InsStay
<1>14. ASSUME NEW g \in Started, LeavesEmpty(g) PROVE InsStay
  BY <1>0, <1>14, LeaveFields DEF LeavesEmpty, Left, SettleNothing, InsStay
<1>15. ASSUME NEW g \in Started, Shown(g) PROVE InsStay
  BY <1>0, <1>15, AtFields DEF Shown, InsStay
<1>16. ASSUME NEW g \in Started, Ended(g) PROVE InsStay
  BY <1>0, <1>16, AtFields DEF Ended, InsStay
<1>17. ASSUME NEW g \in Started, Resolve(g) PROVE InsStay
  <2>1. gens[g].in = None
    BY <1>s, <1>17 DEF Resolve, Stage, Resolved
  <2> QED
    BY <1>0, <1>17, <2>1, ResolveFields DEF InsStay
<1>18. ASSUME NEW g \in Started, Store(g) PROVE InsStay
  BY <1>0, <1>18, SrvFields DEF Store, InsStay
<1>19. ASSUME NEW g \in Started, Fail(g) PROVE InsStay
  BY <1>0, <1>19, SrvFields DEF Fail, InsStay
<1>20. ASSUME NEW g \in Started, Gone(g) PROVE InsStay
  BY <1>0, <1>20, SrvFields DEF Gone, InsStay
<1>21. ASSUME NEW i \in DOMAIN opens, OpenServed(i) PROVE InsStay
  BY <1>0, <1>21 DEF OpenServed, signals, view, StartNewChat, SignalsOK, Started, InsStay
<1>22. ASSUME NEW i \in DOMAIN opens, OpenAnswered(i) PROVE InsStay
  BY <1>0, <1>22 DEF OpenAnswered, signals, view, StartNewChat, SignalsOK, Started, InsStay
<1>23. ASSUME NEW c \in Chat, DeleteAnswered(c) PROVE InsStay
  BY <1>0, <1>23, AbortFields DEF DeleteAnswered, signals, view, StartNewChat, SignalsOK, Started, InsStay
<1> QED
  BY Cases, <1>1, <1>2, <1>3, <1>4, <1>5, <1>6, <1>7, <1>8, <1>9, <1>10, <1>11, <1>12, <1>13, <1>14, <1>15, <1>16, <1>17, <1>18, <1>19, <1>20, <1>21, <1>22, <1>23

\* An answer stays an answer of its chat.
LEMMA OwnKept ==
  TypeOK /\ StageInv /\ Next => \A m, c : Own(gens, m, c) => Own(gens', m, c)
<1> SUFFICES ASSUME TypeOK, StageInv, Next, NEW m, NEW c, Own(gens, m, c) PROVE Own(gens', m, c)
  OBVIOUS
<1>1. \A g \in Started : g \in Started' /\ (gens[g].in # None => gens'[g].in = gens[g].in)
  BY InsKept DEF InsStay
<1> QED
  BY <1>1 DEF Own, Started

\* The server stores an answer in the chat it was asked in.
LEMMA ChatsOwnStep == TypeOK /\ StageInv /\ ChatsOwn /\ Next => ChatsOwn'
<1> SUFFICES ASSUME TypeOK, StageInv, ChatsOwn, Next PROVE ChatsOwn'
  OBVIOUS
<1>0. GensOK /\ SignalsOK /\ ServerOK /\ ViewOK
  BY DEF TypeOK
<1>s. \A g \in Started : Stage(g)
  BY DEF StageInv
<1>c. \A c \in DOMAIN chats : AllOwn(gens', chats[c], c)
  BY OwnKept DEF ChatsOwn, AllOwn
<1>1. ASSUME Send PROVE ChatsOwn'
  BY <1>c, <1>1 DEF Send, server, ChatsOwn
<1>2. ASSUME Regenerate PROVE ChatsOwn'
  BY <1>c, <1>2 DEF Regenerate, server, ChatsOwn
<1>3. ASSUME Retry PROVE ChatsOwn'
  BY <1>c, <1>3 DEF Retry, server, ChatsOwn
<1>4. ASSUME Stop PROVE ChatsOwn'
  BY <1>c, <1>4 DEF Stop, server, ChatsOwn
<1>5. ASSUME NewChat PROVE ChatsOwn'
  BY <1>c, <1>5 DEF NewChat, server, ChatsOwn
<1>6. ASSUME NEW i \in DOMAIN messages, Edit(i) PROVE ChatsOwn'
  BY <1>c, <1>6 DEF Edit, server, ChatsOwn
<1>7. ASSUME NEW c \in Chat, OpenChat(c) PROVE ChatsOwn'
  BY <1>c, <1>7 DEF OpenChat, server, ChatsOwn
<1>8. ASSUME NEW c \in Chat, Delete(c) PROVE ChatsOwn'
  BY <1>c, <1>8 DEF Delete, Without, ChatsOwn
<1>9. ASSUME NEW g \in Started, EditStarts(g) PROVE ChatsOwn'
  BY <1>c, <1>9 DEF EditStarts, server, sidebar, ChatsOwn
<1>10. ASSUME NEW g \in Started, Post(g) PROVE ChatsOwn'
  BY <1>c, <1>10 DEF Post, server, sidebar, ChatsOwn
<1>11. ASSUME NEW g \in Started, Connected(g) PROVE ChatsOwn'
  BY <1>c, <1>11 DEF Connected, server, sidebar, ChatsOwn
<1>12. ASSUME NEW g \in Started, Errs(g) PROVE ChatsOwn'
  BY <1>c, <1>12 DEF Errs, SettleError, server, sidebar, ChatsOwn
<1>13. ASSUME NEW g \in Started, Answers(g) PROVE ChatsOwn'
  BY <1>c, <1>13 DEF Answers, Left, SettleText, server, sidebar, ChatsOwn
<1>14. ASSUME NEW g \in Started, LeavesEmpty(g) PROVE ChatsOwn'
  BY <1>c, <1>14 DEF LeavesEmpty, Left, SettleNothing, server, sidebar, ChatsOwn
<1>15. ASSUME NEW g \in Started, Shown(g) PROVE ChatsOwn'
  BY <1>c, <1>15 DEF Shown, server, sidebar, ChatsOwn
<1>16. ASSUME NEW g \in Started, Ended(g) PROVE ChatsOwn'
  BY <1>c, <1>16 DEF Ended, server, sidebar, ChatsOwn
<1>17. ASSUME NEW g \in Started, Resolve(g) PROVE ChatsOwn'
  <2>1. ASSUME chats' = [c \in DOMAIN chats \cup {created'} |-> IF c = created' THEN <<>> ELSE chats[c]]
        PROVE  ChatsOwn'
    <3>1. ASSUME NEW c \in DOMAIN chats' PROVE AllOwn(gens', chats'[c], c)
      <4>1. CASE c = created'
        BY <2>1, <4>1 DEF AllOwn
      <4>2. CASE c # created'
        BY <1>c, <2>1, <4>2
      <4> QED
        BY <4>1, <4>2
    <3> QED
      BY <3>1 DEF ChatsOwn
  <2> QED
    BY <1>c, <1>17, <2>1 DEF Resolve, server, ChatsOwn
<1>18. ASSUME NEW g \in Started, Store(g) PROVE ChatsOwn'
  <2> DEFINE c == gens[g].in
             turn == IF gens[g].regenerate THEN <<Answer(g)>> ELSE <<gens[g].last, Answer(g)>>
  <2>1. /\ c \in DOMAIN chats /\ chats' = [chats EXCEPT ![c] = chats[c] \o turn]
        /\ gens[g].srv = "running"
    BY <1>18 DEF Store
  <2>2. c \in Nat /\ Valid(gens[g].last) /\ gens'[g].in = c /\ g \in DOMAIN gens'
    BY <1>0, <1>s, <1>18, <2>1, SrvFields DEF Stage, Resolved, Store, Started
  <2>3. Own(gens', Answer(g), c) /\ Own(gens', gens[g].last, c)
    BY <2>2 DEF Own, Answer, Valid
  <2>4. turn \in Seq({Answer(g), gens[g].last}) /\ AllOwn(gens', turn, c)
    <3>1. PICK a, b : a = Answer(g) /\ b = gens[g].last
      OBVIOUS
    <3>2. turn = <<a>> \/ turn = <<b, a>>
      BY <3>1
    <3> HIDE DEF turn
    <3>3. turn \in Seq({a, b}) /\ \A i \in DOMAIN turn : turn[i] \in {a, b}
      <4>1. CASE turn = <<a>>
        BY <4>1
      <4>2. CASE turn = <<b, a>>
        BY <4>2
      <4> QED
        BY <3>2, <4>1, <4>2
    <3> QED
      BY <2>3, <3>1, <3>3 DEF AllOwn
  <2> HIDE DEF turn
  <2>5. chats[c] \in Seq(Message) /\ turn \in Seq(Message \cup {Answer(g), gens[g].last})
    BY <1>0, <2>1, <2>4 DEF ServerOK
  <2>6. chats[c] \in Seq(Message \cup {Answer(g), gens[g].last})
    BY <2>5
  <2>7. AllOwn(gens', chats[c] \o turn, c)
    BY <1>c, <2>1, <2>4, <2>5, <2>6, ConcatProperties DEF AllOwn
  <2> QED
    BY <1>c, <2>1, <2>7 DEF ChatsOwn
<1>19. ASSUME NEW g \in Started, Fail(g) PROVE ChatsOwn'
  BY <1>c, <1>19 DEF Fail, CleanedUp, Without, ChatsOwn
<1>20. ASSUME NEW g \in Started, Gone(g) PROVE ChatsOwn'
  BY <1>c, <1>20 DEF Gone, CleanedUp, Without, ChatsOwn
<1>21. ASSUME NEW i \in DOMAIN opens, OpenServed(i) PROVE ChatsOwn'
  BY <1>c, <1>21 DEF OpenServed, server, ChatsOwn
<1>22. ASSUME NEW i \in DOMAIN opens, OpenAnswered(i) PROVE ChatsOwn'
  BY <1>c, <1>22 DEF OpenAnswered, server, ChatsOwn
<1>23. ASSUME NEW c \in Chat, DeleteAnswered(c) PROVE ChatsOwn'
  BY <1>c, <1>23 DEF DeleteAnswered, server, ChatsOwn
<1> QED
  BY Cases, <1>1, <1>2, <1>3, <1>4, <1>5, <1>6, <1>7, <1>8, <1>9, <1>10, <1>11, <1>12, <1>13, <1>14, <1>15, <1>16, <1>17, <1>18, <1>19, <1>20, <1>21, <1>22, <1>23

\* What the steps of openChat() leave in its calls.
LEMMA OpenChatFields ==
  ASSUME SidebarOK, NEW c \in Chat, OpenChat(c)
  PROVE  /\ DOMAIN opens' = DOMAIN opens \cup {Len(opens) + 1} /\ Len(opens) + 1 \notin DOMAIN opens
         /\ \A j \in DOMAIN opens : opens'[j] = opens[j]
         /\ opens'[Len(opens) + 1].chat = c /\ opens'[Len(opens) + 1].at = "asked"
<1> DEFINE e == [chat |-> c, at |-> "asked", body |-> <<>>]
<1>1. opens' = Append(opens, e) /\ opens \in Seq(Opening) /\ e.chat = c /\ e.at = "asked"
  BY DEF OpenChat, SidebarOK
<1> HIDE DEF e
<1> QED
  BY <1>1

\* Of the answer the server gives.
LEMMA OpenServedFields ==
  ASSUME SidebarOK, NEW i \in DOMAIN opens, OpenServed(i)
  PROVE  /\ DOMAIN opens' = DOMAIN opens
         /\ \A j \in DOMAIN opens \ {i} : opens'[j] = opens[j]
         /\ opens'[i].chat = opens[i].chat /\ opens[i].at = "asked"
         /\ \/ /\ opens'[i].at = "served" /\ opens[i].chat \in DOMAIN chats
               /\ opens'[i].body = chats[opens[i].chat]
            \/ opens'[i].at = "missing" /\ opens[i].chat \notin DOMAIN chats
<1>1. opens[i] \in Opening /\ opens \in Seq(Opening)
  BY DEF SidebarOK
<1>2. CASE opens[i].chat \in DOMAIN chats
  BY <1>1, <1>2 DEF OpenServed, Opening
<1>3. CASE opens[i].chat \notin DOMAIN chats
  BY <1>1, <1>3 DEF OpenServed, Opening
<1> QED
  BY <1>2, <1>3

\* Of the answer the page reads.
LEMMA OpenAnsweredFields ==
  ASSUME SidebarOK, NEW i \in DOMAIN opens, OpenAnswered(i)
  PROVE  /\ DOMAIN opens' = DOMAIN opens
         /\ \A j \in DOMAIN opens \ {i} : opens'[j] = opens[j]
         /\ opens'[i].chat = opens[i].chat /\ opens'[i].at = "over"
<1>1. opens[i] \in Opening /\ opens \in Seq(Opening)
  BY DEF SidebarOK
<1> QED
  BY <1>1 DEF OpenAnswered, Opening

\* The calls of openChat() are touched by its own steps only.
LEMMA OpensKept ==
  ASSUME Next, ~\E c \in Chat : OpenChat(c), ~\E i \in DOMAIN opens : OpenServed(i) \/ OpenAnswered(i)
  PROVE  opens' = opens
<1>1. ASSUME Send PROVE opens' = opens
  BY <1>1 DEF Send, sidebar
<1>2. ASSUME Regenerate PROVE opens' = opens
  BY <1>2 DEF Regenerate, sidebar
<1>3. ASSUME Retry PROVE opens' = opens
  BY <1>3 DEF Retry, sidebar
<1>4. ASSUME Stop PROVE opens' = opens
  BY <1>4 DEF Stop, sidebar
<1>5. ASSUME NewChat PROVE opens' = opens
  BY <1>5 DEF NewChat, sidebar
<1>6. ASSUME NEW i \in DOMAIN messages, Edit(i) PROVE opens' = opens
  BY <1>6 DEF Edit, sidebar
<1>7. ASSUME NEW c \in Chat, OpenChat(c) PROVE opens' = opens
  BY <1>7
<1>8. ASSUME NEW c \in Chat, Delete(c) PROVE opens' = opens
  BY <1>8 DEF Delete, sidebar
<1>9. ASSUME NEW g \in Started, EditStarts(g) PROVE opens' = opens
  BY <1>9 DEF EditStarts, sidebar
<1>10. ASSUME NEW g \in Started, Post(g) PROVE opens' = opens
  BY <1>10 DEF Post, sidebar
<1>11. ASSUME NEW g \in Started, Connected(g) PROVE opens' = opens
  BY <1>11 DEF Connected, sidebar
<1>12. ASSUME NEW g \in Started, Errs(g) PROVE opens' = opens
  BY <1>12 DEF Errs, sidebar, SettleError
<1>13. ASSUME NEW g \in Started, Answers(g) PROVE opens' = opens
  BY <1>13 DEF Answers, sidebar, Left, SettleText
<1>14. ASSUME NEW g \in Started, LeavesEmpty(g) PROVE opens' = opens
  BY <1>14 DEF LeavesEmpty, sidebar, Left, SettleNothing
<1>15. ASSUME NEW g \in Started, Shown(g) PROVE opens' = opens
  BY <1>15 DEF Shown, sidebar
<1>16. ASSUME NEW g \in Started, Ended(g) PROVE opens' = opens
  BY <1>16 DEF Ended, sidebar
<1>17. ASSUME NEW g \in Started, Resolve(g) PROVE opens' = opens
  BY <1>17 DEF Resolve, sidebar
<1>18. ASSUME NEW g \in Started, Store(g) PROVE opens' = opens
  BY <1>18 DEF Store, sidebar
<1>19. ASSUME NEW g \in Started, Fail(g) PROVE opens' = opens
  BY <1>19 DEF Fail, sidebar
<1>20. ASSUME NEW g \in Started, Gone(g) PROVE opens' = opens
  BY <1>20 DEF Gone, sidebar
<1>21. ASSUME NEW i \in DOMAIN opens, OpenServed(i) PROVE opens' = opens
  BY <1>21
<1>22. ASSUME NEW i \in DOMAIN opens, OpenAnswered(i) PROVE opens' = opens
  BY <1>22
<1>23. ASSUME NEW c \in Chat, DeleteAnswered(c) PROVE opens' = opens
  BY <1>23 DEF DeleteAnswered, sidebar
<1> QED
  BY Cases, <1>1, <1>2, <1>3, <1>4, <1>5, <1>6, <1>7, <1>8, <1>9, <1>10, <1>11, <1>12, <1>13, <1>14, <1>15, <1>16, <1>17, <1>18, <1>19, <1>20, <1>21, <1>22, <1>23

\* What the server answers is what it has of that chat.
LEMMA BodiesOwnStep == TypeOK /\ StageInv /\ ChatsOwn /\ BodiesOwn /\ Next => BodiesOwn'
<1> SUFFICES ASSUME TypeOK, StageInv, ChatsOwn, BodiesOwn, Next PROVE BodiesOwn'
  OBVIOUS
<1>0. SidebarOK
  BY DEF TypeOK
<1>1. \A i \in DOMAIN opens : opens[i].at = "served" => AllOwn(gens', opens[i].body, opens[i].chat)
  BY OwnKept DEF BodiesOwn, AllOwn
<1>2. \A c \in DOMAIN chats : AllOwn(gens', chats[c], c)
  BY OwnKept DEF ChatsOwn, AllOwn
<1>3. ASSUME NEW c \in Chat, OpenChat(c) PROVE BodiesOwn'
  BY <1>0, <1>1, <1>3, OpenChatFields DEF BodiesOwn
<1>4. ASSUME NEW i \in DOMAIN opens, OpenServed(i) PROVE BodiesOwn'
  BY <1>0, <1>1, <1>2, <1>4, OpenServedFields DEF BodiesOwn
<1>5. ASSUME NEW i \in DOMAIN opens, OpenAnswered(i) PROVE BodiesOwn'
  BY <1>0, <1>1, <1>5, OpenAnsweredFields DEF BodiesOwn
<1>6. CASE opens' = opens
  BY <1>1, <1>6 DEF BodiesOwn
<1> QED
  BY <1>3, <1>4, <1>5, <1>6, OpensKept

\* As long as nothing overlaps, what is on its way is for the chat that is
\* active: a request, or one chat being opened while nothing is generated.
InFlight(i) == opens[i].at # "over"
Asking(g)   == gens[g].at \in {"connecting", "reading"}
MovesInv ==
  course # Overlapping =>
    /\ \A g \in Started : Asking(g) => gens[g].chat = active
    /\ \A i, j \in DOMAIN opens : InFlight(i) /\ InFlight(j) => i = j
    /\ \A i \in DOMAIN opens : InFlight(i) => opens[i].chat = active /\ \A g \in Started : ~Busy(g)

\* A step that asks for nothing that is not for the active chat.
LEMMA MovesKept ==
  ASSUME MovesInv, active' = active, opens' = opens, Started' = Started,
         course' # Overlapping => course # Overlapping,
         \A g \in Started : /\ Busy(g)' => Busy(g)
                            /\ Asking(g)' => gens'[g].chat = active \/ (Asking(g) /\ gens'[g].chat = gens[g].chat)
  PROVE  MovesInv'
BY DEF MovesInv, InFlight, Asking

\* A step that a user who waits takes when nothing is on its way.
LEMMA MovesRest ==
  ASSUME course' # Overlapping => ~Waiting, opens' = opens, Started' = Started,
         \A g \in Started : gens'[g].at = gens[g].at
  PROVE  MovesInv'
BY DEF MovesInv, InFlight, Asking, Waiting, Active

\* A start, which such a user makes when nothing is on its way.
LEMMA MovesStarts ==
  ASSUME TypeOK, NEW at \in {"yielding", "delayed"}, NEW regen \in BOOLEAN, Len(gens) < MaxGens,
         gens' = Append(gens, NewGeneration(at, regen)),
         course' # Overlapping => ~Waiting, opens' = opens
  PROVE  MovesInv'
<1>1. /\ Started' = Started \cup {Len(gens) + 1}
      /\ \A h \in Started : gens'[h] = gens[h]
      /\ gens'[Len(gens) + 1].at = at
  BY NewFields DEF TypeOK, Place
<1> QED
  BY <1>1 DEF MovesInv, InFlight, Asking, Waiting, Active

\* Every step keeps this.
LEMMA MovesStep == TypeOK /\ OneInv /\ MovesInv /\ Next => MovesInv'
<1> SUFFICES ASSUME TypeOK, OneInv, MovesInv, Next PROVE MovesInv'
  OBVIOUS
<1>0. GensOK /\ SignalsOK /\ ServerOK /\ ViewOK
  BY DEF TypeOK
<1>b. SidebarOK
  BY DEF TypeOK
<1>1. ASSUME Send PROVE MovesInv'
  <2>1. course' # Overlapping => ~Waiting
    BY <1>0, <1>1, NoteFacts DEF Send
  <2> QED
    BY <1>1, <2>1, MovesStarts DEF Send, Begin, sidebar
<1>2. ASSUME Regenerate PROVE MovesInv'
  <2>1. course' # Overlapping => ~Waiting
    BY <1>0, <1>2, NoteFacts DEF Regenerate
  <2> QED
    BY <1>2, <2>1, MovesStarts DEF Regenerate, Begin, sidebar
<1>3. ASSUME Retry PROVE MovesInv'
  <2>1. course' # Overlapping => ~Waiting
    BY <1>0, <1>3, NoteFacts DEF Retry
  <2> QED
    BY <1>3, <2>1, MovesStarts DEF Retry, Begin, sidebar
<1>4. ASSUME Stop PROVE MovesInv'
  BY <1>0, <1>4, AbortFields, MovesKept DEF Stop, signals, sidebar, SignalsOK, Started, Busy, Active, Asking
<1>5. ASSUME NewChat PROVE MovesInv'
  <2>1. (course' # Overlapping => ~Waiting) /\ opens' = opens
    BY <1>5 DEF NewChat, StartNewChat, sidebar
  <2>2. Started' = Started /\ \A h \in Started : gens'[h].at = gens[h].at
    BY <1>0, <1>5, AbortFields DEF NewChat, StartNewChat, SignalsOK
  <2> QED
    BY <2>1, <2>2, MovesRest
<1>6. ASSUME NEW i \in DOMAIN messages, Edit(i) PROVE MovesInv'
  <2>1. course' # Overlapping => ~Waiting
    BY <1>0, <1>6, NoteFacts DEF Edit
  <2> QED
    BY <1>6, <2>1, MovesStarts DEF Edit, Begin, sidebar
<1>7. ASSUME NEW c \in Chat, OpenChat(c) PROVE MovesInv'
  <2>1. (course' # Overlapping => ~Waiting) /\ gens' = gens /\ active' = c
    BY <1>7 DEF OpenChat
  <2> QED
    BY <1>b, <1>7, <2>1, OpenChatFields DEF MovesInv, InFlight, Asking, Waiting, Busy, Active, Started
<1>8. ASSUME NEW c \in Chat, Delete(c) PROVE MovesInv'
  BY <1>0, <1>8, MovesKept DEF Delete, signals, sidebar, SignalsOK, Started, Busy, Active, Asking
<1>9. ASSUME NEW g \in Started, EditStarts(g) PROVE MovesInv'
  BY <1>0, <1>9, AtFields, MovesKept DEF EditStarts, signals, sidebar, SignalsOK, Started, Busy, Active, Asking
<1>10. ASSUME NEW g \in Started, Post(g) PROVE MovesInv'
  BY <1>0, <1>10, PostFields, MovesKept DEF Post, signals, sidebar, SignalsOK, Started, Busy, Active, Asking
<1>11. ASSUME NEW g \in Started, Connected(g) PROVE MovesInv'
  BY <1>0, <1>11, AtFields, MovesKept DEF Connected, signals, sidebar, SignalsOK, Started, Busy, Active, Asking
<1>12. ASSUME NEW g \in Started, Errs(g) PROVE MovesInv'
  BY <1>0, <1>12, AtFields, NoteFacts, MovesKept DEF Errs, SettleError, signals, sidebar, SignalsOK, Started, Busy, Active, Asking
<1>13. ASSUME NEW g \in Started, Answers(g) PROVE MovesInv'
  <2>1. /\ Busy(g) /\ Started' = Started /\ gens'[g].at = "showing" /\ opens' = opens
        /\ \A h \in Started \ {g} : gens'[h] = gens[h]
        /\ course' # Overlapping => course # Overlapping
    BY <1>0, <1>13, LeaveFields, NoteFacts DEF Answers, Left, SettleText, Busy, Active
  <2>2. course' # Overlapping => \A h \in Started \ {g} : ~Busy(h)
    BY <2>1 DEF OneInv
  <2> QED
    BY <2>1, <2>2 DEF MovesInv, InFlight, Asking, Busy, Active
<1>14. ASSUME NEW g \in Started, LeavesEmpty(g) PROVE MovesInv'
  BY <1>0, <1>14, LeaveFields, NoteFacts, MovesKept DEF LeavesEmpty, Left, SettleNothing, signals, sidebar, SignalsOK, Started, Busy, Active, Asking
<1>15. ASSUME NEW g \in Started, Shown(g) PROVE MovesInv'
  BY <1>0, <1>15, AtFields, MovesKept DEF Shown, signals, sidebar, SignalsOK, Started, Busy, Active, Asking
<1>16. ASSUME NEW g \in Started, Ended(g) PROVE MovesInv'
  BY <1>0, <1>16, AtFields, MovesKept DEF Ended, signals, sidebar, SignalsOK, Started, Busy, Active, Asking
<1>17. ASSUME NEW g \in Started, Resolve(g) PROVE MovesInv'
  <2>1. active' = active /\ opens' = opens /\ course' = course
    BY <1>17 DEF Resolve, signals, sidebar
  <2> QED
    BY <1>0, <1>17, <2>1, ResolveFields, MovesKept DEF Busy, Active, Asking
<1>18. ASSUME NEW g \in Started, Store(g) PROVE MovesInv'
  BY <1>0, <1>18, SrvFields, MovesKept DEF Store, signals, sidebar, SignalsOK, Started, Busy, Active, Asking
<1>19. ASSUME NEW g \in Started, Fail(g) PROVE MovesInv'
  BY <1>0, <1>19, SrvFields, MovesKept DEF Fail, signals, sidebar, SignalsOK, Started, Busy, Active, Asking
<1>20. ASSUME NEW g \in Started, Gone(g) PROVE MovesInv'
  BY <1>0, <1>20, SrvFields, MovesKept DEF Gone, signals, sidebar, SignalsOK, Started, Busy, Active, Asking
<1>21. ASSUME NEW i \in DOMAIN opens, OpenServed(i) PROVE MovesInv'
  <2>1. active' = active /\ gens' = gens /\ course' = course
    BY <1>21 DEF OpenServed, signals
  <2>2. \A j \in DOMAIN opens : InFlight(j)' => InFlight(j)
    BY <1>b, <1>21, OpenServedFields DEF InFlight
  <2>3. DOMAIN opens' = DOMAIN opens /\ \A j \in DOMAIN opens : opens'[j].chat = opens[j].chat
    BY <1>b, <1>21, OpenServedFields
  <2> QED
    BY <2>1, <2>2, <2>3 DEF MovesInv, Asking, Busy, Active, Started
<1>22. ASSUME NEW i \in DOMAIN opens, OpenAnswered(i) PROVE MovesInv'
  <2>1. active' = active /\ gens' = gens /\ (course' # Overlapping => course # Overlapping)
    BY <1>0, <1>22, NoteFacts DEF OpenAnswered
  <2>2. \A j \in DOMAIN opens : InFlight(j)' => InFlight(j)
    BY <1>b, <1>22, OpenAnsweredFields DEF InFlight
  <2>3. DOMAIN opens' = DOMAIN opens /\ \A j \in DOMAIN opens : opens'[j].chat = opens[j].chat
    BY <1>b, <1>22, OpenAnsweredFields
  <2> QED
    BY <2>1, <2>2, <2>3 DEF MovesInv, Asking, Busy, Active, Started
<1>23. ASSUME NEW c \in Chat, DeleteAnswered(c) PROVE MovesInv'
  <2>0. opens' = opens
    BY <1>23 DEF DeleteAnswered
  <2>1. CASE StartNewChat
    <3>1. course' # Overlapping => ~Waiting
      BY <2>1 DEF StartNewChat
    <3>2. Started' = Started /\ \A h \in Started : gens'[h].at = gens[h].at
      BY <1>0, <2>1, AbortFields DEF StartNewChat, SignalsOK
    <3> QED
      BY <2>0, <3>1, <3>2, MovesRest
  <2>2. CASE UNCHANGED <<signals, view, gens, course>>
    BY <2>0, <2>2, MovesKept DEF signals, view, Started, Busy, Active, Asking
  <2> QED
    BY <1>23, <2>1, <2>2 DEF DeleteAnswered
<1> QED
  BY Cases, <1>1, <1>2, <1>3, <1>4, <1>5, <1>6, <1>7, <1>8, <1>9, <1>10, <1>11, <1>12, <1>13, <1>14, <1>15, <1>16, <1>17, <1>18, <1>19, <1>20, <1>21, <1>22, <1>23

\* Once the chat that was opened last has been loaded, the page shows answers of
\* the active chat only.
PageOwn ==
  course # Overlapping /\ (\A i \in DOMAIN opens : ~InFlight(i)) => AllOwn(gens, messages, active)

\* A step that leaves the list of messages as it is, or drops some of them.
LEMMA PageKept ==
  ASSUME TypeOK, StageInv, PageOwn, Next, active' = active,
         \A i \in DOMAIN messages' : i \in DOMAIN messages /\ messages'[i] = messages[i],
         \A i \in DOMAIN opens : i \in DOMAIN opens' /\ (InFlight(i) => InFlight(i)'),
         course' # Overlapping => course # Overlapping
  PROVE  PageOwn'
<1>1. \A m, c : Own(gens, m, c) => Own(gens', m, c)
  BY OwnKept
<1> QED
  BY <1>1 DEF PageOwn, AllOwn

\* A step that adds a question to what is left of the list.
LEMMA PageAsks ==
  ASSUME TypeOK, StageInv, PageOwn, Next, active' = active, NEW n \in 0..Len(messages), NEW g \in Gen,
         messages' = Append(SubSeq(messages, 1, n), Question(g)), opens' = opens,
         course' # Overlapping => course # Overlapping
  PROVE  PageOwn'
<1>1. \A m, c : Own(gens, m, c) => Own(gens', m, c)
  BY OwnKept
<1>2. messages \in Seq(Message) /\ Question(g) \in Message
  BY MessageTypes DEF TypeOK, SignalsOK
<1>3. \A c : Own(gens', Question(g), c)
  BY DEF Own, Question
<1> HIDE DEF Question
<1>4. ASSUME NEW i \in DOMAIN messages'
      PROVE  messages'[i] = Question(g) \/ (i \in DOMAIN messages /\ messages'[i] = messages[i])
  BY <1>2
<1> QED
  BY <1>1, <1>3, <1>4 DEF PageOwn, AllOwn, InFlight

\* Every step keeps the page to the active chat.
LEMMA PageStep == TypeOK /\ StageInv /\ BodiesOwn /\ MovesInv /\ PageOwn /\ Next => PageOwn'
<1> SUFFICES ASSUME TypeOK, StageInv, BodiesOwn, MovesInv, PageOwn, Next PROVE PageOwn'
  OBVIOUS
<1>0. GensOK /\ SignalsOK /\ ServerOK /\ ViewOK
  BY DEF TypeOK
<1>b. SidebarOK
  BY DEF TypeOK
<1>1. ASSUME Send PROVE PageOwn'
  <2>1. Len(gens) + 1 \in Gen /\ messages = SubSeq(messages, 1, Len(messages)) /\ Len(messages) \in Nat
    BY <1>0, <1>1, SubSeqFull, LenProperties DEF Send, Begin, Gen, GensOK, SignalsOK
  <2>2. course' # Overlapping => course # Overlapping
    BY <1>0, <1>1, NoteFacts DEF Send
  <2> QED
    BY <1>1, <2>1, <2>2, PageAsks DEF Send, sidebar
<1>2. ASSUME Regenerate PROVE PageOwn'
  <2> DEFINE last == SelectLastInSeq(messages, LAMBDA m : m.role = "assistant")
  <2>1. last \in 0..Len(messages) /\ messages \in Seq(Message)
    BY <1>0, LastAnswer DEF SignalsOK
  <2>2. messages' = (IF last = 0 THEN messages ELSE SubSeq(messages, 1, last - 1))
    BY <1>2 DEF Regenerate
  <2> HIDE DEF last
  <2>3. \A i \in DOMAIN messages' : i \in DOMAIN messages /\ messages'[i] = messages[i]
    BY <2>1, <2>2
  <2> QED
    BY <1>0, <1>2, <2>3, NoteFacts, PageKept DEF Regenerate, sidebar, InFlight
<1>3. ASSUME Retry PROVE PageOwn'
  BY <1>0, <1>3, NoteFacts, PageKept DEF Retry, sidebar, InFlight
<1>4. ASSUME Stop PROVE PageOwn'
  BY <1>0, <1>4, PageKept DEF Stop, signals, sidebar, InFlight
<1>5. ASSUME NewChat PROVE PageOwn'
  BY <1>5 DEF NewChat, StartNewChat, PageOwn, AllOwn
<1>6. ASSUME NEW i \in DOMAIN messages, Edit(i) PROVE PageOwn'
  <2>1. Len(gens) + 1 \in Gen /\ i - 1 \in 0..Len(messages)
    BY <1>0, <1>6, LenProperties DEF Edit, Gen, GensOK, SignalsOK
  <2>2. course' # Overlapping => course # Overlapping
    BY <1>0, <1>6, NoteFacts DEF Edit
  <2> QED
    BY <1>6, <2>1, <2>2, PageAsks DEF Edit, sidebar
<1>7. ASSUME NEW c \in Chat, OpenChat(c) PROVE PageOwn'
  BY <1>b, <1>7, OpenChatFields DEF PageOwn, InFlight
<1>8. ASSUME NEW c \in Chat, Delete(c) PROVE PageOwn'
  BY <1>0, <1>8, PageKept DEF Delete, signals, sidebar, InFlight
<1>9. ASSUME NEW g \in Started, EditStarts(g) PROVE PageOwn'
  BY <1>0, <1>9, PageKept DEF EditStarts, signals, sidebar, InFlight
<1>10. ASSUME NEW g \in Started, Post(g) PROVE PageOwn'
  BY <1>0, <1>10, PageKept DEF Post, signals, sidebar, InFlight
<1>11. ASSUME NEW g \in Started, Connected(g) PROVE PageOwn'
  BY <1>0, <1>11, PageKept DEF Connected, signals, sidebar, InFlight
<1>12. ASSUME NEW g \in Started, Errs(g) PROVE PageOwn'
  BY <1>0, <1>12, NoteFacts, PageKept DEF Errs, SettleError, signals, sidebar, InFlight
<1>13. ASSUME NEW g \in Started, Answers(g) PROVE PageOwn'
  <2>1. /\ Busy(g) /\ Asking(g) /\ gens[g].at = "reading" /\ opens' = opens /\ gens'[g].in = gens[g].in
        /\ Started' = Started /\ (course' # Overlapping => course # Overlapping)
        /\ messages' = Append(messages, Answer(g)) /\ messages \in Seq(Message)
        /\ active' = IF active = None THEN gens[g].in ELSE active
    BY <1>0, <1>13, LeaveFields, NoteFacts DEF Answers, Left, SettleText, Busy, Active, Asking, SignalsOK
  <2>2. gens[g].in \in Nat /\ (gens[g].chat # None => gens[g].in = gens[g].chat)
    BY <2>1 DEF StageInv, Stage
  <2> SUFFICES ASSUME course' # Overlapping PROVE AllOwn(gens', messages', active')
    BY DEF PageOwn
  <2>a. course # Overlapping /\ Asking(g) /\ Busy(g)
    BY <2>1
  <2>3. gens[g].chat = active /\ \A i \in DOMAIN opens : ~InFlight(i)
    BY <2>a DEF MovesInv
  <2>4. active' = gens[g].in /\ g \in Gen
    BY <1>0, <2>1, <2>2, <2>3 DEF SignalsOK, Gen, GensOK, Started
  <2>5. Own(gens', Answer(g), active')
    <3>1. g \in DOMAIN gens' /\ gens'[g].in = active' /\ active' \in Nat
      BY <2>1, <2>2, <2>4 DEF Started
    <3> QED
      BY <3>1 DEF Own, Answer
  <2>6. \A i \in DOMAIN messages : Own(gens', messages[i], active')
    <3>1. \A i \in DOMAIN messages : Own(gens, messages[i], active)
      BY <2>a, <2>3 DEF PageOwn, AllOwn
    <3>2. \A i \in DOMAIN messages : Own(gens, messages[i], active')
      <4>1. CASE active = None
        BY <3>1, <4>1 DEF Own
      <4>2. CASE active # None
        BY <3>1, <2>1, <4>2
      <4> QED
        BY <4>1, <4>2
    <3> QED
      BY <3>2, OwnKept
  <2>7. \A i \in DOMAIN messages' : messages'[i] = Answer(g) \/ (i \in DOMAIN messages /\ messages'[i] = messages[i])
    <3> HIDE DEF Answer
    <3> QED
      BY <2>1, <2>4, MessageTypes
  <2> QED
    BY <2>5, <2>6, <2>7 DEF AllOwn
<1>14. ASSUME NEW g \in Started, LeavesEmpty(g) PROVE PageOwn'
  BY <1>0, <1>14, NoteFacts, PageKept DEF LeavesEmpty, Left, SettleNothing, signals, sidebar, InFlight
<1>15. ASSUME NEW g \in Started, Shown(g) PROVE PageOwn'
  BY <1>0, <1>15, PageKept DEF Shown, signals, sidebar, InFlight
<1>16. ASSUME NEW g \in Started, Ended(g) PROVE PageOwn'
  BY <1>0, <1>16, PageKept DEF Ended, signals, sidebar, InFlight
<1>17. ASSUME NEW g \in Started, Resolve(g) PROVE PageOwn'
  BY <1>0, <1>17, PageKept DEF Resolve, signals, sidebar, InFlight
<1>18. ASSUME NEW g \in Started, Store(g) PROVE PageOwn'
  BY <1>0, <1>18, PageKept DEF Store, signals, sidebar, InFlight
<1>19. ASSUME NEW g \in Started, Fail(g) PROVE PageOwn'
  BY <1>0, <1>19, PageKept DEF Fail, signals, sidebar, InFlight
<1>20. ASSUME NEW g \in Started, Gone(g) PROVE PageOwn'
  BY <1>0, <1>20, PageKept DEF Gone, signals, sidebar, InFlight
<1>21. ASSUME NEW i \in DOMAIN opens, OpenServed(i) PROVE PageOwn'
  BY <1>b, <1>21, OpenServedFields DEF PageOwn, InFlight
<1>22. ASSUME NEW i \in DOMAIN opens, OpenAnswered(i) PROVE PageOwn'
  <2>1. CASE opens[i].at = "missing"
    BY <1>0, <1>22, <2>1, NoteFacts DEF OpenAnswered, PageOwn
  <2>2. CASE opens[i].at = "served"
    <3>1. messages' = opens[i].body /\ course' = course /\ active' = active /\ gens' = gens
      BY <1>22, <2>2 DEF OpenAnswered
    <3>2. course # Overlapping => opens[i].chat = active
      BY <2>2 DEF MovesInv, InFlight
    <3>3. AllOwn(gens, opens[i].body, opens[i].chat)
      BY <2>2 DEF BodiesOwn
    <3> QED
      BY <3>1, <3>2, <3>3 DEF PageOwn
  <2> QED
    BY <1>22, <2>1, <2>2 DEF OpenAnswered
<1>23. ASSUME NEW c \in Chat, DeleteAnswered(c) PROVE PageOwn'
  <2>1. CASE StartNewChat
    BY <2>1 DEF StartNewChat, PageOwn, AllOwn
  <2>2. CASE UNCHANGED <<signals, view, gens, course>>
    BY <1>23, <2>2, PageKept DEF DeleteAnswered, signals, InFlight
  <2> QED
    BY <1>23, <2>1, <2>2 DEF DeleteAnswered
<1> QED
  BY Cases, <1>1, <1>2, <1>3, <1>4, <1>5, <1>6, <1>7, <1>8, <1>9, <1>10, <1>11, <1>12, <1>13, <1>14, <1>15, <1>16, <1>17, <1>18, <1>19, <1>20, <1>21, <1>22, <1>23

-----------------------------------------------------------------------------
(* The page and the server's chat, turn by turn. *)

\* Nobody has asked for the chat to be deleted.
Alive(c) == c \in Chat => deleting[c] = "no"

\* The page shows what the server has, or that and one message more.
Agrees    == IF active = None THEN messages = <<>>
             ELSE Alive(active) => active \in DOMAIN chats /\ messages = chats[active]
Ahead(m)  == IF active = None THEN messages = Append(<<>>, m)
             ELSE Alive(active) => active \in DOMAIN chats /\ messages = Append(chats[active], m)

\* So it does at each point of a plain turn: from the question to the request
\* the page is one question ahead; then it is ahead of the chat that the request
\* has found or made, which the page need not have adopted yet; and when the
\* turn is stored the server is one answer ahead, until that is shown.
Turn(g) ==
  /\ gens[g].at = "yielding" => /\ messages # <<>> /\ Last(messages) = Question(g)
                                /\ Ahead(Question(g))
  /\ gens[g].at = "showing" => Agrees
  /\ Asking(g) =>
       /\ gens[g].last = Question(g)
       /\ gens[g].srv = "asked" => Ahead(Question(g))
       /\ gens[g].srv \in {"running", "stored"} /\ active # None => gens[g].in = active
       /\ gens[g].srv = "running" /\ Alive(gens[g].in) =>
            gens[g].in \in DOMAIN chats /\ messages = Append(chats[gens[g].in], Question(g))
       /\ gens[g].srv = "stored" /\ Alive(gens[g].in) =>
            gens[g].in \in DOMAIN chats /\ chats[gens[g].in] = Append(messages, Answer(g))

\* The server works only for a generation that reads on, and that is no repeat.
Tidy(g) ==
  /\ gens[g].at # "delayed"
  /\ gens[g].srv \in {"asked", "running", "stored"} => Asking(g)
  /\ Active(g) => ~gens[g].regenerate /\ Turn(g)

\* What openChat() has been answered is still what the server has.
Current(i) == opens[i].at = "served" /\ Alive(opens[i].chat) =>
                opens[i].chat \in DOMAIN chats /\ opens[i].body = chats[opens[i].chat]

PlainInv ==
  /\ DOMAIN deleting = Chat
  /\ course = Plain => /\ \A g \in Started : Tidy(g)
                       /\ \A i \in DOMAIN opens : Current(i)
                       /\ ~Waiting => Agrees

\* Two messages more are one and another.
LEMMA AppendTwo ==
  ASSUME NEW S, NEW s \in Seq(S), NEW x \in S, NEW y \in S
  PROVE  s \o <<x, y>> = Append(Append(s, x), y)
OBVIOUS

\* A step that only aborts, or moves nothing of this.
LEMMA PlainKept ==
  ASSUME PlainInv, active' = active, messages' = messages, chats' = chats, deleting' = deleting,
         opens' = opens, Started' = Started, course' = Plain => course = Plain,
         \A h \in Started : /\ gens'[h].at = gens[h].at /\ gens'[h].srv = gens[h].srv
                            /\ gens'[h].last = gens[h].last /\ gens'[h].in = gens[h].in
                            /\ gens'[h].regenerate = gens[h].regenerate
  PROVE  PlainInv'
<1>1. \A c : Alive(c)' <=> Alive(c)
  BY DEF Alive
<1>2. /\ Agrees' <=> Agrees
      /\ \A m : Ahead(m)' <=> Ahead(m)
  BY <1>1 DEF Agrees, Ahead
<1>3. \A h \in Started : (Active(h)' <=> Active(h)) /\ (Asking(h)' <=> Asking(h))
  BY DEF Active, Asking
<1>4. Waiting' <=> Waiting
  BY <1>3 DEF Waiting
<1>5. ASSUME NEW h \in Started, Tidy(h) PROVE Tidy(h)'
  <2>1. Turn(h) => Turn(h)'
    BY <1>1, <1>2, <1>3 DEF Turn
  <2> QED
    BY <1>3, <1>5, <2>1 DEF Tidy
<1>6. ASSUME NEW i \in DOMAIN opens, Current(i) PROVE Current(i)'
  BY <1>1, <1>6 DEF Current
<1> QED
  BY <1>2, <1>4, <1>5, <1>6 DEF PlainInv

\* A step taken when nothing is under way.
LEMMA PlainRests ==
  ASSUME PlainInv, deleting' = deleting, Started' = Started,
         course' = Plain => ~Waiting /\ ~AtWork,
         \A h \in Started : gens'[h].at = gens[h].at /\ gens'[h].srv = gens[h].srv,
         \A i \in DOMAIN opens' : opens'[i].at = "served" => i \in DOMAIN opens /\ opens[i].at # "over",
         course' = Plain /\ ~Waiting' => Agrees'
  PROVE  PlainInv'
<1>1. ASSUME course' = Plain, NEW h \in Started PROVE Tidy(h)'
  BY <1>1 DEF Tidy, Waiting, Active, AtWork
<1>2. ASSUME course' = Plain, NEW i \in DOMAIN opens' PROVE Current(i)'
  BY <1>2 DEF Current, Waiting
<1> QED
  BY <1>1, <1>2 DEF PlainInv

\* A step of a generation that is active: there is no other, and no chat is
\* being opened.
LEMMA PlainOne ==
  ASSUME OneInv, MovesInv, PlainInv, NEW g \in Started, Active(g), opens' = opens,
         deleting' = deleting, Started' = Started, \A h \in Started \ {g} : gens'[h] = gens[h],
         course' = Plain => course = Plain,
         course' = Plain /\ course = Plain /\ Turn(g) /\ ~gens[g].regenerate
           => Tidy(g)' /\ (~Active(g)' => Agrees')
  PROVE  PlainInv'
<1> SUFFICES ASSUME course' = Plain
             PROVE  /\ \A h \in Started : Tidy(h)'
                    /\ \A i \in DOMAIN opens : Current(i)'
                    /\ ~Waiting' => Agrees'
  BY DEF PlainInv
<1>1. course = Plain /\ course # Overlapping
  BY DEF Plain, Overlapping
<1>2. Tidy(g)' /\ (~Active(g)' => Agrees')
  <2>1. Tidy(g)
    BY <1>1 DEF PlainInv
  <2> QED
    BY <1>1, <2>1 DEF Tidy
<1>3. ASSUME NEW h \in Started \ {g} PROVE Tidy(h)'
  <2>1. Tidy(h) /\ ~Active(h)
    BY <1>1 DEF PlainInv, OneInv, Busy
  <2> QED
    BY <2>1 DEF Tidy, Active, Asking
<1>4. ASSUME NEW i \in DOMAIN opens PROVE Current(i)'
  <2>1. ~InFlight(i)
    BY <1>1 DEF MovesInv, Busy
  <2> QED
    BY <2>1 DEF Current, InFlight
<1>5. ~Waiting' => Agrees'
  BY <1>2 DEF Waiting
<1> QED
  BY <1>2, <1>3, <1>4, <1>5

\* A step after which the use of the page is no longer plain.
LEMMA PlainOver ==
  ASSUME PlainInv, deleting' = deleting, course' # Plain PROVE PlainInv'
BY DEF PlainInv

\* What startNewChat() and openChat() ask for before they call the page plain.
LEMMA PlainAgain ==
  ASSUME course' = IF Waiting THEN Overlapping ELSE IF AtWork THEN Irregular ELSE Plain
  PROVE  course' = Plain => ~Waiting /\ ~AtWork
BY DEF Plain, Irregular, Overlapping

\* startNewChat() leaves an empty page, and calls it plain only when nothing is
\* under way.
LEMMA NewChatPlain ==
  ASSUME GensOK, SignalsOK, PlainInv, StartNewChat, deleting' = deleting \/ DOMAIN deleting' = Chat,
         opens' = opens
  PROVE  PlainInv'
<1>1. course' = Plain => ~Waiting /\ ~AtWork
  BY PlainAgain DEF StartNewChat
<1>2. Started' = Started /\ \A h \in Started : gens'[h].at = gens[h].at /\ gens'[h].srv = gens[h].srv
  BY AbortFields DEF StartNewChat, SignalsOK
<1>3. active' = None /\ messages' = <<>> /\ DOMAIN deleting' = Chat
  BY DEF StartNewChat, PlainInv
<1>4. ASSUME course' = Plain, NEW h \in Started PROVE Tidy(h)'
  BY <1>1, <1>2, <1>4 DEF Tidy, Waiting, Active, AtWork
<1>5. ASSUME course' = Plain, NEW i \in DOMAIN opens' PROVE Current(i)'
  BY <1>1, <1>5 DEF Current, Waiting
<1>6. Agrees'
  BY <1>3 DEF Agrees
<1> QED
  BY <1>2, <1>3, <1>4, <1>5, <1>6 DEF PlainInv

\* Every step keeps it.
LEMMA PlainStep == TypeOK /\ StageInv /\ OneInv /\ MovesInv /\ PlainInv /\ Next => PlainInv'
<1> SUFFICES ASSUME TypeOK, StageInv, OneInv, MovesInv, PlainInv, Next PROVE PlainInv'
  OBVIOUS
<1>0. GensOK /\ SignalsOK /\ ServerOK /\ ViewOK
  BY DEF TypeOK
<1>b. SidebarOK
  BY DEF TypeOK
<1>1. ASSUME Send PROVE PlainInv'
  <2>n. PICK n : n = Len(gens) + 1
    OBVIOUS
  <2>1. course' = Plain => course = Plain /\ ~Waiting
    <3>1. Note(IF Waiting THEN Overlapping ELSE Plain)
      BY <1>1 DEF Send
    <3> QED
      BY <1>0, <3>1, NoteFacts DEF Plain, Overlapping
  <2>2. /\ active' = active /\ chats' = chats /\ deleting' = deleting /\ opens' = opens
        /\ messages' = Append(messages, Question(n))
    BY <1>1, <2>n DEF Send, server, sidebar
  <2>3. /\ Started' = Started \cup {n} /\ n \notin Started
        /\ \A h \in Started : gens'[h] = gens[h]
        /\ gens'[n].at = "yielding" /\ gens'[n].srv = "none" /\ ~gens'[n].regenerate
    BY <1>0, <1>1, <2>n, NewFields DEF Send, Begin, Place
  <2> SUFFICES ASSUME course' = Plain
               PROVE  /\ \A h \in Started' : Tidy(h)'
                      /\ \A i \in DOMAIN opens' : Current(i)'
                      /\ ~Waiting' => Agrees'
    BY <2>2 DEF PlainInv
  <2>4. course = Plain /\ ~Waiting /\ Agrees
    BY <2>1 DEF PlainInv
  <2>5. ASSUME NEW h \in Started PROVE Tidy(h)'
    <3>1. Tidy(h) /\ ~Active(h)
      BY <2>4 DEF PlainInv, Waiting
    <3> QED
      BY <2>3, <3>1 DEF Tidy, Active, Asking
  <2>6. Tidy(n)'
    <3>1. messages' # <<>> /\ Last(messages') = Question(n)
      <4>1. messages \in Seq({Question(n)} \cup Message)
        BY <1>0 DEF SignalsOK
      <4> HIDE DEF Question
      <4> QED
        BY <2>2, <4>1, AppendProperties DEF Last
    <3>2. Ahead(Question(n))'
      <4> HIDE DEF Question
      <4> QED
        BY <2>2, <2>4 DEF Agrees, Ahead, Alive
    <3> QED
      BY <2>3, <3>1, <3>2 DEF Tidy, Turn, Active, Asking
  <2>7. ASSUME NEW i \in DOMAIN opens PROVE Current(i)'
    BY <2>2, <2>4 DEF Current, Waiting
  <2>8. Waiting'
    BY <2>3 DEF Waiting, Active
  <2> QED
    BY <2>2, <2>3, <2>5, <2>6, <2>7, <2>8
<1>2. ASSUME Regenerate PROVE PlainInv'
  <2>1. course' # Plain /\ deleting' = deleting
    BY <1>0, <1>2, NoteFacts DEF Regenerate, sidebar, Plain, Irregular, Overlapping
  <2> QED
    BY <2>1, PlainOver
<1>3. ASSUME Retry PROVE PlainInv'
  <2>1. course' # Plain /\ deleting' = deleting
    BY <1>0, <1>3, NoteFacts DEF Retry, sidebar, Plain, Irregular, Overlapping
  <2> QED
    BY <2>1, PlainOver
<1>4. ASSUME Stop PROVE PlainInv'
  BY <1>0, <1>4, AbortFields, PlainKept DEF Stop, signals, sidebar, server, SignalsOK
<1>5. ASSUME NewChat PROVE PlainInv'
  BY <1>0, <1>5, NewChatPlain DEF NewChat, sidebar
<1>6. ASSUME NEW i \in DOMAIN messages, Edit(i) PROVE PlainInv'
  <2>1. course' # Plain /\ deleting' = deleting
    BY <1>0, <1>6, NoteFacts DEF Edit, sidebar, Plain, Irregular, Overlapping
  <2> QED
    BY <2>1, PlainOver
<1>7. ASSUME NEW c \in Chat, OpenChat(c) PROVE PlainInv'
  <2>1. course' = Plain => ~Waiting /\ ~AtWork
    BY <1>7, PlainAgain DEF OpenChat
  <2>2. deleting' = deleting /\ gens' = gens
    BY <1>7 DEF OpenChat
  <2>3. /\ DOMAIN opens' = DOMAIN opens \cup {Len(opens) + 1}
        /\ \A j \in DOMAIN opens : opens'[j] = opens[j]
        /\ opens'[Len(opens) + 1].at = "asked"
    BY <1>b, <1>7, OpenChatFields
  <2>4. Waiting'
    BY <2>3 DEF Waiting
  <2>5. course' = Plain => \A i \in DOMAIN opens' : opens'[i].at # "served"
    BY <2>1, <2>3 DEF Waiting
  <2>6. ASSUME course' = Plain, NEW h \in Started PROVE Tidy(h)'
    BY <2>1, <2>2, <2>6 DEF Tidy, Waiting, Active, AtWork
  <2> QED
    BY <2>2, <2>4, <2>5, <2>6 DEF PlainInv, Current, Started
<1>8. ASSUME NEW c \in Chat, Delete(c) PROVE PlainInv'
  <2>1. /\ active' = active /\ messages' = messages /\ gens' = gens /\ opens' = opens /\ course' = course
        /\ chats' = Without(c)
        /\ deleting' = [deleting EXCEPT ![c] = IF c \in DOMAIN chats THEN "served" ELSE "missing"]
    BY <1>8 DEF Delete, signals
  <2>2. DOMAIN deleting' = Chat /\ \A x : Alive(x)' => Alive(x) /\ x # c
    BY <2>1 DEF PlainInv, Alive
  <2>3. \A x \in DOMAIN chats : x # c => x \in DOMAIN chats' /\ chats'[x] = chats[x]
    BY <2>1 DEF Without
  <2>4. (Agrees => Agrees') /\ \A m : Ahead(m) => Ahead(m)'
    BY <2>1, <2>2, <2>3 DEF Agrees, Ahead
  <2>5. ASSUME NEW h \in Started, Tidy(h) PROVE Tidy(h)'
    <3>1. Turn(h) => Turn(h)'
      BY <2>1, <2>2, <2>3, <2>4 DEF Turn, Asking
    <3> QED
      BY <2>1, <2>5, <3>1 DEF Tidy, Active, Asking
  <2>6. ASSUME NEW i \in DOMAIN opens, Current(i) PROVE Current(i)'
    BY <2>1, <2>2, <2>3, <2>6 DEF Current
  <2>7. Waiting' <=> Waiting
    BY <2>1 DEF Waiting, Active, Started
  <2> QED
    BY <2>1, <2>2, <2>4, <2>5, <2>6, <2>7 DEF PlainInv, Started
<1>9. ASSUME NEW g \in Started, EditStarts(g) PROVE PlainInv'
  <2>1. gens[g].at = "delayed" /\ deleting' = deleting /\ course' = course
    BY <1>9 DEF EditStarts, sidebar
  <2>2. course # Plain
    BY <2>1 DEF PlainInv, Tidy
  <2> QED
    BY <2>1, <2>2, PlainOver
<1>10. ASSUME NEW g \in Started, Post(g) PROVE PlainInv'
  <2>1. /\ active' = active /\ messages' = messages /\ chats' = chats /\ deleting' = deleting
        /\ opens' = opens /\ course' = course /\ gens[g].at = "yielding"
    BY <1>10 DEF Post, sidebar, server
  <2>2. /\ Started' = Started /\ \A h \in Started \ {g} : gens'[h] = gens[h]
        /\ gens'[g].at = "connecting" /\ gens'[g].srv = "asked"
        /\ gens'[g].last = (IF messages = <<>> THEN None ELSE Last(messages))
        /\ gens'[g].regenerate = gens[g].regenerate
    BY <1>0, <1>10, PostFields
  <2>3. ASSUME Turn(g), ~gens[g].regenerate PROVE Tidy(g)' /\ Active(g)'
    <3>1. messages # <<>> /\ Last(messages) = Question(g) /\ Ahead(Question(g))
      BY <2>1, <2>3 DEF Turn
    <3>2. Ahead(Question(g))'
      BY <2>1, <3>1 DEF Ahead, Alive
    <3> QED
      BY <2>2, <2>3, <3>1, <3>2 DEF Tidy, Turn, Active, Asking
  <2>4. Active(g)
    BY <2>1 DEF Active
  <2> QED
    BY <2>1, <2>2, <2>3, <2>4, PlainOne
<1>11. ASSUME NEW g \in Started, Connected(g) PROVE PlainInv'
  <2>1. /\ active' = active /\ messages' = messages /\ chats' = chats /\ deleting' = deleting
        /\ opens' = opens /\ course' = course /\ gens[g].at = "connecting" /\ gens[g].srv # "asked"
    BY <1>11 DEF Connected, signals, sidebar, server
  <2>2. /\ Started' = Started /\ \A h \in Started \ {g} : gens'[h] = gens[h]
        /\ gens'[g].at = "reading" /\ gens'[g].srv = gens[g].srv /\ gens'[g].in = gens[g].in
        /\ gens'[g].last = gens[g].last /\ gens'[g].regenerate = gens[g].regenerate
    BY <1>0, <1>11, AtFields DEF Connected
  <2>3. ASSUME Turn(g), ~gens[g].regenerate PROVE Tidy(g)' /\ Active(g)'
    BY <2>1, <2>2, <2>3 DEF Tidy, Turn, Active, Asking, Alive
  <2>4. Active(g)
    BY <2>1 DEF Active
  <2> QED
    BY <2>1, <2>2, <2>3, <2>4, PlainOne
<1>12. ASSUME NEW g \in Started, Errs(g) PROVE PlainInv'
  <2>1. course' # Plain /\ deleting' = deleting
    BY <1>0, <1>12, NoteFacts DEF Errs, SettleError, sidebar, Plain, Irregular, Overlapping
  <2> QED
    BY <2>1, PlainOver
<1>13. ASSUME NEW g \in Started, Answers(g) PROVE PlainInv'
  <2>1. CASE gens[g].aborted
    <3>1. course' # Plain /\ deleting' = deleting
      BY <1>0, <1>13, <2>1, NoteFacts DEF Answers, SettleText, Plain, Irregular, Overlapping
    <3> QED
      BY <3>1, PlainOver
  <2>2. CASE ~gens[g].aborted
    <3>1. /\ active' = (IF active = None THEN gens[g].in ELSE active)
          /\ messages' = Append(messages, Answer(g)) /\ chats' = chats /\ deleting' = deleting
          /\ opens' = opens /\ gens[g].at = "reading" /\ gens[g].srv = "stored"
          /\ course' = Plain => course = Plain
      BY <1>0, <1>13, <2>2, NoteFacts DEF Answers, Left, SettleText, server, Plain, Irregular, Overlapping
    <3>2. /\ Started' = Started /\ \A h \in Started \ {g} : gens'[h] = gens[h]
          /\ gens'[g].at = "showing" /\ gens'[g].srv = "read"
          /\ gens'[g].regenerate = gens[g].regenerate
      BY <1>0, <1>13, <2>2, LeaveFields DEF Answers, SettleText
    <3>3. ASSUME Turn(g), ~gens[g].regenerate PROVE Tidy(g)' /\ Active(g)'
      <4>1. /\ active # None => gens[g].in = active
            /\ Alive(gens[g].in) => /\ gens[g].in \in DOMAIN chats
                                    /\ chats[gens[g].in] = Append(messages, Answer(g))
        BY <3>1, <3>3 DEF Turn, Asking
      <4>2. gens[g].in \in Nat
        BY <3>1 DEF StageInv, Stage, Resolved
      <4>3. active' = gens[g].in /\ active' # None
        BY <3>1, <4>1, <4>2
      <4>4. Agrees'
        BY <3>1, <4>1, <4>3 DEF Agrees, Alive
      <4> QED
        BY <3>2, <3>3, <4>4 DEF Tidy, Turn, Active, Asking
    <3>4. Active(g)
      BY <3>1 DEF Active
    <3> QED
      BY <3>1, <3>2, <3>3, <3>4, PlainOne
  <2> QED
    BY <2>1, <2>2
<1>14. ASSUME NEW g \in Started, LeavesEmpty(g) PROVE PlainInv'
  <2>1. course' # Plain /\ deleting' = deleting
    BY <1>0, <1>14, NoteFacts DEF LeavesEmpty, SettleNothing, sidebar, Plain, Irregular, Overlapping
  <2> QED
    BY <2>1, PlainOver
<1>15. ASSUME NEW g \in Started, Shown(g) PROVE PlainInv'
  <2>1. /\ active' = active /\ messages' = messages /\ chats' = chats /\ deleting' = deleting
        /\ opens' = opens /\ course' = course /\ gens[g].at = "showing"
    BY <1>15 DEF Shown, sidebar, server
  <2>2. /\ Started' = Started /\ \A h \in Started \ {g} : gens'[h] = gens[h]
        /\ gens'[g].at = "ending" /\ gens'[g].srv = gens[g].srv
    BY ZenonT(30), <1>0, <1>15, AtFields DEF Shown
  <2>3. ASSUME Turn(g), course = Plain PROVE Tidy(g)' /\ Agrees'
    <3>1. gens[g].srv \notin {"asked", "running", "stored"} /\ Agrees
      BY <2>1, <2>3 DEF PlainInv, Tidy, Asking, Turn
    <3>2. Agrees'
      BY <2>1, <3>1 DEF Agrees, Alive
    <3> QED
      BY <2>2, <3>1, <3>2 DEF Tidy, Active
  <2>4. Active(g)
    BY <2>1 DEF Active
  <2> QED
    BY <2>1, <2>2, <2>3, <2>4, PlainOne
<1>16. ASSUME NEW g \in Started, Ended(g) PROVE PlainInv'
  <2>1. /\ active' = active /\ messages' = messages /\ chats' = chats /\ deleting' = deleting
        /\ opens' = opens /\ course' = course /\ gens[g].at = "ending"
    BY <1>16 DEF Ended, signals, sidebar, server
  <2>2. /\ Started' = Started /\ \A h \in Started \ {g} : gens'[h] = gens[h]
        /\ gens'[g].at = "over" /\ gens'[g].srv = gens[g].srv
    BY ZenonT(30), <1>0, <1>16, AtFields DEF Ended
  <2>3. (Agrees' <=> Agrees) /\ \A m : Ahead(m)' <=> Ahead(m)
    BY <2>1 DEF Agrees, Ahead, Alive
  <2>4. ASSUME NEW h \in Started, Tidy(h) PROVE Tidy(h)'
    <3>1. CASE h = g
      BY <2>1, <2>2, <2>4, <3>1 DEF Tidy, Asking, Active
    <3>2. CASE h # g
      <4>1. gens'[h] = gens[h]
        BY <2>2, <3>2
      <4>2. Turn(h) => Turn(h)'
        BY <2>1, <2>3, <4>1 DEF Turn, Asking, Alive
      <4> QED
        BY <2>4, <4>1, <4>2 DEF Tidy, Asking, Active
    <3> QED
      BY <3>1, <3>2
  <2>5. ASSUME NEW i \in DOMAIN opens, Current(i) PROVE Current(i)'
    BY <2>1, <2>5 DEF Current, Alive
  <2>6. Waiting' <=> Waiting
    BY <2>1, <2>2 DEF Waiting, Active
  <2> QED
    BY <2>1, <2>2, <2>3, <2>4, <2>5, <2>6 DEF PlainInv
<1>17. ASSUME NEW g \in Started, Resolve(g) PROVE PlainInv'
  <2>1. /\ active' = active /\ messages' = messages /\ deleting' = deleting /\ opens' = opens
        /\ course' = course /\ gens[g].srv = "asked"
    BY <1>17 DEF Resolve, signals, sidebar
  <2>2. /\ Started' = Started /\ \A h \in Started \ {g} : gens'[h] = gens[h]
        /\ gens'[g].at = gens[g].at /\ gens'[g].last = gens[g].last
        /\ gens'[g].regenerate = gens[g].regenerate
        /\ \/ /\ gens'[g].srv = "running" /\ Valid(gens[g].last)
              /\ gens'[g].in = IF gens[g].chat = None THEN created' ELSE gens[g].chat
           \/ gens'[g].srv = "rejected"
    BY <1>0, <1>17, ResolveFields
  <2>3. CASE course # Plain
    BY <2>1, <2>3, PlainOver
  <2>4. CASE course = Plain
    <3>1. Asking(g) /\ Active(g) /\ gens[g].chat = active
      <4>1. Tidy(g) /\ course # Overlapping
        BY <2>4 DEF PlainInv, Plain, Overlapping
      <4>2. Asking(g)
        BY <2>1, <4>1 DEF Tidy
      <4> QED
        BY <4>1, <4>2 DEF MovesInv, Asking, Active
    <3>2. ASSUME Turn(g), ~gens[g].regenerate PROVE Tidy(g)' /\ Active(g)'
      <4>1. gens[g].last = Question(g) /\ Ahead(Question(g))
        BY <2>1, <3>1, <3>2 DEF Turn
      <4>2. CASE gens'[g].srv = "rejected"
        BY <2>1, <2>2, <3>1, <3>2, <4>1, <4>2 DEF Tidy, Turn, Active, Asking
      <4>3. CASE gens'[g].srv = "running" /\ active = None
        <5>1. /\ created' = created + 1 /\ gens'[g].in = created'
              /\ chats' = [c \in DOMAIN chats \cup {created'} |-> IF c = created' THEN <<>> ELSE chats[c]]
          <6>1. gens[g].chat = None
            BY <3>1, <4>3
          <6>2. gens'[g].in = created'
            BY <2>2, <4>3, <6>1
          <6>3. None \notin DOMAIN chats
            BY <1>0 DEF ServerOK
          <6>4. Valid(gens[g].last)
            BY <2>2, <4>3
          <6> QED
            BY <1>17, <6>1, <6>2, <6>3, <6>4 DEF Resolve
        <5>2. created' \in DOMAIN chats' /\ chats'[created'] = <<>>
          BY <5>1
        <5>3. messages' = Append(<<>>, Question(g))
          BY <2>1, <4>1, <4>3 DEF Ahead
        <5> QED
          BY <2>1, <2>2, <3>1, <3>2, <4>1, <4>3, <5>1, <5>2, <5>3 DEF Tidy, Turn, Active, Asking
      <4>4. CASE gens'[g].srv = "running" /\ active # None
        <5>1. gens'[g].in = active
          BY <2>2, <3>1, <4>4
        <5>2. chats' = chats
          <6>1. gens[g].chat # None /\ Valid(gens[g].last)
            BY <2>2, <3>1, <4>4
          <6> QED
            BY <1>17, <6>1 DEF Resolve, server
        <5>3. Alive(active)' => active \in DOMAIN chats' /\ messages' = Append(chats'[active], Question(g))
          BY <2>1, <4>1, <4>4, <5>2 DEF Ahead, Alive
        <5> QED
          BY <2>1, <2>2, <3>1, <3>2, <4>1, <4>4, <5>1, <5>3 DEF Tidy, Turn, Active, Asking
      <4> QED
        BY <2>2, <4>2, <4>3, <4>4
    <3> QED
      BY <2>1, <2>2, <3>1, <3>2, PlainOne
  <2> QED
    BY <2>3, <2>4
<1>18. ASSUME NEW g \in Started, Store(g) PROVE PlainInv'
  <2>c. PICK c : c = gens[g].in
    OBVIOUS
  <2>1. /\ active' = active /\ messages' = messages /\ deleting' = deleting /\ opens' = opens
        /\ course' = course /\ gens[g].srv = "running" /\ c \in DOMAIN chats
        /\ ~gens[g].regenerate => chats' = [chats EXCEPT ![c] = chats[c] \o <<gens[g].last, Answer(g)>>]
    BY <1>18, <2>c DEF Store, signals, sidebar
  <2>2. /\ Started' = Started /\ \A h \in Started \ {g} : gens'[h] = gens[h]
        /\ gens'[g].at = gens[g].at /\ gens'[g].last = gens[g].last /\ gens'[g].srv = "stored"
        /\ gens'[g].regenerate = gens[g].regenerate /\ gens'[g].in = c
    BY ZenonT(30), <1>0, <1>18, <2>c, SrvFields DEF Store
  <2>3. CASE course # Plain
    BY <2>1, <2>3, PlainOver
  <2>4. CASE course = Plain
    <3>1. Asking(g) /\ Active(g)
      <4>1. Tidy(g)
        BY <2>4 DEF PlainInv
      <4> QED
        BY <2>1, <4>1 DEF Tidy, Asking, Active
    <3>2. ASSUME Turn(g), ~gens[g].regenerate PROVE Tidy(g)' /\ Active(g)'
      <4>1. /\ gens[g].last = Question(g) /\ (active # None => c = active)
            /\ Alive(c) => messages = Append(chats[c], Question(g))
        BY <2>1, <2>c, <3>1, <3>2 DEF Turn
      <4>2. chats'[c] = chats[c] \o <<Question(g), Answer(g)>> /\ c \in DOMAIN chats'
        BY <2>1, <3>2, <4>1
      <4>3. chats[c] \o <<Question(g), Answer(g)>> = Append(Append(chats[c], Question(g)), Answer(g))
        <5>1. chats[c] \in Seq(Message \cup {Question(g), Answer(g)})
          BY <1>0, <2>1 DEF ServerOK
        <5> HIDE DEF Question, Answer
        <5> QED
          BY <5>1, AppendTwo
      <4>4. Alive(c)' => Alive(c)
        BY <2>1 DEF Alive
      <4>5. Alive(c)' => chats'[c] = Append(messages', Answer(g))
        BY <2>1, <4>1, <4>2, <4>3, <4>4
      <4> QED
        BY <2>1, <2>2, <3>1, <3>2, <4>1, <4>2, <4>5 DEF Tidy, Turn, Active, Asking
    <3> QED
      BY <2>1, <2>2, <3>1, <3>2, PlainOne
  <2> QED
    BY <2>3, <2>4
<1>19. ASSUME NEW g \in Started, Fail(g) PROVE PlainInv'
  <2>1. /\ deleting' = deleting /\ opens' = opens /\ course' = course /\ gens[g].srv = "running"
    BY <1>19 DEF Fail, signals, sidebar
  <2>2. /\ Started' = Started /\ \A h \in Started \ {g} : gens'[h] = gens[h]
        /\ gens'[g].at = gens[g].at /\ gens'[g].last = gens[g].last /\ gens'[g].srv = "failed"
        /\ gens'[g].regenerate = gens[g].regenerate
    BY ZenonT(30), <1>0, <1>19, SrvFields DEF Fail
  <2>3. CASE course # Plain
    BY <2>1, <2>3, PlainOver
  <2>4. CASE course = Plain
    <3>1. Asking(g) /\ Active(g)
      <4>1. Tidy(g)
        BY <2>4 DEF PlainInv
      <4> QED
        BY <2>1, <4>1 DEF Tidy, Asking, Active
    <3>2. ASSUME Turn(g), ~gens[g].regenerate PROVE Tidy(g)' /\ Active(g)'
      BY <2>2, <3>1, <3>2 DEF Tidy, Turn, Active, Asking
    <3> QED
      BY <2>1, <2>2, <3>1, <3>2, PlainOne
  <2> QED
    BY <2>3, <2>4
<1>20. ASSUME NEW g \in Started, Gone(g) PROVE PlainInv'
  <2>1. /\ deleting' = deleting /\ opens' = opens /\ course' = course
        /\ gens[g].srv \in {"running", "stored"}
    BY <1>20 DEF Gone, signals, sidebar
  <2>2. /\ Started' = Started /\ \A h \in Started \ {g} : gens'[h] = gens[h]
        /\ gens'[g].at = gens[g].at /\ gens'[g].last = gens[g].last /\ gens'[g].srv = "gone"
        /\ gens'[g].regenerate = gens[g].regenerate
    BY ZenonT(30), <1>0, <1>20, SrvFields DEF Gone
  <2>3. CASE course # Plain
    BY <2>1, <2>3, PlainOver
  <2>4. CASE course = Plain
    <3>1. Asking(g) /\ Active(g)
      <4>1. Tidy(g)
        BY <2>4 DEF PlainInv
      <4> QED
        BY <2>1, <4>1 DEF Tidy, Asking, Active
    <3>2. ASSUME Turn(g), ~gens[g].regenerate PROVE Tidy(g)' /\ Active(g)'
      BY <2>2, <3>1, <3>2 DEF Tidy, Turn, Active, Asking
    <3> QED
      BY <2>1, <2>2, <3>1, <3>2, PlainOne
  <2> QED
    BY <2>3, <2>4
<1>21. ASSUME NEW i \in DOMAIN opens, OpenServed(i) PROVE PlainInv'
  <2>1. /\ active' = active /\ messages' = messages /\ gens' = gens /\ chats' = chats
        /\ deleting' = deleting /\ course' = course
    BY <1>21 DEF OpenServed, signals, server
  <2>2. /\ DOMAIN opens' = DOMAIN opens /\ \A j \in DOMAIN opens \ {i} : opens'[j] = opens[j]
        /\ opens'[i].at \in {"served", "missing"}
        /\ opens'[i].at = "served" => /\ opens'[i].chat \in DOMAIN chats
                                      /\ opens'[i].body = chats[opens'[i].chat]
    BY <1>b, <1>21, OpenServedFields
  <2>3. (Agrees' <=> Agrees) /\ \A m : Ahead(m)' <=> Ahead(m)
    BY <2>1 DEF Agrees, Ahead, Alive
  <2>4. ASSUME NEW h \in Started, Tidy(h) PROVE Tidy(h)'
    <3>1. Turn(h) => Turn(h)'
      BY <2>1, <2>3 DEF Turn, Asking, Alive
    <3> QED
      BY <2>1, <2>4, <3>1 DEF Tidy, Asking, Active
  <2>5. ASSUME NEW j \in DOMAIN opens, Current(j) PROVE Current(j)'
    BY <2>1, <2>2, <2>5 DEF Current, Alive
  <2>6. Waiting'
    BY <2>2 DEF Waiting
  <2> QED
    BY <2>1, <2>2, <2>4, <2>5, <2>6 DEF PlainInv, Started
<1>22. ASSUME NEW i \in DOMAIN opens, OpenAnswered(i) PROVE PlainInv'
  <2>1. CASE opens[i].at = "missing"
    <3>1. course' # Plain /\ deleting' = deleting
      BY <1>0, <1>22, <2>1, NoteFacts DEF OpenAnswered, Plain, Irregular, Overlapping
    <3> QED
      BY <3>1, PlainOver
  <2>2. CASE opens[i].at = "served"
    <3>1. /\ active' = active /\ messages' = opens[i].body /\ gens' = gens /\ chats' = chats
          /\ deleting' = deleting /\ course' = course
      BY <1>22, <2>2 DEF OpenAnswered, server
    <3>2. /\ DOMAIN opens' = DOMAIN opens /\ \A j \in DOMAIN opens \ {i} : opens'[j] = opens[j]
          /\ opens'[i].at = "over"
      BY <1>b, <1>22, OpenAnsweredFields
    <3> SUFFICES ASSUME course = Plain
                 PROVE  /\ \A h \in Started : Tidy(h)'
                        /\ \A j \in DOMAIN opens : Current(j)'
                        /\ Agrees'
      BY <3>1, <3>2 DEF PlainInv, Started
    <3>3. /\ opens[i].chat = active /\ \A h \in Started : ~Busy(h)
          /\ \A j \in DOMAIN opens \ {i} : ~InFlight(j)
      <4>1. course # Overlapping /\ InFlight(i)
        BY <2>2 DEF Plain, Overlapping, InFlight
      <4> QED
        BY <4>1 DEF MovesInv
    <3>4. ASSUME NEW h \in Started PROVE Tidy(h)'
      <4>1. Tidy(h) /\ ~Active(h)
        BY <3>3 DEF PlainInv, Busy
      <4> QED
        BY <3>1, <4>1 DEF Tidy, Active, Asking
    <3>5. ASSUME NEW j \in DOMAIN opens PROVE Current(j)'
      BY <3>2, <3>3 DEF Current, InFlight
    <3>6. Agrees'
      <4>1. Current(i) /\ opens[i].chat \in Nat
        <5>1. opens[i] \in Opening
          BY <1>b DEF SidebarOK
        <5> QED
          BY <5>1 DEF PlainInv, Opening
      <4>2. active # None
        BY <3>3, <4>1
      <4>3. Alive(active) => active \in DOMAIN chats /\ opens[i].body = chats[active]
        BY <2>2, <3>3, <4>1 DEF Current
      <4> QED
        BY <3>1, <4>2, <4>3 DEF Agrees, Alive
    <3> QED
      BY <3>4, <3>5, <3>6
  <2> QED
    BY <1>22, <2>1, <2>2 DEF OpenAnswered
<1>23. ASSUME NEW c \in Chat, DeleteAnswered(c) PROVE PlainInv'
  <2>1. /\ opens' = opens /\ chats' = chats /\ deleting[c] \in {"served", "missing"}
        /\ deleting' = [deleting EXCEPT ![c] = "over"]
    BY <1>23 DEF DeleteAnswered, server
  <2>2. DOMAIN deleting' = Chat /\ \A x : Alive(x)' <=> Alive(x)
    BY <2>1 DEF PlainInv, Alive
  <2>3. CASE StartNewChat
    BY <1>0, <2>1, <2>2, <2>3, NewChatPlain
  <2>4. CASE UNCHANGED <<signals, view, gens, course>>
    <3>1. active' = active /\ messages' = messages /\ gens' = gens /\ course' = course
      BY <2>4 DEF signals
    <3>2. (Agrees' <=> Agrees) /\ \A m : Ahead(m)' <=> Ahead(m)
      BY <2>1, <2>2, <3>1 DEF Agrees, Ahead
    <3>3. ASSUME NEW h \in Started, Tidy(h) PROVE Tidy(h)'
      <4>1. Turn(h) => Turn(h)'
        BY <2>1, <2>2, <3>1, <3>2 DEF Turn, Asking
      <4> QED
        BY <3>1, <3>3, <4>1 DEF Tidy, Asking, Active
    <3>4. ASSUME NEW j \in DOMAIN opens, Current(j) PROVE Current(j)'
      BY <2>1, <2>2, <3>4 DEF Current
    <3>5. Waiting' <=> Waiting
      BY <2>1, <3>1 DEF Waiting, Active, Started
    <3> QED
      BY <2>1, <2>2, <3>1, <3>2, <3>3, <3>4, <3>5 DEF PlainInv, Started
  <2> QED
    BY <1>23, <2>3, <2>4 DEF DeleteAnswered
<1> QED
  BY Cases, <1>1, <1>2, <1>3, <1>4, <1>5, <1>6, <1>7, <1>8, <1>9, <1>10, <1>11, <1>12, <1>13, <1>14, <1>15, <1>16, <1>17, <1>18, <1>19, <1>20, <1>21, <1>22, <1>23

-----------------------------------------------------------------------------
(* The theorems. *)

IInv == /\ TypeOK /\ StageInv /\ RestInv /\ OneInv
        /\ ChatsOwn /\ BodiesOwn /\ MovesInv /\ PageOwn /\ PlainInv

\* It holds when the page has been loaded.
LEMMA InitIInv == Init => IInv
<1> SUFFICES ASSUME Init PROVE IInv
  OBVIOUS
<1>1. gens = <<>> /\ opens = <<>> /\ messages = <<>> /\ Started = {} /\ DOMAIN opens = {} /\ DOMAIN messages = {}
  BY DEF Init, Started
<1>2. DOMAIN chats = 1..MaxOld /\ \A c \in DOMAIN chats : chats[c] = <<Question(0), Answer(0)>>
  BY DEF Init
<1>3. Question(0) \in Message /\ Answer(0) \in Message
  BY DEF Question, Answer, Message
<1>4. <<Question(0), Answer(0)>> \in Seq(Message)
  BY <1>3
<1>5. SignalsOK /\ ViewOK /\ SidebarOK
  <2>1. messages \in Seq(Message) /\ opens \in Seq(Opening) /\ listed \subseteq Nat
    BY <1>1, EmptySeq DEF Init
  <2>2. ViewOK
    BY DEF Init, ViewOK, Plain
  <2> QED
    BY <2>1, <2>2 DEF Init, SignalsOK, SidebarOK
<1>6. GensOK
  BY <1>1 DEF GensOK
<1>7. ServerOK
  BY <1>2, <1>4 DEF Init, ServerOK
<1>8. StageInv /\ RestInv /\ OneInv /\ BodiesOwn /\ MovesInv /\ PageOwn
  BY <1>1 DEF Init, StageInv, RestInv, OneInv, BodiesOwn, MovesInv, PageOwn, AllOwn
<1>9. ChatsOwn
  <2>1. \A c : Own(gens, Question(0), c) /\ Own(gens, Answer(0), c)
    BY DEF Own, Question, Answer
  <2>2. DOMAIN <<Question(0), Answer(0)>> = {1, 2}
    BY <1>4
  <2> HIDE DEF Question, Answer
  <2>3. \A i \in DOMAIN <<Question(0), Answer(0)>> : <<Question(0), Answer(0)>>[i] \in {Question(0), Answer(0)}
    BY <2>2
  <2> QED
    BY <1>2, <2>1, <2>3 DEF ChatsOwn, AllOwn
<1>10. PlainInv
  BY <1>1 DEF Init, PlainInv, Agrees
<1> QED
  BY <1>5, <1>6, <1>7, <1>8, <1>9, <1>10 DEF IInv, TypeOK

\* Every step keeps the whole.
LEMMA StepIInv == IInv /\ [Next]_vars => IInv'
<1> SUFFICES ASSUME IInv, [Next]_vars PROVE IInv'
  OBVIOUS
<1>0. TypeOK /\ StageInv /\ RestInv /\ OneInv /\ ChatsOwn /\ BodiesOwn /\ MovesInv /\ PageOwn
  BY DEF IInv
<1>p. PlainInv
  BY DEF IInv
<1>1. CASE Next
  <2>1. TypeOK'
    BY <1>0, <1>1, SignalsStep, ViewStep, GensStep, SidebarStep, ServerStep DEF TypeOK
  <2>2. StageInv' /\ RestInv' /\ OneInv'
    BY <1>0, <1>1, StageStep, RestStep, OneStep
  <2>3. ChatsOwn' /\ BodiesOwn'
    BY <1>0, <1>1, ChatsOwnStep, BodiesOwnStep
  <2>4. MovesInv' /\ PageOwn'
    BY <1>0, <1>1, MovesStep, PageStep
  <2>5. PlainInv'
    BY <1>0, <1>p, <1>1, PlainStep
  <2> QED
    BY <2>1, <2>2, <2>3, <2>4, <2>5 DEF IInv
<1>2. CASE UNCHANGED vars
  <2>1. TypeOK' /\ StageInv' /\ RestInv'
    BY <1>0, <1>2 DEF vars, signals, view, sidebar, server, TypeOK, SignalsOK, ViewOK, GensOK, SidebarOK, ServerOK,
                      Started, StageInv, Stage, RestInv, Clears, Active
  <2>2. OneInv' /\ MovesInv'
    BY <1>0, <1>2 DEF vars, signals, view, sidebar, server, Started, OneInv, MovesInv, Busy, Active, InFlight, Asking
  <2>3. ChatsOwn' /\ BodiesOwn' /\ PageOwn'
    BY <1>0, <1>2 DEF vars, signals, view, sidebar, server, ChatsOwn, BodiesOwn, PageOwn, InFlight
  <2>4. PlainInv'
    BY <1>p, <1>2, PlainKept DEF vars, signals, view, sidebar, server, Started
  <2> QED
    BY <2>1, <2>2, <2>3, <2>4 DEF IInv
<1> QED
  BY <1>1, <1>2

\* So it always holds.
LEMMA Inductive == Spec => []IInv
BY InitIInv, StepIInv, PTL DEF Spec

\* The signals, the generations and the server's chats have their types.
THEOREM PageTypes == Spec => []TypeOK
<1>1. IInv => TypeOK
  BY DEF IInv
<1> QED
  BY <1>1, Inductive, PTL

\* runGeneration() leaves nothing behind: whichever of its exits the calls took,
\* in whatever order, when all are over isGenerating is false, there is no
\* abort controller and the send button is back.
THEOREM RestIsReady == Spec => []ReadyAtRest
<1>1. IInv => ReadyAtRest
  <2> SUFFICES ASSUME TypeOK, RestInv, \A g \in Started : gens[g].at = "over"
               PROVE  ~generating /\ abort = None /\ button = "send"
    BY DEF IInv, ReadyAtRest
  <2> QED
    BY DEF TypeOK, SignalsOK, ViewOK, RestInv, Active, Clears
<1> QED
  BY <1>1, Inductive, PTL

\* A user who waits never has two calls of runGeneration() at work, and
\* isGenerating is true exactly while there is one.
THEOREM OneGeneration == Spec => []OneAtATime
<1>1. IInv => OneAtATime
  <2> SUFFICES ASSUME RestInv, OneInv, course # Overlapping
               PROVE  /\ \A g, h \in Started : Active(g) /\ Active(h) => g = h
                      /\ generating <=> \E g \in Started : Active(g)
    BY DEF IInv, OneAtATime
  <2>1. \A g, h \in Started : Active(g) /\ Active(h) => g = h
    BY DEF OneInv, Busy
  <2>2. generating <=> \E g \in Started : Active(g)
    BY DEF OneInv, RestInv
  <2> QED
    BY <2>1, <2>2
<1> QED
  BY <1>1, Inductive, PTL

\* What that user sees belongs together: no answer of another chat is on the
\* page, although runGeneration() appends its answer to whatever is shown and
\* openChat() shows what it is answered whenever that is.
THEOREM PageShowsItsOwn == Spec => []AnswersAreOwn
<1>1. IInv => AnswersAreOwn
  <2> SUFFICES ASSUME PageOwn, course # Overlapping, ~Waiting, NEW i \in DOMAIN messages,
                      messages[i].role = "assistant", messages[i].of # 0
               PROVE  gens[messages[i].of].in = active
    BY DEF IInv, AnswersAreOwn
  <2> QED
    BY DEF PageOwn, Waiting, InFlight, AllOwn, Own
<1> QED
  BY <1>1, Inductive, PTL

\* And if no turn was cut short, failed or repeated, the page and the server
\* agree, message by message: the page appends its question and its answer on
\* its own, the server stores both on its own, and openChat() replaces the one
\* by the other.
THEOREM PageShowsTheChat == Spec => []PageAgrees
<1>1. IInv => PageAgrees
  <2> SUFFICES ASSUME TypeOK, PlainInv, course = Plain, ~Waiting
               PROVE  IF active = None THEN messages = <<>>
                      ELSE deleting[active] = "no" => active \in DOMAIN chats /\ messages = chats[active]
    BY DEF IInv, PageAgrees
  <2>1. Agrees
    BY DEF PlainInv
  <2> QED
    BY <2>1 DEF Agrees, Alive
<1> QED
  BY <1>1, Inductive, PTL

=============================================================================
