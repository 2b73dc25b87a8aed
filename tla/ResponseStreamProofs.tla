------------------------ MODULE ResponseStreamProofs ------------------------
(***************************************************************************)
(* The safety properties of ResponseStream, for every number of tool       *)
(* rounds, every set of tool-call indexes and chunks, and streams of any   *)
(* length.  First the operations of the event builder: each keeps the      *)
(* builder's flags in step with the events it has produced, and with that  *)
(* the events well formed; then what the loop does to a builder.           *)
(***************************************************************************)
EXTENDS ResponseStream, FiniteSetTheorems, TLAPS

-----------------------------------------------------------------------------
(* Sequences of events. *)

\* A builder that has not raised, and whose flags say of the events sent what
\* they are meant to say.
Sound(b) ==
  /\ b \in Builder
  /\ ~b.raised
  /\ b.sequence = Len(b.sent)
  /\ b.started <=> b.sent # <<>>
  /\ b.terminal <=> b.sent # <<>> /\ b.sent[Len(b.sent)].type \in Terminal
  /\ b.terminal => b.open = {}
  /\ ~b.started => b.open = {}
  /\ \A k \in Block : k \in b.open <=> IsOpen(b.sent, k, Len(b.sent))
  /\ Contiguous(b.sent) /\ StartsOnce(b.sent) /\ EndsOnce(b.sent) /\ Bracketed(b.sent)

\* A response under way: message_start sent, no terminal event yet.
Open(b) == Sound(b) /\ b.started /\ ~b.terminal

\* What b has sent, c has sent too.
Keeps(b, c) == \A i \in DOMAIN b.sent : i \in DOMAIN c.sent /\ c.sent[i] = b.sent[i]

\* The n events that Emit appends to s.
Burst(t, s, n) == [i \in 1..n |-> [type |-> t, sequence |-> Len(s) + i - 1]]

\* The result of appending them, element by element.
LEMMA BurstElements ==
  ASSUME NEW s \in Seq(Event), NEW t \in EventType, NEW n \in Nat
  PROVE  LET u == s \o Burst(t, s, n)
         IN  /\ u \in Seq(Event)
             /\ Len(u) = Len(s) + n
             /\ \A i \in 1..Len(s) : u[i] = s[i]
             /\ \A i \in (Len(s) + 1)..(Len(s) + n) : u[i] = [type |-> t, sequence |-> i - 1]
<1> DEFINE v == Burst(t, s, n)
<1>1. v \in Seq(Event) /\ Len(v) = n
  <2>1. \A i \in 1..n : [type |-> t, sequence |-> Len(s) + i - 1] \in Event
    BY DEF Event
  <2>2. v \in [1..n -> Event]
    BY <2>1 DEF Burst
  <2> QED
    BY <2>2
<1>2. \A i \in 1..n : v[i] = [type |-> t, sequence |-> Len(s) + i - 1]
  BY DEF Burst
<1> HIDE DEF v
<1>3. /\ s \o v \in Seq(Event) /\ Len(s \o v) = Len(s) + n
      /\ \A i \in 1..Len(s) : (s \o v)[i] = s[i]
      /\ \A i \in (Len(s) + 1)..(Len(s) + n) : (s \o v)[i] = v[i - Len(s)]
  BY <1>1
<1>4. \A i \in (Len(s) + 1)..(Len(s) + n) : (s \o v)[i] = [type |-> t, sequence |-> i - 1]
  <2> TAKE i \in (Len(s) + 1)..(Len(s) + n)
  <2>1. i - Len(s) \in 1..n
    OBVIOUS
  <2> QED
    BY <2>1, <1>2, <1>3
<1> QED
  BY <1>3, <1>4 DEF v

\* The sequence u is s followed by n events of type t, correctly numbered.
Adds(u, s, t, n) ==
  /\ Len(u) = Len(s) + n
  /\ \A i \in 1..Len(s) : u[i] = s[i]
  /\ \A i \in (Len(s) + 1)..(Len(s) + n) : u[i].type = t /\ u[i].sequence = i - 1

\* The protocol allows an event of type t after s.
Permits(s, t) ==
  \A k \in Block : /\ t \in {DeltaOf[k], EndOf[k]} => IsOpen(s, k, Len(s))
                   /\ t \in Terminal \cup {StartOf[k]} => ~IsOpen(s, k, Len(s))

\* A run of equal events.
LEMMA BurstAdds ==
  ASSUME NEW s \in Seq(Event), NEW t \in EventType, NEW n \in Nat
  PROVE  /\ s \o Burst(t, s, n) \in Seq(Event)
         /\ Adds(s \o Burst(t, s, n), s, t, n)
<1> DEFINE u == s \o Burst(t, s, n)
<1>1. /\ u \in Seq(Event)
      /\ Len(u) = Len(s) + n
      /\ \A i \in 1..Len(s) : u[i] = s[i]
      /\ \A i \in (Len(s) + 1)..(Len(s) + n) : u[i] = [type |-> t, sequence |-> i - 1]
  BY BurstElements
<1> HIDE DEF u
<1>2. \A i \in (Len(s) + 1)..(Len(s) + n) : u[i].type = t /\ u[i].sequence = i - 1
  <2> TAKE i \in (Len(s) + 1)..(Len(s) + n)
  <2>1. u[i] = [type |-> t, sequence |-> i - 1]
    BY <1>1, Zenon
  <2> QED
    BY <2>1, SMT
<1>3. u \in Seq(Event) /\ Adds(u, s, t, n)
  BY <1>1, <1>2 DEF Adds
<1> QED
  BY <1>3 DEF u

\* Whether a block was open after some events does not depend on later ones.
LEMMA IsOpenPrefix ==
  ASSUME NEW s, NEW u, NEW t, NEW n \in Nat, Len(s) \in Nat, Adds(u, s, t, n),
         NEW m \in Nat, m <= Len(s), NEW k \in Block
  PROVE  IsOpen(u, k, m) <=> IsOpen(s, k, m)
<1>1. \A i \in 1..m : u[i] = s[i]
  BY DEF Adds
<1>2. \A j \in 1..m : u[j] = s[j] /\ \A i \in (j + 1)..m : u[i] = s[i]
  BY <1>1
<1>3. ASSUME NEW j \in 1..m
      PROVE  (/\ u[j].type = StartOf[k]
              /\ \A i \in (j + 1)..m : u[i].type # EndOf[k])
               <=> (/\ s[j].type = StartOf[k]
                    /\ \A i \in (j + 1)..m : s[i].type # EndOf[k])
  BY <1>2, Zenon
<1> QED
  BY <1>3, Zenon DEF IsOpen

\* The names of the events of a block are its own.
LEMMA BlockNames ==
  ASSUME NEW k \in Block
  PROVE  /\ {StartOf[k], DeltaOf[k], EndOf[k]} \subseteq BlockEvent
         /\ StartOf[k] # DeltaOf[k] /\ StartOf[k] # EndOf[k] /\ DeltaOf[k] # EndOf[k]
         /\ \A l \in Block : l # k =>
              {StartOf[k], DeltaOf[k], EndOf[k]} \cap {StartOf[l], DeltaOf[l], EndOf[l]} = {}
         /\ {StartOf[k], DeltaOf[k], EndOf[k]}
              \cap (PlainEvent \cup Terminal \cup {"message_start"}) = {}
BY DEF Block, StartOf, DeltaOf, EndOf, BlockEvent, PlainEvent, Terminal

\* Events other than its own start and end leave a block as it was.
LEMMA StaysOpen ==
  ASSUME NEW s, NEW u, NEW t, NEW n \in Nat, Len(s) \in Nat, Adds(u, s, t, n),
         NEW k \in Block, t # StartOf[k], t # EndOf[k],
         NEW m \in Nat, m >= Len(s), m <= Len(s) + n
  PROVE  IsOpen(u, k, m) <=> IsOpen(s, k, Len(s))
<1>0. /\ \A i \in 1..Len(s) : u[i] = s[i]
      /\ \A i \in (Len(s) + 1)..m : u[i].type = t
  BY DEF Adds
<1>1. ASSUME NEW j \in 1..m, u[j].type = StartOf[k], \A i \in (j + 1)..m : u[i].type # EndOf[k]
      PROVE  IsOpen(s, k, Len(s))
  <2>1. j \in 1..Len(s)
    BY <1>1, <1>0
  <2>2. s[j].type = StartOf[k] /\ \A i \in (j + 1)..Len(s) : s[i].type # EndOf[k]
    BY <1>1, <2>1, <1>0
  <2> QED
    BY <2>1, <2>2 DEF IsOpen
<1>2. ASSUME NEW j \in 1..Len(s), s[j].type = StartOf[k],
             \A i \in (j + 1)..Len(s) : s[i].type # EndOf[k]
      PROVE  IsOpen(u, k, m)
  <2>1. j \in 1..m /\ u[j].type = StartOf[k]
    BY <1>2, <1>0
  <2>2. ASSUME NEW i \in (j + 1)..m PROVE u[i].type # EndOf[k]
    <3>1. CASE i <= Len(s)
      BY <3>1, <1>2, <1>0
    <3>2. CASE i > Len(s)
      BY <3>2, <1>0
    <3> QED
      BY <3>1, <3>2
  <2> QED
    BY <2>1, <2>2 DEF IsOpen
<1> QED
  BY <1>1, <1>2 DEF IsOpen

\* The events of a response remain numbered, started once and ended once.
LEMMA StaysOrdered ==
  ASSUME NEW s, NEW u, NEW t, NEW n \in Nat, Len(s) \in Nat \ {0}, Adds(u, s, t, n),
         Contiguous(s), StartsOnce(s), EndsOnce(s), s[Len(s)].type \notin Terminal,
         u \in Seq(Event), s \in Seq(Event),
         t # "message_start", n = 1 \/ t \notin Terminal
  PROVE  Contiguous(u) /\ StartsOnce(u) /\ EndsOnce(u)
<1>0. /\ Len(u) = Len(s) + n
      /\ DOMAIN u = 1..Len(u) /\ DOMAIN s = 1..Len(s)
      /\ \A i \in 1..Len(s) : u[i] = s[i]
      /\ \A i \in (Len(s) + 1)..(Len(s) + n) : u[i].type = t /\ u[i].sequence = i - 1
  BY DEF Adds
<1> SUFFICES ASSUME NEW i \in 1..(Len(s) + n)
             PROVE  /\ u[i].sequence = i - 1
                    /\ u[i].type = "message_start" <=> i = 1
                    /\ u[i].type \in Terminal => i = Len(s) + n
  BY <1>0 DEF Contiguous, StartsOnce, EndsOnce
<1>1. CASE i <= Len(s)
  <2>1. i \in DOMAIN s /\ u[i] = s[i]
    BY <1>1, <1>0
  <2>2. s[i].sequence = i - 1 /\ (s[i].type = "message_start" <=> i = 1)
    BY <2>1 DEF Contiguous, StartsOnce
  <2>3. s[i].type \notin Terminal
    BY <2>1 DEF EndsOnce
  <2> QED
    BY <2>1, <2>2, <2>3
<1>2. CASE i > Len(s)
  <2>1. u[i].type = t /\ u[i].sequence = i - 1
    BY <1>2, <1>0
  <2> QED
    BY <2>1, <1>2
<1> QED
  BY <1>1, <1>2

\* ... and their blocks properly nested.
LEMMA StaysBracketed ==
  ASSUME NEW s, NEW u, NEW t, NEW n \in Nat, Len(s) \in Nat, Adds(u, s, t, n),
         u \in Seq(Event), s \in Seq(Event),
         Bracketed(s), Permits(s, t), n = 1 \/ t \in PlainEvent
  PROVE  Bracketed(u)
<1>0. /\ Len(u) = Len(s) + n
      /\ DOMAIN u = 1..Len(u) /\ DOMAIN s = 1..Len(s)
      /\ \A i \in 1..Len(s) : u[i] = s[i]
      /\ \A i \in (Len(s) + 1)..(Len(s) + n) : u[i].type = t
  BY DEF Adds
<1> SUFFICES ASSUME NEW i \in 1..(Len(s) + n), NEW k \in Block
             PROVE  /\ u[i].type \in {DeltaOf[k], EndOf[k]} => IsOpen(u, k, i - 1)
                    /\ u[i].type \in Terminal \cup {StartOf[k]} => ~IsOpen(u, k, i - 1)
  BY <1>0 DEF Bracketed
<1>1. CASE i <= Len(s)
  <2>1. IsOpen(u, k, i - 1) <=> IsOpen(s, k, i - 1)
    BY <1>1, IsOpenPrefix
  <2>2. i \in DOMAIN s /\ u[i] = s[i]
    BY <1>1, <1>0
  <2> QED
    BY <2>1, <2>2 DEF Bracketed
<1>2. CASE i > Len(s)
  <2>1. u[i].type = t
    BY <1>2, <1>0
  <2>2. CASE n = 1
    <3>1. i - 1 = Len(s)
      BY <1>2, <2>2
    <3>2. IsOpen(u, k, i - 1) <=> IsOpen(s, k, Len(s))
      BY <3>1, IsOpenPrefix
    <3> QED
      BY <2>1, <3>2 DEF Permits
  <2>3. CASE t \in PlainEvent
    <3>1. t \notin {DeltaOf[k], EndOf[k], StartOf[k]}
      BY <2>3, BlockNames
    <3>2. t \notin Terminal
      BY <2>3 DEF PlainEvent, Terminal
    <3> QED
      BY <2>1, <3>1, <3>2
  <2> QED
    BY <2>2, <2>3
<1> QED
  BY <1>1, <1>2

\* Which blocks are open afterwards.
LEMMA OpenAfter ==
  ASSUME NEW s, NEW u, NEW t, NEW n \in Nat \ {0}, Len(s) \in Nat, Adds(u, s, t, n),
         NEW k \in Block
  PROVE  IsOpen(u, k, Len(u)) <=> t = StartOf[k] \/ (t # EndOf[k] /\ IsOpen(s, k, Len(s)))
<1>0. /\ Len(u) = Len(s) + n
      /\ \A i \in (Len(s) + 1)..(Len(s) + n) : u[i].type = t
  BY DEF Adds
<1>1. Len(u) \in Nat /\ Len(u) \in 1..Len(u) /\ u[Len(u)].type = t
  BY <1>0
<1>2. StartOf[k] # EndOf[k]
  BY BlockNames
<1>3. CASE t # StartOf[k] /\ t # EndOf[k]
  BY <1>3, <1>0, <1>1, StaysOpen
<1>4. CASE t = StartOf[k]
  <2>1. \A i \in (Len(u) + 1)..Len(u) : u[i].type # EndOf[k]
    BY <1>1
  <2>2. IsOpen(u, k, Len(u))
    BY <1>4, <1>1, <2>1 DEF IsOpen
  <2> QED
    BY <1>4, <2>2
<1>5. CASE t = EndOf[k]
  <2> SUFFICES ASSUME NEW j \in 1..Len(u), u[j].type = StartOf[k],
                      \A i \in (j + 1)..Len(u) : u[i].type # EndOf[k]
               PROVE  FALSE
    BY <1>5, <1>2 DEF IsOpen
  <2>1. j # Len(u)
    BY <1>5, <1>2, <1>1
  <2>2. Len(u) \in (j + 1)..Len(u)
    BY <2>1, <1>1
  <2> QED
    BY <2>2, <1>5, <1>1
<1> QED
  BY <1>3, <1>4, <1>5

-----------------------------------------------------------------------------
(* The operations of the builder. *)

\* c is the builder b after n events of type t, with the blocks in o open.
Sends(b, t, n, o, c) ==
  /\ c \in Builder /\ c.started /\ ~c.raised
  /\ c.terminal <=> t \in Terminal
  /\ c.open = o
  /\ c.sequence = b.sequence + n
  /\ c.sent = b.sent \o Burst(t, b.sent, n)

\* The assignments event() makes.
Assigned(d, q, m, w) ==
  [d EXCEPT !.started = TRUE, !.sent = q, !.sequence = m, !.terminal = w]

\* The builder after the events are assigned.
LEMMA AssignedFields ==
  ASSUME NEW d \in Builder, NEW q \in Seq(Event), NEW m \in Nat, NEW w \in BOOLEAN
  PROVE  /\ Assigned(d, q, m, w) \in Builder
         /\ Assigned(d, q, m, w).started
         /\ Assigned(d, q, m, w).raised = d.raised
         /\ Assigned(d, q, m, w).terminal = w
         /\ Assigned(d, q, m, w).open = d.open
         /\ Assigned(d, q, m, w).sequence = m
         /\ Assigned(d, q, m, w).sent = q
<1>1. Assigned(d, q, m, w) \in Builder
  BY DEF Assigned, Builder
<1>2. Assigned(d, q, m, w).started
  BY DEF Assigned, Builder
<1>3. Assigned(d, q, m, w).raised = d.raised /\ Assigned(d, q, m, w).open = d.open
  BY DEF Assigned, Builder
<1>4. Assigned(d, q, m, w).terminal = w
  BY DEF Assigned, Builder
<1>5. Assigned(d, q, m, w).sequence = m /\ Assigned(d, q, m, w).sent = q
  BY DEF Assigned, Builder
<1> QED
  BY <1>1, <1>2, <1>3, <1>4, <1>5

\* event() does not raise on an open response.
LEMMA EmitSends ==
  ASSUME NEW b, Open(b), NEW t \in EventType \ {"message_start"}, NEW n \in Nat,
         NEW o \in SUBSET Block
  PROVE  /\ Sends(b, t, n, b.open, Emit(b, t, n))
         /\ Sends(b, t, n, o, [Emit(b, t, n) EXCEPT !.open = o])
         /\ Sends(b, t, n, o, Emit([b EXCEPT !.open = o], t, n))
<1>1. /\ b \in Builder /\ ~b.raised /\ b.started /\ ~b.terminal
      /\ b.sequence = Len(b.sent) /\ b.sequence \in Nat
      /\ b.sent \in Seq(Event) /\ b.open \in SUBSET Block
  BY DEF Open, Sound, Builder
<1>2. [i \in 1..n |-> [type |-> t, sequence |-> b.sequence + i - 1]] = Burst(t, b.sent, n)
  BY <1>1 DEF Burst
<1> DEFINE q == b.sent \o Burst(t, b.sent, n)
           w == t \in Terminal
<1>3. q \in Seq(Event)
  BY <1>1, BurstAdds
<1>4. w \in BOOLEAN
  OBVIOUS
<1>5. ASSUME NEW d \in Builder, ~d.raised, d.started, ~d.terminal,
             d.sequence = b.sequence, d.sent = b.sent
      PROVE  Sends(b, t, n, d.open, Emit(d, t, n))
  <2>1. Emit(d, t, n) = Assigned(d, q, d.sequence + n, w)
    BY <1>2, <1>5 DEF Emit, Assigned
  <2> HIDE DEF q, w
  <2>2. /\ Emit(d, t, n) \in Builder
        /\ Emit(d, t, n).started /\ ~Emit(d, t, n).raised
        /\ Emit(d, t, n).terminal = w
        /\ Emit(d, t, n).open = d.open
        /\ Emit(d, t, n).sequence = d.sequence + n
        /\ Emit(d, t, n).sent = q
    <3>1. d.sequence + n \in Nat
      BY <1>1, <1>5
    <3> QED
      BY <3>1, <2>1, <1>3, <1>4, <1>5, AssignedFields
  <2> QED
    BY <2>2, <1>5 DEF Sends, q, w
<1>6. Sends(b, t, n, b.open, Emit(b, t, n))
  BY <1>1, <1>5
<1>7. Sends(b, t, n, o, Emit([b EXCEPT !.open = o], t, n))
  <2> DEFINE d == [b EXCEPT !.open = o]
  <2>1. /\ d \in Builder /\ ~d.raised /\ d.started /\ ~d.terminal
        /\ d.sequence = b.sequence /\ d.sent = b.sent /\ d.open = o
    BY <1>1 DEF Builder
  <2> HIDE DEF d
  <2>2. Sends(b, t, n, d.open, Emit(d, t, n))
    BY <2>1, <1>5
  <2> QED
    BY <2>1, <2>2 DEF d
<1>8. Sends(b, t, n, o, [Emit(b, t, n) EXCEPT !.open = o])
  <2> DEFINE x == Emit(b, t, n)
             y == [x EXCEPT !.open = o]
  <2> HIDE DEF x, q, w
  <2>1. x \in Builder
    BY <1>6 DEF Sends, x
  <2>2. /\ y \in Builder /\ y.open = o /\ y.started = x.started /\ y.raised = x.raised
        /\ y.terminal = x.terminal /\ y.sequence = x.sequence /\ y.sent = x.sent
    BY <2>1 DEF Builder
  <2> HIDE DEF y
  <2>3. Sends(b, t, n, o, y)
    BY <2>2, <1>6 DEF Sends, x
  <2> QED
    BY <2>3 DEF y, x
<1> QED
  BY <1>6, <1>7, <1>8

\* The result of sending is sound if the protocol allows the events and o is
\* the set of blocks they leave open.
LEMMA SentSound ==
  ASSUME NEW b, Open(b), NEW t \in EventType \ {"message_start"}, NEW n \in Nat \ {0},
         n = 1 \/ t \in PlainEvent,
         Permits(b.sent, t),
         NEW o, NEW c, Sends(b, t, n, o, c),
         \A k \in Block : k \in o <=> t = StartOf[k] \/ (t # EndOf[k] /\ k \in b.open),
         t \in Terminal => o = {}
  PROVE  /\ Sound(c) /\ c.started /\ c.open = o
         /\ t \notin Terminal => Open(c)
         /\ t \in Terminal => c.terminal
         /\ c.sequence = b.sequence + n
         /\ c.sent[Len(c.sent)].type = t
         /\ Keeps(b, c)
<1> DEFINE s == b.sent
           u == c.sent
<1>1. /\ b \in Builder /\ b.started /\ ~b.terminal
      /\ b.sequence = Len(s) /\ s # <<>>
      /\ s[Len(s)].type \notin Terminal
      /\ Contiguous(s) /\ StartsOnce(s) /\ EndsOnce(s) /\ Bracketed(s)
      /\ \A k \in Block : k \in b.open <=> IsOpen(s, k, Len(s))
  BY DEF Open, Sound
<1>2. s \in Seq(Event) /\ Len(s) \in Nat \ {0}
  BY <1>1 DEF Builder
<1>3. u \in Seq(Event) /\ Adds(u, s, t, n)
  BY <1>2, BurstAdds DEF Sends
<1>4. /\ c.started /\ ~c.raised /\ c.open = o
      /\ c.sequence = b.sequence + n
      /\ c.terminal <=> t \in Terminal
      /\ c \in Builder
  BY DEF Sends
<1>5. Len(u) = Len(s) + n /\ u # <<>> /\ u[Len(u)].type = t
  BY SMTT(30), <1>2, <1>3 DEF Adds
<1>6. n = 1 \/ t \notin Terminal
  BY DEF PlainEvent, Terminal
<1>k. Keeps(b, c)
  <2>1. c.sent = u
    BY DEF Sends
  <2> HIDE DEF u
  <2> QED
    BY <1>2, <1>3, <2>1 DEF Adds, Keeps
<1> HIDE DEF u
<1>7. Contiguous(u) /\ StartsOnce(u) /\ EndsOnce(u)
  BY <1>1, <1>2, <1>3, <1>6, StaysOrdered
<1>8. Bracketed(u)
  BY <1>1, <1>2, <1>3, StaysBracketed
<1>9. \A k \in Block : k \in o <=> IsOpen(u, k, Len(u))
  BY <1>1, <1>2, <1>3, OpenAfter
<1>10. Sound(c)
  BY <1>1, <1>4, <1>5, <1>7, <1>8, <1>9 DEF Sound, u
<1> QED
  BY <1>4, <1>5, <1>10, <1>k DEF u, Open

\* What is known of a builder that is not closed.
LEMMA OpenFacts ==
  ASSUME NEW b, Open(b)
  PROVE  /\ b \in Builder /\ b.open \subseteq Block /\ b.sequence \in Nat
         /\ \A k \in Block : k \in b.open <=> IsOpen(b.sent, k, Len(b.sent))
         /\ Sound(b)
BY DEF Open, Sound, Builder

\* A new builder is sound, and message_start opens the response.
LEMMA Starting ==
  /\ Sound(NewBuilder)
  /\ Open(MessageStart(NewBuilder))
  /\ MessageStart(NewBuilder).sequence = 1
  /\ MessageStart(NewBuilder).open = {}
<1> DEFINE e == [type |-> "message_start", sequence |-> 0]
           x == MessageStart(NewBuilder)
           q == <<e>>
<1>1. e \in Event /\ e.type = "message_start" /\ e.sequence = 0
  BY DEF Event, EventType
<1>2. /\ NewBuilder \in Builder
      /\ ~NewBuilder.raised /\ ~NewBuilder.terminal /\ ~NewBuilder.started
      /\ NewBuilder.sequence = 0 /\ NewBuilder.sent = <<>> /\ NewBuilder.open = {}
  BY DEF NewBuilder, Builder
<1>3. Sound(NewBuilder)
  BY DEF Sound, NewBuilder, Builder, Contiguous, StartsOnce, EndsOnce, Bracketed, IsOpen
<1>4. q \in Seq(Event) /\ Len(q) = 1 /\ DOMAIN q = {1} /\ q[1] = e /\ q # <<>>
  BY <1>1
<1>5. /\ x \in Builder /\ x.started /\ ~x.terminal /\ ~x.raised
      /\ x.open = {} /\ x.sequence = 1 /\ x.sent = q
  <2> DEFINE burst == [i \in 1..1 |-> [type |-> "message_start", sequence |-> 0 + i - 1]]
             w == "message_start" \in Terminal
  <2>1. x = Assigned(NewBuilder, <<>> \o burst, 0 + 1, w)
    BY <1>2 DEF MessageStart, Emit, Assigned
  <2>2. burst = q
    OBVIOUS
  <2>3. w = FALSE
    BY DEF Terminal
  <2> HIDE DEF burst, w, e, x, q
  <2>4. <<>> \o burst = q
    BY <1>4, <2>2
  <2> HIDE DEF q
  <2>5. /\ x \in Builder /\ x.started /\ x.terminal = w /\ x.raised = NewBuilder.raised
        /\ x.open = NewBuilder.open /\ x.sequence = 0 + 1
        /\ x.sent = <<>> \o burst
    <3>1. w \in BOOLEAN
      BY <2>3
    <3>2. 0 + 1 \in Nat
      OBVIOUS
    <3>3. <<>> \o burst \in Seq(Event)
      BY <2>4, <1>4, Zenon
    <3> QED
      BY <3>1, <3>2, <3>3, <2>1, <1>2, AssignedFields
  <2> QED
    BY <2>5, <2>3, <2>4, <1>2
<1>6. \A k \in Block : "message_start" \notin {StartOf[k], DeltaOf[k], EndOf[k]}
  BY BlockNames
<1> HIDE DEF e, x, q
<1>7. ASSUME NEW k \in Block PROVE ~IsOpen(q, k, 1) /\ ~IsOpen(q, k, 0)
  <2>1. \A j \in 1..1 : q[j].type # StartOf[k]
    BY <1>1, <1>4, <1>6
  <2>2. \A j \in 1..0 : FALSE
    OBVIOUS
  <2> QED
    BY <2>1, <2>2 DEF IsOpen
<1>8. Contiguous(q) /\ StartsOnce(q) /\ EndsOnce(q)
  BY <1>1, <1>4 DEF Contiguous, StartsOnce, EndsOnce
<1>9. Bracketed(q)
  BY <1>1, <1>4, <1>6, <1>7 DEF Bracketed, Terminal
<1>10. Sound(x)
  BY <1>1, <1>4, <1>5, <1>7, <1>8, <1>9 DEF Sound, Terminal
<1> QED
  BY <1>3, <1>5, <1>10 DEF Open, x

\* Events outside every block.
LEMMA Plain ==
  ASSUME NEW b, Open(b), NEW t \in PlainEvent, NEW n \in Nat \ {0}
  PROVE  /\ Open(Emit(b, t, n)) /\ Emit(b, t, n).open = b.open
         /\ Emit(b, t, n).sequence = b.sequence + n
         /\ Keeps(b, Emit(b, t, n))
<1>1. /\ t \in EventType \ {"message_start"} /\ t \notin Terminal
      /\ \A k \in Block : t \notin {StartOf[k], DeltaOf[k], EndOf[k]}
  BY BlockNames DEF EventType, PlainEvent, Terminal
<1>2. Permits(b.sent, t)
  BY <1>1 DEF Permits
<1>3. b.open \in SUBSET Block
  BY OpenFacts
<1>4. \A k \in Block : k \in b.open <=> t = StartOf[k] \/ (t # EndOf[k] /\ k \in b.open)
  BY <1>1
<1>5. Sends(b, t, n, b.open, Emit(b, t, n))
  BY <1>1, <1>3, EmitSends
<1> QED
  BY <1>1, <1>2, <1>4, <1>5, SentSound

\* The terminal events, once no block is open.
LEMMA Ending ==
  ASSUME NEW b, Open(b), b.open = {}
  PROVE  /\ Sound(MessageEnd(b)) /\ MessageEnd(b).terminal /\ MessageEnd(b).started
         /\ MessageEnd(b).sequence = b.sequence + 1
         /\ MessageEnd(b).sent[Len(MessageEnd(b).sent)].type = "message_end"
         /\ Keeps(b, MessageEnd(b)) /\ Keeps(b, ErrorEnd(b))
         /\ Sound(ErrorEnd(b)) /\ ErrorEnd(b).terminal /\ ErrorEnd(b).started
         /\ ErrorEnd(b).sequence = b.sequence + 1
         /\ ErrorEnd(b).sent[Len(ErrorEnd(b).sent)].type = "error"
<1>1. ASSUME NEW t \in Terminal
      PROVE  LET c == Emit(b, t, 1)
             IN  /\ Sound(c) /\ c.terminal /\ c.started /\ Keeps(b, c)
                 /\ c.sequence = b.sequence + 1 /\ c.sent[Len(c.sent)].type = t
  <2>1. /\ t \in EventType \ {"message_start"}
        /\ \A k \in Block : t \notin {StartOf[k], DeltaOf[k], EndOf[k]}
    BY BlockNames DEF EventType, Terminal
  <2>2. Permits(b.sent, t)
    BY <2>1, OpenFacts DEF Permits
  <2>3. {} \in SUBSET Block
    OBVIOUS
  <2>4. Sends(b, t, 1, {}, Emit(b, t, 1))
    BY <2>1, <2>3, EmitSends
  <2>5. \A k \in Block : k \in {} <=> t = StartOf[k] \/ (t # EndOf[k] /\ k \in b.open)
    BY <2>1
  <2> QED
    BY <2>1, <2>2, <2>4, <2>5, SentSound
<1> QED
  BY <1>1 DEF MessageEnd, ErrorEnd, Terminal

\* A block is closed.
LEMMA Closing ==
  ASSUME NEW b, Open(b), NEW k \in Block
  PROVE  /\ Open(BlockEnd(b, k)) /\ BlockEnd(b, k).open = b.open \ {k}
         /\ BlockEnd(b, k).sequence >= b.sequence
         /\ Keeps(b, BlockEnd(b, k))
<1>1. CASE k \notin b.open
  BY <1>1, OpenFacts DEF BlockEnd, Keeps
<1>2. CASE k \in b.open
  <2> DEFINE t == EndOf[k]
             o == b.open \ {k}
  <2>1. /\ t \in EventType \ {"message_start"} /\ t \notin Terminal
        /\ \A l \in Block : t # StartOf[l] /\ (t \in {DeltaOf[l], EndOf[l]} => l = k)
    BY BlockNames DEF EventType
  <2>2. Permits(b.sent, t)
    BY <1>2, <2>1, OpenFacts DEF Permits
  <2>3. o \in SUBSET Block
    BY OpenFacts
  <2>4. \A l \in Block : l \in o <=> t = StartOf[l] \/ (t # EndOf[l] /\ l \in b.open)
    BY <2>1
  <2> DEFINE c == BlockEnd(b, k)
  <2>5. c = Emit([b EXCEPT !.open = o], t, 1)
    BY <1>2 DEF BlockEnd
  <2> HIDE DEF t, o, c
  <2>6. Sends(b, t, 1, o, c)
    BY <2>5, <2>1, <2>3, EmitSends
  <2>7. Open(c) /\ c.open = o /\ c.sequence = b.sequence + 1 /\ Keeps(b, c)
    BY <2>1, <2>2, <2>4, <2>6, SentSound
  <2>8. b.sequence \in Nat
    BY OpenFacts
  <2>9. c.sequence >= b.sequence
    BY <2>7, <2>8
  <2> QED
    BY <2>7, <2>9 DEF o, c
<1> QED
  BY <1>1, <1>2

\* A delta is sent, its block opened first if need be.
LEMMA Extending ==
  ASSUME NEW b, Open(b), NEW k \in Block
  PROVE  /\ Open(BlockDelta(b, k)) /\ BlockDelta(b, k).sequence > b.sequence
         /\ Keeps(b, BlockDelta(b, k))
<1> DEFINE d == BlockStart(b, k)
<1>1. Open(d) /\ k \in d.open /\ d.sequence >= b.sequence /\ Keeps(b, d)
  <2>1. CASE k \in b.open
    BY <2>1, OpenFacts DEF BlockStart, Keeps
  <2>2. CASE k \notin b.open
    <3> DEFINE t == StartOf[k]
               o == b.open \cup {k}
    <3>1. /\ t \in EventType \ {"message_start"} /\ t \notin Terminal
          /\ \A l \in Block : t \notin {DeltaOf[l], EndOf[l]} /\ (t = StartOf[l] => l = k)
      BY BlockNames DEF EventType
    <3>2. Permits(b.sent, t)
      BY <2>2, <3>1, OpenFacts DEF Permits
    <3>3. o \in SUBSET Block
      BY OpenFacts
    <3>4. \A l \in Block : l \in o <=> t = StartOf[l] \/ (t # EndOf[l] /\ l \in b.open)
      BY <3>1
    <3>5. Sends(b, t, 1, o, d)
      <4>1. Sends(b, t, 1, b.open, Emit(b, t, 1))
        BY <3>1, <3>3, EmitSends
      <4>2. Emit(b, t, 1).open = b.open
        BY <4>1 DEF Sends
      <4>3. d = [Emit(b, t, 1) EXCEPT !.open = o]
        BY <2>2, <4>2 DEF BlockStart
      <4> HIDE DEF t, o, d
      <4> QED
        BY <4>3, <3>1, <3>3, EmitSends
    <3> HIDE DEF t, o, d
    <3>6. Open(d) /\ d.open = o /\ d.sequence = b.sequence + 1 /\ Keeps(b, d)
      BY <3>1, <3>2, <3>4, <3>5, SentSound
    <3>7. b.sequence \in Nat
      BY OpenFacts
    <3>8. d.sequence >= b.sequence
      BY <3>6, <3>7
    <3> QED
      BY <3>6, <3>8 DEF o
  <2> QED
    BY <2>1, <2>2
<1> DEFINE t == DeltaOf[k]
<1>2. BlockDelta(b, k) = Emit(d, t, 1)
  BY DEF BlockDelta
<1> HIDE DEF d
<1>3. /\ t \in EventType \ {"message_start"} /\ t \notin Terminal
      /\ \A l \in Block : t \notin {StartOf[l], EndOf[l]} /\ (t = DeltaOf[l] => l = k)
  BY BlockNames DEF EventType
<1>4. Permits(d.sent, t)
  BY <1>1, <1>3, OpenFacts DEF Permits
<1>5. d.open \in SUBSET Block
  BY <1>1, OpenFacts
<1>6. \A l \in Block : l \in d.open <=> t = StartOf[l] \/ (t # EndOf[l] /\ l \in d.open)
  BY <1>3
<1>7. Sends(d, t, 1, d.open, Emit(d, t, 1))
  BY <1>1, <1>3, <1>5, EmitSends
<1> HIDE DEF t
<1>8. Open(Emit(d, t, 1)) /\ Emit(d, t, 1).sequence = d.sequence + 1 /\ Keeps(d, Emit(d, t, 1))
  BY <1>1, <1>3, <1>4, <1>6, <1>7, SentSound
<1>9. b.sequence \in Nat /\ d.sequence \in Nat
  BY <1>1, OpenFacts
<1>10. Keeps(b, Emit(d, t, 1))
  BY <1>1, <1>8 DEF Keeps
<1> QED
  BY <1>1, <1>2, <1>8, <1>9, <1>10

-----------------------------------------------------------------------------
(* The loop. *)

\* c is b after some events, the last of which, of type t, ends the response.
Ends(b, c, t) ==
  /\ Sound(c) /\ c.started /\ c.terminal
  /\ c.sequence > b.sequence
  /\ LastType(c) = t
  /\ Keeps(b, c)

\* c is b after some events, if any, that do not end the response.
Grows(b, c) == Open(c) /\ c.sequence >= b.sequence /\ Keeps(b, c)

\* What the place the generator is at says of the builder.
BuilderInv ==
  /\ pc = "init" => builder = NewBuilder
  /\ pc \in {"round", "streaming", "after", "tools"} => Open(builder)
  /\ pc \in {"ended", "exhausted"} =>
       Sound(builder) /\ builder.started /\ builder.terminal
         /\ LastType(builder) = "message_end"
  /\ pc = "failed" =>
       Sound(builder) /\ builder.started /\ builder.terminal /\ LastType(builder) = "error"
  /\ pc = "raised" => Sound(builder) /\ ~builder.terminal

\* ... and of the tool rounds and calls.
RoundInv ==
  /\ pc \in {"streaming", "after", "tools"} => toolRound < MaxToolRounds
  /\ pc = "tools" => Named(calls) # {}

IInv == TypeOK /\ BuilderInv /\ RoundInv

-----------------------------------------------------------------------------
(* What the loop does to a builder. *)

\* One growth after another.
LEMMA GrowsTransitive ==
  ASSUME NEW b, NEW c, NEW d, Open(b), Grows(b, c), Grows(c, d)
  PROVE  Grows(b, d)
<1>1. b.sequence \in Nat /\ c.sequence \in Nat /\ d.sequence \in Nat
  BY OpenFacts DEF Grows
<1> QED
  BY <1>1 DEF Grows, Keeps

\* Closing the blocks.
LEMMA CloseBlocksCloses ==
  ASSUME NEW b, Open(b)
  PROVE  Grows(b, CloseBlocks(b)) /\ CloseBlocks(b).open = {}
<1> DEFINE c == BlockEnd(b, "text")
           d == BlockEnd(c, "reasoning")
<1>1. "text" \in Block /\ "reasoning" \in Block
  BY DEF Block
<1>2. Open(c) /\ c.open = b.open \ {"text"} /\ c.sequence >= b.sequence /\ Keeps(b, c)
  BY <1>1, Closing
<1> HIDE DEF c
<1>3. Open(d) /\ d.open = c.open \ {"reasoning"} /\ d.sequence >= c.sequence /\ Keeps(c, d)
  BY <1>1, <1>2, Closing
<1>4. d.open = {}
  BY <1>2, <1>3, OpenFacts DEF Block
<1> HIDE DEF d
<1>5. Grows(b, d)
  BY <1>2, <1>3, GrowsTransitive DEF Grows
<1> QED
  BY <1>4, <1>5 DEF CloseBlocks, c, d

\* Closing the message, in either way.
LEMMA CloseEnds ==
  ASSUME NEW b, Open(b)
  PROVE  /\ Ends(b, MessageEnd(CloseBlocks(b)), "message_end")
         /\ Ends(b, ErrorEnd(CloseBlocks(b)), "error")
<1> DEFINE c == CloseBlocks(b)
           m == MessageEnd(c)
           e == ErrorEnd(c)
<1>1. Open(c) /\ c.sequence >= b.sequence /\ c.open = {} /\ Keeps(b, c)
  BY CloseBlocksCloses DEF Grows
<1> HIDE DEF c
<1>2. c.sequence \in Nat /\ b.sequence \in Nat
  BY <1>1, OpenFacts
<1>3. /\ Sound(m) /\ m.started /\ m.terminal /\ m.sequence = c.sequence + 1
      /\ LastType(m) = "message_end"
      /\ Sound(e) /\ e.started /\ e.terminal /\ e.sequence = c.sequence + 1
      /\ LastType(e) = "error"
      /\ Keeps(c, m) /\ Keeps(c, e)
  BY <1>1, Ending DEF LastType
<1> HIDE DEF m, e
<1>4. Keeps(b, m) /\ Keeps(b, e)
  BY <1>1, <1>3 DEF Keeps
<1> QED
  BY <1>1, <1>2, <1>3, <1>4 DEF Ends, m, e, c

\* Forwarding a chunk.
LEMMA ForwardGrows ==
  ASSUME NEW b, Open(b), NEW c \in Chunk
  PROVE  Grows(b, Forward(b, c))
<1> DEFINE b1 == IF c.text THEN BlockDelta(b, "text") ELSE b
           b2 == IF c.reasoning THEN BlockDelta(b1, "reasoning") ELSE b1
           b3 == IF c.extra THEN Emit(b2, "citation", 1) ELSE b2
<1>1. "text" \in Block /\ "reasoning" \in Block /\ "citation" \in PlainEvent
  BY DEF Block, PlainEvent
<1>2. \A d : Open(d) => d.sequence \in Nat
  BY OpenFacts
<1>3. Grows(b, b1)
  <2>1. /\ Open(BlockDelta(b, "text")) /\ BlockDelta(b, "text").sequence > b.sequence
        /\ Keeps(b, BlockDelta(b, "text"))
    BY <1>1, Extending
  <2>2. b.sequence \in Nat /\ BlockDelta(b, "text").sequence \in Nat
    BY <1>2, <2>1
  <2> QED
    BY <2>1, <2>2 DEF Grows, Keeps
<1> HIDE DEF b1
<1>4. Open(b1)
  BY <1>3 DEF Grows
<1>5. Grows(b1, b2)
  <2>1. /\ Open(BlockDelta(b1, "reasoning")) /\ BlockDelta(b1, "reasoning").sequence > b1.sequence
        /\ Keeps(b1, BlockDelta(b1, "reasoning"))
    BY <1>1, <1>4, Extending
  <2>2. b1.sequence \in Nat /\ BlockDelta(b1, "reasoning").sequence \in Nat
    BY <1>2, <1>4, <2>1
  <2> QED
    BY <1>4, <2>1, <2>2 DEF Grows, Keeps
<1> HIDE DEF b2
<1>6. Open(b2)
  BY <1>5 DEF Grows
<1>7. Grows(b2, b3)
  <2>1. /\ Open(Emit(b2, "citation", 1)) /\ Emit(b2, "citation", 1).sequence = b2.sequence + 1
        /\ Keeps(b2, Emit(b2, "citation", 1))
    BY <1>1, <1>6, Plain
  <2>2. b2.sequence \in Nat
    BY <1>2, <1>6
  <2> QED
    BY <1>6, <2>1, <2>2 DEF Grows, Keeps
<1> HIDE DEF b3
<1>8. Grows(b, b3)
  BY <1>3, <1>4, <1>5, <1>7, GrowsTransitive
<1> QED
  BY <1>8 DEF Forward, b1, b2, b3

\* The last chunk.
LEMMA ConcludeEnds ==
  ASSUME NEW b, Open(b), NEW c \in Chunk
  PROVE  Ends(b, Conclude(b, c), "message_end")
<1> DEFINE d == CloseBlocks(b)
           e == Emit(d, "usage", 1)
<1>1. Open(d) /\ d.open = {} /\ d.sequence >= b.sequence /\ Keeps(b, d)
  BY CloseBlocksCloses DEF Grows
<1> HIDE DEF d
<1>2. "usage" \in PlainEvent
  BY DEF PlainEvent
<1>3. Open(e) /\ e.open = {} /\ e.sequence = d.sequence + 1 /\ Keeps(d, e)
  BY <1>1, <1>2, Plain
<1> HIDE DEF e
<1>4. b.sequence \in Nat /\ d.sequence \in Nat /\ e.sequence \in Nat
  BY <1>1, <1>3, OpenFacts
<1>5. ASSUME NEW x, Open(x), x.open = {}, x.sequence >= b.sequence, Keeps(b, x)
      PROVE  Ends(b, MessageEnd(x), "message_end")
  <2>1. x.sequence \in Nat
    BY <1>5, OpenFacts
  <2>2. /\ Sound(MessageEnd(x)) /\ MessageEnd(x).started /\ MessageEnd(x).terminal
        /\ MessageEnd(x).sequence = x.sequence + 1
        /\ LastType(MessageEnd(x)) = "message_end" /\ Keeps(x, MessageEnd(x))
    BY <1>5, Ending DEF LastType
  <2>3. Keeps(b, MessageEnd(x))
    BY <2>2, <1>5 DEF Keeps
  <2> QED
    BY <2>1, <2>2, <2>3, <1>4, <1>5 DEF Ends
<1>6. Ends(b, MessageEnd(d), "message_end") /\ Ends(b, MessageEnd(e), "message_end")
  <2>1. Keeps(b, e)
    BY <1>1, <1>3 DEF Keeps
  <2> QED
    BY <2>1, <1>1, <1>3, <1>4, <1>5
<1> QED
  BY <1>6 DEF Conclude, d, e

\* An event that belongs to no block.
LEMMA PlainGrows ==
  ASSUME NEW b, Open(b), NEW t \in PlainEvent, NEW n \in Nat \ {0}
  PROVE  Grows(b, Emit(b, t, n))
<1>1. /\ Open(Emit(b, t, n)) /\ Emit(b, t, n).sequence = b.sequence + n /\ b.sequence \in Nat
      /\ Keeps(b, Emit(b, t, n))
  BY Plain, OpenFacts
<1> QED
  BY <1>1 DEF Grows

\* A tool call that is announced.
LEMMA AnnounceGrows ==
  ASSUME NEW b, Open(b), NEW n \in Nat \ {0}
  PROVE  Grows(b, Announce(b, n))
<1> DEFINE c == Emit(b, "tool_start", n)
           d == Emit(c, "tool_input_delta", n)
           e == Emit(d, "tool_end", n)
<1>1. {"tool_start", "tool_input_delta", "tool_end"} \subseteq PlainEvent
  BY DEF PlainEvent
<1>2. Grows(b, c) /\ Open(c)
  BY <1>1, PlainGrows DEF Grows
<1> HIDE DEF c
<1>3. Grows(c, d) /\ Open(d)
  BY <1>1, <1>2, PlainGrows DEF Grows
<1> HIDE DEF d
<1>4. Grows(d, e)
  BY <1>1, <1>3, PlainGrows
<1> HIDE DEF e
<1>5. Grows(b, e)
  BY <1>2, <1>3, <1>4, GrowsTransitive
<1> QED
  BY <1>5 DEF Announce, c, d, e

-----------------------------------------------------------------------------
(* What it does to the accumulated tool calls. *)

\* They are few, and have places.
LEMMA FragmentsDomain ==
  ASSUME NEW f \in Fragments
  PROVE  DOMAIN f \in SUBSET Indexes /\ f \in [DOMAIN f -> {"named", "anonymous"}]
BY DEF Fragments

\* More of them keep their type.
LEMMA AccumulateType ==
  ASSUME calls \in Fragments, NEW f \in Fragments
  PROVE  Accumulate(f) \in Fragments
<1> DEFINE I == DOMAIN calls \cup DOMAIN f
<1>1. I \in SUBSET Indexes
  BY FragmentsDomain
<1>2. Accumulate(f) \in [I -> {"named", "anonymous"}]
  BY FragmentsDomain DEF Accumulate
<1> QED
  BY <1>1, <1>2 DEF Fragments

\* They are finitely many.
LEMMA NamedFinite ==
  ASSUME calls \in Fragments
  PROVE  /\ IsFiniteSet(Named(calls)) /\ Cardinality(Named(calls)) \in Nat
         /\ Named(calls) # {} => Cardinality(Named(calls)) # 0
<1>1. Named(calls) \in SUBSET Indexes
  BY FragmentsDomain DEF Named
<1>2. IsFiniteSet(Named(calls))
  BY <1>1, ConstantsAssumption, FS_Subset
<1> QED
  BY <1>2, FS_CardinalityType, FS_EmptySet

-----------------------------------------------------------------------------
(* The steps. *)

\* At first there are none.
LEMMA NoCallsType == NoCalls \in Fragments
<1>1. {} \in SUBSET Indexes
  OBVIOUS
<1>2. NoCalls \in [{} -> {"named", "anonymous"}]
  BY DEF NoCalls
<1> QED
  BY <1>1, <1>2 DEF Fragments

\* The invariant at the start.
LEMMA InvInit == Init => IInv
<1> SUFFICES ASSUME Init PROVE IInv
  OBVIOUS
<1>1. NewBuilder \in Builder
  BY Starting DEF Sound
<1>2. TypeOK
  <2>1. /\ toolRound \in 0..MaxToolRounds /\ chunkCount \in 0..MaxChunks
        /\ streams \in 0..MaxStreams /\ uncounted \in Nat
    BY ConstantsAssumption DEF Init
  <2>2. pc \in Running /\ lastFinish \in Finish
    BY DEF Init, Running, Finish
  <2>3. terminal \in BOOLEAN
    BY DEF Init
  <2>4. builder \in Builder /\ calls \in Fragments
    BY <1>1, NoCallsType DEF Init
  <2> QED
    BY <2>1, <2>2, <2>3, <2>4 DEF TypeOK
<1>3. BuilderInv
  BY DEF Init, BuilderInv
<1>4. RoundInv
  BY DEF Init, RoundInv
<1> QED
  BY <1>2, <1>3, <1>4 DEF IInv

\* A step at which the response grows or stays as it is.
LEMMA GrowingStep ==
  ASSUME pc \in {"round", "streaming", "after", "tools"}, Open(builder),
         pc' \in {"round", "streaming", "after", "tools"}, Grows(builder, builder')
  PROVE  /\ BuilderInv' /\ builder' \in Builder
         /\ [Lifecycle!Next]_(Lifecycle!vars)
<1>1. Open(builder') /\ builder'.sequence >= builder.sequence
  BY DEF Grows
<1>2. /\ builder' \in Builder /\ builder'.sequence \in Nat /\ builder.sequence \in Nat
      /\ builder.started /\ ~builder.terminal /\ builder'.started /\ ~builder'.terminal
  BY <1>1, OpenFacts DEF Open
<1>3. BuilderInv'
  BY <1>1 DEF BuilderInv
<1>4. phaseOf = "open" /\ phaseOf' = "open"
  BY <1>2 DEF phaseOf
<1>5. CASE builder'.sequence = builder.sequence
  BY <1>2, <1>3, <1>4, <1>5 DEF Lifecycle!vars
<1>6. CASE builder'.sequence > builder.sequence
  BY <1>2, <1>3, <1>4, <1>6 DEF Lifecycle!Next, Lifecycle!Append
<1> QED
  BY <1>1, <1>2, <1>5, <1>6

\* A step at which the response ends.
LEMMA EndingStep ==
  ASSUME pc \in {"round", "streaming", "after", "tools"}, Open(builder),
         \/ pc' \in {"ended", "exhausted"} /\ Ends(builder, builder', "message_end")
         \/ pc' = "failed" /\ Ends(builder, builder', "error")
  PROVE  /\ BuilderInv' /\ builder' \in Builder
         /\ [Lifecycle!Next]_(Lifecycle!vars)
<1>1. /\ Sound(builder') /\ builder'.started /\ builder'.terminal
      /\ builder'.sequence > builder.sequence
  BY DEF Ends
<1>2. /\ builder' \in Builder /\ builder'.sequence \in Nat /\ builder.sequence \in Nat
      /\ builder.started /\ ~builder.terminal
  BY <1>1, OpenFacts DEF Open, Sound, Builder
<1>3. BuilderInv'
  BY <1>1 DEF BuilderInv, Ends, LastType
<1>4. phaseOf = "open"
  BY <1>2 DEF phaseOf
<1>5. phaseOf' \in {"ended", "failed"}
  BY <1>1 DEF phaseOf, Ends, LastType
<1> QED
  BY <1>1, <1>2, <1>3, <1>4, <1>5 DEF Lifecycle!Next, Lifecycle!Finish

\* Every step keeps the invariant and is one of the abstract life cycle's.
LEMMA Step == IInv /\ [Next]_vars => IInv' /\ [Lifecycle!Next]_(Lifecycle!vars) /\ Keeps(builder, builder')
<1> SUFFICES ASSUME IInv, [Next]_vars
             PROVE  IInv' /\ [Lifecycle!Next]_(Lifecycle!vars) /\ Keeps(builder, builder')
  OBVIOUS
<1> USE DEF IInv
<1>1. CASE Prepare
  <2>1. builder = NewBuilder /\ builder' = MessageStart(NewBuilder)
    BY <1>1 DEF Prepare, BuilderInv
  <2>2. Open(builder') /\ builder'.sequence = 1
    BY <2>1, Starting
  <2>3. builder' \in Builder /\ builder'.started /\ ~builder'.terminal
    BY <2>2, OpenFacts DEF Open
  <2>4. phaseOf = "idle" /\ phaseOf' = "open"
    BY <1>1, <2>1, <2>3 DEF Prepare, phaseOf, NewBuilder
  <2>5. Lifecycle!Start
    BY <2>2, <2>4 DEF Lifecycle!Start
  <2>6. IInv'
    BY <1>1, <2>2, <2>3 DEF Prepare, TypeOK, BuilderInv, RoundInv, Running
  <2> QED
    BY <2>1, <2>5, <2>6 DEF Lifecycle!Next, Keeps, NewBuilder
<1>2. CASE PrepareFails
  <2>1. builder = NewBuilder /\ builder' = builder
    BY <1>2 DEF PrepareFails, BuilderInv
  <2>2. Sound(builder') /\ ~builder'.terminal
    BY <2>1, Starting DEF NewBuilder
  <2>3. phaseOf = "idle" /\ phaseOf' = "broken" /\ builder.sequence = 0
    BY <1>2, <2>1 DEF PrepareFails, phaseOf, NewBuilder
  <2>4. Lifecycle!BreakOff
    BY <2>1, <2>3 DEF Lifecycle!BreakOff
  <2>5. IInv'
    BY <1>2, <2>2 DEF PrepareFails, TypeOK, BuilderInv, RoundInv, Running, Returned
  <2> QED
    BY <2>1, <2>4, <2>5 DEF Lifecycle!Next, Keeps
<1>3. CASE BeginRound
  <2>1. Open(builder) /\ Grows(builder, builder')
    BY <1>3, OpenFacts DEF BeginRound, BuilderInv, Grows, Keeps
  <2>2. BuilderInv' /\ [Lifecycle!Next]_(Lifecycle!vars)
    BY <1>3, <2>1, GrowingStep DEF BeginRound
  <2>3. TypeOK' /\ RoundInv'
    BY <1>3, NoCallsType, ConstantsAssumption DEF BeginRound, TypeOK, RoundInv, Running, Finish
  <2> QED
    BY <2>1, <2>2, <2>3 DEF Grows
<1>4. CASE RoundsExhausted
  <2>1. Open(builder) /\ Ends(builder, builder', "message_end")
    BY <1>4, CloseEnds DEF RoundsExhausted, BuilderInv
  <2>2. BuilderInv' /\ builder' \in Builder /\ [Lifecycle!Next]_(Lifecycle!vars)
    BY <1>4, <2>1, EndingStep DEF RoundsExhausted
  <2>3. TypeOK' /\ RoundInv'
    BY <1>4, <2>2 DEF RoundsExhausted, TypeOK, RoundInv, Returned
  <2> QED
    BY <2>1, <2>2, <2>3 DEF Ends
<1>5. CASE \E c \in Chunks : ReadChunk(c)
  <2> PICK c \in Chunks : ReadChunk(c)
    BY <1>5
  <2>1. c \in Chunk /\ c.calls \in Fragments /\ c.finish \in Finish
    BY ConstantsAssumption DEF Chunk
  <2>2. Open(builder) /\ pc = "streaming"
    BY DEF ReadChunk, BuilderInv
  <2>3. Grows(builder, Forward(builder, c))
    BY <2>1, <2>2, ForwardGrows
  <2>4. BuilderInv' /\ builder' \in Builder /\ [Lifecycle!Next]_(Lifecycle!vars)
    <3>1. CASE pc' \in {"streaming", "after"} /\ builder' = Forward(builder, c)
      BY <2>2, <2>3, <3>1, GrowingStep
    <3>2. CASE pc' = "ended" /\ builder' = Conclude(Forward(builder, c), c)
      <4> DEFINE f == Forward(builder, c)
      <4>1. Open(f) /\ f.sequence >= builder.sequence /\ Keeps(builder, f)
        BY <2>3 DEF Grows
      <4> HIDE DEF f
      <4>2. Ends(f, Conclude(f, c), "message_end")
        BY <2>1, <4>1, ConcludeEnds
      <4>3. builder.sequence \in Nat /\ f.sequence \in Nat
        BY <2>2, <4>1, OpenFacts
      <4>4. Conclude(f, c).sequence \in Nat
        BY <4>2 DEF Ends, Sound, Builder
      <4>5. Ends(builder, Conclude(f, c), "message_end")
        BY <4>1, <4>2, <4>3, <4>4 DEF Ends, Keeps
      <4> QED
        BY <2>2, <3>2, <4>5, EndingStep DEF f
    <3> QED
      BY <3>1, <3>2 DEF ReadChunk
  <2>5. calls' \in Fragments
    BY <2>1, AccumulateType DEF ReadChunk, TypeOK
  <2>6. TypeOK' /\ RoundInv'
    BY <2>1, <2>2, <2>4, <2>5, ConstantsAssumption
       DEF ReadChunk, TypeOK, RoundInv, Running, Returned, Finish
  <2>7. Keeps(builder, builder')
    <3>1. Keeps(builder, Forward(builder, c)) /\ Open(Forward(builder, c))
      BY <2>3 DEF Grows
    <3>2. Keeps(Forward(builder, c), Conclude(Forward(builder, c), c))
      BY <3>1, <2>1, ConcludeEnds DEF Ends
    <3> QED
      BY <3>1, <3>2 DEF ReadChunk, Keeps
  <2> QED
    BY <2>4, <2>6, <2>7
<1>6. CASE StreamEnds
  <2>1. Open(builder) /\ Grows(builder, builder')
    BY <1>6, OpenFacts DEF StreamEnds, BuilderInv, Grows, Keeps
  <2>2. BuilderInv' /\ [Lifecycle!Next]_(Lifecycle!vars)
    BY <1>6, <2>1, GrowingStep DEF StreamEnds
  <2>3. TypeOK' /\ RoundInv'
    BY <1>6 DEF StreamEnds, TypeOK, RoundInv, Running
  <2> QED
    BY <2>1, <2>2, <2>3 DEF Grows
<1>7. CASE StreamFails
  <2>1. Open(builder) /\ Ends(builder, builder', "error")
    BY <1>7, CloseEnds DEF StreamFails, BuilderInv
  <2>2. BuilderInv' /\ builder' \in Builder /\ [Lifecycle!Next]_(Lifecycle!vars)
    BY <1>7, <2>1, EndingStep DEF StreamFails
  <2>3. TypeOK' /\ RoundInv'
    BY <1>7, <2>2 DEF StreamFails, TypeOK, RoundInv, Returned
  <2> QED
    BY <2>1, <2>2, <2>3 DEF Ends
<1>8. CASE DropAnonymousCalls
  <2>1. Open(builder) /\ Grows(builder, builder')
    BY <1>8, OpenFacts DEF DropAnonymousCalls, BuilderInv, Grows, Keeps
  <2>2. BuilderInv' /\ [Lifecycle!Next]_(Lifecycle!vars)
    BY <1>8, <2>1, GrowingStep DEF DropAnonymousCalls
  <2>3. TypeOK' /\ RoundInv'
    BY <1>8 DEF DropAnonymousCalls, TypeOK, RoundInv, Running
  <2> QED
    BY <2>1, <2>2, <2>3 DEF Grows
<1>9. CASE StartTools
  <2>1. Cardinality(Named(calls)) \in Nat \ {0}
    BY <1>9, NamedFinite DEF StartTools, TypeOK
  <2>2. Open(builder) /\ Grows(builder, builder')
    BY <1>9, <2>1, AnnounceGrows DEF StartTools, BuilderInv
  <2>3. BuilderInv' /\ builder' \in Builder /\ [Lifecycle!Next]_(Lifecycle!vars)
    BY <1>9, <2>2, GrowingStep DEF StartTools
  <2>4. TypeOK' /\ RoundInv'
    BY <1>9, <2>3 DEF StartTools, TypeOK, RoundInv, Running, Named
  <2> QED
    BY <2>2, <2>3, <2>4 DEF Grows
<1>10. CASE BadArguments
  <2>1. Open(builder) /\ pc = "after" /\ pc' = "raised"
    BY <1>10 DEF BadArguments, BuilderInv
  <2>2. Grows(builder, builder')
    <3>1. PICK n \in 0..(Cardinality(Named(calls)) - 1) :
            builder' = IF n = 0 THEN builder ELSE Emit(builder, "tool_start", n)
      BY <1>10 DEF BadArguments
    <3>2. n \in Nat
      BY <3>1
    <3>3. CASE n = 0
      BY <2>1, <3>1, <3>3, OpenFacts DEF Grows, Keeps
    <3>4. CASE n # 0
      <4>1. n \in Nat \ {0} /\ "tool_start" \in PlainEvent
        BY <3>2, <3>4 DEF PlainEvent
      <4> QED
        BY <2>1, <3>1, <3>4, <4>1, PlainGrows
    <3> QED
      BY <3>3, <3>4
  <2>3. /\ Sound(builder') /\ ~builder'.terminal /\ builder' \in Builder
        /\ builder'.sequence \in Nat /\ builder'.sequence >= builder.sequence
        /\ builder.started /\ ~builder.terminal
    BY <2>1, <2>2, OpenFacts DEF Grows, Open
  <2>4. phaseOf = "open" /\ phaseOf' = "broken"
    BY <2>1, <2>3 DEF phaseOf
  <2>5. Lifecycle!BreakOff
    BY <2>3, <2>4 DEF Lifecycle!BreakOff
  <2>6. IInv'
    BY <1>10, <2>1, <2>3 DEF BadArguments, TypeOK, BuilderInv, RoundInv, Returned
  <2> QED
    BY <2>2, <2>5, <2>6 DEF Lifecycle!Next, Grows
<1>11. CASE FinishTools
  <2>1. Cardinality(Named(calls)) \in Nat \ {0} /\ "tool_result" \in PlainEvent
    BY <1>11, NamedFinite DEF FinishTools, TypeOK, RoundInv, PlainEvent
  <2>2. Open(builder) /\ Grows(builder, builder')
    BY <1>11, <2>1, PlainGrows DEF FinishTools, BuilderInv
  <2>3. BuilderInv' /\ builder' \in Builder /\ [Lifecycle!Next]_(Lifecycle!vars)
    BY <1>11, <2>2, GrowingStep DEF FinishTools
  <2>4. TypeOK' /\ RoundInv'
    BY <1>11, <2>3, ConstantsAssumption DEF FinishTools, TypeOK, RoundInv, Running
  <2> QED
    BY <2>2, <2>3, <2>4 DEF Grows
<1>12. CASE NoTools
  <2>1. Open(builder)
    BY <1>12 DEF NoTools, BuilderInv
  <2>2. BuilderInv' /\ builder' \in Builder /\ [Lifecycle!Next]_(Lifecycle!vars)
    BY <1>12, <2>1, CloseEnds, EndingStep DEF NoTools
  <2>3. TypeOK' /\ RoundInv'
    BY <1>12, <2>2 DEF NoTools, TypeOK, RoundInv, Returned
  <2>4. Keeps(builder, builder')
    BY <1>12, <2>1, CloseEnds DEF NoTools, Ends
  <2> QED
    BY <2>2, <2>3, <2>4
<1>13. CASE UNCHANGED vars
  <2>1. UNCHANGED Lifecycle!vars
    BY <1>13 DEF vars, Lifecycle!vars, phaseOf, LastType
  <2>2. IInv'
    BY <1>13 DEF vars, TypeOK, BuilderInv, RoundInv, LastType
  <2> QED
    BY <1>13, <2>1, <2>2 DEF vars, Keeps
<1> QED
  BY <1>1, <1>2, <1>3, <1>4, <1>5, <1>6, <1>7, <1>8, <1>9, <1>10, <1>11, <1>12, <1>13
     DEF Next, Generator

-----------------------------------------------------------------------------
(* The theorems. *)

\* The type of every variable and, place by place in the loop, whether the
\* response is open, ended or failed.
THEOREM Invariance == Spec => []IInv
BY InvInit, Step, PTL DEF Spec

\* The types of the variables, for every bound on rounds, chunks and streams.
THEOREM TypeInvariant == Spec => []TypeOK
<1>1. IInv => TypeOK
  BY DEF IInv
<1> QED
  BY <1>1, Invariance, PTL

\* In every state the builder is sound.
LEMMA InvSound == IInv => Sound(builder)
<1> SUFFICES ASSUME IInv PROVE Sound(builder)
  OBVIOUS
<1>1. pc \in Running \cup Returned
  BY DEF IInv, TypeOK
<1> QED
  BY <1>1, Starting DEF IInv, BuilderInv, Running, Returned, Open

\* The events of a response are always numbered from 0 without a gap, begin
\* with the one message_start, end with the one terminal event, and nest
\* their text and reasoning blocks.
THEOREM ResponsesAreWellFormed == Spec => []WellFormedResponse
<1>1. IInv => WellFormedResponse
  BY InvSound DEF Sound, WellFormedResponse
<1> QED
  BY <1>1, Invariance, PTL

\* The RuntimeErrors of ResponseEventBuilder are unreachable from the loop.
THEOREM NoGuardTrips == Spec => []GuardsNeverTrip
<1>1. IInv => GuardsNeverTrip
  BY InvSound DEF Sound, GuardsNeverTrip
<1> QED
  BY <1>1, Invariance, PTL

\* The generator returns exactly when it has sent a terminal event, and that
\* event is "error" exactly on its failure paths.
THEOREM ReturnsAreTerminal == Spec => []ReturnsWithTerminal
<1>1. IInv => ReturnsWithTerminal
  <2> SUFFICES ASSUME IInv PROVE ReturnsWithTerminal
    OBVIOUS
  <2>1. pc \in Running \cup Returned
    BY DEF IInv, TypeOK
  <2>2. ~NewBuilder.terminal
    BY DEF NewBuilder
  <2>3. pc \in {"ended", "exhausted", "failed"} <=> builder.terminal
    BY <2>1, <2>2 DEF IInv, BuilderInv, Running, Returned, Open
  <2>4. builder.terminal => (pc = "failed" <=> LastType(builder) = "error")
    BY <2>1, <2>3 DEF IInv, BuilderInv
  <2> QED
    BY <2>3, <2>4 DEF ReturnsWithTerminal
<1> QED
  BY <1>1, Invariance, PTL

\* The generator implements the abstract life cycle of a response.
THEOREM Refinement == Spec => ImplementsLifecycle
<1>1. Init => Lifecycle!Init
  BY DEF Init, Lifecycle!Init, phaseOf, NewBuilder
<1> QED
  BY <1>1, Step, Invariance, PTL DEF Spec, ImplementsLifecycle, Lifecycle!Spec

\* No step of the generator takes back or changes an event it has sent.
THEOREM EventsStay == Spec => [][Keeps(builder, builder')]_vars
<1>1. IInv /\ [Next]_vars => [Keeps(builder, builder')]_vars
  BY Step
<1> QED
  BY <1>1, Invariance, PTL DEF Spec

-----------------------------------------------------------------------------
(* The provider streams of a response. *)

\* A stream that is not the last is one of a round, counted or not.
BoundInv ==
  /\ pc \in {"init", "round"} => streams = toolRound + uncounted
  /\ pc \in {"streaming", "after", "tools"} => streams = toolRound + uncounted + 1
  /\ pc \in Returned => streams <= MaxToolRounds + uncounted

\* At first there were none.
LEMMA BoundInit == Init => BoundInv
BY DEF Init, BoundInv, Returned

\* A round opens one stream, and there are only so many rounds.
LEMMA BoundStep == IInv /\ BoundInv /\ [Next]_vars => BoundInv'
<1> SUFFICES ASSUME IInv, BoundInv, [Next]_vars PROVE BoundInv'
  OBVIOUS
<1>0. /\ toolRound \in Nat /\ toolRound <= MaxToolRounds /\ MaxToolRounds \in Nat /\ streams \in Nat
      /\ uncounted \in Nat
      /\ pc \in {"streaming", "after", "tools"} => toolRound < MaxToolRounds
  BY ConstantsAssumption DEF IInv, TypeOK, RoundInv
<1>1. CASE Prepare \/ PrepareFails
  BY <1>0, <1>1 DEF Prepare, PrepareFails, BoundInv, Returned
<1>2. CASE BeginRound
  BY <1>0, <1>2 DEF BeginRound, BoundInv, Returned
<1>3. CASE RoundsExhausted
  BY <1>0, <1>3 DEF RoundsExhausted, BoundInv, Returned
<1>4. CASE \E c \in Chunks : ReadChunk(c)
  <2> PICK c \in Chunks : ReadChunk(c)
    BY <1>4
  <2> QED
    BY <1>0 DEF ReadChunk, BoundInv, Returned
<1>5. CASE StreamEnds \/ StreamFails
  BY <1>0, <1>5 DEF StreamEnds, StreamFails, BoundInv, Returned
<1>6. CASE DropAnonymousCalls
  BY <1>0, <1>6 DEF DropAnonymousCalls, BoundInv, Returned
<1>7. CASE StartTools \/ BadArguments \/ NoTools
  BY <1>0, <1>7 DEF StartTools, BadArguments, NoTools, BoundInv, Returned
<1>8. CASE FinishTools
  BY <1>0, <1>8 DEF FinishTools, BoundInv, Returned
<1>9. CASE UNCHANGED vars
  BY <1>9 DEF vars, BoundInv
<1> QED
  BY <1>1, <1>2, <1>3, <1>4, <1>5, <1>6, <1>7, <1>8, <1>9 DEF Next, Generator

\* So there are never more.
LEMMA BoundHolds == IInv /\ BoundInv => ProviderStreamsBounded
<1> SUFFICES ASSUME IInv, BoundInv PROVE ProviderStreamsBounded
  OBVIOUS
<1>1. /\ pc \in Running \cup Returned /\ toolRound \in Nat /\ toolRound <= MaxToolRounds
      /\ MaxToolRounds \in Nat /\ uncounted \in Nat
      /\ pc \in {"streaming", "after", "tools"} => toolRound < MaxToolRounds
  BY ConstantsAssumption DEF IInv, TypeOK, RoundInv
<1> QED
  BY <1>1 DEF BoundInv, ProviderStreamsBounded, Running

\* MAX_TOOL_ROUNDS bounds the requests of one response to its provider, whatever
\* it sends, but for those of rounds in which no tool call had an id and a name.
THEOREM StreamsAreBounded == Spec => []ProviderStreamsBounded
<1>1. Init => IInv /\ BoundInv
  BY InvInit, BoundInit
<1>2. IInv /\ BoundInv /\ [Next]_vars => (IInv /\ BoundInv)'
  BY Step, BoundStep
<1> QED
  BY <1>1, <1>2, BoundHolds, PTL DEF Spec
=============================================================================
