----------------------- MODULE ResponseDeliveryProofs -----------------------
(***************************************************************************)
(* The safety properties of ResponseDelivery, for every number of tool     *)
(* rounds, every set of chunks a provider may send and streams of any      *)
(* length.  What the generator guarantees is taken from its own proofs,    *)
(* through an instance of their module; what the controller does with an   *)
(* event is worked out once (Handles); and the two are held together by    *)
(* the place in the response the page has come to (Aligned).               *)
(***************************************************************************)
EXTENDS ResponseDelivery, SequenceTheorems, WellFoundedInduction, TLAPS

P == INSTANCE ResponseStreamProofs

-----------------------------------------------------------------------------
(* Induction along a sequence. *)

\* A set of numbers that is not empty has a least one.
LEMMA LeastNat ==
  ASSUME NEW T \in SUBSET Nat, T # {}
  PROVE  \E x \in T : \A y \in T : x <= y
<1> DEFINE Less == {p \in Nat \X Nat : p[1] < p[2]}
<1>1. IsWellFoundedOn(Less, Nat)
  BY NatLessThanWellFounded DEF OpToRel
<1>2. PICK x \in T : \A y \in T : ~(<<y, x>> \in Less)
  <2> HIDE DEF Less
  <2> QED BY <1>1, WFMin
<1>3. ASSUME NEW y \in T PROVE x <= y
  <2>1. <<y, x>> \notin Less /\ x \in Nat /\ y \in Nat
    BY <1>2
  <2>2. y < x => <<y, x>> \in Less
    BY <2>1
  <2> QED
    BY <2>1, <2>2
<1> QED
  BY <1>3

\* What holds at 0 and is passed on up to N holds up to N.
LEMMA UpTo ==
  ASSUME NEW N \in Nat, NEW S, 0 \in S,
         \A n \in 1..N : n - 1 \in S => n \in S
  PROVE  \A n \in 0..N : n \in S
<1> DEFINE T == {n \in 0..N : n \notin S}
<1>1. ASSUME NEW x \in T, \A y \in T : x <= y PROVE FALSE
  <2>1. x \in 1..N /\ x - 1 \in 0..N /\ ~(x <= x - 1)
    OBVIOUS
  <2>2. x - 1 \notin T
    BY <1>1, <2>1
  <2> QED
    BY <2>1, <2>2
<1>2. T \in SUBSET Nat
  OBVIOUS
<1>3. T = {}
  <2> HIDE DEF T
  <2> QED BY <1>1, <1>2, LeastNat
<1> QED
  BY <1>3

-----------------------------------------------------------------------------
(* The text of a sequence of events or frames. *)

Texts(s, f, N) ==
  f = [n \in 0..N |-> IF n = 0 THEN <<>>
                      ELSE IF s[n].type = "text_delta" THEN Append(f[n - 1], s[n].sequence)
                      ELSE f[n - 1]]
\* The text of its first n elements.
Text(s, n) == (CHOOSE f : Texts(s, f, Len(s)))[n]

\* What the recursive function of TextOf comes to, by the number of elements.
LEMMA TextIs == ASSUME NEW s PROVE TextOf(s) = Text(s, Len(s))
BY DEF TextOf, Text, Texts

\* There is such a function, whatever the length.
LEMMA TextsExist ==
  ASSUME NEW s, NEW N \in Nat
  PROVE  \E f : Texts(s, f, N)
<1> DEFINE S == {n \in 0..N : \E f : Texts(s, f, n)}
<1>1. 0 \in S
  <2>1. Texts(s, [n \in 0..0 |-> <<>>], 0)
    BY DEF Texts
  <2> QED
    BY <2>1
<1>2. ASSUME NEW n \in 1..N, n - 1 \in S PROVE n \in S
  <2>1. PICK f : Texts(s, f, n - 1)
    BY <1>2
  <2> DEFINE g == [m \in 0..n |-> IF m < n THEN f[m]
                                  ELSE IF s[n].type = "text_delta" THEN Append(f[n - 1], s[n].sequence)
                                  ELSE f[n - 1]]
  <2>2. Texts(s, g, n)
    <3>1. ASSUME NEW m \in 0..n
          PROVE  g[m] = IF m = 0 THEN <<>>
                        ELSE IF s[m].type = "text_delta" THEN Append(g[m - 1], s[m].sequence)
                        ELSE g[m - 1]
      <4>1. CASE m = 0
        BY <2>1, <4>1 DEF Texts
      <4>2. CASE m # 0 /\ m < n
        <5>1. m - 1 \in 0..n /\ m - 1 < n /\ m \in 0..(n - 1)
          BY <4>2
        <5>2. f[m] = IF s[m].type = "text_delta" THEN Append(f[m - 1], s[m].sequence) ELSE f[m - 1]
          BY <2>1, <4>2, <5>1 DEF Texts
        <5> QED
          BY <4>2, <5>1, <5>2
      <4>3. CASE m = n
        <5>1. m - 1 \in 0..n /\ m - 1 < n /\ m # 0
          BY <4>3
        <5> QED
          BY <4>3, <5>1
      <4> QED
        BY <4>1, <4>2, <4>3
    <3> HIDE DEF g
    <3>2. g = [m \in 0..n |-> g[m]]
      BY DEF g
    <3> QED
      BY <3>1, <3>2 DEF Texts
  <2> QED
    BY <2>2
<1> HIDE DEF S
<1>3. \A n \in 0..N : n \in S
  BY <1>1, <1>2, UpTo
<1> QED
  BY <1>3 DEF S

\* Element by element.
LEMMA TextRec ==
  ASSUME NEW s, Len(s) \in Nat
  PROVE  /\ Text(s, 0) = <<>>
         /\ \A n \in 1..Len(s) :
              Text(s, n) = IF s[n].type = "text_delta" THEN Append(Text(s, n - 1), s[n].sequence)
                           ELSE Text(s, n - 1)
<1> DEFINE f == CHOOSE f : Texts(s, f, Len(s))
<1>1. Texts(s, f, Len(s))
  BY TextsExist
<1>2. \A n : Text(s, n) = f[n]
  BY DEF Text
<1> HIDE DEF f
<1>3. \A n \in 0..Len(s) :
        f[n] = IF n = 0 THEN <<>>
               ELSE IF s[n].type = "text_delta" THEN Append(f[n - 1], s[n].sequence)
               ELSE f[n - 1]
  BY <1>1 DEF Texts
<1>4. Text(s, 0) = <<>>
  BY <1>2, <1>3
<1>5. ASSUME NEW n \in 1..Len(s)
      PROVE  Text(s, n) = IF s[n].type = "text_delta" THEN Append(Text(s, n - 1), s[n].sequence)
                          ELSE Text(s, n - 1)
  <2>1. n \in 0..Len(s) /\ n # 0
    OBVIOUS
  <2>2. f[n] = IF s[n].type = "text_delta" THEN Append(f[n - 1], s[n].sequence) ELSE f[n - 1]
    BY <1>3, <2>1
  <2>3. Text(s, n) = f[n] /\ Text(s, n - 1) = f[n - 1]
    BY <1>2
  <2> QED
    BY <2>2, <2>3
<1> QED
  BY <1>4, <1>5

\* The sequences there are: of events and of frames.
Items(s) == Len(s) \in Nat /\ \A i \in 1..Len(s) : s[i].sequence \in Int

\* A text is a sequence of numbers.
LEMMA TextType ==
  ASSUME NEW s, Items(s)
  PROVE  \A n \in 0..Len(s) : Text(s, n) \in Seq(Int)
<1> DEFINE S == {n \in 0..Len(s) : Text(s, n) \in Seq(Int)}
<1>0. Len(s) \in Nat
  BY DEF Items
<1>1. 0 \in S
  <2>1. Text(s, 0) = <<>>
    BY <1>0, TextRec
  <2>2. <<>> \in Seq(Int) /\ 0 \in 0..Len(s)
    BY <1>0
  <2> QED
    BY <2>1, <2>2
<1>2. ASSUME NEW n \in 1..Len(s), n - 1 \in S PROVE n \in S
  <2>1. Text(s, n - 1) \in Seq(Int) /\ s[n].sequence \in Int /\ n \in 0..Len(s)
    BY <1>0, <1>2 DEF Items
  <2>2. Text(s, n) = IF s[n].type = "text_delta" THEN Append(Text(s, n - 1), s[n].sequence)
                     ELSE Text(s, n - 1)
    BY <1>0, TextRec
  <2>3. Append(Text(s, n - 1), s[n].sequence) \in Seq(Int)
    BY <2>1, AppendProperties
  <2> QED
    BY <2>1, <2>2, <2>3
<1> HIDE DEF S
<1>3. \A n \in 0..Len(s) : n \in S
  BY <1>0, <1>1, <1>2, UpTo
<1> QED
  BY <1>3 DEF S

\* Sequences that agree up to n have the same text up to n.
LEMMA TextAgrees ==
  ASSUME NEW s, NEW u, Items(s), Items(u), NEW N \in Nat, N <= Len(s), N <= Len(u),
         \A i \in 1..N : s[i].type = u[i].type /\ s[i].sequence = u[i].sequence
  PROVE  Text(s, N) = Text(u, N)
<1> DEFINE S == {n \in 0..N : Text(s, n) = Text(u, n)}
<1>0. Len(s) \in Nat /\ Len(u) \in Nat
  BY DEF Items
<1>1. 0 \in S
  BY <1>0, TextRec
<1>2. ASSUME NEW n \in 1..N, n - 1 \in S PROVE n \in S
  <2>1. n \in 1..Len(s) /\ n \in 1..Len(u) /\ Text(s, n - 1) = Text(u, n - 1)
    BY <1>0, <1>2
  <2>2. Text(s, n) = IF s[n].type = "text_delta" THEN Append(Text(s, n - 1), s[n].sequence)
                     ELSE Text(s, n - 1)
    BY <1>0, <2>1, TextRec
  <2>3. Text(u, n) = IF u[n].type = "text_delta" THEN Append(Text(u, n - 1), u[n].sequence)
                     ELSE Text(u, n - 1)
    BY <1>0, <2>1, TextRec
  <2>4. s[n].type = u[n].type /\ s[n].sequence = u[n].sequence
    OBVIOUS
  <2>5. Text(s, n) = Text(u, n)
    BY <2>1, <2>2, <2>3, <2>4
  <2> QED
    BY <2>5
<1> HIDE DEF S
<1>3. \A n \in 0..N : n \in S
  BY <1>1, <1>2, UpTo
<1> QED
  BY <1>3 DEF S

\* Three sequences, joined in another order.
LEMMA ThreeJoined ==
  ASSUME NEW a \in Seq(Int), NEW b \in Seq(Int), NEW c \in Seq(Int)
  PROVE  (a \o b) \o c = a \o (b \o c)
BY SMTT(30), ConcatAssociative

\* Appending to the second of two joined sequences.
LEMMA AppendJoins ==
  ASSUME NEW p \in Seq(Int), NEW q \in Seq(Int), NEW e \in Int
  PROVE  Append(p \o q, e) = p \o Append(q, e)
<1>1. p \o q \in Seq(Int)
  BY ConcatProperties, Zenon
<1>2. <<e>> \in Seq(Int)
  OBVIOUS
<1>3. Append(q, e) = q \o <<e>>
  BY AppendIsConcat, Zenon
<1>4. Append(p \o q, e) = (p \o q) \o <<e>>
  BY <1>1, AppendIsConcat, Zenon
<1>5. (p \o q) \o <<e>> = p \o (q \o <<e>>)
  <2>1. ASSUME NEW r \in Seq(Int) PROVE (p \o q) \o r = p \o (q \o r)
    BY ThreeJoined
  <2> QED
    BY <1>2, <2>1, Zenon
<1> QED
  BY <1>3, <1>4, <1>5, Zenon

\* The text of a sequence and of one that follows it.
LEMMA TextJoins ==
  ASSUME NEW A, NEW B, NEW s \in Seq(A), NEW u \in Seq(B), Items(s), Items(u)
  PROVE  TextOf(s \o u) = TextOf(s) \o TextOf(u)
<1> DEFINE v == s \o u
           S == {n \in 0..Len(u) : Text(v, Len(s) + n) = Text(s, Len(s)) \o Text(u, n)}
<1>0. /\ Len(s) \in Nat /\ Len(u) \in Nat /\ Len(v) = Len(s) + Len(u)
      /\ \A i \in 1..Len(s) : v[i] = s[i]
      /\ \A i \in 1..Len(u) : v[Len(s) + i] = u[i]
  <2>1. s \in Seq(A \cup B) /\ u \in Seq(A \cup B)
    OBVIOUS
  <2>2. v \in Seq(A \cup B) /\ Len(v) = Len(s) + Len(u)
        /\ \A i \in 1..Len(s) + Len(u) : v[i] = IF i <= Len(s) THEN s[i] ELSE u[i - Len(s)]
    BY <2>1, ConcatProperties
  <2> QED
    BY <2>2
<1> HIDE DEF v
<1>1. Items(v)
  <2>1. ASSUME NEW i \in 1..Len(v) PROVE v[i].sequence \in Int
    <3>1. CASE i <= Len(s)
      BY <1>0, <3>1 DEF Items
    <3>2. CASE i > Len(s)
      <4>1. i - Len(s) \in 1..Len(u) /\ i = Len(s) + (i - Len(s))
        BY <1>0, <3>2
      <4> QED
        BY <1>0, <4>1 DEF Items
    <3> QED
      BY <1>0, <3>1, <3>2
  <2> QED
    BY <1>0, <2>1 DEF Items
<1>2. Text(s, Len(s)) \in Seq(Int) /\ \A n \in 0..Len(u) : Text(u, n) \in Seq(Int)
  BY <1>0, TextType
<1>3. 0 \in S
  <2>1. Text(v, Len(s)) = Text(s, Len(s))
    BY SMTT(30), <1>0, <1>1, TextAgrees
  <2>2. Text(u, 0) = <<>>
    BY <1>0, TextRec
  <2> QED
    BY <1>0, <1>2, <2>1, <2>2, ConcatEmptySeq
<1>4. ASSUME NEW n \in 1..Len(u), n - 1 \in S PROVE n \in S
  <2>1. /\ Text(v, Len(s) + (n - 1)) = Text(s, Len(s)) \o Text(u, n - 1)
        /\ Len(s) + n \in 1..Len(v) /\ (Len(s) + n) - 1 = Len(s) + (n - 1)
        /\ v[Len(s) + n] = u[n]
    BY <1>0, <1>4
  <2>2. Text(v, Len(s) + n) = IF u[n].type = "text_delta"
                              THEN Append(Text(v, Len(s) + (n - 1)), u[n].sequence)
                              ELSE Text(v, Len(s) + (n - 1))
    <3>1. Len(v) \in Nat
      BY <1>0
    <3> DEFINE m == Len(s) + n
    <3>2. m \in 1..Len(v) /\ m - 1 = Len(s) + (n - 1) /\ v[m] = u[n]
      BY <2>1
    <3> HIDE DEF m
    <3>3. Text(v, m) = IF v[m].type = "text_delta" THEN Append(Text(v, m - 1), v[m].sequence)
                       ELSE Text(v, m - 1)
      BY <3>1, <3>2, TextRec
    <3> QED
      BY <3>2, <3>3 DEF m
  <2>3. Text(u, n) = IF u[n].type = "text_delta" THEN Append(Text(u, n - 1), u[n].sequence)
                     ELSE Text(u, n - 1)
    BY <1>0, TextRec
  <2>4. u[n].sequence \in Int /\ Text(u, n - 1) \in Seq(Int) /\ Text(s, Len(s)) \in Seq(Int)
    BY <1>2 DEF Items
  <2>5. Append(Text(s, Len(s)) \o Text(u, n - 1), u[n].sequence)
          = Text(s, Len(s)) \o Append(Text(u, n - 1), u[n].sequence)
    BY <2>4, AppendJoins
  <2>6. Text(v, Len(s) + n) = Text(s, Len(s)) \o Text(u, n)
    <3>1. CASE u[n].type = "text_delta"
      BY <2>1, <2>2, <2>3, <2>5, <3>1
    <3>2. CASE u[n].type # "text_delta"
      BY <2>1, <2>2, <2>3, <3>2
    <3> QED
      BY <3>1, <3>2
  <2> QED
    BY <2>6
<1> HIDE DEF S
<1>5. \A n \in 0..Len(u) : n \in S
  BY <1>0, <1>3, <1>4, UpTo
<1>6. Len(u) \in S
  BY <1>0, <1>5
<1> QED
  BY <1>0, <1>6, TextIs DEF S, v

-----------------------------------------------------------------------------
(* The generator's proofs speak of P, the delivery of Gen: they are one.   *)

\* The operations of the builder.
LEMMA SameOperators ==
  /\ \A b : P!Raise(b) = Gen!Raise(b)
  /\ \A b, t, n : P!Emit(b, t, n) = Gen!Emit(b, t, n)
  /\ \A b : P!MessageStart(b) = Gen!MessageStart(b)
  /\ \A b, k : P!BlockStart(b, k) = Gen!BlockStart(b, k)
  /\ \A b, k : P!BlockDelta(b, k) = Gen!BlockDelta(b, k)
  /\ \A b, k : P!BlockEnd(b, k) = Gen!BlockEnd(b, k)
  /\ \A b : P!MessageEnd(b) = Gen!MessageEnd(b)
  /\ \A b : P!ErrorEnd(b) = Gen!ErrorEnd(b)
  /\ \A b : P!CloseBlocks(b) = Gen!CloseBlocks(b)
  /\ \A b, c : P!Forward(b, c) = Gen!Forward(b, c)
  /\ \A b, c : P!Conclude(b, c) = Gen!Conclude(b, c)
  /\ \A b, n : P!Announce(b, n) = Gen!Announce(b, n)
  /\ \A f : P!Accumulate(f) = Gen!Accumulate(f)
  /\ \A c : P!Named(c) = Gen!Named(c)
<1>1. \A b : P!Raise(b) = Gen!Raise(b)
  BY DEF P!Raise, Gen!Raise
<1>2. \A b, t, n : P!Emit(b, t, n) = Gen!Emit(b, t, n)
  BY <1>1 DEF P!Emit, Gen!Emit, P!Terminal, Gen!Terminal
<1>3. \A b : P!MessageStart(b) = Gen!MessageStart(b)
  BY <1>2 DEF P!MessageStart, Gen!MessageStart
<1>4. \A b, k : P!BlockStart(b, k) = Gen!BlockStart(b, k)
  BY <1>2 DEF P!BlockStart, Gen!BlockStart, P!StartOf, Gen!StartOf
<1>5. \A b, k : P!BlockDelta(b, k) = Gen!BlockDelta(b, k)
  BY <1>2, <1>4 DEF P!BlockDelta, Gen!BlockDelta, P!DeltaOf, Gen!DeltaOf
<1>6. \A b, k : P!BlockEnd(b, k) = Gen!BlockEnd(b, k)
  BY <1>2 DEF P!BlockEnd, Gen!BlockEnd, P!EndOf, Gen!EndOf
<1>7. \A b : P!MessageEnd(b) = Gen!MessageEnd(b)
  BY <1>2, <1>1 DEF P!MessageEnd, Gen!MessageEnd
<1>8. \A b : P!ErrorEnd(b) = Gen!ErrorEnd(b)
  BY <1>2 DEF P!ErrorEnd, Gen!ErrorEnd
<1>9. \A b : P!CloseBlocks(b) = Gen!CloseBlocks(b)
  BY <1>6 DEF P!CloseBlocks, Gen!CloseBlocks
<1>10. \A b, c : P!Forward(b, c) = Gen!Forward(b, c)
  BY <1>2, <1>5 DEF P!Forward, Gen!Forward
<1>11. \A b, c : P!Conclude(b, c) = Gen!Conclude(b, c)
  BY <1>2, <1>9, <1>7 DEF P!Conclude, Gen!Conclude
<1>12. \A b, n : P!Announce(b, n) = Gen!Announce(b, n)
  BY <1>2 DEF P!Announce, Gen!Announce
<1>13. \A f : P!Accumulate(f) = Gen!Accumulate(f)
  BY DEF P!Accumulate, Gen!Accumulate
<1>14. \A c : P!Named(c) = Gen!Named(c)
  BY DEF P!Named, Gen!Named
<1> QED
  BY <1>1, <1>2, <1>3, <1>4, <1>5, <1>6, <1>7, <1>8, <1>9, <1>10, <1>11, <1>12, <1>13, <1>14

\* The steps.
LEMMA SameGenerator == Gen!Generator <=> P!Generator
<1>1. Gen!Prepare <=> P!Prepare
  BY SameOperators DEF Gen!Prepare, P!Prepare
<1>2. Gen!PrepareFails <=> P!PrepareFails
  BY SameOperators DEF Gen!PrepareFails, P!PrepareFails
<1>3. Gen!BeginRound <=> P!BeginRound
  BY SameOperators DEF Gen!BeginRound, P!BeginRound, Gen!NoCalls, P!NoCalls
<1>4. Gen!RoundsExhausted <=> P!RoundsExhausted
  BY SameOperators DEF Gen!RoundsExhausted, P!RoundsExhausted
<1>5. \A c : Gen!ReadChunk(c) <=> P!ReadChunk(c)
  BY SameOperators DEF Gen!ReadChunk, P!ReadChunk
<1>6. Gen!StreamEnds <=> P!StreamEnds
  BY SameOperators DEF Gen!StreamEnds, P!StreamEnds
<1>7. Gen!StreamFails <=> P!StreamFails
  BY SameOperators DEF Gen!StreamFails, P!StreamFails
<1>8. Gen!DropAnonymousCalls <=> P!DropAnonymousCalls
  BY SameOperators DEF Gen!DropAnonymousCalls, P!DropAnonymousCalls
<1>9. Gen!StartTools <=> P!StartTools
  BY SameOperators DEF Gen!StartTools, P!StartTools, Gen!Cardinality, P!Cardinality
<1>10. Gen!BadArguments <=> P!BadArguments
  BY SameOperators DEF Gen!BadArguments, P!BadArguments, Gen!Cardinality, P!Cardinality
<1>11. Gen!FinishTools <=> P!FinishTools
  BY SameOperators DEF Gen!FinishTools, P!FinishTools, Gen!Cardinality, P!Cardinality
<1>12. Gen!NoTools <=> P!NoTools
  BY SameOperators DEF Gen!NoTools, P!NoTools
<1> QED
  BY <1>1, <1>2, <1>3, <1>4, <1>5, <1>6, <1>7, <1>8, <1>9, <1>10, <1>11, <1>12 DEF Gen!Generator, P!Generator

\* The start.
LEMMA SameStart == Gen!Init <=> P!Init
BY DEF Gen!Init, P!Init, Gen!NewBuilder, P!NewBuilder, Gen!NoCalls, P!NoCalls

\* The bound on the streams of the provider.
LEMMA SameBound == Gen!ProviderStreamsBounded <=> P!ProviderStreamsBounded
BY DEF Gen!ProviderStreamsBounded, P!ProviderStreamsBounded

\* What the proofs assume is assumed here.
LEMMA Assumed == P!ConstantsAssumption
BY DeliveryAssumption DEF Gen!ConstantsAssumption, P!ConstantsAssumption, Gen!Chunk, P!Chunk,
   Gen!Fragments, P!Fragments, Gen!Finish, P!Finish, Gen!IsFiniteSet, P!IsFiniteSet

\* What a step of the generator keeps to, from its own proofs.
LEMMA GeneratorStarts == Gen!Init => P!IInv /\ P!BoundInv
BY SameStart, Assumed, P!InvInit, P!BoundInit

\* Every step of the generator keeps its invariant, and what it has sent.
LEMMA GeneratorSteps ==
  /\ P!IInv /\ Gen!Generator => P!IInv' /\ P!Keeps(builder, builder')
  /\ P!IInv /\ generator' = generator => P!IInv'
<1>1. P!IInv /\ [P!Next]_(P!vars) => P!IInv' /\ P!Keeps(builder, builder')
  BY Assumed, P!Step
<1>2. Gen!Generator => [P!Next]_(P!vars)
  BY SameGenerator DEF P!Next
<1>3. generator' = generator => [P!Next]_(P!vars)
  BY DEF generator, P!vars
<1> QED
  BY <1>1, <1>2, <1>3

\* And the bound on its streams.
LEMMA GeneratorBounded ==
  /\ P!IInv /\ P!BoundInv /\ Gen!Generator => P!BoundInv'
  /\ P!IInv /\ P!BoundInv /\ generator' = generator => P!BoundInv'
  /\ P!IInv /\ P!BoundInv => Gen!ProviderStreamsBounded
<1>1. P!IInv /\ P!BoundInv /\ [P!Next]_(P!vars) => P!BoundInv'
  BY Assumed, P!BoundStep
<1>2. Gen!Generator => [P!Next]_(P!vars)
  BY SameGenerator DEF P!Next
<1>3. generator' = generator => [P!Next]_(P!vars)
  BY DEF generator, P!vars
<1>4. P!IInv /\ P!BoundInv => P!ProviderStreamsBounded
  BY Assumed, P!BoundHolds
<1> QED
  BY <1>1, <1>2, <1>3, <1>4, SameBound

-----------------------------------------------------------------------------
(* The controller. *)

Frame == [kind : {"event", "error", "done"}, type : P!EventType \cup {"done"}, sequence : Int]

ControllerType ==
  /\ lastSequence \in Int
  /\ ctlTerminal \in BOOLEAN /\ sawCanonical \in BOOLEAN /\ started \in BOOLEAN
  /\ messageId \in {"none", "m"} /\ requestId = "none"
  /\ open \subseteq Ctl!Block /\ currentToolId = "none"
  /\ buffer \in [Ctl!Block -> Seq(Int)] /\ shown \in [Ctl!Block -> Seq(Int)]
  /\ outcomes \in Seq({"end", "error"})

\* The text the page has received.
OnPage == shown["text"] \o buffer["text"]

\* What drawing does to the text.
TextDrawn ==
  /\ buffer' \in [Ctl!Block -> Seq(Int)] /\ shown' \in [Ctl!Block -> Seq(Int)]
  /\ OnPage' = OnPage
  /\ buffer["text"] = <<>> => buffer'["text"] = <<>> /\ shown'["text"] = shown["text"]

\* Drawing moves text from the buffer to the page, in order.
LEMMA DrawsText ==
  ASSUME ControllerType, NEW B, Ctl!Draw(B)
  PROVE  TextDrawn /\ ("text" \in B => buffer'["text"] = <<>>)
<1>1. \A b \in Ctl!Block : shown[b] \in Seq(Int) /\ buffer[b] \in Seq(Int)
  BY DEF ControllerType
<1>2. <<>> \in Seq(Int) /\ \A p, q \in Seq(Int) : p \o q \in Seq(Int)
  OBVIOUS
<1>3. "text" \in Ctl!Block /\ Ctl!Drawable("text")
  BY DEF Ctl!Block, Ctl!Drawable
<1>4. \A b \in Ctl!Block :
        /\ shown'[b]  = IF b \in B /\ Ctl!Drawable(b) THEN shown[b] \o buffer[b] ELSE shown[b]
        /\ buffer'[b] = IF b \in B /\ Ctl!Drawable(b) THEN <<>> ELSE buffer[b]
  BY DEF Ctl!Draw
<1>5. \A b \in Ctl!Block : shown'[b] \in Seq(Int) /\ buffer'[b] \in Seq(Int)
  BY <1>1, <1>2, <1>4
<1>6. shown' \in [Ctl!Block -> Seq(Int)] /\ buffer' \in [Ctl!Block -> Seq(Int)]
  <2>1. shown' = [b \in Ctl!Block |-> shown'[b]] /\ buffer' = [b \in Ctl!Block |-> buffer'[b]]
    BY DEF Ctl!Draw
  <2> QED
    BY <1>5, <2>1
<1>7. OnPage \in Seq(Int) /\ OnPage \o <<>> = OnPage /\ shown["text"] \o <<>> = shown["text"]
  BY <1>1, <1>2, <1>3, ConcatEmptySeq DEF OnPage
<1>8. OnPage' = OnPage
  <2>1. CASE "text" \in B
    BY <1>3, <1>4, <1>7, <2>1 DEF OnPage
  <2>2. CASE "text" \notin B
    BY <1>3, <1>4, <2>2 DEF OnPage
  <2> QED
    BY <2>1, <2>2
<1> QED
  BY <1>3, <1>4, <1>6, <1>7, <1>8 DEF TextDrawn

\* The event is one the controller acts on.
Due(f) ==
  /\ ~ctlTerminal /\ f.sequence > lastSequence
  /\ started \/ f.type = "message_start"

\* What the controller makes of an event.
Handles(f) ==
  /\ ControllerType' /\ sawCanonical'
  /\ f.type # "text_delta" => OnPage' = OnPage
  /\ f.type = "text_delta" /\ Due(f) /\ "text" \in open =>
       shown'["text"] = shown["text"] /\ buffer'["text"] = Append(buffer["text"], f.sequence)
  /\ Due(f) => /\ lastSequence' = f.sequence
               /\ started' = (started \/ f.type = "message_start")
               /\ ctlTerminal' = (f.type \in {"message_end", "error"})
               /\ "text" \in open' <=> f.type = "text_start" \/ (f.type # "text_end" /\ "text" \in open)
  /\ ctlTerminal => ctlTerminal' /\ (buffer["text"] = <<>> => buffer'["text"] = <<>>)
  /\ ~ctlTerminal /\ ctlTerminal' =>
       buffer'["text"] = <<>> \/ (outcomes' # outcomes /\ Last(outcomes') = "error")

\* The parts that an accepted event may change.
Acts(f) ==
  /\ open' \subseteq Ctl!Block /\ currentToolId' = "none"
  /\ buffer' \in [Ctl!Block -> Seq(Int)] /\ shown' \in [Ctl!Block -> Seq(Int)]
  /\ outcomes' \in Seq({"end", "error"})
  /\ f.type # "text_delta" => OnPage' = OnPage
  /\ f.type = "text_delta" /\ "text" \in open =>
       shown'["text"] = shown["text"] /\ buffer'["text"] = Append(buffer["text"], f.sequence)
  /\ started' = (started \/ f.type = "message_start")
  /\ ctlTerminal' = (ctlTerminal \/ f.type \in {"message_end", "error"})
  /\ "text" \in open' <=> f.type = "text_start" \/ (f.type # "text_end" /\ "text" \in open)
  /\ ctlTerminal /\ f.type = "error" => buffer'["text"] = <<>>
  /\ ~ctlTerminal /\ ctlTerminal' =>
       buffer'["text"] = <<>> \/ (outcomes' # outcomes /\ Last(outcomes') = "error")

\* How a frame looks to the controller.
LEMMA SeenFields ==
  ASSUME NEW f \in Frame
  PROVE  /\ Seen(f).sequence = f.sequence
         /\ Seen(f).message = "m" /\ Seen(f).request = "none" /\ Seen(f).tool = "none"
         /\ Seen(f).empty = (f.type = "tool_input_delta")
         /\ Seen(f).type = IF f.type \in {"tool_result", "citation", "artifact", "usage"}
                           THEN "other" ELSE f.type
BY DEF Seen

\* An outcome that is reported.
LEMMA Reported ==
  ASSUME outcomes \in Seq({"end", "error"}), NEW o \in {"end", "error"}, outcomes' = Append(outcomes, o)
  PROVE  /\ outcomes' \in Seq({"end", "error"})
         /\ outcomes' # outcomes /\ Last(outcomes') = o
<1>1. Len(outcomes') = Len(outcomes) + 1 /\ outcomes'[Len(outcomes) + 1] = o
  OBVIOUS
<1> QED
  BY <1>1 DEF Last

\* An accepted event, by its type.
LEMMA Acted ==
  ASSUME ControllerType, NEW f \in Frame,
         \/ Ctl!MessageStart(Seen(f)) \/ Ctl!BlockStart(Seen(f)) \/ Ctl!ToolStart(Seen(f))
         \/ Ctl!Delta(Seen(f)) \/ Ctl!BlockEnd(Seen(f)) \/ Ctl!MessageEnd(Seen(f))
         \/ Ctl!Error(Seen(f)) \/ Ctl!Other(Seen(f))
  PROVE  Acts(f)
<1> DEFINE e == Seen(f)
<1>1. /\ e.sequence = f.sequence /\ e.tool = "none" /\ e.empty = (f.type = "tool_input_delta")
      /\ e.type = IF f.type \in {"tool_result", "citation", "artifact", "usage"} THEN "other" ELSE f.type
  BY SeenFields
<1> HIDE DEF e
<1>2. f.sequence \in Int /\ f.type \in P!EventType \cup {"done"}
  BY DEF Frame
<1>3. /\ open \subseteq Ctl!Block /\ currentToolId = "none"
      /\ buffer \in [Ctl!Block -> Seq(Int)] /\ shown \in [Ctl!Block -> Seq(Int)]
      /\ outcomes \in Seq({"end", "error"}) /\ ctlTerminal \in BOOLEAN /\ started \in BOOLEAN
  BY DEF ControllerType
<1>4. CASE Ctl!MessageStart(e)
  BY <1>1, <1>3, <1>4 DEF Ctl!MessageStart, Ctl!tools, Ctl!drawing, Acts, OnPage
<1>5. CASE Ctl!BlockStart(e)
  <2>1. PICK b \in {"text", "reasoning"} : e.type = Ctl!StartOf[b] /\ open' = open \cup {b}
    BY <1>5 DEF Ctl!BlockStart
  <2>2. e.type = (IF b = "text" THEN "text_start" ELSE "reasoning_start") /\ b \in Ctl!Block
    BY <2>1 DEF Ctl!StartOf, Ctl!Block
  <2>3. f.type = e.type
    BY <1>1, <2>2
  <2> QED
    BY <1>3, <1>5, <2>1, <2>2, <2>3 DEF Ctl!BlockStart, Ctl!tools, Ctl!drawing, Acts, OnPage
<1>6. CASE Ctl!ToolStart(e)
  <2>1. f.type = "tool_start" /\ open' \subseteq Ctl!Block /\ currentToolId' = "none"
          /\ ("text" \in open' <=> "text" \in open)
    BY <1>1, <1>3, <1>6 DEF Ctl!ToolStart, Ctl!tools, Ctl!Block
  <2> QED
    BY <1>3, <1>6, <2>1 DEF Ctl!ToolStart, Ctl!drawing, Acts, OnPage
<1>7. CASE Ctl!Delta(e)
  <2>1. PICK b \in Ctl!Block : e.type = Ctl!DeltaOf[b]
                /\ IF b \in open /\ ~e.empty THEN Ctl!Buffer(b, e.sequence) ELSE UNCHANGED Ctl!drawing
    BY <1>7 DEF Ctl!Delta
  <2>2. /\ f.type = (IF b = "text" THEN "text_delta"
                     ELSE IF b = "reasoning" THEN "reasoning_delta" ELSE "tool_input_delta")
        /\ "text" \in Ctl!Block
    BY <1>1, <2>1 DEF Ctl!DeltaOf, Ctl!Block
  <2>3. /\ UNCHANGED <<ctlTerminal, started, open, currentToolId, outcomes>>
    BY <1>7 DEF Ctl!Delta, Ctl!tools
  <2>4. CASE b \in open /\ ~e.empty
    <3>1. buffer' = [buffer EXCEPT ![b] = Append(@, f.sequence)] /\ shown' = shown
      BY <1>1, <2>1, <2>4 DEF Ctl!Buffer
    <3>2. Append(buffer[b], f.sequence) \in Seq(Int)
      BY <1>2, <1>3, AppendProperties
    <3>3. buffer' \in [Ctl!Block -> Seq(Int)]
      BY <1>3, <3>1, <3>2
    <3>4. b = "text" => buffer'["text"] = Append(buffer["text"], f.sequence)
      BY <1>3, <3>1
    <3>5. b # "text" => buffer'["text"] = buffer["text"]
      BY <1>3, <2>2, <3>1
    <3> QED
      BY <1>3, <2>2, <2>3, <3>1, <3>3, <3>4, <3>5 DEF Acts, OnPage
  <2>5. CASE ~(b \in open /\ ~e.empty)
    <3>1. UNCHANGED <<buffer, shown>>
      BY <2>1, <2>5 DEF Ctl!drawing
    <3>2. ~(f.type = "text_delta" /\ "text" \in open)
      BY <1>1, <2>2, <2>5
    <3> QED
      BY <1>3, <2>2, <2>3, <3>1, <3>2 DEF Acts, OnPage
  <2> QED
    BY <2>4, <2>5
<1>8. CASE Ctl!BlockEnd(e)
  <2>1. PICK b \in Ctl!Block : /\ e.type = Ctl!EndOf[b]
                               /\ open' = open \ {b}
                               /\ currentToolId' = IF b = "tool" THEN "none" ELSE currentToolId
                               /\ IF b \in open THEN Ctl!Flush ELSE UNCHANGED Ctl!drawing
    BY <1>8 DEF Ctl!BlockEnd
  <2>2. f.type = (IF b = "text" THEN "text_end"
                  ELSE IF b = "reasoning" THEN "reasoning_end" ELSE "tool_end")
    BY <1>1, <2>1 DEF Ctl!EndOf, Ctl!Block
  <2>3. UNCHANGED <<ctlTerminal, started, outcomes>>
    BY <1>8 DEF Ctl!BlockEnd
  <2>4. /\ buffer' \in [Ctl!Block -> Seq(Int)] /\ shown' \in [Ctl!Block -> Seq(Int)]
        /\ OnPage' = OnPage
    <3>1. CASE b \in open
      BY <2>1, <3>1, DrawsText DEF Ctl!Flush, TextDrawn
    <3>2. CASE b \notin open
      BY <1>3, <2>1, <3>2 DEF Ctl!drawing, OnPage
    <3> QED
      BY <3>1, <3>2
  <2>5. open' \subseteq Ctl!Block /\ currentToolId' = "none"
          /\ ("text" \in open' <=> b # "text" /\ "text" \in open)
    BY <1>3, <2>1
  <2> QED
    BY <1>3, <2>2, <2>3, <2>4, <2>5 DEF Acts
<1>9. CASE Ctl!MessageEnd(e)
  <2>1. f.type = "message_end" /\ ctlTerminal' = TRUE /\ UNCHANGED <<started, open, currentToolId>>
    BY <1>1, <1>9 DEF Ctl!MessageEnd, Ctl!tools
  <2>2. \/ outcomes' = Append(outcomes, "error") /\ UNCHANGED <<buffer, shown>>
        \/ outcomes' = Append(outcomes, "end") /\ Ctl!Draw(Ctl!Block)
    BY <1>9 DEF Ctl!MessageEnd, Ctl!Flush, Ctl!drawing
  <2>3. /\ buffer' \in [Ctl!Block -> Seq(Int)] /\ shown' \in [Ctl!Block -> Seq(Int)]
        /\ OnPage' = OnPage
        /\ outcomes' \in Seq({"end", "error"})
        /\ buffer'["text"] = <<>> \/ (outcomes' # outcomes /\ Last(outcomes') = "error")
    <3>1. CASE outcomes' = Append(outcomes, "error") /\ UNCHANGED <<buffer, shown>>
      BY <1>3, <3>1, Reported DEF OnPage
    <3>2. CASE outcomes' = Append(outcomes, "end") /\ Ctl!Draw(Ctl!Block)
      <4>1. "text" \in Ctl!Block
        BY DEF Ctl!Block
      <4>2. TextDrawn /\ buffer'["text"] = <<>>
        BY <3>2, <4>1, DrawsText
      <4> QED
        BY <1>3, <3>2, <4>2, Reported DEF TextDrawn
    <3> QED
      BY <2>2, <3>1, <3>2
  <2> QED
    BY <1>3, <2>1, <2>3 DEF Acts
<1>10. CASE Ctl!Error(e)
  <2>1. f.type = "error" /\ ctlTerminal' = TRUE /\ UNCHANGED <<started, open, currentToolId>>
    BY <1>1, <1>10 DEF Ctl!Error, Ctl!tools
  <2>2. outcomes' = Append(outcomes, "error") /\ Ctl!Draw(Ctl!Block)
    BY <1>10 DEF Ctl!Error, Ctl!Flush
  <2>3. "text" \in Ctl!Block
    BY DEF Ctl!Block
  <2>4. TextDrawn /\ buffer'["text"] = <<>>
    BY <2>2, <2>3, DrawsText
  <2>5. outcomes' \in Seq({"end", "error"})
    BY <1>3, <2>2, Reported
  <2> QED
    BY <1>3, <2>1, <2>4, <2>5 DEF Acts, TextDrawn
<1>11. CASE Ctl!Other(e)
  <2>1. f.type \notin {"message_start", "message_end", "error", "text_start", "text_delta", "text_end"}
    BY <1>1, <1>11 DEF Ctl!Other
  <2> QED
    BY <1>3, <1>11, <2>1 DEF Ctl!Other, Ctl!tools, Ctl!drawing, Acts, OnPage
<1> QED
  BY <1>4, <1>5, <1>6, <1>7, <1>8, <1>9, <1>10, <1>11 DEF e

\* Every event is handled in one of these ways.
LEMMA Handled ==
  ASSUME ControllerType, NEW f \in Frame, Ctl!HandleCanonical(Seen(f))
  PROVE  Handles(f)
<1> DEFINE e == Seen(f)
<1>1. /\ e.sequence = f.sequence /\ e.message = "m" /\ e.request = "none"
      /\ e.type = "error" <=> f.type = "error"
      /\ e.type = "message_start" <=> f.type = "message_start"
  BY SeenFields
<1>2. sawCanonical' = TRUE /\ (Ctl!Ignore(e) \/ Ctl!Accept(e))
  BY DEF Ctl!HandleCanonical
<1> HIDE DEF e
<1>3. /\ messageId \in {"none", "m"} /\ requestId = "none"
      /\ lastSequence \in Int /\ ctlTerminal \in BOOLEAN /\ started \in BOOLEAN
      /\ f.sequence \in Int
  BY DEF ControllerType, Frame
<1>4. /\ Ctl!Matches(messageId, e.message) /\ Ctl!Matches(requestId, e.request)
      /\ Ctl!Learn(messageId, e.message) = "m" /\ Ctl!Learn(requestId, e.request) = "none"
  BY <1>1, <1>3 DEF Ctl!Matches, Ctl!Learn
<1>5. Ctl!Foreign(e) <=> \/ ctlTerminal /\ f.type # "error"
                         \/ ~started /\ f.type # "message_start"
  BY <1>1, <1>4 DEF Ctl!Foreign
<1>6. CASE Ctl!Ignore(e)
  <2>1. /\ messageId' \in {"none", "m"} /\ requestId' = "none"
        /\ UNCHANGED <<lastSequence, ctlTerminal, started, open, currentToolId, buffer, shown, outcomes>>
    BY <1>3, <1>4, <1>6 DEF Ctl!Ignore, Ctl!identity, Ctl!progress, Ctl!tools, Ctl!drawing
  <2>2. ~Due(f)
    BY <1>1, <1>3, <1>4, <1>5, <1>6 DEF Ctl!Ignore, Due
  <2>3. ControllerType' /\ OnPage' = OnPage
    BY <1>2, <2>1 DEF ControllerType, OnPage
  <2> QED
    BY <1>2, <2>1, <2>2, <2>3 DEF Handles
<1>7. CASE Ctl!Accept(e)
  <2>1. /\ ~Ctl!Foreign(e) /\ messageId' = "m" /\ requestId' = "none" /\ lastSequence' = f.sequence
    BY <1>1, <1>4, <1>7 DEF Ctl!Accept
  <2>2. Acts(f)
    BY <1>7, Acted DEF Ctl!Accept, e
  <2>3. ControllerType'
    BY <1>2, <1>3, <2>1, <2>2 DEF ControllerType, Acts
  <2>4. ctlTerminal => f.type = "error"
    BY <1>5, <2>1
  <2> QED
    BY <1>2, <1>3, <2>1, <2>2, <2>3, <2>4 DEF Handles, Acts, Due
<1> QED
  BY <1>2, <1>6, <1>7

-----------------------------------------------------------------------------
(* What has been sent, and which of it has been read. *)

\* A text block is open after the first n events.
TextOpen(s, n) ==
  \E j \in 1..n : s[j].type = "text_start" /\ \A i \in (j + 1)..n : s[i].type # "text_end"

\* Whether a text block is open after one more event.
LEMMA TextOpenNext ==
  ASSUME NEW s, NEW n \in Nat
  PROVE  TextOpen(s, n + 1) <=>
           \/ s[n + 1].type = "text_start"
           \/ s[n + 1].type # "text_end" /\ TextOpen(s, n)
<1>1. ASSUME s[n + 1].type = "text_start" PROVE TextOpen(s, n + 1)
  <2>1. n + 1 \in 1..(n + 1) /\ \A i \in (n + 1 + 1)..(n + 1) : s[i].type # "text_end"
    OBVIOUS
  <2> QED
    BY <1>1, <2>1 DEF TextOpen
<1>2. ASSUME s[n + 1].type # "text_end", TextOpen(s, n) PROVE TextOpen(s, n + 1)
  <2>1. PICK j \in 1..n : s[j].type = "text_start" /\ \A i \in (j + 1)..n : s[i].type # "text_end"
    BY <1>2 DEF TextOpen
  <2>2. \A i \in (j + 1)..(n + 1) : i \in (j + 1)..n \/ i = n + 1
    OBVIOUS
  <2>3. j \in 1..(n + 1) /\ \A i \in (j + 1)..(n + 1) : s[i].type # "text_end"
    BY <1>2, <2>1, <2>2
  <2> QED
    BY <2>1, <2>3 DEF TextOpen
<1>3. ASSUME s[n + 1].type # "text_start", TextOpen(s, n + 1)
      PROVE  s[n + 1].type # "text_end" /\ TextOpen(s, n)
  <2>1. PICK j \in 1..(n + 1) : s[j].type = "text_start" /\ \A i \in (j + 1)..(n + 1) : s[i].type # "text_end"
    BY <1>3 DEF TextOpen
  <2>2. j \in 1..n /\ n + 1 \in (j + 1)..(n + 1) /\ \A i \in (j + 1)..n : i \in (j + 1)..(n + 1)
    BY <1>3, <2>1
  <2> QED
    BY <2>1, <2>2 DEF TextOpen
<1> QED
  BY <1>1, <1>2, <1>3

\* TextOpen looks at the first n events only.
LEMMA TextOpenAgrees ==
  ASSUME NEW s, NEW u, NEW n \in Nat, \A i \in 1..n : s[i] = u[i]
  PROVE  TextOpen(s, n) <=> TextOpen(u, n)
<1>1. \A j \in 1..n : \A i \in (j + 1)..n : i \in 1..n
  OBVIOUS
<1> QED
  BY <1>1 DEF TextOpen

\* What the page may rely on in what is sent.
Proper(s) ==
  /\ s \in Seq(P!Event)
  /\ \A i \in 1..Len(s) : /\ s[i].sequence = i - 1
                          /\ s[i].type = "message_start" <=> i = 1
                          /\ s[i].type \in {"message_end", "error"} => i = Len(s)
                          /\ s[i].type = "text_delta" => TextOpen(s, i - 1)

\* What the generator has sent is well formed.
LEMMA SentProper == P!IInv => Proper(builder.sent)
<1> SUFFICES ASSUME P!IInv PROVE Proper(builder.sent)
  OBVIOUS
<1> DEFINE s == builder.sent
<1>1. P!Sound(builder)
  BY Assumed, P!InvSound
<1>2. s \in Seq(P!Event)
  BY <1>1 DEF P!Sound, P!Builder
<1>3. P!Contiguous(s) /\ P!StartsOnce(s) /\ P!EndsOnce(s) /\ P!Bracketed(s)
  BY <1>1 DEF P!Sound
<1> HIDE DEF s
<1>4. DOMAIN s = 1..Len(s)
  BY <1>2
<1>5. ASSUME NEW i \in 1..Len(s), s[i].type = "text_delta" PROVE TextOpen(s, i - 1)
  <2>1. "text" \in P!Block /\ P!DeltaOf["text"] = "text_delta"
          /\ P!StartOf["text"] = "text_start" /\ P!EndOf["text"] = "text_end"
    BY DEF P!Block, P!DeltaOf, P!StartOf, P!EndOf
  <2>2. \A k \in P!Block : s[i].type = P!DeltaOf[k] => P!IsOpen(s, k, i - 1)
    BY <1>3, <1>4 DEF P!Bracketed
  <2>3. s[i].type = P!DeltaOf["text"]
    BY <1>5, <2>1, Zenon
  <2>4. P!IsOpen(s, "text", i - 1)
    BY ZenonT(30), <2>1, <2>2, <2>3
  <2> QED
    BY <2>1, <2>4 DEF P!IsOpen, TextOpen
<1>6. \A i \in 1..Len(s) : /\ s[i].sequence = i - 1
                           /\ s[i].type = "message_start" <=> i = 1
                           /\ s[i].type \in {"message_end", "error"} => i = Len(s)
  BY <1>3, <1>4 DEF P!Contiguous, P!StartsOnce, P!EndsOnce, P!Terminal
<1>7. Proper(s)
  BY <1>2, <1>5, <1>6 DEF Proper
<1> QED
  BY <1>7 DEF s

\* And what it sends next.
LEMMA SentProperNext == P!IInv' => Proper(builder'.sent)
<1>1. (P!IInv => Proper(builder.sent))'
  BY SentProper, PTL
<1> QED
  BY <1>1

\* Its events are items.
LEMMA EventItems ==
  ASSUME NEW s \in Seq(P!Event)
  PROVE  /\ Items(s)
         /\ \A i \in 1..Len(s) : /\ s[i].type \in P!EventType /\ s[i].sequence \in Nat
                                 /\ EventFrame(s[i]) \in Frame
<1>1. \A i \in 1..Len(s) : s[i] \in P!Event
  OBVIOUS
<1>2. \A i \in 1..Len(s) : s[i].type \in P!EventType /\ s[i].sequence \in Nat
  BY <1>1 DEF P!Event
<1>3. \A i \in 1..Len(s) : EventFrame(s[i]) \in Frame
  BY <1>2 DEF EventFrame, Frame
<1> QED
  BY <1>2, <1>3 DEF Items

\* And so are the frames on the wire.
LEMMA FrameItems ==
  ASSUME NEW s \in Seq(Frame)
  PROVE  /\ Items(s)
         /\ \A i \in 1..Len(s) : s[i] \in Frame
<1>1. \A i \in 1..Len(s) : s[i] \in Frame
  OBVIOUS
<1> QED
  BY <1>1 DEF Items, Frame

\* What has been sent stays, and is followed by what is yielded.
LEMMA Yields ==
  ASSUME P!IInv, Gen!Generator
  PROVE  /\ P!IInv' /\ builder.sent \in Seq(P!Event) /\ builder'.sent \in Seq(P!Event)
         /\ Yielded \in Seq(P!Event)
         /\ Len(builder'.sent) = Len(builder.sent) + Len(Yielded)
         /\ \A i \in 1..Len(builder.sent) : builder'.sent[i] = builder.sent[i]
         /\ \A i \in 1..Len(Yielded) : Yielded[i] = builder'.sent[Len(builder.sent) + i]
         /\ builder'.sent = builder.sent \o Yielded
<1>1. P!IInv' /\ P!Keeps(builder, builder')
  BY GeneratorSteps
<1> DEFINE s == builder.sent
           t == builder'.sent
           y == Yielded
<1>2. s \in Seq(P!Event) /\ t \in Seq(P!Event)
  <2>1. Proper(s) /\ Proper(t)
    BY <1>1, SentProper, SentProperNext
  <2> QED
    BY <2>1 DEF Proper
<1>3. \A i \in DOMAIN s : i \in DOMAIN t /\ t[i] = s[i]
  BY <1>1 DEF P!Keeps
<1>4. y = SubSeq(t, Len(s) + 1, Len(t))
  BY DEF Yielded
<1> HIDE DEF s, t, y
<1>5. /\ Len(s) \in Nat /\ Len(t) \in Nat /\ DOMAIN s = 1..Len(s) /\ DOMAIN t = 1..Len(t)
  BY <1>2
<1>6. Len(s) <= Len(t)
  <2>1. CASE Len(s) = 0
    BY <1>5, <2>1
  <2>2. CASE Len(s) # 0
    <3>1. Len(s) \in DOMAIN s
      BY <1>5, <2>2
    <3> QED
      BY <1>3, <1>5, <3>1
  <2> QED
    BY <2>1, <2>2
<1>7. /\ y \in Seq(P!Event) /\ Len(t) = Len(s) + Len(y)
      /\ \A i \in 1..Len(y) : y[i] = t[Len(s) + i]
  <2>1. \A i \in (Len(s) + 1)..Len(t) : t[i] \in P!Event
    BY <1>2, <1>5
  <2>2. /\ y \in Seq(P!Event)
        /\ Len(y) = IF Len(s) + 1 <= Len(t) THEN Len(t) - (Len(s) + 1) + 1 ELSE 0
        /\ \A i \in 1..(Len(t) - (Len(s) + 1) + 1) : y[i] = t[Len(s) + 1 + i - 1]
    BY <1>2, <1>4, <1>5, <2>1, SubSeqProperties
  <2> DEFINE n == Len(s)
             m == Len(t)
  <2>3. n \in Nat /\ m \in Nat /\ n <= m
    BY <1>5, <1>6
  <2>4. Len(y) = IF n + 1 <= m THEN m - (n + 1) + 1 ELSE 0
    BY <2>2
  <2>5. \A i \in 1..(m - (n + 1) + 1) : y[i] = t[n + 1 + i - 1]
    BY <2>2
  <2> HIDE DEF n, m
  <2>6. Len(y) = m - n
    BY <2>3, <2>4
  <2>7. ASSUME NEW i \in 1..Len(y) PROVE y[i] = t[n + i]
    <3>1. i \in 1..(m - (n + 1) + 1) /\ n + 1 + i - 1 = n + i
      BY <2>3, <2>6
    <3> QED
      BY <2>5, <3>1
  <2>8. m = n + Len(y)
    BY <2>3, <2>6
  <2> QED
    BY <2>2, <2>7, <2>8 DEF n, m
<1>8. t = s \o y
  <2>1. /\ s \o y \in Seq(P!Event) /\ Len(s \o y) = Len(s) + Len(y)
        /\ \A i \in 1..Len(s) + Len(y) : (s \o y)[i] = IF i <= Len(s) THEN s[i] ELSE y[i - Len(s)]
    BY <1>2, <1>7, ConcatProperties
  <2>2. ASSUME NEW i \in 1..Len(t) PROVE t[i] = (s \o y)[i]
    <3>1. CASE i <= Len(s)
      <4>1. i \in DOMAIN s
        BY <1>5, <3>1
      <4> QED
        BY <1>3, <1>7, <2>1, <3>1, <4>1
    <3>2. CASE ~(i <= Len(s))
      <4>1. i - Len(s) \in 1..Len(y) /\ Len(s) + (i - Len(s)) = i
        BY <1>5, <1>7, <3>2
      <4> QED
        BY <1>7, <2>1, <3>2, <4>1
    <3> QED
      BY <3>1, <3>2
  <2> QED
    BY <1>2, <1>7, <2>1, <2>2, SeqEqual
<1>9. \A i \in 1..Len(s) : t[i] = s[i]
  BY <1>3, <1>5
<1> QED
  BY <1>1, <1>2, <1>7, <1>8, <1>9 DEF s, t, y

\* The frames of a sequence of events.
LEMMA FramesOf ==
  ASSUME NEW y \in Seq(P!Event)
  PROVE  /\ Framed(y) \in Seq(Frame)
         /\ Len(Framed(y)) = Len(y) + (IF Fails(y) THEN 1 ELSE 0)
         /\ \A i \in 1..Len(y) : Framed(y)[i] = EventFrame(y[i])
         /\ Fails(y) => Framed(y)[Len(y) + 1] = Legacy("error")
         /\ TextOf(Framed(y)) = TextOf(y)
<1> DEFINE p == [i \in DOMAIN y |-> EventFrame(y[i])]
           l == IF Fails(y) THEN <<Legacy("error")>> ELSE <<>>
           q == p \o l
<1>1. q = Framed(y)
  BY DEF Framed
<1>2. /\ p \in Seq(Frame) /\ Len(p) = Len(y) /\ Len(y) \in Nat
      /\ \A i \in 1..Len(y) : p[i] = EventFrame(y[i])
  <2>1. DOMAIN y = 1..Len(y) /\ Len(y) \in Nat
    OBVIOUS
  <2>2. p = [i \in 1..Len(y) |-> EventFrame(y[i])]
    BY <2>1
  <2>3. \A i \in 1..Len(y) : EventFrame(y[i]) \in Frame
    BY EventItems
  <2> QED
    BY <2>1, <2>2, <2>3
<1>3. /\ l \in Seq(Frame) /\ Len(l) = IF Fails(y) THEN 1 ELSE 0
      /\ Fails(y) => l[1] = Legacy("error")
      /\ TextOf(l) = <<>>
  <2>1. Legacy("error") \in Frame /\ Legacy("error").type = "error"
    <3>1. "error" \in P!EventType
      BY DEF P!EventType, P!Terminal
    <3> QED
      BY <3>1 DEF Legacy, Frame
  <2>2. l \in Seq(Frame) /\ Len(l) = (IF Fails(y) THEN 1 ELSE 0) /\ (Fails(y) => l[1] = Legacy("error"))
    BY <2>1
  <2>3. TextOf(l) = <<>>
    <3>1. Text(l, 0) = <<>>
      BY <2>2, TextRec
    <3>2. Fails(y) => Text(l, 1) = Text(l, 0)
      <4> SUFFICES ASSUME Fails(y) PROVE Text(l, 1) = Text(l, 0)
        OBVIOUS
      <4>1. Len(l) = 1 /\ l[1].type # "text_delta" /\ 1 \in 1..Len(l) /\ Len(l) \in Nat
        BY <2>1, <2>2
      <4> HIDE DEF l
      <4>2. Text(l, 1) = Text(l, 1 - 1)
        BY <4>1, TextRec
      <4> QED
        BY <4>2
    <3> QED
      BY <2>2, <3>1, <3>2, TextIs
  <2> QED
    BY <2>2, <2>3
<1> HIDE DEF p, l
<1>4. /\ q \in Seq(Frame) /\ Len(q) = Len(p) + Len(l)
      /\ \A i \in 1..Len(p) + Len(l) : q[i] = IF i <= Len(p) THEN p[i] ELSE l[i - Len(p)]
  <2>1. p \in Seq(Frame) /\ l \in Seq(Frame)
    BY <1>2, <1>3
  <2> QED
    BY <2>1, ConcatProperties, Zenon
<1>5. \A i \in 1..Len(y) : q[i] = EventFrame(y[i])
  BY <1>2, <1>3, <1>4
<1>6. Fails(y) => q[Len(y) + 1] = Legacy("error")
  BY <1>2, <1>3, <1>4
<1>7. TextOf(q) = TextOf(y)
  <2>1. Items(p) /\ Items(l) /\ Items(y)
    BY <1>2, <1>3, FrameItems, EventItems
  <2>2. TextOf(q) = TextOf(p) \o TextOf(l)
    <3>1. p \in Seq(Frame) /\ l \in Seq(Frame)
      BY <1>2, <1>3
    <3>2. TextOf(p \o l) = TextOf(p) \o TextOf(l)
      BY <2>1, <3>1, TextJoins
    <3> QED
      BY <3>2 DEF q
  <2>3. \A i \in 1..Len(y) : p[i].type = y[i].type /\ p[i].sequence = y[i].sequence
    <3>1. \A e : EventFrame(e).type = e.type /\ EventFrame(e).sequence = e.sequence
      BY DEF EventFrame
    <3> QED
      BY <1>2, <3>1
  <2>4. TextOf(p) = TextOf(y)
    <3>1. Text(p, Len(y)) = Text(y, Len(y))
      BY <1>2, <2>1, <2>3, TextAgrees
    <3> QED
      BY <1>2, <3>1, TextIs
  <2>5. TextOf(p) \in Seq(Int)
    <3>1. Text(p, Len(p)) \in Seq(Int)
      BY <1>2, <2>1, TextType
    <3> QED
      BY <3>1, TextIs
  <2>6. TextOf(p) \o TextOf(l) = TextOf(p)
    BY <1>3, <2>5, ConcatEmptySeq
  <2> QED
    BY <2>2, <2>4, <2>6
<1> HIDE DEF q
<1> QED
  BY <1>1, <1>2, <1>3, <1>4, <1>5, <1>6, <1>7

-----------------------------------------------------------------------------
(* The invariant. *)

DeliveryType ==
  /\ ControllerType
  /\ srv \in {"streaming", "closed"} /\ stored \in BOOLEAN /\ aborted \in BOOLEAN
  /\ page \in {"reading", "leaving"} \cup Settled
  /\ streamError \in {"none", "event", "legacy", "cut", "network"}
  /\ wire \in Seq(Frame)

\* Where a controller is that has read the first k events of s.
At(s, k) ==
  /\ started <=> k > 0
  /\ lastSequence = k - 1
  /\ ctlTerminal <=> k > 0 /\ s[k].type \in {"message_end", "error"}
  /\ "text" \in open <=> TextOpen(s, k)

\* The wire holds the frames of what has been sent after the first k events of s,
\* then, when the response is over, others; until then the controller is at k.
AlignedAt(s, k) ==
  /\ k <= Len(s) /\ Len(wire) >= Len(s) - k
  /\ \A i \in 1..(Len(s) - k) : wire[i] = EventFrame(s[k + i])
  /\ \A i \in (Len(s) - k + 1)..Len(wire) : wire[i].type # "text_delta"
  /\ srv = "streaming" => Len(wire) = Len(s) - k
  /\ k < Len(s) \/ srv = "streaming" => At(s, k)

Aligned == page = "reading" => \E k \in Nat : AlignedAt(builder.sent, k)

\* How the text comes to be complete on the page.
CompleteInv ==
  /\ ~sawCanonical => shown["text"] = <<>> /\ buffer["text"] = <<>>
  /\ page = "reading" /\ ctlTerminal /\ streamError = "none" => buffer["text"] = <<>>
  /\ page = "leaving" /\ ~aborted /\ streamError = "none" =>
       /\ srv = "closed" /\ stored
       /\ buffer["text"] = <<>> /\ shown["text"] = TextOf(builder.sent)
  /\ page = "saved" => srv = "closed" /\ stored /\ saved = TextOf(builder.sent)

\* How a failure comes to be known.
FailureInv ==
  /\ page = "reading" => ~aborted
  /\ page = "reading" /\ srv = "closed" /\ ~stored =>
       streamError # "none" \/ \E i \in 1..Len(wire) : wire[i].kind = "error"
  /\ FailureIsShown

DeliveryInv ==
  P!IInv /\ DeliveryType /\ Aligned /\ TextConserved /\ CompleteInv /\ FailureInv

\* The text of a sequence of items.
LEMMA TextOfType == ASSUME NEW s, Items(s) PROVE TextOf(s) \in Seq(Int)
<1>1. Len(s) \in Nat
  BY DEF Items
<1>2. Text(s, Len(s)) \in Seq(Int)
  BY <1>1, TextType
<1> QED
  BY <1>2, TextIs

\* Of nothing there is no text.
LEMMA EmptyText == TextOf(<<>>) = <<>>
<1>1. Len(<<>>) = 0 /\ Text(<<>>, 0) = <<>>
  BY TextRec
<1> QED
  BY <1>1, TextIs

\* The text of a sequence of frames none of which is a text delta.
LEMMA NoText ==
  ASSUME NEW s \in Seq(Frame), \A i \in 1..Len(s) : s[i].type # "text_delta"
  PROVE  TextOf(s) = <<>>
<1> DEFINE S == {n \in 0..Len(s) : Text(s, n) = <<>>}
<1>0. Len(s) \in Nat
  OBVIOUS
<1>1. 0 \in S
  BY <1>0, TextRec
<1>2. ASSUME NEW n \in 1..Len(s), n - 1 \in S PROVE n \in S
  <2>1. Text(s, n) = Text(s, n - 1)
    BY <1>0, TextRec
  <2> QED
    BY <1>2, <2>1
<1> HIDE DEF S
<1>3. \A n \in 0..Len(s) : n \in S
  BY <1>0, <1>1, <1>2, UpTo
<1>4. Len(s) \in S
  BY <1>0, <1>3
<1> QED
  BY <1>4, TextIs DEF S

\* The frame to be read first, and those behind it.
LEMMA WireHead ==
  ASSUME wire \in Seq(Frame), wire # <<>>
  PROVE  /\ Tail(wire) \in Seq(Frame) /\ Head(wire) \in Frame
         /\ Len(wire) \in Nat /\ Len(wire) > 0
         /\ Len(Tail(wire)) = Len(wire) - 1 /\ Head(wire) = wire[1]
         /\ \A i \in 1..(Len(wire) - 1) : Tail(wire)[i] = wire[i + 1]
         /\ TextOf(wire) \in Seq(Int) /\ TextOf(Tail(wire)) \in Seq(Int)
         /\ Head(wire).type # "text_delta" => TextOf(wire) = TextOf(Tail(wire))
         /\ Head(wire).type = "text_delta" =>
              TextOf(wire) = <<Head(wire).sequence>> \o TextOf(Tail(wire))
<1> DEFINE h == Head(wire)
           t == Tail(wire)
<1>1. /\ h \in Frame /\ t \in Seq(Frame) /\ Len(t) = Len(wire) - 1
      /\ \A i \in 1..Len(t) : t[i] = wire[i + 1]
  BY HeadTailProperties
<1>2. h = wire[1] /\ Len(wire) \in Nat /\ Len(wire) > 0
  BY EmptySeq
<1>3. <<h>> \in Seq(Frame) /\ Len(<<h>>) = 1 /\ <<h>>[1] = h
  BY <1>1
<1>4. wire = <<h>> \o t
  <2>1. /\ <<h>> \o t \in Seq(Frame) /\ Len(<<h>> \o t) = Len(<<h>>) + Len(t)
        /\ \A i \in 1..Len(<<h>>) + Len(t) :
             (<<h>> \o t)[i] = IF i <= Len(<<h>>) THEN <<h>>[i] ELSE t[i - Len(<<h>>)]
    BY <1>1, <1>3, ConcatProperties
  <2>2. Len(<<h>> \o t) = Len(wire)
    BY <1>1, <1>2, <1>3, <2>1
  <2>3. ASSUME NEW i \in 1..Len(wire) PROVE wire[i] = (<<h>> \o t)[i]
    <3>1. CASE i = 1
      BY <1>1, <1>2, <1>3, <2>1, <3>1
    <3>2. CASE i # 1
      <4>1. i - 1 \in 1..Len(t) /\ (i - 1) + 1 = i
        BY <1>1, <1>2, <3>2
      <4>2. (<<h>> \o t)[i] = t[i - 1]
        BY <1>1, <1>2, <1>3, <2>1, <3>2
      <4> QED
        BY <1>1, <4>1, <4>2
    <3> QED
      BY <3>1, <3>2
  <2> QED
    BY <2>1, <2>2, <2>3, SeqEqual
<1>5. Items(wire) /\ Items(t) /\ Items(<<h>>) /\ h.sequence \in Int
  <2>1. h.sequence \in Int
    BY <1>1 DEF Frame
  <2> QED
    BY <1>1, <1>3, <2>1, FrameItems
<1> HIDE DEF h, t
<1>6. TextOf(wire) = TextOf(<<h>>) \o TextOf(t)
  <2> DEFINE o == <<h>>
  <2>1. o \in Seq(Frame) /\ t \in Seq(Frame) /\ Items(o) /\ Items(t)
    BY <1>1, <1>3, <1>5
  <2> HIDE DEF o
  <2>2. TextOf(o \o t) = TextOf(o) \o TextOf(t)
    BY <2>1, TextJoins
  <2> QED
    BY <1>4, <2>2 DEF o
<1>7. TextOf(<<h>>) = IF h.type = "text_delta" THEN <<h.sequence>> ELSE <<>>
  <2> DEFINE o == <<h>>
  <2>0. Len(o) = 1 /\ o[1] = h /\ 1 \in 1..Len(o) /\ Len(o) \in Nat /\ 1 - 1 = 0
    BY <1>3
  <2> HIDE DEF o
  <2>1. Text(o, 0) = <<>>
    BY <2>0, TextRec
  <2>2. Text(o, 1) = IF o[1].type = "text_delta" THEN Append(Text(o, 1 - 1), o[1].sequence)
                     ELSE Text(o, 1 - 1)
    BY <2>0, TextRec
  <2>3. Append(<<>>, h.sequence) = <<h.sequence>>
    OBVIOUS
  <2>4. Text(o, 1) = IF h.type = "text_delta" THEN <<h.sequence>> ELSE <<>>
    BY <2>0, <2>1, <2>2, <2>3
  <2>5. TextOf(o) = Text(o, 1)
    BY <2>0, TextIs
  <2> QED
    BY <2>4, <2>5 DEF o
<1>8. TextOf(wire) \in Seq(Int) /\ TextOf(t) \in Seq(Int) /\ <<>> \o TextOf(t) = TextOf(t)
  BY <1>5, TextOfType, ConcatEmptySeq
<1> QED
  BY <1>1, <1>2, <1>6, <1>7, <1>8 DEF h, t

\* What is joined to the wire comes behind what is there.
LEMMA WireGrows ==
  ASSUME wire \in Seq(Frame), NEW fs \in Seq(Frame), wire' = wire \o fs
  PROVE  /\ wire' \in Seq(Frame) /\ Len(wire) \in Nat /\ Len(fs) \in Nat
         /\ Len(wire') = Len(wire) + Len(fs)
         /\ \A i \in 1..Len(wire) : wire'[i] = wire[i]
         /\ \A i \in (Len(wire) + 1)..Len(wire') : wire'[i] = fs[i - Len(wire)]
         /\ TextOf(wire') = TextOf(wire) \o TextOf(fs)
         /\ TextOf(wire) \in Seq(Int) /\ TextOf(fs) \in Seq(Int)
<1> DEFINE w == wire'
<1>1. w = wire \o fs
  OBVIOUS
<1> HIDE DEF w
<1>2. /\ w \in Seq(Frame) /\ Len(w) = Len(wire) + Len(fs)
      /\ \A i \in 1..Len(wire) + Len(fs) : w[i] = IF i <= Len(wire) THEN wire[i] ELSE fs[i - Len(wire)]
  BY <1>1, ConcatProperties
<1>3. Len(wire) \in Nat /\ Len(fs) \in Nat
  OBVIOUS
<1>4. \A i \in 1..Len(wire) : w[i] = wire[i]
  <2>1. \A i \in 1..Len(wire) : i \in 1..Len(wire) + Len(fs) /\ i <= Len(wire)
    BY <1>3
  <2> QED BY <2>1, <1>2
<1>5. \A i \in (Len(wire) + 1)..Len(w) : w[i] = fs[i - Len(wire)]
  BY <1>2, <1>3
<1>6. Items(wire) /\ Items(fs)
  BY FrameItems
<1>7. TextOf(w) = TextOf(wire) \o TextOf(fs)
  BY <1>1, <1>6, TextJoins
<1> QED
  BY <1>2, <1>3, <1>4, <1>5, <1>6, <1>7, TextOfType DEF w

\* It holds when the request is made.
LEMMA InitDelivery == Init => DeliveryInv
<1> SUFFICES ASSUME Init PROVE DeliveryInv
  OBVIOUS
<1>1. P!IInv
  BY GeneratorStarts DEF Init
<1>2. Ctl!Init
  BY DEF Init
<1>3. builder.sent = <<>>
  BY DEF Init, Gen!Init, Gen!NewBuilder
<1>4. wire = <<>> /\ srv = "streaming" /\ stored = FALSE /\ page = "reading"
        /\ streamError = "none" /\ aborted = FALSE
  BY DEF Init
<1>5. "text" \in Ctl!Block /\ shown["text"] = <<>> /\ buffer["text"] = <<>>
  BY <1>2 DEF Ctl!Init, Ctl!Block
<1>6. <<>> \in Seq(Int) /\ <<>> \in Seq(Frame) /\ <<>> \in Seq({"end", "error"}) /\ <<>> \o <<>> = <<>>
  BY EmptySeq, ConcatEmptySeq
<1>7. ControllerType
  <2>1. buffer = [b \in Ctl!Block |-> <<>>] /\ shown = [b \in Ctl!Block |-> <<>>]
    BY <1>2 DEF Ctl!Init
  <2>2. buffer \in [Ctl!Block -> Seq(Int)] /\ shown \in [Ctl!Block -> Seq(Int)]
    BY <1>6, <2>1
  <2>3. /\ lastSequence = -1 /\ ctlTerminal = FALSE /\ sawCanonical = FALSE /\ started = FALSE
        /\ messageId = "none" /\ requestId = "none" /\ open = {} /\ currentToolId = "none"
        /\ outcomes = <<>>
    BY <1>2 DEF Ctl!Init
  <2>4. open \subseteq Ctl!Block /\ outcomes \in Seq({"end", "error"}) /\ lastSequence \in Int
    BY <1>6, <2>3
  <2> QED
    BY <2>2, <2>3, <2>4 DEF ControllerType
<1>8. DeliveryType
  BY <1>4, <1>6, <1>7 DEF DeliveryType
<1>9. Aligned
  <2>1. ~TextOpen(builder.sent, 0)
    BY DEF TextOpen
  <2>2. At(builder.sent, 0)
    BY <1>2, <2>1 DEF At, Ctl!Init
  <2>3. AlignedAt(builder.sent, 0)
    BY <1>3, <1>4, <2>2 DEF AlignedAt
  <2> QED
    BY <2>3 DEF Aligned
<1>10. TextConserved
  BY <1>3, <1>4, <1>5, <1>6, EmptyText DEF TextConserved
<1>11. CompleteInv
  BY <1>4, <1>5 DEF CompleteInv
<1>12. FailureInv
  BY <1>4 DEF FailureInv, FailureIsShown, Settled
<1> QED
  BY <1>1, <1>8, <1>9, <1>10, <1>11, <1>12 DEF DeliveryInv

\* What the generator yields is put behind what is under way.
LEMMA RelayStep == DeliveryInv /\ Relay => DeliveryInv'
<1> SUFFICES ASSUME DeliveryInv, Relay PROVE DeliveryInv'
  OBVIOUS
<1> DEFINE s == builder.sent
           t == builder'.sent
           y == Yielded
           fs == Framed(y)
<1>1. /\ P!IInv' /\ s \in Seq(P!Event) /\ t \in Seq(P!Event) /\ y \in Seq(P!Event)
      /\ Len(t) = Len(s) + Len(y)
      /\ \A i \in 1..Len(s) : t[i] = s[i]
      /\ \A i \in 1..Len(y) : y[i] = t[Len(s) + i]
      /\ t = s \o y
  BY Yields DEF DeliveryInv, Relay
<1>2. /\ fs \in Seq(Frame)
      /\ Len(fs) = Len(y) + (IF Fails(y) THEN 1 ELSE 0)
      /\ \A i \in 1..Len(y) : fs[i] = EventFrame(y[i])
      /\ Fails(y) => fs[Len(y) + 1] = Legacy("error")
      /\ TextOf(fs) = TextOf(y)
  BY <1>1, FramesOf
<1>3. /\ srv = "streaming" /\ srv' = (IF Fails(y) THEN "closed" ELSE "streaming")
      /\ wire' = (IF page = "reading" THEN wire \o fs ELSE <<>>)
      /\ UNCHANGED <<controller, stored, reader>>
  BY DEF Relay, Send
<1>4. Len(s) \in Nat /\ Len(t) \in Nat /\ Len(y) \in Nat
  BY <1>1
<1>5. TextOf(t) = TextOf(s) \o TextOf(y) /\ TextOf(s) \in Seq(Int) /\ TextOf(y) \in Seq(Int)
  <2>1. Items(s) /\ Items(y)
    BY <1>1, EventItems
  <2> QED
    BY <1>1, <2>1, TextJoins, TextOfType
<1> HIDE DEF s, t, y, fs
<1>6. UNCHANGED <<lastSequence, ctlTerminal, sawCanonical, started, messageId, requestId, open,
                  currentToolId, buffer, shown, outcomes, stored, page, streamError, aborted, saved>>
  BY <1>3 DEF controller, reader
<1>7. ControllerType /\ wire \in Seq(Frame)
  BY DEF DeliveryInv, DeliveryType
<1>8. ControllerType'
  BY <1>6, <1>7 DEF ControllerType
<1>9. CASE page # "reading"
  <2>1. wire' = <<>> /\ wire' \in Seq(Frame) /\ page' # "reading"
    BY <1>3, <1>6, <1>9, EmptySeq
  <2>2. DeliveryType'
    BY <1>3, <1>6, <1>8, <2>1 DEF DeliveryInv, DeliveryType
  <2>3. Aligned' /\ TextConserved'
    BY <2>1 DEF Aligned, TextConserved
  <2>4. CompleteInv'
    BY <1>3, <1>6, <1>9 DEF DeliveryInv, CompleteInv
  <2>5. FailureInv'
    BY <1>6, <1>9 DEF DeliveryInv, FailureInv, FailureIsShown
  <2> QED
    BY <1>1, <2>2, <2>3, <2>4, <2>5 DEF DeliveryInv
<1>10. CASE page = "reading"
  <2>1. wire' = wire \o fs
    BY <1>3, <1>10
  <2>2. /\ wire' \in Seq(Frame) /\ Len(wire) \in Nat /\ Len(fs) \in Nat
        /\ Len(wire') = Len(wire) + Len(fs)
        /\ \A i \in 1..Len(wire) : wire'[i] = wire[i]
        /\ \A i \in (Len(wire) + 1)..Len(wire') : wire'[i] = fs[i - Len(wire)]
        /\ TextOf(wire') = TextOf(wire) \o TextOf(fs)
        /\ TextOf(wire) \in Seq(Int) /\ TextOf(fs) \in Seq(Int)
    BY <1>2, <1>7, <2>1, WireGrows
  <2>3. DeliveryType'
    BY <1>3, <1>6, <1>8, <2>2 DEF DeliveryInv, DeliveryType
  <2>4. PICK k \in Nat : AlignedAt(s, k)
    BY <1>10 DEF DeliveryInv, Aligned, s
  <2>5. /\ k <= Len(s) /\ Len(wire) = Len(s) - k /\ At(s, k)
        /\ \A i \in 1..Len(wire) : wire[i] = EventFrame(s[k + i])
    BY <1>3, <1>4, <2>4 DEF AlignedAt
  <2>5a. /\ Len(wire) \in Nat /\ Len(wire') \in Nat
         /\ Len(wire') = Len(wire) + Len(y) + (IF Fails(y) THEN 1 ELSE 0)
         /\ Len(t) = Len(s) + Len(y) /\ Len(wire) = Len(s) - k /\ k <= Len(s)
    <3>1. Len(wire') = Len(wire) + Len(fs) /\ Len(wire) \in Nat
      BY <2>2, Zenon
    <3>2. Len(fs) = Len(y) + (IF Fails(y) THEN 1 ELSE 0)
      BY <1>2, Zenon
    <3>3. Len(t) = Len(s) + Len(y) /\ Len(wire) = Len(s) - k /\ k <= Len(s)
      BY <1>1, <2>5, Zenon
    <3> QED
      BY <1>4, <3>1, <3>2, <3>3
  <2>6. AlignedAt(builder.sent, k)'
    <3>1. k <= Len(t) /\ Len(wire') >= Len(t) - k /\ Len(t) - k = Len(wire) + Len(y)
      BY <1>4, <2>5a
    <3>2. ASSUME NEW i \in 1..(Len(t) - k) PROVE wire'[i] = EventFrame(t[k + i])
      <4>1. CASE i <= Len(wire)
        <5>1. i \in 1..Len(wire) /\ k + i \in 1..Len(s)
          BY <1>4, <2>2, <2>5, <4>1
        <5> QED
          BY <1>1, <2>2, <2>5, <5>1
      <4>2. CASE ~(i <= Len(wire))
        <5> DEFINE j == i - Len(wire)
        <5>1. i \in (Len(wire) + 1)..Len(wire') /\ j \in 1..Len(y) /\ Len(s) + j = k + i
          BY <1>4, <2>5a, <4>2
        <5>2. wire'[i] = fs[j]
          BY <2>2, <5>1
        <5> HIDE DEF j
        <5>3. fs[j] = EventFrame(y[j]) /\ y[j] = t[k + i]
          BY <1>1, <1>2, <5>1
        <5> QED
          BY <5>2, <5>3
      <4> QED
        BY <4>1, <4>2
    <3>3. ASSUME NEW i \in (Len(t) - k + 1)..Len(wire') PROVE wire'[i].type # "text_delta"
      <4>1. Fails(y) /\ i \in (Len(wire) + 1)..Len(wire') /\ i - Len(wire) = Len(y) + 1
        BY <1>4, <2>5a
      <4>2. wire'[i] = Legacy("error")
        BY <1>2, <2>2, <4>1
      <4> QED
        BY <4>2 DEF Legacy
    <3>4. srv' = "streaming" => Len(wire') = Len(t) - k
      BY <1>1, <1>2, <1>3, <1>4, <2>2, <2>5
    <3>5. TextOpen(t, k) <=> TextOpen(s, k)
      <4>1. \A i \in 1..k : t[i] = s[i]
        BY <1>1, <1>4, <2>5
      <4> QED
        BY <4>1, TextOpenAgrees
    <3>6. k > 0 => t[k] = s[k]
      BY <1>1, <1>4, <2>5
    <3>7. /\ started' <=> k > 0
          /\ lastSequence' = k - 1
          /\ ctlTerminal' <=> k > 0 /\ t[k].type \in {"message_end", "error"}
          /\ "text" \in open' <=> TextOpen(t, k)
      BY <1>6, <2>5, <3>5, <3>6 DEF At
    <3>8. At(builder.sent, k)'
      BY <3>7 DEF At, t
    <3> QED
      BY <3>1, <3>2, <3>3, <3>4, <3>8 DEF AlignedAt, t
  <2>7. TextConserved'
    <3>1. OnPage \o TextOf(wire) = TextOf(s) /\ OnPage \in Seq(Int)
      BY <1>7, <1>10 DEF DeliveryInv, TextConserved, OnPage, ControllerType, Ctl!Block, s
    <3>2. OnPage \o (TextOf(wire) \o TextOf(fs)) = (OnPage \o TextOf(wire)) \o TextOf(fs)
      <4>1. OnPage \in Seq(Int) /\ TextOf(wire) \in Seq(Int) /\ TextOf(fs) \in Seq(Int)
        BY <2>2, <3>1
      <4> QED
        BY <4>1, ThreeJoined, Zenon
    <3>3. OnPage' = OnPage
      BY <1>6 DEF OnPage
    <3>4. OnPage' \o TextOf(wire') = TextOf(t)
      BY <1>2, <1>5, <2>2, <3>1, <3>2, <3>3
    <3> QED
      BY <3>4 DEF TextConserved, OnPage, t
  <2>8. CompleteInv'
    BY <1>6, <1>10 DEF DeliveryInv, CompleteInv
  <2>9. FailureInv'
    <3>1. page' = "reading" /\ page \notin Settled /\ ~aborted
      BY <1>6, <1>10 DEF Settled, DeliveryInv, FailureInv
    <3>2. ASSUME Fails(y) PROVE \E i \in 1..Len(wire') : wire'[i].kind = "error"
      <4> DEFINE i == Len(wire) + Len(y) + 1
      <4>1. i \in (Len(wire) + 1)..Len(wire') /\ i - Len(wire) = Len(y) + 1 /\ i \in 1..Len(wire')
        BY <1>2, <1>4, <2>2, <3>2
      <4> HIDE DEF i
      <4>2. wire'[i] = Legacy("error")
        BY <1>2, <2>2, <3>2, <4>1
      <4> QED
        BY <4>1, <4>2 DEF Legacy
    <3>3. srv' = "closed" => Fails(y)
      BY <1>3
    <3> QED
      BY <1>6, <3>1, <3>2, <3>3 DEF FailureInv, FailureIsShown, Settled
  <2> QED
    BY <1>1, <2>3, <2>6, <2>7, <2>8, <2>9 DEF DeliveryInv, Aligned
<1> QED
  BY <1>9, <1>10

\* The endpoint ends the response with frames of its own.
LEMMA ClosingStep ==
  ASSUME DeliveryInv, srv = "streaming", srv' = "closed", stored' \in BOOLEAN, stored => stored',
         NEW fs \in Seq(Frame), Send(fs),
         \A i \in 1..Len(fs) : fs[i].type # "text_delta",
         stored' \/ \E i \in 1..Len(fs) : fs[i].kind = "error",
         UNCHANGED <<generator, controller, reader>>
  PROVE  DeliveryInv'
<1> DEFINE s == builder.sent
<1>1. P!IInv' /\ builder' = builder
  BY GeneratorSteps DEF DeliveryInv, generator
<1>2. UNCHANGED <<lastSequence, ctlTerminal, sawCanonical, started, messageId, requestId, open,
                  currentToolId, buffer, shown, outcomes, page, streamError, aborted, saved>>
  BY DEF controller, reader
<1>3. ControllerType /\ wire \in Seq(Frame)
  BY DEF DeliveryInv, DeliveryType
<1>4. ControllerType'
  BY <1>2, <1>3 DEF ControllerType
<1>5. CASE page # "reading"
  <2>1. wire' = <<>> /\ wire' \in Seq(Frame)
    BY <1>5, EmptySeq DEF Send
  <2>2. DeliveryType'
    BY <1>2, <1>4, <2>1 DEF DeliveryInv, DeliveryType
  <2>3. Aligned' /\ TextConserved'
    BY <1>2, <1>5 DEF Aligned, TextConserved
  <2>4. CompleteInv'
    BY <1>1, <1>2, <1>5 DEF DeliveryInv, CompleteInv
  <2>5. FailureInv'
    BY <1>2, <1>5 DEF DeliveryInv, FailureInv, FailureIsShown
  <2> QED
    BY <1>1, <2>2, <2>3, <2>4, <2>5 DEF DeliveryInv
<1>6. CASE page = "reading"
  <2>1. wire' = wire \o fs
    BY <1>6 DEF Send
  <2>2. /\ wire' \in Seq(Frame) /\ Len(wire) \in Nat /\ Len(fs) \in Nat
        /\ Len(wire') = Len(wire) + Len(fs)
        /\ \A i \in 1..Len(wire) : wire'[i] = wire[i]
        /\ \A i \in (Len(wire) + 1)..Len(wire') : wire'[i] = fs[i - Len(wire)]
        /\ TextOf(wire') = TextOf(wire) \o TextOf(fs)
        /\ TextOf(wire) \in Seq(Int)
    BY <1>3, <2>1, WireGrows
  <2>3. DeliveryType'
    BY <1>2, <1>4, <2>2 DEF DeliveryInv, DeliveryType
  <2>4. PICK k \in Nat : AlignedAt(s, k)
    BY <1>6 DEF DeliveryInv, Aligned
  <2>5. Len(s) \in Nat
    <3>1. Proper(s)
      BY SentProper DEF DeliveryInv
    <3> QED
      BY <3>1 DEF Proper
  <2> HIDE DEF s
  <2>6. /\ k <= Len(s) /\ Len(wire) = Len(s) - k /\ At(s, k)
        /\ \A i \in 1..(Len(s) - k) : wire[i] = EventFrame(s[k + i])
    BY <2>4 DEF AlignedAt
  <2>7. AlignedAt(builder.sent, k)'
    <3>1. k <= Len(s) /\ Len(wire') >= Len(s) - k
      BY <2>2, <2>5, <2>6
    <3>2. ASSUME NEW i \in 1..(Len(s) - k) PROVE wire'[i] = EventFrame(s[k + i])
      BY <2>2, <2>5, <2>6
    <3>3. ASSUME NEW i \in (Len(s) - k + 1)..Len(wire') PROVE wire'[i].type # "text_delta"
      <4>1. i \in (Len(wire) + 1)..Len(wire') /\ i - Len(wire) \in 1..Len(fs)
        BY <2>2, <2>5, <2>6
      <4> QED
        BY <2>2, <4>1
    <3>4. At(builder.sent, k)'
      BY <1>1, <1>2, <2>6 DEF At, s
    <3> QED
      BY <1>1, <3>1, <3>2, <3>3, <3>4 DEF AlignedAt, s
  <2>8. TextConserved'
    <3>1. TextOf(fs) = <<>>
      BY NoText
    <3>2. TextOf(wire') = TextOf(wire)
      BY <2>2, <3>1, ConcatEmptySeq
    <3> QED
      BY <1>1, <1>2, <1>6, <3>2 DEF DeliveryInv, TextConserved
  <2>9. CompleteInv'
    BY <1>2, <1>6 DEF DeliveryInv, CompleteInv
  <2>10. FailureInv'
    <3>1. page' = "reading" /\ page \notin Settled /\ ~aborted
      BY <1>2, <1>6 DEF Settled, DeliveryInv, FailureInv
    <3>2. ASSUME NEW j \in 1..Len(fs), fs[j].kind = "error"
          PROVE  \E i \in 1..Len(wire') : wire'[i].kind = "error"
      <4>1. Len(wire) + j \in (Len(wire) + 1)..Len(wire') /\ (Len(wire) + j) - Len(wire) = j
              /\ Len(wire) + j \in 1..Len(wire')
        BY <2>2
      <4>2. wire'[Len(wire) + j] = fs[j]
        BY <2>2, <4>1
      <4> QED
        BY <3>2, <4>1, <4>2
    <3> QED
      BY <1>2, <3>1, <3>2 DEF FailureInv, FailureIsShown, Settled
  <2> QED
    BY <1>1, <2>3, <2>7, <2>8, <2>9, <2>10 DEF DeliveryInv, Aligned
<1> QED
  BY <1>5, <1>6

\* The turn is committed, then [DONE].
LEMMA PersistStep == DeliveryInv /\ Persist => DeliveryInv'
<1> SUFFICES ASSUME DeliveryInv, Persist PROVE DeliveryInv'
  OBVIOUS
<1> DEFINE fs == <<Legacy("done")>>
<1>1. Legacy("done") \in Frame /\ Legacy("done").type = "done"
  BY DEF Legacy, Frame
<1>2. fs \in Seq(Frame) /\ Len(fs) = 1 /\ fs[1].type = "done"
  BY <1>1
<1>3. Send(fs) /\ srv = "streaming" /\ srv' = "closed" /\ stored' = TRUE
        /\ UNCHANGED <<generator, controller, reader>>
  BY DEF Persist
<1> HIDE DEF fs
<1>4. \A i \in 1..Len(fs) : fs[i].type # "text_delta"
  BY <1>2
<1> QED
  BY <1>2, <1>3, <1>4, ClosingStep

\* The generator has raised, or the commit fails.
LEMMA SaveFailsStep == DeliveryInv /\ SaveFails => DeliveryInv'
<1> SUFFICES ASSUME DeliveryInv, SaveFails PROVE DeliveryInv'
  OBVIOUS
<1> DEFINE e1 == [kind |-> "event", type |-> "message_start", sequence |-> 0]
           e2 == [kind |-> "event", type |-> "error", sequence |-> 1]
           fs == <<e1, e2, Legacy("error")>>
<1>1. "message_start" \in P!EventType /\ "error" \in P!EventType
  BY DEF P!EventType, P!Terminal
<1>2. e1 \in Frame /\ e2 \in Frame /\ Legacy("error") \in Frame
        /\ Legacy("error").kind = "error" /\ Legacy("error").type = "error"
  BY <1>1 DEF Legacy, Frame
<1>3. /\ fs \in Seq(Frame) /\ Len(fs) = 3
      /\ fs[1].type = "message_start" /\ fs[2].type = "error"
      /\ fs[3].type = "error" /\ fs[3].kind = "error"
  BY <1>2
<1>4. Send(fs) /\ srv = "streaming" /\ srv' = "closed" /\ stored' = stored /\ stored \in BOOLEAN
        /\ UNCHANGED <<generator, controller, reader>>
  BY DEF SaveFails, DeliveryInv, DeliveryType
<1> HIDE DEF fs
<1>5. \A i \in 1..Len(fs) : fs[i].type # "text_delta"
  <2>1. \A i \in 1..3 : i = 1 \/ i = 2 \/ i = 3
    OBVIOUS
  <2> QED
    BY <1>3, <2>1
<1>6. \E i \in 1..Len(fs) : fs[i].kind = "error"
  BY <1>3
<1> QED
  BY <1>3, <1>4, <1>5, <1>6, ClosingStep

\* Steps after which the page is no longer reading and the generator is where
\* it was: what was on the way is lost, and nothing is settled yet.
LEMMA LeavingStep ==
  ASSUME DeliveryInv, page' = "leaving", UNCHANGED <<generator, controller, endpoint, saved>>,
         wire' = <<>>, aborted' \in BOOLEAN,
         streamError' \in {"none", "event", "legacy", "cut", "network"},
         ~aborted' /\ streamError' = "none" =>
           srv = "closed" /\ stored /\ buffer["text"] = <<>> /\ shown["text"] = TextOf(builder.sent)
  PROVE  DeliveryInv'
<1>1. P!IInv' /\ builder' = builder
  BY GeneratorSteps DEF DeliveryInv, generator
<1>2. UNCHANGED <<lastSequence, ctlTerminal, sawCanonical, started, messageId, requestId, open,
                  currentToolId, buffer, shown, outcomes, srv, stored, saved>>
  BY DEF controller, endpoint
<1>3. ControllerType'
  BY <1>2 DEF DeliveryInv, DeliveryType, ControllerType
<1>4. DeliveryType'
  <2>1. wire' \in Seq(Frame)
    BY EmptySeq
  <2> QED
    BY <1>2, <1>3, <2>1 DEF DeliveryInv, DeliveryType
<1>5. Aligned' /\ TextConserved'
  BY DEF Aligned, TextConserved
<1>6. CompleteInv'
  BY <1>1, <1>2 DEF DeliveryInv, CompleteInv
<1>7. FailureInv'
  BY DEF FailureInv, FailureIsShown, Settled
<1> QED
  BY <1>1, <1>4, <1>5, <1>6, <1>7 DEF DeliveryInv

\* The stream has been read to its end.
LEMMA StreamOverStep == DeliveryInv /\ StreamOver => DeliveryInv'
<1> SUFFICES ASSUME DeliveryInv, StreamOver PROVE DeliveryInv'
  OBVIOUS
<1>1. /\ page = "reading" /\ wire = <<>> /\ srv = "closed" /\ page' = "leaving"
      /\ streamError' = (IF sawCanonical /\ ~ctlTerminal THEN "cut" ELSE streamError)
      /\ UNCHANGED <<generator, controller, endpoint, wire, aborted, saved>>
  BY DEF StreamOver
<1>2. /\ sawCanonical \in BOOLEAN /\ ctlTerminal \in BOOLEAN /\ aborted \in BOOLEAN
      /\ streamError \in {"none", "event", "legacy", "cut", "network"}
      /\ shown["text"] \in Seq(Int)
  BY DEF DeliveryInv, DeliveryType, ControllerType, Ctl!Block
<1>3. ASSUME streamError' = "none"
      PROVE  stored /\ buffer["text"] = <<>> /\ shown["text"] = TextOf(builder.sent)
  <2>1. streamError = "none" /\ (~sawCanonical \/ ctlTerminal)
    BY <1>1, <1>3
  <2>2. buffer["text"] = <<>>
    BY <1>1, <2>1 DEF DeliveryInv, CompleteInv
  <2>3. Len(wire) = 0
    BY <1>1
  <2>4. stored
    BY <1>1, <2>1, <2>3 DEF DeliveryInv, FailureInv
  <2>5. shown["text"] \o buffer["text"] \o TextOf(wire) = TextOf(builder.sent)
    BY <1>1 DEF DeliveryInv, TextConserved
  <2>6. shown["text"] \o <<>> = shown["text"]
    BY <1>2, ConcatEmptySeq
  <2>7. TextOf(wire) = <<>>
    BY <1>1, EmptyText
  <2> QED
    BY <2>2, <2>4, <2>5, <2>6, <2>7
<1>4. streamError' \in {"none", "event", "legacy", "cut", "network"} /\ aborted' \in BOOLEAN
  BY <1>1, <1>2
<1> QED
  BY <1>1, <1>3, <1>4, LeavingStep

\* The connection is lost.
LEMMA ConnectionLostStep == DeliveryInv /\ ConnectionLost => DeliveryInv'
<1>1. DeliveryInv => aborted \in BOOLEAN
  BY DEF DeliveryInv, DeliveryType
<1> QED
  BY <1>1, LeavingStep DEF ConnectionLost

\* The user presses stop.
LEMMA StopStep == DeliveryInv /\ Stop => DeliveryInv'
BY LeavingStep DEF Stop

\* The server finds the page gone.
LEMMA DisconnectStep == DeliveryInv /\ Disconnect => DeliveryInv'
<1> SUFFICES ASSUME DeliveryInv, Disconnect PROVE DeliveryInv'
  OBVIOUS
<1>1. /\ srv = "streaming" /\ page # "reading" /\ srv' = "closed" /\ wire' = <<>>
      /\ UNCHANGED <<generator, controller, stored, reader>>
  BY DEF Disconnect
<1>2. P!IInv' /\ builder' = builder
  BY <1>1, GeneratorSteps DEF DeliveryInv, generator
<1>3. UNCHANGED <<lastSequence, ctlTerminal, sawCanonical, started, messageId, requestId, open,
                  currentToolId, buffer, shown, outcomes, page, streamError, aborted, saved>>
  BY <1>1 DEF controller, reader
<1>4. ControllerType'
  BY <1>3 DEF DeliveryInv, DeliveryType, ControllerType
<1>5. DeliveryType'
  <2>1. wire' \in Seq(Frame)
    BY <1>1, EmptySeq
  <2> QED
    BY <1>1, <1>3, <1>4, <2>1 DEF DeliveryInv, DeliveryType
<1>6. Aligned' /\ TextConserved'
  BY <1>1, <1>3 DEF Aligned, TextConserved
<1>7. CompleteInv'
  BY <1>1, <1>2, <1>3 DEF DeliveryInv, CompleteInv
<1>8. FailureInv'
  BY <1>1, <1>3 DEF DeliveryInv, FailureInv, FailureIsShown
<1> QED
  BY <1>2, <1>5, <1>6, <1>7, <1>8 DEF DeliveryInv

\* Reading a frame that is none of the generator's events moves nothing else
\* on the wire.
LEMMA NotSent ==
  ASSUME NEW k \in Nat, AlignedAt(builder.sent, k), P!IInv, wire \in Seq(Frame), wire # <<>>,
         Head(wire).kind # "event" \/ k = Len(builder.sent)
  PROVE  /\ k = Len(builder.sent) /\ srv # "streaming"
         /\ Head(wire).type # "text_delta"
         /\ \A i \in 1..Len(Tail(wire)) : Tail(wire)[i].type # "text_delta"
<1> DEFINE s == builder.sent
<1>1. Len(s) \in Nat
  <2>1. Proper(s)
    BY SentProper
  <2> QED
    BY <2>1 DEF Proper
<1>2. /\ Len(wire) \in Nat /\ Len(wire) > 0 /\ Head(wire) = wire[1]
      /\ Len(Tail(wire)) = Len(wire) - 1
      /\ \A i \in 1..(Len(wire) - 1) : Tail(wire)[i] = wire[i + 1]
  BY WireHead
<1> HIDE DEF s
<1>3. /\ k <= Len(s)
      /\ \A i \in 1..(Len(s) - k) : wire[i] = EventFrame(s[k + i])
      /\ \A i \in (Len(s) - k + 1)..Len(wire) : wire[i].type # "text_delta"
      /\ srv = "streaming" => Len(wire) = Len(s) - k
  BY DEF AlignedAt, s
<1>4. k = Len(s)
  <2> SUFFICES ASSUME k # Len(s) PROVE FALSE
    OBVIOUS
  <2>1. 1 \in 1..(Len(s) - k)
    BY <1>1, <1>3
  <2>2. Head(wire) = EventFrame(s[k + 1])
    BY <1>2, <1>3, <2>1
  <2> QED
    BY <2>2 DEF EventFrame, s
<1>5. Head(wire).type # "text_delta" /\ srv # "streaming"
  BY <1>1, <1>2, <1>3, <1>4
<1>6. \A i \in 1..Len(Tail(wire)) : Tail(wire)[i].type # "text_delta"
  BY <1>1, <1>2, <1>3, <1>4
<1> QED
  BY <1>4, <1>5, <1>6 DEF s

\* What is left on the wire then.
LEMMA RestAligned ==
  ASSUME P!IInv, builder' = builder, srv' # "streaming",
         wire' \in Seq(Frame), \A i \in 1..Len(wire') : wire'[i].type # "text_delta"
  PROVE  Aligned'
<1>1. Len(builder.sent) \in Nat
  <2>1. Proper(builder.sent)
    BY SentProper
  <2> QED
    BY <2>1 DEF Proper
<1>2. Len(wire') \in Nat
  OBVIOUS
<1>3. AlignedAt(builder.sent, Len(builder.sent))'
  BY <1>1, <1>2 DEF AlignedAt
<1> QED
  BY <1>1, <1>3 DEF Aligned

\* [DONE] is read.
LEMMA ReadDoneStep == DeliveryInv /\ ReadDone => DeliveryInv'
<1> SUFFICES ASSUME DeliveryInv, ReadDone PROVE DeliveryInv'
  OBVIOUS
<1>1. /\ page = "reading" /\ wire # <<>> /\ Head(wire).kind = "done"
      /\ Ctl!LegacyDone /\ wire' = Tail(wire)
      /\ UNCHANGED <<generator, endpoint, reader>>
  BY DEF ReadDone
<1>2. P!IInv' /\ builder' = builder
  BY <1>1, GeneratorSteps DEF DeliveryInv, generator
<1>3. UNCHANGED <<srv, stored, page, streamError, aborted, saved>>
  BY <1>1 DEF endpoint, reader
<1>4. ControllerType /\ wire \in Seq(Frame)
  BY DEF DeliveryInv, DeliveryType
<1>5. PICK k \in Nat : AlignedAt(builder.sent, k)
  BY <1>1 DEF DeliveryInv, Aligned
<1>6. /\ srv # "streaming" /\ Head(wire).type # "text_delta"
      /\ \A i \in 1..Len(Tail(wire)) : Tail(wire)[i].type # "text_delta"
  BY <1>1, <1>4, <1>5, NotSent DEF DeliveryInv
<1>7. /\ Tail(wire) \in Seq(Frame) /\ TextOf(wire) = TextOf(Tail(wire))
      /\ Len(wire) \in Nat /\ Head(wire) = wire[1]
      /\ Len(Tail(wire)) = Len(wire) - 1
      /\ \A i \in 1..(Len(wire) - 1) : Tail(wire)[i] = wire[i + 1]
  BY <1>1, <1>4, <1>6, WireHead
<1>8. /\ UNCHANGED <<lastSequence, sawCanonical, started, messageId, requestId, open, currentToolId>>
      /\ \/ sawCanonical /\ UNCHANGED <<ctlTerminal, buffer, shown, outcomes>>
         \/ ~sawCanonical /\ ctlTerminal' = TRUE /\ Ctl!Draw(Ctl!Block) /\ outcomes' = Append(outcomes, "end")
  BY <1>1 DEF Ctl!LegacyDone, Ctl!identity, Ctl!tools, Ctl!drawing, Ctl!Flush
<1>9. /\ TextDrawn /\ ctlTerminal' \in BOOLEAN /\ outcomes' \in Seq({"end", "error"})
      /\ ctlTerminal' => ctlTerminal \/ buffer'["text"] = <<>>
  <2>1. CASE sawCanonical /\ UNCHANGED <<ctlTerminal, buffer, shown, outcomes>>
    BY <1>4, <2>1 DEF TextDrawn, ControllerType, OnPage
  <2>2. CASE ctlTerminal' = TRUE /\ Ctl!Draw(Ctl!Block) /\ outcomes' = Append(outcomes, "end")
    <3>1. "text" \in Ctl!Block
      BY DEF Ctl!Block
    <3>2. TextDrawn /\ buffer'["text"] = <<>>
      BY <1>4, <2>2, <3>1, DrawsText
    <3>3. outcomes' \in Seq({"end", "error"})
      BY <1>4, <2>2, Reported DEF ControllerType
    <3> QED
      BY <2>2, <3>2, <3>3
  <2> QED
    BY <1>8, <2>1, <2>2
<1>10. DeliveryType'
  <2>1. ControllerType'
    BY <1>4, <1>8, <1>9 DEF ControllerType, TextDrawn
  <2> QED
    BY <1>1, <1>3, <1>7, <2>1 DEF DeliveryInv, DeliveryType
<1>11. Aligned'
  BY <1>1, <1>2, <1>3, <1>6, <1>7, RestAligned DEF DeliveryInv
<1>12. TextConserved'
  <2>1. OnPage' = OnPage
    BY <1>9 DEF TextDrawn
  <2> QED
    BY <1>1, <1>2, <1>3, <1>7, <2>1 DEF DeliveryInv, TextConserved, OnPage
<1>13. CompleteInv'
  BY <1>1, <1>3, <1>8, <1>9 DEF DeliveryInv, CompleteInv, TextDrawn
<1>14. FailureInv'
  <2>1. ASSUME NEW i \in 1..Len(wire), wire[i].kind = "error"
        PROVE  \E j \in 1..Len(wire') : wire'[j].kind = "error"
    <3>1. i # 1
      BY <1>1, <1>7, <2>1
    <3>2. i - 1 \in 1..(Len(wire) - 1) /\ (i - 1) + 1 = i
      BY <1>7, <3>1
    <3>3. wire'[i - 1] = wire[i] /\ i - 1 \in 1..Len(wire')
      BY <1>1, <1>7, <3>2
    <3> QED
      BY <2>1, <3>3
  <2> QED
    BY <1>1, <1>3, <2>1 DEF DeliveryInv, FailureInv, FailureIsShown, Settled
<1> QED
  BY <1>2, <1>10, <1>11, <1>12, <1>13, <1>14 DEF DeliveryInv

\* A legacy error frame is read.
LEMMA ReadErrorStep == DeliveryInv /\ ReadError => DeliveryInv'
<1> SUFFICES ASSUME DeliveryInv, ReadError PROVE DeliveryInv'
  OBVIOUS
<1>1. /\ page = "reading" /\ wire # <<>> /\ Head(wire).kind = "error"
      /\ streamError' = "legacy" /\ wire' = Tail(wire)
      /\ UNCHANGED <<generator, controller, endpoint, page, aborted, saved>>
  BY DEF ReadError
<1>2. P!IInv' /\ builder' = builder
  BY <1>1, GeneratorSteps DEF DeliveryInv, generator
<1>3. UNCHANGED <<lastSequence, ctlTerminal, sawCanonical, started, messageId, requestId, open,
                  currentToolId, buffer, shown, outcomes, srv, stored>>
  BY <1>1 DEF controller, endpoint
<1>4. ControllerType /\ wire \in Seq(Frame)
  BY DEF DeliveryInv, DeliveryType
<1>5. PICK k \in Nat : AlignedAt(builder.sent, k)
  BY <1>1 DEF DeliveryInv, Aligned
<1>6. /\ srv # "streaming" /\ Head(wire).type # "text_delta"
      /\ \A i \in 1..Len(Tail(wire)) : Tail(wire)[i].type # "text_delta"
  BY <1>1, <1>4, <1>5, NotSent DEF DeliveryInv
<1>7. Tail(wire) \in Seq(Frame) /\ TextOf(wire) = TextOf(Tail(wire))
  BY <1>1, <1>4, <1>6, WireHead
<1>8. DeliveryType'
  <2>1. ControllerType'
    BY <1>3, <1>4 DEF ControllerType
  <2> QED
    BY <1>1, <1>3, <1>7, <2>1 DEF DeliveryInv, DeliveryType
<1>9. Aligned'
  BY <1>1, <1>2, <1>3, <1>6, <1>7, RestAligned DEF DeliveryInv
<1>10. TextConserved'
  BY <1>1, <1>2, <1>3, <1>7 DEF DeliveryInv, TextConserved
<1>11. CompleteInv'
  BY <1>1, <1>3 DEF DeliveryInv, CompleteInv
<1>12. FailureInv'
  BY <1>1, <1>3 DEF DeliveryInv, FailureInv, FailureIsShown, Settled
<1> QED
  BY <1>2, <1>8, <1>9, <1>10, <1>11, <1>12 DEF DeliveryInv

\* The page reads an event.
LEMMA ReadEventStep == DeliveryInv /\ ReadEvent => DeliveryInv'
<1> SUFFICES ASSUME DeliveryInv, ReadEvent PROVE DeliveryInv'
  OBVIOUS
<1> DEFINE f == Head(wire)
           s == builder.sent
<1>1. /\ page = "reading" /\ wire # <<>> /\ f.kind = "event"
      /\ Ctl!HandleCanonical(Seen(f))
      /\ streamError' = (IF outcomes' # outcomes /\ Last(outcomes') = "error" THEN "event" ELSE streamError)
      /\ wire' = Tail(wire)
      /\ UNCHANGED <<generator, endpoint, page, aborted, saved>>
  BY DEF ReadEvent
<1>2. P!IInv' /\ builder' = builder
  BY <1>1, GeneratorSteps DEF DeliveryInv, generator
<1>3. UNCHANGED <<srv, stored>>
  BY <1>1 DEF endpoint
<1>4. ControllerType /\ wire \in Seq(Frame)
  BY DEF DeliveryInv, DeliveryType
<1>5. /\ Tail(wire) \in Seq(Frame) /\ f \in Frame
      /\ Len(wire) \in Nat /\ Len(wire) > 0 /\ f = wire[1]
      /\ Len(Tail(wire)) = Len(wire) - 1
      /\ \A i \in 1..(Len(wire) - 1) : Tail(wire)[i] = wire[i + 1]
      /\ TextOf(wire) \in Seq(Int) /\ TextOf(Tail(wire)) \in Seq(Int)
      /\ f.type # "text_delta" => TextOf(wire) = TextOf(Tail(wire))
      /\ f.type = "text_delta" => TextOf(wire) = <<f.sequence>> \o TextOf(Tail(wire))
  BY <1>1, <1>4, WireHead
<1>6. Handles(f)
  BY <1>1, <1>4, <1>5, Handled
<1>7. PICK k \in Nat : AlignedAt(s, k)
  BY <1>1 DEF DeliveryInv, Aligned
<1>8. Proper(s)
  BY SentProper DEF DeliveryInv
<1>9. f.sequence \in Int
  BY <1>5 DEF Frame
<1> HIDE DEF f
<1>10. ASSUME k = Len(s) PROVE Aligned' /\ TextConserved'
  <2>1. /\ srv # "streaming" /\ f.type # "text_delta"
        /\ \A i \in 1..Len(Tail(wire)) : Tail(wire)[i].type # "text_delta"
    BY <1>1, <1>4, <1>7, <1>10, NotSent DEF DeliveryInv, f
  <2>2. Aligned'
    BY <1>1, <1>2, <1>3, <1>5, <2>1, RestAligned DEF DeliveryInv
  <2> HIDE DEF s
  <2>3. TextConserved'
    <3>1. OnPage' = OnPage
      BY <1>6, <2>1 DEF Handles
    <3> QED
      BY <1>1, <1>2, <1>5, <2>1, <3>1 DEF DeliveryInv, TextConserved, OnPage
  <2> QED
    BY <2>2, <2>3
<1>11. ASSUME k # Len(s) PROVE Aligned' /\ TextConserved'
  <2> HIDE DEF s
  <2>0. s \in Seq(P!Event) /\ Len(s) \in Nat
    BY <1>8 DEF Proper
  <2>1. /\ k < Len(s) /\ Len(wire) >= Len(s) - k
        /\ \A i \in 1..(Len(s) - k) : wire[i] = EventFrame(s[k + i])
        /\ \A i \in (Len(s) - k + 1)..Len(wire) : wire[i].type # "text_delta"
        /\ srv = "streaming" => Len(wire) = Len(s) - k
        /\ At(s, k)
    BY <1>7, <1>11, <2>0 DEF AlignedAt
  <2>2. /\ s[k + 1].sequence = k
        /\ s[k + 1].type = "message_start" <=> k = 0
        /\ s[k + 1].type = "text_delta" => TextOpen(s, k)
        /\ k > 0 => s[k].type \notin {"message_end", "error"}
    <3>1. k + 1 \in 1..Len(s) /\ (k + 1) - 1 = k /\ (k > 0 => k \in 1..Len(s))
      BY <2>0, <2>1
    <3> QED
      BY <1>8, <2>1, <3>1 DEF Proper
  <2>3. f.type = s[k + 1].type /\ f.sequence = k
    <3>1. 1 \in 1..(Len(s) - k)
      BY <2>0, <2>1
    <3>2. f = EventFrame(s[k + 1])
      BY <1>5, <2>1, <3>1
    <3>3. \A e : EventFrame(e).type = e.type /\ EventFrame(e).sequence = e.sequence
      BY DEF EventFrame
    <3>4. f.type = s[k + 1].type /\ f.sequence = s[k + 1].sequence
      BY <3>2, <3>3
    <3> QED
      BY <2>2, <3>4
  <2>4. Due(f)
    BY <2>1, <2>2, <2>3 DEF Due, At
  <2>5. At(builder.sent, k + 1)'
    <3>0. /\ lastSequence' = f.sequence
          /\ started' = (started \/ f.type = "message_start")
          /\ ctlTerminal' = (f.type \in {"message_end", "error"})
      BY <1>6, <2>4 DEF Handles
    <3>1. /\ lastSequence' = k /\ started'
          /\ ctlTerminal' <=> s[k + 1].type \in {"message_end", "error"}
      <4>1. lastSequence' = k
        BY <2>3, <3>0
      <4>2. started \/ f.type = "message_start"
        BY <2>4 DEF Due
      <4>3. started'
        BY <3>0, <4>2
      <4>4. ctlTerminal' <=> s[k + 1].type \in {"message_end", "error"}
        BY <2>3, <3>0
      <4> QED
        BY <4>1, <4>3, <4>4
    <3>2. "text" \in open' <=> TextOpen(s, k + 1)
      BY <1>6, <2>1, <2>3, <2>4, TextOpenNext DEF Handles, At
    <3>3. started' <=> k + 1 > 0
      BY <3>1
    <3>4. lastSequence' = (k + 1) - 1
      BY <3>1
    <3>5. ctlTerminal' <=> k + 1 > 0 /\ s[k + 1].type \in {"message_end", "error"}
      BY <3>1
    <3> QED
      BY <1>2, <3>2, <3>3, <3>4, <3>5 DEF At, s
  <2>6. AlignedAt(builder.sent, k + 1)'
    <3>1. k + 1 <= Len(s) /\ Len(wire') >= Len(s) - (k + 1)
      BY <1>1, <1>5, <2>0, <2>1
    <3>2. ASSUME NEW i \in 1..(Len(s) - (k + 1)) PROVE wire'[i] = EventFrame(s[(k + 1) + i])
      <4>1. i + 1 \in 1..(Len(s) - k) /\ i \in 1..(Len(wire) - 1) /\ k + (i + 1) = (k + 1) + i
        BY <1>5, <2>0, <2>1
      <4> QED
        BY <1>1, <1>5, <2>1, <4>1
    <3>3. ASSUME NEW i \in (Len(s) - (k + 1) + 1)..Len(wire') PROVE wire'[i].type # "text_delta"
      <4>1. i + 1 \in (Len(s) - k + 1)..Len(wire) /\ i \in 1..(Len(wire) - 1)
        BY <1>1, <1>5, <2>0, <2>1
      <4> QED
        BY <1>1, <1>5, <2>1, <4>1
    <3>4. srv' = "streaming" => Len(wire') = Len(s) - (k + 1)
      BY <1>1, <1>3, <1>5, <2>0, <2>1
    <3> QED
      BY <1>2, <2>5, <3>1, <3>2, <3>3, <3>4 DEF AlignedAt, s
  <2>7. Aligned'
    <3>1. k + 1 \in Nat
      OBVIOUS
    <3> QED
      BY <2>6, <3>1 DEF Aligned
  <2>8. TextConserved'
    <3>1. OnPage \o TextOf(wire) = TextOf(s)
      BY <1>1 DEF DeliveryInv, TextConserved, OnPage, s
    <3>2. CASE f.type # "text_delta"
      <4>1. OnPage' = OnPage
        BY <1>6, <3>2 DEF Handles
      <4> QED
        BY <1>1, <1>2, <1>5, <3>1, <3>2, <4>1 DEF TextConserved, OnPage, s
    <3>3. CASE f.type = "text_delta"
      <4>1. "text" \in open
        BY <2>1, <2>2, <2>3, <3>3 DEF At
      <4>2. shown'["text"] = shown["text"] /\ buffer'["text"] = Append(buffer["text"], f.sequence)
        BY <1>6, <2>4, <3>3, <4>1 DEF Handles
      <4>0. PICK a, b, c, d : /\ a = shown["text"] /\ b = buffer["text"]
                              /\ c = <<f.sequence>> /\ d = TextOf(Tail(wire))
        OBVIOUS
      <4>3. a \in Seq(Int) /\ b \in Seq(Int) /\ c \in Seq(Int) /\ d \in Seq(Int)
        <5>1. a \in Seq(Int) /\ b \in Seq(Int)
          BY <1>4, <4>0 DEF ControllerType, Ctl!Block
        <5> QED
          BY <1>5, <1>9, <4>0, <5>1
      <4>4. buffer'["text"] = b \o c
        BY <1>9, <4>0, <4>2, <4>3, AppendIsConcat
      <4>5. TextOf(wire) = c \o d
        BY <1>5, <3>3, <4>0
      <4>6. (a \o b) \o (c \o d) = TextOf(s)
        BY <3>1, <4>0, <4>5 DEF OnPage
      <4>7. (a \o b) \o (c \o d) = (a \o (b \o c)) \o d
        <5>1. PICK p : p = a \o b
          OBVIOUS
        <5>2. p \in Seq(Int)
          BY <4>3, <5>1
        <5>3. (p \o c) \o d = p \o (c \o d)
          BY <4>3, <5>2, ThreeJoined
        <5>4. p \o c = a \o (b \o c)
          BY <4>3, <5>1, ThreeJoined
        <5> QED
          BY <5>1, <5>3, <5>4
      <4>8. shown'["text"] \o buffer'["text"] \o TextOf(wire') = TextOf(s)
        BY <1>1, <4>0, <4>2, <4>4, <4>6, <4>7
      <4> QED
        BY <1>2, <4>8 DEF TextConserved, s
    <3> QED
      BY <3>2, <3>3
  <2> QED
    BY <2>7, <2>8
<1>12. DeliveryType'
  <2>1. streamError' \in {"none", "event", "legacy", "cut", "network"}
    BY <1>1 DEF DeliveryInv, DeliveryType
  <2> QED
    BY <1>1, <1>3, <1>5, <1>6, <2>1 DEF DeliveryInv, DeliveryType, Handles
<1>13. CompleteInv'
  <2>1. sawCanonical' /\ page' = "reading" /\ page' # "leaving" /\ page' # "saved"
    BY <1>1, <1>6 DEF Handles
  <2>2. ASSUME ctlTerminal', streamError' = "none" PROVE buffer'["text"] = <<>>
    <3>1. ~(outcomes' # outcomes /\ Last(outcomes') = "error") /\ streamError = "none"
      BY <1>1, <2>2
    <3>2. CASE ctlTerminal
      BY <1>1, <1>6, <3>1, <3>2 DEF Handles, DeliveryInv, CompleteInv
    <3>3. CASE ~ctlTerminal
      BY <1>6, <2>2, <3>1, <3>3 DEF Handles
    <3> QED
      BY <3>2, <3>3
  <2> QED
    BY <2>1, <2>2 DEF CompleteInv
<1>14. FailureInv'
  <2>1. ASSUME NEW i \in 1..Len(wire), wire[i].kind = "error"
        PROVE  \E j \in 1..Len(wire') : wire'[j].kind = "error"
    <3>1. i # 1
      BY <1>1, <1>5, <2>1
    <3>2. i - 1 \in 1..(Len(wire) - 1) /\ (i - 1) + 1 = i
      BY <1>5, <3>1
    <3>3. wire'[i - 1] = wire[i] /\ i - 1 \in 1..Len(wire')
      BY <1>1, <1>5, <3>2
    <3> QED
      BY <2>1, <3>3
  <2>2. streamError # "none" => streamError' # "none"
    BY <1>1
  <2> QED
    BY <1>1, <1>3, <2>1, <2>2 DEF DeliveryInv, FailureInv, FailureIsShown, Settled
<1> QED
  BY <1>2, <1>10, <1>11, <1>12, <1>13, <1>14 DEF DeliveryInv

\* What becomes of the answer.
LEMMA SettleStep == DeliveryInv /\ Settle => DeliveryInv'
<1> SUFFICES ASSUME DeliveryInv, Settle PROVE DeliveryInv'
  OBVIOUS
<1>1. /\ page = "leaving"
      /\ \/ streamError # "none" /\ page' = "error"
         \/ /\ streamError = "none" /\ page' = (IF aborted THEN "partial" ELSE "saved")
            /\ saved' = shown["text"]
         \/ streamError = "none" /\ page' = "stopped"
      /\ UNCHANGED <<generator, controller, endpoint, wire, streamError, aborted>>
  BY DEF Settle
<1>2. P!IInv' /\ builder' = builder
  BY <1>1, GeneratorSteps DEF DeliveryInv, generator
<1>3. UNCHANGED <<lastSequence, ctlTerminal, sawCanonical, started, messageId, requestId, open,
                  currentToolId, buffer, shown, outcomes, srv, stored>>
  BY <1>1 DEF controller, endpoint
<1>4. page' \in Settled
  BY <1>1 DEF Settled
<1>5. page' # "reading" /\ page' # "leaving"
  BY <1>4 DEF Settled
<1>6. DeliveryType'
  <2>1. ControllerType'
    BY <1>3 DEF DeliveryInv, DeliveryType, ControllerType
  <2> QED
    BY <1>1, <1>3, <1>4, <2>1 DEF DeliveryInv, DeliveryType
<1>7. Aligned' /\ TextConserved'
  BY <1>5 DEF Aligned, TextConserved
<1>8. ~aborted /\ streamError = "none" => srv = "closed" /\ stored /\ shown["text"] = TextOf(builder.sent)
  BY <1>1 DEF DeliveryInv, CompleteInv
<1>9. CompleteInv'
  <2>1. page' = "saved" => srv = "closed" /\ stored /\ saved' = TextOf(builder.sent)
    BY <1>1, <1>8
  <2> QED
    BY <1>2, <1>3, <1>5, <2>1 DEF DeliveryInv, CompleteInv
<1>10. FailureInv'
  <2>1. ~stored /\ ~aborted => page' = "error"
    BY <1>1, <1>8
  <2> QED
    BY <1>1, <1>3, <1>5, <2>1 DEF FailureInv, FailureIsShown
<1> QED
  BY <1>2, <1>6, <1>7, <1>9, <1>10 DEF DeliveryInv

\* What is buffered is drawn.
LEMMA DrawStep == DeliveryInv /\ Draw => DeliveryInv'
<1> SUFFICES ASSUME DeliveryInv, Draw PROVE DeliveryInv'
  OBVIOUS
<1>1. PICK b \in Ctl!Block : Ctl!Callback(b)
  BY DEF Draw
<1>2. UNCHANGED <<generator, endpoint, wire, reader>>
  BY DEF Draw
<1>3. /\ Ctl!Draw({b})
      /\ UNCHANGED <<lastSequence, ctlTerminal, sawCanonical, started, messageId, requestId, open,
                     currentToolId, outcomes>>
  BY <1>1 DEF Ctl!Callback, Ctl!progress, Ctl!identity, Ctl!tools
<1>4. P!IInv' /\ builder' = builder
  BY <1>2, GeneratorSteps DEF DeliveryInv, generator
<1>5. UNCHANGED <<srv, stored, wire, page, streamError, aborted, saved>>
  BY <1>2 DEF endpoint, reader
<1>6. ControllerType
  BY DEF DeliveryInv, DeliveryType
<1>7. TextDrawn
  BY <1>3, <1>6, DrawsText
<1>8. DeliveryType'
  <2>1. ControllerType'
    BY <1>3, <1>6, <1>7 DEF ControllerType, TextDrawn
  <2> QED
    BY <1>5, <2>1 DEF DeliveryInv, DeliveryType
<1>9. Aligned'
  BY <1>3, <1>4, <1>5 DEF DeliveryInv, Aligned, AlignedAt, At
<1>10. TextConserved'
  BY <1>4, <1>5, <1>7 DEF DeliveryInv, TextConserved, TextDrawn, OnPage
<1>11. CompleteInv'
  BY <1>3, <1>4, <1>5, <1>7 DEF DeliveryInv, CompleteInv, TextDrawn
<1>12. FailureInv'
  BY <1>5 DEF DeliveryInv, FailureInv, FailureIsShown
<1> QED
  BY <1>4, <1>8, <1>9, <1>10, <1>11, <1>12 DEF DeliveryInv

\* Nothing.
LEMMA IdleStep == DeliveryInv /\ UNCHANGED vars => DeliveryInv'
<1> SUFFICES ASSUME DeliveryInv, UNCHANGED vars PROVE DeliveryInv'
  OBVIOUS
<1>1. UNCHANGED <<generator, controller, endpoint, wire, reader>>
  BY DEF vars
<1>2. P!IInv' /\ builder' = builder
  BY <1>1, GeneratorSteps DEF DeliveryInv, generator
<1>3. UNCHANGED <<lastSequence, ctlTerminal, sawCanonical, started, messageId, requestId, open,
                  currentToolId, buffer, shown, outcomes, srv, stored, wire, page, streamError,
                  aborted, saved>>
  BY <1>1 DEF controller, endpoint, reader
<1>4. DeliveryType'
  BY <1>3 DEF DeliveryInv, DeliveryType, ControllerType
<1>5. Aligned'
  BY <1>2, <1>3 DEF DeliveryInv, Aligned, AlignedAt, At
<1>6. TextConserved' /\ CompleteInv' /\ FailureInv'
  BY <1>2, <1>3 DEF DeliveryInv, TextConserved, CompleteInv, FailureInv, FailureIsShown
<1> QED
  BY <1>2, <1>4, <1>5, <1>6 DEF DeliveryInv

\* Every step keeps the invariant.
LEMMA DeliverySteps == DeliveryInv /\ [Next]_vars => DeliveryInv'
<1>1. Next => \/ Relay \/ Persist \/ SaveFails \/ Disconnect \/ ReadEvent \/ ReadDone \/ ReadError
              \/ StreamOver \/ Settle \/ ConnectionLost \/ Stop \/ Draw
  BY DEF Next, Endpoint, Reader
<1> QED
  BY <1>1, RelayStep, PersistStep, SaveFailsStep, DisconnectStep, ReadEventStep, ReadDoneStep,
     ReadErrorStep, StreamOverStep, SettleStep, ConnectionLostStep, StopStep, DrawStep, IdleStep

-----------------------------------------------------------------------------
(* The theorems. *)

\* So it always holds.
LEMMA DeliveryInvariance == Spec => []DeliveryInv
BY InitDelivery, DeliverySteps, PTL DEF Spec

\* While the page reads, the text it has drawn, the text it has buffered and
\* the text still on the way are together the text that was sent: whatever the
\* order in which the endpoint sends, the page reads and the callbacks of
\* response_controller.js run, no delta is lost, doubled or swapped.
THEOREM NoTextIsLost == Spec => []TextConserved
<1>1. DeliveryInv => TextConserved
  BY DEF DeliveryInv
<1> QED
  BY <1>1, DeliveryInvariance, PTL

\* A message that runGeneration() keeps as a complete answer is committed on
\* the server, and is to the last delta what the server collected.
THEOREM SavedAnswersAreStored == Spec => []SavedIsStored
<1>1. DeliveryInv => SavedIsStored
  BY DEF DeliveryInv, CompleteInv, SavedIsStored
<1> QED
  BY <1>1, DeliveryInvariance, PTL

\* A response that was not committed, and that the user has not stopped, is
\* shown as an error: a failure of the provider, of the commit or of the
\* connection never passes for an answer.
THEOREM FailuresAreShown == Spec => []FailureIsShown
<1>1. DeliveryInv => FailureIsShown
  BY DEF DeliveryInv, FailureInv
<1> QED
  BY <1>1, DeliveryInvariance, PTL

\* However the page reads, stops or loses the connection, the generator opens
\* at most MAX_TOOL_ROUNDS streams for a response, and one more for each round in
\* which no tool call had an id and a name.
THEOREM DeliveryIsBounded == Spec => []Gen!ProviderStreamsBounded
<1> DEFINE Inv == P!IInv /\ P!BoundInv
<1>1. Init => Inv
  BY GeneratorStarts DEF Init
<1>2. Inv /\ [Next]_vars => Inv'
  <2>1. Next => Gen!Generator \/ generator' = generator
    BY DEF Next, Endpoint, Reader, Relay, Persist, SaveFails, Disconnect, ReadEvent, ReadDone,
       ReadError, StreamOver, Settle, ConnectionLost, Stop, Draw
  <2>2. UNCHANGED vars => generator' = generator
    BY DEF vars
  <2> QED
    BY <2>1, <2>2, GeneratorSteps, GeneratorBounded
<1>3. Inv => Gen!ProviderStreamsBounded
  BY GeneratorBounded
<1> QED
  BY <1>1, <1>2, <1>3, PTL DEF Spec
=============================================================================
