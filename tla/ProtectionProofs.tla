-------------------------- MODULE ProtectionProofs --------------------------
(***************************************************************************)
(* Proofs about Resilience, EnhancedResilience and RateLimit, for any      *)
(* providers and models, any thresholds, times and limits and any number   *)
(* of wrapped calls: what the manager keeps of an outage agrees, no        *)
(* provider is tried while a lockout that its failures earned is running,  *)
(* and no key gets more within a window than the limit.                    *)
(***************************************************************************)
EXTENDS Resilience, EnhancedResilience, RateLimit,
        SequenceTheorems, NaturalsInduction, WellFoundedInduction, TLAPS

-----------------------------------------------------------------------------
(* RateLimit.  What a store keeps of a key is in the order of age, as is what *)
(* it let through; from the youngest on, each hit that was let through is at  *)
(* least as old as the one kept at the same place, so that it is gone first.  *)

\* Sets of numbers have a least element.
LEMMA LeastHit ==
  ASSUME NEW T \in SUBSET Nat, T # {}
  PROVE  \E x \in T : \A y \in T : x <= y
<1> DEFINE Ascending == {p \in Nat \X Nat : p[1] < p[2]}
<1>1. IsWellFoundedOn(Ascending, Nat)
  BY NatLessThanWellFounded DEF OpToRel
<1>2. PICK x \in T : \A y \in T : ~(<<y, x>> \in Ascending)
  <2> HIDE DEF Ascending
  <2> QED BY <1>1, WFMin
<1>3. ASSUME NEW y \in T PROVE x <= y
  <2>1. <<y, x>> \notin Ascending /\ x \in Nat /\ y \in Nat BY <1>2
  <2>2. y < x => <<y, x>> \in Ascending BY <2>1
  <2> QED BY <2>1, <2>2
<1> QED BY <1>3

\* What holds at 0 and is passed on up to N holds up to N.
LEMMA HitsUpTo ==
  ASSUME NEW N \in Nat, NEW S, 0 \in S,
         \A n \in 1..N : n - 1 \in S => n \in S
  PROVE  \A n \in 0..N : n \in S
<1> DEFINE T == {n \in 0..N : n \notin S}
<1>1. ASSUME NEW x \in T, \A y \in T : x <= y PROVE FALSE
  <2>1. x \in 1..N /\ x - 1 \in 0..N /\ ~(x <= x - 1)
    OBVIOUS
  <2>2. x - 1 \notin T
    BY <1>1, <2>1
  <2> QED
    BY <2>1, <2>2
<1>2. T \in SUBSET Nat
  OBVIOUS
<1>3. T = {}
  <2> HIDE DEF T
  <2> QED BY <1>1, <1>2, LeastHit
<1> QED
  BY <1>3


\* Hits in the order of age, the oldest first, all younger than an age.
Ordered(hits, age) ==
  /\ hits \in Seq(Nat)
  /\ \A i \in 1..Len(hits) : hits[i] < age
  /\ \A i, j \in 1..Len(hits) : i <= j => hits[j] <= hits[i]

\* From the youngest on, each hit of through is at least as old as the one kept.
Covers(kept, through) ==
  /\ Len(through) <= Len(kept)
  /\ \A j \in 0..Len(through) - 1 : kept[Len(kept) - j] <= through[Len(through) - j]

\* What is dropped is older, what stays is the rest.
LEMMA YoungerIs ==
  ASSUME NEW hits \in Seq(Nat), NEW age \in Nat
  PROVE  \E n \in 0..Len(hits) :
           /\ Younger(hits, age) = SubSeq(hits, n + 1, Len(hits))
           /\ \A i \in 1..n : hits[i] >= age
           /\ n < Len(hits) => hits[n + 1] < age
<1> DEFINE kept == {i \in 1..Len(hits) + 1 : i = Len(hits) + 1 \/ hits[i] < age}
           first == CHOOSE i \in kept : \A j \in kept : i <= j
<1>0. Len(hits) \in Nat OBVIOUS
<1>1. kept \in SUBSET Nat /\ Len(hits) + 1 \in kept BY <1>0
<1>2. \A i \in 1..Len(hits) : i \in kept <=> hits[i] < age BY <1>0
<1>3. \A i \in kept : i \in 1..Len(hits) + 1 OBVIOUS
<1>4. Younger(hits, age) = SubSeq(hits, first, Len(hits)) BY DEF Younger
<1> HIDE DEF kept
<1>5. first \in kept /\ \A j \in kept : first <= j
  <2>1. \E x \in kept : \A y \in kept : x <= y BY <1>1, LeastHit
  <2>. QED BY <2>1
<1> HIDE DEF first
<1>6. first \in 1..Len(hits) + 1 BY <1>3, <1>5
<1>7. first - 1 \in 0..Len(hits) /\ (first - 1) + 1 = first BY <1>0, <1>6
<1>8. ASSUME NEW i \in 1..first - 1 PROVE hits[i] >= age
  <2>1. i \in 1..Len(hits) /\ i \notin kept BY <1>0, <1>5, <1>6
  <2>2. hits[i] \in Nat BY <2>1
  <2>. QED BY <1>2, <2>1, <2>2
<1>9. first - 1 < Len(hits) => hits[first] < age BY <1>0, <1>2, <1>5, <1>6
<1>. QED BY <1>4, <1>7, <1>8, <1>9

\* The rest of what was in order is in order, and the same from the youngest on.
LEMMA Rest ==
  ASSUME NEW hits \in Seq(Nat), NEW age \in Nat,
         \A i, j \in 1..Len(hits) : i <= j => hits[j] <= hits[i]
  PROVE  /\ Ordered(Younger(hits, age), age)
         /\ Len(Younger(hits, age)) <= Len(hits)
         /\ \A j \in 0..Len(Younger(hits, age)) - 1 :
              Younger(hits, age)[Len(Younger(hits, age)) - j] = hits[Len(hits) - j]
         /\ \A j \in 0..Len(hits) - 1 : hits[Len(hits) - j] < age => j < Len(Younger(hits, age))
<1> DEFINE rest == Younger(hits, age)
<1>0. Len(hits) \in Nat OBVIOUS
<1>1. PICK n \in 0..Len(hits) :
           /\ rest = SubSeq(hits, n + 1, Len(hits))
           /\ \A i \in 1..n : hits[i] >= age
           /\ n < Len(hits) => hits[n + 1] < age
  BY YoungerIs
<1> HIDE DEF rest
<1>2. /\ rest \in Seq(Nat) /\ Len(rest) = Len(hits) - n
      /\ \A i \in 1..Len(hits) - n : rest[i] = hits[n + i]
  <2>1. n + 1 \in Int /\ Len(hits) \in Int /\ \A i \in n + 1..Len(hits) : hits[i] \in Nat BY <1>0
  <2>2. /\ rest \in Seq(Nat)
        /\ Len(rest) = IF n + 1 <= Len(hits) THEN Len(hits) - (n + 1) + 1 ELSE 0
        /\ \A i \in 1..Len(hits) - (n + 1) + 1 : rest[i] = hits[(n + 1) + i - 1]
    BY <1>1, <2>1, SubSeqProperties
  <2>. QED BY <1>0, <2>2
<1>3. \A i \in 1..Len(hits) : hits[i] \in Nat OBVIOUS
<1>4. ASSUME NEW i \in 1..Len(rest) PROVE rest[i] < age
  <2>1. n < Len(hits) /\ n + 1 \in 1..Len(hits) /\ n + i \in 1..Len(hits) /\ n + 1 <= n + i
    BY <1>0, <1>2
  <2>2. hits[n + i] <= hits[n + 1] BY <2>1
  <2>3. rest[i] = hits[n + i] BY <1>2
  <2>4. hits[n + 1] < age BY <1>1, <2>1
  <2>5. hits[n + i] \in Nat /\ hits[n + 1] \in Nat BY <1>3, <2>1
  <2>. QED BY SMTT(30), <2>2, <2>3, <2>4, <2>5
<1>5. ASSUME NEW i \in 1..Len(rest), NEW j \in 1..Len(rest), i <= j PROVE rest[j] <= rest[i]
  <2>1. n + i \in 1..Len(hits) /\ n + j \in 1..Len(hits) /\ n + i <= n + j BY <1>0, <1>2, <1>5
  <2>. QED BY <1>2, <2>1
<1>6. ASSUME NEW j \in 0..Len(rest) - 1 PROVE rest[Len(rest) - j] = hits[Len(hits) - j]
  <2>1. Len(rest) - j \in 1..Len(hits) - n /\ n + (Len(rest) - j) = Len(hits) - j BY <1>0, <1>2
  <2>. QED BY <1>2, <2>1
<1>7. ASSUME NEW j \in 0..Len(hits) - 1, hits[Len(hits) - j] < age PROVE j < Len(rest)
  <2>1. Len(hits) - j \in 1..Len(hits) BY <1>0
  <2>2. Len(hits) - j \notin 1..n BY SMTT(30), <1>0, <1>1, <1>3, <1>7, <2>1
  <2>. QED BY <1>0, <1>2, <2>1, <2>2
<1>8. Len(rest) <= Len(hits) BY <1>0, <1>2
<1>9. Ordered(rest, age) BY <1>2, <1>4, <1>5 DEF Ordered
<1>. QED BY <1>6, <1>7, <1>8, <1>9 DEF rest

\* What is young enough already stays.
LEMMA YoungStays ==
  ASSUME NEW age \in Nat, NEW hits, Ordered(hits, age)
  PROVE  Younger(hits, age) = hits
<1>1. hits \in Seq(Nat) /\ Len(hits) \in Nat BY DEF Ordered
<1>2. PICK n \in 0..Len(hits) :
           /\ Younger(hits, age) = SubSeq(hits, n + 1, Len(hits))
           /\ \A i \in 1..n : hits[i] >= age
  BY <1>1, YoungerIs
<1>3. n = 0
  <2>1. ASSUME n # 0 PROVE FALSE
    <3>1. 1 \in 1..n /\ 1 \in 1..Len(hits) BY <1>1, <2>1
    <3>2. hits[1] >= age /\ hits[1] < age /\ hits[1] \in Nat BY <1>1, <1>2, <3>1 DEF Ordered
    <3>. QED BY <3>2
  <2>. QED BY <2>1
<1>. QED BY <1>1, <1>2, <1>3, SubSeqFull

\* A unit of time later: what was let through leaves no later than what is kept.
LEMMA TimePasses ==
  ASSUME NEW age \in Nat, NEW span \in Nat, span <= age, age <= WindowSeconds + 1,
         NEW kept, NEW through, Ordered(kept, age), Ordered(through, span), Covers(kept, through)
  PROVE  /\ Ordered(Younger(Aged(kept), age), age)
         /\ Ordered(Younger(Aged(through), span), span)
         /\ Covers(Younger(Aged(kept), age), Younger(Aged(through), span))
         /\ Len(Younger(Aged(through), span)) <= Len(through)
<1>0. WindowSeconds \in Nat BY RateLimitAssumption
<1>1. ASSUME NEW hits, Ordered(hits, age)
      PROVE  /\ Aged(hits) \in Seq(Nat) /\ Len(Aged(hits)) = Len(hits) /\ Len(hits) \in Nat
             /\ \A i \in 1..Len(hits) : hits[i] \in Nat /\ Aged(hits)[i] = hits[i] + 1
             /\ \A i, j \in 1..Len(Aged(hits)) : i <= j => Aged(hits)[j] <= Aged(hits)[i]
  <2>1. hits \in Seq(Nat) /\ Len(hits) \in Nat /\ DOMAIN hits = 1..Len(hits) BY <1>1 DEF Ordered
  <2>2. \A i \in 1..Len(hits) : hits[i] \in Nat /\ ~(hits[i] > WindowSeconds)
    BY <1>0, <1>1, <2>1 DEF Ordered
  <2>3. Aged(hits) = [i \in 1..Len(hits) |-> hits[i] + 1] BY <2>1, <2>2 DEF Aged
  <2>4. Aged(hits) \in Seq(Nat) /\ Len(Aged(hits)) = Len(hits) BY <2>1, <2>2, <2>3
  <2>5. \A i \in 1..Len(hits) : hits[i] \in Nat /\ Aged(hits)[i] = hits[i] + 1 BY <2>2, <2>3
  <2>6. ASSUME NEW i \in 1..Len(Aged(hits)), NEW j \in 1..Len(Aged(hits)), i <= j
        PROVE  Aged(hits)[j] <= Aged(hits)[i]
    <3>1. i \in 1..Len(hits) /\ j \in 1..Len(hits) BY <2>4
    <3>2. hits[j] <= hits[i] BY <1>1, <2>6, <3>1 DEF Ordered
    <3>. QED BY <2>5, <3>1, <3>2
  <2>. QED BY <2>1, <2>4, <2>5, <2>6
<1>2. Ordered(through, age) BY <1>0 DEF Ordered
<1> DEFINE K == Aged(kept)
           T == Aged(through)
           k == Younger(K, age)
           t == Younger(T, span)
<1>3. /\ K \in Seq(Nat) /\ Len(K) = Len(kept) /\ Len(kept) \in Nat
      /\ \A i \in 1..Len(kept) : kept[i] \in Nat /\ K[i] = kept[i] + 1
      /\ \A i, j \in 1..Len(K) : i <= j => K[j] <= K[i]
  BY <1>1
<1>4. /\ T \in Seq(Nat) /\ Len(T) = Len(through) /\ Len(through) \in Nat
      /\ \A i \in 1..Len(through) : through[i] \in Nat /\ T[i] = through[i] + 1
      /\ \A i, j \in 1..Len(T) : i <= j => T[j] <= T[i]
  BY <1>1, <1>2
<1> HIDE DEF K, T
<1>5. /\ Ordered(k, age) /\ Len(k) <= Len(K)
      /\ \A j \in 0..Len(k) - 1 : k[Len(k) - j] = K[Len(K) - j]
      /\ \A j \in 0..Len(K) - 1 : K[Len(K) - j] < age => j < Len(k)
  BY <1>3, Rest
<1>6. /\ Ordered(t, span) /\ Len(t) <= Len(T)
      /\ \A j \in 0..Len(t) - 1 : t[Len(t) - j] = T[Len(T) - j]
  BY <1>4, Rest
<1> HIDE DEF k, t
<1>7. Len(k) \in Nat /\ Len(t) \in Nat BY <1>5, <1>6 DEF Ordered
<1>8. ASSUME NEW j \in 0..Len(t) - 1
      PROVE  j < Len(k) /\ k[Len(k) - j] <= t[Len(t) - j]
  <2> DEFINE a == Len(kept) - j
             b == Len(through) - j
             c == Len(t) - j
             d == Len(k) - j
  <2>0. Len(through) <= Len(kept) BY DEF Covers
  <2>1. /\ j \in 0..Len(through) - 1 /\ j \in 0..Len(K) - 1
        /\ a \in 1..Len(kept) /\ b \in 1..Len(through) /\ c \in 1..Len(t)
    <3>1. Len(kept) \in Nat /\ Len(through) \in Nat /\ Len(K) = Len(kept) /\ Len(T) = Len(through)
          /\ Len(t) <= Len(T) /\ Len(t) \in Nat
      BY <1>3, <1>4, <1>6, <1>7
    <3>. QED BY <2>0, <3>1
  <2>2. kept[a] <= through[b] BY <2>1 DEF Covers
  <2>7. Len(K) - j = a /\ Len(T) - j = b BY <1>3, <1>4
  <2>8. t[c] = T[b] BY <1>6, <2>7
  <2>9. K[a] < age => j < Len(k) BY <1>5, <2>1, <2>7
  <2>10. j \in 0..Len(k) - 1 => k[d] = K[a] BY <1>5, <2>7
  <2> HIDE DEF a, b, c
  <2>3. K[a] <= T[b] /\ K[a] \in Nat
    <3>1. kept[a] \in Nat /\ K[a] = kept[a] + 1 BY <1>3, <2>1
    <3>2. through[b] \in Nat /\ T[b] = through[b] + 1 BY <1>4, <2>1
    <3>. QED BY <2>2, <3>1, <3>2
  <2>4. t[c] < span /\ t[c] \in Nat
    <3>1. t \in Seq(Nat) /\ \A i \in 1..Len(t) : t[i] < span BY <1>6 DEF Ordered
    <3>2. c \in 1..Len(t) BY <2>1
    <3>. QED BY <3>1, <3>2
  <2>5. K[a] < age BY <2>3, <2>4, <2>8
  <2>6. j < Len(k) BY <2>5, <2>9
  <2>11. k[d] <= t[c] BY <1>7, <2>3, <2>6, <2>8, <2>10
  <2>. QED BY <2>6, <2>11 DEF c, d
<1>9. Len(t) <= Len(k)
  <2>1. CASE Len(t) = 0 BY <1>7, <2>1
  <2>2. CASE Len(t) # 0
    <3>1. Len(t) - 1 \in 0..Len(t) - 1 BY <1>7, <2>2
    <3>2. Len(t) - 1 < Len(k) BY <1>8, <3>1
    <3>. QED BY <1>7, <3>2
  <2>. QED BY <2>1, <2>2
<1>10. Covers(k, t) BY <1>8, <1>9 DEF Covers
<1>. QED BY <1>4, <1>5, <1>6, <1>10 DEF k, t, K, T

\* A hit of now is kept, and is let through with it or not.
LEMMA HitKept ==
  ASSUME NEW age \in Nat \ {0}, NEW span \in Nat \ {0}, NEW kept, NEW through,
         Ordered(kept, age), Ordered(through, span), Covers(kept, through)
  PROVE  /\ Ordered(Append(kept, 0), age) /\ Ordered(Append(through, 0), span)
         /\ Covers(Append(kept, 0), Append(through, 0))
         /\ Covers(Append(kept, 0), through)
<1>1. ASSUME NEW hits, NEW bound \in Nat \ {0}, Ordered(hits, bound)
      PROVE  /\ Ordered(Append(hits, 0), bound)
             /\ Len(hits) \in Nat /\ Len(Append(hits, 0)) = Len(hits) + 1
             /\ \A i \in 1..Len(hits) : Append(hits, 0)[i] = hits[i]
             /\ Append(hits, 0)[Len(hits) + 1] = 0
             /\ \A i \in 1..Len(hits) : hits[i] \in Nat
             /\ \A i \in 1..Len(hits) - 1 : hits[i + 1] <= hits[i]
  <2>0. hits \in Seq(Nat) /\ Len(hits) \in Nat BY <1>1 DEF Ordered
  <2> DEFINE new == Append(hits, 0)
  <2>1. /\ new \in Seq(Nat) /\ Len(new) = Len(hits) + 1
        /\ \A i \in 1..Len(hits) : new[i] = hits[i]
        /\ new[Len(hits) + 1] = 0
    BY <2>0
  <2> HIDE DEF new
  <2>2. \A i \in 1..Len(hits) : hits[i] \in Nat /\ hits[i] < bound BY <1>1, <2>0 DEF Ordered
  <2>3. ASSUME NEW i \in 1..Len(new) PROVE new[i] < bound
    <3>1. i \in 1..Len(hits) \/ i = Len(hits) + 1 BY <2>0, <2>1
    <3>. QED BY <2>1, <2>2, <3>1
  <2>4. ASSUME NEW i \in 1..Len(new), NEW j \in 1..Len(new), i <= j PROVE new[j] <= new[i]
    <3>1. (i \in 1..Len(hits) /\ j \in 1..Len(hits)) \/ j = Len(hits) + 1 BY SMTT(30), <2>0, <2>1, <2>4
    <3>2. new[i] \in Nat BY <2>1
    <3>3. CASE j = Len(hits) + 1 BY <2>1, <3>2, <3>3
    <3>4. CASE i \in 1..Len(hits) /\ j \in 1..Len(hits)
      <4>1. hits[j] <= hits[i] BY <1>1, <2>4, <3>4 DEF Ordered
      <4>. QED BY <2>1, <3>4, <4>1
    <3>. QED BY <3>1, <3>3, <3>4
  <2>5. Ordered(new, bound) BY <2>1, <2>3, <2>4 DEF Ordered
  <2>6. ASSUME NEW i \in 1..Len(hits) - 1 PROVE hits[i + 1] <= hits[i]
    <3>1. i \in 1..Len(hits) /\ i + 1 \in 1..Len(hits) /\ i <= i + 1 BY <2>0
    <3>. QED BY <1>1, <3>1 DEF Ordered
  <2>. QED BY <2>0, <2>1, <2>2, <2>5, <2>6 DEF new
<1> DEFINE K == Append(kept, 0)
           T == Append(through, 0)
<1>2. /\ Ordered(K, age) /\ Len(kept) \in Nat /\ Len(K) = Len(kept) + 1
      /\ \A i \in 1..Len(kept) : K[i] = kept[i]
      /\ K[Len(kept) + 1] = 0
      /\ \A i \in 1..Len(kept) : kept[i] \in Nat
      /\ \A i \in 1..Len(kept) - 1 : kept[i + 1] <= kept[i]
  BY <1>1
<1>3. /\ Ordered(T, span) /\ Len(through) \in Nat /\ Len(T) = Len(through) + 1
      /\ \A i \in 1..Len(through) : T[i] = through[i]
      /\ T[Len(through) + 1] = 0
      /\ \A i \in 1..Len(through) : through[i] \in Nat
  BY <1>1
<1> HIDE DEF K, T
<1>4. Len(through) <= Len(kept)
      /\ \A j \in 0..Len(through) - 1 : kept[Len(kept) - j] <= through[Len(through) - j]
  BY DEF Covers
<1>5. ASSUME NEW j \in 0..Len(T) - 1 PROVE K[Len(K) - j] <= T[Len(T) - j]
  <2>1. CASE j = 0 BY <1>2, <1>3, <2>1
  <2>2. CASE j # 0
    <3>1. j - 1 \in 0..Len(through) - 1 BY <1>3, <2>2
    <3>2. kept[Len(kept) - (j - 1)] <= through[Len(through) - (j - 1)] BY <1>4, <3>1
    <3>3. Len(kept) - (j - 1) = Len(K) - j /\ Len(through) - (j - 1) = Len(T) - j BY <1>2, <1>3
    <3>4. Len(K) - j \in 1..Len(kept) /\ Len(T) - j \in 1..Len(through) BY <1>2, <1>3, <1>4, <3>1
    <3>. QED BY <1>2, <1>3, <3>2, <3>3, <3>4
  <2>. QED BY <2>1, <2>2
<1>6. ASSUME NEW j \in 0..Len(through) - 1 PROVE K[Len(K) - j] <= through[Len(through) - j]
  <2>0. Len(through) - j \in 1..Len(through) BY <1>3
  <2>1. CASE j = 0 BY <1>2, <1>3, <2>0, <2>1
  <2>2. CASE j # 0
    <3> DEFINE a == Len(kept) - j
    <3>1. kept[a] <= through[Len(through) - j] BY <1>4
    <3>2. a \in 1..Len(kept) - 1 /\ a + 1 = Len(K) - j BY <1>2, <1>3, <1>4, <2>2
    <3> HIDE DEF a
    <3>3. a \in 1..Len(kept) /\ a + 1 \in 1..Len(kept) BY <1>2, <3>2
    <3>4. kept[a + 1] <= kept[a] BY <1>2, <3>2
    <3>5. kept[a] \in Nat /\ kept[a + 1] \in Nat /\ through[Len(through) - j] \in Nat
          /\ K[a + 1] = kept[a + 1]
      BY <1>2, <1>3, <2>0, <3>3
    <3>6. K[a + 1] <= through[Len(through) - j] BY <3>1, <3>4, <3>5
    <3>. QED BY <3>2, <3>6
  <2>. QED BY <2>1, <2>2
<1>7. Covers(K, T) BY <1>2, <1>3, <1>4, <1>5 DEF Covers
<1>8. Covers(K, through) BY <1>2, <1>3, <1>4, <1>6 DEF Covers
<1>. QED BY <1>2, <1>3, <1>7, <1>8 DEF K, T

\* The largest limit is one, and no other is larger.
LEMMA MostIsLargest ==
  Most \in Nat /\ \A i \in DOMAIN Limits : Limits[i].requests \in Nat /\ Limits[i].requests <= Most
<1>0. Limits \in Seq([scope : {"ip", "user"}, requests : Nat]) /\ Limits # << >>
  BY RateLimitAssumption
<1>1. Len(Limits) \in Nat \ {0} /\ DOMAIN Limits = 1..Len(Limits)
      /\ \A i \in 1..Len(Limits) : Limits[i].requests \in Nat
  <2>1. Len(Limits) \in Nat /\ DOMAIN Limits = 1..Len(Limits) /\ Len(Limits) # 0 BY <1>0, EmptySeq
  <2> DEFINE R == [scope : {"ip", "user"}, requests : Nat]
  <2>2. \A i \in 1..Len(Limits) : Limits[i] \in R
    <3>1. Limits \in Seq(R) BY <1>0
    <3> HIDE DEF R
    <3>. QED BY <3>1
  <2>. QED BY <2>1, <2>2
<1> DEFINE S == {n \in 0..Len(Limits) : n # 0 =>
                   \E m \in 1..n : \A o \in 1..n : Limits[o].requests <= Limits[m].requests}
<1>2. 0 \in S BY <1>1
<1>3. ASSUME NEW n \in 1..Len(Limits), n - 1 \in S PROVE n \in S
  <2>1. CASE n = 1
    <3>1. \A o \in 1..n : Limits[o].requests <= Limits[n].requests BY <1>1, <2>1
    <3>. QED BY <1>1, <3>1
  <2>2. CASE n # 1
    <3>1. PICK m \in 1..n - 1 : \A o \in 1..n - 1 : Limits[o].requests <= Limits[m].requests
      BY <1>3, <2>2
    <3>2. \A o \in 1..n : o = n \/ o \in 1..n - 1 BY <1>1
    <3>3. m \in 1..Len(Limits) /\ m \in 1..n /\ n \in 1..n BY <1>1
    <3>4. Limits[m].requests \in Nat /\ Limits[n].requests \in Nat BY <1>1, <3>3
    <3>5. CASE Limits[n].requests <= Limits[m].requests
      <4>1. \A o \in 1..n : Limits[o].requests <= Limits[m].requests BY <3>1, <3>2, <3>5
      <4>. QED BY <1>1, <3>3, <4>1
    <3>6. CASE ~(Limits[n].requests <= Limits[m].requests)
      <4>1. ASSUME NEW o \in 1..n PROVE Limits[o].requests <= Limits[n].requests
        <5>1. o \in 1..Len(Limits) BY <1>1
        <5>2. Limits[o].requests \in Nat BY <1>1, <5>1
        <5>. QED BY <3>1, <3>2, <3>4, <3>6, <5>2
      <4>2. \E q \in 1..n : \A o \in 1..n : Limits[o].requests <= Limits[q].requests BY <3>3, <4>1
      <4>3. n \in 0..Len(Limits) BY <1>1
      <4>. QED BY <4>2, <4>3
    <3>. QED BY <3>5, <3>6
  <2>. QED BY <2>1, <2>2
<1>4. Len(Limits) \in S
  <2> HIDE DEF S
  <2>1. \A n \in 0..Len(Limits) : n \in S BY <1>1, <1>2, <1>3, HitsUpTo
  <2>. QED BY <1>1, <2>1
<1>5. PICK i \in DOMAIN Limits : \A o \in DOMAIN Limits : Limits[o].requests <= Limits[i].requests
  BY <1>1, <1>4
<1> DEFINE m == {Limits[j].requests : j \in DOMAIN Limits}
<1>6. Limits[i].requests \in m /\ \A o \in m : o <= Limits[i].requests BY <1>5
<1>7. Most \in m /\ \A o \in m : o <= Most
  <2>1. Most = CHOOSE n \in m : \A o \in m : o <= n BY DEF Most
  <2> HIDE DEF m
  <2>. QED BY <1>6, <2>1
<1>. QED BY <1>1, <1>7

Stored(k, s) == IF s = "redis" THEN redis[k] ELSE memory[k]
Span(s) == IF s = "redis" THEN WindowSeconds ELSE WindowSeconds + 1

RateType ==
  /\ redis \in [Key -> Seq(Nat)] /\ memory \in [Key -> Seq(Nat)]
  /\ serving \in [LPlace -> [client : Client \cup {Nobody}, user : LUser \cup {Nobody}, next : Nat]]
  /\ \A r \in LPlace : serving[r].next # 0 => serving[r].client \in Client
  /\ admitted \in [Key -> [Store -> Seq(Nat)]]

\* What is so of a key in a store.
Accounted(k, s) ==
  /\ Ordered(Stored(k, s), Span(s)) /\ Ordered(admitted[k][s], WindowSeconds)
  /\ Covers(Stored(k, s), admitted[k][s])
  /\ Len(admitted[k][s]) <= Most

RateInv == RateType /\ \A k \in Key, s \in Store : Accounted(k, s)

\* Nothing is kept, nothing was let through.
LEMMA NoHits ==
  \A age \in Nat : Ordered(<< >>, age) /\ Covers(<< >>, << >>) /\ Len(<< >>) <= Most
<1>1. << >> \in Seq(Nat) /\ Len(<< >>) = 0 BY EmptySeq
<1>. QED BY <1>1, MostIsLargest DEF Ordered, Covers

\* The start: nobody has come.
LEMMA RateStarts == LInit => RateInv
<1> SUFFICES ASSUME LInit PROVE RateInv OBVIOUS
<1>0. WindowSeconds \in Nat BY RateLimitAssumption
<1>1. RateType
  <2>1. redis \in [Key -> Seq(Nat)] /\ memory \in [Key -> Seq(Nat)] BY EmptySeq DEF LInit
  <2>2. NoRequest \in [client : Client \cup {Nobody}, user : LUser \cup {Nobody}, next : Nat]
        /\ NoRequest.next = 0 BY DEF NoRequest
  <2>3. serving \in [LPlace -> [client : Client \cup {Nobody}, user : LUser \cup {Nobody}, next : Nat]]
        /\ \A r \in LPlace : serving[r].next = 0
    BY <2>2 DEF LInit
  <2>4. admitted \in [Key -> [Store -> Seq(Nat)]]
    <3>1. [s \in Store |-> << >>] \in [Store -> Seq(Nat)] BY EmptySeq
    <3>. QED BY <3>1 DEF LInit
  <2>. QED BY <2>1, <2>3, <2>4 DEF RateType
<1>2. ASSUME NEW k \in Key, NEW s \in Store PROVE Accounted(k, s)
  <2>1. Stored(k, s) = << >> /\ admitted[k][s] = << >> BY DEF LInit, Stored
  <2>2. Span(s) \in Nat BY <1>0 DEF Span
  <2>. QED BY <1>0, <2>1, <2>2, NoHits DEF Accounted
<1>. QED BY <1>1, <1>2 DEF RateInv

\* What is kept is what is counted.
LEMMA AllCounted ==
  ASSUME RateInv, NEW k \in Key, NEW s \in Store
  PROVE  Counted(s, k) = Stored(k, s)
<1>0. WindowSeconds \in Nat BY RateLimitAssumption
<1>1. Ordered(Stored(k, s), Span(s)) BY DEF RateInv, Accounted
<1>2. Younger(Stored(k, s), Span(s)) = Stored(k, s)
  <2>1. Span(s) \in Nat BY <1>0 DEF Span
  <2>. QED BY <1>1, <2>1, YoungStays
<1>3. Counted(s, k) = Younger(Stored(k, s), Span(s)) BY DEF Counted, Stored, Span
<1>. QED BY <1>2, <1>3

\* A check: a hit is let through where fewer are kept than the limit.  One that
\* is the same as the last for Redis changes neither what is kept nor the history.
LEMMA CheckStep ==
  ASSUME RateInv, NEW r \in LPlace, NEW same \in BOOLEAN, Check(r, same)
  PROVE  RateInv'
<1> DEFINE q == serving[r]
           limit == Limits[q.next]
           k == KeyOf(q, limit)
           store == IF redisUp THEN "redis" ELSE "memory"
           hits == Counted(store, k)
           allowed == Len(hits) < limit.requests
<1> USE DEF RateInv
<1>0. WindowSeconds \in Nat \ {0} BY RateLimitAssumption
<1>1. /\ q.next \in DOMAIN Limits
      /\ same => store = "redis"
      /\ redis' = IF store = "redis"
                  THEN [redis EXCEPT ![k] = IF same THEN hits ELSE Append(hits, 0)] ELSE redis
      /\ memory' = IF store = "memory"
                   THEN [memory EXCEPT ![k] = IF allowed THEN Append(hits, 0) ELSE hits] ELSE memory
      /\ admitted' = IF allowed /\ ~same THEN [admitted EXCEPT ![k][store] = Append(@, 0)] ELSE admitted
      /\ serving' = IF allowed THEN [serving EXCEPT ![r].next = @ + 1] ELSE [serving EXCEPT ![r] = NoRequest]
  BY DEF Check
<1>2. limit.requests <= Most /\ limit.requests \in Nat /\ Most \in Nat /\ q.next \in Nat \ {0}
  <2>1. q.next \in Nat \ {0}
    <3>1. DOMAIN Limits = 1..Len(Limits) /\ Len(Limits) \in Nat BY RateLimitAssumption
    <3>2. q.next \in DOMAIN Limits BY <1>1, Zenon
    <3> HIDE DEF q
    <3>. QED BY <3>1, <3>2
  <2>. QED BY <1>1, <2>1, MostIsLargest
<1>3. k \in Key
  <2>1. q.client \in Client /\ q.user \in LUser \cup {Nobody} BY <1>2 DEF RateType
  <2>. QED BY <2>1 DEF KeyOf, Key
<1>4. store \in Store BY DEF Store
<1>5. hits = Stored(k, store) BY <1>3, <1>4, AllCounted
<1>6. Ordered(hits, Span(store)) /\ Ordered(admitted[k][store], WindowSeconds)
      /\ Covers(hits, admitted[k][store]) /\ Len(admitted[k][store]) <= Most
  BY <1>3, <1>4, <1>5 DEF Accounted
<1>7. Span(store) \in Nat \ {0} BY <1>0 DEF Span
<1> HIDE DEF hits, k, limit
<1> DEFINE kept == Append(hits, 0)
           through == Append(admitted[k][store], 0)
<1>8. /\ Ordered(kept, Span(store)) /\ Ordered(through, WindowSeconds)
      /\ Covers(kept, through) /\ Covers(kept, admitted[k][store])
  BY <1>0, <1>6, <1>7, HitKept
<1>9. allowed => Len(through) <= Most
  <2>1. Len(admitted[k][store]) <= Len(hits) BY <1>6 DEF Covers
  <2>2. hits \in Seq(Nat) /\ admitted[k][store] \in Seq(Nat) BY <1>6 DEF Ordered
  <2>. QED BY <1>2, <2>1, <2>2
<1> HIDE DEF kept, store
<1> DEFINE new == IF ~same /\ (redisUp \/ allowed) THEN kept ELSE hits
           passed == IF allowed /\ ~same THEN through ELSE admitted[k][store]
<1>10. Ordered(new, Span(store)) /\ Ordered(passed, WindowSeconds) /\ Covers(new, passed)
       /\ Len(passed) <= Most
  BY <1>6, <1>8, <1>9
<1>11. new \in Seq(Nat) /\ passed \in Seq(Nat) BY <1>10 DEF Ordered
<1>12. /\ redis' = IF store = "redis" THEN [redis EXCEPT ![k] = new] ELSE redis
       /\ memory' = IF store = "memory" THEN [memory EXCEPT ![k] = new] ELSE memory
  BY <1>1 DEF store, kept
<1>13. admitted' = [admitted EXCEPT ![k] = [admitted[k] EXCEPT ![store] = passed]]
  <2>1. admitted \in [Key -> [Store -> Seq(Nat)]] BY DEF RateType
  <2>2. CASE allowed /\ ~same BY <1>1, <1>3, <1>4, <2>1, <2>2
  <2>3. CASE ~(allowed /\ ~same)
    <3>1. admitted' = admitted /\ passed = admitted[k][store] BY <1>1, <2>3
    <3>2. [admitted[k] EXCEPT ![store] = admitted[k][store]] = admitted[k] BY <1>3, <1>4, <2>1
    <3>3. [admitted EXCEPT ![k] = admitted[k]] = admitted BY <1>3, <2>1
    <3>. QED BY <3>1, <3>2, <3>3
  <2>. QED BY <2>2, <2>3
<1>14. serving' \in [LPlace -> [client : Client \cup {Nobody}, user : LUser \cup {Nobody}, next : Nat]]
       /\ \A p \in LPlace : serving'[p].next # 0 => serving'[p].client \in Client
  <2> DEFINE Request == [client : Client \cup {Nobody}, user : LUser \cup {Nobody}, next : Nat]
             then == IF allowed THEN [q EXCEPT !.next = q.next + 1] ELSE NoRequest
  <2>1. q \in Request /\ (q.next # 0 => q.client \in Client) BY DEF RateType
  <2>2. then \in Request /\ (then.next # 0 => then.client \in Client)
    <3>1. CASE allowed BY <1>2, <2>1, <3>1
    <3>2. CASE ~allowed BY <3>2 DEF NoRequest
    <3>. QED BY <3>1, <3>2
  <2>3. serving' = [serving EXCEPT ![r] = then]
    <3>1. CASE allowed BY <1>1, <3>1
    <3>2. CASE ~allowed BY <1>1, <3>2
    <3>. QED BY <3>1, <3>2
  <2> HIDE DEF then
  <2>. QED BY <2>2, <2>3 DEF RateType
<1> HIDE DEF new, passed, allowed
<1>15. RateType' BY <1>3, <1>4, <1>11, <1>12, <1>13, <1>14 DEF RateType
<1>16. ASSUME NEW l \in Key, NEW s \in Store PROVE Accounted(l, s)'
  <2>1. CASE l = k /\ s = store
    <3>0. redis \in [Key -> Seq(Nat)] /\ memory \in [Key -> Seq(Nat)] /\ k \in Key BY <1>3 DEF RateType
    <3>1. Stored(l, s)' = new
      <4>1. CASE s = "redis" BY <1>12, <2>1, <3>0, <4>1 DEF Stored
      <4>2. CASE s = "memory" BY <1>12, <2>1, <3>0, <4>2 DEF Stored
      <4>. QED BY <4>1, <4>2 DEF Store
    <3>2. admitted'[l][s] = passed BY <1>3, <1>4, <1>13, <2>1 DEF RateType
    <3>3. Ordered(new, Span(s)) BY <1>10, <2>1
    <3>4. Span(s)' = Span(s) BY DEF Span
    <3>. QED BY <1>10, <3>1, <3>2, <3>3, <3>4 DEF Accounted
  <2>2. CASE ~(l = k /\ s = store)
    <3>1. Stored(l, s)' = Stored(l, s) BY <1>3, <1>4, <1>12, <2>2 DEF Stored, RateType, Store
    <3>2. admitted'[l][s] = admitted[l][s] BY <1>3, <1>4, <1>13, <2>2 DEF RateType
    <3>. QED BY <3>1, <3>2 DEF Accounted, Span
  <2>. QED BY <2>1, <2>2
<1>. QED BY <1>15, <1>16

\* The other steps of requests, and the end of an outage or its start.
LEMMA RequestSteps ==
  ASSUME RateInv,
         \/ \E r \in LPlace : Pass(r)
         \/ \E r \in LPlace, c \in Client, u \in LUser \cup {Nobody} : Arrive(r, c, u)
         \/ RedisAnswers \/ UNCHANGED lvars
  PROVE  RateInv'
<1> USE DEF RateInv
<1> DEFINE Request == [client : Client \cup {Nobody}, user : LUser \cup {Nobody}, next : Nat]
<1>1. UNCHANGED <<redis, memory, admitted>> BY DEF Pass, Arrive, RedisAnswers, lvars
<1>2. serving' \in [LPlace -> Request] /\ \A r \in LPlace : serving'[r].next # 0 => serving'[r].client \in Client
  <2>1. ASSUME NEW r \in LPlace, NEW q \in Request, q.next # 0 => q.client \in Client,
               serving' = [serving EXCEPT ![r] = q]
        PROVE  serving' \in [LPlace -> Request]
               /\ \A p \in LPlace : serving'[p].next # 0 => serving'[p].client \in Client
    BY <2>1 DEF RateType
  <2>2. ASSUME NEW r \in LPlace, Pass(r)
        PROVE  serving' \in [LPlace -> Request]
               /\ \A p \in LPlace : serving'[p].next # 0 => serving'[p].client \in Client
    <3>1. NoRequest \in Request /\ NoRequest.next = 0 BY DEF NoRequest
    <3>. QED BY <2>1, <2>2, <3>1 DEF Pass
  <2>3. ASSUME NEW r \in LPlace, NEW c \in Client, NEW u \in LUser \cup {Nobody}, Arrive(r, c, u)
        PROVE  serving' \in [LPlace -> Request]
               /\ \A p \in LPlace : serving'[p].next # 0 => serving'[p].client \in Client
    <3>1. [client |-> c, user |-> u, next |-> 1] \in Request OBVIOUS
    <3>. QED BY <2>1, <2>3, <3>1 DEF Arrive
  <2>4. ASSUME UNCHANGED serving
        PROVE  serving' \in [LPlace -> Request]
               /\ \A p \in LPlace : serving'[p].next # 0 => serving'[p].client \in Client
    BY <2>4 DEF RateType
  <2>. QED BY <2>2, <2>3, <2>4 DEF RedisAnswers, lvars
<1>3. RateType' BY <1>1, <1>2 DEF RateType
<1>4. ASSUME NEW k \in Key, NEW s \in Store PROVE Accounted(k, s)'
  BY <1>1 DEF Accounted, Stored, Span
<1>. QED BY <1>3, <1>4

\* A reset forgets a key, in Redis only if it answers: what was let through is
\* forgotten too, and what Redis still has counts against the key.
LEMMA LimitReset ==
  ASSUME RateInv, NEW k \in Key, reset_limit(k)
  PROVE  RateInv'
<1> USE DEF RateInv
<1>0. WindowSeconds \in Nat BY RateLimitAssumption
<1> DEFINE none == [s \in Store |-> << >>]
<1>1. /\ memory' = [memory EXCEPT ![k] = << >>]
      /\ redis' = (IF redisUp THEN [redis EXCEPT ![k] = << >>] ELSE redis)
      /\ admitted' = [admitted EXCEPT ![k] = none] /\ UNCHANGED serving
  BY DEF reset_limit
<1>2. none \in [Store -> Seq(Nat)] /\ \A s \in Store : none[s] = << >> BY EmptySeq
<1> HIDE DEF none
<1>3. RateType' BY <1>1, <1>2, EmptySeq DEF RateType
<1>4. ASSUME NEW l \in Key, NEW s \in Store PROVE Accounted(l, s)'
  <2>1. CASE l = k
    <3>1. admitted'[k][s] = << >> BY <1>1, <1>2 DEF RateType
    <3>2. Stored(k, s)' = << >> \/ Stored(k, s)' = Stored(k, s) BY <1>1 DEF Stored, RateType
    <3>3. Span(s) \in Nat BY <1>0 DEF Span
    <3>4. Ordered(Stored(k, s)', Span(s)) BY <3>2, <3>3, NoHits DEF Accounted
    <3>5. Covers(Stored(k, s)', << >>)
      <4>1. Len(Stored(k, s)') \in Nat BY <3>4 DEF Ordered
      <4>. QED BY <4>1 DEF Covers
    <3>6. Accounted(k, s)' BY <1>0, <3>1, <3>4, <3>5, NoHits DEF Accounted, Span
    <3>. QED BY <2>1, <3>6
  <2>2. CASE l # k
    <3>1. Stored(l, s)' = Stored(l, s) BY <1>1, <2>2 DEF Stored, RateType
    <3>2. admitted'[l][s] = admitted[l][s] BY <1>1, <2>2 DEF RateType
    <3>. QED BY <3>1, <3>2 DEF Accounted, Span
  <2>. QED BY <2>1, <2>2
<1>. QED BY <1>3, <1>4

\* A unit of time.
LEMMA HitsAge ==
  ASSUME RateInv, LTick
  PROVE  RateInv'
<1> USE DEF RateInv
<1>0. WindowSeconds \in Nat BY RateLimitAssumption
<1>1. ASSUME NEW k \in Key, NEW s \in Store
      PROVE  /\ Stored(k, s)' = Younger(Aged(Stored(k, s)), Span(s))
             /\ admitted'[k][s] = Younger(Aged(admitted[k][s]), WindowSeconds)
             /\ Accounted(k, s)'
  <2>1. Stored(k, s)' = Younger(Aged(Stored(k, s)), Span(s)) BY DEF LTick, Stored, Span
  <2>2. admitted'[k][s] = Younger(Aged(admitted[k][s]), WindowSeconds) BY DEF LTick
  <2>3. Accounted(k, s) OBVIOUS
  <2>4. Span(s) \in Nat /\ WindowSeconds <= Span(s) /\ Span(s) <= WindowSeconds + 1 /\ Span(s)' = Span(s)
    BY <1>0 DEF Span
  <2>5. /\ Ordered(Stored(k, s)', Span(s)) /\ Ordered(admitted'[k][s], WindowSeconds)
        /\ Covers(Stored(k, s)', admitted'[k][s])
        /\ Len(admitted'[k][s]) <= Len(admitted[k][s])
    BY <1>0, <2>1, <2>2, <2>3, <2>4, TimePasses DEF Accounted
  <2>6. Len(admitted'[k][s]) <= Most
    <3>1. Len(admitted'[k][s]) \in Nat /\ Len(admitted[k][s]) \in Nat BY <2>3, <2>5 DEF Accounted, Ordered
    <3>. QED BY <2>3, <2>5, <3>1, MostIsLargest DEF Accounted
  <2>. QED BY <2>1, <2>2, <2>4, <2>5, <2>6 DEF Accounted
<1>2. RateType'
  <2>1. \A k \in Key, s \in Store : Stored(k, s)' \in Seq(Nat) /\ admitted'[k][s] \in Seq(Nat)
    BY <1>1 DEF Accounted, Ordered
  <2>2. \A k \in Key : redis'[k] \in Seq(Nat) BY <2>1 DEF Stored, Store
  <2>3. \A k \in Key : memory'[k] \in Seq(Nat) BY <2>1 DEF Stored, Store
  <2>4. redis' \in [Key -> Seq(Nat)] BY <2>2 DEF LTick
  <2>5. memory' \in [Key -> Seq(Nat)] BY <2>3 DEF LTick
  <2>6. admitted' \in [Key -> [Store -> Seq(Nat)]]
    <3>1. \A k \in Key : admitted'[k] \in [Store -> Seq(Nat)]
      <4> TAKE k \in Key
      <4>1. admitted'[k] = [s \in Store |-> Younger(Aged(admitted[k][s]), WindowSeconds)] BY DEF LTick
      <4>2. admitted'[k] = [s \in Store |-> admitted'[k][s]] BY <4>1
      <4>. QED BY <2>1, <4>2
    <3>. QED BY <3>1 DEF LTick
  <2>. QED BY <2>4, <2>5, <2>6 DEF RateType, LTick
<1>. QED BY <1>1, <1>2

\* For any clients, limits and window, and however requests, outages of Redis and
\* resets interleave: what a store lets through of a key within a window is at most
\* the limit, and at most what the store counts (check_limit() of both stores).
THEOREM RateIsLimited == LSpec => []AdmittedBounded
<1>1. RateInv => AdmittedBounded
  BY AllCounted DEF RateInv, Accounted, AdmittedBounded, Covers
<1>2. RateInv /\ [LNext]_lvars => RateInv'
  BY CheckStep, RequestSteps, LimitReset, HitsAge DEF LNext
<1>. QED BY <1>1, <1>2, RateStarts, PTL DEF LSpec

-----------------------------------------------------------------------------
(* Resilience. *)

USE ResilienceAssumption

-----------------------------------------------------------------------------
(* Tables. *)

TableOK(table, keys) == DOMAIN table \subseteq keys /\ \A k \in DOMAIN table : table[k] \in Nat

\* What get() finds after an entry was set, entries were dropped, time passed.
LEMMA LeftOfPut ==
  ASSUME NEW table, NEW k, NEW time, NEW j
  PROVE  Left(Put(table, k, time), j) = IF j = k THEN time ELSE Left(table, j)
BY DEF Left, Put

\* What is left of an entry when some are dropped.
LEMMA LeftOfDrop ==
  ASSUME NEW table, NEW keys, NEW j
  PROVE  Left(Drop(table, keys), j) = IF j \in keys THEN 0 ELSE Left(table, j)
BY DEF Left, Drop, Restrict

\* And when time passes.
LEMMA LeftOfPassed ==
  ASSUME NEW table, NEW j
  PROVE  Left(Passed(table), j) = Sooner(Left(table, j))
BY DEF Left, Passed, Sooner

\* Dropping the entries that are over changes nothing that get() finds.
LEMMA LeftOfExpired ==
  ASSUME NEW table, NEW j
  PROVE  Left(Drop(table, Expired(table)), j) = Left(table, j)
BY DEF Left, Drop, Restrict, Expired

\* The types of the tables that come out.
LEMMA TableTypes ==
  ASSUME NEW keys, NEW table, TableOK(table, keys)
  PROVE  /\ \A k \in keys, time \in Nat : TableOK(Put(table, k, time), keys)
         /\ \A gone : TableOK(Drop(table, gone), keys)
         /\ TableOK(Passed(table), keys)
         /\ \A j : Left(table, j) \in Nat
<1>1. \A k \in keys, time \in Nat : TableOK(Put(table, k, time), keys)
  BY DEF TableOK, Put
<1>2. \A gone : TableOK(Drop(table, gone), keys)
  BY DEF TableOK, Drop, Restrict
<1>3. TableOK(Passed(table), keys)
  BY DEF TableOK, Passed, Sooner
<1>4. \A j : Left(table, j) \in Nat
  BY DEF TableOK, Left
<1> QED BY <1>1, <1>2, <1>3, <1>4

\* The tables start empty.
LEMMA EmptyTable == \A keys, j : TableOK(<< >>, keys) /\ Left(<< >>, j) = 0
BY DEF TableOK, Left

-----------------------------------------------------------------------------
(* What is recorded of one provider: a state s as in Succeeded and Failed. *)

Locked(s, p) == s.m.lockout > 0 =>
  \E m \in Model : Owner[m] = p /\ Left(s.l, m) >= s.m.lockout

\* It agrees in itself, and is what it was for every other provider.
Sound(s, p) ==
  /\ s = [m |-> s.m, c |-> s.c, l |-> s.l]
  /\ s.m \in Metrics
  /\ TableOK(s.c, Provider) /\ TableOK(s.l, Provider \cup Model)
  /\ s.m.cooldown = Left(s.c, p)
  /\ Locked(s, p)
  /\ \A q \in Provider \ {p} : Left(s.c, q) = Left(cooldowns, q)
  /\ \A m \in Model : Owner[m] # p => Left(s.l, m) = Left(lockouts, m)


\* A success.
LEMMA SucceededSound ==
  ASSUME NEW p \in Provider, NEW s, Sound(s, p)
  PROVE  Sound(Succeeded(s, p), p)
<1> DEFINE run == Less(s.m.successes + 1, MaxRun)
           m == [failures |-> 0, successes |-> run, cooldown |-> 0, lockout |-> s.m.lockout]
           c == IF s.m.cooldown > 0 THEN Drop(s.c, {p}) ELSE s.c
           n == [m |-> m, c |-> c, l |-> s.l]
<1>1. s.m \in Metrics BY DEF Sound
<1>2. Succeeded(s, p) = n
  BY DEF Succeeded
<1>3. m \in Metrics
  BY <1>1 DEF Metrics, Less
<1>4. TableOK(c, Provider)
  BY TableTypes DEF Sound
<1>5. Left(c, p) = 0
  BY <1>1, LeftOfDrop DEF Sound, Metrics
<1>6. \A q \in Provider \ {p} : Left(c, q) = Left(cooldowns, q)
  BY LeftOfDrop DEF Sound
<1> HIDE DEF m, c
<1>7. m.cooldown = 0 /\ m.lockout = s.m.lockout BY DEF m
<1>8. Sound(n, p)
  BY <1>3, <1>4, <1>5, <1>6, <1>7 DEF Sound, Locked
<1> QED BY <1>2, <1>8

\* The same of a failure that names no model, or one of the provider.
LEMMA LockoutSound ==
  ASSUME NEW p \in Provider, NEW s, Sound(s, p), NEW time \in Nat,
         NEW m \in {n \in Model : Owner[n] = p} \cup {None}
  PROVE  Sound(Lockout(s, p, m, time), p)
<1> DEFINE key == IF m = None THEN p ELSE m
           a == IF m = None THEN s.m ELSE [s.m EXCEPT !.lockout = time]
           l == Put(s.l, key, time)
           n == [m |-> a, c |-> s.c, l |-> l]
<1>1. s.m \in Metrics BY DEF Sound
<1>2. Lockout(s, p, m, time) = n
  BY DEF Lockout
<1>3. a \in Metrics /\ a.cooldown = s.m.cooldown
      /\ a.lockout = IF m = None THEN s.m.lockout ELSE time
  BY <1>1 DEF Metrics
<1>4. key \in Provider \cup Model /\ (m # None => key \in Model /\ Owner[key] = p)
      /\ (m = None => key \notin Model)
  OBVIOUS
<1>5. TableOK(l, Provider \cup Model)
  BY <1>4, TableTypes DEF Sound
<1> HIDE DEF a, l, key
<1>6. \A j : Left(l, j) = IF j = key THEN time ELSE Left(s.l, j)
  BY LeftOfPut DEF l
<1>7. \A j \in Model : Owner[j] # p => Left(l, j) = Left(lockouts, j)
  BY <1>4, <1>6 DEF Sound
<1>8. Locked(n, p)
  <2>1. CASE m = None
    BY <2>1, <1>3, <1>4, <1>6 DEF Sound, Locked
  <2>2. CASE m # None
    <3>1. key \in Model /\ Owner[key] = p /\ Left(l, key) >= time
      BY <2>2, <1>4, <1>6
    <3> QED BY <3>1, <2>2, <1>3 DEF Locked
  <2> QED BY <2>1, <2>2
<1>9. Sound(n, p)
  BY <1>3, <1>5, <1>7, <1>8 DEF Sound
<1> QED BY <1>2, <1>9

\* A failure, of the provider or of one of its models.
LEMMA FailedSound ==
  ASSUME NEW p \in Provider, NEW s, Sound(s, p), NEW type \in FailureType,
         NEW m \in {n \in Model : Owner[n] = p} \cup {None}
  PROVE  Sound(Failed(s, p, m, type), p)
<1> DEFINE a == [failures |-> Less(s.m.failures + 1, MaxRun), successes |-> 0,
                 cooldown |-> s.m.cooldown, lockout |-> s.m.lockout]
           f == [m |-> a, c |-> s.c, l |-> s.l]
           time == CooldownTime(f.m.failures)
           cooled == IF type \in {"connection_error", "timeout"}
                     THEN [m |-> [f.m EXCEPT !.cooldown = time], c |-> Put(f.c, p, time), l |-> f.l]
                     ELSE f
<1>1. Failed(s, p, m, type) = Apply(f, p, m, type) BY DEF Failed
<1>2. a \in Metrics /\ a.cooldown = s.m.cooldown /\ a.lockout = s.m.lockout
  BY DEF Sound, Metrics, Less
<1>3. f.m = a /\ f.c = s.c /\ f.l = s.l /\ f = [m |-> f.m, c |-> f.c, l |-> f.l]
  OBVIOUS
<1> HIDE DEF a, f
<1>4. Sound(f, p)
  BY <1>2, <1>3 DEF Sound, Locked
<1>5. time \in Nat BY DEF CooldownTime
<1> HIDE DEF time
<1>6. Sound(cooled, p)
  <2> DEFINE b == [f.m EXCEPT !.cooldown = time]
             c == Put(f.c, p, time)
             n == [m |-> b, c |-> c, l |-> f.l]
  <2>1. b \in Metrics /\ b.cooldown = time /\ b.lockout = f.m.lockout
    BY <1>4, <1>5 DEF Sound, Metrics
  <2>2. TableOK(c, Provider)
    BY <1>4, <1>5, TableTypes DEF Sound
  <2>3. \A j : Left(c, j) = IF j = p THEN time ELSE Left(f.c, j)
    BY LeftOfPut
  <2> HIDE DEF b, c
  <2>4. Sound(n, p)
    BY <1>4, <2>1, <2>2, <2>3 DEF Sound, Locked
  <2> QED BY <1>4, <2>4 DEF b, c
<1> HIDE DEF cooled
<1>7. \A over : LockoutTime(over) \in Nat BY DEF LockoutTime
<1>8. Failed(s, p, m, type) \in {cooled} \cup {Lockout(cooled, p, m, t) : t \in Nat}
  BY <1>1, <1>7 DEF Apply, cooled, time
<1> QED BY <1>6, <1>8, LockoutSound

-----------------------------------------------------------------------------
(* The invariant. *)

RInv == RTypeOK /\ OutagesCoherent

\* What there is of a provider is sound.
LEMMA TablesSound ==
  ASSUME RInv, NEW p \in Provider
  PROVE  Sound(Tables(p), p)
BY DEF RInv, RTypeOK, OutagesCoherent, CooldownsAgree, LockoutsAgree, Tables, Sound, Locked, TableOK

\* What the manager then keeps of every provider.
Kept == /\ metrics \in [Provider -> Metrics]
        /\ TableOK(cooldowns, Provider) /\ TableOK(lockouts, Provider \cup Model)
        /\ CooldownsAgree /\ LockoutsAgree

\* Storing it keeps the invariant.
LEMMA RecordKeeps ==
  ASSUME RInv, NEW p \in Provider, NEW s, Sound(s, p), Record(p, s)
  PROVE  Kept' /\ breakers' = breakers
<1>1. metrics' \in [Provider -> Metrics] /\ metrics'[p] = s.m
      /\ \A q \in Provider \ {p} : metrics'[q] = metrics[q]
  BY DEF Record, RInv, RTypeOK, Sound
<1>2. cooldowns' = s.c /\ lockouts' = s.l /\ breakers' = breakers
  BY DEF Record
<1>3. TableOK(cooldowns', Provider) /\ TableOK(lockouts', Provider \cup Model)
  BY <1>2 DEF Sound
<1>4. ASSUME NEW q \in Provider PROVE metrics'[q].cooldown = Left(cooldowns', q)
  BY <1>1, <1>2 DEF Sound, RInv, OutagesCoherent, CooldownsAgree
<1>5. ASSUME NEW q \in Provider, metrics'[q].lockout > 0
      PROVE \E m \in Model : Owner[m] = q /\ Left(lockouts', m) >= metrics'[q].lockout
  <2>1. CASE q = p BY <2>1, <1>1, <1>2, <1>5 DEF Sound, Locked
  <2>2. CASE q # p
    BY <2>2, <1>1, <1>2, <1>5 DEF Sound, RInv, OutagesCoherent, LockoutsAgree
  <2> QED BY <2>1, <2>2
<1> QED BY <1>1, <1>2, <1>3, <1>4, <1>5 DEF Kept, CooldownsAgree, LockoutsAgree, TableOK

-----------------------------------------------------------------------------
(* One breaker. *)

Coherent(b) ==
  /\ b \in Breaker
  /\ b.state = "half_open" => b.successes < SuccessThreshold
  /\ b.state = "closed" => b.failures < FailureThreshold
  /\ b.state = "open" => b.failures > 0 /\ b.successes = 0

\* The breakers there are, each by itself.
LEMMA BreakersCoherent ==
  ASSUME RInv
  PROVE  \A p \in Provider : Coherent(breakers[p])
BY DEF RInv, RTypeOK, OutagesCoherent, BreakerCoherent, Coherent

\* A change of state, field by field.
LEMMA SetStateIs ==
  ASSUME NEW b \in Breaker, NEW state \in Circuit
  PROVE  SetState(b, state) =
           [state |-> state, failures |-> IF state = "closed" THEN 0 ELSE b.failures,
            successes |-> IF state = "open" THEN b.successes ELSE 0, since |-> 0]
BY DEF SetState

\* A breaker that is tried is not open any more.
LEMMA OnSuccessCoherent ==
  ASSUME NEW b, Coherent(b), b.state # "open"
  PROVE  Coherent(OnSuccess(b))
<1> DEFINE n == [state |-> b.state, since |-> b.since, failures |-> 0,
                 successes |-> Less(b.successes + 1, MaxRun)]
<1>1. n = [state |-> b.state, failures |-> 0, successes |-> Less(b.successes + 1, MaxRun),
           since |-> b.since]
  BY DEF Coherent, Breaker
<1>2. OnSuccess(b) = IF n.state = "half_open" /\ n.successes >= SuccessThreshold
                     THEN SetState(n, "closed") ELSE n
  BY DEF OnSuccess
<1> HIDE DEF n
<1>3. n \in Breaker
  BY <1>1 DEF Coherent, Breaker, Less
<1>4. CASE n.state = "half_open" /\ n.successes >= SuccessThreshold
  <2>1. OnSuccess(b) = [state |-> "closed", failures |-> 0, successes |-> 0, since |-> 0]
    BY <1>2, <1>3, <1>4, SetStateIs DEF Circuit
  <2> QED BY <2>1 DEF Coherent, Breaker, Circuit
<1>5. CASE ~(n.state = "half_open" /\ n.successes >= SuccessThreshold)
  <2>1. OnSuccess(b) = n BY <1>2, <1>5
  <2> QED BY <2>1, <1>1, <1>3, <1>5 DEF Coherent, Breaker
<1> QED BY <1>4, <1>5

\* A failure, in a breaker that lets calls through.
LEMMA OnFailureCoherent ==
  ASSUME NEW b, Coherent(b), b.state # "open"
  PROVE  Coherent(OnFailure(b))
<1> DEFINE n == [state |-> b.state, since |-> b.since, successes |-> 0,
                 failures |-> Less(b.failures + 1, MaxRun)]
           opens == n.state = "half_open" \/ (n.state = "closed" /\ n.failures >= FailureThreshold)
<1>1. n = [state |-> b.state, failures |-> Less(b.failures + 1, MaxRun), successes |-> 0,
           since |-> b.since]
  BY DEF Coherent, Breaker
<1>2. OnFailure(b) = IF opens THEN SetState(n, "open") ELSE n
  BY DEF OnFailure
<1> HIDE DEF n
<1>3. n \in Breaker /\ n.failures > 0
  <2>1. MaxRun > 0
    <3>1. FailureThreshold \in Nat \ {0} /\ MaxRun \in Nat /\ FailureThreshold <= MaxRun OBVIOUS
    <3> QED BY <3>1
  <2>2. b.failures \in Nat BY DEF Coherent, Breaker
  <2>3. Less(b.failures + 1, MaxRun) \in Nat \ {0} BY <2>1, <2>2 DEF Less
  <2> QED BY <1>1, <2>3 DEF Coherent, Breaker
<1>4. CASE opens
  <2>1. OnFailure(b) = [state |-> "open", failures |-> n.failures, successes |-> 0, since |-> 0]
    BY <1>1, <1>2, <1>3, <1>4, SetStateIs DEF Circuit
  <2> QED BY <2>1, <1>3 DEF Coherent, Breaker, Circuit
<1>5. CASE ~opens
  <2>1. OnFailure(b) = n BY <1>2, <1>5
  <2> QED BY <2>1, <1>1, <1>3, <1>5 DEF Coherent, Breaker, Circuit
<1> QED BY <1>4, <1>5

-----------------------------------------------------------------------------
(* The steps. *)

\* What is left of the invariant, beside what the manager keeps.
LEMMA KeptIsInv ==
  ASSUME Kept', \A p \in Provider : Coherent(breakers'[p]), breakers' \in [Provider -> Breaker],
         wraps' \in [Provider -> 0..MaxWraps], calls' \in [Caller -> Call \cup {NoCall}],
         cleaning' \in BOOLEAN
  PROVE  RInv'
BY DEF Kept, RInv, RTypeOK, OutagesCoherent, BreakerCoherent, Coherent, TableOK

\* What the steps need of the invariant.
LEMMA InvKept ==
  ASSUME RInv
  PROVE  Kept /\ breakers \in [Provider -> Breaker] /\ wraps \in [Provider -> 0..MaxWraps]
         /\ calls \in [Caller -> Call \cup {NoCall}] /\ cleaning \in BOOLEAN
BY DEF Kept, RInv, RTypeOK, OutagesCoherent, TableOK

\* A new manager has the invariant.
LEMMA Initially == RInit => RInv
<1> SUFFICES ASSUME RInit PROVE RInv OBVIOUS
<1>1. metrics \in [Provider -> Metrics] /\ breakers \in [Provider -> Breaker]
  BY DEF RInit, FreshMetrics, FreshBreakers, NoMetrics, NewBreaker, Metrics, Breaker, Circuit
<1>2. RTypeOK
  <2>1. /\ wraps \in [Provider -> 0..MaxWraps]
        /\ calls \in [Caller -> Call \cup {NoCall}]
        /\ cleaning \in BOOLEAN
    <3>1. wraps \in [Provider -> 0..MaxWraps] BY DEF RInit
    <3>2. calls \in [Caller -> Call \cup {NoCall}] BY DEF RInit
    <3>3. cleaning \in BOOLEAN BY DEF RInit
    <3> QED BY <3>1, <3>2, <3>3
  <2>2. TableOK(cooldowns, Provider) /\ TableOK(lockouts, Provider \cup Model)
    BY EmptyTable DEF RInit
  <2> QED BY <1>1, <2>1, <2>2 DEF RTypeOK, TableOK
<1>3. OutagesCoherent
  BY EmptyTable DEF RInit, OutagesCoherent, CooldownsAgree, LockoutsAgree, BreakerCoherent,
     FreshMetrics, FreshBreakers, NoMetrics, NewBreaker
<1> QED BY <1>2, <1>3 DEF RInv

\* A success or a failure, once or as often as the method was wrapped.
LEMMA SuccessesStep ==
  ASSUME RInv, NEW p \in Provider, record_success(p)
  PROVE  RInv'
<1>1. Kept' /\ breakers' = breakers
  BY TablesSound, SucceededSound, RecordKeeps DEF record_success
<1> QED BY <1>1, InvKept, BreakersCoherent, KeptIsInv DEF record_success

\* record_failure().
LEMMA FailuresStep ==
  ASSUME RInv, NEW p \in Provider, NEW type \in FailureType,
         NEW m \in {n \in Model : Owner[n] = p} \cup {None}, record_failure(p, m, type)
  PROVE  RInv'
<1>1. Kept' /\ breakers' = breakers
  BY TablesSound, FailedSound, RecordKeeps DEF record_failure
<1> QED BY <1>1, InvKept, BreakersCoherent, KeptIsInv DEF record_failure

\* A wrapped call that returns: each of the wrappers records it.
LEMMA ReturnsStep ==
  ASSUME RInv, NEW c \in Caller, WrappedReturns(c)
  PROVE  RInv'
<1> DEFINE p == calls[c].provider
           s == Tables(p)
           once == Succeeded(s, p)
           r == IF calls[c].times = 1 THEN once ELSE Succeeded(once, p)
<1>1. p \in Provider
  BY DEF WrappedReturns, RInv, RTypeOK, Call
<1>2. CASE calls[c].old
  BY <1>2, InvKept, BreakersCoherent, KeptIsInv
     DEF WrappedReturns, manager, Kept, CooldownsAgree, LockoutsAgree
<1>3. CASE ~calls[c].old
  <2>1. Record(p, r)
    BY <1>3 DEF WrappedReturns
  <2>2. Sound(s, p)
    BY <1>1, TablesSound
  <2> HIDE DEF s
  <2>3. Sound(once, p) BY <1>1, <2>2, SucceededSound
  <2> HIDE DEF once
  <2>4. Sound(Succeeded(once, p), p) BY <1>1, <2>3, SucceededSound
  <2>5. Sound(r, p) BY <2>3, <2>4
  <2> HIDE DEF r
  <2>6. Kept' /\ breakers' = breakers
    BY <1>1, <2>1, <2>5, RecordKeeps
  <2>7. calls' \in [Caller -> Call \cup {NoCall}] /\ wraps' = wraps /\ cleaning' = cleaning
    BY InvKept DEF WrappedReturns
  <2> QED BY <2>6, <2>7, InvKept, BreakersCoherent, KeptIsInv
<1> QED BY <1>2, <1>3

\* A wrapped call that raises: likewise.
LEMMA RaisesStep ==
  ASSUME RInv, NEW c \in Caller, NEW type \in FailureType, WrappedRaises(c, type)
  PROVE  RInv'
<1> DEFINE p == calls[c].provider
           s == Tables(p)
           once == Failed(s, p, None, type)
           r == IF calls[c].times = 1 THEN once ELSE Failed(once, p, None, type)
<1>1. p \in Provider
  BY DEF WrappedRaises, RInv, RTypeOK, Call
<1>2. CASE calls[c].old
  BY <1>2, InvKept, BreakersCoherent, KeptIsInv
     DEF WrappedRaises, manager, Kept, CooldownsAgree, LockoutsAgree
<1>3. CASE ~calls[c].old
  <2>1. Record(p, r)
    BY <1>3 DEF WrappedRaises
  <2>2. Sound(s, p)
    BY <1>1, TablesSound
  <2> HIDE DEF s
  <2>3. Sound(once, p) BY <1>1, <2>2, FailedSound
  <2> HIDE DEF once
  <2>4. Sound(Failed(once, p, None, type), p) BY <1>1, <2>3, FailedSound
  <2>5. Sound(r, p) BY <2>3, <2>4
  <2> HIDE DEF r
  <2>6. Kept' /\ breakers' = breakers
    BY <1>1, <2>1, <2>5, RecordKeeps
  <2>7. calls' \in [Caller -> Call \cup {NoCall}] /\ wraps' = wraps /\ cleaning' = cleaning
    BY InvKept DEF WrappedRaises
  <2> QED BY <2>6, <2>7, InvKept, BreakersCoherent, KeptIsInv
<1> QED BY <1>2, <1>3

\* What leaves metrics and tables as they are leaves them in step.
LEMMA KeptStays ==
  ASSUME Kept, UNCHANGED <<metrics, cooldowns, lockouts>>
  PROVE  Kept'
BY DEF Kept, CooldownsAgree, LockoutsAgree

\* enhance_provider_with_resilience().
LEMMA EnhanceStep ==
  ASSUME RInv, NEW p \in Provider, enhance_provider_with_resilience(p)
  PROVE  RInv'
<1>1. UNCHANGED <<metrics, cooldowns, lockouts, breakers, calls, cleaning>>
  BY DEF enhance_provider_with_resilience, manager
<1>2. wraps' \in [Provider -> 0..MaxWraps]
  BY InvKept DEF enhance_provider_with_resilience
<1> QED BY <1>1, <1>2, InvKept, BreakersCoherent, KeptStays, KeptIsInv

\* A wrapped call that begins.
LEMMA CallStep ==
  ASSUME RInv, NEW c \in Caller, NEW p \in Provider, CallWrapped(c, p)
  PROVE  RInv'
<1>1. UNCHANGED <<metrics, cooldowns, lockouts, breakers, wraps, cleaning>>
  BY DEF CallWrapped, manager
<1>2. wraps[p] \in 1..MaxWraps
  BY InvKept DEF CallWrapped
<1>3. calls' \in [Caller -> Call \cup {NoCall}]
  BY <1>2, InvKept DEF CallWrapped, Call
<1> QED BY <1>1, <1>3, InvKept, BreakersCoherent, KeptStays, KeptIsInv

\* reset_resilience_manager(): everything is new, calls go on.
LEMMA ResetStep ==
  ASSUME RInv, reset_resilience_manager
  PROVE  RInv'
<1>1. metrics' \in [Provider -> Metrics] /\ breakers' \in [Provider -> Breaker]
  BY DEF reset_resilience_manager, FreshMetrics, FreshBreakers, NoMetrics, NewBreaker,
     Metrics, Breaker, Circuit
<1>2. Kept'
  BY <1>1, EmptyTable DEF reset_resilience_manager, Kept, CooldownsAgree, LockoutsAgree,
     FreshMetrics, NoMetrics
<1>3. \A p \in Provider : Coherent(breakers'[p])
  BY <1>1 DEF reset_resilience_manager, FreshBreakers, NewBreaker, Coherent
<1>4. calls' \in [Caller -> Call \cup {NoCall}]
  <2> SUFFICES ASSUME NEW c \in Caller, calls[c] # NoCall
               PROVE  [calls[c] EXCEPT !.old = TRUE] \in Call
    BY DEF reset_resilience_manager
  <2> QED BY InvKept DEF Call
<1> QED BY <1>1, <1>2, <1>3, <1>4, InvKept, KeptIsInv DEF reset_resilience_manager

\* Either half of the clean-up of the tables.
LEMMA CleanStep ==
  ASSUME RInv, CleanCooldowns \/ CleanLockouts
  PROVE  RInv'
<1>1. Kept BY InvKept
<1>2. UNCHANGED <<metrics, breakers, wraps, calls>> /\ cleaning' \in BOOLEAN
  BY DEF CleanCooldowns, CleanLockouts
<1>3. /\ TableOK(cooldowns', Provider)
      /\ \A j : Left(cooldowns', j) = Left(cooldowns, j)
  BY <1>1, TableTypes, LeftOfExpired DEF CleanCooldowns, CleanLockouts, Kept
<1>4. /\ TableOK(lockouts', Provider \cup Model)
      /\ \A j : Left(lockouts', j) = Left(lockouts, j)
  BY <1>1, TableTypes, LeftOfExpired DEF CleanCooldowns, CleanLockouts, Kept
<1>5. CooldownsAgree'
  BY <1>1, <1>2, <1>3 DEF Kept, CooldownsAgree
<1>6. LockoutsAgree'
  BY <1>1, <1>2, <1>4 DEF Kept, LockoutsAgree
<1>7. Kept'
  BY <1>1, <1>2, <1>3, <1>4, <1>5, <1>6 DEF Kept
<1> QED BY <1>2, <1>7, InvKept, BreakersCoherent, KeptIsInv

\* Time passes in both places at once.
LEMMA TickStep ==
  ASSUME RInv, RTick
  PROVE  RInv'
<1>1. Kept BY InvKept
<1>2. UNCHANGED <<wraps, calls, cleaning>> BY DEF RTick
<1>3. \A p \in Provider : /\ metrics'[p].cooldown = Sooner(metrics[p].cooldown)
                          /\ metrics'[p].lockout = Sooner(metrics[p].lockout)
  BY DEF RTick
<1>4. metrics' \in [Provider -> Metrics]
  <2>1. ASSUME NEW p \in Provider PROVE metrics'[p] \in Metrics
    <3>1. /\ metrics[p].failures \in Nat /\ metrics[p].successes \in Nat
          /\ Sooner(metrics[p].cooldown) \in Nat /\ Sooner(metrics[p].lockout) \in Nat
      BY <1>1 DEF Kept, Metrics, Sooner
    <3>2. metrics'[p] = [failures |-> metrics[p].failures, successes |-> metrics[p].successes,
                         cooldown |-> Sooner(metrics[p].cooldown),
                         lockout |-> Sooner(metrics[p].lockout)]
      BY DEF RTick
    <3> QED BY <3>1, <3>2 DEF Metrics
  <2> QED BY <2>1 DEF RTick
<1>5. /\ TableOK(cooldowns', Provider) /\ TableOK(lockouts', Provider \cup Model)
      /\ \A j : Left(cooldowns', j) = Sooner(Left(cooldowns, j))
      /\ \A j : Left(lockouts', j) = Sooner(Left(lockouts, j))
  BY <1>1, TableTypes, LeftOfPassed DEF RTick, Kept
<1>6. CooldownsAgree'
  BY <1>1, <1>3, <1>5 DEF Kept, CooldownsAgree
<1>7. ASSUME NEW p \in Provider, metrics'[p].lockout > 0
      PROVE  \E m \in Model : Owner[m] = p /\ Left(lockouts', m) >= metrics'[p].lockout
  <2>1. metrics[p].lockout \in Nat /\ metrics[p].lockout > 0
    BY <1>1, <1>3, <1>7 DEF Kept, Metrics, Sooner
  <2>2. PICK m \in Model : Owner[m] = p /\ Left(lockouts, m) >= metrics[p].lockout
    BY <1>1, <2>1 DEF Kept, LockoutsAgree
  <2>3. Left(lockouts, m) \in Nat
    BY <1>1, TableTypes DEF Kept
  <2>4. Left(lockouts', m) >= metrics'[p].lockout
    BY <1>3, <1>5, <2>1, <2>2, <2>3 DEF Sooner
  <2> QED BY <2>2, <2>4
<1>8. Kept'
  BY <1>4, <1>5, <1>6, <1>7 DEF Kept, LockoutsAgree
<1>9. ASSUME NEW p \in Provider PROVE Coherent(breakers'[p])
  <2>1. Coherent(breakers[p]) BY BreakersCoherent
  <2>2. breakers'[p] = [breakers[p] EXCEPT !.since = Less(@ + 1, RecoveryTimeout)]
    BY DEF RTick
  <2> QED BY <2>1, <2>2 DEF Coherent, Breaker, Less
<1>10. breakers' \in [Provider -> Breaker]
  BY <1>9 DEF RTick, Coherent
<1> QED BY <1>2, <1>8, <1>9, <1>10, InvKept, KeptIsInv

\* A call through a breaker.
LEMMA BreakerStep ==
  ASSUME RInv, NEW p \in Provider, NEW succeeds \in BOOLEAN, BreakerCall(p, succeeds)
  PROVE  RInv'
<1> DEFINE b == breakers[p]
           tried == IF b.state = "open" THEN SetState(b, "half_open") ELSE b
           after == IF succeeds THEN OnSuccess(tried) ELSE OnFailure(tried)
<1>1. Coherent(b) BY BreakersCoherent
<1>2. Coherent(tried) /\ tried.state # "open"
  <2>1. CASE b.state = "open"
    <3>1. tried = [state |-> "half_open", failures |-> b.failures, successes |-> 0, since |-> 0]
      BY <1>1, <2>1, SetStateIs DEF Coherent, Circuit
    <3> QED BY <1>1, <3>1 DEF Coherent, Breaker, Circuit
  <2>2. CASE b.state # "open"
    BY <1>1, <2>2
  <2> QED BY <2>1, <2>2
<1>3. breakers' = [breakers EXCEPT ![p] = after]
      /\ UNCHANGED <<metrics, cooldowns, lockouts, wraps, calls, cleaning>>
  BY DEF BreakerCall
<1> HIDE DEF tried
<1>4. Coherent(after)
  BY <1>2, OnSuccessCoherent, OnFailureCoherent
<1> HIDE DEF after
<1>5. breakers' \in [Provider -> Breaker] /\ \A q \in Provider : Coherent(breakers'[q])
  BY <1>3, <1>4, InvKept, BreakersCoherent DEF Coherent
<1> QED BY <1>3, <1>5, InvKept, KeptStays, KeptIsInv

\* Nothing.
LEMMA StutterStep ==
  ASSUME RInv, UNCHANGED rvars
  PROVE  RInv'
BY InvKept, BreakersCoherent, KeptStays, KeptIsInv DEF rvars, manager

\* Every step keeps the invariant.
LEMMA Always == RInv /\ [RNext]_rvars => RInv'
<1> SUFFICES ASSUME RInv, [RNext]_rvars PROVE RInv' OBVIOUS
<1>1. ASSUME NEW p \in Provider, record_success(p) PROVE RInv'
  BY <1>1, SuccessesStep
<1>2. ASSUME NEW p \in Provider, enhance_provider_with_resilience(p) PROVE RInv'
  BY <1>2, EnhanceStep
<1>3. ASSUME NEW p \in Provider, NEW type \in FailureType,
             NEW m \in {n \in Model : Owner[n] = p} \cup {None}, record_failure(p, m, type)
      PROVE RInv'
  BY <1>3, FailuresStep
<1>4. ASSUME NEW p \in Provider, NEW succeeds \in BOOLEAN, BreakerCall(p, succeeds) PROVE RInv'
  BY <1>4, BreakerStep
<1>5. ASSUME NEW c \in Caller, NEW p \in Provider, CallWrapped(c, p) PROVE RInv'
  BY <1>5, CallStep
<1>6. ASSUME NEW c \in Caller, WrappedReturns(c) PROVE RInv'
  BY <1>6, ReturnsStep
<1>7. ASSUME NEW c \in Caller, NEW type \in FailureType, WrappedRaises(c, type) PROVE RInv'
  BY <1>7, RaisesStep
<1> QED BY <1>1, <1>2, <1>3, <1>4, <1>5, <1>6, <1>7, ResetStep, CleanStep, TickStep, StutterStep
           DEF RNext

\* What the manager of resilience/__init__.py keeps of an outage in several
\* places agrees, for any providers, models, thresholds and callers.
THEOREM ThmOutagesCoherent == RSpec => []OutagesCoherent
<1>1. RInv => OutagesCoherent BY DEF RInv
<1> QED BY Initially, Always, <1>1, PTL DEF RSpec

\* Metrics, tables, breakers and wrapped calls of the manager keep their types.
THEOREM ThmResilienceTypes == RSpec => []RTypeOK
<1>1. RInv => RTypeOK BY DEF RInv
<1> QED BY Initially, Always, <1>1, PTL DEF RSpec

-----------------------------------------------------------------------------
(* EnhancedResilience. *)

USE EnhancedAssumption

State == {"closed", "half_open", "open"}

\* What OpenIsLocked says of one provider, with the types.
Good(m) ==
  /\ m \in EMetrics
  /\ m.state = "closed" => m.failures < EFailureThreshold
  /\ (m.state = "open" /\ m.failures >= ELockAfter) => m.locked + m.since >= ELockTime
  /\ m.state = "half_open" => (m.failures = 0 \/ m.locked = 0)

-----------------------------------------------------------------------------
(* The types, one field at a time. *)

\* Setting one field keeps a record of its type.
LEMMA FieldTypes ==
  ASSUME NEW m \in EMetrics
  PROVE  /\ \A s \in State : [m EXCEPT !.state = s] \in EMetrics
         /\ \A n \in 0..EMaxRun : [m EXCEPT !.failures = n] \in EMetrics
         /\ \A n \in 0..EMaxRun : [m EXCEPT !.successes = n] \in EMetrics
         /\ \A n \in 0..ELockTime : [m EXCEPT !.locked = n] \in EMetrics
         /\ \A n \in 0..ELockTime : [m EXCEPT !.since = n] \in EMetrics
         /\ \A n \in 0..EMaxAge : [m EXCEPT !.idle = n] \in EMetrics
BY DEF EMetrics, State

\* Counting up to a bound.
LEMMA UpTo == \A a, b \in Nat : EUpTo(a, b) \in 0..b /\ (a <= b => EUpTo(a, b) = a)
BY DEF EUpTo

\* on_state_change(), field by field.
LEMMA ChangedIs ==
  ASSUME NEW m \in EMetrics, NEW s \in State
  PROVE  /\ Changed(m, s) \in EMetrics
         /\ Changed(m, s).state = s /\ Changed(m, s).since = 0
         /\ Changed(m, s).failures = m.failures /\ Changed(m, s).locked = m.locked
<1> DEFINE n == [m EXCEPT !.state = s]
<1>1. n \in EMetrics BY FieldTypes
<1>2. Changed(m, s) = [n EXCEPT !.since = 0] BY DEF Changed
<1> HIDE DEF n
<1>3. Changed(m, s) \in EMetrics BY <1>1, <1>2, FieldTypes
<1>4. /\ Changed(m, s).state = s /\ Changed(m, s).since = 0
      /\ Changed(m, s).failures = m.failures /\ Changed(m, s).locked = m.locked
  BY DEF Changed, EMetrics
<1> QED BY <1>3, <1>4

\* What a result does to the counters.
CountsTo(m, n, failures) ==
  /\ n \in EMetrics
  /\ n.state = m.state /\ n.locked = m.locked /\ n.since = m.since
  /\ n.failures = failures

\* What a success counts.
LEMMA CountedSuccess ==
  ASSUME NEW m \in EMetrics
  PROVE  CountsTo(m, [m EXCEPT !.successes = EUpTo(@ + 1, EMaxRun), !.failures = 0, !.idle = 0], 0)
<1> DEFINE run == EUpTo(m.successes + 1, EMaxRun)
           a == [m EXCEPT !.successes = run]
           b == [a EXCEPT !.failures = 0]
           n == [m EXCEPT !.successes = run, !.failures = 0, !.idle = 0]
<1>1. run \in 0..EMaxRun
  <2>1. m.successes + 1 \in Nat /\ EMaxRun \in Nat BY DEF EMetrics
  <2> QED BY <2>1, UpTo
<1> HIDE DEF run
<1>2. a \in EMetrics BY <1>1, FieldTypes
<1>3. n = [b EXCEPT !.idle = 0] OBVIOUS
<1> HIDE DEF a
<1>4. b \in EMetrics BY <1>2, FieldTypes
<1> HIDE DEF b
<1>5. n \in EMetrics BY <1>3, <1>4, FieldTypes
<1>6. n.state = m.state /\ n.locked = m.locked /\ n.since = m.since /\ n.failures = 0
  BY DEF EMetrics
<1> QED BY <1>5, <1>6 DEF CountsTo, run

\* What a failure counts.
LEMMA CountedFailure ==
  ASSUME NEW m \in EMetrics
  PROVE  LET run == EUpTo(m.failures + 1, EMaxRun)
         IN  /\ run \in 0..EMaxRun
             /\ CountsTo(m, [m EXCEPT !.failures = EUpTo(@ + 1, EMaxRun), !.successes = 0, !.idle = 0], run)
<1> DEFINE run == EUpTo(m.failures + 1, EMaxRun)
           a == [m EXCEPT !.failures = run]
           b == [a EXCEPT !.successes = 0]
           n == [m EXCEPT !.failures = run, !.successes = 0, !.idle = 0]
<1>1. run \in 0..EMaxRun
  <2>1. m.failures + 1 \in Nat /\ EMaxRun \in Nat BY DEF EMetrics
  <2> QED BY <2>1, UpTo
<1> HIDE DEF run
<1>2. a \in EMetrics BY <1>1, FieldTypes
<1>3. n = [b EXCEPT !.idle = 0] OBVIOUS
<1> HIDE DEF a
<1>4. b \in EMetrics BY <1>2, FieldTypes
<1> HIDE DEF b
<1>5. n \in EMetrics BY <1>3, <1>4, FieldTypes
<1>6. n.state = m.state /\ n.locked = m.locked /\ n.since = m.since /\ n.failures = run
  BY DEF EMetrics
<1> QED BY <1>1, <1>5, <1>6 DEF CountsTo, run

-----------------------------------------------------------------------------
(* What a result, a look, the clean-up and time make of one provider. *)

\* A success.
LEMMA SuccessGood ==
  ASSUME NEW m, Good(m)
  PROVE  Good(Success(m))
<1> DEFINE n == [m EXCEPT !.successes = EUpTo(@ + 1, EMaxRun), !.failures = 0, !.idle = 0]
           closes == n.state = "half_open" /\ n.successes >= ESuccessThreshold
<1>1. CountsTo(m, n, 0) BY CountedSuccess DEF Good
<1>2. Success(m) = IF closes THEN Changed(n, "closed") ELSE n BY DEF Success
<1> HIDE DEF n, closes
<1>3. CASE closes
  <2>1. Changed(n, "closed") \in EMetrics /\ Changed(n, "closed").state = "closed"
        /\ Changed(n, "closed").failures = 0
    BY <1>1, ChangedIs DEF CountsTo, State
  <2> QED BY <1>2, <1>3, <2>1 DEF Good
<1>4. CASE ~closes
  BY <1>1, <1>2, <1>4 DEF Good, CountsTo
<1> QED BY <1>3, <1>4

\* A failure.
LEMMA FailureGood ==
  ASSUME NEW m, Good(m)
  PROVE  Good(FailureRecorded(m))
<1> DEFINE run == EUpTo(m.failures + 1, EMaxRun)
           k == [m EXCEPT !.failures = EUpTo(@ + 1, EMaxRun), !.successes = 0, !.idle = 0]
           n == Failure(m)
           o == IF n.state = "closed" /\ n.failures >= EFailureThreshold THEN Changed(n, "open") ELSE n
<1>1. run \in 0..EMaxRun /\ CountsTo(m, k, run) BY CountedFailure DEF Good
<1>2. n = IF k.state = "half_open" THEN Changed(k, "open") ELSE k BY DEF Failure
<1>3. FailureRecorded(m) = IF o.failures >= ELockAfter THEN [o EXCEPT !.locked = ELockTime] ELSE o
  BY DEF FailureRecorded
<1>4. m.state = "closed" => run = m.failures + 1
  BY UpTo DEF Good, EMetrics
<1> HIDE DEF run, k
<1>5. /\ n \in EMetrics /\ n.failures = run
      /\ n.state = IF m.state = "half_open" THEN "open" ELSE m.state
  BY <1>1, <1>2, ChangedIs DEF CountsTo, State
<1> HIDE DEF n
<1>6. /\ o \in EMetrics /\ o.failures = run
      /\ o.state # "half_open"
      /\ o.state = "closed" => run < EFailureThreshold
  <2>1. CASE n.state = "closed" /\ n.failures >= EFailureThreshold
    BY <1>5, <2>1, ChangedIs DEF State
  <2>2. CASE ~(n.state = "closed" /\ n.failures >= EFailureThreshold)
    BY <1>1, <1>5, <2>2
  <2> QED BY <2>1, <2>2
<1> HIDE DEF o
<1>7. CASE o.failures >= ELockAfter
  <2> DEFINE l == [o EXCEPT !.locked = ELockTime]
  <2>1. l \in EMetrics BY <1>6, FieldTypes
  <2>2. l.state = o.state /\ l.failures = run /\ l.locked = ELockTime /\ l.since = o.since
    BY <1>6 DEF EMetrics
  <2>3. l.since \in 0..ELockTime BY <2>1 DEF EMetrics
  <2> HIDE DEF l
  <2>4. Good(l) BY <1>6, <2>1, <2>2, <2>3 DEF Good
  <2> QED BY <1>3, <1>7, <2>4 DEF l
<1>8. CASE ~(o.failures >= ELockAfter)
  BY <1>3, <1>6, <1>8 DEF Good
<1> QED BY <1>7, <1>8

\* A look at a circuit that may be tried again.
LEMMA AskGood ==
  ASSUME NEW m, Good(m), MayTry(m)
  PROVE  Good(Changed(m, "half_open"))
<1>1. m \in EMetrics /\ m.locked = 0 BY DEF Good, MayTry
<1> QED BY <1>1, ChangedIs DEF Good, State

\* A record that is new.
LEMMA NewGood == Good(NewMetrics)
BY DEF Good, NewMetrics, EMetrics

\* Time that passes.
LEMMA TickGood ==
  ASSUME NEW m, Good(m)
  PROVE  Good([m EXCEPT !.locked = IF @ = 0 THEN 0 ELSE @ - 1,
                        !.since = EUpTo(@ + 1, ELockTime), !.idle = EUpTo(@ + 1, EMaxAge)])
<1> DEFINE locked == IF m.locked = 0 THEN 0 ELSE m.locked - 1
           since == EUpTo(m.since + 1, ELockTime)
           idle == EUpTo(m.idle + 1, EMaxAge)
           a == [m EXCEPT !.locked = locked]
           b == [a EXCEPT !.since = since]
           n == [m EXCEPT !.locked = locked, !.since = since, !.idle = idle]
<1>1. m \in EMetrics /\ m.locked \in 0..ELockTime /\ m.since \in 0..ELockTime /\ m.idle \in 0..EMaxAge
  BY DEF Good, EMetrics
<1>2. locked \in 0..ELockTime /\ since \in 0..ELockTime /\ idle \in 0..EMaxAge
  <2>1. locked \in 0..ELockTime BY <1>1
  <2>2. m.since + 1 \in Nat /\ m.idle + 1 \in Nat /\ ELockTime \in Nat /\ EMaxAge \in Nat BY <1>1
  <2> QED BY <2>1, <2>2, UpTo
<1>3. m.locked + m.since >= ELockTime => locked + since >= ELockTime
  BY <1>1 DEF EUpTo
<1>4. m.locked = 0 => locked = 0 OBVIOUS
<1> HIDE DEF locked, since, idle
<1>5. a \in EMetrics BY <1>1, <1>2, FieldTypes
<1>6. n = [b EXCEPT !.idle = idle] OBVIOUS
<1> HIDE DEF a
<1>7. b \in EMetrics BY <1>2, <1>5, FieldTypes
<1> HIDE DEF b
<1>8. n \in EMetrics BY <1>2, <1>6, <1>7, FieldTypes
<1>9. n.state = m.state /\ n.failures = m.failures /\ n.locked = locked /\ n.since = since
  BY <1>1 DEF EMetrics
<1> HIDE DEF n
<1>10. Good(n) BY <1>3, <1>4, <1>8, <1>9 DEF Good
<1> QED BY <1>10 DEF n, locked, since, idle

-----------------------------------------------------------------------------
(* The steps. *)

EInv ==
  /\ record \in [EProvider -> EMetrics]
  /\ running \in [ECaller -> EProvider \cup {Unused}]
  /\ \A p \in EProvider : Good(record[p])

\* At the start there are only such records.
LEMMA EInitially == EInit => EInv
BY NewGood DEF EInit, EInv, Good

\* A wrapped call that ends, with what its result makes of the record.
LEMMA EndStep ==
  ASSUME EInv, NEW c \in ECaller, EReturn(c) \/ ERaise(c) \/ ECancel(c)
  PROVE  EInv'
<1> DEFINE p == running[c]
           m == record[p]
<1>1. p \in EProvider BY DEF EInv, EReturn, ERaise, ECancel, EEnd
<1>2. Good(m) BY <1>1 DEF EInv
<1>3. \E n : Good(n) /\ record' = [record EXCEPT ![p] = n]
  <2>1. CASE EReturn(c) BY <1>2, <2>1, SuccessGood DEF EReturn, EEnd
  <2>2. CASE ERaise(c) BY <1>2, <2>2, FailureGood DEF ERaise, EEnd
  <2>3. CASE ECancel(c) BY <1>2, <2>3 DEF ECancel, EEnd
  <2> QED BY <2>1, <2>2, <2>3
<1>4. PICK n : Good(n) /\ record' = [record EXCEPT ![p] = n] BY <1>3
<1>5. record' \in [EProvider -> EMetrics] /\ \A q \in EProvider : Good(record'[q])
  BY <1>1, <1>4 DEF EInv, Good
<1>6. running' \in [ECaller -> EProvider \cup {Unused}]
  BY DEF EInv, EReturn, ERaise, ECancel, EEnd
<1> QED BY <1>5, <1>6 DEF EInv

\* Every step keeps them.
LEMMA EAlways == EInv /\ [ENext]_evars => EInv'
<1> SUFFICES ASSUME EInv, [ENext]_evars PROVE EInv' OBVIOUS
<1>1. ASSUME NEW c \in ECaller, NEW p \in EProvider, EBegin(c, p) PROVE EInv'
  BY <1>1 DEF EInv, EBegin
<1>2. ASSUME NEW p \in EProvider, EAsk(p) PROVE EInv'
  <2>1. Good(Changed(record[p], "half_open"))
    BY <1>2, AskGood DEF EInv, EAsk
  <2> QED BY <1>2, <2>1 DEF EInv, EAsk, Good
<1>3. CASE cleanup_old_metrics
  BY <1>3, NewGood DEF EInv, cleanup_old_metrics, Good
<1>4. CASE ETick
  <2>1. running' = running BY <1>4 DEF ETick
  <2>2. ASSUME NEW p \in EProvider PROVE Good(record'[p])
    BY <1>4, TickGood DEF ETick, EInv
  <2>3. record' \in [EProvider -> EMetrics]
    BY <1>4, <2>2 DEF ETick, Good
  <2> QED BY <2>1, <2>2, <2>3 DEF EInv
<1>5. CASE UNCHANGED evars
  BY <1>5 DEF EInv, evars
<1> QED BY <1>1, <1>2, <1>3, <1>4, <1>5, EndStep DEF ENext

\* No provider is tried while a lockout that its failures earned is running:
\* is_available(), record_failure() and cleanup_old_metrics(), for any
\* providers, thresholds and times.
THEOREM ThmOpenIsLocked == ESpec => []OpenIsLocked
<1>1. EInv => OpenIsLocked BY DEF EInv, Good, OpenIsLocked
<1> QED BY EInitially, EAlways, <1>1, PTL DEF ESpec

\* The record of a provider and the calls under way keep their types, the
\* counters their bounds.
THEOREM ThmEnhancedTypes == ESpec => []ETypeOK
<1>1. EInv => ETypeOK BY DEF EInv, ETypeOK
<1> QED BY EInitially, EAlways, <1>1, PTL DEF ESpec
=============================================================================
