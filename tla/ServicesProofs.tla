---------------------------- MODULE ServicesProofs ----------------------------
(***************************************************************************)
(* Proofs about the services around the request path, for any providers,   *)
(* scores, listings, tools and batches, and streams of any length: round   *)
(* robin is fair and the strategies rank by what they say, the routing     *)
(* configuration and its file agree, a routed request is never a mixture   *)
(* of two streams, a listing of models is sound whatever changes while it  *)
(* is made, only calls that timed out or were cancelled leave something    *)
(* running, of what a provider sends nothing is lost and no tool call is   *)
(* taken for another, and a skill asks the model only after all it needs,  *)
(* so often and no more.                                                   *)
(***************************************************************************)
EXTENDS RoutingStrategies, RoutingConfig, EnhancedStream, ModelDiscovery, Tools, ProviderWire,
        Skills, SequenceTheorems, WellFoundedInduction, TLAPS

-----------------------------------------------------------------------------
(* RoutingStrategies. *)

\* The least of a set of numbers: induction over the numbers, for sets.
LEMMA LeastNat ==
  ASSUME NEW T \in SUBSET Nat, T # {}
  PROVE  \E x \in T : \A y \in T : x <= y
<1> DEFINE Less == {p \in Nat \X Nat : p[1] < p[2]}
<1>1. IsWellFoundedOn(Less, Nat)
  BY NatLessThanWellFounded DEF OpToRel
<1>2. PICK x \in T : \A y \in T : ~(<<y, x>> \in Less)
  <2> HIDE DEF Less
  <2> QED BY <1>1, WFMin
<1>3. ASSUME NEW y \in T PROVE x <= y
  <2>1. <<y, x>> \notin Less /\ x \in Nat /\ y \in Nat
    BY <1>2
  <2>2. y < x => <<y, x>> \in Less
    BY <2>1
  <2> QED
    BY <2>1, <2>2
<1> QED
  BY <1>3

\* Of two numbered scores, the earlier of the better.
Beats(scores, i, j) == scores[i] > scores[j] \/ (scores[i] = scores[j] /\ i <= j)

\* One of the first of a list is ahead of all of them.
LEMMA OneBeats ==
  ASSUME NEW N \in Nat, NEW scores \in [1..N -> Int], NEW n \in 1..N
  PROVE  \E i \in 1..n : \A j \in 1..n : Beats(scores, i, j)
<1> DEFINE Bad == {m \in 1..N : ~\E i \in 1..m : \A j \in 1..m : Beats(scores, i, j)}
<1> SUFFICES ASSUME Bad # {} PROVE FALSE
  OBVIOUS
<1>1. PICK m \in Bad : \A k \in Bad : m <= k
  <2>1. Bad \in SUBSET Nat
    OBVIOUS
  <2> HIDE DEF Bad
  <2> QED BY <2>1, LeastNat
<1>2. m \in 1..N /\ ~\E i \in 1..m : \A j \in 1..m : Beats(scores, i, j)
  BY <1>1
<1>3. m # 1
  <2> SUFFICES ASSUME m = 1 PROVE FALSE
    OBVIOUS
  <2>1. scores[1] \in Int
    BY <1>2
  <2>2. 1 \in 1..m /\ \A j \in 1..m : j = 1
    BY <1>2
  <2>3. Beats(scores, 1, 1)
    BY <2>1 DEF Beats
  <2> QED BY <1>2, <2>2, <2>3
<1>4. PICK p : p = m - 1
  OBVIOUS
<1>5. p \in 1..N /\ p < m /\ m = p + 1
  BY <1>2, <1>3, <1>4
<1>6. p \notin Bad
  <2>1. ~(m <= p)
    BY <1>2, <1>5
  <2> HIDE DEF Bad
  <2> QED BY <1>1, <2>1
<1>7. PICK i \in 1..p : \A j \in 1..p : Beats(scores, i, j)
  BY <1>5, <1>6
<1> HIDE DEF Bad
<1>8. /\ i \in 1..m /\ i \in Int /\ m \in 1..m /\ scores[i] \in Int /\ scores[m] \in Int
      /\ \A j \in 1..m : j \in Int /\ scores[j] \in Int /\ (j \in 1..p \/ j = m) /\ i <= m
  <2>1. m \in 1..N /\ i \in 1..N /\ i <= m /\ i \in 1..m /\ m \in 1..m
    BY <1>2, <1>5
  <2>2. \A j \in 1..m : j \in 1..N /\ (j \in 1..p \/ j = m)
    BY SMTT(30), <1>2, <1>5
  <2>3. \A j \in 1..N : scores[j] \in Int
    OBVIOUS
  <2> QED BY <2>1, <2>2, <2>3
<1>9. CASE scores[i] >= scores[m]
  <2>1. ASSUME NEW j \in 1..m PROVE Beats(scores, i, j)
    <3>1. CASE j = m
      BY <1>8, <1>9, <3>1 DEF Beats
    <3> QED BY <1>7, <1>8, <3>1
  <2> QED BY <1>2, <1>8, <2>1
<1>10. CASE scores[i] < scores[m]
  <2>1. ASSUME NEW j \in 1..m PROVE Beats(scores, m, j)
    <3>1. CASE j = m
      BY <1>8, <3>1 DEF Beats
    <3>2. CASE j \in 1..p
      <4>1. Beats(scores, i, j)
        BY <1>7, <3>2
      <4> QED BY <1>8, <1>10, <4>1 DEF Beats
    <3> QED BY <1>8, <3>1, <3>2
  <2> QED BY <1>2, <1>8, <2>1
<1> QED BY <1>8, <1>9, <1>10

\* The best of a list is there, and none scores more.
LEMMA FirstIs ==
  ASSUME NEW S, NEW list \in Seq(S), list # << >>, NEW scores \in [DOMAIN list -> Int]
  PROVE  \E i \in DOMAIN list : /\ First(list, scores) = list[i]
                                /\ \A j \in DOMAIN list : scores[i] >= scores[j]
<1>1. PICK N \in Nat : N = Len(list)
  OBVIOUS
<1>2. N \in 1..N /\ DOMAIN list = 1..N
  BY <1>1
<1>3. \E i \in DOMAIN list : \A j \in DOMAIN list : Beats(scores, i, j)
  BY <1>2, OneBeats
<1> DEFINE k == CHOOSE i \in DOMAIN list : \A j \in DOMAIN list : Beats(scores, i, j)
<1>4. k \in DOMAIN list /\ \A j \in DOMAIN list : Beats(scores, k, j)
  BY <1>3
<1>5. First(list, scores) = list[k]
  BY DEF First, Beats
<1> HIDE DEF k
<1>6. ASSUME NEW j \in DOMAIN list PROVE scores[k] >= scores[j]
  <2>1. scores[k] \in Int /\ scores[j] \in Int
    BY <1>4
  <2> QED BY <1>4, <2>1 DEF Beats
<1> QED BY <1>4, <1>5, <1>6

\* f is what filter_candidates() builds over the first n.
IsKept(pool, f, n) ==
  f = [k \in 0..n |-> IF k = 0 THEN << >>
                      ELSE IF pool[k].available THEN Append(f[k - 1], pool[k]) ELSE f[k - 1]]

\* There is such an f for every n.
LEMMA KeptExists ==
  ASSUME NEW pool, NEW N \in Nat
  PROVE  \E f : IsKept(pool, f, N)
<1> DEFINE Bad == {n \in 0..N : ~\E f : IsKept(pool, f, n)}
<1> SUFFICES ASSUME Bad # {} PROVE FALSE
  <2>1. N \in 0..N
    OBVIOUS
  <2> QED BY <2>1
<1>1. PICK n \in Bad : \A k \in Bad : n <= k
  <2>1. Bad \in SUBSET Nat
    OBVIOUS
  <2> HIDE DEF Bad
  <2> QED BY <2>1, LeastNat
<1>2. n \in 0..N /\ ~\E f : IsKept(pool, f, n)
  BY <1>1
<1>3. n # 0
  <2> SUFFICES ASSUME n = 0 PROVE FALSE
    OBVIOUS
  <2> DEFINE e == [k \in 0..n |-> << >>]
  <2>1. \A k \in 0..n : k = 0
    BY <1>2
  <2>2. IsKept(pool, e, n)
    BY <2>1 DEF IsKept
  <2> QED BY <1>2, <2>2
<1>4. PICK p : p = n - 1
  OBVIOUS
<1>5. p \in 0..N /\ p < n /\ n = p + 1 /\ p \in 0..n
  BY <1>2, <1>3, <1>4
<1>6. p \notin Bad
  BY <1>1, <1>5
<1>7. PICK f : IsKept(pool, f, p)
  BY <1>5, <1>6
<1> HIDE DEF Bad
<1>8. ASSUME NEW k \in 0..p
      PROVE  f[k] = IF k = 0 THEN << >>
                    ELSE IF pool[k].available THEN Append(f[k - 1], pool[k]) ELSE f[k - 1]
  BY <1>7 DEF IsKept
<1> DEFINE g == [k \in 0..n |->
               IF k = n THEN IF pool[n].available THEN Append(f[p], pool[n]) ELSE f[p] ELSE f[k]]
<1>9. ASSUME NEW k \in 0..n
      PROVE  g[k] = IF k = 0 THEN << >>
                    ELSE IF pool[k].available THEN Append(g[k - 1], pool[k]) ELSE g[k - 1]
  <2>1. g[p] = f[p]
    BY <1>5
  <2>2. CASE k = n
    <3>1. k - 1 = p /\ k # 0
      BY <1>4, <1>5, <1>3, <2>2
    <3>2. g[k] = IF pool[n].available THEN Append(f[p], pool[n]) ELSE f[p]
      BY <2>2
    <3> HIDE DEF g
    <3> QED BY <2>1, <2>2, <3>1, <3>2
  <2>3. CASE k # n
    <3>1. k \in 0..p /\ g[k] = f[k]
      BY <1>5, <2>3
    <3>2. k # 0 => k - 1 \in 0..n /\ k - 1 # n
      BY <1>5, <2>3
    <3>3. k # 0 => g[k - 1] = f[k - 1]
      BY <3>2
    <3> HIDE DEF g
    <3> QED BY <1>8, <3>1, <3>3
  <2> QED BY <2>2, <2>3
<1>10. DOMAIN g = 0..n /\ g = [k \in 0..n |-> g[k]]
  OBVIOUS
<1> HIDE DEF g
<1>11. IsKept(pool, g, n)
  BY <1>9, <1>10 DEF IsKept
<1> QED BY <1>2, <1>11

\* s holds some of the first n of the pool, each once.
SomeOf(pool, s, n) ==
  /\ s \in Seq(Candidate)
  /\ \A i \in DOMAIN s : s[i].available /\ \E a \in 1..n : s[i] = pool[a]
  /\ \A i, j \in DOMAIN s : i # j => s[i] # s[j]

\* The next of the pool is kept or not, and is none of those before it.
LEMMA OneMore ==
  ASSUME NEW pool \in Seq(Candidate), NEW n \in DOMAIN pool, NEW p \in Nat, n = p + 1,
         \A a \in 1..p : pool[a] # pool[n],
         NEW s, SomeOf(pool, s, p)
  PROVE  /\ SomeOf(pool, s, n)
         /\ pool[n].available => SomeOf(pool, Append(s, pool[n]), n)
<1>1. \A a \in 1..p : a \in 1..n
  OBVIOUS
<1>2. SomeOf(pool, s, n)
  BY <1>1 DEF SomeOf
<1>3. ASSUME pool[n].available PROVE SomeOf(pool, Append(s, pool[n]), n)
  <2>1. PICK c \in Candidate : c = pool[n]
    OBVIOUS
  <2>2. s \in Seq(Candidate)
    BY DEF SomeOf
  <2>3. PICK t : t = Append(s, c)
    OBVIOUS
  <2>4. /\ t \in Seq(Candidate) /\ Len(t) = Len(s) + 1 /\ t[Len(s) + 1] = c
        /\ \A i \in 1..Len(s) : t[i] = s[i]
    BY <2>2, <2>3, AppendProperties
  <2>5. PICK l \in Nat : l = Len(s)
    BY <2>2
  <2>6. DOMAIN s = 1..l /\ DOMAIN t = 1..(l + 1) /\ t[l + 1] = c /\ \A i \in 1..l : t[i] = s[i]
    BY <2>2, <2>4, <2>5
  <2>7. \A i \in 1..l : s[i].available /\ \E a \in 1..p : s[i] = pool[a]
    BY <2>6 DEF SomeOf
  <2>8. \A i \in 1..l : s[i] # c
    BY <2>1, <2>7
  <2>9. \A i \in 1..(l + 1) : i \in 1..l \/ i = l + 1
    OBVIOUS
  <2>10. ASSUME NEW i \in DOMAIN t PROVE t[i].available /\ \E a \in 1..n : t[i] = pool[a]
    <3>1. n \in 1..n
      OBVIOUS
    <3>2. CASE i = l + 1
      BY <1>3, <2>1, <2>6, <3>1, <3>2
    <3>3. CASE i \in 1..l
      BY <1>1, <2>6, <2>7, <3>3
    <3> QED BY <2>6, <2>9, <3>2, <3>3
  <2>11. \A i, j \in 1..l : i # j => s[i] # s[j]
    BY <2>6 DEF SomeOf
  <2>12. ASSUME NEW i \in DOMAIN t, NEW j \in DOMAIN t, i # j PROVE t[i] # t[j]
    BY <2>6, <2>8, <2>9, <2>11, <2>12
  <2> QED BY <2>1, <2>3, <2>4, <2>10, <2>12 DEF SomeOf
<1> QED BY <1>2, <1>3

\* What filter_candidates() keeps: some of the candidates, each once.
LEMMA FilterIs ==
  ASSUME RoutingAssumption, NEW pool \in Pool
  PROVE  SomeOf(pool, filter_candidates(pool), Len(pool))
<1>1. /\ pool \in Seq(Candidate)
      /\ \A i, j \in DOMAIN pool : i # j => pool[i].id # pool[j].id
  BY DEF RoutingAssumption
<1>2. PICK N \in Nat : N = Len(pool) /\ DOMAIN pool = 1..N
  BY <1>1
<1> DEFINE f == CHOOSE f : IsKept(pool, f, N)
<1>3. IsKept(pool, f, N)
  BY KeptExists
<1>4. filter_candidates(pool) = f[N]
  BY <1>2 DEF filter_candidates, IsKept
<1> HIDE DEF f
<1>5. ASSUME NEW k \in 0..N
      PROVE  f[k] = IF k = 0 THEN << >>
                    ELSE IF pool[k].available THEN Append(f[k - 1], pool[k]) ELSE f[k - 1]
  BY <1>3 DEF IsKept
<1> DEFINE Off == {n \in 0..N : ~SomeOf(pool, f[n], n)}
<1>6. Off = {}
  <2> SUFFICES ASSUME Off # {} PROVE FALSE
    OBVIOUS
  <2>1. PICK n \in Off : \A k \in Off : n <= k
    <3>1. Off \in SUBSET Nat
      OBVIOUS
    <3> HIDE DEF Off
    <3> QED BY <3>1, LeastNat
  <2>2. n \in 0..N /\ ~SomeOf(pool, f[n], n)
    BY <2>1
  <2>3. n # 0
    <3>1. f[0] = << >>
      BY <1>5
    <3>2. SomeOf(pool, << >>, 0)
      BY EmptySeq DEF SomeOf
    <3> QED BY <2>2, <3>1, <3>2
  <2>4. PICK p : p = n - 1
    OBVIOUS
  <2>5. p \in 0..N /\ p < n /\ n = p + 1 /\ n \in 1..N /\ p \in Nat
    BY <2>2, <2>3, <2>4
  <2>6. SomeOf(pool, f[p], p)
    <3>1. p \notin Off
      BY <2>1, <2>5
    <3> QED BY <2>5, <3>1
  <2>7. f[n] = IF pool[n].available THEN Append(f[p], pool[n]) ELSE f[p]
    BY <1>5, <2>2, <2>3, <2>4
  <2>8. \A a \in 1..p : pool[a] # pool[n]
    <3>1. \A a \in 1..p : a \in DOMAIN pool /\ n \in DOMAIN pool /\ a # n
      BY <1>2, <2>5
    <3> QED BY <1>1, <3>1
  <2>9. n \in DOMAIN pool
    BY <1>2, <2>5
  <2> HIDE DEF Off
  <2> QED BY <1>1, <2>2, <2>5, <2>6, <2>7, <2>8, <2>9, OneMore
<1>7. N \in 0..N /\ SomeOf(pool, f[N], N)
  BY <1>6
<1> QED
  BY <1>2, <1>4, <1>7

\* The i-th of n was among the last m when the k-th was the last.
Recent(i, k, n, m) == IF i <= k THEN k - i < m ELSE k + n - i < m

\* The one whose turn it is had none among the last m, and is then the first of them.
LEMMA Turning ==
  ASSUME NEW n \in Nat \ {0}, NEW k \in 1..n, NEW m \in 0..(n - 1), NEW next \in 1..n,
         next = IF k = n THEN 1 ELSE k + 1
  PROVE  /\ ~Recent(next, k, n, m)
         /\ \A i \in 1..n : Recent(i, next, n, m + 1) <=> (i = next \/ Recent(i, k, n, m))
  BY DEF Recent

\* The index of the strategy goes round, also when the list is shorter than before.
LEMMA NextIs ==
  ASSUME NEW n \in Nat \ {0}, NEW k \in Nat
  PROVE  /\ (k % n) + 1 \in 1..n
         /\ k \in 1..n => (k % n) + 1 = IF k = n THEN 1 ELSE k + 1
<1>1. k % n \in 0..(n - 1)
  OBVIOUS
<1>2. k < n => k % n = k
  OBVIOUS
<1>3. n % n = 0
  OBVIOUS
<1> QED BY <1>1, <1>2, <1>3

\* turns counts what was selected since all had as many turns: the last m.
Rotation(list, k, table, m) ==
  /\ list \in Seq(Candidate) /\ list # << >>
  /\ \A i, j \in DOMAIN list : i # j => list[i] # list[j]
  /\ k \in 1..Len(list) /\ m \in 0..(Len(list) - 1)
  /\ DOMAIN table = ToSet(list)
  /\ \A i \in DOMAIN list : table[list[i]] = IF Recent(i, k, Len(list), m) THEN 1 ELSE 0

\* While the same list is offered, turns are those of its rotation; the index may
\* be anywhere when another list begins.
FairInv ==
  /\ lastIndex \in Nat
  /\ cycle = << >> => turns = << >>
  /\ cycle # << >> => \E m \in 0..(Len(cycle) - 1) : Rotation(cycle, lastIndex, turns, m)

\* The last m of n have had a turn more, the k-th was the last, next is next.
Ready(list, n, k, m, before, next) ==
  /\ list \in Seq(Candidate) /\ list # << >>
  /\ \A i, j \in DOMAIN list : i # j => list[i] # list[j]
  /\ n \in Nat \ {0} /\ n = Len(list) /\ k \in 1..n /\ m \in 0..(n - 1) /\ next \in 1..n
  /\ DOMAIN before = ToSet(list)
  /\ \A i \in DOMAIN list : before[list[i]] = IF Recent(i, k, n, m) THEN 1 ELSE 0
  /\ ~Recent(next, k, n, m)
  /\ \A i \in 1..n : Recent(i, next, n, m + 1) <=> (i = next \/ Recent(i, k, n, m))

\* What turns is when that one is selected.
After(list, before, next) ==
  LET counted == [before EXCEPT ![list[next]] = @ + 1]
  IN IF \A c \in ToSet(list) : counted[c] > 0
     THEN [c \in ToSet(list) |-> counted[c] - 1] ELSE counted

\* The table after a turn counts the last m + 1, or none when all had theirs.
LEMMA OneTurn ==
  ASSUME NEW list, NEW n, NEW k, NEW m, NEW before, NEW next,
         Ready(list, n, k, m, before, next)
  PROVE  \E q \in 0..(n - 1) : Rotation(list, next, After(list, before, next), q)
<1> USE DEF Ready
<1>a. PICK counted : counted = [before EXCEPT ![list[next]] = @ + 1]
  OBVIOUS
<1>b. PICK after : /\ after = After(list, before, next)
                   /\ after = IF \A c \in ToSet(list) : counted[c] > 0
                              THEN [c \in ToSet(list) |-> counted[c] - 1] ELSE counted
  BY <1>a DEF After
<1>1. DOMAIN list = 1..n /\ ToSet(list) = {list[i] : i \in 1..n}
  BY DEF ToSet
<1>2. ASSUME NEW i \in 1..n
      PROVE  list[i] \in ToSet(list)
             /\ counted[list[i]] = IF Recent(i, next, n, m + 1) THEN 1 ELSE 0
  <2>1. list[i] \in ToSet(list) /\ list[next] \in ToSet(list)
    BY <1>1
  <2>2. CASE i = next
    <3>1. counted[list[next]] = before[list[next]] + 1
      BY <2>1, <1>a
    <3>2. before[list[next]] = 0
      BY <1>1
    <3> QED BY <2>1, <2>2, <3>1, <3>2
  <2>3. CASE i # next
    <3>1. list[i] # list[next]
      BY <1>1, <2>3
    <3>2. counted[list[i]] = before[list[i]]
      BY <2>1, <3>1, <1>a
    <3>3. before[list[i]] = IF Recent(i, k, n, m) THEN 1 ELSE 0
      BY <1>1
    <3>4. Recent(i, next, n, m + 1) <=> Recent(i, k, n, m)
      BY <2>3
    <3> QED BY <2>1, <3>2, <3>3, <3>4
  <2> QED BY <2>2, <2>3
<1>3. DOMAIN counted = ToSet(list)
  BY <1>a
<1>4. ASSUME NEW q \in 0..(n - 1), DOMAIN after = ToSet(list),
             \A i \in 1..n : after[list[i]] = IF Recent(i, next, n, q) THEN 1 ELSE 0
      PROVE  Rotation(list, next, after, q)
  BY <1>1, <1>4 DEF Rotation
<1>5. CASE m + 1 = n
  <2>1. \A i \in 1..n : Recent(i, next, n, m + 1)
    BY <1>5 DEF Recent
  <2>2. \A i \in 1..n : counted[list[i]] = 1
    BY <1>2, <2>1
  <2>3. ASSUME NEW c \in ToSet(list) PROVE counted[c] = 1
    <3>1. PICK i \in 1..n : c = list[i]
      BY <1>1
    <3> QED BY <2>2, <3>1
  <2>4. after = [c \in ToSet(list) |-> counted[c] - 1]
    BY <2>3, <1>b
  <2>5. DOMAIN after = ToSet(list) /\ \A i \in 1..n : after[list[i]] = 0
    BY <1>2, <2>2, <2>4
  <2>6. \A i \in 1..n : ~Recent(i, next, n, 0)
    BY DEF Recent
  <2>7. 0 \in 0..(n - 1)
    OBVIOUS
  <2> QED BY <1>4, <2>5, <2>6, <2>7, <1>b
<1>6. CASE m + 1 # n
  <2>1. PICK q : q = m + 1
    OBVIOUS
  <2>2. q \in 0..(n - 1)
    BY <1>6, <2>1
  <2>3. \E i \in 1..n : ~Recent(i, next, n, q)
    <3>1. CASE next = n
      <4>1. 1 \in 1..n /\ ~Recent(1, next, n, q)
        BY <2>2, <3>1 DEF Recent
      <4> QED BY <4>1
    <3>2. CASE next # n
      <4>1. next + 1 \in 1..n /\ ~Recent(next + 1, next, n, q)
        BY <2>2, <3>2 DEF Recent
      <4> QED BY <4>1
    <3> QED BY <3>1, <3>2
  <2>4. PICK i \in 1..n : ~Recent(i, next, n, q)
    BY <2>3
  <2>5. counted[list[i]] = 0 /\ list[i] \in ToSet(list)
    BY <1>2, <2>1, <2>4
  <2>6. after = counted
    BY <2>5, <1>b
  <2>7. \A j \in 1..n : after[list[j]] = IF Recent(j, next, n, q) THEN 1 ELSE 0
    BY <1>2, <2>1, <2>6
  <2> QED BY <1>3, <1>4, <2>2, <2>6, <2>7, <1>b
<1> QED BY <1>5, <1>6

\* A selection keeps the rotation, or starts one over another list.
LEMMA RoundStep ==
  ASSUME RoutingAssumption, FairInv, NEW pool \in Pool, RoundRobin(pool)
  PROVE  FairInv'
<1>1. PICK list : list = filter_candidates(pool)
  OBVIOUS
<1>2. /\ list \in Seq(Candidate) /\ list # << >>
      /\ \A i, j \in DOMAIN list : i # j => list[i] # list[j]
  BY <1>1, FilterIs DEF SomeOf, RoundRobin
<1>3. PICK n \in Nat \ {0} : n = Len(list)
  BY <1>2
<1>4. PICK next : next = (lastIndex % n) + 1
  OBVIOUS
<1>5. next \in 1..n /\ (lastIndex \in 1..n => next = IF lastIndex = n THEN 1 ELSE lastIndex + 1)
  BY <1>4, NextIs DEF FairInv
<1>6. PICK before : before = IF list = cycle THEN turns ELSE [c \in ToSet(list) |-> 0]
  OBVIOUS
<1>9. lastIndex' = next /\ cycle' = list /\ turns' = After(list, before, next)
  BY <1>1, <1>3, <1>4, <1>6 DEF RoundRobin, NextIndex, After
<1>10. \E k \in 1..n, m \in 0..(n - 1) :
         /\ DOMAIN before = ToSet(list)
         /\ \A i \in DOMAIN list : before[list[i]] = IF Recent(i, k, n, m) THEN 1 ELSE 0
         /\ ~Recent(next, k, n, m)
         /\ \A i \in 1..n : Recent(i, next, n, m + 1) <=> (i = next \/ Recent(i, k, n, m))
  <2>1. CASE list = cycle
    <3>1. PICK m \in 0..(Len(cycle) - 1) : Rotation(cycle, lastIndex, turns, m)
      BY <1>2, <2>1 DEF FairInv
    <3>2. /\ lastIndex \in 1..n /\ m \in 0..(n - 1) /\ DOMAIN before = ToSet(list)
          /\ \A i \in DOMAIN list : before[list[i]] = IF Recent(i, lastIndex, n, m) THEN 1 ELSE 0
      BY <1>3, <1>6, <2>1, <3>1 DEF Rotation
    <3>3. /\ ~Recent(next, lastIndex, n, m)
          /\ \A i \in 1..n : Recent(i, next, n, m + 1) <=> (i = next \/ Recent(i, lastIndex, n, m))
      BY <1>5, <3>2, Turning
    <3> QED BY <3>2, <3>3
  <2>2. CASE list # cycle
    <3>1. PICK k \in 1..n : next = IF k = n THEN 1 ELSE k + 1
      <4>1. CASE next = 1
        <5>1. n \in 1..n /\ next = IF n = n THEN 1 ELSE n + 1
          BY <4>1
        <5> QED BY <5>1
      <4>2. CASE next # 1
        <5>1. next - 1 \in 1..n /\ next = IF next - 1 = n THEN 1 ELSE (next - 1) + 1
          BY <1>5, <4>2
        <5> QED BY <5>1
      <4> QED BY <4>1, <4>2
    <3>2. PICK m \in 0..(n - 1) : m = 0
      OBVIOUS
    <3>3. /\ ~Recent(next, k, n, m)
          /\ \A i \in 1..n : Recent(i, next, n, m + 1) <=> (i = next \/ Recent(i, k, n, m))
      BY <1>5, <3>1, Turning
    <3>4. before = [c \in ToSet(list) |-> 0]
      BY <1>6, <2>2
    <3>5. DOMAIN before = ToSet(list)
          /\ \A i \in DOMAIN list : before[list[i]] = IF Recent(i, k, n, m) THEN 1 ELSE 0
      <4>1. ToSet(list) = {list[i] : i \in DOMAIN list} /\ DOMAIN list = 1..n
        BY <1>2, <1>3 DEF ToSet
      <4>2. \A i \in 1..n : ~Recent(i, k, n, m)
        BY <3>2 DEF Recent
      <4> QED BY <3>4, <4>1, <4>2
    <3> QED BY <3>3, <3>5
  <2> QED BY <2>1, <2>2
<1>11. next \in 1..n /\ next \in Nat
  BY <1>5
<1>12. \E k, m : Ready(list, n, k, m, before, next)
  BY <1>2, <1>3, <1>10, <1>11 DEF Ready
<1>13. \E q \in 0..(n - 1) : Rotation(list, next, After(list, before, next), q)
  BY <1>12, OneTurn
<1> QED BY <1>2, <1>3, <1>9, <1>11, <1>13 DEF FairInv

\* Round-robin is fair over a list that stays the same.
THEOREM RoundRobinIsFair == SSpec => []RoundRobinFair
<1> USE RoutingAssumption
<1>1. SInit => FairInv
  BY DEF SInit, FairInv
<1>2. FairInv /\ [SNext]_svars => FairInv'
  <2> SUFFICES ASSUME FairInv, [SNext]_svars PROVE FairInv'
    OBVIOUS
  <2>1. CASE UNCHANGED <<lastIndex, cycle, turns>>
    BY <2>1 DEF FairInv
  <2>2. ASSUME NEW pool \in Pool, RoundRobin(pool) PROVE FairInv'
    BY <2>2, RoundStep
  <2>3. SNext => UNCHANGED <<lastIndex, cycle, turns>> \/ \E pool \in Pool : RoundRobin(pool)
    BY DEF SNext, Select, LastKnownGood, SelectProvider
  <2>4. UNCHANGED svars => UNCHANGED <<lastIndex, cycle, turns>>
    BY DEF svars
  <2> QED BY <2>1, <2>2, <2>3, <2>4
<1>3. FairInv => RoundRobinFair
  <2> SUFFICES ASSUME FairInv, NEW c \in DOMAIN turns, NEW d \in DOMAIN turns
               PROVE  turns[c] - turns[d] <= 1
    BY DEF RoundRobinFair
  <2>1. cycle # << >>
    BY DEF FairInv
  <2>2. PICK m \in 0..(Len(cycle) - 1) : Rotation(cycle, lastIndex, turns, m)
    BY <2>1 DEF FairInv
  <2>3. \A i \in DOMAIN cycle : turns[cycle[i]] = 0 \/ turns[cycle[i]] = 1
    BY <2>2 DEF Rotation
  <2>4. ToSet(cycle) = {cycle[i] : i \in DOMAIN cycle} /\ DOMAIN turns = ToSet(cycle)
    BY <2>2 DEF Rotation, ToSet
  <2>5. \A e \in DOMAIN turns : turns[e] = 0 \/ turns[e] = 1
    BY <2>3, <2>4
  <2> QED BY <2>5
<1> QED BY <1>1, <1>2, <1>3, PTL DEF SSpec

\* What \div gives.
LEMMA Division ==
  ASSUME NEW a \in Nat, NEW x \in Nat \ {0}
  PROVE  /\ a \div x \in Nat
         /\ x * (a \div x) <= a
         /\ a < x * ((a \div x) + 1)
  OBVIOUS

\* A smaller divisor of a larger number gives no less.
LEMMA DivisionMonotone ==
  ASSUME NEW a \in Nat, NEW b \in Nat, NEW x \in Nat \ {0}, NEW y \in Nat \ {0}, a <= b, x <= y
  PROVE  a \div y <= b \div x
<1>1. PICK p \in Nat : p = a \div y /\ y * p <= a
  BY Division
<1>2. PICK q \in Nat : q = b \div x /\ b < x * (q + 1)
  BY Division
<1>3. SUFFICES ASSUME q + 1 <= p PROVE FALSE
  BY <1>1, <1>2
<1>4. x * (q + 1) <= x * p
  BY <1>3
<1>5. x * p <= y * p
  OBVIOUS
<1>6. x * (q + 1) \in Nat /\ x * p \in Nat /\ y * p \in Nat
  OBVIOUS
<1> QED BY <1>1, <1>2, <1>4, <1>5, <1>6

\* A larger divisor gives no more.
LEMMA MoreIsLess ==
  ASSUME NEW a \in Nat, NEW x \in Nat \ {0}, NEW y \in Nat \ {0}, x <= y
  PROVE  a \div y <= a \div x
<1>1. PICK b \in Nat : b = a /\ a <= b
  OBVIOUS
<1>2. a \div y <= b \div x
  BY <1>1, DivisionMonotone
<1> QED BY <1>1, <1>2

\* A part is no more than the whole.
LEMMA DivisionBounded ==
  ASSUME NEW a \in Nat, NEW x \in Nat \ {0}, a <= 1000 * x
  PROVE  a \div x <= 1000
<1>1. PICK q \in Nat : q = a \div x /\ x * q <= a
  BY Division, SMT
<1>2. SUFFICES ASSUME 1001 <= q PROVE FALSE
  BY <1>1, SMT
<1>3. x * 1001 <= x * q
  BY <1>2
<1>4. x * q \in Nat
  OBVIOUS
<1> QED BY <1>1, <1>3, <1>4

\* The three scores that add up a fit, a health, a headroom and the cheapness.
LEMMA Weighted ==
  ASSUME NEW u \in Nat, NEW v \in Nat, NEW h \in Nat, NEW k \in Nat,
         NEW q \in Nat, NEW r \in Nat, NEW x \in Nat, NEW y \in Nat,
         u <= 1000, h <= 1000, q <= 1000
  PROVE  /\ u <= v /\ h < k /\ q < r /\ x <= y
              => 4 * u + 3 * h + 2 * q + x < 4 * v + 3 * k + 2 * r + y
         /\ x <= 500000 /\ y = 1000000
              => /\ 4 * u + 3 * h + 2 * q + x < 4 * v + 3 * k + 2 * r + y
                 /\ (4 * h + 2 * q + x) \div 10 + 60 < (4 * k + 2 * r + y) \div 10
  BY SMT

\* The numbers of a candidate.
LEMMA CandidateIs ==
  ASSUME NEW c \in Candidate
  PROVE  /\ c.health \in Nat /\ c.health <= 1000 /\ c.quota \in Nat /\ c.quota <= 1000
         /\ c.errors \in Nat /\ c.errors <= 1000
         /\ c.cost \in Nat /\ c.uses \in Nat /\ c.window \in Nat
<1>1. /\ c.health \in 0..1000 /\ c.quota \in 0..1000 /\ c.errors \in 0..1000
      /\ c.cost \in Nat /\ c.uses \in Nat /\ c.window \in Nat
  BY DEF Candidate
<1>2. PICK h, q, e : h = c.health /\ q = c.quota /\ e = c.errors
  OBVIOUS
<1>3. h \in 0..1000 /\ q \in 0..1000 /\ e \in 0..1000
  BY <1>1, <1>2
<1>4. /\ h \in Nat /\ h <= 1000 /\ q \in Nat /\ q <= 1000
      /\ e \in Nat /\ e <= 1000
  BY <1>3
<1> QED BY <1>1, <1>2, <1>4

\* The cheaper the higher, and what is free is twice as cheap as anything else.
LEMMA CheapnessIs ==
  ASSUME NEW c \in Candidate
  PROVE  /\ Cheapness(c) \in Nat
         /\ c.cost <= 1 => Cheapness(c) = 1000000
         /\ c.cost > 1 => Cheapness(c) <= 500000
         /\ \A d \in Candidate : d.cost <= c.cost => Cheapness(d) >= Cheapness(c)
<1>1. PICK x \in Nat \ {0} : x = Upper(c.cost, 1) /\ Cheapness(c) = 1000000 \div x
  BY SMT DEF Candidate, Upper, Cheapness
<1>2. Cheapness(c) \in Nat
  BY <1>1, Division, SMT
<1>3. c.cost <= 1 => Cheapness(c) = 1000000
  <2>1. c.cost <= 1 => x = 1
    BY <1>1, SMT DEF Candidate, Upper
  <2> QED BY <1>1, <2>1, SMT
<1>4. ASSUME c.cost > 1 PROVE Cheapness(c) <= 500000
  <2>1. x >= 2
    BY <1>1, <1>4, SMT DEF Candidate, Upper
  <2>2. 1000000 \div x <= 1000000 \div 2
    BY <2>1, DivisionMonotone, SMT
  <2> QED BY <1>1, <2>2, SMT
<1>5. ASSUME NEW d \in Candidate, d.cost <= c.cost PROVE Cheapness(d) >= Cheapness(c)
  <2>1. PICK y \in Nat \ {0} : y = Upper(d.cost, 1) /\ Cheapness(d) = 1000000 \div y
    BY SMT DEF Candidate, Upper, Cheapness
  <2>2. y <= x
    BY <1>1, <1>5, <2>1, SMT DEF Candidate, Upper
  <2>3. PICK m \in Nat : m = 1000000
    BY SMT
  <2>4. m \div x <= m \div y
    BY <2>2, MoreIsLess
  <2> QED BY <1>1, <1>2, <2>1, <2>3, <2>4, SMT
<1> QED BY <1>2, <1>3, <1>4, <1>5, SMT

\* A better candidate has a higher score, and a free one the highest: context-relay.
LEMMA RelayRanks ==
  ASSUME NEW c \in Candidate, NEW d \in Candidate
  PROVE  /\ RelayScore(c) \in Nat
         /\ Bettered(c, d) => RelayScore(c) < RelayScore(d)
         /\ c.cost > 1 /\ d.cost <= 1 => RelayScore(c) < RelayScore(d)
<1>1. /\ c.window \in Nat /\ c.health \in Nat /\ c.health <= 1000 /\ c.quota \in Nat /\ c.quota <= 1000 /\ c.cost \in Nat
      /\ d.window \in Nat /\ d.health \in Nat /\ d.health <= 1000 /\ d.quota \in Nat /\ d.quota <= 1000 /\ d.cost \in Nat
  BY CandidateIs
<1>2. PICK u \in Nat : u = Lower((c.window * 1000) \div 32768, 1000)
  BY <1>1, SMT DEF Lower
<1>3. PICK v \in Nat : v = Lower((d.window * 1000) \div 32768, 1000)
  BY <1>1, SMT DEF Lower
<1>4. u <= 1000 /\ (d.window >= c.window => v >= u)
  BY <1>1, <1>2, <1>3, SMT DEF Lower
<1>5. /\ RelayScore(c) = 4 * u + 3 * c.health + 2 * c.quota + Cheapness(c)
      /\ RelayScore(d) = 4 * v + 3 * d.health + 2 * d.quota + Cheapness(d)
  BY <1>2, <1>3, SMT DEF RelayScore
<1>6. /\ Cheapness(c) \in Nat /\ Cheapness(d) \in Nat
      /\ c.cost > 1 => Cheapness(c) <= 500000
      /\ d.cost <= 1 => Cheapness(d) = 1000000
      /\ d.cost <= c.cost => Cheapness(d) >= Cheapness(c)
  BY CheapnessIs, SMT
<1>7. /\ u <= 1000
      /\ Bettered(c, d) => u <= v /\ c.health < d.health /\ c.quota < d.quota
                           /\ Cheapness(c) <= Cheapness(d)
  BY <1>1, <1>3, <1>4, <1>6, SMT DEF Bettered, Lower
<1>8. RelayScore(c) \in Nat
  BY <1>1, <1>5, <1>6, SMT
<1> QED BY <1>1, <1>5, <1>6, <1>7, <1>8, Weighted, SMT

\* The same of context-optimized, for what is free.
LEMMA FitRanks ==
  ASSUME NEW c \in Candidate, NEW d \in Candidate, NEW tokens \in Nat
  PROVE  /\ FitScore(c, tokens) \in Nat
         /\ c.cost > 1 /\ d.cost <= 1 => FitScore(c, tokens) < FitScore(d, tokens)
<1>1. ASSUME NEW e \in Candidate
      PROVE  \E f \in Nat : f <= 1000 /\ FitScore(e, tokens) = 4 * f + 3 * e.health + 2 * e.quota + Cheapness(e)
  <2>1. e.window \in Nat
    BY CandidateIs
  <2>2. CASE tokens = 0
    <3>1. PICK f \in Nat : f = 500
      OBVIOUS
    <3>2. (CASE tokens = 0 -> 500
             [] tokens > e.window -> 100
             [] OTHER -> (tokens * 1000) \div e.window) = f
      BY <2>1, <2>2, <3>1
    <3>3. FitScore(e, tokens) = 4 * f + 3 * e.health + 2 * e.quota + Cheapness(e)
      BY <3>2, Zenon DEF FitScore
    <3> QED BY <3>1, <3>3
  <2>3. CASE tokens > e.window
    <3>1. tokens # 0
      BY <2>1, <2>3, SMT
    <3>2. PICK f \in Nat : f = 100
      OBVIOUS
    <3>3. FitScore(e, tokens) = 4 * f + 3 * e.health + 2 * e.quota + Cheapness(e)
      BY <2>3, <3>1, <3>2 DEF FitScore
    <3> QED BY <3>2, <3>3
  <2>4. CASE tokens # 0 /\ ~(tokens > e.window)
    <3>1. e.window \in Nat \ {0} /\ tokens * 1000 \in Nat /\ tokens * 1000 <= 1000 * e.window
      BY <2>1, <2>4, SMT
    <3>2. PICK f \in Nat : f = (tokens * 1000) \div e.window
      BY <3>1, Division, SMT
    <3>3. f \in 0..1000
      <4>1. PICK a \in Nat : a = tokens * 1000
        BY <3>1
      <4>2. f <= 1000
        BY <3>1, <3>2, <4>1, DivisionBounded
      <4> QED BY <4>2
    <3>4. FitScore(e, tokens) = 4 * f + 3 * e.health + 2 * e.quota + Cheapness(e)
      BY <2>4, <3>2, SMT DEF FitScore
    <3> QED BY <3>3, <3>4, SMT
  <2> QED BY <2>2, <2>3, <2>4, SMT
<1>2. PICK f \in Nat : f <= 1000 /\ FitScore(c, tokens) = 4 * f + 3 * c.health + 2 * c.quota + Cheapness(c)
  BY <1>1
<1>3. PICK g \in Nat : g <= 1000 /\ FitScore(d, tokens) = 4 * g + 3 * d.health + 2 * d.quota + Cheapness(d)
  BY <1>1
<1>4. /\ c.health \in Nat /\ c.health <= 1000 /\ c.quota \in Nat /\ c.quota <= 1000 /\ c.cost \in Nat
      /\ d.health \in Nat /\ d.health <= 1000 /\ d.quota \in Nat /\ d.quota <= 1000 /\ d.cost \in Nat
  BY CandidateIs
<1>5. /\ Cheapness(c) \in Nat /\ Cheapness(d) \in Nat
      /\ c.cost > 1 => Cheapness(c) <= 500000
      /\ d.cost <= 1 => Cheapness(d) = 1000000
  BY CheapnessIs, SMT
<1>6. FitScore(c, tokens) \in Nat
  BY <1>2, <1>4, <1>5, SMT
<1> QED BY <1>2, <1>3, <1>4, <1>5, <1>6, Weighted, SMT

\* The score of cache-optimized is a number.
LEMMA CacheIsANumber ==
  ASSUME NEW c \in Candidate
  PROVE  CacheScore(c) \in Int
<1>1. c.health \in Nat /\ c.quota \in Nat /\ Cheapness(c) \in Nat
  BY CandidateIs, CheapnessIs
<1> QED BY <1>1 DEF CacheScore

\* The affinity, at most 60, does not make up for a cost.
LEMMA CacheRanks ==
  ASSUME NEW c \in Candidate, NEW d \in Candidate, c.cost > 1, d.cost <= 1
  PROVE  CacheScore(c) + 60 < CacheScore(d)
<1>1. /\ c.health \in Nat /\ c.health <= 1000 /\ c.quota \in Nat /\ c.quota <= 1000
      /\ d.health \in Nat /\ d.health <= 1000 /\ d.quota \in Nat /\ d.quota <= 1000
  BY CandidateIs
<1>2. Cheapness(c) \in Nat /\ Cheapness(c) <= 500000 /\ Cheapness(d) = 1000000
  BY CheapnessIs, SMT
<1>3. PICK u \in Nat : u = 0
  BY SMT
<1> QED BY <1>1, <1>2, <1>3, Weighted, SMT DEF CacheScore

\* A better candidate has a higher score: auto.
LEMMA AutoRanks ==
  ASSUME NEW c \in Candidate, NEW d \in Candidate, NEW tokens \in Nat
  PROVE  /\ AutoScore(c, tokens) \in Int
         /\ Bettered(c, d) => AutoScore(c, tokens) < AutoScore(d, tokens)
<1> DEFINE Cheap(e)  == Lower(Cheapness(e) \div 100, 1000)
           Fit(e)    == TaskFitness(e)
           Room(e)   == IF tokens = 0 THEN 500
                        ELSE Lower((e.window * 1000) \div (2 * tokens), 1000)
           Rested(e) == 1000 \div (e.uses + 1)
<1>1. ASSUME NEW e \in Candidate
      PROVE  /\ e.health \in Nat /\ e.health <= 1000 /\ e.quota \in Nat /\ e.quota <= 1000 /\ e.errors \in Nat /\ e.errors <= 1000
             /\ e.cost \in Nat /\ e.uses \in Nat /\ e.window \in Nat
             /\ Cheap(e) \in Nat /\ Fit(e) \in Nat /\ Room(e) \in Nat /\ Rested(e) \in Nat
  <2>1. /\ e.health \in Nat /\ e.health <= 1000 /\ e.quota \in Nat /\ e.quota <= 1000 /\ e.errors \in Nat /\ e.errors <= 1000
        /\ e.cost \in Nat /\ e.uses \in Nat /\ e.window \in Nat
    BY CandidateIs
  <2>2. Cheap(e) \in Nat
    BY CheapnessIs, SMT DEF Lower
  <2>3. Fit(e) \in Nat
    BY SMT DEF TaskFitness
  <2>4. Room(e) \in Nat
    <3>1. tokens # 0 => (e.window * 1000) \div (2 * tokens) \in Nat
      <4>1. e.window * 1000 \in Nat /\ (tokens # 0 => 2 * tokens \in Nat \ {0})
        BY <2>1, SMT
      <4> QED BY <4>1, Division, SMT
    <3> QED BY <3>1, SMT DEF Lower
  <2>5. Rested(e) \in Nat
    <3>1. e.uses + 1 \in Nat \ {0}
      BY <2>1
    <3> QED BY <3>1, Division
  <2> HIDE DEF Cheap, Fit, Room, Rested
  <2> QED BY <2>1, <2>2, <2>3, <2>4, <2>5
<1>2. ASSUME NEW e \in Candidate
      PROVE  AutoScore(e, tokens) = 20 * e.health + 15 * e.quota + 15 * Cheap(e) + 8 * Fit(e)
                                    + 5 * (1000 - e.errors) + 5 * Room(e) + 5 * Rested(e)
  BY SMT DEF AutoScore
<1>3. ASSUME Bettered(c, d)
      PROVE  Cheap(c) <= Cheap(d) /\ Fit(c) <= Fit(d) /\ Room(c) <= Room(d) /\ Rested(c) <= Rested(d)
  <2>1. Cheap(c) <= Cheap(d)
    <3>1. Cheapness(c) \in Nat /\ Cheapness(d) \in Nat /\ Cheapness(d) >= Cheapness(c)
      BY <1>1, <1>3, CheapnessIs, SMT DEF Bettered
    <3> QED BY <3>1, SMT DEF Lower
  <2>2. Fit(c) <= Fit(d)
    BY <1>3, SMT DEF Bettered, TaskFitness
  <2>3. Room(c) <= Room(d)
    <3>1. CASE tokens = 0
      BY <3>1
    <3>2. CASE tokens # 0
      <4>1. /\ c.window * 1000 \in Nat /\ d.window * 1000 \in Nat /\ 2 * tokens \in Nat \ {0}
            /\ c.window * 1000 <= d.window * 1000
        BY <1>1, <1>3, <3>2, SMT DEF Bettered
      <4>2. PICK a \in Nat, b \in Nat, x \in Nat \ {0} :
              a = c.window * 1000 /\ b = d.window * 1000 /\ x = 2 * tokens /\ a <= b
        BY <4>1
      <4>3. a \div x <= b \div x
        BY <4>2, DivisionMonotone
      <4>4. a \div x \in Nat /\ b \div x \in Nat
        BY Division
      <4> QED BY <3>2, <4>2, <4>3, <4>4, SMT DEF Lower
    <3> QED BY <3>1, <3>2, SMT
  <2>4. Rested(c) <= Rested(d)
    <3>1. c.uses + 1 \in Nat \ {0} /\ d.uses + 1 \in Nat \ {0} /\ d.uses + 1 <= c.uses + 1
      BY <1>1, <1>3 DEF Bettered
    <3> QED BY <3>1, DivisionMonotone
  <2> HIDE DEF Cheap, Fit, Room, Rested
  <2> QED BY <2>1, <2>2, <2>3, <2>4
<1> HIDE DEF Cheap, Fit, Room, Rested
<1>4. AutoScore(c, tokens) \in Int
  BY <1>1, <1>2, SMT
<1>5. ASSUME Bettered(c, d) PROVE AutoScore(c, tokens) < AutoScore(d, tokens)
  <2>1. c.health < d.health /\ c.quota < d.quota /\ d.errors < c.errors
    BY <1>5, SMT DEF Bettered
  <2> QED BY <1>1, <1>2, <1>3, <1>5, <2>1, SMT
<1> QED BY <1>4, <1>5, SMT

\* The one picked of a list is there, and none scores more: each selection.
LEMMA FirstOf ==
  ASSUME NEW list \in Seq(Candidate), list # << >>, NEW scores \in [DOMAIN list -> Int],
         NEW c, c = First(list, scores)
  PROVE  /\ c \in Candidate
         /\ \A d \in ToSet(list) : \E i, j \in DOMAIN list :
              c = list[i] /\ d = list[j] /\ scores[i] >= scores[j]
<1>1. PICK i \in DOMAIN list : c = list[i] /\ \A j \in DOMAIN list : scores[i] >= scores[j]
  BY FirstIs
<1>2. \A d \in ToSet(list) : \E j \in DOMAIN list : d = list[j]
  BY DEF ToSet
<1> QED BY <1>1, <1>2

\* What is in a list of candidates is a candidate.
LEMMA MembersAre ==
  ASSUME NEW list \in Seq(Candidate), NEW d \in ToSet(list)
  PROVE  d \in Candidate
  BY DEF ToSet

\* context-relay selects by its score.
LEMMA RelayIs ==
  ASSUME NEW list \in Seq(Candidate), list # << >>
  PROVE  Relay(list) \in Candidate
         /\ \A d \in ToSet(list) : RelayScore(Relay(list)) >= RelayScore(d)
<1> DEFINE scores == [i \in DOMAIN list |-> RelayScore(list[i])]
<1>1. scores \in [DOMAIN list -> Int]
  <2>1. \A i \in DOMAIN list : RelayScore(list[i]) \in Int
    BY RelayRanks
  <2> QED BY <2>1
<1>2. \A i \in DOMAIN list : scores[i] = RelayScore(list[i])
  OBVIOUS
<1>3. Relay(list) = First(list, scores)
  BY DEF Relay
<1> HIDE DEF scores
<1> QED BY <1>1, <1>2, <1>3, FirstOf

\* context-optimized selects by its score.
LEMMA BestFitIs ==
  ASSUME NEW list \in Seq(Candidate), list # << >>, NEW tokens \in Nat
  PROVE  BestFit(list, tokens) \in Candidate
         /\ \A d \in ToSet(list) : FitScore(BestFit(list, tokens), tokens) >= FitScore(d, tokens)
<1> DEFINE scores == [i \in DOMAIN list |-> FitScore(list[i], tokens)]
<1>1. scores \in [DOMAIN list -> Int]
  <2>1. \A i \in DOMAIN list : FitScore(list[i], tokens) \in Int
    BY FitRanks
  <2> QED BY <2>1
<1>2. \A i \in DOMAIN list : scores[i] = FitScore(list[i], tokens)
  OBVIOUS
<1>3. BestFit(list, tokens) = First(list, scores)
  BY DEF BestFit
<1> HIDE DEF scores
<1> QED BY <1>1, <1>2, <1>3, FirstOf

\* auto selects by its score.
LEMMA AutoPickIs ==
  ASSUME NEW list \in Seq(Candidate), list # << >>, NEW tokens \in Nat
  PROVE  AutoPick(list, tokens) \in Candidate
         /\ \A d \in ToSet(list) : AutoScore(AutoPick(list, tokens), tokens) >= AutoScore(d, tokens)
<1> DEFINE scores == [i \in DOMAIN list |-> AutoScore(list[i], tokens)]
<1>1. scores \in [DOMAIN list -> Int]
  <2>1. \A i \in DOMAIN list : AutoScore(list[i], tokens) \in Int
    BY AutoRanks
  <2> QED BY <2>1
<1>2. \A i \in DOMAIN list : scores[i] = AutoScore(list[i], tokens)
  OBVIOUS
<1>3. AutoPick(list, tokens) = First(list, scores)
  BY DEF AutoPick
<1> HIDE DEF scores
<1> QED BY <1>1, <1>2, <1>3, FirstOf

\* Those that rank by one field.
LEMMA FieldIs ==
  ASSUME NEW list \in Seq(Candidate), list # << >>
  PROVE  /\ Healthiest(list) \in Candidate /\ MostHeadroom(list) \in Candidate
         /\ LeastUsed(list) \in Candidate /\ Cheapest(list) \in Candidate
         /\ \A d \in ToSet(list) :
           /\ Healthiest(list).health >= d.health
           /\ MostHeadroom(list).quota >= d.quota
           /\ LeastUsed(list).uses <= d.uses
           /\ Cheapest(list).cost <= d.cost
<1> DEFINE healths == [i \in DOMAIN list |-> list[i].health]
           quotas == [i \in DOMAIN list |-> list[i].quota]
           uses == [i \in DOMAIN list |-> -list[i].uses]
           costs == [i \in DOMAIN list |-> -list[i].cost]
<1>1. ASSUME NEW i \in DOMAIN list
      PROVE  /\ healths[i] = list[i].health /\ quotas[i] = list[i].quota
             /\ uses[i] = -list[i].uses /\ costs[i] = -list[i].cost
             /\ list[i].health \in Int /\ list[i].quota \in Int
             /\ list[i].uses \in Int /\ list[i].cost \in Int
  <2>1. PICK c \in Candidate : c = list[i]
    OBVIOUS
  <2> QED BY <2>1, CandidateIs
<1>2. /\ healths \in [DOMAIN list -> Int] /\ quotas \in [DOMAIN list -> Int]
      /\ uses \in [DOMAIN list -> Int] /\ costs \in [DOMAIN list -> Int]
  <2>1. /\ \A i \in DOMAIN list : list[i].health \in Int
        /\ \A i \in DOMAIN list : list[i].quota \in Int
        /\ \A i \in DOMAIN list : -list[i].uses \in Int
        /\ \A i \in DOMAIN list : -list[i].cost \in Int
    BY <1>1
  <2> QED BY <2>1
<1>3. /\ Healthiest(list) = First(list, healths) /\ MostHeadroom(list) = First(list, quotas)
      /\ LeastUsed(list) = First(list, uses) /\ Cheapest(list) = First(list, costs)
  BY DEF Healthiest, MostHeadroom, LeastUsed, Cheapest
<1> HIDE DEF healths, quotas, uses, costs
<1>8. /\ Healthiest(list) \in Candidate /\ MostHeadroom(list) \in Candidate
      /\ LeastUsed(list) \in Candidate /\ Cheapest(list) \in Candidate
  <2>1. \A scores \in [DOMAIN list -> Int] : First(list, scores) \in Candidate
    BY FirstOf
  <2> QED BY <1>2, <1>3, <2>1
<1> SUFFICES ASSUME NEW d \in ToSet(list)
             PROVE  /\ Healthiest(list).health >= d.health
                    /\ MostHeadroom(list).quota >= d.quota
                    /\ LeastUsed(list).uses <= d.uses
                    /\ Cheapest(list).cost <= d.cost
  BY <1>8
<1>4. Healthiest(list).health >= d.health
  <2>1. PICK i \in DOMAIN list, j \in DOMAIN list :
          Healthiest(list) = list[i] /\ d = list[j] /\ healths[i] >= healths[j]
    <3>1. healths \in [DOMAIN list -> Int] /\ Healthiest(list) = First(list, healths)
      BY <1>2, <1>3
    <3> QED BY <3>1, FirstOf
  <2> QED BY <1>1, <2>1
<1>5. MostHeadroom(list).quota >= d.quota
  <2>1. PICK i \in DOMAIN list, j \in DOMAIN list :
          MostHeadroom(list) = list[i] /\ d = list[j] /\ quotas[i] >= quotas[j]
    <3>1. quotas \in [DOMAIN list -> Int] /\ MostHeadroom(list) = First(list, quotas)
      BY <1>2, <1>3
    <3> QED BY <3>1, FirstOf
  <2> QED BY <1>1, <2>1
<1>6. LeastUsed(list).uses <= d.uses
  <2>1. PICK i \in DOMAIN list, j \in DOMAIN list :
          LeastUsed(list) = list[i] /\ d = list[j] /\ uses[i] >= uses[j]
    <3>1. uses \in [DOMAIN list -> Int] /\ LeastUsed(list) = First(list, uses)
      BY <1>2, <1>3
    <3> QED BY <3>1, FirstOf
  <2> QED BY <1>1, <2>1
<1>7. Cheapest(list).cost <= d.cost
  <2>1. PICK i \in DOMAIN list, j \in DOMAIN list :
          Cheapest(list) = list[i] /\ d = list[j] /\ costs[i] >= costs[j]
    <3>1. costs \in [DOMAIN list -> Int] /\ Cheapest(list) = First(list, costs)
      BY <1>2, <1>3
    <3> QED BY <3>1, FirstOf
  <2> QED BY <1>1, <2>1
<1> QED BY <1>4, <1>5, <1>6, <1>7

\* What ScoresRank says of a selection.
Ranked(strategy, list, c) ==
  /\ strategy \in {"context-relay", "cost-optimized", "headroom", "least-used",
                   "priority", "auto", "pipeline"}
       => \A d \in ToSet(list) : ~Bettered(c, d)
  /\ strategy \in {"context-relay", "context-optimized", "cache-optimized"} /\ c.cost > 1
       => \A d \in ToSet(list) : d.cost > 1

\* Whatever a strategy without a memory may return is ranked.
LEMMA SelectedRanks ==
  ASSUME NEW list \in Seq(Candidate), list # << >>, NEW tokens \in Nat,
         NEW strategy, NEW c \in Selected(strategy, list, tokens)
  PROVE  Ranked(strategy, list, c)
<1>1. ASSUME NEW d \in ToSet(list)
      PROVE  d \in Candidate /\ d.cost \in Nat /\ d.uses \in Nat /\ d.health \in Nat /\ d.quota \in Nat
  BY MembersAre, CandidateIs
<1>2. CASE strategy = "context-relay"
  <2>1. c = Relay(list)
    BY <1>2 DEF Selected
  <2>2. c \in Candidate /\ \A d \in ToSet(list) : RelayScore(c) >= RelayScore(d)
    BY <2>1, RelayIs
  <2>3. ASSUME NEW d \in ToSet(list) PROVE ~Bettered(c, d) /\ (c.cost > 1 => d.cost > 1)
    <3>1. RelayScore(c) \in Nat /\ RelayScore(d) \in Nat /\ RelayScore(c) >= RelayScore(d)
      BY <1>1, <2>2, RelayRanks
    <3>2. d \in Candidate /\ d.cost \in Nat
      BY <1>1
    <3>3. /\ Bettered(c, d) => RelayScore(c) < RelayScore(d)
          /\ c.cost > 1 /\ d.cost <= 1 => RelayScore(c) < RelayScore(d)
      BY <2>2, <3>2, RelayRanks
    <3> QED BY <3>1, <3>2, <3>3
  <2> QED BY <2>3 DEF Ranked
<1>3. CASE strategy = "context-optimized"
  <2>1. c = BestFit(list, tokens)
    BY <1>3 DEF Selected
  <2>2. c \in Candidate /\ \A d \in ToSet(list) : FitScore(c, tokens) >= FitScore(d, tokens)
    BY <2>1, BestFitIs
  <2>3. ASSUME NEW d \in ToSet(list), c.cost > 1 PROVE d.cost > 1
    <3>1. d \in Candidate /\ d.cost \in Nat /\ FitScore(c, tokens) >= FitScore(d, tokens)
      BY <1>1, <2>2
    <3>2. FitScore(c, tokens) \in Nat /\ FitScore(d, tokens) \in Nat
      BY <2>2, <3>1, FitRanks
    <3>3. d.cost <= 1 => FitScore(c, tokens) < FitScore(d, tokens)
      BY <2>2, <2>3, <3>1, FitRanks
    <3> QED BY <3>1, <3>2, <3>3
  <2> QED BY <1>3, <2>3 DEF Ranked
<1>4. CASE strategy = "cache-optimized"
  <2>1. c \in ToSet(list) /\ \A d \in ToSet(list) : CacheScore(c) + 60 >= CacheScore(d)
    BY <1>4 DEF Selected
  <2>2. ASSUME NEW d \in ToSet(list), c.cost > 1 PROVE d.cost > 1
    <3>1. c \in Candidate /\ d \in Candidate /\ d.cost \in Nat
      BY <1>1, <2>1
    <3>2. CacheScore(c) + 60 >= CacheScore(d)
      BY <2>1
    <3>3. CacheScore(c) \in Int /\ CacheScore(d) \in Int
      BY <3>1, CacheIsANumber
    <3>4. d.cost <= 1 => CacheScore(c) + 60 < CacheScore(d)
      BY <2>2, <3>1, CacheRanks
    <3> QED BY <3>1, <3>2, <3>3, <3>4
  <2> QED BY <1>4, <2>2 DEF Ranked
<1>5. CASE strategy = "auto"
  <2>1. c = AutoPick(list, tokens)
    BY <1>5 DEF Selected
  <2>2. c \in Candidate /\ \A d \in ToSet(list) : AutoScore(c, tokens) >= AutoScore(d, tokens)
    BY <2>1, AutoPickIs
  <2>3. ASSUME NEW d \in ToSet(list) PROVE ~Bettered(c, d)
    <3>1. d \in Candidate /\ AutoScore(c, tokens) >= AutoScore(d, tokens)
      BY <1>1, <2>2
    <3>2. AutoScore(c, tokens) \in Int /\ AutoScore(d, tokens) \in Int
      BY <2>2, <3>1, AutoRanks
    <3>3. Bettered(c, d) => AutoScore(c, tokens) < AutoScore(d, tokens)
      BY <2>2, <3>1, AutoRanks
    <3> QED BY <3>1, <3>2, <3>3
  <2> QED BY <1>5, <2>3 DEF Ranked
<1>6. ASSUME NEW d \in ToSet(list),
             \/ strategy = "cost-optimized" \/ strategy = "pipeline"
             \/ strategy \in {"priority", "least-used"}
             \/ strategy = "headroom"
      PROVE  ~Bettered(c, d)
  <2>1. CASE strategy = "cost-optimized"
    <3>1. c = Cheapest(list)
      BY <2>1 DEF Selected
    <3>2. c.cost <= d.cost /\ d.cost \in Nat /\ c \in Candidate
      BY <1>1, <3>1, FieldIs
    <3> QED BY <3>2, CandidateIs DEF Bettered
  <2>2. CASE strategy = "pipeline"
    <3>1. c = Healthiest(list)
      BY <2>2 DEF Selected
    <3>2. c.health >= d.health /\ d.health \in Nat /\ c \in Candidate
      BY <1>1, <3>1, FieldIs
    <3> QED BY <3>2, CandidateIs DEF Bettered
  <2>3. CASE strategy \in {"priority", "least-used"}
    <3>1. c = LeastUsed(list)
      BY <2>3 DEF Selected
    <3>2. c.uses <= d.uses /\ d.uses \in Nat /\ c \in Candidate
      BY <1>1, <3>1, FieldIs
    <3> QED BY <3>2, CandidateIs DEF Bettered
  <2>4. CASE strategy = "headroom"
    <3>1. c = MostHeadroom(list)
      BY <2>4 DEF Selected
    <3>2. c.quota >= d.quota /\ d.quota \in Nat /\ c \in Candidate
      BY <1>1, <3>1, FieldIs
    <3> QED BY <3>2, CandidateIs DEF Bettered
  <2> QED BY <1>6, <2>1, <2>2, <2>3, <2>4
<1> QED BY <1>2, <1>3, <1>4, <1>5, <1>6 DEF Ranked

\* The router counts every candidate as available, and changes nothing else.
LEMMA MadeAvailable == ASSUME NEW c \in Candidate PROVE [c EXCEPT !.available = TRUE] \in Candidate
<1> DEFINE F == {"id", "health", "quota", "cost", "window", "can", "errors", "uses", "available"}
<1>1. DOMAIN c = F
  BY DEF Candidate
<1>2. PICK e : e = [c EXCEPT !.available = TRUE]
  OBVIOUS
<1>3. DOMAIN e = F /\ e = [x \in DOMAIN e |-> e[x]]
  BY <1>1, <1>2
<1>4. e.available = TRUE
  BY <1>1, <1>2
<1>5. \A x \in F \ {"available"} : e[x] = c[x]
  BY <1>1, <1>2
<1>6. /\ e.id = c.id /\ e.health = c.health /\ e.quota = c.quota /\ e.cost = c.cost
      /\ e.window = c.window /\ e.can = c.can /\ e.errors = c.errors /\ e.uses = c.uses
  BY <1>5
<1>7. /\ c.id \in Target /\ c.health \in 0..1000 /\ c.quota \in 0..1000 /\ c.cost \in Nat
      /\ c.window \in Nat /\ c.can \in SUBSET {"vision", "reasoning", "tools"}
      /\ c.errors \in 0..1000 /\ c.uses \in Nat
  BY DEF Candidate
<1>8. e = [id |-> e.id, health |-> e.health, quota |-> e.quota, cost |-> e.cost,
           window |-> e.window, can |-> e.can, errors |-> e.errors, uses |-> e.uses,
           available |-> e.available]
  BY <1>3
<1>9. /\ e.id \in Target /\ e.health \in 0..1000 /\ e.quota \in 0..1000 /\ e.cost \in Nat
      /\ e.window \in Nat /\ e.can \in SUBSET {"vision", "reasoning", "tools"}
      /\ e.errors \in 0..1000 /\ e.uses \in Nat /\ e.available \in BOOLEAN
  <2>1. e.id \in Target BY <1>6, <1>7
  <2>2. e.cost \in Nat /\ e.uses \in Nat /\ e.window \in Nat BY <1>6, <1>7
  <2>3. e.can \in SUBSET {"vision", "reasoning", "tools"} BY <1>6, <1>7
  <2>4. e.health \in 0..1000 /\ e.quota \in 0..1000 /\ e.errors \in 0..1000 BY <1>6, <1>7
  <2>5. e.available \in BOOLEAN BY <1>4
  <2> QED BY <2>1, <2>2, <2>3, <2>4, <2>5
<1>10. e \in Candidate
  BY <1>8, <1>9 DEF Candidate
<1> QED BY <1>2, <1>10

\* So its list is a list of candidates.
LEMMA AllAvailable ==
  ASSUME RoutingAssumption, NEW pool \in Pool
  PROVE  LET all == [i \in DOMAIN pool |-> [pool[i] EXCEPT !.available = TRUE]]
         IN  all \in Seq(Candidate) /\ all # << >>
<1> DEFINE all == [i \in DOMAIN pool |-> [pool[i] EXCEPT !.available = TRUE]]
<1>1. pool \in Seq(Candidate) /\ pool # << >>
  BY DEF RoutingAssumption
<1>2. PICK n \in Nat : n = Len(pool) /\ DOMAIN pool = 1..n /\ n # 0
  BY <1>1
<1>3. ASSUME NEW c \in Candidate PROVE [c EXCEPT !.available = TRUE] \in Candidate
  BY MadeAvailable
<1>4. \A i \in 1..n : [pool[i] EXCEPT !.available = TRUE] \in Candidate
  BY <1>1, <1>2, <1>3
<1>5. all \in [1..n -> Candidate]
  BY <1>2, <1>4
<1> HIDE DEF all
<1>6. all \in Seq(Candidate) /\ Len(all) = n
  BY <1>5
<1>7. all # << >>
  BY <1>2, <1>6
<1> QED BY <1>6, <1>7 DEF all

\* Every selection by a score is one that nothing betters.
THEOREM SelectionsRank == SSpec => []ScoresRank
<1> USE RoutingAssumption
<1>1. SInit => ScoresRank
  BY DEF SInit, ScoresRank
<1>2. ASSUME NEW strategy, NEW list, NEW c, Picked(strategy, list, c), Ranked(strategy, list, c)
      PROVE  ScoresRank'
  <2>1. pick'.by = strategy /\ pick'.from = list /\ pick'.to = c
    BY <1>2 DEF Picked
  <2> QED BY <1>2, <2>1 DEF Ranked, ScoresRank
<1>3. ASSUME NEW pool \in Pool, NEW strategy, NEW tokens \in Tokens, Select(strategy, pool, tokens)
      PROVE  ScoresRank'
  <2>1. PICK list : list = filter_candidates(pool)
    OBVIOUS
  <2>2. list \in Seq(Candidate) /\ list # << >> /\ tokens \in Nat
    BY <1>3, <2>1, FilterIs DEF SomeOf, Select, RoutingAssumption
  <2>3. PICK c \in Selected(strategy, list, tokens) : Picked(strategy, list, c)
    BY <1>3, <2>1 DEF Select
  <2> QED BY <1>2, <2>2, <2>3, SelectedRanks
<1>4. ASSUME NEW pool \in Pool, RoundRobin(pool) PROVE ScoresRank'
  <2>1. pick'.by = "round-robin"
    BY <1>4 DEF RoundRobin, Picked
  <2> QED BY <2>1 DEF ScoresRank
<1>5. ASSUME NEW pool \in Pool, NEW session, LastKnownGood(pool, session) PROVE ScoresRank'
  <2>1. pick'.by = "lkgp"
    BY <1>5 DEF LastKnownGood, Picked
  <2> QED BY <2>1 DEF ScoresRank
<1>6. ASSUME NEW pool \in Pool, NEW strategy, NEW tokens \in Tokens,
             SelectProvider(pool, strategy, tokens)
      PROVE  ScoresRank'
  <2>1. PICK list : list = [i \in DOMAIN pool |-> [pool[i] EXCEPT !.available = TRUE]]
    OBVIOUS
  <2>2. list \in Seq(Candidate) /\ list # << >> /\ tokens \in Nat
    BY <2>1, AllAvailable DEF RoutingAssumption
  <2>3. CASE strategy \in Strategy
    <3>1. PICK c \in Selected(strategy, list, tokens) : Picked(strategy, list, c)
      BY <1>6, <2>1, <2>3 DEF SelectProvider
    <3> QED BY <1>2, <2>2, <3>1, SelectedRanks
  <2>4. CASE strategy \notin Strategy
    <3>1. PICK c : Picked(strategy, list, c)
      BY <1>6, <2>1, <2>4 DEF SelectProvider
    <3>2. Ranked(strategy, list, c)
      BY <2>4 DEF Strategy, Ranked
    <3> QED BY <1>2, <3>1, <3>2
  <2> QED BY <2>3, <2>4
<1>7. ScoresRank /\ [SNext]_svars => ScoresRank'
  <2>1. UNCHANGED svars => (ScoresRank => ScoresRank')
    BY DEF svars, ScoresRank
  <2> QED BY <1>3, <1>4, <1>5, <1>6, <2>1 DEF SNext
<1> QED BY <1>1, <1>7, PTL DEF SSpec

-----------------------------------------------------------------------------
(* RoutingConfig. *)

USE RoutingConfigAssumption

\* What is in a file that can be loaded is a person's; a configuration that
\* cannot be saved was loaded from such a file, which then stays a person's.
CInv ==
  /\ config \in Config \cup {Nothing} /\ file \in File \cup {Nothing}
  /\ FileAgrees
  /\ Loadable(file) => file.by = "person"
  /\ (config # Nothing /\ config.text) => file.by = "person"

\* One provider's setting is replaced.
LEMMA OneSetting ==
  ASSUME NEW c \in Config, NEW p \in DOMAIN c.providers, NEW setting \in Setting
  PROVE  LET n == [c EXCEPT !.providers = [@ EXCEPT ![p] = setting]]
         IN  n \in Config /\ n.text = c.text
<1> DEFINE s == [c.providers EXCEPT ![p] = setting]
           n == [c EXCEPT !.providers = s]
           Tables == UNION {[P -> Setting] : P \in SUBSET RProvider}
<1>1. c.providers \in Tables /\ c.text \in BOOLEAN BY DEF Config
<1>2. PICK P \in SUBSET RProvider : c.providers \in [P -> Setting] BY <1>1
<1>3. s \in [P -> Setting] BY <1>2
<1> HIDE DEF s
<1>4. s \in Tables BY <1>3
<1> HIDE DEF Tables
<1>5. Config = [providers : Tables, text : BOOLEAN] BY DEF Config, Tables
<1>6. n \in Config /\ n.text = c.text BY <1>4, <1>5
<1> QED BY <1>6 DEF s

\* create_default_config() has no text of its own.
LEMMA DefaultConfig == create_default_config \in Config /\ ~create_default_config.text
<1> DEFINE s == [p \in RProvider |-> "default"]
<1>1. s \in [RProvider -> Setting] BY DEF Setting
<1>2. s \in UNION {[P -> Setting] : P \in SUBSET RProvider} BY <1>1
<1>3. create_default_config = [providers |-> s, text |-> FALSE] BY DEF create_default_config
<1> HIDE DEF s
<1>4. create_default_config \in Config BY <1>2, <1>3 DEF Config
<1> QED BY <1>3, <1>4

\* A generated file cannot be loaded.
LEMMA GeneratedIs ==
  ASSUME NEW c \in Config \cup {Nothing}
  PROVE  /\ Generated(c) \in File /\ Generated(c) # Nothing /\ ~Loadable(Generated(c))
         /\ Generated(c).config = c
<1>1. Generated(c) \in File BY DEF Generated, File
<1> QED BY <1>1 DEF Generated, Loadable

\* Loading, or falling back to the default.
LEMMA LoadStep ==
  ASSUME CInv, Load
  PROVE  CInv'
<1>1. CASE Loadable(file)
  <2>1. config' = file.config /\ file' = file BY <1>1 DEF Load
  <2>2. file \in File /\ file.config \in Config BY <1>1 DEF CInv, Loadable, File
  <2> QED BY <1>1, <2>1, <2>2 DEF CInv, FileAgrees, Loadable
<1>2. CASE ~Loadable(file)
  <2> DEFINE d == create_default_config
  <2>1. config' = d /\ file' = Generated(d) BY <1>2 DEF Load
  <2> QED BY <2>1, DefaultConfig, GeneratedIs DEF CInv, FileAgrees
<1> QED BY <1>1, <1>2

\* An update of a provider.
LEMMA UpdateStep ==
  ASSUME CInv, NEW p \in RProvider, update_provider_config(p)
  PROVE  CInv'
<1> DEFINE n == [config EXCEPT !.providers = [@ EXCEPT ![p] = "program"]]
<1>1. config \in Config /\ p \in DOMAIN config.providers
  BY DEF CInv, update_provider_config
<1>2. config' = n /\ file' = IF Savable(config) THEN Generated(n) ELSE file
  BY DEF update_provider_config
<1>3. n \in Config /\ n.text = config.text BY <1>1, OneSetting DEF Setting
<1> HIDE DEF n
<1>4. CASE Savable(config)
  <2>1. file' = Generated(n) /\ ~n.text BY <1>2, <1>3, <1>4 DEF Savable
  <2> QED BY <1>2, <1>3, <2>1, GeneratedIs DEF CInv, FileAgrees
<1>5. CASE ~Savable(config)
  <2>1. file' = file /\ file.by = "person" /\ file # Nothing
    BY <1>1, <1>2, <1>5 DEF Savable, CInv, FileAgrees
  <2> QED BY <1>2, <1>3, <2>1 DEF CInv, FileAgrees
<1> QED BY <1>4, <1>5

\* The process stops.
LEMMA StopStep ==
  ASSUME CInv, Stop
  PROVE  CInv'
<1>1. config' = Nothing /\ file' \in {file, Generated(Nothing)} BY DEF Stop
<1>2. file' \in File \cup {Nothing} /\ (Loadable(file') => file' = file)
  BY <1>1, GeneratedIs DEF CInv
<1> QED BY <1>1, <1>2 DEF CInv, FileAgrees

\* The file of a person, of whatever was there before.
LEMMA PersonStep ==
  ASSUME CInv, NEW named \in BOOLEAN, NEW c \in Config,
         file' = [by |-> "person", named |-> named, config |-> c], UNCHANGED config
  PROVE  CInv'
<1>1. file' \in File /\ file' # Nothing /\ file'.by = "person" BY DEF File
<1> QED BY <1>1 DEF CInv, FileAgrees

\* Somebody edits the file.
LEMMA CustomizeStep ==
  ASSUME CInv, NEW p \in RProvider, Customize(p)
  PROVE  CInv'
<1> DEFINE c == [file.config EXCEPT !.providers = [@ EXCEPT ![p] = "person"]]
<1>1. file \in File /\ file.config \in Config /\ file.named \in BOOLEAN
      /\ p \in DOMAIN file.config.providers
  BY DEF CInv, Customize, File
<1>2. file' = [by |-> "person", named |-> file.named, config |-> c] /\ UNCHANGED config
  BY DEF Customize
<1>3. c \in Config BY <1>1, OneSetting DEF Setting
<1> HIDE DEF c
<1> QED BY <1>1, <1>2, <1>3, PersonStep

\* Every step keeps the invariant.
LEMMA CAlways == CInv /\ [CNext]_cvars => CInv'
<1> SUFFICES ASSUME CInv, [CNext]_cvars PROVE CInv' OBVIOUS
<1>1. ASSUME NEW c \in Config, Write(c) PROVE CInv'
  BY <1>1, PersonStep DEF Write
<1>2. CASE UNCHANGED cvars
  BY <1>2 DEF CInv, cvars, FileAgrees
<1> QED BY <1>1, <1>2, LoadStep, UpdateStep, StopStep, CustomizeStep DEF CNext

\* The configuration is in its file unless a person wrote that: _load_config(),
\* update_provider_config() and _save_config(), for any providers.
THEOREM ThmFileAgrees == CSpec => []FileAgrees
<1>1. CInit => CInv BY DEF CInit, CInv, FileAgrees, Loadable
<1>2. CInv => FileAgrees BY DEF CInv
<1> QED BY <1>1, CAlways, <1>2, PTL DEF CSpec

-----------------------------------------------------------------------------
(* EnhancedStream. *)

Part == [from : Providers \cup {NoProvider}, key : Providers \cup {NoProvider}, again : BOOLEAN]

\* The key in use is that of the provider chosen, or both are what the request
\* falls back to.
KeyFits == used = chosen \/ (chosen = Last(available) /\ used = Own)

\* Where the text comes from, by where the request is.
QInv ==
  /\ StreamsWhole
  /\ stored \subseteq Providers
  /\ text \in Seq(Part)
  /\ chosen \in Providers \cup {NoProvider} /\ used \in Providers \cup {NoProvider}
  /\ provider \in Providers \cup {NoProvider} /\ api_key \in Providers \cup {NoProvider}
  /\ available \in Seq(Providers)
  /\ phase \in {"new", "analyze", "look", "chosen"} => text = << >>
  /\ phase \in {"analyze", "look", "chosen"} => api_key = Own
  /\ phase = "chosen" => provider = Last(available)
  /\ phase = "streaming" =>
       /\ KeyFits
       /\ \A i \in DOMAIN text : text[i] = [from |-> chosen, key |-> used, again |-> FALSE]
  /\ phase = "original" => \A i \in DOMAIN text : ~text[i].again
  /\ phase = "restarted" =>
       /\ chosen = Own /\ used \in {Own, NoProvider}
       /\ \A i \in DOMAIN text : text[i].again => text[i] = [from |-> Own, key |-> used, again |-> TRUE]

\* The text and what it is judged by stay: so does what is said of it.
LEMMA SameText ==
  ASSUME StreamsWhole, UNCHANGED text, text = << >> \/ UNCHANGED available
  PROVE  StreamsWhole'
<1>1. CASE text = << >>
  BY <1>1 DEF StreamsWhole, KeysAreOwn, OneRestart
<1>2. CASE UNCHANGED available
  BY <1>2 DEF StreamsWhole, KeysAreOwn, OneRestart
<1> QED BY <1>1, <1>2

\* One more piece.
LEMMA MoreText ==
  ASSUME NEW new \in Part, text \in Seq(Part), text' = Append(text, new)
  PROVE  /\ text' \in Seq(Part)
         /\ DOMAIN text' = 1..(Len(text) + 1) /\ DOMAIN text = 1..Len(text) /\ Len(text) \in Nat
         /\ text'[Len(text) + 1] = new
         /\ \A i \in DOMAIN text : text'[i] = text[i]
OBVIOUS

\* A token is passed on.
LEMMA YieldStep ==
  ASSUME QInv, Yield
  PROVE  QInv'
<1> DEFINE again == phase = "restarted"
           new == [from |-> chosen, key |-> used, again |-> again]
           n == Len(text) + 1
<1>1. UNCHANGED <<stored, phase, seen, available, provider, api_key, chosen, used>>
      /\ text' = Append(text, new) /\ phase \in {"streaming", "restarted"}
  BY DEF Yield
<1>2. new \in Part /\ new.from = chosen /\ new.key = used /\ new.again = again
  BY DEF QInv, Part
<1> HIDE DEF new
<1>3. /\ text' \in Seq(Part)
      /\ DOMAIN text' = 1..n /\ DOMAIN text = 1..(n - 1) /\ n \in Nat \ {0}
      /\ text'[n] = new
      /\ \A i \in 1..(n - 1) : text'[i] = text[i]
  <2>1. text \in Seq(Part) BY DEF QInv
  <2> QED BY <1>1, <1>2, <2>1, MoreText
<1> HIDE DEF n
<1>4. KeysAreOwn'
  <2> SUFFICES ASSUME NEW i \in 1..n, text'[i].key # text'[i].from
               PROVE  \/ text'[i].again /\ text'[i].from = Own /\ text'[i].key = NoProvider
                      \/ ~text'[i].again /\ text'[i].from = Last(available) /\ text'[i].key = Own
    BY <1>1, <1>3 DEF KeysAreOwn
  <2>1. CASE i = n
    BY ZenonT(30), <2>1, <1>1, <1>2, <1>3 DEF QInv, KeyFits
  <2>2. CASE i # n
    <3>1. i \in DOMAIN text /\ text'[i] = text[i] BY <2>2, <1>3
    <3> QED BY <3>1 DEF QInv, StreamsWhole, KeysAreOwn
  <2> QED BY <2>1, <2>2
<1>5. new = [from |-> chosen, key |-> used, again |-> again] BY DEF new
<1>6. \A i \in 1..(n - 1) : text[i].again = again => text[i] = new
  <2>1. CASE phase = "streaming"
    BY <2>1, <1>3, <1>5 DEF QInv
  <2>2. CASE phase = "restarted"
    BY <2>2, <1>3, <1>5 DEF QInv
  <2> QED BY <1>1, <2>1, <2>2
<1>7. OneRestart'
  <2>1. ASSUME NEW i \in 1..n, NEW j \in 1..n, i < j, text'[i].again PROVE text'[j].again
    <3>1. i \in 1..(n - 1) /\ text'[i] = text[i] BY <2>1, <1>3
    <3>2. CASE j = n
      <4>1. CASE phase = "streaming" BY <4>1, <3>1, <2>1, <1>3 DEF QInv
      <4>2. CASE phase = "restarted" BY <4>2, <3>2, <1>2, <1>3
      <4> QED BY <1>1, <4>1, <4>2
    <3>3. CASE j # n
      <4>1. j \in DOMAIN text /\ i \in DOMAIN text /\ text'[j] = text[j] BY <3>1, <3>3, <1>3
      <4> QED BY <4>1, <3>1, <2>1 DEF QInv, StreamsWhole, OneRestart
    <3> QED BY <3>2, <3>3
  <2>2. ASSUME NEW i \in 1..n, NEW j \in 1..n, text'[i].again = text'[j].again PROVE text'[i] = text'[j]
    <3>1. CASE i = n BY <3>1, <2>2, <1>2, <1>3, <1>6
    <3>2. CASE j = n BY <3>2, <2>2, <1>2, <1>3, <1>6
    <3>3. CASE i # n /\ j # n
      <4>1. i \in DOMAIN text /\ j \in DOMAIN text /\ text'[i] = text[i] /\ text'[j] = text[j]
        BY <3>3, <1>3
      <4> QED BY <4>1, <2>2 DEF QInv, StreamsWhole, OneRestart
    <3> QED BY <3>1, <3>2, <3>3
  <2>3. ASSUME NEW i \in 1..n, text'[i].again PROVE text'[i].from = Own
    <3>1. CASE i = n BY <3>1, <2>3, <1>2, <1>3 DEF QInv
    <3>2. CASE i # n
      <4>1. i \in DOMAIN text /\ text'[i] = text[i] BY <3>2, <1>3
      <4> QED BY <4>1, <2>3 DEF QInv, StreamsWhole, OneRestart
    <3> QED BY <3>1, <3>2
  <2> QED BY <1>3, <2>1, <2>2, <2>3 DEF OneRestart
<1>8. phase = "streaming" =>
        \A i \in DOMAIN text' : text'[i] = [from |-> chosen, key |-> used, again |-> FALSE]
  <2> SUFFICES ASSUME phase = "streaming", NEW i \in 1..n
               PROVE  text'[i] = [from |-> chosen, key |-> used, again |-> FALSE]
    BY <1>3
  <2>1. CASE i = n BY <2>1, <1>3, <1>5
  <2>2. CASE i # n
    <3>1. i \in DOMAIN text /\ text'[i] = text[i] BY <2>2, <1>3
    <3> QED BY <3>1 DEF QInv
  <2> QED BY <2>1, <2>2
<1>9. phase = "restarted" =>
        \A i \in DOMAIN text' :
          text'[i].again => text'[i] = [from |-> Own, key |-> used, again |-> TRUE]
  <2> SUFFICES ASSUME phase = "restarted", NEW i \in 1..n, text'[i].again
               PROVE  text'[i] = [from |-> Own, key |-> used, again |-> TRUE]
    BY <1>3
  <2>1. CASE i = n BY <2>1, <1>3, <1>5 DEF QInv
  <2>2. CASE i # n
    <3>1. i \in DOMAIN text /\ text'[i] = text[i] BY <2>2, <1>3
    <3> QED BY <3>1 DEF QInv
  <2> QED BY <2>1, <2>2
<1>10. phase' = phase /\ phase \in {"streaming", "restarted"} /\ chosen' = chosen /\ used' = used
       /\ available' = available /\ provider' = provider /\ api_key' = api_key /\ stored' = stored
  BY <1>1
<1>11. StreamsWhole' BY <1>4, <1>7 DEF StreamsWhole
<1>12. KeyFits' <=> KeyFits BY <1>10 DEF KeyFits
<1> HIDE DEF again
<1> QED BY <1>3, <1>8, <1>9, <1>10, <1>11, <1>12 DEF QInv

\* The steps before the first piece: there is no text yet.
LEMMA EarlyStep ==
  ASSUME QInv, TurnedOff \/ ResolveKey \/ Analyze \/ Look \/ Route
  PROVE  QInv'
<1>1. text = << >> /\ text' = << >> /\ stored' = stored /\ phase \in {"new", "analyze", "look"}
  BY DEF QInv, TurnedOff, ResolveKey, Analyze, Look, Route, Fallback, request
<1>2. StreamsWhole' BY <1>1, SameText DEF QInv
<1>3. text' \in Seq(Part) BY <1>1
<1>4. CASE TurnedOff
  BY <1>1, <1>2, <1>3, <1>4 DEF QInv, TurnedOff, Fallback
<1>5. CASE ResolveKey
  BY <1>1, <1>2, <1>3, <1>5, EnhancedStreamAssumption DEF QInv, ResolveKey, KeyOf, Providers
<1>6. CASE Analyze
  BY <1>1, <1>2, <1>3, <1>6 DEF QInv, Analyze, request
<1>7. CASE Look
  <2>1. Line[seen + 1] \in Providers \/ available' = available
    <3>1. ASSUME Line[seen + 1] \in Local \cup stored PROVE Line[seen + 1] \in Providers
      BY <3>1, EnhancedStreamAssumption DEF QInv, Providers
    <3> QED BY <1>7, <3>1 DEF Look
  <2>2. available' \in Seq(Providers) BY <1>7, <2>1 DEF QInv, Look
  <2>3. UNCHANGED <<phase, provider, api_key, chosen, used>> /\ phase = "look" BY <1>7 DEF Look
  <2> QED BY <1>1, <1>2, <1>3, <2>2, <2>3 DEF QInv
<1>8. CASE Route
  <2>1. CASE available = << >>
    BY <1>1, <1>2, <1>3, <1>8, <2>1 DEF QInv, Route, Fallback
  <2>2. CASE available # << >>
    <3>1. available \in Seq(Providers) BY DEF QInv
    <3>2. Len(available) \in 1..Len(available) BY <2>2, <3>1
    <3>3. Last(available) \in Providers /\ \A p \in ToSet(available) : p \in Providers
      BY <3>1, <3>2 DEF Last, ToSet
    <3>4. /\ provider' = Last(available) /\ chosen' \in ToSet(available) /\ phase' = "chosen"
          /\ UNCHANGED <<available, used, api_key>> /\ phase = "look"
      BY <1>8, <2>2 DEF Route
    <3> QED BY <1>1, <1>2, <1>3, <3>3, <3>4 DEF QInv
  <2> QED BY <2>1, <2>2
<1> QED BY <1>4, <1>5, <1>6, <1>7, <1>8

\* The key of the provider is looked up.
LEMMA SelectStep ==
  ASSUME QInv, SelectKey
  PROVE  QInv'
<1>1. text = << >> /\ text' = text /\ phase' = "streaming"
      /\ UNCHANGED <<stored, available, provider, api_key>>
  BY DEF QInv, SelectKey
<1>2. StreamsWhole' BY <1>1, SameText DEF QInv
<1>3. provider = Last(available) /\ api_key = Own BY DEF QInv, SelectKey
<1>4. chosen' \in Providers \cup {NoProvider} /\ used' \in Providers \cup {NoProvider}
  BY DEF QInv, SelectKey
<1>5. KeyFits'
  BY <1>1, <1>3 DEF KeyFits, SelectKey
<1> QED BY <1>1, <1>2, <1>4, <1>5 DEF QInv

\* The steps after it leave the text as it is.
LEMMA LateStep ==
  ASSUME QInv, End \/ Raise \/ Original \/ EndOriginal \/ Close
  PROVE  QInv'
<1>1. UNCHANGED <<stored, available, provider, api_key, text>>
  BY DEF End, Raise, Original, EndOriginal, Close, Fallback, request
<1>2. StreamsWhole' BY <1>1, SameText DEF QInv
<1>3. CASE End
  <2>1. UNCHANGED <<chosen, used>> /\ phase' \in {"done", "original"} /\ phase = "streaming"
    BY <1>3 DEF End, request
  <2>2. \A i \in DOMAIN text : ~text[i].again BY <2>1 DEF QInv
  <2> QED BY <1>1, <1>2, <2>1, <2>2 DEF QInv
<1>4. CASE Raise
  <2>1. UNCHANGED <<chosen, used>> /\ phase' = "original" /\ phase \in {"chosen", "streaming"}
    BY <1>4 DEF Raise, Fallback
  <2>2. \A i \in DOMAIN text : ~text[i].again
    <3>1. CASE phase = "chosen" BY <3>1 DEF QInv
    <3>2. CASE phase = "streaming" BY <3>2 DEF QInv
    <3> QED BY <2>1, <3>1, <3>2
  <2> QED BY <1>1, <1>2, <2>1, <2>2 DEF QInv
<1>5. CASE Original
  <2>1. phase = "original" /\ phase' = "restarted" /\ chosen' = Own /\ used' \in {Own, NoProvider}
    BY <1>5 DEF Original, KeyOf
  <2>2. \A i \in DOMAIN text : ~text[i].again BY <2>1 DEF QInv
  <2>3. Own \in Providers BY EnhancedStreamAssumption DEF Providers
  <2> QED BY <1>1, <1>2, <2>1, <2>2, <2>3 DEF QInv
<1>6. CASE EndOriginal \/ Close
  <2>1. UNCHANGED <<chosen, used>> /\ phase' \in {"done", "failed", "closed"}
    BY <1>6 DEF EndOriginal, Close, request
  <2> QED BY <1>1, <1>2, <2>1 DEF QInv
<1> QED BY <1>3, <1>4, <1>5, <1>6

\* A key is stored or deleted meanwhile.
LEMMA KeyStep ==
  ASSUME QInv, NEW p \in Providers, ChangeKey(p)
  PROVE  QInv'
<1>1. UNCHANGED <<phase, available, provider, api_key, chosen, used, text>>
  BY DEF ChangeKey, request
<1>2. stored' \subseteq Providers BY DEF ChangeKey, QInv
<1>3. StreamsWhole' BY <1>1, SameText DEF QInv
<1>4. KeyFits' <=> KeyFits BY <1>1 DEF KeyFits
<1> QED BY <1>1, <1>2, <1>3, <1>4 DEF QInv

\* Every step keeps the invariant.
LEMMA QAlways == QInv /\ [QNext]_qvars => QInv'
<1> SUFFICES ASSUME QInv, [QNext]_qvars PROVE QInv' OBVIOUS
<1>1. CASE UNCHANGED qvars
  <2>1. UNCHANGED <<stored, phase, available, provider, api_key, chosen, used, text>>
    BY <1>1 DEF qvars
  <2>2. StreamsWhole' BY <2>1, SameText DEF QInv
  <2>3. KeyFits' <=> KeyFits BY <2>1 DEF KeyFits
  <2> QED BY <2>1, <2>2, <2>3 DEF QInv
<1> QED BY <1>1, EarlyStep, SelectStep, YieldStep, LateStep, KeyStep DEF QNext

\* A piece has the key of its provider or of what the request fell back to,
\* and what is yielded is one stream and perhaps all of another after it:
\* integration.py, for any line of providers and keys that come and go.
THEOREM ThmStreamsWhole == QSpec => []StreamsWhole
<1>1. QInit => QInv
  BY DEF QInit, QInv, StreamsWhole, KeysAreOwn, OneRestart
<1>2. QInv => StreamsWhole BY DEF QInv
<1> QED BY <1>1, QAlways, <1>2, PTL DEF QSpec

-----------------------------------------------------------------------------
(* ModelDiscovery.  A listing under way has, of every provider that has not   *)
(* failed, the names of the pages it is past but those marked meanwhile; what *)
(* was marked all the time it never takes.  Marks are made and cleared        *)
(* meanwhile, and both histories follow them.                                 *)

DiscoveryPhases == {"ollama", "retry", "cloud", "refresh"}
Readable(p) == 1..UpToLast(p)

DiscoveryType ==
  /\ listing \in [Lister -> [phase : {"idle", "done"} \cup DiscoveryPhases, linked : SUBSET Cloud,
                             tries : Int, models : SUBSET AllModels]]
  /\ fetch \in [Lister -> [Cloud -> Nat]]
  /\ \A r \in Lister, p \in Cloud : fetch[r][p] <= UpToLast(p)
  /\ got \in [Lister -> [Cloud -> SUBSET UNION {Offered(q) : q \in Cloud}]]
  /\ since \in [Lister -> [failed : SUBSET Cloud, marked : SUBSET AllModels, open : SUBSET AllModels]]
  /\ inaccessible \subseteq AllModels

\* The marks there are were seen, and what is not marked now was open once.
MarksKnown(r) ==
  listing[r].phase # "idle" =>
    inaccessible \subseteq since[r].marked /\ AllModels \ inaccessible \subseteq since[r].open

\* A listing has what was on the pages it is past.
ReadSoFar(r) ==
  listing[r].phase \in DiscoveryPhases =>
    \A p \in listing[r].linked \ since[r].failed : \A i \in Readable(p) :
      (fetch[r][p] = 0 \/ i < fetch[r][p]) =>
        \A n \in Pages[p][i] \ NonChat : ModelOf(p, n) \in since[r].marked \/ n \in got[r][p]

\* What it has was open when it was taken.
TakenOpen(r) ==
  listing[r].phase \in DiscoveryPhases =>
    /\ \A p \in Cloud : \A n \in got[r][p] : ModelOf(p, n) \in since[r].open
    /\ listing[r].models \subseteq {OllamaModel}

Sound(r) ==
  listing[r].phase = "done" =>
    /\ \A p \in listing[r].linked \ since[r].failed, n \in NonChat \cup UNION {Offered(q) : q \in Cloud} :
         n \in Offered(p) /\ ModelOf(p, n) \notin since[r].marked
           => ModelOf(p, n) \in listing[r].models
    /\ listing[r].models \subseteq since[r].open

ListingInv(r) == MarksKnown(r) /\ ReadSoFar(r) /\ TakenOpen(r) /\ Sound(r)

DiscoveryInv == DiscoveryType /\ \A r \in Lister : ListingInv(r)

\* What can be read is offered, and every model offered is one there is.
LEMMA PagesOffered ==
  ASSUME NEW p \in Cloud
  PROVE  /\ UpToLast(p) \in Nat \ {0}
         /\ \A i \in Readable(p) : Pages[p][i] \ NonChat \subseteq Offered(p)
         /\ \A n \in Offered(p) : \E i \in Readable(p) : n \in Pages[p][i] \ NonChat
         /\ Offered(p) \subseteq UNION {Offered(q) : q \in Cloud}
         /\ \A n \in UNION {Offered(q) : q \in Cloud} : ModelOf(p, n) \in AllModels
<1>1. UpToLast(p) \in Nat \ {0} BY DiscoveryAssumption DEF UpToLast
<1>2. Offered(p) \subseteq UNION {Offered(q) : q \in Cloud} OBVIOUS
<1>3. \A n \in UNION {Offered(q) : q \in Cloud} : ModelOf(p, n) \in AllModels
  BY DEF AllModels
<1>4. \A i \in Readable(p) : Pages[p][i] \ NonChat \subseteq Offered(p)
  BY DEF Offered, Readable
<1>5. \A n \in Offered(p) : \E i \in Readable(p) : n \in Pages[p][i] \ NonChat
  BY DEF Offered, Readable
<1>. QED BY <1>1, <1>2, <1>3, <1>4, <1>5

\* A listing that nothing happens to stays as it was.
LEMMA ListingKept ==
  ASSUME DiscoveryType, NEW r \in Lister, ListingInv(r),
         inaccessible' = inaccessible,
         listing'[r] = listing[r], fetch'[r] = fetch[r], got'[r] = got[r], since'[r] = since[r]
  PROVE  ListingInv(r)'
<1>1. MarksKnown(r)' BY DEF ListingInv, MarksKnown
<1>2. ReadSoFar(r)' BY DEF ListingInv, ReadSoFar
<1>3. TakenOpen(r)' BY DEF ListingInv, TakenOpen
<1>4. Sound(r)' BY DEF ListingInv, Sound
<1>. QED BY <1>1, <1>2, <1>3, <1>4 DEF ListingInv

\* A listing that is idle owes nothing.
LEMMA IdleOwesNothing ==
  ASSUME NEW r \in Lister, listing[r].phase = "idle"
  PROVE  ListingInv(r)
BY DEF ListingInv, MarksKnown, ReadSoFar, TakenOpen, Sound, DiscoveryPhases

\* Nothing is under way at the start.
LEMMA DiscoveryStarts == DInit => DiscoveryInv
<1> SUFFICES ASSUME DInit PROVE DiscoveryInv OBVIOUS
<1> USE DEF DInit, Idle, Quiet
<1>1. DiscoveryType
  <2>1. listing \in [Lister -> [phase : {"idle", "done"} \cup DiscoveryPhases, linked : SUBSET Cloud,
                             tries : Int, models : SUBSET AllModels]] OBVIOUS
  <2>2. fetch \in [Lister -> [Cloud -> Nat]] /\ \A r \in Lister, p \in Cloud : fetch[r][p] <= UpToLast(p)
    BY PagesOffered
  <2>3. got \in [Lister -> [Cloud -> SUBSET UNION {Offered(q) : q \in Cloud}]] OBVIOUS
  <2>4. since \in [Lister -> [failed : SUBSET Cloud, marked : SUBSET AllModels, open : SUBSET AllModels]]
    OBVIOUS
  <2>. QED BY <2>1, <2>2, <2>3, <2>4 DEF DiscoveryType
<1>2. \A r \in Lister : listing[r].phase = "idle" OBVIOUS
<1>. QED BY <1>1, <1>2, IdleOwesNothing DEF DiscoveryInv

\* A listing starts: nothing is read, and what is marked is known.
LEMMA ListingStarts ==
  ASSUME DiscoveryInv, NEW r \in Lister, NEW ph \in {"ollama", "refresh"},
         NEW providers \in SUBSET Cloud, StartListing(r, ph, providers)
  PROVE  DiscoveryInv'
<1> DEFINE L == [phase |-> ph, linked |-> providers, tries |-> 0, models |-> {}]
           S == [failed |-> {}, marked |-> inaccessible, open |-> AllModels \ inaccessible]
           F == [p \in Cloud |-> IF p \in providers THEN 1 ELSE 0]
           G == [p \in Cloud |-> {}]
<1> USE DEF DiscoveryInv
<1>1. /\ listing' = [listing EXCEPT ![r] = L] /\ fetch' = [fetch EXCEPT ![r] = F]
      /\ got' = [got EXCEPT ![r] = G] /\ since' = [since EXCEPT ![r] = S]
      /\ inaccessible' = inaccessible
  <2>1. [Idle EXCEPT !.phase = ph, !.linked = providers] = L
    <3> DEFINE i == [phase |-> ph, linked |-> {}, tries |-> 0, models |-> {}]
    <3>1. [Idle EXCEPT !.phase = ph] = i BY DEF Idle
    <3>2. [i EXCEPT !.linked = providers] = L OBVIOUS
    <3>. QED BY <3>1, <3>2
  <2>2. [Quiet EXCEPT !.marked = inaccessible, !.open = AllModels \ inaccessible] = S
    <3> DEFINE i == [failed |-> {}, marked |-> inaccessible, open |-> {}]
    <3>1. [Quiet EXCEPT !.marked = inaccessible] = i BY DEF Quiet
    <3>2. [i EXCEPT !.open = AllModels \ inaccessible] = S OBVIOUS
    <3>. QED BY <3>1, <3>2
  <2> HIDE DEF L, S, F, G
  <2>. QED BY <2>1, <2>2 DEF StartListing, F, G
<1>2. DiscoveryType'
  <2>1. /\ L \in [phase : {"idle", "done"} \cup DiscoveryPhases, linked : SUBSET Cloud,
                  tries : Int, models : SUBSET AllModels]
        /\ F \in [Cloud -> Nat]
        /\ G \in [Cloud -> SUBSET UNION {Offered(q) : q \in Cloud}]
    BY DEF DiscoveryPhases
  <2>3. \A q \in Cloud : F[q] <= UpToLast(q) BY PagesOffered
  <2>2. S \in [failed : SUBSET Cloud, marked : SUBSET AllModels, open : SUBSET AllModels]
    BY DEF DiscoveryType
  <2> HIDE DEF L, F, G, S
  <2>. QED BY <1>1, <2>1, <2>2, <2>3 DEF DiscoveryType
<1>3. /\ listing'[r] = L /\ fetch'[r] = F /\ got'[r] = G /\ since'[r] = S
  BY <1>1 DEF DiscoveryType
<1>4. ListingInv(r)'
  <2>1. MarksKnown(r)' BY <1>1, <1>3 DEF MarksKnown
  <2>2. ReadSoFar(r)'
    BY <1>3 DEF ReadSoFar, Readable
  <2>3. TakenOpen(r)' BY <1>3 DEF TakenOpen
  <2>4. Sound(r)' BY <1>3 DEF Sound
  <2>. QED BY <2>1, <2>2, <2>3, <2>4 DEF ListingInv
<1>5. ASSUME NEW s \in Lister, s # r PROVE ListingInv(s)'
  BY <1>1, <1>5, ListingKept DEF DiscoveryType
<1>. QED BY <1>2, <1>4, <1>5

\* The listing of one reader is at another phase, with other models.
LEMMA PhaseMoves ==
  ASSUME DiscoveryInv, NEW r \in Lister, NEW entry,
         listing' = [listing EXCEPT ![r] = entry],
         entry \in [phase : {"idle", "done"} \cup DiscoveryPhases, linked : SUBSET Cloud,
                    tries : Int, models : SUBSET AllModels],
         entry.phase \in DiscoveryPhases, listing[r].phase \in DiscoveryPhases,
         entry.linked = listing[r].linked, entry.models \subseteq {OllamaModel},
         UNCHANGED <<inaccessible, fetch, got, since>>
  PROVE  DiscoveryInv'
<1> USE DEF DiscoveryInv
<1>1. DiscoveryType' BY DEF DiscoveryType
<1>2. listing'[r] = entry BY DEF DiscoveryType
<1>3. ListingInv(r)'
  <2> ListingInv(r) OBVIOUS
  <2>1. MarksKnown(r)' BY <1>2 DEF MarksKnown, ListingInv, DiscoveryPhases
  <2>2. ReadSoFar(r)' BY <1>2 DEF ReadSoFar, ListingInv
  <2>3. TakenOpen(r)' BY <1>2 DEF TakenOpen, ListingInv
  <2>4. Sound(r)' BY <1>2 DEF Sound, ListingInv, DiscoveryPhases
  <2>. QED BY <2>1, <2>2, <2>3, <2>4 DEF ListingInv
<1>4. ASSUME NEW s \in Lister, s # r PROVE ListingInv(s)'
  BY <1>4, ListingKept DEF DiscoveryType
<1>. QED BY <1>1, <1>3, <1>4

\* The local server answers, is started, or fails to answer.
LEMMA OllamaStep ==
  ASSUME DiscoveryInv, NEW r \in Lister,
         OllamaAnswers(r) \/ StartOllama(r) \/ OllamaFails(r)
  PROVE  DiscoveryInv'
<1> USE DEF DiscoveryInv
<1> DEFINE Entries == [phase : {"idle", "done"} \cup DiscoveryPhases, linked : SUBSET Cloud,
                       tries : Int, models : SUBSET AllModels]
           e == listing[r]
<1>1. e \in Entries /\ OllamaModel \in AllModels BY DEF DiscoveryType, AllModels
<1>2. e.phase \in DiscoveryPhases /\ e.models \subseteq {OllamaModel}
  <2>1. e.phase \in DiscoveryPhases
    BY DEF OllamaAnswers, StartOllama, OllamaFails, DiscoveryPhases
  <2>2. TakenOpen(r) BY DEF ListingInv
  <2>. QED BY <2>1, <2>2 DEF TakenOpen
<1>3. CASE OllamaAnswers(r)
  <2> DEFINE n == [[e EXCEPT !.phase = "cloud"] EXCEPT !.models = {OllamaModel}]
  <2>1. listing' = [listing EXCEPT ![r] = n] /\ UNCHANGED <<inaccessible, fetch, got, since>>
    BY <1>3 DEF OllamaAnswers, machine, DiscoveryType
  <2>2. n \in Entries /\ n.phase \in DiscoveryPhases /\ n.linked = e.linked
        /\ n.models \subseteq {OllamaModel}
    BY <1>1 DEF DiscoveryPhases
  <2> HIDE DEF n
  <2>. QED BY <1>2, <2>1, <2>2, PhaseMoves
<1>4. CASE StartOllama(r)
  <2> DEFINE n == [e EXCEPT !.phase = "retry"]
  <2>1. listing' = [listing EXCEPT ![r] = n] /\ UNCHANGED <<inaccessible, fetch, got, since>>
    BY <1>4 DEF StartOllama, machine, DiscoveryType
  <2>2. n \in Entries /\ n.phase \in DiscoveryPhases /\ n.linked = e.linked
        /\ n.models \subseteq {OllamaModel}
    BY <1>1, <1>2 DEF DiscoveryPhases
  <2> HIDE DEF n
  <2>. QED BY <1>2, <2>1, <2>2, PhaseMoves
<1>5. CASE OllamaFails(r)
  <2> DEFINE n == IF e.tries + 1 < Retries THEN [e EXCEPT !.tries = e.tries + 1]
                                           ELSE [e EXCEPT !.phase = "cloud"]
  <2>1. listing' = [listing EXCEPT ![r] = n] /\ UNCHANGED <<inaccessible, fetch, got, since>>
    <3>1. CASE e.tries + 1 < Retries BY <1>5, <3>1 DEF OllamaFails, machine
    <3>2. CASE ~(e.tries + 1 < Retries) BY <1>5, <3>2 DEF OllamaFails, machine
    <3>. QED BY <3>1, <3>2
  <2>2. n \in Entries /\ n.phase \in DiscoveryPhases /\ n.linked = e.linked
        /\ n.models \subseteq {OllamaModel}
    BY <1>1, <1>2 DEF DiscoveryPhases
  <2> HIDE DEF n
  <2>. QED BY <1>2, <2>1, <2>2, PhaseMoves
<1>. QED BY <1>3, <1>4, <1>5

\* The fetch of one provider fails: nothing is owed of it any more.
LEMMA FetchFailsStep ==
  ASSUME DiscoveryInv, NEW r \in Lister, NEW p \in Cloud, FetchFails(r, p)
  PROVE  DiscoveryInv'
<1> USE DEF DiscoveryInv
<1> DEFINE f == [fetch[r] EXCEPT ![p] = 0]
           s == [since[r] EXCEPT !.failed = since[r].failed \cup {p}]
<1>1. /\ fetch' = [fetch EXCEPT ![r] = f] /\ since' = [since EXCEPT ![r] = s]
      /\ UNCHANGED <<inaccessible, listing, got>>
  BY DEF FetchFails, machine, DiscoveryType
<1>2. f \in [Cloud -> Nat] /\ \A q \in Cloud : f[q] <= UpToLast(q) /\ (q # p => f[q] = fetch[r][q])
  BY PagesOffered DEF DiscoveryType
<1>3. /\ s \in [failed : SUBSET Cloud, marked : SUBSET AllModels, open : SUBSET AllModels]
      /\ s.failed = since[r].failed \cup {p} /\ s.marked = since[r].marked
      /\ s.open = since[r].open
  BY DEF DiscoveryType
<1> HIDE DEF f, s
<1>4. DiscoveryType' BY <1>1, <1>2, <1>3 DEF DiscoveryType
<1>5. fetch'[r] = f /\ since'[r] = s BY <1>1 DEF DiscoveryType
<1>6. listing[r].phase \in DiscoveryPhases /\ listing[r].phase # "done"
  BY DEF FetchFails, Active, DiscoveryPhases
<1>7. ListingInv(r)'
  <2> ListingInv(r) OBVIOUS
  <2>1. MarksKnown(r)' BY <1>1, <1>3, <1>5 DEF MarksKnown, ListingInv
  <2>2. ReadSoFar(r)'
    <3> SUFFICES ASSUME NEW q \in listing[r].linked \ (since[r].failed \cup {p}), NEW i \in Readable(q),
                        f[q] = 0 \/ i < f[q], NEW n \in Pages[q][i] \ NonChat
                 PROVE  ModelOf(q, n) \in since[r].marked \/ n \in got[r][q]
      BY <1>1, <1>3, <1>5 DEF ReadSoFar
    <3>1. q \in Cloud BY DEF DiscoveryType
    <3>2. fetch[r][q] = 0 \/ i < fetch[r][q] BY <1>2, <3>1
    <3>. QED BY <1>6, <3>2 DEF ListingInv, ReadSoFar
  <2>3. TakenOpen(r)' BY <1>1, <1>3, <1>5 DEF TakenOpen, ListingInv
  <2>4. Sound(r)' BY <1>1, <1>6 DEF Sound
  <2>. QED BY <2>1, <2>2, <2>3, <2>4 DEF ListingInv
<1>8. ASSUME NEW t \in Lister, t # r PROVE ListingInv(t)'
  BY <1>1, <1>8, ListingKept DEF DiscoveryType
<1>. QED BY <1>4, <1>7, <1>8

\* A page is read: what is on it, and not marked now, is taken.
LEMMA FetchPageStep ==
  ASSUME DiscoveryInv, NEW r \in Lister, NEW p \in Cloud, FetchPage(r, p)
  PROVE  DiscoveryInv'
<1> USE DEF DiscoveryInv
<1> DEFINE at == fetch[r][p]
           new == {n \in Pages[p][at] \ NonChat : ModelOf(p, n) \notin inaccessible}
           f == [fetch[r] EXCEPT ![p] = IF at < UpToLast(p) THEN at + 1 ELSE 0]
           g == [got[r] EXCEPT ![p] = got[r][p] \cup new]
<1>0. at \in Nat /\ at # 0 /\ UpToLast(p) \in Nat \ {0}
  BY PagesOffered DEF DiscoveryType, FetchPage, Active
<1>1. /\ fetch' = [fetch EXCEPT ![r] = f] /\ got' = [got EXCEPT ![r] = g]
      /\ UNCHANGED <<inaccessible, listing, since>>
  BY DEF FetchPage, machine, DiscoveryType
<1>2. f \in [Cloud -> Nat] /\ \A q \in Cloud : f[q] <= UpToLast(q) /\ (q # p => f[q] = fetch[r][q])
      /\ f[p] = IF at < UpToLast(p) THEN at + 1 ELSE 0
  BY <1>0, PagesOffered DEF DiscoveryType
<1>3. at \in Readable(p) /\ Pages[p][at] \ NonChat \subseteq Offered(p)
  BY <1>0, PagesOffered DEF Readable, DiscoveryType
<1>4. /\ g \in [Cloud -> SUBSET UNION {Offered(q) : q \in Cloud}]
      /\ g[p] = got[r][p] \cup new /\ \A q \in Cloud : q # p => g[q] = got[r][q]
  BY <1>3 DEF DiscoveryType
<1>5. new \subseteq Offered(p) /\ \A n \in new : ModelOf(p, n) \in AllModels \ inaccessible
  BY <1>3, PagesOffered
<1>6. \A n \in Pages[p][at] \ NonChat : ModelOf(p, n) \in inaccessible \/ n \in new OBVIOUS
<1>7. listing[r].phase \in DiscoveryPhases
  BY DEF FetchPage, Active, DiscoveryPhases
<1> HIDE DEF f, g, new
<1>8. DiscoveryType' BY <1>1, <1>2, <1>4 DEF DiscoveryType
<1>9. fetch'[r] = f /\ got'[r] = g BY <1>1 DEF DiscoveryType
<1>10. ListingInv(r)'
  <2> ListingInv(r) OBVIOUS
  <2>0. inaccessible \subseteq since[r].marked /\ AllModels \ inaccessible \subseteq since[r].open
    BY <1>7 DEF ListingInv, MarksKnown, DiscoveryPhases
  <2>1. MarksKnown(r)' BY <1>1 DEF MarksKnown, ListingInv
  <2>2. ReadSoFar(r)'
    <3> SUFFICES ASSUME NEW q \in listing[r].linked \ since[r].failed, NEW i \in Readable(q),
                        f[q] = 0 \/ i < f[q], NEW n \in Pages[q][i] \ NonChat
                 PROVE  ModelOf(q, n) \in since[r].marked \/ n \in g[q]
      BY <1>1, <1>9 DEF ReadSoFar
    <3>1. q \in Cloud BY DEF DiscoveryType
    <3>2. ASSUME fetch[r][q] = 0 \/ i < fetch[r][q]
          PROVE  ModelOf(q, n) \in since[r].marked \/ n \in got[r][q]
      BY <1>7, <3>2 DEF ListingInv, ReadSoFar
    <3>3. CASE q # p BY <1>2, <1>4, <3>1, <3>2, <3>3
    <3>4. CASE q = p /\ i # at
      <4>1. i < at BY <1>0, <1>2, <3>4 DEF Readable
      <4>. QED BY <1>4, <3>2, <3>4, <4>1
    <3>5. CASE q = p /\ i = at BY <1>4, <1>6, <2>0, <3>5
    <3>. QED BY <3>3, <3>4, <3>5
  <2>3. TakenOpen(r)'
    <3>1. ASSUME NEW q \in Cloud, NEW n \in g[q] PROVE ModelOf(q, n) \in since[r].open
      BY <1>4, <1>5, <1>7, <2>0 DEF TakenOpen, ListingInv
    <3>. QED BY <1>1, <1>7, <1>9, <3>1 DEF TakenOpen, ListingInv
  <2>4. Sound(r)' BY <1>1, <1>7 DEF Sound, DiscoveryPhases
  <2>. QED BY <2>1, <2>2, <2>3, <2>4 DEF ListingInv
<1>11. ASSUME NEW t \in Lister, t # r PROVE ListingInv(t)'
  BY <1>1, <1>11, ListingKept DEF DiscoveryType
<1>. QED BY <1>8, <1>10, <1>11

\* The listing is put together: all that is owed is there, and nothing else.
LEMMA PutTogetherStep ==
  ASSUME DiscoveryInv, NEW r \in Lister, PutTogether(r)
  PROVE  DiscoveryInv'
<1> USE DEF DiscoveryInv
<1> DEFINE found == UNION {{ModelOf(p, n) : n \in got[r][p]} : p \in Cloud}
           all == IF listing[r].phase = "cloud"
                  THEN (listing[r].models \cup found) \ inaccessible ELSE found
           e == [listing[r] EXCEPT !.phase = "done"]
           d == [e EXCEPT !.models = all]
<1>1. listing' = [listing EXCEPT ![r] = d] /\ UNCHANGED <<inaccessible, fetch, got, since>>
  BY DEF PutTogether, machine, DiscoveryType
<1>2. listing[r].phase \in {"cloud", "refresh"} /\ \A p \in Cloud : fetch[r][p] = 0
  BY DEF PutTogether
<1>3. \A p \in Cloud : \A n \in got[r][p] : ModelOf(p, n) \in found OBVIOUS
<1>4. \A m \in found : \E p \in Cloud : \E n \in got[r][p] : m = ModelOf(p, n) OBVIOUS
<1> HIDE DEF found
<1> ListingInv(r) OBVIOUS
<1>5. inaccessible \subseteq since[r].marked /\ AllModels \ inaccessible \subseteq since[r].open
      /\ since[r].open \subseteq AllModels /\ OllamaModel \in AllModels
  BY <1>2 DEF ListingInv, MarksKnown, DiscoveryPhases, DiscoveryType, AllModels
<1>6. found \subseteq since[r].open /\ listing[r].models \subseteq {OllamaModel}
  BY <1>2, <1>4 DEF ListingInv, TakenOpen, DiscoveryPhases
<1>7. all \subseteq since[r].open /\ found \ since[r].marked \subseteq all
  BY <1>5, <1>6
<1> HIDE DEF all
<1>8. /\ e \in [phase : {"idle", "done"} \cup DiscoveryPhases, linked : SUBSET Cloud,
                tries : Int, models : SUBSET AllModels]
      /\ e.phase = "done" /\ e.linked = listing[r].linked
  BY ZenonT(30) DEF DiscoveryType
<1> HIDE DEF e
<1>9. /\ d \in [phase : {"idle", "done"} \cup DiscoveryPhases, linked : SUBSET Cloud,
                tries : Int, models : SUBSET AllModels]
      /\ d.phase = "done" /\ d.linked = listing[r].linked /\ d.models = all
  BY <1>5, <1>7, <1>8
<1> HIDE DEF d
<1>10. DiscoveryType' BY <1>1, <1>9 DEF DiscoveryType
<1>11. listing'[r] = d BY <1>1 DEF DiscoveryType
<1>12. ListingInv(r)'
  <2>1. MarksKnown(r)' BY <1>1, <1>5 DEF MarksKnown
  <2>2. ReadSoFar(r)' BY <1>9, <1>11 DEF ReadSoFar, DiscoveryPhases
  <2>3. TakenOpen(r)' BY <1>9, <1>11 DEF TakenOpen, DiscoveryPhases
  <2>4. ASSUME NEW p \in listing[r].linked \ since[r].failed, NEW n,
               n \in Offered(p), ModelOf(p, n) \notin since[r].marked
        PROVE  ModelOf(p, n) \in all
    <3>1. p \in Cloud BY DEF DiscoveryType
    <3>2. PICK i \in Readable(p) : n \in Pages[p][i] \ NonChat BY <2>4, <3>1, PagesOffered
    <3>3. n \in got[r][p] BY <1>2, <2>4, <3>1, <3>2 DEF ListingInv, ReadSoFar, DiscoveryPhases
    <3>. QED BY <1>3, <1>7, <2>4, <3>1, <3>3
  <2>5. Sound(r)' BY <1>1, <1>7, <1>9, <1>11, <2>4 DEF Sound
  <2>. QED BY <2>1, <2>2, <2>3, <2>5 DEF ListingInv
<1>13. ASSUME NEW t \in Lister, t # r PROVE ListingInv(t)'
  BY <1>1, <1>13, ListingKept DEF DiscoveryType
<1>. QED BY <1>10, <1>12, <1>13

\* The reader has its listing and is idle again.
LEMMA ListedStep ==
  ASSUME DiscoveryInv, NEW r \in Lister, Listed(r)
  PROVE  DiscoveryInv'
<1> USE DEF DiscoveryInv
<1> DEFINE none == [p \in Cloud |-> {}]
<1>1. /\ listing' = [listing EXCEPT ![r] = Idle] /\ got' = [got EXCEPT ![r] = none]
      /\ since' = [since EXCEPT ![r] = Quiet] /\ UNCHANGED <<inaccessible, fetch>>
  BY DEF Listed, machine
<1>2. /\ Idle \in [phase : {"idle", "done"} \cup DiscoveryPhases, linked : SUBSET Cloud,
                   tries : Int, models : SUBSET AllModels]
      /\ Quiet \in [failed : SUBSET Cloud, marked : SUBSET AllModels, open : SUBSET AllModels]
      /\ none \in [Cloud -> SUBSET UNION {Offered(q) : q \in Cloud}]
      /\ Idle.phase = "idle"
  BY DEF Idle, Quiet
<1> HIDE DEF none
<1>3. DiscoveryType' BY <1>1, <1>2 DEF DiscoveryType
<1>4. listing'[r].phase = "idle" BY <1>1, <1>2 DEF DiscoveryType
<1>5. ListingInv(r)'
  BY <1>4 DEF ListingInv, MarksKnown, ReadSoFar, TakenOpen, Sound, DiscoveryPhases
<1>6. ASSUME NEW t \in Lister, t # r PROVE ListingInv(t)'
  BY <1>1, <1>6, ListingKept DEF DiscoveryType
<1>. QED BY <1>3, <1>5, <1>6

\* A model is marked, or the marks are cleared, while listings are under way.
LEMMA MarksChange ==
  ASSUME DiscoveryInv,
         \/ \E m \in AllModels \ {OllamaModel} : Track(m)
         \/ clear_inaccessible
  PROVE  DiscoveryInv'
<1> USE DEF DiscoveryInv
<1>1. UNCHANGED <<listing, fetch, got>> BY DEF Track, clear_inaccessible
<1>2. \A r \in Lister : listing[r].phase # "idle" => listing[r] # Idle BY DEF Idle
<1>3. CASE \E m \in AllModels \ {OllamaModel} : Track(m)
  <2>1. PICK m \in AllModels \ {OllamaModel} : Track(m) BY <1>3
  <2>2. inaccessible' = inaccessible \cup {m} BY <2>1 DEF Track
  <2>3. \A r \in Lister : since'[r] = IF listing[r] = Idle THEN since[r]
                          ELSE [since[r] EXCEPT !.marked = since[r].marked \cup {m}]
    BY <2>1 DEF Track
  <2>4. since' = [r \in Lister |-> since'[r]] BY <2>1 DEF Track
  <2>5. ASSUME NEW r \in Lister
        PROVE  /\ since'[r] \in [failed : SUBSET Cloud, marked : SUBSET AllModels, open : SUBSET AllModels]
               /\ since'[r].failed = since[r].failed /\ since'[r].open = since[r].open
               /\ since[r].marked \subseteq since'[r].marked
               /\ listing[r] # Idle => since'[r].marked = since[r].marked \cup {m}
    <3>1. since[r] \in [failed : SUBSET Cloud, marked : SUBSET AllModels, open : SUBSET AllModels]
      BY DEF DiscoveryType
    <3>2. CASE listing[r] = Idle BY <2>3, <3>1, <3>2
    <3>3. CASE listing[r] # Idle
      <4>1. since'[r] = [since[r] EXCEPT !.marked = since[r].marked \cup {m}] BY <2>3, <3>3
      <4>2. since[r].marked \cup {m} \subseteq AllModels BY <3>1
      <4> HIDE DEF AllModels
      <4>. QED BY <3>1, <4>1, <4>2
    <3>. QED BY <3>2, <3>3
  <2>6. DiscoveryType' BY <1>1, <2>2, <2>4, <2>5 DEF DiscoveryType
  <2>7. ASSUME NEW r \in Lister PROVE ListingInv(r)'
    <3> ListingInv(r) OBVIOUS
    <3>1. MarksKnown(r)' BY <1>1, <1>2, <2>2, <2>5 DEF MarksKnown, ListingInv
    <3>2. ReadSoFar(r)' BY <1>1, <2>5 DEF ReadSoFar, ListingInv
    <3>3. TakenOpen(r)' BY <1>1, <2>5 DEF TakenOpen, ListingInv
    <3>4. Sound(r)' BY <1>1, <2>5 DEF Sound, ListingInv
    <3>. QED BY <3>1, <3>2, <3>3, <3>4 DEF ListingInv
  <2>. QED BY <2>6, <2>7
<1>4. CASE clear_inaccessible
  <2>2. inaccessible' = {} BY <1>4 DEF clear_inaccessible
  <2>3. \A r \in Lister : since'[r] = IF listing[r] = Idle THEN since[r]
                          ELSE [since[r] EXCEPT !.open = AllModels]
    BY <1>4 DEF clear_inaccessible
  <2>4. since' = [r \in Lister |-> since'[r]] BY <1>4 DEF clear_inaccessible
  <2>5. ASSUME NEW r \in Lister
        PROVE  /\ since'[r] \in [failed : SUBSET Cloud, marked : SUBSET AllModels, open : SUBSET AllModels]
               /\ since'[r].failed = since[r].failed /\ since'[r].marked = since[r].marked
               /\ since[r].open \subseteq since'[r].open
               /\ listing[r] # Idle => since'[r].open = AllModels
    <3>1. since[r] \in [failed : SUBSET Cloud, marked : SUBSET AllModels, open : SUBSET AllModels]
      BY DEF DiscoveryType
    <3>2. CASE listing[r] = Idle BY <2>3, <3>1, <3>2
    <3>3. CASE listing[r] # Idle
      <4>1. since'[r] = [since[r] EXCEPT !.open = AllModels] BY <2>3, <3>3
      <4> HIDE DEF AllModels
      <4>2. since[r].open \subseteq AllModels BY <3>1
      <4>. QED BY <3>1, <4>1, <4>2
    <3>. QED BY <3>2, <3>3
  <2>6. DiscoveryType' BY <1>1, <2>2, <2>4, <2>5 DEF DiscoveryType
  <2>7. ASSUME NEW r \in Lister PROVE ListingInv(r)'
    <3> ListingInv(r) OBVIOUS
    <3>1. MarksKnown(r)' BY <1>1, <1>2, <2>2, <2>5 DEF MarksKnown, ListingInv
    <3>2. ReadSoFar(r)' BY <1>1, <2>5 DEF ReadSoFar, ListingInv
    <3>3. TakenOpen(r)' BY <1>1, <2>5 DEF TakenOpen, ListingInv
    <3>4. Sound(r)' BY <1>1, <2>5 DEF Sound, ListingInv
    <3>. QED BY <3>1, <3>2, <3>3, <3>4 DEF ListingInv
  <2>. QED BY <2>6, <2>7
<1>. QED BY <1>3, <1>4

\* The application starts anew: nothing is under way.
LEMMA DiscoveryRestarts ==
  ASSUME DiscoveryInv, Restart
  PROVE  DiscoveryInv'
<1> USE DEF Restart, Idle, Quiet
<1>1. DiscoveryType'
  <2>1. (listing \in [Lister -> [phase : {"idle", "done"} \cup DiscoveryPhases, linked : SUBSET Cloud,
                             tries : Int, models : SUBSET AllModels]])' OBVIOUS
  <2>2. (fetch \in [Lister -> [Cloud -> Nat]] /\ \A r \in Lister, p \in Cloud : fetch[r][p] <= UpToLast(p))'
    BY PagesOffered
  <2>3. (got \in [Lister -> [Cloud -> SUBSET UNION {Offered(q) : q \in Cloud}]])' OBVIOUS
  <2>4. (since \in [Lister -> [failed : SUBSET Cloud, marked : SUBSET AllModels, open : SUBSET AllModels]])'
    OBVIOUS
  <2>. QED BY <2>1, <2>2, <2>3, <2>4 DEF DiscoveryType
<1>2. \A r \in Lister : listing'[r].phase = "idle" OBVIOUS
<1>. QED BY <1>1, <1>2 DEF DiscoveryInv, ListingInv, MarksKnown, ReadSoFar, TakenOpen, Sound, DiscoveryPhases

\* Every step keeps what is so of each listing.
LEMMA DiscoverySteps == DiscoveryInv /\ [DNext]_dvars => DiscoveryInv'
<1> SUFFICES ASSUME DiscoveryInv, [DNext]_dvars PROVE DiscoveryInv' OBVIOUS
<1>0. DiscoveryType /\ \A r \in Lister : ListingInv(r) BY DEF DiscoveryInv
<1>1. ASSUME UNCHANGED <<inaccessible, listing, fetch, got, since>> PROVE DiscoveryInv'
  <2>1. DiscoveryType' BY <1>0, <1>1 DEF DiscoveryType
  <2>. QED BY <1>0, <1>1, <2>1, ListingKept DEF DiscoveryInv
<1>2. ASSUME NEW r \in Lister, ListModels(r) PROVE DiscoveryInv'
  BY <1>2, ListingStarts DEF ListModels
<1>3. ASSUME NEW r \in Lister, NEW p \in Cloud, RefreshModels(r, p) PROVE DiscoveryInv'
  BY <1>3, ListingStarts DEF RefreshModels
<1>4. ASSUME \E p \in Cloud : SetKey(p) PROVE DiscoveryInv'
  BY <1>1, <1>4 DEF SetKey, reading
<1>5. ASSUME OllamaChanges PROVE DiscoveryInv'
  BY <1>1, <1>5 DEF OllamaChanges, reading
<1>6. ASSUME UNCHANGED dvars PROVE DiscoveryInv'
  BY <1>1, <1>6 DEF dvars, machine, reading
<1>. QED BY <1>2, <1>3, <1>4, <1>5, <1>6, OllamaStep, FetchFailsStep, FetchPageStep, PutTogetherStep,
            ListedStep, MarksChange, DiscoveryRestarts DEF DNext

\* For any providers, pages and readers: a finished listing has every model its
\* providers offer, save of a provider that failed and models marked meanwhile,
\* and none that was marked all the time (list_models(), list_cloud_models()).
THEOREM ListingsAreSound == DSpec => []ListingsSound
<1>1. DiscoveryInv => ListingsSound BY DEF DiscoveryInv, ListingInv, Sound, ListingsSound
<1>. QED BY <1>1, DiscoveryStarts, DiscoverySteps, PTL DEF DSpec

-----------------------------------------------------------------------------
(* Tools.  What runs for a place of the batch there is runs for its call, or  *)
(* was left by it; what belongs to batches that are gone can be left too, but *)
(* a batch leaves no file that it could remove, and the next one takes other  *)
(* places.                                                                    *)

CallPhases == {"none", "created", "queued", "starting", "running", "killed", "settled"}
Writing == {"starting", "running", "killed"}
CallResults == {"none", "refused", "ok", "error", "timeout", "cancelled"}
Places == (0..batches) \X Slot

ToolsType ==
  /\ registered \subseteq Tool /\ enabled \subseteq Tool
  /\ batch \in {"none", "running"} /\ batches \in Nat
  /\ call \in [Slot -> [tool : Tool \cup {Missing}, short : BOOLEAN, phase : CallPhases, result : CallResults]]
  /\ threads \subseteq Places /\ programs \subseteq Places
  /\ files \subseteq Places /\ stuck \subseteq Places

\* A call has come to its end when there is no batch.
AtRest == batch = "none" => \A s \in Slot : call[s].phase \in {"none", "settled"}

\* A call that has not ended has what its handler needs, and nothing else.
Equipped(s) ==
  /\ call[s].phase \in {"none", "created", "queued"} => Work(s) \notin threads
  /\ call[s].phase \in {"none", "created", "starting", "killed"} => Work(s) \notin programs
  /\ call[s].phase = "queued" => call[s].tool \in ThreadTool
  /\ call[s].phase \in {"starting", "killed"} => call[s].tool \in CodeTool
  /\ Work(s) \in programs => call[s].tool \in CodeTool
  /\ Work(s) \in threads => call[s].tool \in ThreadTool

\* What LeftBehind says of one place.
Left(s) ==
  Work(s) \in threads \cup programs /\ call[s].phase # "running" =>
    call[s].result \in {"timeout", "cancelled"}

ToolsInv ==
  /\ ToolsType /\ AtRest
  /\ \A s \in Slot : Equipped(s) /\ Left(s)
  /\ \A w \in files \ stuck : \E s \in Slot : w = Work(s) /\ call[s].phase \in Writing

\* Nothing runs at the start.
LEMMA ToolsStart == TInit => ToolsInv
<1> SUFFICES ASSUME TInit PROVE ToolsInv OBVIOUS
<1> USE DEF TInit, NoCall
<1>1. call \in [Slot -> [tool : Tool \cup {Missing}, short : BOOLEAN, phase : CallPhases, result : CallResults]]
  <2>1. NoCall \in [tool : Tool \cup {Missing}, short : BOOLEAN, phase : CallPhases, result : CallResults]
    BY DEF CallPhases, CallResults
  <2> HIDE DEF NoCall
  <2>. QED BY <2>1
<1>2. ToolsType BY <1>1 DEF ToolsType
<1>3. \A s \in Slot : Equipped(s) /\ Left(s) BY DEF Equipped, Left
<1>. QED BY <1>2, <1>3 DEF ToolsInv, AtRest

\* One call goes from one phase to another, for its place alone.
LEMMA OneCall ==
  ASSUME ToolsInv, NEW s \in Slot, NEW ph \in CallPhases, NEW result \in CallResults,
         call' = [call EXCEPT ![s].phase = ph, ![s].result = result]
  PROVE  /\ call' \in [Slot -> [tool : Tool \cup {Missing}, short : BOOLEAN, phase : CallPhases, result : CallResults]]
         /\ call'[s].phase = ph /\ call'[s].result = result
         /\ call'[s].tool = call[s].tool /\ call'[s].short = call[s].short
         /\ \A t \in Slot : t # s => call'[t] = call[t]
<1> DEFINE C == [tool : Tool \cup {Missing}, short : BOOLEAN, phase : CallPhases, result : CallResults]
           c == [call[s] EXCEPT !.phase = ph]
           d == [c EXCEPT !.result = result]
<1>1. call \in [Slot -> C] BY DEF ToolsInv, ToolsType
<1>2. c \in C /\ c.phase = ph /\ c.tool = call[s].tool /\ c.short = call[s].short
  BY <1>1
<1>3. call' = [call EXCEPT ![s] = d] BY <1>1
<1> HIDE DEF c
<1>4. d \in C /\ d.phase = ph /\ d.tool = call[s].tool /\ d.short = call[s].short /\ d.result = result
  BY <1>2
<1> HIDE DEF d, C
<1>5. call' \in [Slot -> C] BY <1>1, <1>3, <1>4
<1>6. call'[s] = d /\ \A t \in Slot : t # s => call'[t] = call[t] BY <1>1, <1>3
<1>. QED BY <1>4, <1>5, <1>6 DEF C

\* A phase alone is replaced: the result stays what it was.
LEMMA NothingElse ==
  ASSUME ToolsInv, NEW s \in Slot, NEW ph \in CallPhases, call' = [call EXCEPT ![s].phase = ph]
  PROVE  /\ call' = [call EXCEPT ![s].phase = ph, ![s].result = call[s].result]
         /\ call[s].result \in CallResults
<1> DEFINE C == [tool : Tool \cup {Missing}, short : BOOLEAN, phase : CallPhases, result : CallResults]
           c == [call[s] EXCEPT !.phase = ph]
           d == [c EXCEPT !.result = call[s].result]
<1>1. call \in [Slot -> C] BY DEF ToolsInv, ToolsType
<1>2. c \in C /\ c.result = call[s].result BY <1>1
<1>3. [call EXCEPT ![s].phase = ph] = [call EXCEPT ![s] = c] BY <1>1
<1>4. [call EXCEPT ![s].phase = ph, ![s].result = call[s].result] = [call EXCEPT ![s] = d] BY <1>1
<1> HIDE DEF c
<1>5. d = c BY <1>2
<1>. QED BY <1>1, <1>3, <1>4, <1>5

\* What is taken from or given to the place of a call.
LEMMA OnePlace ==
  ASSUME NEW s \in Slot, NEW t \in Slot, t # s
  PROVE  Work(t) # Work(s)
BY DEF Work

\* Handlers, threads and programs: one call moves, and what it had moves with it.
LEMMA CallMoves ==
  ASSUME ToolsInv, NEW s \in Slot, NEW ph \in CallPhases, NEW result \in CallResults,
         call' = [call EXCEPT ![s].phase = ph, ![s].result = result],
         UNCHANGED <<registered, enabled, batch, batches>>,
         call[s].phase \notin {"none", "settled"},
         threads' \subseteq threads \cup {Work(s)}, programs' \subseteq programs \cup {Work(s)},
         files' \subseteq files \cup {Work(s)}, stuck' \subseteq stuck \cup {Work(s)}, stuck \subseteq stuck',
         threads \ {Work(s)} \subseteq threads', programs \ {Work(s)} \subseteq programs',
         Equipped(s)', Left(s)',
         Work(s) \in files' \ stuck' => ph \in Writing
  PROVE  ToolsInv'
<1> USE DEF ToolsInv
<1>1. Work(s) \in Places /\ \A t \in Slot : Work(t)' = Work(t) /\ (t # s => Work(t) # Work(s))
  BY OnePlace DEF Work, Places, ToolsType
<1>2. Places' = Places BY DEF Places
<1>3. ToolsType' BY <1>1, <1>2, OneCall DEF ToolsType
<1>4. batch' = "running" BY DEF AtRest, ToolsType
<1>5. AtRest' BY <1>4 DEF AtRest
<1>6. ASSUME NEW t \in Slot, t # s PROVE Equipped(t)' /\ Left(t)'
  <2>1. call'[t] = call[t] BY <1>6, OneCall
  <2>2. (Work(t) \in threads' <=> Work(t) \in threads) /\ (Work(t) \in programs' <=> Work(t) \in programs)
    BY <1>1, <1>6
  <2>3. Equipped(t) /\ Left(t) OBVIOUS
  <2>4. Equipped(t)' BY <1>1, <2>1, <2>2, <2>3 DEF Equipped
  <2>5. Left(t)' BY <1>1, <2>1, <2>2, <2>3 DEF Left
  <2>. QED BY <2>4, <2>5
<1>7. ASSUME NEW w \in files' \ stuck'
      PROVE  \E t \in Slot : w = Work(t)' /\ call'[t].phase \in Writing
  <2>1. CASE w = Work(s)
    <3>1. w = Work(s)' BY <1>1, <2>1
    <3>2. call'[s].phase = ph BY OneCall
    <3>. QED BY <1>7, <2>1, <3>1, <3>2
  <2>2. CASE w # Work(s)
    <3>1. w \in files \ stuck BY <1>7, <2>2
    <3>2. PICK t \in Slot : w = Work(t) /\ call[t].phase \in Writing BY <3>1
    <3>3. t # s BY <2>2, <3>2
    <3>4. call'[t] = call[t] BY <3>2, <3>3, OneCall
    <3>5. w = Work(t)' BY <1>1, <3>2
    <3>. QED BY <3>2, <3>4, <3>5
  <2>. QED BY <2>1, <2>2
<1>. QED BY <1>3, <1>5, <1>6, <1>7

\* A batch starts: its places are new, and the batch before left no file it could remove.
LEMMA BatchStarts ==
  ASSUME ToolsInv, NEW wanted \in Asked, ExecuteMultiple(wanted)
  PROVE  ToolsInv'
<1> USE DEF ToolsInv
<1>1. /\ batch = "none" /\ batch' = "running" /\ batches' = batches + 1 /\ batches \in Nat
      /\ UNCHANGED <<registered, enabled, threads, programs, files, stuck>>
  BY DEF ExecuteMultiple, ToolsType
<1>2. files \ stuck = {} BY <1>1 DEF AtRest, Writing
<1>3. \A s \in Slot : /\ call'[s].tool = wanted[s].tool /\ call'[s].short = wanted[s].short
                      /\ call'[s].phase = "created" /\ call'[s].result = "none"
  BY DEF ExecuteMultiple
<1>4. call' \in [Slot -> [tool : Tool \cup {Missing}, short : BOOLEAN, phase : CallPhases, result : CallResults]]
  <2>1. ASSUME NEW s \in Slot
        PROVE  [tool |-> wanted[s].tool, short |-> wanted[s].short, phase |-> "created", result |-> "none"]
                 \in [tool : Tool \cup {Missing}, short : BOOLEAN, phase : CallPhases, result : CallResults]
    BY DEF Asked, CallPhases, CallResults
  <2>. QED BY <2>1 DEF ExecuteMultiple
<1>5. ToolsType'
  <2>1. Places \subseteq Places' BY <1>1 DEF Places
  <2>. QED BY <1>1, <1>4, <2>1 DEF ToolsType
<1>6. \A s \in Slot : Work(s)' \notin threads \cup programs
  BY <1>1 DEF Work, Places, ToolsType
<1>7. \A s \in Slot : Equipped(s)' /\ Left(s)' BY <1>1, <1>3, <1>6 DEF Equipped, Left
<1>. QED BY <1>1, <1>2, <1>5, <1>7 DEF AtRest

\* The file of a call that ends is gone, or the system has not let it go.
LEMMA FileGoes ==
  ASSUME NEW s \in Slot, NEW kept, Unlink({Work(s)}, kept)
  PROVE  /\ files' \subseteq files \cup {Work(s)} /\ stuck' \subseteq stuck \cup {Work(s)}
         /\ stuck \subseteq stuck' /\ Work(s) \notin files' \ stuck'
BY DEF Unlink, Refused

\* The steps of one call: what moves is its own.
LEMMA CallSteps ==
  ASSUME ToolsInv, NEW s \in Slot,
         \/ RefuseCall(s) \/ Begin(s) \/ ThreadStarts(s) \/ ProgramStarts(s) \/ ProgramTimesOut(s)
         \/ \E W \in {{}, {Work(s)}} :
              \/ CannotWrite(s, W) \/ TimesOut(s, W)
              \/ \E result \in {"ok", "error"} : HandlerEnds(s, result, W)
  PROVE  ToolsInv'
<1>0. /\ ToolsType /\ Equipped(s) /\ Left(s) /\ call[s].tool \in Tool \cup {Missing}
      /\ (Work(s) \in files \ stuck => call[s].phase \in Writing)
      /\ Work(s)' = <<batches', s>>
  BY SMTT(30), OnePlace DEF ToolsInv, ToolsType, Work
<1>1. CASE RefuseCall(s)
  <2>1. /\ call' = [call EXCEPT ![s].phase = "settled", ![s].result = "refused"]
        /\ call[s].phase = "created"
        /\ UNCHANGED <<registered, enabled, batch, threads, programs, files, stuck, batches>>
    BY <1>1 DEF RefuseCall, Settle
  <2>2. call'[s].phase = "settled" /\ call'[s].tool = call[s].tool
    BY <2>1, OneCall DEF CallPhases, CallResults
  <2>3. Equipped(s)' /\ Left(s)' BY <1>0, <2>1, <2>2 DEF Equipped, Left, Work
  <2>4. Work(s) \notin files' \ stuck' BY <1>0, <2>1 DEF Writing
  <2>. QED BY <2>1, <2>3, <2>4, CallMoves DEF CallPhases, CallResults
<1>2. CASE Begin(s)
  <2> DEFINE ph == CASE call[s].tool \in ThreadTool -> "queued"
                     [] call[s].tool \in CodeTool -> "starting" [] OTHER -> "running"
  <2>1. /\ call' = [call EXCEPT ![s].phase = ph]
        /\ call[s].phase = "created"
        /\ UNCHANGED <<registered, enabled, batch, threads, programs, stuck, batches>>
        /\ files' = IF call[s].tool \in CodeTool THEN files \cup {Work(s)} ELSE files
    BY <1>2 DEF Begin
  <2>2. /\ ph \in CallPhases /\ ph \in {"queued", "starting", "running"}
        /\ ph = "queued" <=> call[s].tool \in ThreadTool
        /\ ph = "starting" <=> call[s].tool \in CodeTool
    BY ToolsAssumption DEF CallPhases
  <2> HIDE DEF ph
  <2>3. call' = [call EXCEPT ![s].phase = ph, ![s].result = call[s].result] /\ call[s].result \in CallResults
    BY <2>1, <2>2, NothingElse
  <2>4. /\ call'[s].phase = ph /\ call'[s].tool = call[s].tool /\ call'[s].result = call[s].result
        /\ call'[s].short = call[s].short
    BY ZenonT(30), <2>2, <2>3, OneCall
  <2>5. Work(s) \notin threads /\ Work(s) \notin programs BY <1>0, <2>1 DEF Equipped
  <2>6. Equipped(s)' /\ Left(s)' BY <1>0, <2>1, <2>2, <2>4, <2>5 DEF Equipped, Left, Work
  <2>7. Work(s) \in files' \ stuck' => ph \in Writing BY <1>0, <2>1, <2>2 DEF Writing
  <2>. QED BY <2>1, <2>2, <2>3, <2>6, <2>7, CallMoves
<1>3. ASSUME NEW W \in {{}, {Work(s)}}, CannotWrite(s, W) PROVE ToolsInv'
  <2>1. /\ call' = [call EXCEPT ![s].phase = "settled", ![s].result = "error"]
        /\ call[s].phase = "created" /\ files' = files \cup W /\ stuck' = stuck \cup W
        /\ UNCHANGED <<registered, enabled, batch, threads, programs, batches>>
    BY <1>3 DEF CannotWrite, Settle, Refused
  <2>2. call'[s].phase = "settled" /\ call'[s].tool = call[s].tool
    BY <2>1, OneCall DEF CallPhases, CallResults
  <2>3. Equipped(s)' /\ Left(s)' BY <1>0, <2>1, <2>2 DEF Equipped, Left, Work
  <2>4. Work(s) \notin files' \ stuck' BY <1>0, <2>1 DEF Writing
  <2>. QED BY <2>1, <2>3, <2>4, CallMoves DEF CallPhases, CallResults
<1>4. CASE ThreadStarts(s)
  <2>1. /\ call' = [call EXCEPT ![s].phase = "running"] /\ call[s].phase = "queued"
        /\ threads' = threads \cup {Work(s)}
        /\ UNCHANGED <<registered, enabled, batch, programs, files, stuck, batches>>
    BY <1>4 DEF ThreadStarts
  <2>2. call' = [call EXCEPT ![s].phase = "running", ![s].result = call[s].result]
        /\ call[s].result \in CallResults
    BY <1>0, <2>1, NothingElse DEF CallPhases
  <2>3. /\ call'[s].phase = "running" /\ call'[s].tool = call[s].tool
    BY <2>2, OneCall DEF CallPhases
  <2>4. Equipped(s)' /\ Left(s)' BY <1>0, <2>1, <2>3 DEF Equipped, Left, Work
  <2>. QED BY <2>1, <2>2, <2>4, CallMoves DEF CallPhases, Writing
<1>5. CASE ProgramStarts(s)
  <2>1. /\ call' = [call EXCEPT ![s].phase = "running"] /\ call[s].phase = "starting"
        /\ programs' = programs \cup {Work(s)}
        /\ UNCHANGED <<registered, enabled, batch, threads, files, stuck, batches>>
    BY <1>5 DEF ProgramStarts
  <2>2. call' = [call EXCEPT ![s].phase = "running", ![s].result = call[s].result]
        /\ call[s].result \in CallResults
    BY <1>0, <2>1, NothingElse DEF CallPhases
  <2>3. /\ call'[s].phase = "running" /\ call'[s].tool = call[s].tool
    BY <2>2, OneCall DEF CallPhases
  <2>4. Equipped(s)' /\ Left(s)' BY <1>0, <2>1, <2>3 DEF Equipped, Left, Work
  <2>. QED BY <2>1, <2>2, <2>4, CallMoves DEF CallPhases, Writing
<1>6. CASE ProgramTimesOut(s)
  <2>1. /\ call' = [call EXCEPT ![s].phase = "killed"]
        /\ call[s].phase = "running" /\ call[s].tool \in CodeTool
        /\ programs' = programs \ {Work(s)}
        /\ UNCHANGED <<registered, enabled, batch, threads, files, stuck, batches>>
    BY <1>6 DEF ProgramTimesOut
  <2>2. call' = [call EXCEPT ![s].phase = "killed", ![s].result = call[s].result]
        /\ call[s].result \in CallResults
    BY <1>0, <2>1, NothingElse DEF CallPhases
  <2>3. call'[s].phase = "killed" /\ call'[s].tool = call[s].tool
    BY <2>2, OneCall DEF CallPhases
  <2>4. Work(s) \notin threads BY <1>0, <2>1, ToolsAssumption DEF Equipped
  <2>5. Equipped(s)' /\ Left(s)' BY SMTT(30), <1>0, <2>1, <2>3, <2>4 DEF Equipped, Left, Work
  <2>. QED BY <2>1, <2>2, <2>5, CallMoves DEF CallPhases, Writing
<1>7. ASSUME NEW W, TimesOut(s, W) PROVE ToolsInv'
  <2>1. /\ call' = [call EXCEPT ![s].phase = "settled", ![s].result = "timeout"]
        /\ call[s].phase \in {"queued", "starting", "running", "killed"} /\ Unlink({Work(s)}, W)
        /\ UNCHANGED <<registered, enabled, batch, threads, programs, batches>>
    BY <1>7 DEF TimesOut, Settle, Waiting
  <2>2. /\ call'[s].phase = "settled" /\ call'[s].tool = call[s].tool /\ call'[s].result = "timeout"
    BY <2>1, OneCall DEF CallPhases, CallResults
  <2>3. Equipped(s)' /\ Left(s)' BY SMTT(30), <1>0, <2>1, <2>2 DEF Equipped, Left, Work
  <2>. QED BY <2>1, <2>3, FileGoes, CallMoves DEF CallPhases, CallResults
<1>8. ASSUME NEW result \in {"ok", "error"}, NEW W, HandlerEnds(s, result, W) PROVE ToolsInv'
  <2>1. /\ call' = [call EXCEPT ![s].phase = "settled", ![s].result = result]
        /\ call[s].phase \in Writing /\ threads' = threads \ {Work(s)}
        /\ programs' = programs \ {Work(s)} /\ Unlink({Work(s)}, W)
        /\ UNCHANGED <<registered, enabled, batch, batches>>
    BY <1>8 DEF HandlerEnds, Settle, Writing
  <2>2. call'[s].phase = "settled" /\ call'[s].tool = call[s].tool
    BY <2>1, OneCall DEF CallPhases, CallResults
  <2>3. Equipped(s)' /\ Left(s)' BY <1>0, <2>1, <2>2 DEF Equipped, Left, Work
  <2>4. call[s].phase \notin {"none", "settled"} BY <2>1 DEF Writing
  <2>. QED BY <2>1, <2>3, <2>4, FileGoes, CallMoves DEF CallPhases, CallResults
<1>. QED BY <1>1, <1>2, <1>3, <1>4, <1>5, <1>6, <1>7, <1>8

\* Something that was left to itself ends: no call under way loses it.
LEMMA LeftEnds ==
  ASSUME ToolsInv, NEW w, \A s \in Slot : w = Work(s) => call[s].phase # "running",
         \/ threads' = threads \ {w} /\ programs' = programs
         \/ threads' = threads /\ programs' = programs \ {w},
         UNCHANGED <<registered, enabled, batch, call, files, stuck, batches>>
  PROVE  ToolsInv'
<1> USE DEF ToolsInv
<1>1. ToolsType' BY DEF ToolsType, Places
<1>2. AtRest' BY DEF AtRest
<1>3. ASSUME NEW s \in Slot PROVE Equipped(s)' /\ Left(s)'
  <2> Equipped(s) /\ Left(s) /\ Work(s)' = Work(s) BY DEF Work
  <2>1. Equipped(s)' BY DEF Equipped
  <2>2. Left(s)' BY DEF Left
  <2>. QED BY <2>1, <2>2
<1>4. \A s \in Slot : Work(s)' = Work(s) BY DEF Work
<1>. QED BY <1>1, <1>2, <1>3, <1>4

\* A batch ends, whole or given up: its calls are settled, and the files gone that it could
\* remove.
LEMMA BatchEnds ==
  ASSUME ToolsInv, Gather \/ \E kept \in SUBSET {Work(s) : s \in Slot} : Cancel(kept)
  PROVE  ToolsInv'
<1> USE DEF ToolsInv
<1>0. \A s \in Slot : Work(s)' = Work(s) BY DEF Gather, Cancel, Work
<1>1. CASE Gather
  <2>1. /\ batch' = "none" /\ \A s \in Slot : call[s].phase = "settled"
        /\ UNCHANGED <<registered, enabled, call, threads, programs, files, stuck, batches>>
    BY <1>1 DEF Gather
  <2>2. ToolsType' BY <2>1 DEF ToolsType, Places
  <2>3. \A s \in Slot : Equipped(s)' /\ Left(s)' BY <1>0, <2>1 DEF Equipped, Left
  <2>. QED BY <1>0, <2>1, <2>2, <2>3 DEF AtRest
<1>2. ASSUME NEW kept \in SUBSET {Work(s) : s \in Slot}, Cancel(kept) PROVE ToolsInv'
  <2> DEFINE C == [tool : Tool \cup {Missing}, short : BOOLEAN, phase : CallPhases, result : CallResults]
           W == {Work(s) : s \in {u \in Slot : call[u].phase # "settled"}}
  <2>1. /\ batch' = "none" /\ kept \subseteq W \cap files
        /\ files' = files \ (W \ kept) /\ stuck' = stuck \cup kept
        /\ UNCHANGED <<registered, enabled, threads, programs, batches>>
    BY <1>2 DEF Cancel, Unlink, Refused
  <2>2. \A s \in Slot : call'[s] = IF call[s].phase = "settled" THEN call[s]
                          ELSE [call[s] EXCEPT !.phase = "settled", !.result = "cancelled"]
    BY <1>2 DEF Cancel
  <2>3. call' = [s \in Slot |-> call'[s]] BY <1>2 DEF Cancel
  <2>4. ASSUME NEW s \in Slot
        PROVE  /\ call'[s] \in C /\ call'[s].tool = call[s].tool /\ call'[s].phase = "settled"
               /\ call'[s].short = call[s].short
               /\ call'[s].result = IF call[s].phase = "settled" THEN call[s].result ELSE "cancelled"
    <3> DEFINE c == [call[s] EXCEPT !.phase = "settled"]
               d == [c EXCEPT !.result = "cancelled"]
    <3>1. call[s] \in C BY DEF ToolsType
    <3>2. CASE call[s].phase = "settled" BY <2>2, <3>1, <3>2
    <3>3. CASE call[s].phase # "settled"
      <4>1. call'[s] = d BY <2>2, <3>1, <3>3
      <4>2. c \in C /\ c.phase = "settled" /\ c.tool = call[s].tool /\ c.short = call[s].short
        BY <3>1 DEF CallPhases
      <4> HIDE DEF c
      <4>3. d \in C /\ d.phase = "settled" /\ d.tool = call[s].tool /\ d.short = call[s].short
            /\ d.result = "cancelled"
        BY <4>2 DEF CallResults
      <4>. QED BY <3>3, <4>1, <4>3
    <3>. QED BY <3>2, <3>3
  <2>5. call' \in [Slot -> C] BY <2>3, <2>4
  <2>6. files' \ stuck' = {}
    <3> SUFFICES ASSUME NEW w \in files' \ stuck' PROVE FALSE OBVIOUS
    <3>1. w \in files \ stuck /\ w \notin kept /\ w \notin W \ kept BY <2>1
    <3>2. PICK s \in Slot : w = Work(s) /\ call[s].phase \in Writing BY <3>1
    <3>3. w \in W BY <3>2 DEF Writing
    <3>. QED BY <3>1, <3>3
  <2>7. ToolsType' BY <2>1, <2>5 DEF ToolsType, Places
  <2>8. ASSUME NEW s \in Slot PROVE Equipped(s)' /\ Left(s)'
    <3> Equipped(s) /\ Left(s) OBVIOUS
    <3>1. Equipped(s)' BY <1>0, <2>1, <2>4 DEF Equipped
    <3>2. Left(s)' BY <1>0, <2>1, <2>4 DEF Left
    <3>. QED BY <3>1, <3>2
  <2>. QED BY <2>1, <2>4, <2>6, <2>7, <2>8 DEF AtRest
<1>. QED BY <1>1, <1>2

\* Every step keeps the invariant, those of the registry because they touch no call.
LEMMA ToolsSteps == ToolsInv /\ [TNext]_tvars => ToolsInv'
<1> SUFFICES ASSUME ToolsInv, [TNext]_tvars PROVE ToolsInv' OBVIOUS
<1>1. ASSUME UNCHANGED work, registered' \subseteq Tool, enabled' \subseteq Tool PROVE ToolsInv'
  <2> USE DEF ToolsInv, work
  <2>1. ToolsType' BY <1>1 DEF ToolsType, Places
  <2>2. AtRest' BY <1>1 DEF AtRest
  <2>3. \A s \in Slot : Work(s)' = Work(s) BY <1>1 DEF Work
  <2>4. \A s \in Slot : Equipped(s)' BY <1>1, <2>3 DEF Equipped
  <2>5. \A s \in Slot : Left(s)' BY <1>1, <2>3 DEF Left
  <2>. QED BY <1>1, <2>1, <2>2, <2>3, <2>4, <2>5
<1>2. registered \subseteq Tool /\ enabled \subseteq Tool BY DEF ToolsInv, ToolsType
<1>3. ASSUME NEW t \in Tool, register(t) \/ unregister(t) \/ enable(t) \/ disable(t) PROVE ToolsInv'
  BY <1>1, <1>2, <1>3 DEF register, unregister, enable, disable
<1>4. ASSUME NEW w \in threads, ThreadEnds(w) PROVE ToolsInv'
  BY <1>4, LeftEnds DEF ThreadEnds
<1>5. ASSUME NEW w \in programs, ProgramEnds(w) PROVE ToolsInv'
  BY <1>5, LeftEnds DEF ProgramEnds
<1>6. CASE UNCHANGED tvars BY <1>1, <1>2, <1>6 DEF tvars, work
<1>. QED BY <1>3, <1>4, <1>5, <1>6, BatchStarts, CallSteps, BatchEnds DEF TNext

\* For any tools, batches and workers of the pool: only a call that timed out or
\* was cancelled leaves a thread or a program behind, and no temporary file stays
\* but those the system has refused to write or to remove (execute(),
\* execute_multiple(), execute_code_handler()).
THEOREM OnlyTheseAreLeft == TSpec => []LeftBehind
<1>1. ToolsInv => LeftBehind BY DEF ToolsInv, Left, LeftBehind, Writing
<1>. QED BY <1>1, ToolsStart, ToolsSteps, PTL DEF TSpec
-----------------------------------------------------------------------------
(* ProviderWire.  What the reader has is what was sent; and the tool calls    *)
(* are held in one of two ways, by how the adapter passes their index on.     *)

\* Of a text only its kind is kept.
Content == {"text", "reasoning"}

\* Until an error, all of it has been read.
WireInv ==
  /\ read \in Seq(Content) /\ sent \in Seq(Content)
  /\ style \in Style
  /\ NothingLost

\* A sequence is a beginning of one that goes on.
LEMMA Beginning ==
  ASSUME NEW S, NEW s \in Seq(S), NEW e \in Seq(S)
  PROVE  IsPrefix(s, s \o e) /\ IsPrefix(s, s)
<1>1. s \o e \in Seq(S) /\ Len(s \o e) = Len(s) + Len(e) /\ \A i \in 1..Len(s) : (s \o e)[i] = s[i]
  BY ConcatProperties
<1>2. PICK t \in Seq(S) : t = s \o e
  BY <1>1
<1>3. Len(s) \in Nat /\ Len(t) \in Nat /\ Len(s) <= Len(t) /\ \A i \in 1..Len(s) : t[i] = s[i]
  BY <1>1, <1>2
<1>4. SubSeq(s, 1, Len(s)) = SubSeq(t, 1, Len(s))
  BY <1>3
<1> QED BY <1>2, <1>3, <1>4 DEF IsPrefix

\* What there is in a piece is text and reasoning.
LEMMA KindsAre ==
  ASSUME NEW p
  PROVE  /\ Kinds(p) \in Seq(Content) /\ Owed(p) \in Seq(Content)
         /\ Kinds(p) = << >> <=> ~p.text /\ ~p.reasoning
         /\ Reverse(Kinds(p)) \in Seq(Content)
<1>1. <<"text">> \in Seq(Content) /\ <<"reasoning">> \in Seq(Content) /\ << >> \in Seq(Content)
  BY DEF Content
<1>2. PICK a \in Seq(Content), b \in Seq(Content) :
        /\ a = IF p.text THEN <<"text">> ELSE << >>
        /\ b = IF p.reasoning THEN <<"reasoning">> ELSE << >>
  BY <1>1
<1>3. Kinds(p) = a \o b
  BY <1>2 DEF Kinds
<1>4. a \o b \in Seq(Content) /\ Len(a \o b) = Len(a) + Len(b)
  BY ConcatProperties
<1>5. Len(a) = (IF p.text THEN 1 ELSE 0) /\ Len(b) = (IF p.reasoning THEN 1 ELSE 0)
  BY <1>2
<1>6. Kinds(p) = << >> <=> Len(a) + Len(b) = 0
  BY <1>3, <1>4
<1>7. ASSUME NEW s \in Seq(Content) PROVE Reverse(s) \in Seq(Content)
  BY DEF Reverse
<1>8. Kinds(p) \in Seq(Content) /\ Reverse(Kinds(p)) \in Seq(Content)
  BY <1>3, <1>4, <1>7
<1>9. Owed(p) \in Seq(Content)
  BY <1>1, <1>8 DEF Owed
<1> QED BY <1>5, <1>6, <1>8, <1>9

\* What an adapter yields of a piece is what there is to pass on, in one chunk,
\* or in strings, or nothing.
LEMMA YieldsAll ==
  ASSUME style \in Style, NEW p \in Piece(style), NEW items, items = Yielded(p)
  PROVE  \/ items = << >> /\ Owed(p) = << >>
         \/ items # << >> /\ items[1].typed = TRUE /\ items[1].kinds = Owed(p)
         \/ /\ items # << >> /\ items[1].typed = FALSE
            /\ [i \in DOMAIN items |-> items[i].kinds[1]] = Owed(p)
<1>1. /\ Kinds(p) \in Seq(Content) /\ Owed(p) \in Seq(Content)
      /\ Kinds(p) = << >> <=> ~p.text /\ ~p.reasoning
  BY KindsAre
<1>2. ASSUME NEW kinds \in Seq(Content), kinds # << >>, items = Strings(kinds)
      PROVE  /\ items # << >> /\ items[1].typed = FALSE
             /\ [i \in DOMAIN items |-> items[i].kinds[1]] = kinds
  <2>1. DOMAIN items = DOMAIN kinds /\ \A i \in DOMAIN items : items[i] = String(kinds[i])
    BY <1>2 DEF Strings
  <2>2. \A i \in DOMAIN items : items[i].kinds[1] = kinds[i] /\ items[i].typed = FALSE
    BY <2>1 DEF String
  <2>3. 1 \in DOMAIN kinds
    BY <1>2
  <2>4. [i \in DOMAIN items |-> items[i].kinds[1]] = [i \in DOMAIN kinds |-> kinds[i]]
    BY <2>1, <2>2
  <2>5. [i \in DOMAIN kinds |-> kinds[i]] = kinds
    BY <1>2
  <2> QED BY <2>1, <2>2, <2>3, <2>4, <2>5
<1>3. ASSUME Strings(<< >>) = items PROVE items = << >>
  BY <1>3 DEF Strings
<1>4. ASSUME style # "nvidia", style = "litellm" => reader = "typed" PROVE Owed(p) = Kinds(p)
  BY <1>4 DEF Owed
<1>5. ASSUME style # "nvidia", style = "litellm" => reader = "typed", items = ParseLiteLLM(p)
      PROVE  \/ items = << >> /\ Owed(p) = << >>
             \/ items # << >> /\ items[1].typed = TRUE /\ items[1].kinds = Owed(p)
  BY <1>4, <1>5 DEF ParseLiteLLM, Chunk
<1>6. CASE style = "compatible"
  BY <1>5, <1>6 DEF Yielded
<1>7. CASE style = "litellm" /\ reader = "typed"
  BY <1>5, <1>7 DEF Yielded, LiteLLM
<1>8. CASE style = "litellm" /\ reader # "typed"
  <2>1. items = Strings(Owed(p))
    BY <1>8 DEF Yielded, LiteLLM, Owed
  <2>2. CASE Owed(p) = << >>
    BY <1>3, <2>1, <2>2
  <2>3. CASE Owed(p) # << >>
    BY <1>1, <1>2, <2>1, <2>3
  <2> QED BY <2>2, <2>3
<1>9. CASE style = "nvidia"
  <2>1. Owed(p) = IF p.text THEN <<"text">> ELSE << >>
    BY <1>9 DEF Owed
  <2>2. CASE reader = "typed"
    <3>1. items = IF p.text \/ p.finish # "none" THEN <<Chunk(Owed(p), << >>, p.finish)>> ELSE << >>
      BY <1>9, <2>1, <2>2 DEF Yielded, Nvidia
    <3> QED BY <2>1, <3>1 DEF Chunk
  <2>3. CASE reader # "typed"
    <3>1. items = Strings(Owed(p))
      BY <1>9, <2>1, <2>3 DEF Yielded, Nvidia
    <3>2. CASE Owed(p) = << >>
      BY <1>3, <3>1, <3>2
    <3>3. CASE Owed(p) # << >>
      BY <1>1, <1>2, <3>1, <3>3
    <3> QED BY <3>2, <3>3
  <2> QED BY <2>2, <2>3
<1>10. CASE style = "ollama"
  <2>1. items = Ollama(p)
    BY <1>10 DEF Yielded
  <2>2. ~p.reasoning
    BY <1>10 DEF Piece
  <2> QED BY <1>1, <1>4, <1>10, <2>1, <2>2 DEF Ollama, Chunk
<1> QED BY <1>6, <1>7, <1>8, <1>9, <1>10 DEF Style

\* A piece of the stream.
LEMMA ReceiveKeepsAll ==
  ASSUME WireInv, NEW p \in Piece(style), Receive(p)
  PROVE  WireInv'
<1>1. style \in Style /\ style' = style /\ stream = "open" /\ read = sent /\ sent' = sent \o Owed(p)
  BY DEF WireInv, Receive, NothingLost
<1>2. read \in Seq(Content) /\ sent \in Seq(Content) /\ Owed(p) \in Seq(Content)
  BY KindsAre DEF WireInv
<1>3. sent' \in Seq(Content)
  BY <1>1, <1>2
<1>4. PICK items : items = Yielded(p) /\ Consume(items)
  BY DEF Receive
<1>5. CASE read' = read \o Owed(p)
  <2>1. read' = sent' /\ read' \in Seq(Content)
    BY <1>1, <1>3, <1>5
  <2>2. IsPrefix(sent', sent')
    BY <1>3, Beginning
  <2> QED BY <1>1, <1>3, <2>1, <2>2 DEF WireInv, NothingLost
<1>6. CASE read' = read /\ stream' = "error"
  <2>1. IsPrefix(sent, sent \o Owed(p))
    BY <1>2, Beginning
  <2> QED BY <1>1, <1>2, <1>3, <1>6, <2>1 DEF WireInv, NothingLost
<1>7. \/ items = << >> /\ Owed(p) = << >>
      \/ items # << >> /\ items[1].typed = TRUE /\ items[1].kinds = Owed(p)
      \/ /\ items # << >> /\ items[1].typed = FALSE
         /\ [i \in DOMAIN items |-> items[i].kinds[1]] = Owed(p)
  <2>1. \/ Yielded(p) = << >> /\ Owed(p) = << >>
        \/ /\ Yielded(p) # << >> /\ Yielded(p)[1].typed = TRUE
           /\ Yielded(p)[1].kinds = Owed(p)
        \/ /\ Yielded(p) # << >> /\ Yielded(p)[1].typed = FALSE
           /\ [i \in DOMAIN Yielded(p) |-> Yielded(p)[i].kinds[1]] = Owed(p)
    BY <1>1, YieldsAll, ZenonT(30)
  <2> QED BY <1>4, <2>1, ZenonT(30)
<1>8. CASE items = << >> /\ Owed(p) = << >>
  <2>1. read' = read
    BY <1>4, <1>8 DEF Consume
  <2>2. read \o << >> = read
    BY <1>2
  <2> QED BY <1>5, <1>8, <2>1, <2>2
<1>9. CASE items # << >> /\ items[1].typed = (reader = "skill")
  <2>1. read' = read /\ stream' = "error"
    BY <1>4, <1>9 DEF Consume, Mistaken
  <2> QED BY <1>6, <2>1
<1>10. CASE items # << >> /\ items[1].typed = TRUE /\ items[1].kinds = Owed(p) /\ reader # "skill"
  <2>1. read' = read \o Owed(p)
    BY <1>4, <1>10 DEF Consume, Reads
  <2> QED BY <1>5, <2>1
<1>11. CASE /\ items # << >> /\ items[1].typed = FALSE /\ reader = "skill"
            /\ [i \in DOMAIN items |-> items[i].kinds[1]] = Owed(p)
  <2>1. read' = read \o Owed(p)
    BY <1>4, <1>11 DEF Consume
  <2> QED BY <1>5, <2>1
<1> QED BY <1>7, <1>8, <1>9, <1>10, <1>11

\* Whatever pieces the text comes in, a reader that is not stopped by an error has
\* all of it once, piece after piece, and one that is stopped has a beginning of
\* it: text before reasoning of a chunk, reasoning before text of two strings.
THEOREM NothingIsLost == WSpec => []NothingLost
<1>1. WInit => WireInv
  <2>1. ASSUME WInit PROVE WireInv
    <3>1. << >> \in Seq(Content)
      BY EmptySeq
    <3>2. stream = "open" /\ read = << >> /\ sent = << >> /\ style \in Style
      BY <2>1 DEF WInit
    <3> QED BY <3>1, <3>2 DEF WireInv, NothingLost
  <2> QED BY <2>1
<1>2. WireInv /\ [WNext]_wvars => WireInv'
  <2> SUFFICES ASSUME WireInv, [WNext]_wvars PROVE WireInv'
    OBVIOUS
  <2>1. ASSUME NEW p \in Piece(style), Receive(p) PROVE WireInv'
    BY <2>1, ReceiveKeepsAll
  <2>2. ASSUME Ends \/ Breaks PROVE WireInv'
    <3>1. stream = "open" /\ UNCHANGED <<style, read, sent>>
      BY <2>2 DEF Ends, Breaks
    <3>2. read = sent /\ read \in Seq(Content) /\ IsPrefix(read, read)
      BY <3>1, Beginning DEF WireInv, NothingLost
    <3> QED BY <3>1, <3>2 DEF WireInv, NothingLost
  <2>3. CASE UNCHANGED <<style, stream, read, sent>>
    BY <2>3 DEF WireInv, NothingLost
  <2>4. ReceiveDone => UNCHANGED <<style, stream, read, sent>>
    BY DEF ReceiveDone
  <2>5. UNCHANGED wvars => UNCHANGED <<style, stream, read, sent>>
    BY DEF wvars
  <2> QED BY <2>1, <2>2, <2>3, <2>4, <2>5 DEF WNext
<1>3. WireInv => NothingLost
  BY DEF WireInv
<1> QED BY <1>1, <1>2, <1>3, PTL DEF WSpec

\* accumulated_tool_calls after no piece and after one.
LEMMA AccumulatedIs ==
  ASSUME NEW acc, NEW c
  PROVE  /\ Accumulated(acc, << >>) = acc
         /\ Accumulated(acc, <<c>>) = Added(acc, c)
<1> DEFINE Is(cs, f) == f = [n \in 0..Len(cs) |-> IF n = 0 THEN acc ELSE Added(f[n - 1], cs[n])]
<1>1. ASSUME NEW cs PROVE Accumulated(acc, cs) = (CHOOSE f : Is(cs, f))[Len(cs)]
  BY DEF Accumulated
<1>2. Accumulated(acc, << >>) = acc
  <2> DEFINE g == [n \in 0..0 |-> acc]
             f == CHOOSE f : Is(<< >>, f)
  <2>1. Len(<< >>) = 0
    OBVIOUS
  <2>2. g = [n \in 0..0 |-> IF n = 0 THEN acc ELSE Added(g[n - 1], << >>[n])]
    OBVIOUS
  <2>3. Is(<< >>, g)
    BY <2>1, <2>2
  <2>4. Is(<< >>, f)
    <3> HIDE DEF g, Is
    <3> QED BY <2>3
  <2> HIDE DEF f
  <2>5. f[0] = acc
    BY <2>1, <2>4
  <2> QED BY <1>1, <2>1, <2>5 DEF f
<1>3. Accumulated(acc, <<c>>) = Added(acc, c)
  <2> DEFINE g == [n \in 0..1 |-> IF n = 0 THEN acc ELSE Added(acc, c)]
             f == CHOOSE f : Is(<<c>>, f)
  <2>1. PICK cs : cs = <<c>>
    OBVIOUS
  <2>2. Len(cs) = 1 /\ cs[1] = c
    BY <2>1
  <2>3. g[0] = acc
    OBVIOUS
  <2>4. ASSUME NEW n \in 0..1 PROVE g[n] = IF n = 0 THEN acc ELSE Added(g[n - 1], cs[n])
    <3>1. CASE n = 0
      BY <3>1
    <3>2. CASE n = 1
      <4>1. g[n] = Added(acc, c)
        BY <3>2
      <4> HIDE DEF g
      <4> QED BY <2>2, <2>3, <3>2, <4>1
    <3> QED BY <3>1, <3>2
  <2>5. g = [n \in 0..1 |-> g[n]]
    OBVIOUS
  <2>6. g = [n \in 0..Len(cs) |-> IF n = 0 THEN acc ELSE Added(g[n - 1], cs[n])]
    <3> HIDE DEF g
    <3> QED BY <2>2, <2>4, <2>5
  <2>7. Is(<<c>>, f)
    <3>1. Is(<<c>>, g)
      <4> HIDE DEF g
      <4> QED BY <2>1, <2>6
    <3> HIDE DEF g, Is
    <3> QED BY <3>1
  <2> HIDE DEF f
  <2>8. f = [n \in 0..1 |-> IF n = 0 THEN acc ELSE Added(f[n - 1], cs[n])]
    BY <2>1, <2>2, <2>7
  <2>9. f[0] = acc /\ f[1] = Added(f[0], c)
    <3>1. 0 \in 0..1 /\ 1 \in 0..1 /\ 1 - 1 = 0 /\ 1 # 0
      OBVIOUS
    <3> QED BY <2>2, <2>8, <3>1
  <2> QED BY <1>1, <2>1, <2>2, <2>9 DEF f
<1> QED BY <1>2, <1>3

\* After two pieces that come together.
LEMMA AccumulatedBoth ==
  ASSUME NEW acc, NEW c, NEW d
  PROVE  Accumulated(acc, <<c, d>>) = Added(Added(acc, c), d)
<1> DEFINE Is(cs, f) == f = [n \in 0..Len(cs) |-> IF n = 0 THEN acc ELSE Added(f[n - 1], cs[n])]
<1>1. ASSUME NEW cs PROVE Accumulated(acc, cs) = (CHOOSE f : Is(cs, f))[Len(cs)]
  BY DEF Accumulated
<1>2. Accumulated(acc, <<c, d>>) = Added(Added(acc, c), d)
  <2> DEFINE g == [n \in 0..2 |-> CASE n = 0 -> acc [] n = 1 -> Added(acc, c)
                                     [] OTHER -> Added(Added(acc, c), d)]
             f == CHOOSE f : Is(<<c, d>>, f)
  <2>1. PICK cs : cs = <<c, d>>
    OBVIOUS
  <2>2. Len(cs) = 2 /\ cs[1] = c /\ cs[2] = d
    BY <2>1
  <2>3. g[0] = acc /\ g[1] = Added(acc, c) /\ g[2] = Added(Added(acc, c), d)
    OBVIOUS
  <2>4. ASSUME NEW n \in 0..2 PROVE g[n] = IF n = 0 THEN acc ELSE Added(g[n - 1], cs[n])
    <3> HIDE DEF g
    <3>1. CASE n = 0
      BY <2>3, <3>1
    <3>2. CASE n = 1
      BY <2>2, <2>3, <3>2
    <3>3. CASE n = 2
      BY <2>2, <2>3, <3>3
    <3> QED BY <3>1, <3>2, <3>3
  <2>5. g = [n \in 0..2 |-> g[n]]
    OBVIOUS
  <2>6. g = [n \in 0..Len(cs) |-> IF n = 0 THEN acc ELSE Added(g[n - 1], cs[n])]
    <3> HIDE DEF g
    <3> QED BY <2>2, <2>4, <2>5
  <2>7. Is(<<c, d>>, f)
    <3>1. Is(<<c, d>>, g)
      <4> HIDE DEF g
      <4> QED BY <2>1, <2>6
    <3> HIDE DEF g, Is
    <3> QED BY <3>1
  <2> HIDE DEF f
  <2>8. f = [n \in 0..2 |-> IF n = 0 THEN acc ELSE Added(f[n - 1], cs[n])]
    BY <2>1, <2>2, <2>7
  <2>9. f[0] = acc /\ f[1] = Added(f[0], c) /\ f[2] = Added(f[1], d)
    <3>1. 0 \in 0..2 /\ 1 \in 0..2 /\ 2 \in 0..2 /\ 1 - 1 = 0 /\ 2 - 1 = 1 /\ 1 # 0 /\ 2 # 0
      OBVIOUS
    <3> QED BY <2>2, <2>8, <3>1
  <2> QED BY <1>1, <2>1, <2>2, <2>9 DEF f
<1> QED BY <1>2

\* The first piece of a call.
LEMMA NewCall ==
  ASSUME NEW acc, NEW c, c.index \notin DOMAIN acc, c.first = TRUE
  PROVE  /\ DOMAIN Added(acc, c) = DOMAIN acc \cup {c.index}
         /\ Added(acc, c)[c.index] = [id |-> c.call, arguments |-> <<c.call>>]
         /\ \A j \in DOMAIN acc : Added(acc, c)[j] = acc[j]
  BY DEF Added

\* One more piece of a call.
LEMMA MoreOfCall ==
  ASSUME NEW acc, NEW c, c.index \in DOMAIN acc,
         NEW a, NEW b, acc[c.index] = [id |-> a, arguments |-> b]
  PROVE  /\ DOMAIN Added(acc, c) = DOMAIN acc
         /\ Added(acc, c)[c.index] = [id |-> a, arguments |-> Append(b, c.call)]
         /\ \A j \in DOMAIN acc : j # c.index => Added(acc, c)[j] = acc[j]
<1>0. PICK i, n : c.index = i /\ c.call = n
  OBVIOUS
<1>1. Added(acc, c) = [acc EXCEPT ![i] = [acc[i] EXCEPT !.arguments = Append(@, n)]]
  BY <1>0 DEF Added
<1>2. PICK e : e = [acc[i] EXCEPT !.arguments = Append(@, n)]
  OBVIOUS
<1>3. e = [id |-> a, arguments |-> Append(b, n)]
  <2>1. PICK more : more = Append(b, n)
    OBVIOUS
  <2>2. e = [[id |-> a, arguments |-> b] EXCEPT !.arguments = more]
    BY SMTT(30), <1>0, <1>2, <2>1
  <2>3. e = [id |-> a, arguments |-> more]
    BY <2>2
  <2> QED BY <2>1, <2>3
<1>4. Added(acc, c) = [acc EXCEPT ![i] = e]
  BY <1>1, <1>2
<1> QED BY <1>0, <1>3, <1>4

\* The tool calls reach Chunked as pieces without an index, Ollama's as a whole.
Chunked == reader # "skill" /\ (style = "compatible" \/ (style = "litellm" /\ reader = "typed"))

\* A call being accumulated: whose id it has, and whose arguments.
Entry == [id : {0, 1, 2}, arguments : Seq({1, 2})]

\* What is accumulated with an index is one whole call of Ollama; what is without
\* one begins with the first call that the provider began.
Held(accumulated, begun) ==
  /\ DOMAIN accumulated \in {{}, {0}, {1}, {1, 2}}
  /\ \A i \in DOMAIN accumulated : accumulated[i] \in Entry
  /\ \A i \in DOMAIN accumulated : i # 0 => accumulated[i] = [id |-> i, arguments |-> <<i>>]
  /\ 0 \in DOMAIN accumulated =>
       /\ accumulated[0].arguments # << >> /\ accumulated[0].id = accumulated[0].arguments[1]
       /\ begun # << >> /\ begun[1] = accumulated[0].id

\* By adapter: the one call without an index, none at all, or Ollama's, which come
\* with its first; and where pieces have no index, a call is there as soon as one
\* has been offered, so that no later one can take its place.
CallsInv ==
  /\ style \in Style
  /\ offered \in Seq({1, 2})
  /\ Held(calls, offered)
  /\ style \in {"compatible", "litellm"} => DOMAIN calls \subseteq {0}
  /\ style = "nvidia" => DOMAIN calls = {}
  /\ style = "ollama" => /\ offered # << >> => offered[1] = 1
                         /\ offered = << >> => DOMAIN calls = {}
  /\ stream = "open" /\ Chunked /\ DOMAIN calls = {} => offered = << >>

\* What is held so is run so.
LEMMA OwnFollows == CallsInv => CallsAreOwn
<1> SUFFICES ASSUME CallsInv PROVE CallsAreOwn
  OBVIOUS
<1> USE DEF Held
<1>1. ASSUME NEW i \in DOMAIN calls, NEW j \in DOMAIN calls, i # j PROVE calls[i].id # calls[j].id
  <2>1. DOMAIN calls = {1, 2}
    BY <1>1 DEF CallsInv
  <2>2. calls[1].id = 1 /\ calls[2].id = 2
    BY <2>1 DEF CallsInv
  <2> QED BY <1>1, <2>1, <2>2
<1>2. ASSUME NEW i \in DOMAIN calls, i # 0, NEW k \in DOMAIN calls[i].arguments
      PROVE  calls[i].arguments[k] = calls[i].id
  <2>1. calls[i].arguments = <<i>> /\ calls[i].id = i
    BY <1>2 DEF CallsInv
  <2>2. k = 1
    BY <1>2, <2>1
  <2> QED BY <2>1, <2>2
<1> QED BY <1>1, <1>2 DEF CallsAreOwn, CallsInv

\* The pieces of tool calls that come together.
LEMMA PiecesAre ==
  ASSUME style \in Style, NEW p \in Piece(style)
  PROVE  \/ p.calls = << >>
         \/ /\ style # "ollama"
            /\ \E c \in {1, 2}, first \in BOOLEAN :
                 p.calls = <<[call |-> c, first |-> first, index |-> c]>>
         \/ /\ style = "ollama"
            /\ \E i \in {0, 1} :
                 \/ p.calls = <<[call |-> 1, first |-> TRUE, index |-> i]>>
                 \/ p.calls = <<[call |-> 1, first |-> TRUE, index |-> i],
                                [call |-> 2, first |-> TRUE, index |-> 2 * i]>>
<1>1. p.calls \in CallPieces(style)
  BY DEF Piece
<1>2. CASE style = "nvidia"
  BY <1>1, <1>2 DEF CallPieces
<1>3. CASE style = "ollama"
  BY <1>1, <1>3 DEF CallPieces
<1>4. CASE style \in {"compatible", "litellm"}
  <2>1. p.calls = << >> \/ \E q \in CallPiece : q.index = q.call /\ p.calls = <<q>>
    BY <1>1, <1>4 DEF CallPieces
  <2>2. ASSUME NEW q \in CallPiece, q.index = q.call
        PROVE  q.call \in {1, 2} /\ q.first \in BOOLEAN
               /\ q = [call |-> q.call, first |-> q.first, index |-> q.call]
    BY <2>2 DEF CallPiece
  <2> QED BY <1>4, <2>1, <2>2
<1> QED BY <1>2, <1>3, <1>4 DEF Style

\* What is offered by the pieces, and when they can be sent.
LEMMA BegunIs ==
  ASSUME NEW c, NEW d
  PROVE  /\ Begun(<< >>) = << >>
         /\ Begun(<<c>>) = IF c.first THEN <<c.call>> ELSE << >>
         /\ c.first /\ d.first => Begun(<<c, d>>) = <<c.call, d.call>>
  BY DEF Begun

\* More calls after those there are.
LEMMA OfferedGrows ==
  ASSUME NEW e \in Seq({1, 2}), NEW f \in Seq({1, 2})
  PROVE  /\ e \o f \in Seq({1, 2})
         /\ e # << >> => e \o f # << >> /\ (e \o f)[1] = e[1]
         /\ e = << >> => e \o f = f
         /\ f = << >> => e \o f = e
<1>1. e \o f \in Seq({1, 2}) /\ Len(e \o f) = Len(e) + Len(f) /\ \A i \in 1..Len(e) : (e \o f)[i] = e[i]
  BY ConcatProperties
<1>2. e # << >> => 1 \in 1..Len(e)
  OBVIOUS
<1>3. e = << >> => e \o f = f
  OBVIOUS
<1>4. f = << >> => e \o f = e
  OBVIOUS
<1> QED BY <1>1, <1>2, <1>3, <1>4

\* What of the tool calls a reader of chunks is given.
LEMMA WhatIsRead ==
  ASSUME style \in Style, NEW p \in Piece(style), NEW items, items = Yielded(p),
         items # << >>, items[1].typed, reader # "skill"
  PROVE  \/ style = "ollama" /\ items[1].calls = p.calls
         \/ /\ Chunked
            /\ items[1].calls = [i \in DOMAIN p.calls |-> [p.calls[i] EXCEPT !.index = 0]]
         \/ style = "nvidia" /\ items[1].calls = << >>
<1>1. ASSUME items = ParseLiteLLM(p)
      PROVE  items[1].calls = [i \in DOMAIN p.calls |-> [p.calls[i] EXCEPT !.index = 0]]
  BY <1>1 DEF ParseLiteLLM, Chunk
<1>2. ASSUME NEW kinds \in Seq(Content), items = Strings(kinds) PROVE FALSE
  <2>1. DOMAIN items = DOMAIN kinds /\ \A i \in DOMAIN items : items[i] = String(kinds[i])
    BY <1>2 DEF Strings
  <2>2. kinds # << >>
    BY <1>2 DEF Strings
  <2>3. 1 \in DOMAIN kinds
    BY <2>2
  <2> QED BY <2>1, <2>3 DEF String
<1>3. CASE style = "compatible"
  BY <1>1, <1>3 DEF Yielded, Chunked
<1>4. CASE style = "litellm"
  BY <1>1, <1>2, <1>4, KindsAre DEF Yielded, LiteLLM, Chunked
<1>5. CASE style = "nvidia"
  <2>1. CASE reader = "typed"
    BY <1>5, <2>1 DEF Yielded, Nvidia, Chunk
  <2>2. CASE reader # "typed"
    <3>1. <<"text">> \in Seq(Content) /\ << >> \in Seq(Content)
      BY DEF Content
    <3>2. PICK kinds : kinds = IF p.text THEN <<"text">> ELSE << >>
      OBVIOUS
    <3>3. items = Strings(kinds)
      BY <1>5, <2>2, <3>2 DEF Yielded, Nvidia
    <3> QED BY <1>2, <3>1, <3>2, <3>3
  <2> QED BY <2>1, <2>2
<1>6. CASE style = "ollama"
  BY <1>6 DEF Yielded, Ollama, Chunk
<1> QED BY <1>3, <1>4, <1>5, <1>6 DEF Style

\* The first call of the provider stays the first, and Ollama's is its first.
LEMMA FirstStays ==
  ASSUME CallsInv, NEW p \in Piece(style), NEW now, now = offered \o Begun(p.calls)
  PROVE  /\ now \in Seq({1, 2})
         /\ offered # << >> => now # << >> /\ now[1] = offered[1]
         /\ p.calls = << >> => now = offered
         /\ style = "ollama" => /\ now # << >> => now[1] = 1
                                /\ now = << >> => offered = << >>
                                /\ p.calls # << >> => now # << >>
<1>1. style \in Style /\ offered \in Seq({1, 2})
  BY DEF CallsInv
<1>2. PICK more : more = Begun(p.calls)
  OBVIOUS
<1>3. /\ more \in Seq({1, 2}) /\ (p.calls = << >> => more = << >>)
      /\ style = "ollama" /\ more # << >> => more[1] = 1
      /\ style = "ollama" /\ p.calls # << >> => more # << >>
  <2>1. << >> \in Seq({1, 2}) /\ <<1, 2>> \in Seq({1, 2}) /\ \A c \in {1, 2} : <<c>> \in Seq({1, 2})
    OBVIOUS
  <2>2. CASE p.calls = << >>
    BY <1>2, <2>1, <2>2, BegunIs
  <2>3. CASE style # "ollama" /\ \E c \in {1, 2}, first \in BOOLEAN :
               p.calls = <<[call |-> c, first |-> first, index |-> c]>>
    <3>1. PICK c \in {1, 2}, first \in BOOLEAN :
            p.calls = <<[call |-> c, first |-> first, index |-> c]>>
      BY <2>3
    <3>2. more = IF first THEN <<c>> ELSE << >>
      BY <1>2, <3>1, BegunIs
    <3>3. p.calls # << >>
      BY <3>1
    <3> QED BY <2>1, <2>3, <3>2, <3>3
  <2>4. CASE style = "ollama" /\ \E i \in {0, 1} :
                 \/ p.calls = <<[call |-> 1, first |-> TRUE, index |-> i]>>
                 \/ p.calls = <<[call |-> 1, first |-> TRUE, index |-> i],
                                [call |-> 2, first |-> TRUE, index |-> 2 * i]>>
    <3>1. PICK i \in {0, 1} :
            \/ p.calls = <<[call |-> 1, first |-> TRUE, index |-> i]>>
            \/ p.calls = <<[call |-> 1, first |-> TRUE, index |-> i],
                           [call |-> 2, first |-> TRUE, index |-> 2 * i]>>
      BY <2>4
    <3>2. PICK c, d : /\ c = [call |-> 1, first |-> TRUE, index |-> i]
                      /\ d = [call |-> 2, first |-> TRUE, index |-> 2 * i]
      OBVIOUS
    <3>3. c.call = 1 /\ c.first /\ d.call = 2 /\ d.first
      BY <3>2
    <3>4. CASE p.calls = <<c>>
      <4>1. Begun(<<c>>) = <<1>>
        BY <3>3, BegunIs
      <4>2. more = <<1>> /\ p.calls # << >>
        BY <1>2, <3>4, <4>1
      <4> QED BY <2>1, <4>2
    <3>5. CASE p.calls = <<c, d>>
      <4>1. Begun(<<c, d>>) = <<1, 2>>
        BY <3>3, BegunIs
      <4>2. more = <<1, 2>> /\ p.calls # << >>
        BY <1>2, <3>5, <4>1
      <4> QED BY <2>1, <4>2
    <3> QED BY <3>1, <3>2, <3>4, <3>5
  <2> QED BY <1>1, <2>2, <2>3, <2>4, PiecesAre
<1>4. /\ offered \o more \in Seq({1, 2})
      /\ offered # << >> => offered \o more # << >> /\ (offered \o more)[1] = offered[1]
      /\ offered = << >> => offered \o more = more
      /\ more = << >> => offered \o more = offered
  BY <1>1, <1>3, OfferedGrows
<1> QED BY <1>2, <1>3, <1>4 DEF CallsInv

\* A call is begun by its first piece, and once.
LEMMA FirstPiece ==
  ASSUME CallsInv, NEW p \in Piece(style), Sendable(p)
  PROVE  /\ style = "ollama" /\ p.calls # << >> => offered = << >>
         /\ offered = << >> /\ p.calls # << >> => p.calls[1].first
<1>1. style \in Style /\ offered \in Seq({1, 2})
  BY DEF CallsInv
<1>2. ASSUME style = "ollama", p.calls # << >> PROVE offered = << >>
  <2>1. 1 \in DOMAIN p.calls /\ p.calls[1].call = 1 /\ p.calls[1].first = TRUE
    BY <1>1, <1>2, PiecesAre
  <2>2. ~Contains(offered, 1)
    BY <2>1 DEF Sendable
  <2>3. offered # << >> => 1 \in 1..Len(offered) /\ offered[1] = 1
    BY <1>1, <1>2 DEF CallsInv
  <2> QED BY <2>2, <2>3 DEF Contains
<1>3. ASSUME offered = << >>, p.calls # << >> PROVE p.calls[1].first
  <2>1. 1 \in DOMAIN p.calls
    <3>1. \/ \E c : p.calls = <<c>>
          \/ \E c, d : p.calls = <<c, d>>
      BY <1>1, <1>3, PiecesAre
    <3> QED BY <3>1
  <2>2. Len(offered) = 0
    BY <1>3
  <2>3. ~Contains(offered, p.calls[1].call)
    BY <2>2 DEF Contains
  <2> QED BY <2>1, <2>3 DEF Sendable
<1> QED BY <1>2, <1>3

\* Pieces without an index are added to the first call.
LEMMA ChunkedHeld ==
  ASSUME NEW k, NEW now
  PROVE  /\ CallsInv /\ Chunked /\ stream = "open" /\ k.index = 0 /\ k.call \in {1, 2}
         /\ offered = << >> => k.first = TRUE
         /\ now \in Seq({1, 2})
         /\ offered # << >> => now # << >> /\ now[1] = offered[1]
         /\ offered = << >> => now = <<k.call>>
         => Held(Added(calls, k), now) /\ DOMAIN Added(calls, k) = {0}
<1>0. SUFFICES ASSUME CallsInv, Chunked, stream = "open", k.index = 0, k.call \in {1, 2},
                      offered = << >> => k.first = TRUE,
                      now \in Seq({1, 2}),
                      offered # << >> => now # << >> /\ now[1] = offered[1],
                      offered = << >> => now = <<k.call>>
               PROVE  Held(Added(calls, k), now) /\ DOMAIN Added(calls, k) = {0}
  OBVIOUS
<1>1. DOMAIN calls \in {{}, {0}}
  BY ZenonT(30), <1>0 DEF CallsInv, Held, Chunked
<1>2. PICK acc, all : acc = calls /\ all = Added(acc, k)
  OBVIOUS
<1>3. CASE DOMAIN calls = {}
  <2>1. offered = << >> /\ k.first = TRUE /\ now = <<k.call>>
    BY <1>0, <1>3 DEF CallsInv
  <2>2. DOMAIN all = {0} /\ all[0] = [id |-> k.call, arguments |-> <<k.call>>]
    <3>1. k.index \notin DOMAIN acc
      BY <1>2, <1>3
    <3>2. /\ DOMAIN Added(acc, k) = DOMAIN acc \cup {k.index}
          /\ Added(acc, k)[k.index] = [id |-> k.call, arguments |-> <<k.call>>]
      BY <2>1, <3>1, NewCall
    <3> QED BY <1>0, <1>2, <1>3, <3>2
  <2>3. all[0] \in Entry
    BY <1>0, <2>2 DEF Entry
  <2>4. all[0].id = k.call /\ all[0].arguments = <<k.call>>
    BY <2>2
  <2>5. DOMAIN all = {0}
    BY <2>2
  <2>6. Held(all, now)
    BY <1>0, <2>1, <2>3, <2>4, <2>5 DEF Held
  <2> QED BY <1>2, <2>5, <2>6
<1>4. CASE DOMAIN calls = {0}
  <2>1. PICK a \in {0, 1, 2}, b \in Seq({1, 2}) : calls[0] = [id |-> a, arguments |-> b]
    BY <1>0, <1>4 DEF CallsInv, Held, Entry
  <2>2. b # << >> /\ a = b[1] /\ offered # << >> /\ offered[1] = a
    BY <1>0, <1>4, <2>1 DEF CallsInv, Held
  <2>3. PICK e : e = Append(b, k.call)
    OBVIOUS
  <2>4. e \in Seq({1, 2}) /\ e # << >> /\ e[1] = b[1]
    BY <1>0, <2>2, <2>3
  <2>5. DOMAIN all = {0} /\ all[0] = [id |-> a, arguments |-> e]
    <3>1. k.index \in DOMAIN acc /\ acc[k.index] = [id |-> a, arguments |-> b]
      BY <1>0, <1>2, <1>4, <2>1
    <3>2. /\ DOMAIN Added(acc, k) = DOMAIN acc
          /\ Added(acc, k)[k.index] = [id |-> a, arguments |-> Append(b, k.call)]
      BY <3>1, MoreOfCall
    <3> QED BY <1>0, <1>2, <1>4, <2>3, <3>2
  <2>6. all[0] \in Entry /\ all[0].id = a /\ all[0].arguments = e
    BY <2>4, <2>5 DEF Entry
  <2>7. DOMAIN all = {0}
    BY <2>5
  <2>8. Held(all, now)
    BY <1>0, <2>2, <2>4, <2>6, <2>7 DEF Held
  <2> QED BY <1>2, <2>7, <2>8
<1> QED BY <1>1, <1>3, <1>4

\* The calls of Ollama come together.
LEMMA OllamaHeld ==
  ASSUME NEW acc, NEW i \in {0, 1}, NEW k, NEW l, NEW now
  PROVE  /\ DOMAIN acc = {}
         /\ k = [call |-> 1, first |-> TRUE, index |-> i]
         /\ l = [call |-> 2, first |-> TRUE, index |-> 2 * i]
         /\ now \in Seq({1, 2}) /\ now # << >> /\ now[1] = 1
         => Held(Added(acc, k), now) /\ Held(Added(Added(acc, k), l), now)
<1>0. SUFFICES ASSUME DOMAIN acc = {},
                      k = [call |-> 1, first |-> TRUE, index |-> i],
                      l = [call |-> 2, first |-> TRUE, index |-> 2 * i],
                      now \in Seq({1, 2}), now # << >>, now[1] = 1
               PROVE  Held(Added(acc, k), now) /\ Held(Added(Added(acc, k), l), now)
  OBVIOUS
<1>1. k.index = i /\ k.call = 1 /\ k.first = TRUE /\ l.index = 2 * i /\ l.call = 2 /\ l.first = TRUE
  BY <1>0
<1>2. PICK one : one = Added(acc, k)
  OBVIOUS
<1>3. DOMAIN one = {i} /\ one[i] = [id |-> 1, arguments |-> <<1>>]
  <2>1. k.index \notin DOMAIN acc
    BY <1>0
  <2>2. /\ DOMAIN one = DOMAIN acc \cup {k.index}
        /\ one[k.index] = [id |-> k.call, arguments |-> <<k.call>>]
    <3>1. k.first = TRUE
      BY <1>1
    <3>2. /\ DOMAIN Added(acc, k) = DOMAIN acc \cup {k.index}
          /\ Added(acc, k)[k.index] = [id |-> k.call, arguments |-> <<k.call>>]
      BY <2>1, <3>1, NewCall
    <3> QED BY <1>2, <3>2
  <2> QED BY <1>0, <1>1, <2>2
<1>4. [id |-> 1, arguments |-> <<1>>] \in Entry /\ [id |-> 2, arguments |-> <<2>>] \in Entry
  BY DEF Entry
<1>5. Held(one, now)
  BY <1>0, <1>3, <1>4 DEF Held
<1>6. PICK both : both = Added(one, l)
  OBVIOUS
<1>7. CASE i = 0
  <2>1. PICK b : b = <<1>>
    OBVIOUS
  <2>2. b \in Seq({1, 2}) /\ b # << >> /\ b[1] = 1
    BY <2>1
  <2>3. PICK e : e = Append(b, 2)
    OBVIOUS
  <2>4. e \in Seq({1, 2}) /\ e # << >> /\ e[1] = 1
    BY <2>2, <2>3
  <2>5. PICK n : n = 1
    OBVIOUS
  <2>6. DOMAIN both = {0} /\ both[0] = [id |-> 1, arguments |-> e]
    <3>1. l.index \in DOMAIN one /\ one[l.index] = [id |-> n, arguments |-> b]
      BY <1>1, <1>3, <1>7, <2>1, <2>5
    <3>2. /\ DOMAIN Added(one, l) = DOMAIN one
          /\ Added(one, l)[l.index] = [id |-> n, arguments |-> Append(b, l.call)]
      BY <3>1, MoreOfCall
    <3> QED BY <1>1, <1>3, <1>6, <1>7, <2>3, <2>5, <3>2
  <2>7. DOMAIN both = {0} /\ both[0].id = 1 /\ both[0].arguments = e /\ both[0] \in Entry
    BY <2>4, <2>6 DEF Entry
  <2>8. Held(both, now)
    <3>1. \A j \in DOMAIN both : j = 0
      BY <2>7
    <3> QED BY <1>0, <2>4, <2>7, <3>1 DEF Held
  <2> QED BY <1>2, <1>5, <1>6, <2>8
<1>8. CASE i = 1
  <2>1. /\ DOMAIN both = {1, 2} /\ both[2] = [id |-> 2, arguments |-> <<2>>]
        /\ both[1] = [id |-> 1, arguments |-> <<1>>]
    <3>1. l.index \notin DOMAIN one
      BY <1>1, <1>3, <1>8
    <3>2. /\ DOMAIN Added(one, l) = DOMAIN one \cup {l.index}
          /\ Added(one, l)[l.index] = [id |-> l.call, arguments |-> <<l.call>>]
          /\ \A j \in DOMAIN one : Added(one, l)[j] = one[j]
      <4>1. l.first = TRUE
        BY <1>1
      <4> QED BY ZenonT(30), <3>1, <4>1, NewCall
    <3> QED BY <1>1, <1>3, <1>6, <1>8, <3>2
  <2>2. Held(both, now)
    BY <1>0, <1>4, <2>1 DEF Held
  <2> QED BY <1>2, <1>5, <1>6, <2>2
<1> QED BY <1>7, <1>8

\* The invariant of the calls when none is added to them.
LEMMA NoneAdded ==
  ASSUME CallsInv, calls' = calls, style' = style, reader' = reader, stream = "open",
         offered' \in Seq({1, 2}),
         offered # << >> => offered' # << >> /\ offered'[1] = offered[1],
         style = "ollama" /\ offered' # << >> => offered'[1] = 1,
         Chunked => offered' = offered
  PROVE  CallsInv'
<1>1. Chunked' = Chunked
  BY DEF Chunked
<1>2. Held(calls', offered')
  BY DEF CallsInv, Held
<1> QED BY <1>1, <1>2 DEF CallsInv

\* A piece of the stream of a provider.
LEMMA CallsReceived ==
  ASSUME CallsInv, NEW p \in Piece(style), Receive(p)
  PROVE  CallsInv'
<1>1. /\ style \in Style /\ stream = "open" /\ style' = style /\ reader' = reader
      /\ offered \in Seq({1, 2}) /\ offered' = offered \o Begun(p.calls) /\ Sendable(p)
      /\ Consume(Yielded(p))
  BY DEF Receive, CallsInv
<1>2. PICK now : now = offered \o Begun(p.calls)
  OBVIOUS
<1>3. /\ offered' = now /\ now \in Seq({1, 2})
      /\ offered # << >> => now # << >> /\ now[1] = offered[1]
      /\ p.calls = << >> => now = offered
      /\ style = "ollama" => /\ now # << >> => now[1] = 1
                             /\ now = << >> => offered = << >>
                             /\ p.calls # << >> => now # << >>
  BY <1>1, <1>2, FirstStays
<1>4. Chunked' = Chunked
  BY <1>1 DEF Chunked
<1>5. PICK items : items = Yielded(p)
  OBVIOUS
<1>6. \/ calls' = calls
      \/ /\ items # << >> /\ items[1].typed /\ reader # "skill"
         /\ calls' = Accumulated(calls, items[1].calls)
  BY <1>1, <1>5 DEF Consume, Reads, Mistaken
<1>7. ASSUME calls' = calls, p.calls = << >> \/ ~Chunked PROVE CallsInv'
  BY <1>1, <1>3, <1>7, NoneAdded
<1>8. ASSUME Chunked, p.calls # << >> PROVE CallsInv'
  <2>1. style # "ollama" /\ style # "nvidia"
    BY <1>8 DEF Chunked
  <2>2. PICK c \in {1, 2}, first \in BOOLEAN :
          p.calls = <<[call |-> c, first |-> first, index |-> c]>>
    BY <1>1, <1>8, <2>1, PiecesAre
  <2>3. PICK given : given = [i \in DOMAIN p.calls |-> [p.calls[i] EXCEPT !.index = 0]]
    OBVIOUS
  <2>4. PICK k : k = [call |-> c, first |-> first, index |-> 0]
    OBVIOUS
  <2>5. k.call = c /\ k.first = first /\ k.index = 0
    BY <2>4
  <2>6. given = <<k>>
    BY <2>2, <2>3, <2>4
  <2>7. items = <<Chunk(Kinds(p), given, p.finish)>>
    BY <1>5, <1>8, <2>1, <2>3 DEF Chunked, Yielded, LiteLLM, ParseLiteLLM
  <2>8. calls' = Accumulated(calls, given)
    <3>1. items # << >> /\ items[1].typed = TRUE /\ items[1].calls = given /\ reader # "skill"
      BY <1>8, <2>7 DEF Chunk, Chunked
    <3> QED BY <1>1, <1>5, <3>1 DEF Consume, Reads
  <2>9. calls' = Added(calls, k)
    BY <2>6, <2>8, AccumulatedIs
  <2>10. offered = << >> => k.first = TRUE /\ now = <<k.call>>
    <3>1. offered = << >> => first = TRUE
      <4>1. offered = << >> => p.calls[1].first
        BY <1>1, <1>8, FirstPiece
      <4> QED BY <2>2, <4>1
    <3>2. Begun(p.calls) = IF first THEN <<c>> ELSE << >>
      BY <2>2, BegunIs
    <3>3. << >> \o <<c>> = <<c>>
      OBVIOUS
    <3> QED BY <1>2, <2>5, <3>1, <3>2, <3>3
  <2>11. Held(Added(calls, k), now) /\ DOMAIN Added(calls, k) = {0}
    BY <1>1, <1>3, <1>8, <2>5, <2>10, ChunkedHeld
  <2>12. Held(calls', offered') /\ DOMAIN calls' = {0}
    BY <1>3, <2>9, <2>11
  <2> QED BY <1>1, <1>3, <2>1, <2>12 DEF CallsInv
<1>9. ASSUME p.calls = << >> \/ ~Chunked, items # << >>, items[1].typed, reader # "skill",
             calls' = Accumulated(calls, items[1].calls)
      PROVE  CallsInv'
  <2>1. \/ style = "ollama" /\ items[1].calls = p.calls
        \/ items[1].calls = << >>
    <3>1. p.calls = << >> => [i \in DOMAIN p.calls |-> [p.calls[i] EXCEPT !.index = 0]] = << >>
      OBVIOUS
    <3> QED BY <1>1, <1>5, <1>9, <3>1, WhatIsRead
  <2>2. ASSUME items[1].calls = << >> PROVE CallsInv'
    <3>1. calls' = calls
      BY <1>9, <2>2, AccumulatedIs
    <3> QED BY <1>7, <1>9, <3>1
  <2>3. ASSUME style = "ollama", items[1].calls = p.calls, p.calls # << >> PROVE CallsInv'
    <3>1. offered = << >> /\ DOMAIN calls = {}
      <4>1. offered = << >>
        BY <1>1, <2>3, FirstPiece
      <4> QED BY <2>3, <4>1 DEF CallsInv
    <3>2. now # << >> /\ now[1] = 1
      BY <1>3, <2>3
    <3>3. PICK i \in {0, 1} :
            \/ p.calls = <<[call |-> 1, first |-> TRUE, index |-> i]>>
            \/ p.calls = <<[call |-> 1, first |-> TRUE, index |-> i],
                           [call |-> 2, first |-> TRUE, index |-> 2 * i]>>
      BY <1>1, <2>3, PiecesAre
    <3>4. PICK k, l : /\ k = [call |-> 1, first |-> TRUE, index |-> i]
                      /\ l = [call |-> 2, first |-> TRUE, index |-> 2 * i]
      OBVIOUS
    <3>5. Held(Added(calls, k), now) /\ Held(Added(Added(calls, k), l), now)
      BY <1>3, <3>1, <3>2, <3>4, OllamaHeld
    <3>6. calls' \in {Added(calls, k), Added(Added(calls, k), l)}
      <4>1. calls' = Accumulated(calls, p.calls) /\ (p.calls = <<k>> \/ p.calls = <<k, l>>)
        BY <1>9, <2>3, <3>3, <3>4
      <4>2. Accumulated(calls, <<k>>) = Added(calls, k)
        BY AccumulatedIs
      <4>3. Accumulated(calls, <<k, l>>) = Added(Added(calls, k), l)
        BY AccumulatedBoth
      <4> QED BY <4>1, <4>2, <4>3
    <3>7. Held(calls', offered')
      BY <1>3, <3>5, <3>6
    <3> QED BY <1>1, <1>3, <1>4, <1>9, <2>3, <3>2, <3>7 DEF CallsInv
  <2> QED BY <2>1, <2>2, <2>3
<1> QED BY <1>6, <1>7, <1>8, <1>9

\* Every step keeps the calls.
LEMMA CallsStep == CallsInv /\ [WNext]_wvars => CallsInv'
<1> SUFFICES ASSUME CallsInv, [WNext]_wvars PROVE CallsInv'
  OBVIOUS
<1>1. ASSUME UNCHANGED <<style, reader, calls, offered>>, stream' = "open" => stream = "open"
      PROVE  CallsInv'
  BY <1>1 DEF CallsInv, Held, Chunked
<1>2. CASE \E p \in Piece(style) : Receive(p)
  BY <1>2, CallsReceived
<1>3. CASE ReceiveDone
  BY <1>1, <1>3 DEF ReceiveDone
<1>4. CASE Ends
  BY <1>1, <1>4 DEF Ends
<1>5. CASE Breaks
  BY <1>1, <1>5 DEF Breaks
<1>6. CASE UNCHANGED wvars
  BY <1>1, <1>6 DEF wvars
<1> QED BY <1>2, <1>3, <1>4, <1>5, <1>6 DEF WNext

\* A tool call is run with the id of a call the provider began, no call is run
\* twice, and it is run with arguments of others only where the index was lost:
\* whatever pieces the calls come in, whichever adapter and reader there are.
THEOREM CallsRunAreOwn == WSpec => []CallsAreOwn
<1>1. WInit => CallsInv
  <2> SUFFICES ASSUME WInit PROVE CallsInv
    OBVIOUS
  <2>1. DOMAIN calls = {} /\ offered = << >>
    BY DEF WInit
  <2>2. offered \in Seq({1, 2})
    BY <2>1
  <2> QED BY <2>1, <2>2 DEF WInit, CallsInv, Held
<1>2. CallsInv /\ [WNext]_wvars => CallsInv'
  BY CallsStep
<1> QED BY <1>1, <1>2, OwnFollows, PTL DEF WSpec

-----------------------------------------------------------------------------
(* Skills. *)

Phase == {"check", "resolve", "deps", "ask", "wait"}
FrameType == [skill : SkillId, valid : BOOLEAN, phase : Phase, todo : Seq(Skill),
              results : SUBSET Skill, errors : SUBSET Skill, attempt : Nat]

SkillsType ==
  /\ stack \in Seq(FrameType)
  /\ path \in Seq([skill : Skill, left : Seq(SkillId)]) /\ visited \in SUBSET SkillId
  /\ chain \in Seq(SkillId \cup {NoId})
  /\ answer \in {"none", "single", "chain", "done", "error", "raised"}
  /\ asked \in [SUBSET Skill -> Nat]

\* Between two requests no call is under way, and nothing is left of the one before.
RestSound ==
  /\ answer \notin {"single", "chain"} => stack = << >>
  /\ answer = "none" => asked = NothingAsked

\* The skills that a call has executed, and the one that it is executing.
Settled(f) == f.results \cup f.errors
Child(i) == IF i < Len(stack) THEN {stack[i + 1].skill} ELSE {}

\* What resolve() has listed for a call: all that is visited and left again,
\* each once, and never before what it depends on.
Open(p) == {p[k].skill : k \in DOMAIN p}
ListedSoFar(f, p, v) ==
  /\ p # << >> /\ p[1].skill = f.skill
  /\ f.skill \in v /\ v \subseteq Reached(f.skill) \cup {f.skill, Unknown}
  /\ \A k \in DOMAIN p :
       /\ ToSet(p[k].left) \subseteq ToSet(Deps[p[k].skill])
       /\ ToSet(Deps[p[k].skill]) \subseteq v \cup ToSet(p[k].left)
  /\ \A j, k \in DOMAIN p : p[j].skill = p[k].skill => j = k
  /\ Open(p) \subseteq v /\ ToSet(f.todo) = v \ (Open(p) \cup {Unknown})
  /\ IsInjective(f.todo)
  /\ \A s \in ToSet(f.todo) : ToSet(Deps[s]) \subseteq v

\* What a call has still to execute, is executing and has executed: together all
\* that its skill depends on, and nothing twice.
Shared(f, child) ==
  /\ (ToSet(f.todo) \ {f.skill}) \cup child \cup Settled(f) = Reached(f.skill)
  /\ child \cap Settled(f) = {} /\ ToSet(f.todo) \cap (child \cup Settled(f)) = {}
  /\ IsInjective(f.todo)

FrameSound(f, child) ==
  /\ f.phase \in {"check", "resolve"} => Settled(f) = {}
  /\ f.phase = "check" => f.todo = << >>
  /\ f.phase = "deps" => Shared(f, child)
  /\ f.phase \in {"ask", "wait"} => Settled(f) = Reached(f.skill)
  /\ f.phase # "deps" => child = {}
  /\ f.skill = Unknown => f.phase = "check"
  /\ f.attempt <= Attempts
  /\ f.phase = "ask" => f.attempt < Attempts
  /\ f.phase \notin {"ask", "wait"} => f.attempt = 0

FramesSound == \A i \in DOMAIN stack : FrameSound(stack[i], Child(i))

\* A call that is nested in others is of a skill that each of them needs.
NestSound ==
  \A i, j \in DOMAIN stack : i < j =>
    /\ stack[j].skill \in Skill /\ (stack[j].valid \/ stack[j].skill \in Refusable)
    /\ stack[j].skill \in Reached(stack[i].skill) \cup {stack[i].skill}

SkillsInv ==
  /\ SkillsType /\ RestSound /\ FramesSound /\ NestSound
  /\ IF In("resolve") THEN ListedSoFar(Top, path, visited) ELSE path = << >> /\ visited = {}

\* Nothing that goes round in a circle is ever executed to its end, but for a
\* skill that was refused.
CirclesSound == \A i \in DOMAIN stack : Settled(stack[i]) \cap Endless \subseteq Refusable

\* The chains of skills of which all was executed: one that a call has executed
\* is in it, with all the calls around it, and beyond it is only what that needs.
Upto(i) == {stack[j].skill : j \in 1..i}
Finished(C) ==
  \E i \in DOMAIN stack : \E d \in Settled(stack[i]) :
    /\ Upto(i) \cup {d} \subseteq C
    /\ C \ (Upto(i) \cup {d}) \subseteq Reached(d)

AskBound(C) == IF Finished(C) THEN Attempts ELSE IF C = UnderWay THEN Top.attempt ELSE 0

\* The request is for a skill that has no circle below it.
Straight == stack # << >> /\ stack[1].skill # Unknown /\ ~Cycles[stack[1].skill]

AskedSound ==
  Straight /\ answer = "single" => \A C \in SUBSET Skill : asked[C] <= AskBound(C)

-----------------------------------------------------------------------------
(* What a skill depends on. *)

\* What is reached from a skill: the others in every closed set that holds its
\* dependencies.
LEMMA ReachedIs ==
  ASSUME NEW s \in Skill
  PROVE  /\ Reached(s) \subseteq Skill /\ s \notin Reached(s)
         /\ \A t : t \in Reached(s) <=>
              t \in Skill \ {s} /\ \A S \in SUBSET SkillId :
                                      Closed(S) /\ ToSet(Deps[s]) \subseteq S => t \in S
BY DEF Reached, ReachedFrom

\* Where the dependencies of all are in, all that are reached are in.
LEMMA ReachedWithin ==
  ASSUME NEW s \in Skill, NEW S \in SUBSET SkillId, Closed(S), s \in S
  PROVE  Reached(s) \subseteq S
<1>1. s # Unknown
  BY SkillsAssumption
<1>2. ToSet(Deps[s]) \subseteq S
  BY <1>1 DEF Closed
<1> QED
  BY <1>2, ReachedIs

\* What is needed by one that is needed is needed.
LEMMA ReachedOn ==
  ASSUME NEW s \in Skill, NEW d \in Reached(s) \cup {s}, NEW x \in Reached(d), x # s
  PROVE  x \in Reached(s)
<1>1. CASE d = s
  BY <1>1
<1>2. CASE d \in Reached(s)
  <2>1. d \in Skill /\ x \in Skill /\ d # Unknown
    BY <1>2, ReachedIs, SkillsAssumption
  <2>2. ASSUME NEW S \in SUBSET SkillId, Closed(S), ToSet(Deps[s]) \subseteq S
        PROVE  x \in S
    <3>1. d \in S
      BY <1>2, <2>2, ReachedIs
    <3>2. Reached(d) \subseteq S
      BY <2>1, <2>2, <3>1, ReachedWithin
    <3> QED BY <3>2
  <2> QED BY <2>1, <2>2, ReachedIs
<1> QED
  BY <1>1, <1>2

\* A dependency of one that is needed is needed, if it is there.
LEMMA ReachedNext ==
  ASSUME NEW s \in Skill, NEW d \in Reached(s) \cup {s}, NEW t \in ToSet(Deps[d]),
         t \notin {s, Unknown}
  PROVE  t \in Reached(s)
<1>1. d \in Skill /\ d # Unknown
  BY ReachedIs, SkillsAssumption
<1>2. t \in Skill
  <2>1. Deps[d] \in Seq(Skill \cup {Unknown})
    BY <1>1, SkillsAssumption
  <2>2. ToSet(Deps[d]) \subseteq Skill \cup {Unknown}
    BY <2>1 DEF ToSet
  <2> QED BY <2>2
<1>3. ASSUME NEW S \in SUBSET SkillId, Closed(S), ToSet(Deps[s]) \subseteq S
      PROVE  t \in S
  <2>1. CASE d = s
    BY <1>3, <2>1
  <2>2. CASE d \in Reached(s)
    <3>1. d \in S
      BY <1>3, <2>2, ReachedIs
    <3> QED BY <1>1, <1>3, <3>1 DEF Closed
  <2> QED BY <2>1, <2>2
<1> QED
  BY <1>2, <1>3, ReachedIs

-----------------------------------------------------------------------------
(* Lists. *)

\* One more at the end of a list, as a place and as a member.
LEMMA AppendIs ==
  ASSUME NEW T, NEW list \in Seq(T), NEW e \in T
  PROVE  /\ Append(list, e) \in Seq(T) /\ Len(Append(list, e)) = Len(list) + 1
         /\ Append(list, e) # << >>
         /\ \A i \in 1..Len(list) : Append(list, e)[i] = list[i]
         /\ Append(list, e)[Len(list) + 1] = e
         /\ ToSet(Append(list, e)) = ToSet(list) \cup {e}
         /\ IsInjective(list) /\ e \notin ToSet(list) => IsInjective(Append(list, e))
<1> DEFINE longer == Append(list, e)
<1>1. /\ longer \in Seq(T) /\ Len(longer) = Len(list) + 1 /\ longer # << >>
      /\ \A i \in 1..Len(list) : longer[i] = list[i]
      /\ longer[Len(list) + 1] = e
  BY AppendProperties
<1>2. Len(list) \in Nat /\ DOMAIN list = 1..Len(list) /\ DOMAIN longer = 1..(Len(list) + 1)
  BY <1>1
<1> HIDE DEF longer
<1>3. \A i \in 1..(Len(list) + 1) : i = Len(list) + 1 \/ i \in 1..Len(list)
  BY <1>2
<1>4. 1..Len(list) \subseteq 1..(Len(list) + 1) /\ Len(list) + 1 \in 1..(Len(list) + 1)
  BY <1>2
<1>5. ToSet(longer) = ToSet(list) \cup {e}
  BY <1>1, <1>2, <1>3, <1>4 DEF ToSet
<1>6. ASSUME IsInjective(list), e \notin ToSet(list)
      PROVE  IsInjective(longer)
  <2>1. \A i \in 1..Len(list) : longer[i] # e
    BY <1>1, <1>2, <1>6 DEF ToSet
  <2> QED BY <1>1, <1>2, <1>3, <1>6, <2>1 DEF IsInjective
<1> QED
  BY <1>1, <1>5, <1>6 DEF longer

\* A list is its first and the rest; without repetitions the first is not in the rest.
LEMMA TailIs ==
  ASSUME NEW T, NEW list \in Seq(T), list # << >>
  PROVE  /\ Tail(list) \in Seq(T) /\ Head(list) \in T
         /\ ToSet(list) = {Head(list)} \cup ToSet(Tail(list))
         /\ IsInjective(list) => IsInjective(Tail(list)) /\ Head(list) \notin ToSet(Tail(list))
<1> DEFINE rest == Tail(list)
<1>1. /\ rest \in Seq(T) /\ Head(list) \in T /\ Len(rest) = Len(list) - 1
      /\ \A i \in 1..Len(rest) : rest[i] = list[i + 1]
  BY HeadTailProperties
<1>2. Head(list) = list[1] /\ Len(list) \in Nat \ {0} /\ DOMAIN list = 1..Len(list)
  BY EmptySeq
<1>3. DOMAIN rest = 1..(Len(list) - 1)
  BY <1>1
<1> HIDE DEF rest
<1>4. 1 \in 1..Len(list) /\ \A i \in 1..(Len(list) - 1) : i + 1 \in 1..Len(list) /\ i + 1 # 1
  BY <1>2
<1>5. \A i \in 1..Len(list) : i # 1 => i - 1 \in 1..(Len(list) - 1) /\ (i - 1) + 1 = i
  BY <1>2
<1>6. \A i \in 1..(Len(list) - 1) : rest[i] = list[i + 1]
  BY <1>1
<1>7. ToSet(list) = {Head(list)} \cup ToSet(rest)
  <2>1. ToSet(list) \subseteq {Head(list)} \cup ToSet(rest)
    <3> SUFFICES ASSUME NEW i \in 1..Len(list) PROVE list[i] \in {Head(list)} \cup ToSet(rest)
      BY <1>2 DEF ToSet
    <3>1. CASE i = 1
      BY <3>1, <1>2
    <3>2. CASE i # 1
      <4>1. i - 1 \in DOMAIN rest /\ rest[i - 1] = list[i]
        BY <1>3, <1>5, <1>6, <3>2
      <4> QED BY <4>1 DEF ToSet
    <3> QED BY <3>1, <3>2
  <2>2. {Head(list)} \cup ToSet(rest) \subseteq ToSet(list)
    <3>1. \A i \in DOMAIN rest : rest[i] \in ToSet(list)
      BY <1>2, <1>3, <1>4, <1>6 DEF ToSet
    <3>2. ToSet(rest) \subseteq ToSet(list)
      BY <3>1 DEF ToSet
    <3>3. Head(list) \in ToSet(list)
      BY <1>2, <1>4 DEF ToSet
    <3> QED BY <3>2, <3>3
  <2> QED BY <2>1, <2>2
<1>8. ASSUME IsInjective(list)
      PROVE  IsInjective(rest) /\ Head(list) \notin ToSet(rest)
  <2>1. \A i, j \in 1..(Len(list) - 1) : rest[i] = rest[j] => i + 1 = j + 1
    BY <1>2, <1>4, <1>6, <1>8 DEF IsInjective
  <2>2. \A i, j \in 1..(Len(list) - 1) : i + 1 = j + 1 => i = j
    BY <1>2
  <2>3. \A i \in 1..(Len(list) - 1) : rest[i] # Head(list)
    BY <1>2, <1>4, <1>6, <1>8 DEF IsInjective
  <2> QED BY <1>3, <2>1, <2>2, <2>3 DEF IsInjective, ToSet
<1> QED
  BY <1>1, <1>7, <1>8 DEF rest

\* A list without its last.
LEMMA FrontIs ==
  ASSUME NEW T, NEW list \in Seq(T), list # << >>
  PROVE  /\ Front(list) \in Seq(T) /\ Len(Front(list)) = Len(list) - 1
         /\ \A i \in 1..(Len(list) - 1) : Front(list)[i] = list[i]
<1>1. Len(list) \in Nat \ {0} /\ \A i \in 1..(Len(list) - 1) : list[i] \in T
  BY EmptySeq
<1>2. Len(list) - 1 \in Int /\ 1 \in Int
  BY <1>1
<1> DEFINE n == Len(list) - 1
<1>3. /\ SubSeq(list, 1, n) \in Seq(T) /\ Len(SubSeq(list, 1, n)) = IF 1 <= n THEN n - 1 + 1 ELSE 0
      /\ \A i \in 1..(n - 1 + 1) : SubSeq(list, 1, n)[i] = list[1 + i - 1]
  <2>1. \A i \in 1..n : list[i] \in T
    BY <1>1
  <2> HIDE DEF n
  <2> QED BY <2>1, <1>2, SubSeqProperties DEF n
<1>4. Front(list) = SubSeq(list, 1, n)
  BY DEF Front
<1>5. n - 1 + 1 = n /\ \A i \in 1..n : 1 + i - 1 = i
  BY <1>1
<1>6. (IF 1 <= n THEN n - 1 + 1 ELSE 0) = n
  <2>1. n \in Nat
    BY <1>1
  <2> HIDE DEF n
  <2> QED BY <2>1
<1> QED
  BY <1>3, <1>4, <1>5, <1>6

-----------------------------------------------------------------------------
(* How the stack moves. *)

\* The frames of a stack that is not empty, and the innermost of them, which has no child.
LEMMA StackIs ==
  ASSUME SkillsType, stack # << >>
  PROVE  /\ Len(stack) \in Nat \ {0} /\ DOMAIN stack = 1..Len(stack)
         /\ Len(stack) \in DOMAIN stack /\ Top = stack[Len(stack)] /\ Top \in FrameType
         /\ \A i \in DOMAIN stack : stack[i] \in FrameType
         /\ Child(Len(stack)) = {}
<1>1. stack \in Seq(FrameType)
  BY DEF SkillsType
<1>2. Len(stack) \in Nat \ {0} /\ DOMAIN stack = 1..Len(stack)
  BY <1>1, EmptySeq
<1>3. \A i \in DOMAIN stack : stack[i] \in FrameType
  BY <1>1
<1> QED
  BY <1>2, <1>3 DEF Top, Child

\* All calls but the innermost are executing a dependency.
LEMMA OthersWait ==
  ASSUME SkillsType, FramesSound, NEW i \in DOMAIN stack, i # Len(stack)
  PROVE  i + 1 \in DOMAIN stack /\ Child(i) = {stack[i + 1].skill} /\ stack[i].phase = "deps"
<1>1. stack # << >>
  BY DEF SkillsType
<1>2. i \in 1..Len(stack) /\ Len(stack) \in Nat
  BY <1>1, StackIs
<1>3. i < Len(stack) /\ i + 1 \in 1..Len(stack)
  BY <1>2
<1>4. Child(i) = {stack[i + 1].skill}
  BY <1>3 DEF Child
<1>5. FrameSound(stack[i], Child(i))
  BY DEF FramesSound
<1>6. stack[i].phase = "deps"
  BY <1>4, <1>5 DEF FrameSound
<1> QED
  BY <1>1, <1>3, <1>4, <1>6, StackIs

\* After a step the nested calls are as they should be if each pair is.
LEMMA NestNext ==
  ASSUME \A i, j \in DOMAIN stack' : i < j =>
           /\ stack'[j].skill \in Skill
           /\ (stack'[j].valid \/ stack'[j].skill \in Refusable)
           /\ stack'[j].skill \in Reached(stack'[i].skill) \cup {stack'[i].skill}
  PROVE  NestSound'
<1> SUFFICES ASSUME NEW i \in DOMAIN stack', NEW j \in DOMAIN stack', i < j
             PROVE  /\ stack'[j].skill \in Skill
                    /\ (stack'[j].valid \/ stack'[j].skill \in Refusable)
                    /\ stack'[j].skill \in Reached(stack'[i].skill) \cup {stack'[i].skill}
  BY DEF NestSound
<1> QED OBVIOUS

\* The innermost call goes on: what is sound for its frame keeps the stack sound.
LEMMA TopMoves ==
  ASSUME SkillsType, FramesSound, NestSound, stack # << >>,
         NEW f \in FrameType, FrameSound(f, {}), f.skill = Top.skill, f.valid = Top.valid,
         stack' = [stack EXCEPT ![Len(stack)] = f]
  PROVE  /\ stack' \in Seq(FrameType) /\ stack' # << >> /\ Len(stack') = Len(stack) /\ Top' = f
         /\ \A i \in DOMAIN stack : i # Len(stack) => stack'[i] = stack[i]
         /\ \A i \in DOMAIN stack : stack'[i].skill = stack[i].skill
         /\ FramesSound' /\ NestSound'
<1> DEFINE n == Len(stack)
<1>1. /\ n \in Nat \ {0} /\ DOMAIN stack = 1..n /\ n \in DOMAIN stack /\ Top = stack[n]
      /\ stack \in Seq(FrameType)
  BY StackIs DEF SkillsType
<1>2. /\ stack' \in Seq(FrameType) /\ Len(stack') = n /\ DOMAIN stack' = DOMAIN stack
      /\ \A i \in DOMAIN stack : stack'[i] = IF i = n THEN f ELSE stack[i]
  BY <1>1
<1>3. stack' # << >> /\ Top' = f
  BY <1>1, <1>2 DEF Top
<1>4. \A i \in DOMAIN stack : stack'[i].skill = stack[i].skill /\ stack'[i].valid = stack[i].valid
  BY <1>1, <1>2
<1>5. ASSUME NEW i \in DOMAIN stack
      PROVE  FrameSound(stack'[i], Child(i)')
  <2>1. CASE i = n
    <3>1. Child(i)' = {}
      BY <2>1, <1>1, <1>2 DEF Child
    <3> QED BY <3>1, <2>1, <1>2
  <2>2. CASE i # n
    <3>1. Child(i)' = Child(i)
      <4>1. i + 1 \in DOMAIN stack /\ i < n
        BY <2>2, <1>1
      <4> QED BY <4>1, <1>2, <1>4 DEF Child
    <3>2. FrameSound(stack[i], Child(i))
      BY DEF FramesSound
    <3> QED BY <3>1, <3>2, <2>2, <1>2
  <2> QED BY <2>1, <2>2
<1>6. FramesSound'
  BY <1>2, <1>5 DEF FramesSound
<1>7. NestSound'
  <2>1. \A i, j \in DOMAIN stack : i < j =>
          /\ stack[j].skill \in Skill
          /\ (stack[j].valid \/ stack[j].skill \in Refusable)
          /\ stack[j].skill \in Reached(stack[i].skill) \cup {stack[i].skill}
    BY DEF NestSound
  <2>2. \A i, j \in DOMAIN stack' : i < j =>
          /\ stack'[j].skill \in Skill
          /\ (stack'[j].valid \/ stack'[j].skill \in Refusable)
          /\ stack'[j].skill \in Reached(stack'[i].skill) \cup {stack'[i].skill}
    BY <2>1, <1>2, <1>4
  <2> QED BY <2>2, NestNext
<1> QED
  BY <1>2, <1>3, <1>4, <1>6, <1>7

\* A dependency that is not accepted requires a parameter, or was handed some.
LEMMA MayRefuse ==
  ASSUME SkillsType, FramesSound, NEW valid \in BOOLEAN, Descend(valid)
  PROVE  /\ HasNext /\ (valid \/ Head(Top.todo) \in Refusable)
         /\ stack' = Append([stack EXCEPT ![Len(stack)].todo = Tail(@)],
                            Frame(Head(Top.todo), valid))
         /\ UNCHANGED <<path, visited, chain, context, answer, asked>>
<1> DEFINE d == Head(Top.todo)
<1>1. /\ HasNext /\ (d \in Hands[Top.skill] \/ valid = (d \notin Needs))
      /\ stack' = Append([stack EXCEPT ![Len(stack)].todo = Tail(@)], Frame(d, valid))
      /\ UNCHANGED <<path, visited, chain, context, answer, asked>>
  BY DEF Descend
<1>2. Top.skill \in Skill
  <2>1. stack # << >> /\ Top.phase = "deps"
    BY <1>1 DEF HasNext, In
  <2>2. Top \in FrameType /\ FrameSound(Top, {})
    BY <2>1, StackIs DEF FramesSound
  <2> QED BY <2>1, <2>2 DEF FrameSound, FrameType, SkillId
<1>3. valid \/ d \in Refusable
  BY <1>1, <1>2 DEF Refusable
<1> QED
  BY <1>1, <1>3

\* A call begins to execute a dependency.
LEMMA StackGrows ==
  ASSUME SkillsType, FramesSound, NestSound, HasNext,
         NEW valid \in BOOLEAN, valid \/ Head(Top.todo) \in Refusable,
         stack' = Append([stack EXCEPT ![Len(stack)].todo = Tail(@)],
                         Frame(Head(Top.todo), valid))
  PROVE  /\ stack' \in Seq(FrameType) /\ Len(stack') = Len(stack) + 1
         /\ Top' = Frame(Head(Top.todo), valid)
         /\ \A i \in DOMAIN stack :
              stack'[i].skill = stack[i].skill /\ Settled(stack'[i]) = Settled(stack[i])
         /\ Head(Top.todo) \in Reached(Top.skill)
         /\ FramesSound' /\ NestSound'
<1> DEFINE n == Len(stack)
           d == Head(Top.todo)
           f == [Top EXCEPT !.todo = Tail(@)]
           g == Frame(d, valid)
           mid == [stack EXCEPT ![n] = f]
<1>a. stack # << >> /\ Top.phase = "deps" /\ Top.todo # << >> /\ d # Top.skill
  BY DEF HasNext, In
<1>1. /\ n \in Nat \ {0} /\ DOMAIN stack = 1..n /\ n \in DOMAIN stack /\ Top = stack[n]
      /\ Top \in FrameType /\ stack \in Seq(FrameType) /\ Child(n) = {}
  BY <1>a, StackIs DEF SkillsType
<1>2. /\ Tail(Top.todo) \in Seq(Skill) /\ d \in Skill
      /\ ToSet(Top.todo) = {d} \cup ToSet(Tail(Top.todo))
      /\ IsInjective(Top.todo) => IsInjective(Tail(Top.todo)) /\ d \notin ToSet(Tail(Top.todo))
  <2>1. Top.todo \in Seq(Skill)
    BY <1>1 DEF FrameType
  <2> QED BY <2>1, <1>a, TailIs
<1>3. FrameSound(Top, {})
  BY <1>1 DEF FramesSound
<1>4. /\ f \in FrameType /\ f.skill = Top.skill /\ f.valid = Top.valid /\ f.phase = "deps"
      /\ f.todo = Tail(Top.todo) /\ Settled(f) = Settled(Top) /\ f.attempt = Top.attempt
  BY <1>1, <1>2, <1>a DEF FrameType, Settled
<1>5. Shared(Top, {}) /\ Top.skill # Unknown /\ Top.attempt = 0
  BY <1>3, <1>a DEF FrameSound
<1>6. d \in Reached(Top.skill) /\ Shared(f, {d})
  BY <1>2, <1>4, <1>5, <1>a DEF Shared
<1>7. FrameSound(f, {d})
  BY <1>4, <1>5, <1>6, SkillsAssumption DEF FrameSound
<1>8. /\ g \in FrameType /\ g.skill = d /\ (g.valid \/ d \in Refusable) /\ FrameSound(g, {})
  <2>1. g \in FrameType
    BY <1>2, EmptySeq DEF Frame, FrameType, Phase, SkillId
  <2>2. d # Unknown /\ Attempts \in Nat
    BY <1>2, SkillsAssumption
  <2> QED BY <2>1, <2>2 DEF Frame, FrameSound, Settled
<1>9. /\ mid \in Seq(FrameType) /\ Len(mid) = n
      /\ \A i \in 1..n : mid[i] = IF i = n THEN f ELSE stack[i]
  BY <1>1, <1>4
<1>10. stack' = Append(mid, g)
  BY <1>1
<1> HIDE DEF mid, g
<1>11. /\ stack' \in Seq(FrameType) /\ Len(stack') = n + 1 /\ DOMAIN stack' = 1..(n + 1)
       /\ \A i \in 1..n : stack'[i] = IF i = n THEN f ELSE stack[i]
       /\ stack'[n + 1] = g
  <2>1. /\ Append(mid, g) \in Seq(FrameType) /\ Len(Append(mid, g)) = Len(mid) + 1
        /\ \A i \in 1..Len(mid) : Append(mid, g)[i] = mid[i]
        /\ Append(mid, g)[Len(mid) + 1] = g
    BY <1>8, <1>9, AppendIs
  <2>2. /\ stack' \in Seq(FrameType) /\ Len(stack') = n + 1
        /\ \A i \in 1..n : stack'[i] = mid[i]
        /\ stack'[n + 1] = g
    BY <2>1, <1>9, <1>10
  <2>3. DOMAIN stack' = 1..(n + 1)
    BY <2>2
  <2> QED BY <2>2, <2>3, <1>9
<1>b. n \in Nat \ {0}
  BY <1>1
<1> HIDE DEF f, n
<1>12. Top' = g
  BY <1>11 DEF Top
<1>13. \A i \in 1..n : stack'[i].skill = stack[i].skill /\ stack'[i].valid = stack[i].valid
                       /\ Settled(stack'[i]) = Settled(stack[i])
  BY <1>1, <1>4, <1>11
<1>14. ASSUME NEW i \in 1..(n + 1)
       PROVE  FrameSound(stack'[i], Child(i)')
  <2>1. CASE i = n + 1
    <3>1. Child(i)' = {}
      <4>1. ~(i < Len(stack'))
        BY <2>1, <1>b, <1>11
      <4> QED BY <4>1 DEF Child
    <3> QED BY <3>1, <2>1, <1>8, <1>11
  <2>2. CASE i = n
    <3>1. Child(i)' = {d}
      <4>1. i < Len(stack')
        BY <2>2, <1>b, <1>11
      <4> QED BY <4>1, <2>2, <1>8, <1>11 DEF Child
    <3>2. stack'[i] = f
      BY <2>2, <1>b, <1>11
    <3> QED BY <3>1, <3>2, <1>7
  <2>3. CASE i \notin {n, n + 1}
    <3>1. i \in 1..n /\ i + 1 \in 1..n /\ i < n /\ i < n + 1
      BY <2>3, <1>b
    <3>2. Child(i)' = Child(i)
      BY <3>1, <1>11, <1>13 DEF Child, n
    <3>3. FrameSound(stack[i], Child(i)) /\ stack'[i] = stack[i]
      BY <3>1, <2>3, <1>1, <1>11 DEF FramesSound
    <3> QED BY <3>2, <3>3
  <2> QED BY <2>1, <2>2, <2>3
<1>15. FramesSound'
  BY <1>11, <1>14 DEF FramesSound
<1>16. ASSUME NEW i \in 1..(n + 1), NEW j \in 1..(n + 1), i < j
       PROVE  /\ stack'[j].skill \in Skill
              /\ (stack'[j].valid \/ stack'[j].skill \in Refusable)
              /\ stack'[j].skill \in Reached(stack'[i].skill) \cup {stack'[i].skill}
  <2>1. i \in 1..n
    BY <1>b, <1>16
  <2>2. CASE j = n + 1
    <3>1. stack'[j] = g
      BY <2>2, <1>11
    <3>2. Top.skill \in Reached(stack[i].skill) \cup {stack[i].skill}
      <4>1. CASE i = n
        BY <4>1, <1>1
      <4>2. CASE i # n
        <5>1. i < n /\ n \in 1..n
          BY <4>2, <2>1, <1>b
        <5> QED BY <5>1, <1>1 DEF NestSound
      <4> QED BY <4>1, <4>2
    <3>3. stack[i].skill \in Skill
      <4>1. CASE i = n
        BY <4>1, <1>1, <1>5 DEF FrameType, SkillId
      <4>2. CASE i # n
        <5>1. i \in DOMAIN stack
          BY <2>1, <1>1
        <5>2. stack[i].phase = "deps" /\ FrameSound(stack[i], Child(i)) /\ stack[i] \in FrameType
          BY <5>1, <4>2, OthersWait, StackIs, <1>a DEF FramesSound
        <5> QED BY <5>2 DEF FrameSound, FrameType, SkillId
      <4> QED BY <4>1, <4>2
    <3>4. d \in Reached(stack[i].skill) \cup {stack[i].skill}
      BY <3>2, <3>3, <1>6, ReachedOn
    <3> QED BY <3>1, <3>4, <2>1, <1>2, <1>8, <1>13
  <2>3. CASE j # n + 1
    <3>1. j \in 1..n
      BY <2>3, <1>b
    <3> QED BY <3>1, <2>1, <1>1, <1>13, <1>16 DEF NestSound
  <2> QED BY <2>2, <2>3
<1>17. NestSound'
  <2>1. \A i, j \in DOMAIN stack' : i < j =>
          /\ stack'[j].skill \in Skill
          /\ (stack'[j].valid \/ stack'[j].skill \in Refusable)
          /\ stack'[j].skill \in Reached(stack'[i].skill) \cup {stack'[i].skill}
    BY <1>11, <1>16, ZenonT(30)
  <2> QED BY <2>1, NestNext
<1> QED
  BY <1>1, <1>6, <1>11, <1>12, <1>13, <1>15, <1>17 DEF g, n

\* A call returns to the one that depends on it.
LEMMA StackShrinks ==
  ASSUME SkillsType, FramesSound, NestSound, stack # << >>,
         NEW ok \in BOOLEAN, Return(ok), Front(stack) # << >>
  PROVE  /\ stack' \in Seq(FrameType) /\ stack' # << >> /\ Len(stack') = Len(stack) - 1
         /\ Len(stack) - 1 \in DOMAIN stack
         /\ Top.skill \in Skill /\ (Top.valid \/ Top.skill \in Refusable)
         /\ \A i \in DOMAIN stack : i # Len(stack) =>
              /\ stack'[i].skill = stack[i].skill
              /\ Settled(stack'[i]) = Settled(stack[i]) \cup
                   (IF i = Len(stack) - 1 THEN {Top.skill} ELSE {})
         /\ Top'.phase = "deps"
         /\ FramesSound' /\ NestSound' /\ UNCHANGED <<context, answer>>
<1> DEFINE n == Len(stack)
           s == Top.skill
           below == Front(stack)
           f == stack[n - 1]
           g == [f EXCEPT !.results = IF ok THEN @ \cup {s} ELSE @,
                          !.errors = IF ok THEN @ ELSE @ \cup {s}]
<1>1. /\ n \in Nat \ {0} /\ DOMAIN stack = 1..n /\ n \in DOMAIN stack /\ Top = stack[n]
      /\ Top \in FrameType /\ stack \in Seq(FrameType)
  BY StackIs DEF SkillsType
<1>2. /\ below \in Seq(FrameType) /\ Len(below) = n - 1
      /\ \A i \in 1..(n - 1) : below[i] = stack[i]
  BY <1>1, FrontIs
<1>b. n \in Nat /\ n > 1
  BY <1>1, <1>2
<1>3. n - 1 \in DOMAIN stack /\ n - 1 # n /\ n - 1 < n /\ (n - 1) + 1 = n
  <2>1. n - 1 \in 1..n /\ n - 1 # n /\ n - 1 < n /\ (n - 1) + 1 = n
    BY <1>b
  <2> QED BY <2>1, <1>1
<1>4. /\ f \in FrameType /\ f.phase = "deps" /\ Child(n - 1) = {s}
      /\ FrameSound(f, {s})
  BY <1>1, <1>3, StackIs, OthersWait DEF FramesSound
<1>5. s \in Skill /\ (Top.valid \/ s \in Refusable)
  BY <1>1, <1>3 DEF NestSound
<1>6. /\ g \in FrameType /\ g.skill = f.skill /\ g.valid = f.valid /\ g.phase = "deps"
      /\ g.todo = f.todo /\ g.attempt = f.attempt /\ Settled(g) = Settled(f) \cup {s}
  BY <1>4, <1>5 DEF FrameType, Settled
<1>7. FrameSound(g, {})
  <2>1. Shared(f, {s})
    BY <1>4 DEF FrameSound
  <2>2. Shared(g, {})
    BY <2>1, <1>6 DEF Shared
  <2> QED BY <2>2, <1>4, <1>6 DEF FrameSound
<1>8. /\ stack' = [below EXCEPT ![n - 1].results = IF ok THEN @ \cup {s} ELSE @,
                                ![n - 1].errors = IF ok THEN @ ELSE @ \cup {s}]
      /\ UNCHANGED <<context, answer>>
  BY <1>2 DEF Return
<1>9. /\ stack' \in Seq(FrameType) /\ Len(stack') = n - 1 /\ DOMAIN stack' = 1..(n - 1)
      /\ \A i \in 1..(n - 1) : stack'[i] = IF i = n - 1 THEN g ELSE stack[i]
  <2>1. n - 1 \in 1..(n - 1) /\ below[n - 1] = f
    BY <1>b, <1>2
  <2>2. stack' = [below EXCEPT ![n - 1] = g]
    BY <1>8, <1>2, <1>4, <2>1 DEF FrameType
  <2> HIDE DEF below, g, f
  <2> QED BY <1>2, <1>6, <2>1, <2>2
<1> HIDE DEF f, g, n, below, s
<1>10. /\ stack' # << >> /\ Top' = g
  BY <1>9, <1>b DEF Top
<1>11. \A i \in 1..(n - 1) : /\ stack'[i].skill = stack[i].skill /\ stack'[i].valid = stack[i].valid
                            /\ Settled(stack'[i]) = Settled(stack[i]) \cup (IF i = n - 1 THEN {s} ELSE {})
  BY <1>6, <1>9 DEF f
<1>12. ASSUME NEW i \in 1..(n - 1)
       PROVE  FrameSound(stack'[i], Child(i)')
  <2>1. CASE i = n - 1
    <3>1. ~(i < Len(stack'))
      BY <2>1, <1>b, <1>9
    <3>2. Child(i)' = {}
      BY <3>1 DEF Child
    <3> QED BY <3>2, <2>1, <1>7, <1>9
  <2>2. CASE i # n - 1
    <3>1. i + 1 \in 1..(n - 1) /\ i < n - 1 /\ i < n /\ i \in 1..n
      BY <2>2, <1>b
    <3>2. Child(i)' = Child(i)
      BY <3>1, <1>9, <1>11 DEF Child, n
    <3>3. FrameSound(stack[i], Child(i)) /\ stack'[i] = stack[i]
      BY <3>1, <2>2, <1>1, <1>9 DEF FramesSound
    <3> QED BY <3>2, <3>3
  <2> QED BY <2>1, <2>2
<1>13. FramesSound'
  BY <1>9, <1>12 DEF FramesSound
<1>14. 1..(n - 1) \subseteq 1..n
  BY <1>b
<1>15. NestSound'
  <2>1. \A i, j \in DOMAIN stack' : i < j =>
          /\ stack'[j].skill \in Skill
          /\ (stack'[j].valid \/ stack'[j].skill \in Refusable)
          /\ stack'[j].skill \in Reached(stack'[i].skill) \cup {stack'[i].skill}
    BY <1>1, <1>9, <1>11, <1>14 DEF NestSound
  <2> QED BY <2>1, NestNext
<1>16. \A i \in 1..n : i # n => i \in 1..(n - 1)
  BY <1>b
<1> QED
  BY <1>1, <1>3, <1>5, <1>6, <1>8, <1>9, <1>10, <1>11, <1>13, <1>15, <1>16 DEF n, s

-----------------------------------------------------------------------------
(* resolve(). *)

\* The calls of visit() while resolve() is under way.
LEMMA PathIs ==
  ASSUME SkillsType, NEW f \in FrameType, ListedSoFar(f, path, visited)
  PROVE  /\ Len(path) \in Nat \ {0} /\ DOMAIN path = 1..Len(path) /\ Len(path) \in DOMAIN path
         /\ path \in Seq([skill : Skill, left : Seq(SkillId)])
         /\ \A k \in DOMAIN path : path[k].skill \in Skill /\ path[k].left \in Seq(SkillId)
         /\ Last(path) = path[Len(path)]
<1>1. path # << >> /\ path \in Seq([skill : Skill, left : Seq(SkillId)])
  BY DEF SkillsType, ListedSoFar
<1>2. Len(path) \in Nat \ {0} /\ DOMAIN path = 1..Len(path)
  BY <1>1, EmptySeq
<1>3. \A k \in DOMAIN path : path[k] \in [skill : Skill, left : Seq(SkillId)]
  BY <1>1, <1>2, ElementOfSeq
<1> QED
  BY <1>1, <1>2, <1>3 DEF Last

\* The first visit is of the skill itself.
LEMMA ListingBegins ==
  ASSUME NEW f \in FrameType, f.skill \in Skill, f.todo = << >>
  PROVE  ListedSoFar(f, <<Visit(f.skill)>>, {f.skill})
<1> DEFINE p == <<Visit(f.skill)>>
<1>1. DOMAIN p = {1} /\ p[1].skill = f.skill /\ p[1].left = Deps[f.skill] /\ p # << >>
  BY DEF Visit
<1> HIDE DEF p
<1>2. ToSet(f.todo) = {} /\ IsInjective(f.todo)
  BY DEF ToSet, IsInjective
<1>3. Open(p) = {f.skill}
  BY <1>1 DEF Open
<1>4. f.skill # Unknown
  BY SkillsAssumption
<1>5. ListedSoFar(f, p, {f.skill})
  BY <1>1, <1>2, <1>3, <1>4 DEF ListedSoFar
<1> QED
  BY <1>5 DEF p

\* A visit goes to its next dependency d, with rest left, and the path becomes p.
GoesOn(d, rest, p) ==
  /\ Last(path).left # << >> /\ d = Head(Last(path).left)
  /\ rest = [path EXCEPT ![Len(path)].left = Tail(@)]
  /\ p = IF d \in visited \cup {Unknown} THEN rest ELSE Append(rest, Visit(d))

\* A step of resolve() that keeps the listing sound keeps the whole.
LEMMA ListingGoesOn ==
  ASSUME SkillsType, NEW f \in FrameType, f.skill \in Skill, ListedSoFar(f, path, visited),
         NEW d, NEW rest, NEW p, GoesOn(d, rest, p)
  PROVE  /\ p \in Seq([skill : Skill, left : Seq(SkillId)]) /\ visited \cup {d} \in SUBSET SkillId
         /\ ListedSoFar(f, p, visited \cup {d})
<1> DEFINE m == Len(path)
           E == [skill : Skill, left : Seq(SkillId)]
           last == path[m]
<1>1. /\ m \in Nat \ {0} /\ DOMAIN path = 1..m /\ m \in DOMAIN path /\ path \in Seq(E)
      /\ \A k \in DOMAIN path : path[k].skill \in Skill /\ path[k].left \in Seq(SkillId)
      /\ Last(path) = last
  BY PathIs
<1>2. last \in E /\ last.left # << >> /\ d = Head(last.left)
  <2>1. last \in E
    BY <1>1, ElementOfSeq
  <2> QED BY <2>1, <1>1 DEF GoesOn
<1>3. /\ Tail(last.left) \in Seq(SkillId) /\ d \in SkillId
      /\ ToSet(last.left) = {d} \cup ToSet(Tail(last.left))
  BY <1>2, TailIs
<1>4. /\ rest \in Seq(E) /\ Len(rest) = m
      /\ \A k \in 1..m : rest[k] = IF k = m THEN [last EXCEPT !.left = Tail(@)] ELSE path[k]
  <2> DEFINE e == [last EXCEPT !.left = Tail(@)]
  <2>1. e \in E
    BY <1>2, <1>3
  <2>2. rest = [path EXCEPT ![m] = e]
    BY <1>1, <1>2 DEF GoesOn
  <2> HIDE DEF e, E
  <2>3. rest \in Seq(E) /\ Len(rest) = m /\ \A k \in 1..m : rest[k] = IF k = m THEN e ELSE path[k]
    <3>1. m \in 1..Len(path) /\ path \in Seq(E)
      BY <1>1
    <3> HIDE DEF m
    <3>2. /\ [path EXCEPT ![m] = e] \in Seq(E) /\ Len([path EXCEPT ![m] = e]) = Len(path)
          /\ \A k \in 1..Len(path) : [path EXCEPT ![m] = e][k] = IF k = m THEN e ELSE path[k]
      BY <3>1, <2>1, ExceptSeq
    <3> QED BY <3>2, <2>2 DEF m
  <2> QED BY <2>3 DEF e
<1>5. /\ DOMAIN rest = 1..m
      /\ \A k \in 1..m : /\ rest[k].skill = path[k].skill
                         /\ rest[k].left = IF k = m THEN Tail(last.left) ELSE path[k].left
  <2>1. DOMAIN rest = 1..m
    BY <1>4
  <2>2. [last EXCEPT !.left = Tail(@)].skill = last.skill /\ [last EXCEPT !.left = Tail(@)].left = Tail(last.left)
    BY <1>2
  <2> QED BY <2>1, <2>2, <1>4
<1>6. visited \in SUBSET SkillId
  BY DEF SkillsType
<1>7. Open(rest) = Open(path)
  BY <1>1, <1>5 DEF Open
<1>8. /\ path[1].skill = f.skill /\ f.skill \in visited
      /\ visited \subseteq Reached(f.skill) \cup {f.skill, Unknown}
      /\ \A k \in 1..m : /\ ToSet(path[k].left) \subseteq ToSet(Deps[path[k].skill])
                         /\ ToSet(Deps[path[k].skill]) \subseteq visited \cup ToSet(path[k].left)
      /\ \A j, k \in 1..m : path[j].skill = path[k].skill => j = k
      /\ Open(path) \subseteq visited /\ ToSet(f.todo) = visited \ (Open(path) \cup {Unknown})
      /\ IsInjective(f.todo) /\ \A t \in ToSet(f.todo) : ToSet(Deps[t]) \subseteq visited
  BY <1>1 DEF ListedSoFar
<1>9. d \in Reached(f.skill) \cup {f.skill, Unknown}
  <2>1. last.skill \in Open(path) /\ last.skill \in Skill
    BY <1>1 DEF Open
  <2>2. last.skill \in Reached(f.skill) \cup {f.skill}
    BY <2>1, <1>8, SkillsAssumption
  <2>3. d \in ToSet(Deps[last.skill])
    BY <1>1, <1>3, <1>8
  <2> QED BY <2>2, <2>3, ReachedNext
<1>10. ASSUME NEW k \in 1..m
       PROVE  /\ ToSet(rest[k].left) \subseteq ToSet(Deps[rest[k].skill])
              /\ ToSet(Deps[rest[k].skill]) \subseteq (visited \cup {d}) \cup ToSet(rest[k].left)
  <2>1. CASE k = m
    BY <2>1, <1>1, <1>3, <1>5, <1>8
  <2>2. CASE k # m
    BY <2>2, <1>5, <1>8
  <2> QED BY <2>1, <2>2
<1> HIDE DEF m, E, last
<1>11. CASE d \in visited \cup {Unknown}
  <2>1. p = rest
    BY <1>11 DEF GoesOn
  <2>2. rest # << >> /\ rest[1].skill = f.skill
    BY <1>1, <1>4, <1>5, <1>8
  <2>3. ToSet(f.todo) = (visited \cup {d}) \ (Open(rest) \cup {Unknown}) /\ Open(rest) \subseteq visited \cup {d}
    BY <1>7, <1>8, <1>11
  <2>4. ListedSoFar(f, rest, visited \cup {d})
    BY <2>2, <2>3, <1>5, <1>8, <1>9, <1>10 DEF ListedSoFar
  <2> QED BY <2>1, <2>4, <1>3, <1>4, <1>6 DEF E
<1>12. CASE d \notin visited \cup {Unknown}
  <2>1. d \in Skill /\ Visit(d).skill = d /\ Visit(d).left = Deps[d]
    BY <1>3, <1>12 DEF Visit, SkillId
  <2>2. Visit(d) \in E
    <3>1. Deps[d] \in Seq(SkillId)
      BY <2>1, SkillsAssumption DEF SkillId
    <3> QED BY <3>1, <2>1 DEF Visit, E
  <2>3. /\ p \in Seq(E) /\ Len(p) = m + 1 /\ p # << >>
        /\ \A k \in 1..m : p[k] = rest[k]
        /\ p[m + 1] = Visit(d)
    <3>1. /\ Append(rest, Visit(d)) \in Seq(E) /\ Len(Append(rest, Visit(d))) = Len(rest) + 1
          /\ Append(rest, Visit(d)) # << >>
          /\ \A k \in 1..Len(rest) : Append(rest, Visit(d))[k] = rest[k]
          /\ Append(rest, Visit(d))[Len(rest) + 1] = Visit(d)
      BY <2>2, <1>4, AppendIs
    <3> QED BY <3>1, <1>4, <1>12 DEF GoesOn
  <2>4. DOMAIN p = 1..(m + 1)
    BY <2>3
  <2>5. /\ 1 \in 1..m /\ m + 1 \in 1..(m + 1) /\ m + 1 \notin 1..m
        /\ 1..(m + 1) = 1..m \cup {m + 1}
    BY <1>1
  <2>6. Open(p) = Open(path) \cup {d}
    <3>1. Open(p) = {p[k].skill : k \in 1..m} \cup {d}
      BY <2>1, <2>3, <2>4, <2>5 DEF Open
    <3>2. {p[k].skill : k \in 1..m} = Open(rest)
      BY <2>3, <1>5 DEF Open
    <3> QED BY <3>1, <3>2, <1>7
  <2>7. ASSUME NEW k \in 1..(m + 1)
        PROVE  /\ ToSet(p[k].left) \subseteq ToSet(Deps[p[k].skill])
               /\ ToSet(Deps[p[k].skill]) \subseteq (visited \cup {d}) \cup ToSet(p[k].left)
    BY <2>1, <2>3, <2>5, <1>10
  <2>8. ASSUME NEW j \in 1..(m + 1), NEW k \in 1..(m + 1), p[j].skill = p[k].skill
        PROVE  j = k
    <3>1. \A i \in 1..m : p[i].skill = path[i].skill /\ p[i].skill # d
      <4>1. \A i \in 1..m : p[i].skill = path[i].skill /\ path[i].skill \in Open(path)
        BY <2>3, <1>1, <1>5 DEF Open
      <4> QED BY <4>1, <1>8, <1>12
    <3> QED BY <3>1, <2>1, <2>3, <2>5, <2>8, <1>8
  <2>9. p[1].skill = f.skill
    BY <2>3, <2>5, <1>5, <1>8
  <2>10. ToSet(f.todo) = (visited \cup {d}) \ (Open(p) \cup {Unknown}) /\ Open(p) \subseteq visited \cup {d}
    BY <2>6, <1>8, <1>12
  <2>11. ListedSoFar(f, p, visited \cup {d})
    BY <2>3, <2>4, <2>7, <2>8, <2>9, <2>10, <1>8, <1>9 DEF ListedSoFar
  <2> QED BY <2>3, <2>11, <1>3, <1>6 DEF E
<1> QED
  BY <1>11, <1>12

\* A visit ends: its skill is listed, and at the end of the outermost all that it needs.
LEMMA ListingReturns ==
  ASSUME SkillsType, NEW f \in FrameType, f.skill \in Skill, ListedSoFar(f, path, visited),
         Last(path).left = << >>,
         NEW g \in FrameType, g.skill = f.skill, g.todo = Append(f.todo, Last(path).skill)
  PROVE  /\ Front(path) \in Seq([skill : Skill, left : Seq(SkillId)])
         /\ Len(path) # 1 => ListedSoFar(g, Front(path), visited)
         /\ Len(path) = 1 => /\ Front(path) = << >>
                             /\ ToSet(g.todo) \ {g.skill} = Reached(g.skill)
                             /\ IsInjective(g.todo)
<1> DEFINE m == Len(path)
           E == [skill : Skill, left : Seq(SkillId)]
           s == path[m].skill
           p == Front(path)
<1>1. /\ m \in Nat \ {0} /\ DOMAIN path = 1..m /\ m \in DOMAIN path /\ path \in Seq(E)
      /\ \A k \in DOMAIN path : path[k].skill \in Skill /\ path[k].left \in Seq(SkillId)
      /\ Last(path) = path[m] /\ path # << >>
  BY PathIs DEF ListedSoFar
<1>2. /\ p \in Seq(E) /\ Len(p) = m - 1 /\ \A k \in 1..(m - 1) : p[k] = path[k]
  BY <1>1, FrontIs
<1>3. s \in Skill /\ s # Unknown /\ ToSet(path[m].left) = {}
  <2>1. path[m].left = << >>
    BY <1>1
  <2>2. ToSet(path[m].left) = {}
    BY <2>1 DEF ToSet
  <2> QED BY <2>2, <1>1, SkillsAssumption
<1>4. /\ path[1].skill = f.skill /\ f.skill \in visited
      /\ visited \subseteq Reached(f.skill) \cup {f.skill, Unknown}
      /\ \A k \in 1..m : /\ ToSet(path[k].left) \subseteq ToSet(Deps[path[k].skill])
                         /\ ToSet(Deps[path[k].skill]) \subseteq visited \cup ToSet(path[k].left)
      /\ \A j, k \in 1..m : path[j].skill = path[k].skill => j = k
      /\ Open(path) \subseteq visited /\ ToSet(f.todo) = visited \ (Open(path) \cup {Unknown})
      /\ IsInjective(f.todo) /\ \A t \in ToSet(f.todo) : ToSet(Deps[t]) \subseteq visited
  BY <1>1 DEF ListedSoFar
<1>5. s \in Open(path) /\ s \in visited /\ s \notin ToSet(f.todo)
  <2>1. s \in Open(path)
    BY <1>1 DEF Open
  <2> QED BY <2>1, <1>4
<1>6. /\ ToSet(g.todo) = ToSet(f.todo) \cup {s} /\ IsInjective(g.todo)
  <2>1. f.todo \in Seq(Skill) /\ g.todo = Append(f.todo, s)
    BY <1>1 DEF FrameType
  <2> QED BY <2>1, <1>3, <1>4, <1>5, AppendIs
<1>7. ToSet(Deps[s]) \subseteq visited
  BY <1>1, <1>3, <1>4
<1>8. \A t \in ToSet(g.todo) : ToSet(Deps[t]) \subseteq visited
  BY <1>4, <1>6, <1>7
<1>b. m \in Nat \ {0} /\ m \in 1..m /\ 1..(m - 1) = 1..m \ {m}
  BY <1>1
<1>9. DOMAIN p = 1..(m - 1)
  BY <1>2, <1>b
<1> HIDE DEF m, E, p, s
<1>10. Open(p) = Open(path) \ {s}
  <2>1. Open(p) = {path[k].skill : k \in 1..(m - 1)}
    BY <1>2, <1>9 DEF Open
  <2>2. Open(path) = {path[k].skill : k \in 1..m}
    BY <1>1 DEF Open
  <2>3. \A k \in 1..(m - 1) : path[k].skill # s
    BY <1>4, <1>b DEF s
  <2> QED BY <2>1, <2>2, <2>3, <1>b DEF s
<1>11. ToSet(g.todo) = visited \ (Open(p) \cup {Unknown})
  BY <1>3, <1>4, <1>5, <1>6, <1>10
<1>12. CASE m # 1
  <2>1. 1 \in 1..(m - 1) /\ m - 1 # 0
    BY <1>12, <1>b
  <2>2. p # << >> /\ p[1].skill = f.skill
    BY <2>1, <1>2, <1>4
  <2>3. \A k \in 1..(m - 1) : p[k] = path[k] /\ k \in 1..m
    BY <1>2, <1>b
  <2>4. \A k \in DOMAIN p :
           /\ ToSet(p[k].left) \subseteq ToSet(Deps[p[k].skill])
           /\ ToSet(Deps[p[k].skill]) \subseteq visited \cup ToSet(p[k].left)
    BY <2>3, <1>4, <1>9
  <2>5. \A j, k \in DOMAIN p : p[j].skill = p[k].skill => j = k
    BY <2>3, <1>4, <1>9
  <2>6. ListedSoFar(g, p, visited)
    BY <2>2, <2>4, <2>5, <1>4, <1>6, <1>8, <1>10, <1>11 DEF ListedSoFar
  <2> QED BY <2>6, <1>2, <1>12 DEF m, E, p
<1>13. CASE m = 1
  <2>1. p = << >> /\ s = f.skill
    <3>1. Len(p) = 0
      BY <1>2, <1>13
    <3>2. p = << >>
      BY <3>1, <1>2, EmptySeq
    <3> QED BY <3>2, <1>4, <1>13 DEF s
  <2>2. Open(p) = {}
    BY <2>1 DEF Open
  <2>3. ToSet(g.todo) = visited \ {Unknown}
    BY <2>2, <1>11
  <2>4. Closed(visited)
    BY <2>3, <1>8 DEF Closed
  <2>5. visited \in SUBSET SkillId
    BY DEF SkillsType
  <2>6. Reached(f.skill) \subseteq visited
    BY <2>4, <2>5, <1>4, ReachedWithin
  <2>7. Unknown \notin Reached(f.skill) /\ f.skill \notin Reached(f.skill)
    BY ReachedIs, SkillsAssumption
  <2>8. ToSet(g.todo) \ {g.skill} = Reached(g.skill)
    BY <2>3, <2>6, <2>7, <1>4
  <2> QED BY <2>1, <2>8, <1>2, <1>6, <1>13 DEF m, E, p
<1> QED
  BY <1>12, <1>13

-----------------------------------------------------------------------------
(* The steps of a request. *)

\* Before the first request all is empty.
LEMMA SkillsStart == KInit => SkillsInv
<1> SUFFICES ASSUME KInit PROVE SkillsInv
  OBVIOUS
<1>1. NothingAsked \in [SUBSET Skill -> Nat]
  BY DEF NothingAsked
<1>2. stack = << >> /\ DOMAIN stack = {} /\ ~In("resolve") /\ path = << >> /\ visited = {}
  BY DEF KInit, In
<1>3. SkillsType
  BY <1>1, <1>2, EmptySeq DEF SkillsType, KInit
<1>4. RestSound /\ FramesSound /\ NestSound
  BY <1>2 DEF RestSound, FramesSound, NestSound, KInit
<1> QED
  BY <1>2, <1>3, <1>4 DEF SkillsInv

\* A call begins for the request, or there is none.
LEMMA NoneNested ==
  ASSUME \/ stack' = << >>
         \/ \E s \in SkillId, valid \in BOOLEAN : stack' = <<Frame(s, valid)>>
  PROVE  stack' \in Seq(FrameType) /\ FramesSound' /\ NestSound' /\ ~In("resolve")'
<1>1. CASE stack' = << >>
  <2>1. DOMAIN stack' = {}
    BY <1>1
  <2> QED BY <1>1, <2>1, EmptySeq DEF FramesSound, NestSound, In
<1>2. CASE \E s \in SkillId, valid \in BOOLEAN : stack' = <<Frame(s, valid)>>
  <2>1. PICK s \in SkillId, valid \in BOOLEAN : stack' = <<Frame(s, valid)>>
    BY <1>2
  <2>2. PICK f : f = Frame(s, valid)
    OBVIOUS
  <2>3. /\ f \in FrameType /\ f.phase = "check" /\ Settled(f) = {} /\ f.todo = << >>
        /\ f.attempt = 0
    <3>1. << >> \in Seq(Skill)
      BY EmptySeq
    <3> QED BY <3>1, <2>2 DEF Frame, FrameType, Phase, Settled
  <2>4. stack' = <<f>> /\ Len(stack') = 1 /\ DOMAIN stack' = {1} /\ stack'[1] = f
    BY <2>1, <2>2
  <2>5. stack' \in Seq(FrameType)
    BY <2>3, <2>4
  <2>6. Child(1)' = {}
    BY <2>4 DEF Child
  <2>7. FrameSound(f, {})
    BY <2>3, SkillsAssumption DEF FrameSound
  <2>8. FramesSound'
    BY <2>4, <2>6, <2>7 DEF FramesSound
  <2>9. NestSound'
    BY <2>4 DEF NestSound
  <2>10. ~In("resolve")'
    BY <2>3, <2>4 DEF In, Top
  <2> QED BY <2>5, <2>8, <2>9, <2>10
<1> QED
  BY <1>1, <1>2

\* What the steps between the calls do.
Requested ==
  /\ \/ stack' = << >>
     \/ \E s \in SkillId, valid \in BOOLEAN : stack' = <<Frame(s, valid)>>
  /\ chain' \in Seq(SkillId \cup {NoId})
  /\ answer' \in {"none", "single", "chain", "done", "error", "raised"}
  /\ asked' \in [SUBSET Skill -> Nat]
  /\ RestSound'

\* A request begins or ends, and the steps of a chain between two skills.
LEMMA RequestSteps ==
  ASSUME SkillsInv,
         \/ \E s \in SkillId, valid \in BOOLEAN : Execute(s, valid)
         \/ \E steps \in SeqOf(SkillId \cup {NoId}, MaxChain) : ExecuteChain(steps)
         \/ \E valid \in BOOLEAN : NextStep(valid)
         \/ SkipStep \/ EndChain \/ Reset
  PROVE  SkillsInv'
<1>1. /\ SkillsType /\ RestSound
      /\ stack = << >> => ~In("resolve")
      /\ ~In("resolve") => path = << >> /\ visited = {}
  BY DEF SkillsInv, In
<1>2. stack = << >> /\ UNCHANGED <<path, visited>>
  BY <1>1 DEF RestSound, Execute, ExecuteChain, NextStep, SkipStep, EndChain, Reset
<1>3. Requested
  <2>0. /\ chain \in Seq(SkillId \cup {NoId}) /\ asked \in [SUBSET Skill -> Nat]
        /\ answer \in {"none", "single", "chain", "done", "error", "raised"}
    BY <1>1 DEF SkillsType
  <2>1. ASSUME NEW s \in SkillId, NEW valid \in BOOLEAN, Execute(s, valid)
        PROVE  Requested
    BY <2>0, <2>1 DEF Execute, RestSound, Requested
  <2>2. ASSUME NEW steps \in SeqOf(SkillId \cup {NoId}, MaxChain), ExecuteChain(steps)
        PROVE  Requested
    <3>1. steps \in Seq(SkillId \cup {NoId})
      BY SkillsAssumption DEF SeqOf
    <3> QED BY <3>1, <2>0, <2>2, <1>2 DEF ExecuteChain, RestSound, Requested
  <2>3. ASSUME NEW valid \in BOOLEAN, NextStep(valid)
        PROVE  Requested
    <3>1. chain # << >> /\ Head(chain) # NoId /\ chain' = Tail(chain) /\ UNCHANGED <<answer, asked>> /\ answer = "chain"
      BY <2>3 DEF NextStep
    <3>2. Head(chain) \in SkillId /\ Tail(chain) \in Seq(SkillId \cup {NoId})
      <4>1. Head(chain) \in SkillId \cup {NoId} /\ Tail(chain) \in Seq(SkillId \cup {NoId})
        BY <3>1, <2>0, HeadTailProperties
      <4> QED BY <4>1, <3>1
    <3>3. \E s \in SkillId, v \in BOOLEAN : stack' = <<Frame(s, v)>>
      <4>1. PICK v : /\ v = (valid /\ (Head(chain) = Unknown
                                       \/ \A c \in context : c.ok /\ c.skill \in Declares[Head(chain)]))
                     /\ stack' = <<Frame(Head(chain), v)>>
        BY <2>3 DEF NextStep
      <4>2. v \in BOOLEAN
        BY <4>1
      <4> QED BY <4>1, <4>2, <3>2
    <3> QED BY <3>1, <3>2, <3>3, <2>0 DEF RestSound, Requested
  <2>4. CASE SkipStep
    <3>1. Tail(chain) \in Seq(SkillId \cup {NoId})
      BY <2>0, <2>4, HeadTailProperties DEF SkipStep
    <3> QED BY <3>1, <2>0, <2>4, <1>2 DEF SkipStep, RestSound, Requested
  <2>5. CASE EndChain
    BY <2>0, <2>5, <1>2 DEF EndChain, RestSound, Requested
  <2>6. CASE Reset
    <3>1. NothingAsked \in [SUBSET Skill -> Nat] /\ NothingAsked' = NothingAsked
      BY DEF NothingAsked
    <3> QED BY <3>1, <2>0, <2>6, <1>2 DEF Reset, RestSound, Requested
  <2> QED BY <2>1, <2>2, <2>3, <2>4, <2>5, <2>6
<1>4. stack' \in Seq(FrameType) /\ FramesSound' /\ NestSound' /\ ~In("resolve")'
  BY <1>3, NoneNested DEF Requested
<1>5. SkillsType'
  BY <1>1, <1>2, <1>3, <1>4 DEF SkillsType, Requested
<1> QED
  BY <1>1, <1>2, <1>3, <1>4, <1>5 DEF SkillsInv, Requested

\* An exception that goes to the client leaves nothing behind.
LEMMA RaiseStep ==
  ASSUME SkillsInv, RaiseAll, ~In("resolve")
  PROVE  SkillsInv'
<1>1. stack' \in Seq(FrameType) /\ FramesSound' /\ NestSound' /\ ~In("resolve")'
  BY NoneNested DEF RaiseAll
<1>2. SkillsType'
  BY <1>1, EmptySeq DEF SkillsInv, SkillsType, RaiseAll
<1>3. RestSound'
  BY DEF RestSound, RaiseAll
<1> QED
  BY <1>1, <1>2, <1>3 DEF SkillsInv, RaiseAll

\* The innermost call goes on, and resolve() is not running.
LEMMA CallGoesOn ==
  ASSUME SkillsInv, stack # << >>, ~In("resolve"), NEW f \in FrameType, FrameSound(f, {}),
         f.skill = Top.skill, f.valid = Top.valid, f.phase # "resolve",
         stack' = [stack EXCEPT ![Len(stack)] = f],
         UNCHANGED <<path, visited, chain, answer>>, asked' \in [SUBSET Skill -> Nat]
  PROVE  SkillsInv'
<1>1. /\ SkillsType /\ RestSound /\ FramesSound /\ NestSound
      /\ path = << >> /\ visited = {}
  BY DEF SkillsInv
<1>2. stack' \in Seq(FrameType) /\ stack' # << >> /\ Top' = f /\ FramesSound' /\ NestSound'
  BY <1>1, TopMoves
<1>3. ~In("resolve")'
  BY <1>2 DEF In
<1>4. SkillsType'
  BY <1>1, <1>2 DEF SkillsType
<1>5. RestSound'
  BY <1>1 DEF RestSound
<1> QED
  BY <1>1, <1>2, <1>3, <1>4, <1>5 DEF SkillsInv

\* The innermost call: its frame is sound, and it executes no dependency.
LEMMA TopIs ==
  ASSUME SkillsInv, stack # << >>
  PROVE  /\ SkillsType /\ Top \in FrameType /\ FrameSound(Top, {}) /\ Len(stack) \in DOMAIN stack
         /\ Top = stack[Len(stack)] /\ stack \in Seq(FrameType) /\ Len(stack) \in Nat \ {0}
         /\ answer \in {"single", "chain"}
<1>1. SkillsType /\ RestSound /\ FramesSound
  BY DEF SkillsInv
<1>2. /\ Top \in FrameType /\ Len(stack) \in DOMAIN stack /\ Len(stack) \in Nat \ {0}
      /\ Top = stack[Len(stack)] /\ Child(Len(stack)) = {}
  BY <1>1, StackIs
<1>3. FrameSound(Top, {})
  BY <1>1, <1>2 DEF FramesSound
<1> QED
  BY <1>1, <1>2, <1>3 DEF RestSound, SkillsType

\* The skill itself, at the end of its own list, is left out.
LEMMA SelfStep ==
  ASSUME SkillsInv, SkipSelf
  PROVE  SkillsInv'
<1> DEFINE f == [Top EXCEPT !.todo = Tail(@)]
<1>1. stack # << >> /\ Top.phase = "deps" /\ Top.todo # << >> /\ Head(Top.todo) = Top.skill
  BY DEF SkipSelf, In
<1>2. /\ SkillsType /\ Top \in FrameType /\ FrameSound(Top, {}) /\ Len(stack) \in DOMAIN stack
      /\ Top = stack[Len(stack)] /\ stack \in Seq(FrameType)
  BY <1>1, TopIs
<1>3. /\ Tail(Top.todo) \in Seq(Skill) /\ Top.skill \in Skill
      /\ ToSet(Top.todo) = {Top.skill} \cup ToSet(Tail(Top.todo))
      /\ IsInjective(Top.todo) => IsInjective(Tail(Top.todo)) /\ Top.skill \notin ToSet(Tail(Top.todo))
  <2>1. Top.todo \in Seq(Skill)
    BY <1>2 DEF FrameType
  <2> QED BY <2>1, <1>1, TailIs
<1>4. /\ f \in FrameType /\ f.skill = Top.skill /\ f.valid = Top.valid /\ f.phase = "deps"
      /\ f.todo = Tail(Top.todo) /\ Settled(f) = Settled(Top) /\ f.attempt = Top.attempt
  BY <1>1, <1>2, <1>3 DEF FrameType, Settled
<1>5. Shared(Top, {}) /\ Top.skill # Unknown /\ Top.attempt = 0
  BY <1>1, <1>2 DEF FrameSound
<1>6. Shared(f, {})
  BY <1>3, <1>4, <1>5 DEF Shared
<1>7. FrameSound(f, {})
  BY <1>4, <1>5, <1>6, SkillsAssumption DEF FrameSound
<1>8. stack' = [stack EXCEPT ![Len(stack)] = f] /\ UNCHANGED <<path, visited, chain, answer, asked>>
  BY <1>2 DEF SkipSelf
<1>9. asked' \in [SUBSET Skill -> Nat] /\ ~In("resolve")
  BY <1>1, <1>2, <1>8 DEF SkillsType, In
<1> HIDE DEF f
<1> QED
  BY <1>1, <1>4, <1>7, <1>8, <1>9, CallGoesOn

\* Between its phases a call keeps all else.
LEMMA GoTo ==
  ASSUME SkillsInv, stack # << >>, NEW ph \in Phase
  PROVE  LET f == [Top EXCEPT !.phase = ph] IN
         /\ f \in FrameType /\ f.skill = Top.skill /\ f.valid = Top.valid /\ f.phase = ph
         /\ f.todo = Top.todo /\ Settled(f) = Settled(Top) /\ f.attempt = Top.attempt
         /\ Goto(ph) = [stack EXCEPT ![Len(stack)] = f]
<1>1. /\ Top \in FrameType /\ Len(stack) \in DOMAIN stack /\ Top = stack[Len(stack)]
  BY TopIs
<1> QED
  BY <1>1 DEF FrameType, Settled, Goto

\* resolve() begins with the skill itself.
LEMMA AcceptStep ==
  ASSUME SkillsInv, Accept
  PROVE  SkillsInv'
<1> DEFINE f == [Top EXCEPT !.phase = "resolve"]
<1>1. stack # << >> /\ Top.phase = "check" /\ Top.skill # Unknown
  BY DEF Accept, In
<1>2. SkillsType /\ Top \in FrameType /\ FrameSound(Top, {}) /\ RestSound /\ FramesSound /\ NestSound
  BY <1>1, TopIs DEF SkillsInv
<1>3. /\ f \in FrameType /\ f.skill = Top.skill /\ f.valid = Top.valid /\ f.phase = "resolve"
      /\ f.todo = Top.todo /\ Settled(f) = Settled(Top) /\ f.attempt = Top.attempt
      /\ stack' = [stack EXCEPT ![Len(stack)] = f]
  <2>1. "resolve" \in Phase
    BY DEF Phase
  <2> QED BY <2>1, <1>1, GoTo DEF Accept
<1> HIDE DEF f
<1>4. f.todo = << >> /\ f.skill \in Skill /\ Settled(f) = {} /\ f.attempt = 0
  BY <1>1, <1>2, <1>3 DEF FrameSound, FrameType, SkillId
<1>5. FrameSound(f, {})
  BY <1>1, <1>3, <1>4, SkillsAssumption DEF FrameSound
<1>6. stack' \in Seq(FrameType) /\ stack' # << >> /\ Top' = f /\ FramesSound' /\ NestSound'
  BY <1>1, <1>2, <1>3, <1>5, TopMoves
<1>7. ListedSoFar(f, <<Visit(f.skill)>>, {f.skill})
  BY <1>3, <1>4, ListingBegins
<1>8. path' = <<Visit(f.skill)>> /\ visited' = {f.skill} /\ UNCHANGED <<chain, answer, asked>>
  BY <1>3 DEF Accept
<1>9. path' \in Seq([skill : Skill, left : Seq(SkillId)]) /\ visited' \in SUBSET SkillId
  <2>1. Deps[f.skill] \in Seq(SkillId)
    BY <1>4, SkillsAssumption DEF SkillId
  <2>2. Visit(f.skill) \in [skill : Skill, left : Seq(SkillId)]
    BY <2>1, <1>4 DEF Visit
  <2>3. PICK e : e = Visit(f.skill)
    OBVIOUS
  <2>4. <<e>> \in Seq([skill : Skill, left : Seq(SkillId)])
    BY <2>2, <2>3
  <2> QED BY <2>3, <2>4, <1>4, <1>8 DEF SkillId
<1>10. SkillsType'
  BY <1>2, <1>6, <1>8, <1>9 DEF SkillsType
<1>11. RestSound'
  BY <1>1, <1>2, <1>8 DEF RestSound
<1>12. In("resolve")' /\ ListedSoFar(Top', path', visited')
  BY <1>3, <1>6, <1>7, <1>8 DEF In
<1> QED
  BY <1>6, <1>10, <1>11, <1>12 DEF SkillsInv

\* Where resolve() runs.
LEMMA Resolving ==
  ASSUME SkillsInv, In("resolve")
  PROVE  /\ stack # << >> /\ SkillsType /\ Top \in FrameType /\ FrameSound(Top, {})
         /\ Top.skill \in Skill /\ Top.phase = "resolve"
         /\ ListedSoFar(Top, path, visited)
<1>1. stack # << >> /\ Top.phase = "resolve"
  BY DEF In
<1>2. SkillsType /\ Top \in FrameType /\ FrameSound(Top, {})
  BY <1>1, TopIs
<1>3. Top.skill \in Skill
  BY <1>1, <1>2 DEF FrameSound, FrameType, SkillId
<1> QED
  BY <1>1, <1>2, <1>3 DEF SkillsInv

\* visit() comes to a dependency, new, seen or missing.
LEMMA VisitStep ==
  ASSUME SkillsInv, VisitNext
  PROVE  SkillsInv'
<1>1. /\ SkillsType /\ Top \in FrameType /\ Top.skill \in Skill /\ ListedSoFar(Top, path, visited)
      /\ In("resolve")
  BY Resolving DEF VisitNext
<1>2. PICK d, rest, p : GoesOn(d, rest, p) /\ path' = p /\ visited' = visited \cup {d}
  BY DEF VisitNext, GoesOn
<1>3. /\ path' \in Seq([skill : Skill, left : Seq(SkillId)]) /\ visited' \in SUBSET SkillId
      /\ ListedSoFar(Top, path', visited')
  BY <1>1, <1>2, ListingGoesOn
<1>4. UNCHANGED <<stack, chain, answer, asked>>
  BY DEF VisitNext
<1>5. /\ Top' = Top /\ In("resolve")' /\ UNCHANGED <<FramesSound, NestSound, RestSound>>
  BY <1>1, <1>4 DEF Top, In, FramesSound, NestSound, RestSound, Child, NothingAsked
<1>6. SkillsType'
  BY <1>1, <1>3, <1>4 DEF SkillsType
<1> QED
  BY <1>3, <1>5, <1>6 DEF SkillsInv

\* visit() ends: its skill is listed after all it depends on.
LEMMA VisitEndsStep ==
  ASSUME SkillsInv, VisitEnds
  PROVE  SkillsInv'
<1> DEFINE s == Last(path).skill
           last == Len(path) = 1
           f == [Top EXCEPT !.todo = Append(@, s), !.phase = IF last THEN "deps" ELSE @]
<1>1. /\ SkillsType /\ Top \in FrameType /\ Top.skill \in Skill /\ ListedSoFar(Top, path, visited)
      /\ FrameSound(Top, {}) /\ Top.phase = "resolve" /\ stack # << >> /\ Last(path).left = << >>
      /\ FramesSound /\ NestSound /\ RestSound
  BY Resolving DEF VisitEnds, SkillsInv
<1>2. Len(stack) \in DOMAIN stack /\ Top = stack[Len(stack)] /\ stack \in Seq(FrameType)
  BY <1>1, TopIs
<1>3. s \in Skill
  BY <1>1, PathIs
<1>4. Append(Top.todo, s) \in Seq(Skill)
  BY <1>1, <1>3 DEF FrameType
<1>5. /\ f \in FrameType /\ f.skill = Top.skill /\ f.valid = Top.valid
      /\ f.phase = (IF last THEN "deps" ELSE "resolve")
      /\ f.todo = Append(Top.todo, s) /\ Settled(f) = Settled(Top) /\ f.attempt = Top.attempt
  BY <1>1, <1>4 DEF FrameType, Settled, Phase
<1>6. stack' = [stack EXCEPT ![Len(stack)] = f]
  <2>1. stack' = [stack EXCEPT ![Len(stack)].todo = Append(@, s),
                               ![Len(stack)].phase = IF last THEN "deps" ELSE @]
    BY DEF VisitEnds
  <2> QED BY <2>1, <1>1, <1>2 DEF FrameType
<1>7. /\ path' = Front(path) /\ visited' = (IF last THEN {} ELSE visited)
      /\ UNCHANGED <<chain, answer, asked>>
  BY DEF VisitEnds
<1> HIDE DEF f, last
<1>8. /\ Front(path) \in Seq([skill : Skill, left : Seq(SkillId)])
      /\ ~last => ListedSoFar(f, Front(path), visited)
      /\ last => /\ Front(path) = << >>
                 /\ ToSet(f.todo) \ {f.skill} = Reached(f.skill) /\ IsInjective(f.todo)
  BY <1>1, <1>5, ListingReturns DEF last
<1>9. f.attempt = 0 /\ Settled(f) = {} /\ f.skill # Unknown
  BY <1>1, <1>5, SkillsAssumption DEF FrameSound
<1>10. FrameSound(f, {})
  <2>1. CASE last
    <3>1. Shared(f, {})
      BY <2>1, <1>8, <1>9 DEF Shared
    <3> QED BY <3>1, <2>1, <1>5, <1>9, SkillsAssumption DEF FrameSound
  <2>2. CASE ~last
    BY <2>2, <1>5, <1>9, SkillsAssumption DEF FrameSound
  <2> QED BY <2>1, <2>2
<1>11. stack' \in Seq(FrameType) /\ stack' # << >> /\ Top' = f /\ FramesSound' /\ NestSound'
  BY <1>1, <1>5, <1>6, <1>10, TopMoves
<1>12. visited' \in SUBSET SkillId
  BY <1>1, <1>7 DEF SkillsType
<1>13. SkillsType'
  BY <1>1, <1>7, <1>8, <1>11, <1>12 DEF SkillsType
<1>14. RestSound'
  BY <1>1, <1>7 DEF RestSound
<1>15. IF In("resolve")' THEN ListedSoFar(Top', path', visited') ELSE path' = << >> /\ visited' = {}
  BY <1>5, <1>7, <1>8, <1>11 DEF In
<1> QED
  BY <1>11, <1>13, <1>14, <1>15 DEF SkillsInv

\* The next of the list is executed.
LEMMA DescendStep ==
  ASSUME SkillsInv, NEW valid \in BOOLEAN, Descend(valid)
  PROVE  SkillsInv'
<1>1. /\ SkillsType /\ FramesSound /\ NestSound /\ RestSound /\ HasNext
      /\ (valid \/ Head(Top.todo) \in Refusable)
      /\ stack' = Append([stack EXCEPT ![Len(stack)].todo = Tail(@)],
                         Frame(Head(Top.todo), valid))
      /\ UNCHANGED <<path, visited, chain, answer, asked>>
  BY MayRefuse DEF SkillsInv
<1>2. stack # << >> /\ ~In("resolve") /\ path = << >> /\ visited = {}
  BY <1>1 DEF HasNext, In, SkillsInv
<1>3. /\ stack' \in Seq(FrameType) /\ FramesSound' /\ NestSound'
      /\ Top' = Frame(Head(Top.todo), valid)
  BY <1>1, StackGrows
<1>4. ~In("resolve")'
  BY <1>3 DEF In, Frame
<1>5. SkillsType'
  BY <1>1, <1>3 DEF SkillsType
<1>6. RestSound'
  BY <1>1, <1>2 DEF RestSound
<1> QED
  BY <1>1, <1>2, <1>3, <1>4, <1>5, <1>6 DEF SkillsInv

\* The prompt is built when nothing is left to execute.
LEMMA BuildStep ==
  ASSUME SkillsInv, BuildPrompt
  PROVE  SkillsInv'
<1> DEFINE f == [Top EXCEPT !.phase = "ask"]
<1>1. stack # << >> /\ Top.phase = "deps" /\ Top.todo = << >> /\ ~In("resolve")
  BY DEF BuildPrompt, In
<1>2. CASE ~(Quotes[Top.skill] \subseteq Top.results \cup Declares[Top.skill])
  <2>1. RaiseAll
    BY <1>2 DEF BuildPrompt
  <2> QED BY <2>1, <1>1, RaiseStep
<1>3. CASE Quotes[Top.skill] \subseteq Top.results \cup Declares[Top.skill]
  <2>1. SkillsType /\ Top \in FrameType /\ FrameSound(Top, {})
    BY <1>1, TopIs
  <2>2. stack' = Goto("ask") /\ UNCHANGED <<path, visited, chain, answer, asked>>
    BY <1>3 DEF BuildPrompt
  <2>3. /\ f \in FrameType /\ f.skill = Top.skill /\ f.valid = Top.valid /\ f.phase = "ask"
        /\ f.todo = Top.todo /\ Settled(f) = Settled(Top) /\ f.attempt = Top.attempt
        /\ stack' = [stack EXCEPT ![Len(stack)] = f]
    <3>1. "ask" \in Phase
      BY DEF Phase
    <3> QED BY <3>1, <2>2, <1>1, GoTo
  <2> HIDE DEF f
  <2>4. ToSet(Top.todo) = {}
    BY <1>1 DEF ToSet
  <2>5. Settled(f) = Reached(f.skill) /\ f.skill # Unknown /\ f.attempt = 0
    BY <2>1, <2>3, <2>4, <1>1 DEF FrameSound, Shared
  <2>6. FrameSound(f, {})
    BY <2>3, <2>5, SkillsAssumption DEF FrameSound
  <2>7. asked' \in [SUBSET Skill -> Nat]
    BY <2>1, <2>2 DEF SkillsType
  <2> QED BY <2>2, <2>3, <2>6, <2>7, <1>1, CallGoesOn
<1> QED
  BY <1>2, <1>3

\* All the calls are of skills, once the innermost has been accepted.
LEMMA UnderWayIs ==
  ASSUME SkillsInv, stack # << >>, Top.phase # "check"
  PROVE  /\ UnderWay \in SUBSET Skill
         /\ \A i \in DOMAIN stack : stack[i].skill \in Skill
<1>1. SkillsType /\ FramesSound /\ Top = stack[Len(stack)]
  BY TopIs DEF SkillsInv
<1>2. ASSUME NEW i \in DOMAIN stack
      PROVE  stack[i].skill \in Skill
  <2>1. FrameSound(stack[i], Child(i)) /\ stack[i] \in FrameType
    BY <1>1, StackIs DEF FramesSound
  <2>2. stack[i].phase # "check"
    BY <1>1, OthersWait
  <2> QED BY <2>1, <2>2 DEF FrameSound, FrameType, SkillId
<1> QED
  BY <1>2 DEF UnderWay

\* The model is asked once more.
LEMMA AskStep ==
  ASSUME SkillsInv, Ask
  PROVE  SkillsInv'
<1> DEFINE f == [Top EXCEPT !.phase = "wait", !.attempt = @ + 1]
<1>1. stack # << >> /\ Top.phase = "ask" /\ ~In("resolve")
  BY DEF Ask, In
<1>2. /\ SkillsType /\ Top \in FrameType /\ FrameSound(Top, {}) /\ Len(stack) \in DOMAIN stack
      /\ Top = stack[Len(stack)] /\ stack \in Seq(FrameType)
  BY <1>1, TopIs
<1>3. /\ f \in FrameType /\ f.skill = Top.skill /\ f.valid = Top.valid /\ f.phase = "wait"
      /\ Settled(f) = Settled(Top) /\ f.attempt = Top.attempt + 1 /\ Top.attempt \in Nat
  <2>1. Top.attempt \in Nat /\ Top.attempt + 1 \in Nat /\ "wait" \in Phase
    BY <1>2 DEF FrameType, Phase
  <2>2. PICK a \in Nat : a = Top.attempt + 1
    BY <2>1
  <2>3. f = [Top EXCEPT !.phase = "wait", !.attempt = a]
    BY <2>2
  <2> QED BY <2>1, <2>2, <2>3, <1>2 DEF FrameType, Settled
<1>4. stack' = [stack EXCEPT ![Len(stack)] = f]
  <2>1. stack' = [stack EXCEPT ![Len(stack)].phase = "wait", ![Len(stack)].attempt = @ + 1]
    BY DEF Ask
  <2> QED BY <2>1, <1>2 DEF FrameType
<1> HIDE DEF f
<1>5. Top.attempt < Attempts /\ Settled(Top) = Reached(Top.skill) /\ Top.skill # Unknown
  BY <1>1, <1>2 DEF FrameSound
<1>6. f.attempt <= Attempts
  BY <1>3, <1>5, SkillsAssumption
<1>7. FrameSound(f, {})
  BY <1>3, <1>5, <1>6 DEF FrameSound
<1>8. asked' \in [SUBSET Skill -> Nat] /\ UNCHANGED <<path, visited, chain, answer>>
  <2>1. UnderWay \in SUBSET Skill /\ asked \in [SUBSET Skill -> Nat]
    BY <1>1, <1>2, UnderWayIs DEF SkillsType
  <2>2. asked[UnderWay] \in Nat /\ asked[UnderWay] + 1 \in Nat
    BY <2>1
  <2>3. asked' = [asked EXCEPT ![UnderWay] = @ + 1] /\ UNCHANGED <<path, visited, chain, answer>>
    BY DEF Ask
  <2> QED BY <2>1, <2>2, <2>3
<1> QED
  BY <1>1, <1>3, <1>4, <1>7, <1>8, CallGoesOn

\* An error of the connection, with attempts left.
LEMMA RetryStep ==
  ASSUME SkillsInv, Retry
  PROVE  SkillsInv'
<1> DEFINE f == [Top EXCEPT !.phase = "ask"]
<1>1. stack # << >> /\ Top.phase = "wait" /\ ~In("resolve") /\ Top.attempt < Attempts
  BY DEF Retry, In
<1>2. SkillsType /\ Top \in FrameType /\ FrameSound(Top, {})
  BY <1>1, TopIs
<1>3. stack' = Goto("ask") /\ UNCHANGED <<path, visited, chain, answer, asked>>
  BY DEF Retry
<1>4. /\ f \in FrameType /\ f.skill = Top.skill /\ f.valid = Top.valid /\ f.phase = "ask"
      /\ Settled(f) = Settled(Top) /\ f.attempt = Top.attempt
      /\ stack' = [stack EXCEPT ![Len(stack)] = f]
  <2>1. "ask" \in Phase
    BY DEF Phase
  <2> QED BY <2>1, <1>1, <1>3, GoTo
<1> HIDE DEF f
<1>5. FrameSound(f, {})
  BY <1>1, <1>2, <1>4 DEF FrameSound
<1>6. asked' \in [SUBSET Skill -> Nat]
  BY <1>2, <1>3 DEF SkillsType
<1> QED
  BY <1>1, <1>3, <1>4, <1>5, <1>6, CallGoesOn

\* A call returns, with a result or an error.
LEMMA ReturnStep ==
  ASSUME SkillsInv, stack # << >>, ~In("resolve"), NEW ok \in BOOLEAN, Return(ok),
         UNCHANGED <<path, visited, chain, asked>>
  PROVE  SkillsInv'
<1>1. /\ SkillsType /\ FramesSound /\ NestSound /\ RestSound /\ path = << >> /\ visited = {}
  BY DEF SkillsInv
<1>2. answer \in {"single", "chain"}
  BY TopIs
<1>3. CASE Front(stack) # << >>
  <2>1. /\ stack' \in Seq(FrameType) /\ FramesSound' /\ NestSound' /\ Top'.phase = "deps"
        /\ answer' = answer
    BY <1>1, <1>3, StackShrinks
  <2>2. ~In("resolve")'
    BY <2>1 DEF In
  <2>3. SkillsType'
    BY <2>1, <1>1 DEF SkillsType
  <2>4. RestSound'
    BY <2>1, <1>1, <1>2 DEF RestSound
  <2> QED BY <2>1, <2>2, <2>3, <2>4, <1>1 DEF SkillsInv
<1>4. CASE Front(stack) = << >>
  <2>1. stack' = << >> /\ answer' \in {"chain", "done", "error"}
    BY <1>2, <1>4 DEF Return
  <2>2. stack' \in Seq(FrameType) /\ FramesSound' /\ NestSound' /\ ~In("resolve")'
    BY <2>1, NoneNested
  <2>3. SkillsType'
    BY <2>1, <2>2, <1>1 DEF SkillsType
  <2>4. RestSound'
    BY <2>1 DEF RestSound
  <2> QED BY <2>2, <2>3, <2>4, <1>1 DEF SkillsInv
<1> QED
  BY <1>3, <1>4

\* Every step keeps the invariant.
LEMMA SkillsSteps ==
  ASSUME SkillsInv, [KNext]_kvars
  PROVE  SkillsInv'
<1>1. CASE UNCHANGED kvars
  <2>1. /\ UNCHANGED <<stack, path, visited, chain, answer, asked>>
        /\ SkillsType /\ FramesSound /\ NestSound /\ RestSound
    BY <1>1 DEF kvars, SkillsInv
  <2>2. SkillsType' /\ RestSound' /\ FramesSound' /\ NestSound'
    BY <2>1 DEF SkillsType, FramesSound, NestSound, RestSound, Child, NothingAsked
  <2>3. Top' = Top /\ In("resolve")' = In("resolve")
    BY <2>1 DEF Top, In
  <2> QED BY <2>1, <2>2, <2>3 DEF SkillsInv
<1>2. CASE KNext
  <2>1. CASE RefuseSkill
    <3>1. /\ stack # << >> /\ ~In("resolve") /\ Return(FALSE)
          /\ UNCHANGED <<path, visited, chain, asked>>
      BY <2>1 DEF RefuseSkill, In
    <3> QED BY <3>1, ReturnStep
  <2>2. CASE TooDeep \/ HandsNothing \/ StepRaises
    <3>1. RaiseAll /\ ~In("resolve")
      BY <2>2 DEF TooDeep, HandsNothing, StepRaises, HasNext, In
    <3> QED BY <3>1, RaiseStep
  <2>3. ASSUME NEW ok \in BOOLEAN, AskEnds(ok)
        PROVE  SkillsInv'
    <3>1. /\ stack # << >> /\ ~In("resolve") /\ Return(ok)
          /\ UNCHANGED <<path, visited, chain, asked>>
      BY <2>3 DEF AskEnds, In
    <3> QED BY <3>1, ReturnStep
  <2>4. CASE PromptRefused
    <3>1. /\ stack # << >> /\ ~In("resolve") /\ Return(FALSE)
          /\ UNCHANGED <<path, visited, chain, asked>>
      BY <2>4 DEF PromptRefused, In
    <3> QED BY <3>1, ReturnStep
  <2> QED
    BY <1>2, <2>1, <2>2, <2>3, <2>4, RequestSteps, AcceptStep, VisitStep, VisitEndsStep, SelfStep,
       DescendStep, BuildStep, AskStep, RetryStep DEF KNext
<1> QED
  BY <1>1, <1>2


-----------------------------------------------------------------------------
(* What a step does with the calls that are under way. *)

StackBegun ==
  /\ stack = << >> /\ Len(stack') = 1 /\ DOMAIN stack' = {1} /\ Settled(stack'[1]) = {}
  /\ answer' = "chain" \/ asked' = NothingAsked

StackKept ==
  /\ Len(stack') = Len(stack) /\ DOMAIN stack' = DOMAIN stack /\ UNCHANGED answer
  /\ \A i \in DOMAIN stack :
       stack'[i].skill = stack[i].skill /\ Settled(stack'[i]) = Settled(stack[i])
  /\ stack # << >> =>
       \/ UNCHANGED asked /\ Top'.attempt = Top.attempt
       \/ /\ In("ask") /\ asked' = [asked EXCEPT ![UnderWay] = @ + 1]
          /\ Top'.attempt = Top.attempt + 1

StackGrown ==
  /\ stack # << >> /\ Len(stack') = Len(stack) + 1 /\ DOMAIN stack' = 1..(Len(stack) + 1)
  /\ \A i \in DOMAIN stack :
       stack'[i].skill = stack[i].skill /\ Settled(stack'[i]) = Settled(stack[i])
  /\ Settled(Top') = {} /\ Top.attempt = 0 /\ UNCHANGED <<answer, asked>>

StackShrunk ==
  /\ stack # << >> /\ Len(stack') = Len(stack) - 1 /\ DOMAIN stack' = 1..(Len(stack) - 1)
  /\ Len(stack) - 1 \in DOMAIN stack /\ Top.skill \in Skill
  /\ Top.skill \notin Refusable => Top.phase \in {"ask", "wait"}
  /\ \A i \in DOMAIN stack : i # Len(stack) =>
       /\ stack'[i].skill = stack[i].skill
       /\ Settled(stack'[i]) = Settled(stack[i]) \cup
            (IF i = Len(stack) - 1 THEN {Top.skill} ELSE {})
  /\ UNCHANGED <<answer, asked>>

\* The innermost call is replaced by one that has the same results.
LEMMA StackKeptIs ==
  ASSUME SkillsInv, stack # << >>, NEW f \in FrameType, f.skill = Top.skill,
         Settled(f) = Settled(Top), stack' = [stack EXCEPT ![Len(stack)] = f],
         UNCHANGED answer,
         \/ UNCHANGED asked /\ f.attempt = Top.attempt
         \/ /\ In("ask") /\ asked' = [asked EXCEPT ![UnderWay] = @ + 1]
            /\ f.attempt = Top.attempt + 1
  PROVE  StackKept
<1>1. /\ Len(stack) \in DOMAIN stack /\ Top = stack[Len(stack)] /\ stack \in Seq(FrameType)
  BY TopIs
<1>2. /\ Len(stack') = Len(stack) /\ DOMAIN stack' = DOMAIN stack
      /\ \A i \in DOMAIN stack : stack'[i] = IF i = Len(stack) THEN f ELSE stack[i]
  BY <1>1
<1>3. Top' = f
  BY <1>1, <1>2 DEF Top
<1>4. \A i \in DOMAIN stack :
        stack'[i].skill = stack[i].skill /\ Settled(stack'[i]) = Settled(stack[i])
  BY <1>1, <1>2
<1> QED
  BY <1>2, <1>3, <1>4 DEF StackKept

\* The first call of a request, and no call, are stacks that begin.
LEMMA StackBegunIs ==
  ASSUME SkillsInv, stack = << >>, NEW s, NEW valid, stack' = <<Frame(s, valid)>>,
         answer' = "chain" \/ asked' = NothingAsked
  PROVE  StackBegun
<1>1. PICK f : f = Frame(s, valid)
  OBVIOUS
<1>2. Settled(f) = {}
  BY <1>1 DEF Frame, Settled
<1>3. stack' = <<f>> /\ Len(stack') = 1 /\ DOMAIN stack' = {1} /\ stack'[1] = f
  BY <1>1
<1> QED
  BY <1>2, <1>3 DEF StackBegun

\* A call that returns to another leaves its skill settled there, nothing else.
LEMMA ReturnIs ==
  ASSUME SkillsInv, stack # << >>, NEW ok \in BOOLEAN, Return(ok), UNCHANGED asked,
         Top.skill \in Skill /\ Top.valid =>
           Top.phase \in {"ask", "wait"} \/ Top.skill \in Refusable
  PROVE  stack' = << >> \/ StackShrunk
<1>1. SkillsType /\ FramesSound /\ NestSound
  BY DEF SkillsInv
<1>2. CASE Front(stack) = << >>
  BY <1>2 DEF Return
<1>3. CASE Front(stack) # << >>
  <2>1. /\ stack' \in Seq(FrameType) /\ Len(stack') = Len(stack) - 1
        /\ Len(stack) - 1 \in DOMAIN stack
        /\ Top.skill \in Skill /\ (Top.valid \/ Top.skill \in Refusable)
        /\ \A i \in DOMAIN stack : i # Len(stack) =>
             /\ stack'[i].skill = stack[i].skill
             /\ Settled(stack'[i]) = Settled(stack[i]) \cup
                  (IF i = Len(stack) - 1 THEN {Top.skill} ELSE {})
        /\ UNCHANGED answer
    BY <1>1, <1>3, StackShrinks
  <2>2. DOMAIN stack' = 1..(Len(stack) - 1)
    BY <2>1
  <2> QED BY <2>1, <2>2 DEF StackShrunk
<1> QED
  BY <1>2, <1>3

\* A step begins a stack, keeps it, makes it grow by a dependency or shrink by one.
LEMMA SkillsMove ==
  ASSUME SkillsInv, [KNext]_kvars
  PROVE  stack' = << >> \/ StackBegun \/ StackKept \/ StackGrown \/ StackShrunk
<1>0. /\ SkillsType /\ FramesSound /\ NestSound /\ RestSound
  BY DEF SkillsInv
<1>1. CASE UNCHANGED <<stack, answer, asked>>
  <2>1. UNCHANGED <<Len(stack), DOMAIN stack>> /\ Top' = Top
    BY <1>1 DEF Top
  <2>2. \A i \in DOMAIN stack :
          stack'[i].skill = stack[i].skill /\ Settled(stack'[i]) = Settled(stack[i])
    BY <1>1
  <2> QED BY <2>1, <2>2, <1>1 DEF StackKept
<1>2. ASSUME NEW s \in SkillId, NEW valid \in BOOLEAN, Execute(s, valid)
      PROVE  StackBegun
  BY <1>0, <1>2, StackBegunIs DEF Execute, RestSound
<1>3. ASSUME NEW valid \in BOOLEAN, NextStep(valid)
      PROVE  StackBegun
  <2>1. \E v : stack' = <<Frame(Head(chain), v)>>
    BY <1>3 DEF NextStep
  <2>2. stack = << >> /\ answer' = "chain"
    BY <1>3 DEF NextStep
  <2> QED BY <2>1, <2>2, StackBegunIs
<1>4. CASE (\E steps \in SeqOf(SkillId \cup {NoId}, MaxChain) : ExecuteChain(steps))
           \/ SkipStep \/ EndChain \/ Reset
  <2>1. stack = << >> /\ UNCHANGED stack
    BY <1>4, <1>0 DEF ExecuteChain, SkipStep, EndChain, Reset, RestSound
  <2> QED BY <2>1
<1>5. CASE RefuseSkill
  <2>1. /\ stack # << >> /\ Return(FALSE) /\ UNCHANGED asked
        /\ Top.skill = Unknown \/ ~Top.valid
    BY <1>5 DEF RefuseSkill, In
  <2>2. Top.skill \in Skill => ~Top.valid
    BY <2>1, SkillsAssumption
  <2> QED BY <2>1, <2>2, ReturnIs
<1>6. ASSUME NEW ok \in BOOLEAN, AskEnds(ok)
      PROVE  stack' = << >> \/ StackShrunk
  <2>1. stack # << >> /\ Return(ok) /\ UNCHANGED asked /\ Top.phase \in {"ask", "wait"}
    BY <1>6 DEF AskEnds, In
  <2> QED BY <2>1, ReturnIs
<1>7. CASE TooDeep \/ HandsNothing \/ StepRaises \/ RaiseAll
  BY <1>7 DEF TooDeep, HandsNothing, StepRaises, RaiseAll
<1>8. ASSUME NEW valid \in BOOLEAN, Descend(valid)
      PROVE  StackGrown
  <2>1. /\ HasNext /\ UNCHANGED <<answer, asked>> /\ (valid \/ Head(Top.todo) \in Refusable)
        /\ stack' = Append([stack EXCEPT ![Len(stack)].todo = Tail(@)],
                           Frame(Head(Top.todo), valid))
    BY <1>0, <1>8, MayRefuse
  <2>2. /\ stack' \in Seq(FrameType) /\ Len(stack') = Len(stack) + 1
        /\ Top' = Frame(Head(Top.todo), valid)
        /\ \A i \in DOMAIN stack :
             stack'[i].skill = stack[i].skill /\ Settled(stack'[i]) = Settled(stack[i])
    BY <2>1, <1>0, StackGrows
  <2>3. DOMAIN stack' = 1..(Len(stack) + 1) /\ Settled(Top') = {}
    BY <2>2 DEF Frame, Settled
  <2>4. stack # << >> /\ Top.phase = "deps"
    BY <2>1 DEF HasNext, In
  <2>5. Top.attempt = 0
    BY <2>4, TopIs DEF FrameSound
  <2> QED BY <2>1, <2>2, <2>3, <2>4, <2>5 DEF StackGrown
<1>9. CASE Accept
  <2>1. stack # << >> /\ stack' = Goto("resolve") /\ UNCHANGED <<answer, asked>> /\ "resolve" \in Phase
    BY <1>9 DEF Accept, In, Phase
  <2> QED BY <2>1, GoTo, StackKeptIs
<1>10. CASE Retry
  <2>1. stack # << >> /\ stack' = Goto("ask") /\ UNCHANGED <<answer, asked>> /\ "ask" \in Phase
    BY <1>10 DEF Retry, In, Phase
  <2> QED BY <2>1, GoTo, StackKeptIs
<1>11. CASE BuildPrompt /\ ~RaiseAll
  <2>1. stack # << >> /\ stack' = Goto("ask") /\ UNCHANGED <<answer, asked>> /\ "ask" \in Phase
    BY <1>11 DEF BuildPrompt, In, Phase
  <2> QED BY <2>1, GoTo, StackKeptIs
<1>12. CASE VisitNext
  BY <1>12, <1>1 DEF VisitNext
<1>13. CASE VisitEnds
  <2> DEFINE f == [Top EXCEPT !.todo = Append(@, Last(path).skill),
                              !.phase = IF Len(path) = 1 THEN "deps" ELSE @]
  <2>1. /\ stack # << >> /\ UNCHANGED <<answer, asked>> /\ In("resolve")
        /\ stack' = [stack EXCEPT ![Len(stack)].todo = Append(@, Last(path).skill),
                                  ![Len(stack)].phase = IF Len(path) = 1 THEN "deps" ELSE @]
    BY <1>13 DEF VisitEnds, In
  <2>2. /\ Top \in FrameType /\ Len(stack) \in DOMAIN stack /\ Top = stack[Len(stack)]
        /\ stack \in Seq(FrameType)
    BY <2>1, TopIs
  <2>3. Append(Top.todo, Last(path).skill) \in Seq(Skill)
    <3>1. Last(path).skill \in Skill
      BY <2>1, Resolving, PathIs
    <3> QED BY <3>1, <2>2 DEF FrameType
  <2>4. f \in FrameType /\ f.skill = Top.skill /\ Settled(f) = Settled(Top) /\ f.attempt = Top.attempt
    BY <2>2, <2>3 DEF FrameType, Settled, Phase
  <2>5. stack' = [stack EXCEPT ![Len(stack)] = f]
    BY <2>1, <2>2 DEF FrameType
  <2> HIDE DEF f
  <2> QED BY <2>1, <2>4, <2>5, StackKeptIs
<1>14. CASE SkipSelf
  <2> DEFINE f == [Top EXCEPT !.todo = Tail(@)]
  <2>1. /\ stack # << >> /\ UNCHANGED <<answer, asked>> /\ Top.todo # << >>
        /\ stack' = [stack EXCEPT ![Len(stack)].todo = Tail(@)]
    BY <1>14 DEF SkipSelf, In
  <2>2. /\ Top \in FrameType /\ Len(stack) \in DOMAIN stack /\ Top = stack[Len(stack)]
        /\ stack \in Seq(FrameType)
    BY <2>1, TopIs
  <2>3. Tail(Top.todo) \in Seq(Skill)
    BY <2>1, <2>2, TailIs DEF FrameType
  <2>4. f \in FrameType /\ f.skill = Top.skill /\ Settled(f) = Settled(Top) /\ f.attempt = Top.attempt
    BY <2>2, <2>3 DEF FrameType, Settled
  <2>5. stack' = [stack EXCEPT ![Len(stack)] = f]
    BY <2>1, <2>2
  <2> HIDE DEF f
  <2> QED BY <2>1, <2>4, <2>5, StackKeptIs
<1>15. CASE Ask
  <2> DEFINE f == [Top EXCEPT !.phase = "wait", !.attempt = @ + 1]
  <2>1. /\ stack # << >> /\ In("ask") /\ UNCHANGED answer
        /\ asked' = [asked EXCEPT ![UnderWay] = @ + 1]
        /\ stack' = [stack EXCEPT ![Len(stack)].phase = "wait", ![Len(stack)].attempt = @ + 1]
    BY <1>15 DEF Ask, In
  <2>2. /\ Top \in FrameType /\ Len(stack) \in DOMAIN stack /\ Top = stack[Len(stack)]
        /\ stack \in Seq(FrameType)
    BY <2>1, TopIs
  <2>3. Top.attempt \in Nat /\ Top.attempt + 1 \in Nat /\ "wait" \in Phase
    BY <2>2 DEF FrameType, Phase
  <2>4. PICK a \in Nat : a = Top.attempt + 1
    BY <2>3
  <2>5. f = [Top EXCEPT !.phase = "wait", !.attempt = a]
    BY <2>4
  <2>6. f \in FrameType /\ f.skill = Top.skill /\ Settled(f) = Settled(Top)
        /\ f.attempt = Top.attempt + 1
    BY <2>2, <2>3, <2>4, <2>5 DEF FrameType, Settled
  <2>7. stack' = [stack EXCEPT ![Len(stack)] = f]
    BY <2>1, <2>2 DEF FrameType
  <2> HIDE DEF f
  <2> QED BY <2>1, <2>6, <2>7, StackKeptIs
<1>16. CASE PromptRefused
  <2>1. stack # << >> /\ Return(FALSE) /\ UNCHANGED asked /\ Top.skill \in Refusable
    BY <1>16 DEF PromptRefused, In, Refusable
  <2> QED BY <2>1, ReturnIs
<1>17. CASE UNCHANGED kvars
  BY <1>17, <1>1 DEF kvars
<1>18. CASE KNext
  BY <1>18, <1>2, <1>3, <1>4, <1>5, <1>6, <1>7, <1>8, <1>9, <1>10, <1>11, <1>12, <1>13,
     <1>14, <1>15, <1>16 DEF KNext
<1> QED
  BY <1>17, <1>18

-----------------------------------------------------------------------------
(* No skill in a circle is executed to its end. *)

\* What a call has executed is of what its skill depends on.
LEMMA SettledIs ==
  ASSUME SkillsInv, NEW i \in DOMAIN stack
  PROVE  /\ Settled(stack[i]) \subseteq Reached(stack[i].skill) /\ Settled(stack[i]) \subseteq Skill
         /\ Child(i) \cap Settled(stack[i]) = {} /\ Child(i) \subseteq Reached(stack[i].skill)
<1>1. SkillsType /\ FramesSound
  BY DEF SkillsInv
<1>2. stack[i] \in FrameType /\ FrameSound(stack[i], Child(i))
  BY <1>1, StackIs DEF FramesSound
<1>3. Settled(stack[i]) \subseteq Skill /\ stack[i].phase \in Phase
  BY <1>2 DEF FrameType, Settled
<1>4. CASE stack[i].phase = "deps"
  <2>1. Shared(stack[i], Child(i))
    BY <1>2, <1>4 DEF FrameSound
  <2> QED BY <2>1, <1>3 DEF Shared
<1>5. CASE stack[i].phase # "deps"
  <2>1. Child(i) = {} /\ (Settled(stack[i]) = {} \/ Settled(stack[i]) = Reached(stack[i].skill))
    BY <1>2, <1>3, <1>5 DEF FrameSound, Phase
  <2> QED BY <2>1, <1>3
<1> QED
  BY <1>4, <1>5

\* One that asks has executed all that it needs, and so nothing in a circle.
LEMMA NoCircleAsks ==
  ASSUME SkillsInv, CirclesSound, stack # << >>, Top.phase \in {"ask", "wait"}
  PROVE  Top.skill \notin Endless
<1> DEFINE s == Top.skill
<1>1. /\ s \in Skill /\ Settled(Top) = Reached(s) /\ Settled(Top) \cap Endless \subseteq Refusable
  <2>1. Top \in FrameType /\ FrameSound(Top, {}) /\ Len(stack) \in DOMAIN stack /\ Top = stack[Len(stack)]
    BY TopIs
  <2> QED BY <2>1 DEF FrameSound, FrameType, SkillId, CirclesSound
<1> HIDE DEF s
<1>2. SUFFICES ASSUME s \in Endless PROVE FALSE
  BY DEF s
<1>a. PICK t \in (Reached(s) \cup {s}) \ Refusable :
        \E u \in Reached(t) \ Refusable : t \in Reached(u)
  BY <1>2 DEF Endless, Around
<1>3. PICK u \in Reached(t) \ Refusable : t \in Reached(u)
  BY <1>a
<1>4. t \in Skill /\ u \in Skill /\ t # u
  BY <1>1, <1>3, ReachedIs
<1>5. t \in Endless /\ u \in Endless
  <2>1. Around(t, Refusable) /\ Around(u, Refusable)
    BY <1>3 DEF Around
  <2> QED BY <2>1, <1>4 DEF Endless
<1>6. CASE t = s
  BY <1>1, <1>3, <1>5, <1>6
<1>7. CASE t # s
  BY <1>1, <1>3, <1>5, <1>7
<1> QED
  BY <1>6, <1>7

\* No step lets a skill of an endless circle settle, unless it was refused.
LEMMA CirclesKept ==
  ASSUME SkillsInv, CirclesSound, [KNext]_kvars
  PROVE  CirclesSound'
<1>1. SUFFICES ASSUME NEW i \in DOMAIN stack'
               PROVE  Settled(stack'[i]) \cap Endless \subseteq Refusable
  BY DEF CirclesSound, Endless, Refusable, Around, Reached, ReachedFrom, Closed, SkillId
<1>2. \A k \in DOMAIN stack : Settled(stack[k]) \cap Endless \subseteq Refusable
  BY DEF CirclesSound
<1>3. stack # << >> => DOMAIN stack = 1..Len(stack) /\ Len(stack) \in Nat \ {0}
  BY StackIs DEF SkillsInv
<1>4. CASE stack' = << >> \/ StackBegun
  <2>1. DOMAIN stack' = {} \/ Settled(stack'[i]) = {}
    BY <1>1, <1>4 DEF StackBegun
  <2> QED BY <2>1, <1>1
<1>5. CASE StackKept
  BY <1>1, <1>2, <1>5 DEF StackKept
<1>6. CASE StackGrown
  <2>1. i \in 1..Len(stack) \/ i = Len(stack) + 1
    BY <1>1, <1>3, <1>6 DEF StackGrown
  <2>2. Top' = stack'[Len(stack) + 1]
    BY <1>6 DEF StackGrown, Top
  <2> QED BY <2>1, <2>2, <1>2, <1>3, <1>6 DEF StackGrown
<1>7. CASE StackShrunk
  <2>1. i \in DOMAIN stack /\ i # Len(stack)
    <3>1. i \in 1..(Len(stack) - 1) /\ Len(stack) \in Nat
      BY <1>1, <1>3, <1>7 DEF StackShrunk
    <3>2. i \in 1..Len(stack) /\ i # Len(stack)
      BY <3>1
    <3> QED BY <3>2, <1>3, <1>7 DEF StackShrunk
  <2>2. Top.skill \in Endless => Top.skill \in Refusable
    BY <1>7, NoCircleAsks DEF StackShrunk
  <2>3. Settled(stack'[i]) \subseteq Settled(stack[i]) \cup {Top.skill}
    BY <2>1, <1>7 DEF StackShrunk
  <2> QED BY <2>1, <2>2, <2>3, <1>2
<1> QED
  BY <1>4, <1>5, <1>6, <1>7, SkillsMove

-----------------------------------------------------------------------------
(* Without a circle, nothing is executed twice for the same chain of skills. *)

\* Without a circle below the request no two of its skills need each other.
LEMMA NoCircle ==
  ASSUME NEW s \in Skill, ~Cycles[s], NEW t \in Reached(s) \cup {s}, NEW u \in Reached(t)
  PROVE  t \notin Reached(u)
BY DEF Cycles, Around

\* Without a circle a nested call is of a skill that the outer one needs, and that
\* does not need it.
LEMMA Deeper ==
  ASSUME SkillsInv, Straight, NEW i \in DOMAIN stack, NEW j \in DOMAIN stack, i < j
  PROVE  /\ stack[j].skill \in Reached(stack[i].skill)
         /\ stack[i].skill \notin Reached(stack[j].skill)
         /\ stack[j].skill # stack[i].skill
<1> DEFINE n == Len(stack)
           r == stack[1].skill
           a == stack[i].skill
           b == stack[j].skill
           c == stack[i + 1].skill
<1>1. /\ SkillsType /\ FramesSound /\ NestSound /\ stack # << >>
      /\ n \in Nat \ {0} /\ DOMAIN stack = 1..n /\ \A k \in DOMAIN stack : stack[k] \in FrameType
  BY StackIs DEF SkillsInv, Straight
<1>2. i \in 1..n /\ j \in 1..n /\ n \in Nat
  BY <1>1
<1>3. 1 \in 1..n /\ i # n /\ (1 < i \/ i = 1) /\ i + 1 \in 1..n /\ i < i + 1 /\ (i + 1 < j \/ i + 1 = j)
  BY <1>2
<1>4. r \in Skill /\ ~Cycles[r]
  BY <1>1, <1>3 DEF Straight, FrameType, SkillId
<1>5. a \in Reached(r) \cup {r}
  BY <1>1, <1>3 DEF NestSound
<1>6. a \in Skill
  BY <1>4, <1>5, ReachedIs
<1>7. c \in Reached(a)
  <2>1. Child(i) = {c} /\ Child(i) \subseteq Reached(a)
    BY <1>1, <1>3, OthersWait, SettledIs
  <2> QED BY <2>1
<1>8. b \in Reached(a)
  <2>1. CASE i + 1 = j
    BY <2>1, <1>7
  <2>2. CASE i + 1 < j
    <3>1. b \in Reached(c) \cup {c}
      BY <2>2, <1>1, <1>3 DEF NestSound
    <3>2. CASE b = c
      BY <3>2, <1>7
    <3>3. CASE b \in Reached(c)
      <4>1. b # a
        BY <3>3, <1>4, <1>5, <1>7, NoCircle
      <4> QED BY <4>1, <3>3, <1>6, <1>7, ReachedOn
    <3> QED BY <3>1, <3>2, <3>3
  <2> QED BY <2>1, <2>2, <1>3
<1>9. a \notin Reached(b)
  BY <1>4, <1>5, <1>8, NoCircle
<1>10. a # b
  BY <1>6, <1>8, ReachedIs
<1> QED
  BY <1>8, <1>9, <1>10

\* The chain that is under way was not finished.
LEMMA UnderWayNotFinished ==
  ASSUME SkillsInv, Straight
  PROVE  ~Finished(UnderWay)
<1>1. /\ Len(stack) \in Nat \ {0} /\ DOMAIN stack = 1..Len(stack) /\ SkillsType /\ FramesSound
      /\ \A k \in DOMAIN stack : stack[k] \in FrameType
  BY StackIs DEF SkillsInv, Straight
<1>2. SUFFICES ASSUME NEW i \in DOMAIN stack, NEW d \in Settled(stack[i]),
                      Upto(i) \cup {d} \subseteq UnderWay,
                      UnderWay \ (Upto(i) \cup {d}) \subseteq Reached(d)
               PROVE  FALSE
  BY DEF Finished
<1>3. d \in Reached(stack[i].skill)
  BY SettledIs
<1>4. PICK j \in DOMAIN stack : d = stack[j].skill
  BY <1>2 DEF UnderWay
<1>5. i \in Nat /\ j \in Nat
  BY <1>1
<1>6. CASE j = i
  <2>1. d \notin Reached(d)
    <3>1. d \in Skill
      BY SettledIs
    <3> QED BY <3>1, ReachedIs
  <2> QED BY <2>1, <1>3, <1>4, <1>6
<1>7. CASE j < i
  BY <1>3, <1>4, <1>7, Deeper
<1>8. CASE i < j
  <2> DEFINE c == stack[i + 1].skill
  <2>1. i # Len(stack) /\ i + 1 \in DOMAIN stack /\ i < i + 1
    <3>1. i \in 1..Len(stack) /\ j \in 1..Len(stack) /\ Len(stack) \in Nat
      BY <1>1
    <3>2. i # Len(stack) /\ i + 1 \in 1..Len(stack) /\ i < i + 1
      BY <3>1, <1>8
    <3> QED BY <3>2, <1>1
  <2>2. c # d
    BY <2>1, <1>1, OthersWait, SettledIs
  <2>3. i + 1 < j
    <3>1. j # i + 1
      BY <2>2, <1>4
    <3> QED BY <3>1, <1>5, <1>8
  <2>4. c \in UnderWay
    BY <2>1 DEF UnderWay
  <2>5. c \notin Upto(i)
    <3>1. ASSUME NEW k \in 1..i PROVE c # stack[k].skill
      <4>1. k \in DOMAIN stack /\ k < i + 1
        <5>1. k \in 1..Len(stack) /\ k < i + 1
          BY <1>1
        <5> QED BY <5>1, <1>1
      <4> QED BY <4>1, <2>1, Deeper
    <3> QED BY <3>1 DEF Upto
  <2>6. c \in Reached(d)
    BY <2>2, <2>4, <2>5, <1>2
  <2>7. c \notin Reached(d)
    BY <2>1, <2>3, <1>4, Deeper
  <2> QED BY <2>6, <2>7
<1> QED
  BY <1>5, <1>6, <1>7, <1>8

\* No step asks the model more often for a chain of skills than its bound allows.
LEMMA AskedKept ==
  ASSUME SkillsInv, SkillsInv', AskedSound, [KNext]_kvars
  PROVE  AskedSound'
<1> DEFINE n == Len(stack)
<1>0. /\ UNCHANGED Cycles /\ \A s : UNCHANGED Reached(s) /\ Attempts \in Nat \ {0}
  BY SkillsAssumption DEF Cycles, Around, Reached, ReachedFrom, Closed, SkillId
<1>a. SUFFICES ASSUME Straight', answer' = "single"
               PROVE  \A C \in SUBSET Skill : asked'[C] <= AskBound(C)'
  BY DEF AskedSound
<1>1. asked \in [SUBSET Skill -> Nat] /\ asked' \in [SUBSET Skill -> Nat]
  BY DEF SkillsInv, SkillsType
<1>2. Top'.attempt \in Nat
  <2>1. SkillsType' /\ stack' # << >> /\ Top' = stack'[Len(stack')]
    BY <1>a DEF SkillsInv, Top, Straight
  <2>2. stack' \in Seq(FrameType)
    BY <2>1 DEF SkillsType, FrameType, SkillId
  <2>3. Len(stack') \in 1..Len(stack')
    BY <2>1, <2>2, EmptySeq
  <2>4. stack'[Len(stack')] \in FrameType
    BY <2>2, <2>3, ElementOfSeq
  <2> QED BY <2>1, <2>4 DEF FrameType
<1>3. \A C : AskBound(C)' \in Nat /\ (Finished(C)' => AskBound(C)' = Attempts)
  BY <1>0, <1>2 DEF AskBound
<1>4. ASSUME stack # << >>, answer = "single", stack'[1].skill = stack[1].skill
      PROVE  /\ Straight /\ \A C \in SUBSET Skill : asked[C] <= AskBound(C)
             /\ n \in Nat \ {0} /\ DOMAIN stack = 1..n /\ n \in DOMAIN stack /\ Top = stack[n]
             /\ Top.attempt \in Nat /\ Top.attempt <= Attempts
  <2>1. Straight
    BY <1>0, <1>4, <1>a DEF Straight
  <2>2. \A C \in SUBSET Skill : asked[C] <= AskBound(C)
    BY <2>1, <1>4 DEF AskedSound
  <2>3. /\ n \in Nat \ {0} /\ DOMAIN stack = 1..n /\ n \in DOMAIN stack /\ Top = stack[n]
        /\ Top \in FrameType /\ FrameSound(Top, {})
    BY <1>4, TopIs, StackIs
  <2> QED BY <2>1, <2>2, <2>3 DEF FrameSound, FrameType
<1>5. CASE StackBegun
  <2>1. asked' = NothingAsked
    BY <1>5, <1>a DEF StackBegun
  <2>2. \A C \in SUBSET Skill : asked'[C] = 0
    BY <2>1 DEF NothingAsked
  <2>3. \A k \in Nat : 0 <= k
    OBVIOUS
  <2> QED BY <2>2, <2>3, <1>3
<1>6. CASE StackKept
  <2>1. /\ stack # << >> /\ Len(stack') = n /\ DOMAIN stack' = DOMAIN stack /\ UNCHANGED answer
        /\ \A i \in DOMAIN stack :
             stack'[i].skill = stack[i].skill /\ Settled(stack'[i]) = Settled(stack[i])
    <3>1. stack # << >>
      <4> SUFFICES ASSUME stack = << >> PROVE FALSE
        OBVIOUS
      <4>1. Len(stack') = 0
        BY <1>6 DEF StackKept
      <4>2. stack' \in Seq(FrameType')
        BY DEF SkillsInv, SkillsType
      <4> QED BY <4>1, <4>2, <1>a, EmptySeq DEF Straight
    <3> QED BY <3>1, <1>6 DEF StackKept
  <2>2. answer = "single" /\ stack'[1].skill = stack[1].skill
    <3>1. 1 \in DOMAIN stack
      BY <2>1, StackIs DEF SkillsInv
    <3> QED BY <3>1, <2>1, <1>a
  <2>3. /\ Straight /\ \A C \in SUBSET Skill : asked[C] <= AskBound(C)
        /\ n \in Nat \ {0} /\ DOMAIN stack = 1..n /\ Top.attempt \in Nat
    BY <2>1, <2>2, <1>4
  <2>4. \A i \in DOMAIN stack : Upto(i)' = Upto(i)
    <3>1. \A i \in DOMAIN stack : 1..i \subseteq DOMAIN stack
      BY <2>3
    <3> QED BY <3>1, <2>1 DEF Upto
  <2>5. \A C : Finished(C)' <=> Finished(C)
    BY <2>1, <2>4, <1>0 DEF Finished
  <2>6. UnderWay' = UnderWay
    BY <2>1 DEF UnderWay
  <2>7. CASE UNCHANGED asked /\ Top'.attempt = Top.attempt
    BY <2>3, <2>5, <2>6, <2>7 DEF AskBound
  <2>8. CASE In("ask") /\ asked' = [asked EXCEPT ![UnderWay] = @ + 1] /\ Top'.attempt = Top.attempt + 1
    <3>1. ~Finished(UnderWay) /\ UnderWay \in SUBSET Skill
      BY <2>1, <2>3, <2>8, UnderWayNotFinished, UnderWayIs DEF In
    <3>2. asked[UnderWay] <= Top.attempt /\ asked[UnderWay] \in Nat
      BY <3>1, <2>3, <1>1 DEF AskBound
    <3>3. asked'[UnderWay] = asked[UnderWay] + 1 /\ asked'[UnderWay] <= Top'.attempt
      <4>1. asked'[UnderWay] = asked[UnderWay] + 1
        BY <3>1, <2>8, <1>1
      <4> QED BY <4>1, <3>2, <2>3, <2>8
    <3>4. \A C \in SUBSET Skill : C # UnderWay => asked'[C] = asked[C] /\ AskBound(C)' = AskBound(C)
      BY <2>5, <2>6, <2>8, <1>1 DEF AskBound
    <3>6. ASSUME NEW C \in SUBSET Skill
          PROVE  asked'[C] <= AskBound(C)'
      <4>1. CASE C # UnderWay
        BY <4>1, <3>4, <2>3
      <4>2. CASE C = UnderWay
        <5>1. AskBound(C)' = Top'.attempt
          BY <4>2, <3>1, <2>5, <2>6 DEF AskBound
        <5> QED BY <5>1, <4>2, <3>3
      <4> QED BY <4>1, <4>2
    <3> QED BY <3>6
  <2> QED BY <2>1, <2>7, <2>8, <1>6 DEF StackKept
<1>7. CASE StackGrown
  <2>1. /\ stack # << >> /\ Len(stack') = n + 1 /\ DOMAIN stack' = 1..(n + 1)
        /\ \A i \in DOMAIN stack :
             stack'[i].skill = stack[i].skill /\ Settled(stack'[i]) = Settled(stack[i])
        /\ Top.attempt = 0 /\ UNCHANGED <<answer, asked>>
    BY <1>7 DEF StackGrown
  <2>2. answer = "single" /\ stack'[1].skill = stack[1].skill
    <3>1. 1 \in DOMAIN stack
      BY <2>1, StackIs DEF SkillsInv
    <3> QED BY <3>1, <2>1, <1>a
  <2>3. /\ \A C \in SUBSET Skill : asked[C] <= AskBound(C)
        /\ n \in Nat \ {0} /\ DOMAIN stack = 1..n
    BY <2>1, <2>2, <1>4
  <2>4. \A i \in DOMAIN stack : i \in DOMAIN stack' /\ 1..i \subseteq DOMAIN stack
    BY <2>1, <2>3
  <2>5. \A i \in DOMAIN stack : Upto(i)' = Upto(i)
    BY <2>1, <2>4 DEF Upto
  <2>6. \A C : Finished(C) => Finished(C)'
    BY <2>1, <2>4, <2>5, <1>0 DEF Finished
  <2>7. ASSUME NEW C \in SUBSET Skill
        PROVE  asked'[C] <= AskBound(C)'
    <3>1. CASE Finished(C)
      BY <3>1, <2>1, <2>3, <2>6, <1>3 DEF AskBound
    <3>2. CASE ~Finished(C)
      <4>1. AskBound(C) = 0
        BY <3>2, <2>1 DEF AskBound
      <4>2. asked'[C] <= 0 /\ asked'[C] \in Nat
        BY <4>1, <2>1, <2>3, <1>1
      <4>3. AskBound(C)' \in Nat
        BY <1>3
      <4> QED BY <4>2, <4>3
    <3> QED BY <3>1, <3>2
  <2> QED BY <2>7
<1>8. CASE StackShrunk
  <2> DEFINE s == Top.skill
  <2>1. /\ stack # << >> /\ Len(stack') = n - 1 /\ DOMAIN stack' = 1..(n - 1)
        /\ n - 1 \in DOMAIN stack /\ s \in Skill
        /\ \A i \in DOMAIN stack : i # n =>
             /\ stack'[i].skill = stack[i].skill
             /\ Settled(stack'[i]) = Settled(stack[i]) \cup (IF i = n - 1 THEN {s} ELSE {})
        /\ UNCHANGED <<answer, asked>>
    BY <1>8 DEF StackShrunk
  <2>a. n \in Nat \ {0} /\ DOMAIN stack = 1..n /\ Top = stack[n] /\ SkillsType
    BY <2>1, StackIs DEF SkillsInv
  <2>b. 1 \in 1..(n - 1) /\ 1 \in 1..n /\ 1 # n /\ n - 1 \in 1..n /\ n - 1 # n /\ n - 1 \in 1..(n - 1)
        /\ 1..n = 1..(n - 1) \cup {n} /\ n \in 1..n /\ n \notin 1..(n - 1)
    BY <2>1, <2>a
  <2> HIDE DEF n
  <2>2. answer = "single" /\ stack'[1].skill = stack[1].skill
    BY <2>1, <2>a, <2>b, <1>a
  <2>3. /\ \A C \in SUBSET Skill : asked[C] <= AskBound(C)
        /\ Top.attempt \in Nat /\ Top.attempt <= Attempts
    BY <2>1, <2>2, <1>4
  <2>4. \A i \in 1..(n - 1) : i \in 1..n /\ i # n /\ 1..i \subseteq 1..(n - 1)
    BY <2>a
  <2>5. \A i \in 1..(n - 1) : Upto(i)' = Upto(i)
    <3> SUFFICES ASSUME NEW i \in 1..(n - 1) PROVE Upto(i)' = Upto(i)
      OBVIOUS
    <3>1. \A j \in 1..i : stack'[j].skill = stack[j].skill
      BY <2>1, <2>4, <2>a
    <3> QED BY <3>1 DEF Upto
  <2>6. Upto(n) = Upto(n - 1) \cup {s} /\ UnderWay = Upto(n)
    BY <2>a, <2>b DEF Upto, UnderWay
  <2>7. s \in Settled(stack'[n - 1])
    BY <2>1, <2>b
  <2>8. ASSUME NEW C, Upto(n - 1) \cup {s} \subseteq C,
                     C \ (Upto(n - 1) \cup {s}) \subseteq Reached(s)
        PROVE  Finished(C)'
    <3>a. PICK m \in 1..(n - 1) : m = n - 1
      BY <2>b
    <3>1. m \in DOMAIN stack' /\ Upto(m)' = Upto(m) /\ s \in Settled(stack'[m])
      BY <3>a, <2>1, <2>5, <2>7
    <3>2. /\ Upto(m)' \cup {s} \subseteq C /\ C \ (Upto(m)' \cup {s}) \subseteq Reached(s)
      BY <3>a, <3>1, <2>8
    <3>b. PICK d : d = s
      OBVIOUS
    <3>3. /\ d \in Settled(stack'[m])
          /\ Upto(m)' \cup {d} \subseteq C /\ C \ (Upto(m)' \cup {d}) \subseteq Reached(d)
      BY <3>b, <3>1, <3>2
    <3>4. C \ (Upto(m)' \cup {d}) \subseteq Reached(d)'
      BY <3>3, <1>0
    <3> QED BY <3>1, <3>3, <3>4 DEF Finished
  <2>9. ASSUME NEW C, Finished(C)
        PROVE  Finished(C)'
    <3>1. PICK i \in DOMAIN stack, d \in Skill :
             /\ d \in Settled(stack[i])
             /\ Upto(i) \cup {d} \subseteq C /\ C \ (Upto(i) \cup {d}) \subseteq Reached(d)
      BY <2>9, SettledIs DEF Finished
    <3>2. CASE i # n
      <4>1. i \in 1..(n - 1)
        BY <3>2, <2>a, <2>b
      <4>2. i \in DOMAIN stack' /\ Upto(i)' = Upto(i) /\ d \in Settled(stack'[i])
        BY <4>1, <3>1, <3>2, <2>1, <2>5
      <4>3. /\ (Upto(i))' \cup {d} \subseteq C
            /\ C \ ((Upto(i))' \cup {d}) \subseteq Reached(d)'
        BY <4>2, <3>1, <1>0
      <4> QED BY <4>2, <4>3 DEF Finished
    <3>3. CASE i = n
      <4>1. d \in Reached(s)
        BY <3>1, <3>3, <2>a, SettledIs
      <4>2. \A x \in Reached(d) : x # s => x \in Reached(s)
        BY <4>1, <2>1, ReachedOn
      <4>3. Upto(n - 1) \cup {s} \subseteq C /\ C \ (Upto(n - 1) \cup {s}) \subseteq Reached(s)
        BY <4>1, <4>2, <3>1, <3>3, <2>6
      <4> QED BY <4>3, <2>8
    <3> QED BY <3>2, <3>3
  <2>11. ASSUME NEW C \in SUBSET Skill
         PROVE  asked'[C] <= AskBound(C)'
    <3>1. CASE Finished(C)
      BY <3>1, <2>1, <2>3, <2>9, <1>3 DEF AskBound
    <3>2. CASE ~Finished(C) /\ C = UnderWay
      <4>1. Finished(C)'
        BY <3>2, <2>6, <2>8
      <4>2. asked[C] <= Top.attempt
        BY <3>2, <2>3 DEF AskBound
      <4>3. asked[C] <= Attempts
        BY <4>2, <2>3, <1>0, <1>1
      <4> QED BY <4>1, <4>3, <2>1, <1>3
    <3>3. CASE ~Finished(C) /\ C # UnderWay
      <4>1. asked'[C] <= 0 /\ asked'[C] \in Nat
        BY <3>3, <2>1, <2>3, <1>1 DEF AskBound
      <4>2. AskBound(C)' \in Nat
        BY <1>3
      <4> QED BY <4>1, <4>2
    <3> QED BY <3>1, <3>2, <3>3
  <2> QED BY <2>11
<1> QED
  BY <1>5, <1>6, <1>7, <1>8, <1>a, SkillsMove DEF Straight

\* The three invariants together give what the run checks.
LEMMA ExecutionsFollow ==
  ASSUME SkillsInv, CirclesSound, AskedSound
  PROVE  ExecutionsSound
<1>1. DependenciesFirst
  <2>1. SUFFICES ASSUME NEW i \in DOMAIN stack, stack[i].phase \in {"ask", "wait"}
                 PROVE  Settled(stack[i]) = Reached(stack[i].skill)
    BY DEF DependenciesFirst, Settled
  <2>2. FrameSound(stack[i], Child(i))
    BY DEF SkillsInv, FramesSound
  <2> QED BY <2>1, <2>2 DEF FrameSound
<1>2. WorkBounded
  <2>1. SUFFICES ASSUME Straight
                 PROVE  /\ \A i, j \in DOMAIN stack : i # j => stack[i].skill # stack[j].skill
                        /\ answer = "single" => \A C \in SUBSET Skill : asked[C] <= Attempts
    BY DEF WorkBounded, Straight
  <2>2. DOMAIN stack = 1..Len(stack)
    BY <2>1, StackIs DEF SkillsInv, Straight
  <2>3. ASSUME NEW i \in DOMAIN stack, NEW j \in DOMAIN stack, i # j
        PROVE  stack[i].skill # stack[j].skill
    <3>1. i < j \/ j < i
      BY <2>2, <2>3
    <3> QED BY <3>1, <2>1, Deeper
  <2>4. ASSUME answer = "single", NEW C \in SUBSET Skill
        PROVE  asked[C] <= Attempts
    <3>1. asked[C] <= AskBound(C)
      BY <2>1, <2>4 DEF AskedSound
    <3>2. Top.attempt <= Attempts /\ Top.attempt \in Nat
      BY <2>1, TopIs DEF Straight, FrameSound, FrameType
    <3>3. asked[C] \in Nat /\ Attempts \in Nat \ {0}
      BY SkillsAssumption DEF SkillsInv, SkillsType
    <3>4. AskBound(C) \in {Attempts, Top.attempt, 0}
      BY DEF AskBound
    <3> QED BY <3>1, <3>2, <3>3, <3>4
  <2> QED BY <2>3, <2>4
<1>3. CyclesNeverAsk
  <2>1. SUFFICES ASSUME In("ask") \/ In("wait") PROVE Top.skill \notin Endless
    BY DEF CyclesNeverAsk
  <2>2. stack # << >> /\ Top.phase \in {"ask", "wait"}
    BY <2>1 DEF In
  <2> QED BY <2>2, NoCircleAsks
<1> QED
  BY <1>1, <1>2, <1>3 DEF ExecutionsSound

\* For skills that depend on one another in any way, any attempts and any depth: a
\* skill asks the model only after everything that it depends on was executed for
\* it, at any distance and each once; a circle is never executed to its end; and
\* without one no call nests in a call of the same skill, and a request asks the
\* model at most RETRY_ATTEMPTS times for each chain of skills that need each other.
THEOREM ExecutionsAreSound == KSpec => []ExecutionsSound
<1>1. KInit => SkillsInv /\ CirclesSound /\ AskedSound
  BY SkillsStart DEF KInit, CirclesSound, AskedSound, Straight
<1>2. SkillsInv /\ CirclesSound /\ AskedSound /\ [KNext]_kvars
        => (SkillsInv /\ CirclesSound /\ AskedSound)'
  BY SkillsSteps, CirclesKept, AskedKept
<1>3. SkillsInv /\ CirclesSound /\ AskedSound => ExecutionsSound
  BY ExecutionsFollow
<1> QED
  BY <1>1, <1>2, <1>3, PTL DEF KSpec
===============================================================================
