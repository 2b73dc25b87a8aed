------------------------------ MODULE RateLimit ------------------------------
(***************************************************************************)
(* The rate limiter: the middleware of ratelimit.py for several requests   *)
(* at once, over the store of ratelimit_redis.py, which counts in Redis    *)
(* while Redis answers and in memory while it does not.                    *)
(*                                                                         *)
(* A request runs from one check to the next.  A hit is kept as its age, a *)
(* window being WindowSeconds units of time long.  Requests that are       *)
(* refused are counted by Redis and not by the memory.  Redis has a set of *)
(* timestamps, so that two hits with the same one are one member of it.    *)
(***************************************************************************)
EXTENDS Integers, Sequences

CONSTANTS LPlace,         \* places for requests served at the same time
          Client, LUser,  \* addresses, authenticated users
          Nobody,         \* the user of a request that has none
          Limits,         \* ENDPOINT_LIMITS of a path: the limit of each scope
          WindowSeconds,
          MaxHits         \* bound: hits a store keeps of one key

ASSUME RateLimitAssumption ==
  /\ Nobody \notin LUser /\ Client \cap LUser = {}
  /\ Limits \in Seq([scope : {"ip", "user"}, requests : Nat]) /\ Limits # << >>
  /\ WindowSeconds \in Nat \ {0} /\ MaxHits \in Nat

VARIABLES
  redis,     \* the hits of each key in Redis, by age
  memory,    \* the hits of each key in the fallback, oldest first, by age
  redisUp,   \* Redis answers
  serving,   \* the request at each place
  admitted   \* history: the hits let through that were new to the store, by key
             \* and store, oldest first

lvars == <<redis, memory, redisUp, serving, admitted>>

Key == Client \cup LUser
Store == {"redis", "memory"}
NoRequest == [client |-> Nobody, user |-> Nobody, next |-> 0]

LInit ==
  /\ redis = [k \in Key |-> << >>] /\ memory = [k \in Key |-> << >>]
  /\ redisUp \in BOOLEAN
  /\ serving = [r \in LPlace |-> NoRequest]
  /\ admitted = [k \in Key |-> [s \in Store |-> << >>]]

\* The key of a limit: an anonymous request is counted by its address for
\* each of the scopes.
KeyOf(q, limit) == IF limit.scope = "user" /\ q.user # Nobody THEN q.user ELSE q.client

\* The oldest hits go, up to the first that is younger than the age.
Younger(hits, age) ==
  LET kept == {i \in 1..Len(hits) + 1 : i = Len(hits) + 1 \/ hits[i] < age}
  IN SubSeq(hits, CHOOSE i \in kept : \A j \in kept : i <= j, Len(hits))

\* Mutant of Counted: one unit of time of the window is missing.
CountedShort(store, k) ==
  IF store = "redis" THEN Younger(redis[k], WindowSeconds - 1)
                     ELSE Younger(memory[k], WindowSeconds)

\* What is counted: Redis forgets a hit that is as old as the window, the
\* memory only an older one.
Counted(store, k) ==
  IF store = "redis" THEN Younger(redis[k], WindowSeconds)
                     ELSE Younger(memory[k], WindowSeconds + 1)

\* dispatch() up to its first check.
Arrive(r, c, u) ==
  /\ serving[r] = NoRequest
  /\ serving' = [serving EXCEPT ![r] = [client |-> c, user |-> u, next |-> 1]]
  /\ UNCHANGED <<redis, memory, redisUp, admitted>>

\* check_limit() of one of the stores, and what dispatch() makes of it.  In
\* Redis the hit may be the same as the last one, if the clock has not moved.
Check(r, same) ==
  LET q == serving[r]
      limit == Limits[q.next]
      k == KeyOf(q, limit)
      store == IF redisUp THEN "redis" ELSE "memory"
      hits == Counted(store, k)
      allowed == Len(hits) < limit.requests
  IN /\ q.next \in DOMAIN Limits
     /\ IF same THEN store = "redis" /\ hits # << >> /\ hits[Len(hits)] = 0
                ELSE Len(hits) < MaxHits
     /\ redis' = IF store = "redis"
                 THEN [redis EXCEPT ![k] = IF same THEN hits ELSE Append(hits, 0)]
                 ELSE redis
     /\ memory' = IF store = "memory"
                  THEN [memory EXCEPT ![k] = IF allowed THEN Append(hits, 0) ELSE hits]
                  ELSE memory
     /\ admitted' = IF allowed /\ ~same THEN [admitted EXCEPT ![k][store] = Append(@, 0)]
                    ELSE admitted
     /\ serving' = IF allowed THEN [serving EXCEPT ![r].next = @ + 1]
                              ELSE [serving EXCEPT ![r] = NoRequest]
     /\ UNCHANGED redisUp

\* Every limit allows it: the request is served.
Pass(r) ==
  /\ serving[r].next = Len(Limits) + 1
  /\ serving' = [serving EXCEPT ![r] = NoRequest]
  /\ UNCHANGED <<redis, memory, redisUp, admitted>>

\* reset_limit(): the memory first; Redis only if it answers.
reset_limit(k) ==
  /\ memory' = [memory EXCEPT ![k] = << >>]
  /\ redis' = IF redisUp THEN [redis EXCEPT ![k] = << >>] ELSE redis
  /\ admitted' = [admitted EXCEPT ![k] = [s \in Store |-> << >>]]
  /\ UNCHANGED <<redisUp, serving>>

RedisAnswers ==
  /\ redisUp' = ~redisUp
  /\ UNCHANGED <<redis, memory, serving, admitted>>

\* A unit of time; a hit that is older than the window is not told apart.
Aged(hits) == [i \in DOMAIN hits |-> IF hits[i] > WindowSeconds THEN hits[i] ELSE hits[i] + 1]

LTick ==
  /\ redis' = [k \in Key |-> Younger(Aged(redis[k]), WindowSeconds)]
  /\ memory' = [k \in Key |-> Younger(Aged(memory[k]), WindowSeconds + 1)]
  /\ admitted' = [k \in Key |-> [s \in Store |-> Younger(Aged(admitted[k][s]), WindowSeconds)]]
  /\ UNCHANGED <<redisUp, serving>>

LNext ==
  \/ \E r \in LPlace, same \in BOOLEAN : Check(r, same)
  \/ \E r \in LPlace : Pass(r)
  \/ \E r \in LPlace, c \in Client, u \in LUser \cup {Nobody} : Arrive(r, c, u)
  \/ \E k \in Key : reset_limit(k)
  \/ RedisAnswers \/ LTick

LSpec == LInit /\ [][LNext]_lvars

-----------------------------------------------------------------------------
(* Properties. *)

\* The largest limit of the path.
Most == LET m == {Limits[i].requests : i \in DOMAIN Limits} IN CHOOSE n \in m : \A o \in m : o <= n

\* However requests, outages of Redis and resets interleave, what one store
\* lets through of a key within a window is at most the limit, hits that have
\* their timestamp from another in Redis left out of account; an outage gives a
\* key at most the limit once more (check_limit() of both stores).
AdmittedBounded ==
  \A k \in Key, s \in Store :
    /\ Len(admitted[k][s]) <= Most
    /\ Len(admitted[k][s]) <= Len(Counted(s, k))
=============================================================================
