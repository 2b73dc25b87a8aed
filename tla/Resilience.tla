----------------------------- MODULE Resilience -----------------------------
(***************************************************************************)
(* The resilience layer of providers/resilience/__init__.py: what the      *)
(* manager keeps of each provider, its tables of cooldowns and lockouts,   *)
(* the circuit breakers, the thread that cleans up, and the wrapper that   *)
(* resilience_integration.py puts around the methods of a provider.        *)
(*                                                                         *)
(* Every operation of the manager runs under its lock and is one step.     *)
(* The unit of time is 30 s, of which every duration of the code is a      *)
(* multiple.  An instant "until" is kept as the time that is left to it.   *)
(***************************************************************************)
EXTENDS Integers, FiniteSets, Functions

CONSTANTS Provider, Model, None,
          Owner,             \* the provider of each model
          Caller,            \* places for wrapped calls under way
          FailureThreshold,  \* failures that open a breaker (5)
          SuccessThreshold,  \* successes that close it (3)
          RecoveryTimeout,   \* time before a half-open breaker (60 s: 2)
          LockAfter,         \* failures in a row before a lockout (5)
          ServerLockAfter,   \* the same for errors of the server (10)
          MaxWraps,          \* bound: times a provider is enhanced
          MaxRun             \* bound: results in a row that are counted

ASSUME ResilienceAssumption ==
  /\ IsFiniteSet(Provider) /\ Provider \cap Model = {} /\ None \notin Provider \cup Model
  /\ Owner \in [Model -> Provider]
  /\ FailureThreshold \in Nat \ {0} /\ SuccessThreshold \in Nat \ {0}
  /\ RecoveryTimeout \in Nat /\ LockAfter \in Nat \ {0} /\ ServerLockAfter \in Nat \ {0}
  /\ MaxWraps \in 0..2 /\ MaxRun \in Nat   \* no call goes through more
  /\ \A n \in {FailureThreshold, SuccessThreshold, LockAfter, ServerLockAfter} : n <= MaxRun

VARIABLES
  metrics,    \* provider_metrics
  cooldowns,  \* provider_cooldowns of the ConnectionCooldownManager
  lockouts,   \* model_lockouts of the ModelLockoutManager
  breakers,   \* circuit_breakers
  wraps,      \* wrappers around the methods of each provider
  calls,      \* wrapped calls under way
  cleaning    \* the clean-up thread is between its two tables

manager == <<metrics, cooldowns, lockouts, breakers>>
rvars   == <<manager, wraps, calls, cleaning>>

FailureType == {"timeout", "connection_error", "rate_limit", "server_error",
                "model_not_found", "authentication_error", "unknown"}
Circuit == {"closed", "open", "half_open"}

Metrics == [failures : Nat, successes : Nat, cooldown : Nat, lockout : Nat]
Breaker == [state : Circuit, failures : Nat, successes : Nat, since : Nat]
NoMetrics == [failures |-> 0, successes |-> 0, cooldown |-> 0, lockout |-> 0]
NewBreaker == [state |-> "closed", failures |-> 0, successes |-> 0, since |-> 0]

\* times: the wrappers the call went through.  old: their manager was reset.
Call == [provider : Provider, times : 1..MaxWraps, old : BOOLEAN]
NoCall == [provider |-> None, times |-> 0, old |-> FALSE]

Less(a, b) == IF a < b THEN a ELSE b

\* table.get(key, 0): the time left of an entry.
Left(table, key) == IF key \in DOMAIN table THEN table[key] ELSE 0
Put(table, key, time) ==
  [k \in DOMAIN table \cup {key} |-> IF k = key THEN time ELSE table[k]]
Drop(table, keys) == Restrict(table, DOMAIN table \ keys)
Sooner(time) == IF time = 0 THEN 0 ELSE time - 1
Passed(table) == [k \in DOMAIN table |-> Sooner(table[k])]

FreshMetrics  == [p \in Provider |-> NoMetrics]
FreshBreakers == [p \in Provider |-> NewBreaker]

RInit ==
  /\ metrics = FreshMetrics /\ breakers = FreshBreakers
  /\ cooldowns = << >> /\ lockouts = << >>
  /\ wraps = [p \in Provider |-> 0]
  /\ calls = [c \in Caller |-> NoCall]
  /\ cleaning = FALSE

-----------------------------------------------------------------------------
(* What is asked of the manager. *)

IsAvailable(m) == m.cooldown = 0 /\ m.lockout = 0

is_provider_available(p) ==
  /\ IsAvailable(metrics[p])
  /\ breakers[p].state # "open"
  /\ Left(cooldowns, p) = 0

is_model_available(m) == Left(lockouts, m) = 0

\* The summary of get_resilience_status().
get_resilience_status ==
  [available |-> {p \in Provider : is_provider_available(p)},
   open      |-> {p \in Provider : breakers[p].state = "open"},
   cooling   |-> {p \in Provider : Left(cooldowns, p) > 0},
   locked    |-> {m \in DOMAIN lockouts : lockouts[m] > 0}]

-----------------------------------------------------------------------------
(* What is recorded: one success or one failure of a state                 *)
(* s = [m: the metrics, c: the cooldowns, l: the lockouts].                *)

\* Mutant: the metrics' cooldown is cleared and the table is forgotten.
SucceededOneTable(s, p) ==
  [s EXCEPT !.m = [failures |-> 0, successes |-> Less(@.successes + 1, MaxRun),
                   cooldown |-> 0, lockout |-> @.lockout]]

Succeeded(s, p) ==
  [m |-> [failures |-> 0, successes |-> Less(s.m.successes + 1, MaxRun),
          cooldown |-> 0, lockout |-> s.m.lockout],
   c |-> IF s.m.cooldown > 0 THEN Drop(s.c, {p}) ELSE s.c,
   l |-> s.l]

\* 30 s, doubled by each further failure of the row, and at most 300 s.
CooldownTime(run) ==
  CASE run = 1 -> 1 [] run = 2 -> 2 [] run = 3 -> 4 [] run = 4 -> 8 [] OTHER -> 10

\* 60 s, doubled by each failure over the threshold, three times at most.
LockoutTime(over) ==
  CASE over = 0 -> 2 [] over = 1 -> 4 [] over = 2 -> 8 [] OTHER -> 16

Lockout(s, p, m, time) ==
  [m |-> IF m = None THEN s.m ELSE [s.m EXCEPT !.lockout = time],
   c |-> s.c,
   l |-> Put(s.l, IF m = None THEN p ELSE m, time)]

\* _apply_resilience_mechanisms(): the breaker is looked up and not told.
Apply(s, p, m, type) ==
  LET run == s.m.failures
      cooled == IF type \in {"connection_error", "timeout"}
                THEN [m |-> [s.m EXCEPT !.cooldown = CooldownTime(run)],
                      c |-> Put(s.c, p, CooldownTime(run)), l |-> s.l]
                ELSE s
  IN CASE run >= LockAfter /\ type \in {"rate_limit", "authentication_error"}
            -> Lockout(cooled, p, m, LockoutTime(run - LockAfter))
       [] run >= ServerLockAfter /\ type = "server_error" -> Lockout(cooled, p, m, 10)
       [] OTHER -> cooled

Failed(s, p, m, type) ==
  LET counted == [failures |-> Less(s.m.failures + 1, MaxRun), successes |-> 0,
                  cooldown |-> s.m.cooldown, lockout |-> s.m.lockout]
  IN Apply([m |-> counted, c |-> s.c, l |-> s.l], p, m, type)

Tables(p) == [m |-> metrics[p], c |-> cooldowns, l |-> lockouts]

Record(p, s) ==
  /\ metrics' = [metrics EXCEPT ![p] = s.m]
  /\ cooldowns' = s.c /\ lockouts' = s.l
  /\ UNCHANGED breakers

record_success(p) ==
  /\ Record(p, Succeeded(Tables(p), p))
  /\ UNCHANGED <<wraps, calls, cleaning>>

record_failure(p, m, type) ==
  /\ Record(p, Failed(Tables(p), p, m, type))
  /\ UNCHANGED <<wraps, calls, cleaning>>

-----------------------------------------------------------------------------
(* with_resilience() around the methods of a provider. *)

\* Enhancing a provider again wraps what is wrapped.
enhance_provider_with_resilience(p) ==
  /\ wraps[p] < MaxWraps
  /\ wraps' = [wraps EXCEPT ![p] = @ + 1]
  /\ UNCHANGED <<manager, calls, cleaning>>

\* The wrapper takes the manager there is when the call begins.
CallWrapped(c, p) ==
  /\ calls[c] = NoCall /\ wraps[p] > 0
  /\ calls' = [calls EXCEPT ![c] = [provider |-> p, times |-> wraps[p], old |-> FALSE]]
  /\ UNCHANGED <<manager, wraps, cleaning>>

\* Each of the wrappers, which are one or two, records what comes out of the
\* one inside it.
WrappedReturns(c) ==
  LET p == calls[c].provider
      once == Succeeded(Tables(p), p)
      all == IF calls[c].times = 1 THEN once ELSE Succeeded(once, p)
  IN /\ calls[c] # NoCall
     /\ IF calls[c].old THEN UNCHANGED manager
                        ELSE Record(p, all)
     /\ calls' = [calls EXCEPT ![c] = NoCall]
     /\ UNCHANGED <<wraps, cleaning>>

WrappedRaises(c, type) ==
  LET p == calls[c].provider
      once == Failed(Tables(p), p, None, type)
      all == IF calls[c].times = 1 THEN once ELSE Failed(once, p, None, type)
  IN /\ calls[c] # NoCall
     /\ IF calls[c].old THEN UNCHANGED manager
                        ELSE Record(p, all)
     /\ calls' = [calls EXCEPT ![c] = NoCall]
     /\ UNCHANGED <<wraps, cleaning>>

\* The next manager is made from nothing; calls under way keep the old one.
reset_resilience_manager ==
  /\ metrics' = FreshMetrics /\ breakers' = FreshBreakers
  /\ cooldowns' = << >> /\ lockouts' = << >>
  /\ calls' = [c \in Caller |-> IF calls[c] = NoCall THEN NoCall
                                ELSE [calls[c] EXCEPT !.old = TRUE]]
  /\ cleaning' = FALSE
  /\ UNCHANGED wraps

-----------------------------------------------------------------------------
(* The circuit breaker: call() holds its lock while the function runs. *)

SetState(b, state) ==
  [state |-> state, since |-> 0,
   failures  |-> IF state = "closed" THEN 0 ELSE b.failures,
   successes |-> IF state = "open" THEN b.successes ELSE 0]

OnSuccess(b) ==
  LET n == [state |-> b.state, since |-> b.since, failures |-> 0,
            successes |-> Less(b.successes + 1, MaxRun)]
  IN IF n.state = "half_open" /\ n.successes >= SuccessThreshold
     THEN SetState(n, "closed") ELSE n

OnFailure(b) ==
  LET n == [state |-> b.state, since |-> b.since, successes |-> 0,
            failures |-> Less(b.failures + 1, MaxRun)]
  IN IF \/ n.state = "half_open"
        \/ n.state = "closed" /\ n.failures >= FailureThreshold
     THEN SetState(n, "open") ELSE n

ShouldAttemptReset(b) == b.since >= RecoveryTimeout

\* An open breaker lets nobody through before its time; after it, it is tried.
BreakerCall(p, succeeds) ==
  LET b == breakers[p]
      tried == IF b.state = "open" THEN SetState(b, "half_open") ELSE b
  IN /\ b.state = "open" => ShouldAttemptReset(b)
     /\ breakers' = [breakers EXCEPT ![p] = IF succeeds THEN OnSuccess(tried)
                                                        ELSE OnFailure(tried)]
     /\ UNCHANGED <<metrics, cooldowns, lockouts, wraps, calls, cleaning>>

-----------------------------------------------------------------------------
(* Time, and the thread that cleans up every 30 s: one table, then the other. *)

Expired(table) == {k \in DOMAIN table : table[k] = 0}

CleanCooldowns ==
  /\ ~cleaning
  /\ cooldowns' = Drop(cooldowns, Expired(cooldowns)) /\ cleaning' = TRUE
  /\ UNCHANGED <<metrics, lockouts, breakers, wraps, calls>>

CleanLockouts ==
  /\ cleaning
  /\ lockouts' = Drop(lockouts, Expired(lockouts)) /\ cleaning' = FALSE
  /\ UNCHANGED <<metrics, cooldowns, breakers, wraps, calls>>

RTick ==
  /\ metrics' = [p \in Provider |->
       [failures |-> metrics[p].failures, successes |-> metrics[p].successes,
        cooldown |-> Sooner(metrics[p].cooldown), lockout |-> Sooner(metrics[p].lockout)]]
  /\ cooldowns' = Passed(cooldowns) /\ lockouts' = Passed(lockouts)
  /\ breakers' = [p \in Provider |-> [breakers[p] EXCEPT !.since = Less(@ + 1, RecoveryTimeout)]]
  /\ UNCHANGED <<wraps, calls, cleaning>>

RNext ==
  \/ \E p \in Provider : record_success(p) \/ enhance_provider_with_resilience(p)
  \/ \E p \in Provider, type \in FailureType :
       \E m \in {n \in Model : Owner[n] = p} \cup {None} : record_failure(p, m, type)
  \/ \E p \in Provider, succeeds \in BOOLEAN : BreakerCall(p, succeeds)
  \/ \E c \in Caller, p \in Provider : CallWrapped(c, p)
  \/ \E c \in Caller : WrappedReturns(c)
  \/ \E c \in Caller, type \in FailureType : WrappedRaises(c, type)
  \/ reset_resilience_manager \/ CleanCooldowns \/ CleanLockouts \/ RTick

RSpec == RInit /\ [][RNext]_rvars

-----------------------------------------------------------------------------
(* Properties. *)

\* The types of the state.
RTypeOK ==
  /\ metrics \in [Provider -> Metrics]
  /\ DOMAIN cooldowns \subseteq Provider /\ \A p \in DOMAIN cooldowns : cooldowns[p] \in Nat
  /\ DOMAIN lockouts \subseteq Provider \cup Model /\ \A m \in DOMAIN lockouts : lockouts[m] \in Nat
  /\ breakers \in [Provider -> Breaker]
  /\ wraps \in [Provider -> 0..MaxWraps]
  /\ calls \in [Caller -> Call \cup {NoCall}] /\ cleaning \in BOOLEAN

\* A cooldown is written in the metrics and in the table, by two writes that
\* failures, late successes, the clean-up and the manager's reset must keep
\* in step (record_success() and _apply_resilience_mechanisms()).
CooldownsAgree == \A p \in Provider : metrics[p].cooldown = Left(cooldowns, p)

\* A provider that is locked out has a model locked out for as long: no
\* lockout of the metrics outlives that of the model it was made for.
LockoutsAgree ==
  \A p \in Provider : metrics[p].lockout > 0 =>
    \E m \in Model : Owner[m] = p /\ Left(lockouts, m) >= metrics[p].lockout

\* A breaker is half open only while it lacks successes, closed only while it
\* lacks failures, and open only after a failure that nothing has followed:
\* the counts CircuitBreaker keeps across its changes of state are never stale.
BreakerCoherent ==
  \A p \in Provider : LET b == breakers[p] IN
    /\ b.state = "half_open" => b.successes < SuccessThreshold
    /\ b.state = "closed" => b.failures < FailureThreshold
    /\ b.state = "open" => b.failures > 0 /\ b.successes = 0

\* What the manager keeps of an outage in several places agrees, through all
\* of the above.
OutagesCoherent == CooldownsAgree /\ LockoutsAgree /\ BreakerCoherent
=============================================================================
