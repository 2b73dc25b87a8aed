------------------------- MODULE EnhancedResilience -------------------------
(***************************************************************************)
(* providers/enhanced/resilience.py: a breaker and a lockout in one record *)
(* per provider, the wrapper around asynchronous calls, and the check the  *)
(* router makes before it picks a provider, which may change the state.    *)
(*                                                                         *)
(* Nothing between two awaits is interrupted, so that an operation is one  *)
(* step; a wrapped call is two, its start and its end.  The unit of time   *)
(* is 30 s, and "until" is kept as the time that is left.                  *)
(***************************************************************************)
EXTENDS Integers, FiniteSets

CONSTANTS EProvider, ECaller,
          Unused,                   \* a place where no call is under way
          EFailureThreshold,        \* failures in a row that open (5)
          ESuccessThreshold,        \* successes in a row that close (3)
          ETimeout,                 \* timeout_duration (60 s: 2)
          ELockAfter, ELockTime,    \* lockout_config (3 failures, 300 s: 10)
          EMaxAge,                  \* max_age_hours of the clean-up
          EMaxRun                   \* bound: results in a row that are counted

ASSUME EnhancedAssumption ==
  /\ IsFiniteSet(EProvider) /\ Unused \notin EProvider
  /\ EFailureThreshold \in Nat \ {0} /\ ESuccessThreshold \in Nat \ {0}
  /\ ETimeout \in Nat /\ ELockAfter \in Nat \ {0}
  /\ ELockTime \in Nat /\ EMaxAge \in Nat /\ ETimeout < ELockTime /\ ELockTime < EMaxAge
  /\ EMaxRun \in Nat /\ EFailureThreshold <= EMaxRun /\ ESuccessThreshold <= EMaxRun
  /\ ELockAfter <= EFailureThreshold

VARIABLES
  record,   \* _metrics, of every provider; a new one where there is none
  running   \* the provider of the wrapped call at each place

evars == <<record, running>>

\* since: time in the state.  idle: time since a result, for ever if none.
\* circuit_breaker_success_count is counted and never looked at.
EMetrics == [state : {"closed", "half_open", "open"}, failures : 0..EMaxRun,
             successes : 0..EMaxRun, locked : 0..ELockTime, since : 0..ELockTime, idle : 0..EMaxAge]
NewMetrics == [state |-> "closed", failures |-> 0, successes |-> 0,
               locked |-> 0, since |-> 0, idle |-> EMaxAge]

EUpTo(a, b) == IF a < b THEN a ELSE b

EInit ==
  /\ record = [p \in EProvider |-> NewMetrics]
  /\ running = [c \in ECaller |-> Unused]

\* on_state_change().
Changed(m, state) == [m EXCEPT !.state = state, !.since = 0]

\* record_success() of the metrics, then of the manager.
Success(m) ==
  LET n == [m EXCEPT !.successes = EUpTo(@ + 1, EMaxRun), !.failures = 0, !.idle = 0]
  IN IF n.state = "half_open" /\ n.successes >= ESuccessThreshold
     THEN Changed(n, "closed") ELSE n

\* record_failure() of the metrics: a failed probe opens the breaker again.
Failure(m) ==
  LET n == [m EXCEPT !.failures = EUpTo(@ + 1, EMaxRun), !.successes = 0, !.idle = 0]
  IN IF n.state = "half_open" THEN Changed(n, "open") ELSE n

\* record_failure() of the manager: the breaker, then the lockout.
FailureRecorded(m) ==
  LET n == Failure(m)
      o == IF n.state = "closed" /\ n.failures >= EFailureThreshold
           THEN Changed(n, "open") ELSE n
  IN IF o.failures >= ELockAfter THEN [o EXCEPT !.locked = ELockTime] ELSE o

\* with_resilience(): nothing is asked before the call, and a call that is
\* cancelled records nothing (CancelledError is not an Exception).
EBegin(c, p) == running[c] = Unused /\ running' = [running EXCEPT ![c] = p] /\ UNCHANGED record

EEnd(c, m) ==
  /\ running[c] # Unused
  /\ record' = [record EXCEPT ![running[c]] = m]
  /\ running' = [running EXCEPT ![c] = Unused]

EReturn(c) == EEnd(c, Success(record[running[c]]))
ERaise(c) == EEnd(c, FailureRecorded(record[running[c]]))
ECancel(c) == EEnd(c, record[running[c]])

\* is_available(): the lockout first; the breaker is asked only without one,
\* and an open one whose time is over is half open from then on.
\* Mutant of MayTry: the lockout is not asked first.
MayTryLocked(m) == m.state = "open" /\ m.since > ETimeout

MayTry(m) == m.locked = 0 /\ m.state = "open" /\ m.since > ETimeout

EAvailable(m) == m.locked = 0 /\ (m.state # "open" \/ m.since > ETimeout)

EAsk(p) ==
  /\ MayTry(record[p])
  /\ record' = [record EXCEPT ![p] = Changed(@, "half_open")]
  /\ UNCHANGED running

cleanup_old_metrics ==
  /\ record' = [p \in EProvider |-> IF record[p].idle = EMaxAge THEN NewMetrics ELSE record[p]]
  /\ UNCHANGED running

ETick ==
  /\ record' = [p \in EProvider |->
       [record[p] EXCEPT !.locked = IF @ = 0 THEN 0 ELSE @ - 1,
                         !.since = EUpTo(@ + 1, ELockTime), !.idle = EUpTo(@ + 1, EMaxAge)]]
  /\ UNCHANGED running

ENext ==
  \/ \E c \in ECaller : EReturn(c) \/ ERaise(c) \/ ECancel(c)
  \/ \E c \in ECaller, p \in EProvider : EBegin(c, p)
  \/ \E p \in EProvider : EAsk(p)
  \/ cleanup_old_metrics \/ ETick

ESpec == EInit /\ [][ENext]_evars

-----------------------------------------------------------------------------
(* Properties. *)

\* The types of the state.
ETypeOK ==
  /\ record \in [EProvider -> EMetrics]
  /\ running \in [ECaller -> EProvider \cup {Unused}]

\* A closed breaker has seen fewer failures in a row than open it, and one
\* that those failures opened is locked out at least until its own time is
\* over: late results and probes included, no provider is tried while a
\* lockout that its failures earned is running (is_available(),
\* record_failure(), cleanup_old_metrics()).
OpenIsLocked ==
  \A p \in EProvider : LET m == record[p] IN
    /\ m.state = "closed" => m.failures < EFailureThreshold
    /\ m.state = "open" /\ m.failures >= ELockAfter => m.locked + m.since >= ELockTime
    /\ m.state = "half_open" => m.failures = 0 \/ m.locked = 0
=============================================================================
