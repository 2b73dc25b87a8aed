--------------------------------- MODULE Tools ---------------------------------
(***************************************************************************)
(* The execution of tool calls: the registry of tools/registry.py, the     *)
(* executor of tools/executor.py, which gives each call a time, and the    *)
(* tool of tools/builtin.py that runs a program and gives it a time of its *)
(* own.  The calls of a batch run at once; a handler that is no coroutine  *)
(* runs in a thread of the pool, which a time-out does not stop.  A file   *)
(* may fail to be written, or to be removed, whoever works with it.        *)
(***************************************************************************)
EXTENDS Naturals, Sequences, FiniteSets

CONSTANTS Tool, Missing,  \* the tools, a name that is none of them
          CodeTool,       \* those that run a program (execute_code)
          ThreadTool,     \* those whose handler is no coroutine
          Slot,           \* places in a batch
          Workers,        \* threads of the pool
          MaxBatches,     \* bound: batches of calls
          MaxStuck        \* bound: files that are not written or not removed

ASSUME ToolsAssumption ==
  /\ Missing \notin Tool /\ CodeTool \cup ThreadTool \subseteq Tool
  /\ CodeTool \cap ThreadTool = {} /\ IsFiniteSet(Slot)
  /\ Workers \in Nat \ {0} /\ MaxBatches \in Nat /\ MaxStuck \in Nat

VARIABLES
  registered, enabled,  \* _tools and _enabled
  batch,                \* no batch, calls under way, or their results are in
  call,                 \* the call at each place
  threads,              \* threads at work for a place, by batch
  programs,             \* programs that run for a place, by batch
  files,                \* temporary files, the same
  stuck,                \* history: those that could not be written, or not be removed
  batches               \* how many batches there were

tvars == <<registered, enabled, batch, call, threads, programs, files, stuck, batches>>

NoCall == [tool |-> Missing, short |-> FALSE, phase |-> "none", result |-> "none"]
Work(s) == <<batches, s>>   \* what belongs to a place of the batch there is

TInit ==
  /\ registered = Tool /\ enabled = Tool
  /\ batch = "none" /\ batches = 0
  /\ call = [s \in Slot |-> NoCall]
  /\ threads = {} /\ programs = {} /\ files = {} /\ stuck = {}

-----------------------------------------------------------------------------
(* The registry. *)

work == <<batch, call, threads, programs, files, stuck, batches>>

register(t) ==
  /\ registered' = registered \cup {t} /\ enabled' = enabled \cup {t}
  /\ UNCHANGED work

unregister(t) ==
  /\ registered' = registered \ {t} /\ enabled' = enabled \ {t}
  /\ UNCHANGED work

enable(t) ==
  /\ t \in registered /\ enabled' = enabled \cup {t}
  /\ UNCHANGED <<registered, work>>

disable(t) == enabled' = enabled \ {t} /\ UNCHANGED <<registered, work>>

is_enabled(t) == t \in enabled /\ t \in registered

-----------------------------------------------------------------------------
(* A batch: execute_multiple(), and execute() of each of its calls. *)

\* short: the time the call gives its program is less than the executor's.
Asked == {asked \in [Slot -> [tool : Tool \cup {Missing}, short : BOOLEAN]] :
            \A s \in Slot : asked[s].short => asked[s].tool \in CodeTool}

ExecuteMultiple(asked) ==
  /\ batch = "none" /\ batches < MaxBatches
  /\ batch' = "running" /\ batches' = batches + 1
  /\ call' = [s \in Slot |-> [tool |-> asked[s].tool, short |-> asked[s].short,
                              phase |-> "created", result |-> "none"]]
  /\ UNCHANGED <<registered, enabled, threads, programs, files, stuck>>

Settle(s, result) ==
  call' = [call EXCEPT ![s].phase = "settled", ![s].result = result]

\* A tool that is not there, is disabled or has other parameters.
RefuseCall(s) ==
  /\ call[s].phase = "created"
  /\ Settle(s, "refused")
  /\ UNCHANGED <<registered, enabled, batch, threads, programs, files, stuck, batches>>

\* The handler is called at once, or waits for a thread.  That of a program
\* writes it into a temporary file and waits for it to be started.
Begin(s) ==
  LET t == call[s].tool IN
  /\ call[s].phase = "created" /\ is_enabled(t)
  /\ call' = [call EXCEPT ![s].phase = CASE t \in ThreadTool -> "queued"
                                          [] t \in CodeTool -> "starting"
                                          [] OTHER -> "running"]
  /\ files' = IF t \in CodeTool THEN files \cup {Work(s)} ELSE files
  /\ UNCHANGED <<registered, enabled, batch, threads, programs, stuck, batches>>

\* Files that the system refuses to write or to remove.
Refused(W) == stuck' = stuck \cup W /\ (W # {} => Cardinality(stuck') <= MaxStuck)

\* The language is another, or the file cannot be made or written: one that
\* was made stays, as nothing removes it yet.
CannotWrite(s, made) ==
  /\ call[s].phase = "created" /\ is_enabled(call[s].tool) /\ call[s].tool \in CodeTool
  /\ Settle(s, "error")
  /\ files' = files \cup made /\ Refused(made)
  /\ UNCHANGED <<registered, enabled, batch, threads, programs, batches>>

ThreadStarts(s) ==
  /\ call[s].phase = "queued" /\ Cardinality(threads) < Workers
  /\ threads' = threads \cup {Work(s)}
  /\ call' = [call EXCEPT ![s].phase = "running"]
  /\ UNCHANGED <<registered, enabled, batch, programs, files, stuck, batches>>

ProgramStarts(s) ==
  /\ call[s].phase = "starting"
  /\ programs' = programs \cup {Work(s)}
  /\ call' = [call EXCEPT ![s].phase = "running"]
  /\ UNCHANGED <<registered, enabled, batch, threads, files, stuck, batches>>

\* The time of the program is over first, as it may be if it is less than the
\* executor's: the program is killed, and its end waited for.
ProgramTimesOut(s) ==
  /\ call[s].phase = "running" /\ call[s].tool \in CodeTool /\ call[s].short
  /\ programs' = programs \ {Work(s)}
  /\ call' = [call EXCEPT ![s].phase = "killed"]
  /\ UNCHANGED <<registered, enabled, batch, threads, files, stuck, batches>>

\* The handlers of W come to their end, however they do, and remove their
\* files; those of kept the system does not let go.
Unlink(W, kept) ==
  /\ kept \subseteq W \cap files
  /\ files' = files \ (W \ kept) /\ Refused(kept)

\* The handler returns, an error perhaps, or raises, as it does when no program
\* can be started; the result is its own.
HandlerEnds(s, result, kept) ==
  /\ call[s].phase = "running" \/ (call[s].phase \in {"starting", "killed"} /\ result = "error")
  /\ Settle(s, result)
  /\ threads' = threads \ {Work(s)} /\ programs' = programs \ {Work(s)}
  /\ Unlink({Work(s)}, kept)
  /\ UNCHANGED <<registered, enabled, batch, batches>>

Waiting == {"queued", "starting", "running", "killed"}

\* Mutant of TimesOut: the file stays when the handler is cancelled.
TimesOutKeepingFile(s, kept) ==
  /\ kept = {} /\ call[s].phase \in Waiting
  /\ Settle(s, "timeout")
  /\ UNCHANGED <<registered, enabled, batch, threads, programs, files, stuck, batches>>

\* The time of the call is over, which began before that of its program: the
\* handler is cancelled where it waits, and nobody kills a program that runs; a
\* thread goes on, one not yet begun never does.
TimesOut(s, kept) ==
  /\ call[s].phase \in Waiting
  /\ Settle(s, "timeout")
  /\ Unlink({Work(s)}, kept)
  /\ UNCHANGED <<registered, enabled, batch, threads, programs, batches>>

\* What was left to itself comes to its end.
ThreadEnds(w) ==
  /\ w \in threads /\ \A s \in Slot : w = Work(s) => call[s].phase # "running"
  /\ threads' = threads \ {w}
  /\ UNCHANGED <<registered, enabled, batch, call, programs, files, stuck, batches>>

ProgramEnds(w) ==
  /\ w \in programs /\ \A s \in Slot : w = Work(s) => call[s].phase # "running"
  /\ programs' = programs \ {w}
  /\ UNCHANGED <<registered, enabled, batch, call, threads, files, stuck, batches>>

\* gather() is done: one result for each call, in their order.
Gather ==
  /\ batch = "running" /\ \A s \in Slot : call[s].phase = "settled"
  /\ batch' = "none"
  /\ UNCHANGED <<registered, enabled, call, threads, programs, files, stuck, batches>>

\* The client goes away: every task is cancelled and the batch has no results.
Cancel(kept) ==
  /\ batch = "running"
  /\ batch' = "none"
  /\ call' = [s \in Slot |-> IF call[s].phase = "settled" THEN call[s]
                             ELSE [call[s] EXCEPT !.phase = "settled", !.result = "cancelled"]]
  /\ Unlink({Work(s) : s \in {u \in Slot : call[u].phase # "settled"}}, kept)
  /\ UNCHANGED <<registered, enabled, threads, programs, batches>>

TNext ==
  \/ \E t \in Tool : register(t) \/ unregister(t) \/ enable(t) \/ disable(t)
  \/ \E asked \in Asked : ExecuteMultiple(asked)
  \/ \E s \in Slot : \/ RefuseCall(s) \/ Begin(s) \/ ThreadStarts(s)
                     \/ ProgramStarts(s) \/ ProgramTimesOut(s)
  \/ \E s \in Slot : \E W \in {{}, {Work(s)}} :
       \/ CannotWrite(s, W) \/ TimesOut(s, W)
       \/ \E result \in {"ok", "error"} : HandlerEnds(s, result, W)
  \/ \E w \in threads : ThreadEnds(w)
  \/ \E w \in programs : ProgramEnds(w)
  \/ Gather \/ \E kept \in SUBSET {Work(s) : s \in Slot} : Cancel(kept)

TSpec == TInit /\ [][TNext]_tvars

-----------------------------------------------------------------------------
(* Properties. *)

\* What a call leaves behind: a program or a thread that nobody waits for is
\* one of a call that timed out or was cancelled.  A temporary file stays
\* no longer than the handler that wrote it is at work, unless the system has
\* refused to write or to remove it.
LeftBehind ==
  /\ \A s \in Slot : Work(s) \in threads \cup programs /\ call[s].phase # "running" =>
       call[s].result \in {"timeout", "cancelled"}
  /\ \A w \in files \ stuck :
       \E s \in Slot : w = Work(s) /\ call[s].phase \in {"starting", "running", "killed"}
=============================================================================
