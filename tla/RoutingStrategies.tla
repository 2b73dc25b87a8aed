-------------------------- MODULE RoutingStrategies --------------------------
(***************************************************************************)
(* The routing strategies of providers/enhanced/strategies.py and the      *)
(* router that chooses one of them for a request.  A strategy is given the *)
(* candidates and picks one that is available; round-robin and lkgp        *)
(* remember something from one selection to the next.                      *)
(*                                                                         *)
(* Health, headroom, error rate and scores are in thousandths, and a cost  *)
(* is in thousandths of a dollar.  A random choice is any of its outcomes. *)
(***************************************************************************)
EXTENDS Integers, Sequences, SequencesExt

CONSTANTS Target,    \* a provider and one of its models
          Pool,      \* the lists of candidates a caller passes
          Session, NoSession,
          Nowhere,   \* what a session without a last target remembers
          Tokens,    \* max_tokens of a request
          Judge      \* the judge_model of the fusion strategy

\* ProviderCandidate.
Candidate == [id : Target, health : 0..1000, quota : 0..1000, cost : Nat, window : Nat,
              can : SUBSET {"vision", "reasoning", "tools"}, errors : 0..1000, uses : Nat,
              available : BOOLEAN]

ASSUME RoutingAssumption ==
  /\ NoSession \notin Session
  /\ \A pool \in Pool : pool \in Seq(Candidate) /\ pool # << >> /\ \A i, j \in DOMAIN pool :
       i # j => pool[i].id # pool[j].id
  /\ Tokens \subseteq Nat

VARIABLES
  lastIndex,         \* _last_index of the round-robin strategy, from 1
  lastGood,          \* _last_good_provider of the lkgp strategy
  pick,              \* history: the last selection
  cycle, turns       \* history: round-robin over one list, how often each

svars == <<lastIndex, lastGood, pick, cycle, turns>>

Lower(a, b) == IF a < b THEN a ELSE b
Upper(a, b) == IF a < b THEN b ELSE a

\* Those that are available, in the order of the list.
filter_candidates(pool) ==
  LET kept[n \in 0..Len(pool)] ==
        IF n = 0 THEN << >>
        ELSE IF pool[n].available THEN Append(kept[n - 1], pool[n]) ELSE kept[n - 1]
  IN kept[Len(pool)]

\* sorted(...)[0]: the first of those that score most.
First(list, scores) ==
  list[CHOOSE i \in DOMAIN list :
         \A j \in DOMAIN list : scores[i] > scores[j] \/ (scores[i] = scores[j] /\ i <= j)]

-----------------------------------------------------------------------------
(* Scores. *)

\* 1 / max(cost, 0.001): a candidate that is free scores 1000.
\* Mutant: the cost itself for its inverse.
CheapnessUpsideDown(c) == Upper(c.cost, 1)

Cheapness(c) == 1000000 \div Upper(c.cost, 1)

TaskFitness(c) == 500 + (IF "vision" \in c.can THEN 200 ELSE 0)
                      + (IF "reasoning" \in c.can THEN 200 ELSE 0)
                      + (IF "tools" \in c.can THEN 100 ELSE 0)

RelayScore(c) ==
  4 * Lower((c.window * 1000) \div 32768, 1000) + 3 * c.health + 2 * c.quota + Cheapness(c)

\* The closer the request fills the window the better; too small is 0.1.
FitScore(c, tokens) ==
  LET fit == CASE tokens = 0 -> 500
               [] tokens > c.window -> 100
               [] OTHER -> (tokens * 1000) \div c.window
  IN 4 * fit + 3 * c.health + 2 * c.quota + Cheapness(c)

\* Without the prompt-cache affinity, a random number that adds 240 to 300.
CacheScore(c) == (4 * c.health + 2 * c.quota + Cheapness(c)) \div 10

\* The terms that candidates differ in; that of the latency is below 0.0002.
AutoScore(c, tokens) ==
  20 * c.health + 15 * c.quota + 15 * Lower(Cheapness(c) \div 100, 1000)
  + 8 * TaskFitness(c) + 5 * (1000 - c.errors)
  + 5 * (IF tokens = 0 THEN 500 ELSE Lower((c.window * 1000) \div (2 * tokens), 1000))
  + 5 * (1000 \div (c.uses + 1))

-----------------------------------------------------------------------------
(* Selections. *)

AutoPick(list, tokens)   == First(list, [i \in DOMAIN list |-> AutoScore(list[i], tokens)])
Relay(list)          == First(list, [i \in DOMAIN list |-> RelayScore(list[i])])
BestFit(list, tokens) == First(list, [i \in DOMAIN list |-> FitScore(list[i], tokens)])
Healthiest(list)     == First(list, [i \in DOMAIN list |-> list[i].health])
MostHeadroom(list)   == First(list, [i \in DOMAIN list |-> list[i].quota])
LeastHeadroom(list)  == First(list, [i \in DOMAIN list |-> -list[i].quota])
LeastUsed(list)      == First(list, [i \in DOMAIN list |-> -list[i].uses])
Cheapest(list)       == First(list, [i \in DOMAIN list |-> -list[i].cost])

\* What each strategy without a memory may return.  Those that look for the
\* next reset sort by 1 - headroom, which puts the most headroom first.
Selected(strategy, list, tokens) ==
  CASE strategy \in {"weighted", "random", "strict-random"} -> ToSet(list)
    [] strategy \in {"priority", "least-used"} -> {LeastUsed(list)}
    [] strategy = "p2c" ->
         {c \in ToSet(list) : Len(list) = 1
                              \/ \E d \in ToSet(list) \ {c} : c.uses <= d.uses}
    [] strategy = "context-relay" -> {Relay(list)}
    [] strategy = "fill-first" -> {LeastHeadroom(list)}
    [] strategy \in {"reset-aware", "reset-window", "headroom"} -> {MostHeadroom(list)}
    [] strategy = "cost-optimized" -> {Cheapest(list)}
    [] strategy = "context-optimized" -> {BestFit(list, tokens)}
    [] strategy = "cache-optimized" ->
         {c \in ToSet(list) : \A d \in ToSet(list) : CacheScore(c) + 60 >= CacheScore(d)}
    [] strategy = "fusion" ->
         LET judges == SelectSeq(list, LAMBDA c : c.id = Judge)
         IN {IF judges # << >> THEN judges[1] ELSE AutoPick(list, tokens)}
    [] strategy = "pipeline" -> {Healthiest(list)}
    [] OTHER -> {AutoPick(list, tokens)}

\* StrategyFactory, the two that remember apart.
Strategy == {"priority", "weighted", "context-relay", "fill-first", "p2c", "random",
             "least-used", "cost-optimized", "reset-aware", "reset-window", "headroom",
             "strict-random", "auto", "context-optimized", "cache-optimized", "fusion",
             "pipeline"}

Picked(strategy, list, c) == pick' = [by |-> strategy, from |-> list, to |-> c]

\* Without a candidate that is available, select() raises and nothing changes.
Select(strategy, pool, tokens) ==
  LET list == filter_candidates(pool) IN
  /\ list # << >>
  /\ \E c \in Selected(strategy, list, tokens) : Picked(strategy, list, c)
  /\ UNCHANGED <<lastIndex, lastGood, cycle, turns>>

\* Mutant: the next index of the longer list before, or the end of this one.
NextIndexClipped(list) == Lower(lastIndex + 1, Len(list))

\* The index is taken modulo the number of those available now.
NextIndex(list) == (lastIndex % Len(list)) + 1

RoundRobin(pool) ==
  LET list == filter_candidates(pool)
      next == NextIndex(list)
      before == IF list = cycle THEN turns ELSE [c \in ToSet(list) |-> 0]
      counted == [before EXCEPT ![list[next]] = @ + 1]
  IN /\ list # << >>
     /\ Picked("round-robin", list, list[next])
     /\ lastIndex' = next
     /\ cycle' = list
     /\ turns' = IF \A c \in ToSet(list) : counted[c] > 0
                 THEN [c \in ToSet(list) |-> counted[c] - 1] ELSE counted
     /\ UNCHANGED lastGood

\* The target of the session while it is there; else the healthiest, which is
\* remembered when it is selected, whether or not it answers.
LastKnownGood(pool, session) ==
  LET list == filter_candidates(pool)
      known == SelectSeq(list, LAMBDA c : session # NoSession /\ c.id = lastGood[session])
      to == IF known # << >> THEN known[1] ELSE Healthiest(list)
  IN /\ list # << >>
     /\ Picked("lkgp", list, to)
     /\ lastGood' = IF session = NoSession THEN lastGood
                    ELSE [lastGood EXCEPT ![session] = to.id]
     /\ UNCHANGED <<lastIndex, cycle, turns>>

\* _select_strategy(): the router keeps no last targets, so that lkgp is not
\* reached, and every request has a model.
RouterStrategy(task, urgent, byCost, byQuality) ==
  CASE task = "coding" /\ byCost -> "cost-optimized"
    [] task = "reasoning" /\ byQuality -> "quality-optimized"
    [] OTHER -> IF urgent THEN "priority" ELSE "auto"

RouterStrategies ==
  {RouterStrategy(task, urgent, byCost, byQuality) :
     task \in {"general", "coding", "reasoning"}, urgent, byCost, byQuality \in BOOLEAN}

\* select_provider(): every provider counts as available; a strategy that the
\* factory does not know raises, and the first provider is taken.
SelectProvider(pool, strategy, tokens) ==
  LET all == [i \in DOMAIN pool |-> [pool[i] EXCEPT !.available = TRUE]]
      chosen == IF strategy \in Strategy THEN Selected(strategy, all, tokens) ELSE {all[1]}
  IN /\ \E c \in chosen : Picked(strategy, all, c)
     /\ UNCHANGED <<lastIndex, lastGood, cycle, turns>>

SInit ==
  /\ lastIndex = 0
  /\ lastGood = [s \in Session |-> Nowhere]
  /\ pick = [by |-> "none", from |-> << >>, to |-> Nowhere]
  /\ cycle = << >> /\ turns = << >>

SNext == \E pool \in Pool :
  \/ \E strategy \in Strategy, tokens \in Tokens : Select(strategy, pool, tokens)
  \/ RoundRobin(pool)
  \/ \E session \in Session \cup {NoSession} : LastKnownGood(pool, session)
  \/ \E strategy \in RouterStrategies, tokens \in Tokens : SelectProvider(pool, strategy, tokens)

SSpec == SInit /\ [][SNext]_svars

-----------------------------------------------------------------------------
(* Properties. *)

\* Over a list that stays the same, whatever was selected from other lists
\* before and is selected by other strategies in between, round-robin gives
\* no candidate two turns more than another (the index that it carries from
\* a longer list to a shorter one included).
RoundRobinFair == \A c, d \in DOMAIN turns : turns[c] - turns[d] <= 1

\* A candidate another one betters in every respect.
Bettered(c, d) ==
  /\ d.health > c.health /\ d.quota > c.quota /\ d.cost < c.cost
  /\ d.errors < c.errors /\ d.uses < c.uses
  /\ d.window >= c.window /\ c.can \subseteq d.can

\* The weights, bounds and orders of the scores never turn a ranking round:
\* no strategy that ranks candidates by what is good in them picks one that
\* another betters in every respect (fill-first and the two that look for the
\* next reset rank by headroom alone, little of it being what they look for).
\* And in the three scores that add a tenth of the inverse of the cost, that
\* term outweighs all the others: one that is free (at most $0.001) is always
\* preferred, whatever its health, its headroom and its window.
ScoresRank ==
  /\ pick.by \in {"context-relay", "cost-optimized", "headroom", "least-used",
                  "priority", "auto", "pipeline"}
       => \A d \in ToSet(pick.from) : ~Bettered(pick.to, d)
  /\ pick.by \in {"context-relay", "context-optimized", "cache-optimized"} /\ pick.to.cost > 1
       => \A d \in ToSet(pick.from) : d.cost > 1
=============================================================================
