-------------------------------- MODULE Skills --------------------------------
(***************************************************************************)
(* The skills of skills/: a request executes one skill, or a chain of      *)
(* them.  A skill first executes every skill that it depends on, each of   *)
(* which does the same again, puts the results into its prompt, and then   *)
(* asks the model, up to three times (executor.py, registry.py, router.py, *)
(* api_skills.py).  A parameter that has the name of a dependency is what  *)
(* the dependency is executed with.                                        *)
(*                                                                         *)
(* One request at a time, since requests share only the history.  A call   *)
(* of execute() under way is a frame of the stack; resolve(), which runs   *)
(* without a pause, has its own calls in path.                             *)
(***************************************************************************)
EXTENDS Naturals, Sequences, SequencesExt

CONSTANTS Skill, Unknown,  \* the registered skills, an id that is not one
          NoId,            \* a step of a chain that names no skill
          Deps,            \* dependencies of each, in the order of its file
          Needs,           \* skills with a required parameter
          Declares,        \* the results that each has a parameter for
          Hands,           \* the skills that each has a parameter for
          Quotes,          \* the results that each puts into its prompt
          Attempts,        \* RETRY_ATTEMPTS
          MaxDepth,        \* calls that Python nests
          MaxChain         \* bound: steps of a chain

ASSUME SkillsAssumption ==
  /\ {Unknown, NoId} \cap Skill = {} /\ Unknown # NoId /\ Needs \subseteq Skill
  /\ Deps \in [Skill -> Seq(Skill \cup {Unknown})]
  /\ Declares \in [Skill -> SUBSET Skill] /\ Quotes \in [Skill -> SUBSET Skill]
  /\ Hands \in [Skill -> SUBSET Skill]
  /\ Attempts \in Nat \ {0} /\ MaxDepth \in Nat \ {0} /\ MaxChain \in Nat

VARIABLES
  stack,    \* the calls of execute(), the innermost last
  path,     \* the calls of visit() in resolve(), the innermost last
  visited,  \* the ids that resolve() has visited
  chain,    \* the steps of the chain that are left
  context,  \* the results and the errors of its earlier steps
  answer,   \* what the request has come to
  asked     \* history: how often the model was asked, with which skills under way

kvars == <<stack, path, visited, chain, context, answer, asked>>

SkillId == Skill \cup {Unknown}

\* todo: what resolve() has put in order and was not executed yet; results,
\* errors: the dependencies that have had one.
Frame(s, valid) == [skill |-> s, valid |-> valid, phase |-> "check", todo |-> << >>,
                    results |-> {}, errors |-> {}, attempt |-> 0]
Top == stack[Len(stack)]
Goto(phase) == [stack EXCEPT ![Len(stack)].phase = phase]

UnderWay == {stack[i].skill : i \in DOMAIN stack}
NothingAsked == [C \in SUBSET Skill |-> 0]

KInit ==
  /\ stack = << >> /\ path = << >> /\ visited = {} /\ chain = << >> /\ context = {}
  /\ answer = "none"
  /\ asked = NothingAsked

-----------------------------------------------------------------------------
(* A request. *)

\* An exception that is no ValueError goes through every call to the client.
RaiseAll ==
  /\ stack' = << >> /\ chain' = << >> /\ answer' = "raised"
  /\ UNCHANGED <<path, visited, context, asked>>

Execute(s, valid) ==
  /\ stack = << >> /\ chain = << >> /\ answer = "none"
  /\ stack' = <<Frame(s, valid)>> /\ answer' = "single"
  /\ UNCHANGED <<path, visited, chain, context, asked>>

ExecuteChain(steps) ==
  /\ stack = << >> /\ chain = << >> /\ answer = "none"
  /\ chain' = steps /\ answer' = "chain"
  /\ UNCHANGED <<stack, path, visited, context, asked>>

\* What the earlier steps left becomes parameters of the next one, and a
\* parameter that the skill does not declare is refused.
NextStep(valid) ==
  /\ answer = "chain" /\ stack = << >> /\ chain # << >> /\ Head(chain) # NoId
  /\ LET s == Head(chain)
         declared == s = Unknown \/ \A c \in context : c.ok /\ c.skill \in Declares[s]
     IN stack' = <<Frame(s, valid /\ declared)>>
  /\ chain' = Tail(chain)
  /\ UNCHANGED <<path, visited, context, answer, asked>>

SkipStep ==
  /\ answer = "chain" /\ stack = << >> /\ chain # << >> /\ Head(chain) = NoId
  /\ chain' = Tail(chain)
  /\ UNCHANGED <<stack, path, visited, context, answer, asked>>

\* "params": null, which the request allows.
StepRaises ==
  /\ answer = "chain" /\ stack = << >> /\ chain # << >>
  /\ RaiseAll

EndChain ==
  /\ answer = "chain" /\ stack = << >> /\ chain = << >>
  /\ answer' = "done"
  /\ UNCHANGED <<stack, path, visited, chain, context, asked>>

\* The answer is sent; the next request.
Reset ==
  /\ answer \in {"done", "error", "raised"}
  /\ answer' = "none" /\ context' = {} /\ asked' = NothingAsked
  /\ UNCHANGED <<stack, path, visited, chain>>

-----------------------------------------------------------------------------
(* One call of execute(). *)

\* It returns to the skill that depends on it, to the chain or to the client.
Return(ok) ==
  LET s == Top.skill
      below == Front(stack)
  IN IF below # << >>
     THEN /\ stack' = [below EXCEPT ![Len(below)].results = IF ok THEN @ \cup {s} ELSE @,
                                    ![Len(below)].errors = IF ok THEN @ ELSE @ \cup {s}]
          /\ UNCHANGED <<context, answer>>
     ELSE /\ stack' = << >>
          /\ IF answer = "chain"
             THEN context' = context \cup {[skill |-> s, ok |-> ok]} /\ UNCHANGED answer
             ELSE answer' = (IF ok THEN "done" ELSE "error") /\ UNCHANGED context

In(phase) == stack # << >> /\ Top.phase = phase

\* The skill is looked up and its parameters are validated.
RefuseSkill ==
  /\ In("check") /\ (Top.skill = Unknown \/ ~Top.valid)
  /\ Return(FALSE)
  /\ UNCHANGED <<path, visited, chain, asked>>

\* visit(): left are the dependencies that its loop has not come to.
Visit(s) == [skill |-> s, left |-> Deps[s]]

Accept ==
  /\ In("check") /\ Top.skill # Unknown /\ Top.valid
  /\ stack' = Goto("resolve")
  /\ path' = <<Visit(Top.skill)>> /\ visited' = {Top.skill}
  /\ UNCHANGED <<chain, context, answer, asked>>

\* Mutant of VisitNext: a dependency that is not there ends the loop.
VisitNextUnlessMissing ==
  /\ In("resolve") /\ Last(path).left # << >>
  /\ LET d == Head(Last(path).left)
         rest == [path EXCEPT ![Len(path)].left = IF d = Unknown THEN << >> ELSE Tail(@)]
     IN /\ visited' = visited \cup {d}
        /\ path' = IF d \in visited \cup {Unknown} THEN rest ELSE Append(rest, Visit(d))
  /\ UNCHANGED <<stack, chain, context, answer, asked>>

\* The next dependency: visited only once, and only if it is there.
VisitNext ==
  /\ In("resolve") /\ Last(path).left # << >>
  /\ LET d == Head(Last(path).left)
         rest == [path EXCEPT ![Len(path)].left = Tail(@)]
     IN /\ visited' = visited \cup {d}
        /\ path' = IF d \in visited \cup {Unknown} THEN rest ELSE Append(rest, Visit(d))
  /\ UNCHANGED <<stack, chain, context, answer, asked>>

\* After its dependencies the skill itself is resolved; the outermost visit()
\* ends resolve().
VisitEnds ==
  /\ In("resolve") /\ Last(path).left = << >>
  /\ LET s == Last(path).skill
         last == Len(path) = 1
     IN /\ path' = Front(path)
        /\ stack' = [stack EXCEPT ![Len(stack)].todo = Append(@, s),
                                  ![Len(stack)].phase = IF last THEN "deps" ELSE @]
        /\ visited' = IF last THEN {} ELSE visited
  /\ UNCHANGED <<chain, context, answer, asked>>

\* resolve() lists the skill itself too.
SkipSelf ==
  /\ In("deps") /\ Top.todo # << >> /\ Head(Top.todo) = Top.skill
  /\ stack' = [stack EXCEPT ![Len(stack)].todo = Tail(@)]
  /\ UNCHANGED <<path, visited, chain, context, answer, asked>>

HasNext == In("deps") /\ Top.todo # << >> /\ Head(Top.todo) # Top.skill

\* A dependency is executed with the parameters that the skill has under its name,
\* whatever the request or the file put there, or else with none.
Descend(valid) ==
  /\ HasNext /\ Len(stack) < MaxDepth
  /\ LET d == Head(Top.todo)
     IN /\ d \in Hands[Top.skill] \/ valid = (d \notin Needs)
        /\ stack' = Append([stack EXCEPT ![Len(stack)].todo = Tail(@)], Frame(d, valid))
  /\ UNCHANGED <<path, visited, chain, context, answer, asked>>

\* What it has there is no dictionary, as when the request left it out: a TypeError.
HandsNothing ==
  /\ HasNext /\ Head(Top.todo) \in Hands[Top.skill]
  /\ RaiseAll

\* RecursionError.
TooDeep ==
  /\ HasNext /\ Len(stack) = MaxDepth
  /\ RaiseAll

\* build_prompt(): a required parameter that was given but is empty is refused.
PromptRefused ==
  /\ In("deps") /\ Top.todo = << >> /\ Top.skill \in Needs
  /\ Return(FALSE)
  /\ UNCHANGED <<path, visited, chain, asked>>

\* A result that is quoted and neither there nor a parameter is a KeyError.
BuildPrompt ==
  /\ In("deps") /\ Top.todo = << >>
  /\ IF Quotes[Top.skill] \subseteq Top.results \cup Declares[Top.skill]
     THEN stack' = Goto("ask") /\ UNCHANGED <<path, visited, chain, context, answer, asked>>
     ELSE RaiseAll

\* The model is asked; errors of the connection are tried again.
Ask ==
  /\ In("ask")
  /\ stack' = [stack EXCEPT ![Len(stack)].phase = "wait", ![Len(stack)].attempt = @ + 1]
  /\ asked' = [asked EXCEPT ![UnderWay] = @ + 1]
  /\ UNCHANGED <<path, visited, chain, context, answer>>

Retry ==
  /\ In("wait") /\ Top.attempt < Attempts
  /\ stack' = Goto("ask")
  /\ UNCHANGED <<path, visited, chain, context, answer, asked>>

\* Text, or an error, or the time-out of the whole, which includes the waits.
AskEnds(ok) ==
  /\ In("wait") \/ (In("ask") /\ ~ok)
  /\ Return(ok)
  /\ UNCHANGED <<path, visited, chain, asked>>

KNext ==
  \/ \E s \in SkillId, valid \in BOOLEAN : Execute(s, valid)
  \/ \E steps \in SeqOf(SkillId \cup {NoId}, MaxChain) : ExecuteChain(steps)
  \/ \E valid \in BOOLEAN : NextStep(valid) \/ Descend(valid)
  \/ SkipStep \/ StepRaises \/ EndChain \/ Reset
  \/ RefuseSkill \/ Accept \/ VisitNext \/ VisitEnds
  \/ SkipSelf \/ HandsNothing \/ TooDeep \/ PromptRefused \/ BuildPrompt \/ Ask \/ Retry
  \/ \E ok \in BOOLEAN : AskEnds(ok)

KSpec == KInit /\ [][KNext]_kvars

-----------------------------------------------------------------------------
(* Properties. *)

\* The skills that s depends on, at any distance: those in each set that holds
\* its dependencies and, with a skill, the dependencies of that.
Closed(S) == \A s \in S \ {Unknown} : ToSet(Deps[s]) \subseteq S
ReachedFrom == [s \in Skill |->
  {t \in Skill \ {s} :
     \A S \in SUBSET SkillId : Closed(S) /\ ToSet(Deps[s]) \subseteq S => t \in S}]
Reached(s) == ReachedFrom[s]

\* Around(s, N): from s two skills outside of N are reached that depend on each other.
Around(s, N) ==
  \E t \in (Reached(s) \cup {s}) \ N : \E u \in Reached(t) \ N : t \in Reached(u)
Cycles == [s \in Skill |-> Around(s, {})]

\* What a skill in a circle may be refused for: a required parameter, or the
\* parameters that another hands on to it.
Refusable == Needs \cup UNION {Hands[s] : s \in Skill}
Endless == {s \in Skill : Around(s, Refusable)}

\* Dependencies come first: before a skill asks the model each skill that it
\* depends on, at any distance, was executed for it and has a result or an
\* error, whatever the order and the repetitions in the files (resolve()).
DependenciesFirst ==
  \A i \in DOMAIN stack : LET f == stack[i] IN
    f.phase \in {"ask", "wait"} => f.results \cup f.errors = Reached(f.skill)

\* Without a cycle no call nests in a call of the same skill, and one request
\* for a skill asks the model at most Attempts times for each chain of skills
\* that depend on one another: what several need is executed for each of them,
\* and for none of them twice.
WorkBounded ==
  stack # << >> /\ stack[1].skill # Unknown /\ ~Cycles[stack[1].skill] =>
    /\ \A i, j \in DOMAIN stack : i # j => stack[i].skill # stack[j].skill
    /\ answer = "single" => \A C \in SUBSET Skill : asked[C] <= Attempts

\* A skill never asks the model if two skills that it needs, itself among them
\* or not, need each other: they are executed in turn until Python stops it.
\* Only parameters break the circle: one that a skill in it requires, or those
\* that a skill hands on to one in it, and are refused.
CyclesNeverAsk == In("ask") \/ In("wait") => Top.skill \notin Endless

\* The executions that a request makes, together.
ExecutionsSound == DependenciesFirst /\ WorkBounded /\ CyclesNeverAsk
=============================================================================
