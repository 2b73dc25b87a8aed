# Nexus, the Universal AI Chat Platform: a verification project

TLA+ models of the program's own core logic, the TLC runs that check them on
small instances, and TLAPS proofs of the properties that matter most. Paths are
relative to the repository. Line numbers of every modelled definition are in
`PROJECT.json` under `map`.

* [The system](#the-system): its parts, their state, how they interact, what is hard
* [The plan](#the-plan): modules, compositions, abstract specifications, theorems
* [The modules](#the-modules): what each models and how it corresponds to the code
* [The runs](#the-runs): what each checks, its bounds and fairness
* [The proofs](#the-proofs): what is proved, from what, along which argument
* [What the models show about the code](#what-the-models-show-about-the-code)
* [What is only model-checked, and what is not modelled](#what-is-only-model-checked-and-what-is-not-modelled)

## The system

A FastAPI backend (`backend/`) with a SQL database, and a browser frontend of
plain JavaScript modules (`frontend/js/`). The user picks a model of some
provider; the page posts the conversation; the backend asks the provider for a
stream, normalises it into canonical response events and sends these as
server-sent events; the page draws them; the turn is stored.

| part | state | operations | what is hard |
|---|---|---|---|
| **Response events** `backend/response_events.py` | per response: next sequence number, `started`, `terminal`, open blocks | one method per event, each with guards that raise or return nothing | order of guards and assignments; every path must leave the builder in a state the next call accepts |
| **Provider streaming loop** `backend/providers/__init__.py` `stream_response_events()` | tool round, accumulated tool calls, `received_terminal`, the builder | rounds of provider streams, forwarding of chunks, announcing of tool calls, five ways to end | streams that fail or break off at any point, in any round, with any blocks open; termination |
| **Chat endpoint and turn store** `backend/api.py`, `backend/models.py` | tables `chats` and `messages`; per request its chat, transaction and place | create or look up the chat, stream, persist the turn, clean up, delete a chat | concurrent requests and deletions; disconnects at every await; failing commits; a server stop |
| **Response controller** `frontend/.../response_controller.js` | last sequence, open blocks, text and reasoning buffers, animation-frame callbacks, terminal flag | accept or ignore each frame, buffer, flush | ordering of callbacks against frames; canonical and legacy frames of one response together |
| **Chat page** `chat.js`, `sidebar.js`, `core/state.js` | active chat, message list, generating flag, abort controller, the local state of every generation under way | send, regenerate, retry, edit, stop, new chat, open chat, delete chat | several asynchronous handlers over shared state; answers that arrive after the user has moved on |
| **Accounts and sessions** `backend/auth.py` | users, sessions, reset tokens | register, login, logout, forgot and reset password | check-then-act across awaits; the same token or login twice |
| **Rate limiting** `backend/ratelimit.py`, `ratelimit_redis.py` | hits per key and window in Redis and in memory, the requests between two checks | check_limit, reset_limit, fallback | window boundaries; a store that fails and comes back |
| **Resilience** `backend/providers/resilience/`, `resilience_integration.py` | metrics, cooldowns, lockouts, breakers of each provider; wrapped calls | record success or failure, wrap, reset, clean up | one fact kept in several places; late results; a reset while calls are under way |
| **Enhanced resilience** `backend/providers/enhanced/resilience.py` | breaker and lockout in one record per provider | ask, record, clean up | a question that changes the state; two times that run out apart |
| **Enhanced routing** `enhanced/strategies.py`, `config.py`, `integration.py` | the index of round-robin, last targets, the configuration and its file, one routed request | select, load and save, stream and fall back | keys that come and go between awaits; a restart in the middle of a stream; a file two writers change |
| **Provider adapters** `backend/providers/*.py` | the state of one stream | one wire format to chunks or strings | which reader expects which; calls that come in fragments |
| **Registry, model discovery, `llm.py`** | registry, keys, inaccessible models, the Ollama server | list, refresh, start Ollama, set keys | everything may change while a listing of several pages is put together |
| **Tools** `backend/tools/` | registry, calls of a batch, threads, programs, files | register, execute, time out, cancel | two times for one call; threads that nothing stops |
| **Skills** `backend/skills/` | calls nested in calls, the chain of a request | execute, retry, chain | dependencies repeated, missing or cyclic |
| **Context manager, capability orchestration, response intelligence** | none | pure decisions on the conversation | budgets and boundaries |
| **Retrieval, documents, web search, security, start-up** | files, configuration | I/O and text processing | mostly outside a model checker's reach |

How they interact. `api.chat_stream()` resolves the chat in the request's own
session and returns a generator; the ASGI server runs that generator and closes
it when the client goes away. The generator consumes
`stream_response_events()`, which consumes the adapter's stream and produces the
events of one builder. Every event goes to the client before the turn is
stored, in a second session. In the page, `runGeneration()` reads the frames one
by one; all but the error and chat-id frames go to a response controller, whose
handlers run at once or from an animation frame. The page's signals
(`core/state.js`) are shared by every handler and are read again after awaits.

What makes each part correct:

* a response is one well-formed event sequence with exactly one terminal event,
  whatever the provider does, and it comes to an end;
* the store holds whole turns only; what the client is told of a turn agrees
  with the store; a chat disappears only when its user says so;
* the page shows the text that was sent, once and in order, and its view of
  chats and turns agrees with the store;
* a session is valid only for a password that was valid; limits are limits;
* what is kept of an outage in several places agrees, and no lockout is cut short;
* what a provider sends is read once, in order and whole, whichever adapter and
  whichever reader; a routed answer is never a mixture of two streams;
* a listing agrees with what the providers offered while it was made;
* a skill asks the model after all it depends on; a tool call leaves nothing
  behind but what its time-out makes unavoidable.

## The plan

In this order, the most important behaviour first. Every module is written to be
proved about: parameters are CONSTANTS with assumptions, one action per
operation, invariants are conjunctions of named parts, and no operator is
RECURSIVE: what the code does by recursion is a stack that steps push and pop.

1. `ResponseEvents` (operators), `ResponseStream` and its abstract
   specification `ResponseLifecycle`; proofs.
2. `ChatStream` and its abstract specification `TurnStore`; proofs.
3. `ResponseController` and the composition `ResponseDelivery`; proofs about
   both, those of the composition resting on those of its parts.
4. `ChatPage`; proofs.
5. `Accounts`: users, sessions and reset tokens of `backend/auth.py`, with the
   lockout of `login()`; proofs.
6. `RateLimit`, `Resilience`, `EnhancedResilience`: what protects endpoints and
   providers; proofs about all three.
7. `ProviderWire`: the adapters with their readers; `ModelDiscovery`; proofs.
8. `RoutingStrategies`, `RoutingConfig`, `EnhancedStream`: the enhanced routing;
   proofs.
9. `Skills` and `Tools`; proofs.

All of these are done. Left: an abstract specification of sessions that `Accounts`
implements.

## The modules

### `ResponseEvents`: the event builder

Constant-level operators on a record that stands for a `ResponseEventBuilder`:
its `sequence`, `started`, `terminal` and `open` blocks, with the events sent so
far (`sent`) and whether a guard has raised (`raised`). `Emit` is `event()` with
its two guards and its bookkeeping in the order of the code; `BlockStart`,
`BlockDelta`, `BlockEnd`, `MessageEnd` and `ErrorEnd` are the methods on top of
it. `message_end()` raises on an open block, `error()` does not, exactly as in
the source. Contents of events are abstracted to their type and number.

### `ResponseStream`: the provider streaming loop

`stream_response_events()` as one process. `pc` is where the generator is:
`init` (before the first event), `round` (top of the tool-round loop),
`streaming` (reading a provider stream), `after` (the stream is over), `tools`
(tool calls announced), and the four ways to return: `ended` (a final finish
reason), `exhausted` (finish reason LENGTH), `failed` (an error event), `raised`
(an exception leaves the generator). A chunk is a record of which of its parts
are present: text, reasoning, tool-call fragments by index (with or without id
and name), usage, extra metadata, finish reason; `ReadChunk` is one pass of the
body of the inner loop, including the calls on the builder it makes.
`StreamEnds` and `StreamFails` end a provider stream. `StartTools`,
`DropAnonymousCalls`, `BadArguments` (a `ToolCall` whose arguments are JSON but
no object raises outside every `try`), `FinishTools` and `NoTools` are the code
after it, branch by branch. A provider is external: it may send any chunks.
`uncounted` is a history: the rounds that were dropped because no call had a name,
which the code does not count; `ProviderStreamsBounded` says how often a provider is
asked with them.

`ResponseLifecycle` is what a response promises, in one number: it is not
started, then open, then ended with `message_end` or `error`, and never
anything again. `ResponseStream` implements it (`ImplementsLifecycle`).

### `ChatStream`: the chat endpoint and the turn store

`POST /chat/stream` of several requests over the tables `chats` and `messages`,
with `DELETE /chats/{id}`. A request is `prepared` when its chat is resolved
(`CreateChat` or `ResolveChat`: one committed transaction), then `streaming`,
`persisting`, `committed` and `done`. `Fail` is an exception at any of these,
`Disconnect` is the `GeneratorExit` or `CancelledError` the server throws into
the generator at a yield or an await, and `CleanUp` is what the three error
paths do next: roll back, delete the chat if this request created it, and say
so to the client where the code does. `CleanUpCutOff` is a clean-up cancelled at
its own awaits; `NeverStarts` is a client that goes away before the generator is
first run; `ServerStop` ends everything under way.

A transaction is one step: the second session writes nothing before the final
`merge` and `commit`, and SQLite admits one writer. Deleting a chat deletes its
messages through the ORM cascade in `delete_chat()`, and through the foreign key
for the bare DELETE of the clean-up.

`TurnStore` is the store as a user may think of it: chats appear empty, whole
turns are added to chats that exist, chats go with all they hold.

### `ResponseController`: the frames reach the page

`createResponseController()` with one variable per variable of the closure.
`HandleCanonical` is the whole of `handleCanonical()`: the three filters and the
learning of ids in their order (`Ignore`), then the event (`Accept`), which
counts in `lastSequence` even if it is then found out of place. Requests for
animation frames and the flags that say one is due are kept apart
(`callbacks`, `scheduled`), because `flush()` clears the flags and cancels
nothing. A delta is represented by its sequence number, so what is drawn shows
which deltas it was made from. The environment is any frame at any time: other
message ids, repeated and reordered events, malformed JSON, legacy frames beside
canonical ones, or a server of the older protocol.

### `ResponseDelivery`: one response from the provider to the page

The composition: `ResponseStream` is the generator (`Gen!Generator`),
`ResponseController` the controller (`Ctl!HandleCanonical`, `Ctl!LegacyDone`,
`Ctl!Callback`), both by `INSTANCE` over the variables of this module. Between
them are the endpoint (`Relay`, `Persist`, `SaveFails`, `Disconnect`), a queue of
frames that may be lost with its connection, and the loop of `runGeneration()`
with what it makes of the result (`ReadEvent` to `Settle`, `Stop`).
`Seen` is where the vocabularies of the two sides meet: the backend sends
`tool_call_id` where the controller reads `tool_id`.

### `ChatPage`: several generations and the user

`runGeneration()` from await to await for several calls at once (`gens`), with
the signals of `core/state.js` they share, and every handler that touches them:
`Send`, `Regenerate`, `Retry`, `Edit`, `Stop`, `NewChat`, `OpenChat` (request and
answer apart), `Delete` (likewise). A step is what runs without an await; the
timers (0 ms before a request, 100 ms after an edit, 600 ms of "Done", the stop
button's minimum time) are places between steps, and nothing is assumed of which
fires first. The server does for each request what `ChatStream` lets it do:
`Resolve`, `Store`, `Fail`, `Gone`; the page sees its answer only through the
connection, which may break at any moment.

Two history variables serve the properties alone: `created` counts chats, and
`course` says how the page was used since it was last cleared (`Plain`,
`Irregular`, `Overlapping`). The code promises agreement with the store only for
an undisturbed course, and `course` is what makes that condition exact.

### `Accounts`: requests that overlap at the accounts

The handlers of `auth.py` for any number of requests at once, over the three
tables of `models.py`. A handler is cut at its commits: SQLite has one writer, so
the writes since the last commit, with the reads between them, are one step
(`Reset` marks the token, sets the password and deletes the sessions in one),
while what was read before a commit may be stale after it (`Count` and `Insert`,
`ChooseOld`, `DeleteOld` and `AddSession`, `FindToken` and `Reset`). `CheckLimit` and
`ResetLimit` are the calls of the store in memory. `Fail` is a request that ends
anywhere, what it has committed staying; `Restart` loses the store in memory and the
requests, and keeps the tables.

Its run is *Protection*, beside the other layers that protect; its definitions
`AInit`, `ANext`, `ASpec` bear an A for that reason.

Passwords are told apart by how often the account's was reset; sessions that have
expired are not kept, since every reader ignores them. `EndSession` stands for
expiry and for logout alike, whose second look at the session changes nothing:
what is gone by then needs no deletion. Tokens are kept when expired, until
`Purge`: a reset that has found one still succeeds. Histories: who registered an
account or added a session (`by`), what the session's password was, `guesses`, `uses`,
and `flying`, the logins under way when an account was last reset.

No property says "one" where the code does not make it so. "Local, single-user
authentication", "keep only the latest", "Invalidate ALL existing sessions" and
"Tokens are single-use" hold for requests that follow one another; for requests
that overlap the properties state the bound that is left: one by each of them.

### `RateLimit`: two stores and one limit

`RateLimitMiddleware.dispatch()` for several requests at once, from one check to
the next (`Arrive`, `Check`, `Pass`), over the stores of `ratelimit_redis.py`. Hits
are kept as ages in units of the window, so that the different edges of the two
stores (`Counted`: Redis forgets a hit as old as the window, the memory keeps it)
are told apart. `RedisAnswers` is Redis coming and going between any two checks;
what Redis refuses it has counted, what the memory refuses it has not. In Redis a hit
is a member named by its time, so that two hits of one value of `time.time()` are
one (`Check` with `same`). `admitted` is a history of what was let through and was new
to the store: a hit that Redis takes for an earlier one is in no list, and no bound is
claimed for those ([below](#what-the-models-show-about-the-code)).

### `Resilience`: one outage in several places

The `ResilienceManager` of `providers/resilience/`, whose operations run under its
lock and are one step each, with `with_resilience()` as two (`CallWrapped`, then
`WrappedReturns` or `WrappedRaises`), since the wrapped call is outside the lock. A
call keeps the manager it began with, so that one that ends after
`reset_resilience_manager` records in the old one (`old`); a provider enhanced twice
is wrapped twice and records twice (`times`). The clean-up thread takes its two
tables one after the other (`CleanCooldowns`, `CleanLockouts`). Time is in units of
30 s, and instants are kept as the time left.

### `EnhancedResilience`: a breaker and a lockout

One record per provider; `EBegin` and `EEnd` are the ends of a wrapped call, a
cancelled one (`ECancel`) recording nothing. `EAsk` is the question of the router that
half opens a breaker; a question that changes nothing is no step.

### `ProviderWire`: four adapters, three readers

What each of the four kinds of adapters (OpenAI-compatible; Gemini, Anthropic and
the LiteLLM fallback; NVIDIA; Ollama) makes of a piece of a stream, with and without
metadata, and what a reader makes of that: the facade, which expects chunks, a
skill, which expects strings, and a facade that asks for metadata, as
`docs/response-protocol.md` describes it. An adapter is a generator, so parsing and
reading a piece is one step (`Receive`). A piece with text and reasoning is read text
first by the facade, reasoning first from adapters that yield strings (`Reads`,
`Strings`), and `NothingLost` states the order for each reader (`Owed`). Tool calls come in pieces that interleave;
the index by which they are put together may be lost on the way (`ParseLiteLLM`).

### `ModelDiscovery`: listings while everything changes

Two listings at once (`ListModels` with its attempts to start Ollama, and
`RefreshModels`), page by page and provider by provider, while keys, marks of
inaccessible models, the Ollama server and the process itself change. A history
(`since`) keeps, of each listing, what was marked or open while it was made.

### `RoutingStrategies`, `RoutingConfig`, `EnhancedStream`: the enhanced routing

`RoutingStrategies` has every strategy as the set of candidates it may return
(`Selected`; a random choice is any of its outcomes), the two that remember apart,
and the router's own choice of a strategy. Scores are integers in thousandths.
`RoutingConfig` is the configuration in memory and its YAML file, which a person may
write too; a file is `named` if its entries repeat their keys, which the program's
do and its loader refuses. `Customize` is a person who changes an entry of the
program's file, `Write` one who writes a file that can be loaded; `FileAgrees` is
what the code does keep, and that a start loads the file there is (`FileIsLoaded`)
is a finding. `EnhancedStream` is one request from await to await: the
key of the model's provider, those of all providers, the choice, the stream, and the
original implementation that starts over after any exception.

### `Skills`: calls nested in calls

A stack of calls of `execute()`: each resolves what it depends on, executes every one
of these, which do the same again, and then asks the model. `resolve()` is a
depth-first search; the calls of its `visit()` are a stack of their own, `path`, and
`Accept`, `VisitNext` and `VisitEnds` are its steps. It never awaits, and nothing
else moves until it is over. An exception that is no `ValueError` goes through all
calls (`RaiseAll`). A chain hands the results of its steps on as parameters. A skill
hands on to a dependency what it has under its name (`Hands`, `Descend`): valid
parameters, some that are refused, or something that is no dictionary, a `TypeError`
(`HandsNothing`); a dependency it has nothing for is executed without parameters.
`PromptRefused` is a required parameter that was given but is empty.

Against this search stands what it is to compute, said without one: `Reached(s)` are
the skills in every closed set that holds the dependencies of *s*.
`DependenciesFirst` compares the two when a skill asks the model. The history `asked`
counts by the set of skills under way, because a skill that two others need is
executed for each of them: `WorkBounded` says that no circle and no chain of
skills is gone through twice. `CyclesNeverAsk` says what becomes of a circle: nobody in it
or above it ever asks the model, unless the circle goes through a skill that may be
refused: it requires a parameter, or another skill hands parameters on to it
(`Refusable`). Only circles among the other skills are `Endless`.

### `Tools`: calls with two times

A batch of calls (`execute_multiple()`), each a coroutine, a thread of a pool with
few workers, or a program with a temporary file. The file is made and written before
the `try` that removes it: `CannotWrite` is a write that fails and leaves the file
(`stuck`), or makes none; `Begin` one that succeeds, and `ProgramStarts` the process.
`TimesOut` is the executor's time, which begins before the file and the process are
made; `ProgramTimesOut` that of the program, which may be over first if it is the
shorter one, and is followed by a wait for its end, where the executor's may still
be over (`killed`). `Unlink` is the `finally`, whose removal may fail.
`ThreadEnds` and `ProgramEnds` are what nobody waits
for any more. The registry changes while calls are under way.

## The runs

Every passing run explores all its states; the others stop at a counterexample. Bounds are constants of the
modules; in every module each bound is a conjunct of the action it limits. Type
invariants are part of the inductive invariants that are proved
([below](#the-proofs)) and are not run again.

| run | asks | bounds | states |
|---|---|---|---|
| ResponseStream | `WellFormedResponse`, `ProviderStreamsBounded`, `ImplementsLifecycle` | 2 tool rounds, 2 call indexes, 3 provider streams of 2 chunks | 76 536 |
| ResponseStreamTruncated | `TruncatedStreamIsError` (violated) | 2 tool rounds, 2 indexes, 2 streams of 2 chunks, all calls named | - |
| ChatStream | `MessagesHaveChat`, `NoHalfTurn`, `OutcomeMatchesStore`, `EmptyChatHasCreator`, `AcknowledgedChatSurvives`, `ImplementsTurnStore`, `RequestsEnd` | 2 requests, 2 chat ids, 1 delta | 93 745 |
| ChatStreamCleanUp | `CleanUpOnlyOrphans` (violated) | 2 requests, 1 chat id | - |
| ResponseController | `InOrder`, `ClosedBlocksDrawn`, `NothingStuck`, `NothingAfterEnd` | 2 message and request ids, 1 tool id, sequence 0 to 4, 2 outcomes; ids symmetric | 8 684 |
| ResponseDelivery | `TextConserved`, `SavedIsStored`, `FailureIsShown`, `EventuallySettled` | 2 tool rounds, 2 indexes, 3 streams of 2 chunks | 57 362 |
| ChatPage | `ReadyAtRest`, `OneAtATime`, `AnswersAreOwn`, `PageAgrees` | 1 chat at first, 2 generations, 1 chat opened or deleted | 6 272 072 |
| ChatPageEnds | `GenerationsEnd` | 1 chat at first, 2 generations | 211 320 |
| Protection | `OutagesCoherent`, `OpenIsLocked`, `AdmittedBounded`, `AccountsOverlap`, `SessionsOverlap`, `StaleSessionsOverlap`, `TokensOverlap`, `GuessesBounded` | 1 provider with 1 model, 1 call wrapped up to twice; 3 calls of the enhanced layer; 2 requests with 2 limits of 2; accounts: 2 requests, 2 names, 2 session numbers, 1 token, 1 login attempt, requests and names symmetric; see below | 2 908 157 |
| Services | `RoundRobinFair`, `ScoresRank`, `FileAgrees`, `StreamsWhole`, `ListingsSound`, `NothingLost`, `CallsAreOwn`, `ExecutionsSound`, `LeftBehind` | see below | 1 297 090 |
| RoutingConfigLoaded | `FileIsLoaded` (violated) | 2 providers | - |
| ProviderWireTyped | `TypedPath` (violated) | 3 pieces, the facade reads | - |

*Protection* and *Services* put modules side by side that share no state: a
behaviour is one of one module (`part`) and leaves the others in an initial state, so
that the states add up and do not multiply.

Why the bounds are enough.

* *ResponseStream.* Two tool rounds are the fewest in which a round follows
  another, so that flags set in one are stale in the next; three provider streams
  leave room for an uncounted round (all calls anonymous); two chunks per stream let a
  block be opened by one and closed or left open by another; two indexes are
  one named and one anonymous call in one round. `MCChunks` leaves out only
  combinations that go through the same branches independently.
* *ChatStream.* Two requests and two chats: a request on a chat that another
  request creates, deletes or fills. No property relates three requests.
* *ResponseController.* Five sequence numbers and two message ids cover a
  block opened, filled, flushed, reopened and filled again with a callback of the
  first period still to come; two outcomes cover a repeated end.
* *ResponseDelivery.* As *ResponseStream*, with the chunks
  the controller tells apart.
* *ChatPage*, *ChatPageEnds.* Two
  generations are what overlaps: every handler meets the flags of one other. Random
  walks with three generations and two moves found nothing more. One move in the
  sidebar is one chat opened, or deleted, in any state of the two.
* *Protection*, accounts. Two requests and two names: every pair of handlers overlaps, on the
  same account or on two. A number for a session is used again once nothing
  refers to it, so two of them bound the sessions at a time and not their
  succession; three sessions were explored once, with the same result.
  One token is purged, expires and is found by both requests; one attempt is the
  smallest limit, and the bound of `GuessesBounded` is reached with it.
* *Protection*, the others. Thresholds are scaled down and keep their order: a lockout after one
  failure, a breaker that opens after two and closes after two, so that a result
  falls before, on and after each of them. One provider: `Resilience` relates no two,
  and the proof is for any number. A call wrapped twice is the double recording. Three calls of the enhanced layer are two late results and
  a probe. The window is one unit and the limit two: a hit is younger than the
  window, as old, and older; two requests between their checks, one address and one
  user whose keys are shared by the two scopes.
* *Services.* Lists of candidates of one to three, so that the index of round-robin
  meets a shorter list, with costs of zero, candidates that are down, and pairs where
  one betters the other. Two providers in the configuration, so that an
  entry of the program's stands beside one of a person's, three in the
  routed stream (one that needs no key), four pieces of text: two before and two
  after a restart. Two listings, two pages, a name that is filtered, two providers
  with one prefix (as `openai` and `omniroute` have it), one retry. Three pieces of a
  stream with two interleaved tool calls. Eight skills with a repeated, a missing and a
  self-dependent one, one that is reached in two ways, one that quotes a result it
  has a parameter for, and three circles, the second
  broken by a required parameter and the third by parameters that are handed on, and
  chains of two. Two calls in two batches with one worker
  thread: the second batch meets what the first has left; one
  file that cannot be written or removed (`MaxStuck`), which is told from all others.


Deadlock is off where the system really may stop: a generator that has
returned, requests that are all over, a settled page, a user who does nothing.

Fairness, where a run has a liveness property.

* *ChatStream*: weak fairness of `Serve(r)` for each request. The event loop
  resumes each coroutine whose await is over, and each await of the body is on a
  provider or on the database, which answer or time out. Clients, deletions and
  server stops are not fair.
* *ResponseDelivery*: weak fairness of the endpoint and of the page's loop. Stop,
  a broken connection, a disconnect and animation frames are not fair: a
  background tab gets no animation frames, and the answer is settled all the same.
* *ChatPageEnds*: weak fairness of `Progress`, the browser's timers and
  microtasks and the server's work together; nobody has to press anything.

Runs that expect a violation each show one disagreement of the code with what a
comment or a document of the repository says; see
[below](#what-the-models-show-about-the-code).

## The proofs

Every theorem holds for all values of the constants that satisfy the named
assumptions of its modules (`ConstantsAssumption`, `ChatStreamAssumption`,
`ControllerAssumption`, `DeliveryAssumption`, `ChatPageAssumption`,
`AccountsAssumption`, `ResilienceAssumption`, `EnhancedAssumption`,
`RateLimitAssumption`, `RoutingAssumption`, `RoutingConfigAssumption`,
`EnhancedStreamAssumption`, `DiscoveryAssumption`, `ToolsAssumption`,
`SkillsAssumption`; TLC evaluates each in the runs). They say no more than the code makes so: bounds are natural
numbers, `None` is none of the ids, places for requests are finite, there is a limit
for the rate limiter to check, candidates of one list have different ids, a provider
has at least one page. `MaxChunks`, `MaxStreams`, `MaxSequence`, `MaxSessions`,
`MaxTokens`, `MaxGens`, `MaxMoves`, `MaxHits`, `MaxPieces`, `MaxBatches`, `MaxStuck`,
`MaxDepth` and `MaxChain` are therefore no bounds on the result.

All invariants and action properties the passing runs check have a theorem, and so has
every refinement; what is left is liveness (*Only model-checked*). The theorems
without a run's property are types, inductive invariants, and facts about events
that a reader of the loop would ask for.

Induction over data is needed in several places (the greatest of a set, the first
of a list that is best, the text of a growing stream), and the theorems of the library for it
take an operator, which the provers here cannot instantiate. The proofs use its
contrapositive for sets: a set of numbers that is not empty has a least element
(`LeastNat`, from `WFMin`), so a least place where something fails has a predecessor
where it holds. Even that a recursive function has the values it should is
proved so, through the least number up to which none exists.

**`ResponseStreamProofs`** begins with the operations of the builder. `Sound(b)` says
that the flags of a builder mean what they should of the events it has sent, and
that these are well formed; each operation keeps it, by the one lemma `SentSound` about
appending events that the protocol permits. `Keeps(b, c)` says that no event was taken
back. The inductive invariant of the loop is `IInv == TypeOK /\ BuilderInv /\ RoundInv`.
`WellFormedResponse` alone is not inductive: whether the
next event is well placed depends on the builder's flags agreeing with the events
(`Sound`) and on the builder being open wherever the generator goes on
(`BuilderInv`). One lemma, `Step`, takes the actions one by one and shows at the
same time that each is a step or a stutter of the abstract life cycle, because
both follow from the same facts about the builder. From it: `TypeInvariant`,
`ResponsesAreWellFormed`, `NoGuardTrips`, `ReturnsAreTerminal`, `EventsStay`, `Refinement`.
`StreamsAreBounded` holds for any chunks: a provider is asked at most `MaxToolRounds`
times and once more for each round that was not counted, since between two streams
lies a round that was counted or one that was not. How many of the latter there are
nothing in the code bounds.

**`ChatStreamProofs`**: `IInv` (defined in `ChatStream`, so that TLC can
evaluate it) adds to the properties what a request knows of its own turn at each
place (`TurnInv`, `CommitInv`, `ErrorInv`), and that a chat without messages has
a creator. The creator clause is needed because a clean-up deletes a chat by id:
without it nothing would say whose the chat was. `RemoveChat` and `MoveRequest`
are the two lemmas that the steps of deletion and of mere progress share. From
it: the four invariants, `AcknowledgedChatsSurvive` (an action property) and the
`Refinement` of `TurnStore`.

**`ResponseControllerProofs`**: `InOrder` is not inductive, because a new delta is
compared with all earlier ones only through `lastSequence`; `OrderInv` adds that
nothing received lies beyond it. `NothingAfterEnd` needs that an end leaves no
block open (`EndInv`), so that with `ClosedBlocksDrawn` the callbacks still to run
find empty buffers, and that a tool id is held only by an open block (`OpenInv`),
so that the tool buffer finds no drawing either. From it: the type invariant, the
three invariants and `QuietAfterEnd`.

**`AccountsProofs`**: none of the properties is inductive alone; each needs what
requests under way have reserved. `RegisterInv`: who has found no account has
registered none. `SessionInv`: who is about to add a session has selected or
deleted those it added before, and belongs to an account. `StaleInv`: who holds an
old password was met by the reset. `TokenInv` and `GuessInv` are sums:
the uses of a token and the requests that have found it are together at most
`Capacity`; guesses and admitted attempts are at most the hits and `Capacity`. `Typed`
adds to the types that a request being served names a user, without which
`Insert` would not keep them. The lemma `Counting` is all that is used of
cardinalities. From it: `TypeInvariant` and one theorem for each invariant of the
run. These hold for every number of requests, which the run cannot show.

**`ResponseDeliveryProofs`**: what holds of the generator is not proved again. The
module has an instance `P` of `ResponseStreamProofs` over the same variables, and the
lemmas `SameOperators` to `SameBound` say that its generator is the one of the
composition. Of the controller, `Handles(f)` says in one formula what any event does
to it; `Handled` shows it, on `Reported` and `Acted`, event type by event type. The two are held together by
`Aligned`: while the page reads there is a number *k* of events it has handled, the
controller is where the first *k* events of the response leave it (its last sequence
number, whether it has begun and ended, whether a text block is open), and the
wire holds the rest in order. This is what `TextConserved` needs, whose own statement
says nothing about the blocks that decide whether a delta is drawn or dropped.
`CompleteInv` carries the text through the exits of the page: whatever leaves the reading without an
error has read the whole response and has been drawn. `FailureInv` says where the
news of a failure is between the endpoint and the page. From them: `NoTextIsLost`,
`SavedAnswersAreStored`, `FailuresAreShown`, and `DeliveryIsBounded`, the bound of the
generator in the composition.

**`ChatPageProofs`**: `IInv` has nine parts and each has a section. `StageInv` says of
each generation that the place of the page and that of the server agree (nothing is
asked before `Post`, nothing answered before there is a chat). `RestInv` names, for
each flag, the generation that will clear it; `ReadyAtRest` follows because there is none
left. It is why the button needs two cases: a generation that has lost
`_genCounter` clears nothing. `OneInv` adds the edit that waits for its 100 ms to the
generations at work. `AnswersAreOwn` is about what is shown, so `ChatsOwn` and
`BodiesOwn` say the same of what the server has and of what `openChat()` was answered,
`MovesInv` that nothing is on its way to a chat that is not the active one, and
`PageOwn` of the page once no chat is being opened. `PageAgrees` is the hardest:
`PlainInv` has to say what the page and the server
have at each place of a turn (`Turn`: the page one question ahead, then the server
one turn ahead, then agreement), that no generation works at the server unseen
(`Tidy`), and that what `openChat()` was answered is still current. From it:
`PageTypes`, `RestIsReady`, `OneGeneration`, `PageShowsItsOwn`, `PageShowsTheChat`.

**`ProtectionProofs`**, about the three layers that protect.

* `RateLimit`: `AdmittedBounded` compares what was let through with a limit, while the
  store compares what it still has. `RateInv` says of every key and store that both lists
  are in the order of age (`Ordered`), and that, counted from the youngest on, each hit that was let
  through is at least as old as the one kept at the same place (`Covers`): so
  whatever the store has forgotten was let through a window ago. It holds for the
  hits that Redis counts and refuses, for those it takes for an earlier one (which change
neither list), and for both edges of the window. From it: `RateIsLimited`.
* `Resilience`: `RInv` is the types and `OutagesCoherent`, which is inductive
  with them; the work is in what one result does. `Sound(s, p)` says that metrics and
  tables agree of provider `p` and are what they were of every other; `Succeeded`,
  `Lockout` and `Failed` are shown to keep it, so that a wrapper that records twice needs
  no argument of its own, and `RecordKeeps` brings it back to the whole state. Of the
  tables all that is used is what `Left` finds after an entry was put, dropped or grew older
  (`LeftOfPut` and the lemmas after it). `LockoutsAgree` needs that a failure names
  a model of the provider that failed, which is where `Owner` comes in. A breaker is
  `Coherent` by itself. From it: `ThmOutagesCoherent` and `ThmResilienceTypes`.
* `EnhancedResilience`: `Good(m)` is `OpenIsLocked` of one record with its types,
  and every operation keeps it. The argument about the two times is in `TickGood`: what
  is left of the lockout and the age of the state add up to the same until one of them
  stops, and then the other is enough. It needs `ETimeout < ELockTime` nowhere, and
  `ELockAfter <= EFailureThreshold` where the breaker opens. From it: `ThmOpenIsLocked`
  and `ThmEnhancedTypes`.

**`ServicesProofs`**, about the services around the request path.

* `RoutingStrategies`: `FairInv` says that the candidates with a turn more are the last *m* of
  the list before `lastIndex`, counted round (`Rotation`); a list of another length
  starts a new count and leaves the index anywhere. `ScoresRank` needs no invariant: it
  is what a score does. Each score is shown to be monotone in each of its terms
  (the integer divisions are where this could go wrong), the inverse of the cost to
  outweigh the rest, and a selection to be the first with the best score. From them:
  `RoundRobinIsFair`, `SelectionsRank`.
* `RoutingConfig`: `CInv` adds to `FileAgrees` that a file which can be loaded is a
  person's, and that a configuration which cannot be saved came from such a file (why
  an update that raises leaves the file a person's). `ThmFileAgrees`.
* `EnhancedStream`: `QInv` adds to `StreamsWhole` where the text comes
  from at each phase: none before the choice, one key while streaming, and after the
  restart one key again. `ThmStreamsWhole`.
* `ModelDiscovery`: a finished listing is sound because an unfinished one is, page by
  page: `ReadSoFar` (it has what was on the pages it is past), `TakenOpen` (what it has
  was open when it was taken) and `MarksKnown` (the two histories follow every
  change). `ListingsAreSound`.
* `Tools`: `Equipped` says what a call that has not ended may own, without which nothing
  says that a thread at a place belongs to the call there. `OnlyTheseAreLeft`.
* `ProviderWire`: for `NothingLost` the invariant is equality until an error, and the lemma
  `YieldsAll` is what has to be shown of each adapter: of a piece it yields all there
  is to pass on, in one chunk or in strings. For `CallsAreOwn`, `CallsInv` tells apart how the index
  reaches the reader. Without it, everything is put into the first call, and the first piece must be a
  call's first (`Sendable`: a provider begins a call with its name and id), so the
  accumulator is never taken by a later piece;
  with it, Ollama's whole calls come together once. `NothingIsLost`, `CallsRunAreOwn`.
* `Skills`: `SkillsInv` follows the search and the stack. `ListedSoFar` is the
  invariant of a depth-first search for any graph, circles included: what was visited
  is open or listed, the listed ones have all their dependencies among the visited, and
  what an open one has not come to is still in its `left`; when nothing is open, the
  listed ones are a closed set, and so all of `Reached`. No induction over paths is
  needed, since `Reached` is defined by closed sets (`ReachedWithin`, `ReachedOn`).
  `Shared` then splits these between what a call has to execute, is executing and has
  executed. Two invariants rest on it. `CirclesSound`: nobody in an endless circle was ever
  executed to its end but for those that were refused; one that asks has executed all it
  reaches, so it would need an earlier one in the circle to have asked. `AskedSound`: a chain of skills
  that was gone through is `Finished`, recognised by a dependency that has
  settled under the calls around it, and the chain under way never is
  (`UnderWayNotFinished`), which is why no chain begins a second time. The lemma `SkillsMove` reduces
  all actions to four moves of the stack. `ExecutionsAreSound`.

## What the models show about the code

What the passing runs and proofs establish: the event stream of a response is
well formed and terminated on every path, the guards of the event builder are
unreachable from the loop, the store holds whole turns whatever the order of
commits, deletions, disconnects and stops, the controller draws each delta once and
in order whatever arrives, an answer the page keeps as complete is the stored one,
the page always returns to a state in which the user can send, what overlapping
requests leave behind in the accounts is bounded by how many overlap, what is kept
of a provider's outage agrees wherever it is kept, a routed answer is one stream and
perhaps all of another after it, and a listing, an execution of skills and a batch of tool
calls come out as they should whatever changes meanwhile.

Where the code does not do what the repository says of it (`findings` in
`PROJECT.json`, one run each):

* *ResponseStreamTruncated*: `received_terminal` is not reset between tool
  rounds; a later stream that breaks off ends as `max_tool_rounds_reached`.
* *ChatStreamCleanUp*: the clean-up of a request that created its chat deletes
  the chat with a committed turn in it, its own or another request's.
* *RoutingConfigLoaded*: the configuration file the program writes, "Customize as
  needed", is one it can never load: its entries repeat their keys, the constructors
  raise, and the defaults take its place, with them what was saved in it and what a
  person has changed in it.
* *ProviderWireTyped*: the facade does not ask for metadata, so that NVIDIA, Gemini,
  Anthropic and the LiteLLM fallback yield strings, and the first piece of text of
  any answer of theirs ends it in an error.

Smaller observations made while modelling, visible in the models and not runs of
their own:

* after an exception a second `message_start` with sequence 0 follows the first
  one's events (`api.py:597`), though `docs/response-protocol.md:40` promises
  increasing sequence numbers; the controller drops the `error` event behind it
  (its number 1 is not new once anything followed the first start), and only the legacy `error` frame is seen. That frame
  also overwrites the category and the retry hint of a canonical error that was
  accepted;
* of several tools announced in one round the page shows the first, since
  `response_controller.js` reads `tool_id` and the backend sends `tool_call_id`;
* opening another chat does not abort the generation, and its answer is appended to
  the chat that was opened; the partial answer that Stop reports as saved is on the
  page only;
* Stop does not flush the controller: text that is buffered for the next
  animation frame is not in the partial answer;
* an answer without text (reasoning only aside) is shown as "Generation stopped"
  although nobody stopped it (`chat.js:1038`);
* Stop while the request is being connected is shown as a network error, because
  `apiFetch()` wraps the `AbortError`;
* tool calls without id or name are dropped and their round is not counted, so
  `MAX_TOOL_ROUNDS` does not bound a provider that keeps sending them;
* the answers of two quickly opened chats may be shown in either order under the
  second; opening a chat that is gone leaves the messages of the one before in
  the list, hidden;
* New chat during a generation: if the abandoned answer had begun, the empty page
  adopts its chat and its partial answer;
* between `setSendButtonState(true)` and the increment of `_genCounter` lies a
  timer of 0 ms in which an earlier generation may still reset the button; the
  button is right again when all is over (`ReadyAtRest`), which is what the comment
  at `chat.js:25` is after.
* *resilience*: no caller notifies a circuit breaker of a failure, though the comment
  at `resilience/__init__.py:362` says it "always gets notified"; a lockout that names
  no model goes into the table of models under the provider's id; nothing on
  the path of a request uses this layer;
* *enhanced resilience*: successes counted while the breaker was open count for the
  half-open one, which then closes after fewer probes than its threshold;
* *rate limit*: an anonymous login is counted twice under the one key of its address,
  so that the third attempt is refused where
  `docs/PR-PLAN-security-hardening-v1.1.md:253` says the sixth; in Redis a hit is
  `zadd(key, {str(now): now})` (`ratelimit_redis.py:121`), so that hits of one value of
  the clock count once and all of them are let through, although "concurrent requests
  from the same key never race" (`:84`): the bound that is proved is one on instants;
* *adapters*: a skill fails with Ollama and the OpenAI-compatible providers, which
  always yield chunks; the reasoning of a model becomes part of a skill's result;
  `parse_litellm_stream_chunk()` leaves out the index, so that two calls of one
  round are merged into the first; NVIDIA passes on no tool call; an Ollama piece with
  a call and no text ends the reading; a LiteLLM stream that breaks off is a
  complete answer to a skill;
* *model discovery*: a refresh before anything has used the registry is a 404; `llm.py`
  drops the key it is given; `openai` and `omniroute` share a prefix, so that a mark
  on a model of the one hides that of the other;
* *routing*: "quality-optimized" is no strategy of the factory, and the first provider is
  taken; the last known good provider is never asked for; the inverse of the cost
  outweighs health and headroom in three of the scores, so that a free provider wins
  whatever its state; `reset-aware` and `reset-window` sort by 1.0 - headroom, which
  puts the most headroom first, as `headroom` does, where their comments say "Lower
  quota headroom means closer to reset" (`strategies.py:321`) and "prioritize those with
  less quota headroom" (`:338`): the sort is turned round. `Selected` has them as the
  code does, and `ScoresRank` demands nothing of these two;
* *routed stream*: `provider_id` has been overwritten by the loop over the candidates when
  the code falls back to "the original provider", so that the last provider is
  asked with the key of the model's own; the variant that yields events always fails at its end and starts
  over, since the builder has no `message_finish()`;
* *skills*: a cycle ends in a `RecursionError`, and a quoted result that is missing in a
  `KeyError`, neither of which any handler catches; results of a chain are refused as
  extra parameters by skills that do not declare them; a skill executes
  everything below it, and so does everything below it, so that what is shared is asked
  for many times over; a parameter named like a dependency is handed on to it, and one
  that is refused there ends the circle it is in; a step of a chain with `"params":
  null`, or a parameter under a dependency's name that is none, is a `TypeError`
  nobody catches;
* *tools*: the program's own time and the executor's are both 30 s by default: if the
  executor's is over first, nobody kills the program, and it may be even where the
  program's is shorter, since that clock starts later; a temporary file whose writing
  fails stays, because it is made before the `try` that removes it
  (`builtin.py:207-209`).

## What is only model-checked, and what is not modelled

*Only model-checked.* All liveness (`RequestsEnd`, `EventuallySettled`,
`GenerationsEnd`): fairness and ENABLED are out of the prover's reach. Nothing else: every
invariant and action property of a passing run is also proved. The findings are
counterexamples of TLC.

*Abstracted.* Contents of text, of tool arguments and of errors; heartbeats
(comments in the stream that `parseSSE()` skips); titles, models and timestamps of
chats; file attachments; web search and prompt additions, whose failures the
endpoint swallows before anything is created. One SQLite writer at a time makes a
transaction one step. Handlers of the controller that throw. Latencies and health
scores, which are formulas over counters; headers, requests and model metadata of
the adapters; the parsing of skill files; tools that read files or the web.

*Not modelled.* Each of these has no state between calls and no second actor, so that a
model would restate its text:

* capability orchestration, response intelligence and the prompt filter: keyword tables
  and thresholds applied to the words of one message;
* the context manager: one pure function that drops messages until an estimate made
  from the length of their words fits;
* retrieval, documents and web search: parsing, chunking, ranking and I/O whose failures
  the endpoint swallows;
* encryption of keys, application start-up, migrations: straight-line set-up;
* the frontend shell (forms and menus), Markdown rendering, styles, build and deployment.
