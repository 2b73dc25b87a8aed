--------------------------- MODULE ModelDiscovery ---------------------------
(***************************************************************************)
(* Which models there are: the registry of providers, the keys, the set of *)
(* models that answered 404, the listings of the providers and of the      *)
(* local Ollama server, which a listing may start.  Two listings may be    *)
(* under way at once, and keys, marks and servers change between their     *)
(* awaits (providers/__init__.py, registry.py, model_discovery.py,         *)
(* key_resolver.py, inaccessible.py, ollama.py, api.py, llm.py).           *)
(*                                                                         *)
(* A model is a pair of the prefix of its provider and its name.           *)
(***************************************************************************)
EXTENDS Integers, Sequences, FiniteSets

CONSTANTS Cloud,       \* providers that are asked with a key
          EnvKeys,     \* those whose key is in the environment
          Prefix,      \* litellm_prefix of each, which two of them may share
          Pages,       \* the pages of the listing of each: sets of names
          NonChat,     \* names with one of NON_CHAT_MARKERS
          OllamaModel, \* the model the local server has
          Lister,      \* listings under way
          MaxPages,    \* pages that are followed (10)
          Retries      \* attempts after the start of Ollama (4)

ASSUME DiscoveryAssumption ==
  /\ EnvKeys \subseteq Cloud /\ MaxPages \in Nat \ {0} /\ Retries \in Nat
  /\ \A p \in Cloud : Len(Pages[p]) \in Nat \ {0}

VARIABLES
  known,         \* _init_done: the registry has its providers
  keys,          \* providers with a key in the database
  inaccessible,  \* _inaccessible_models
  up,            \* the Ollama server answers
  attempted,     \* _ollama_start_attempted
  listing,       \* what each reader does
  fetch,         \* of each reader and provider: the page it is at, 0 at its end
  got            \* of each reader and provider: the names collected

VARIABLE since   \* history: of each reader, what happened since it started

machine == <<known, keys, inaccessible, up, attempted>>
reading == <<listing, fetch, got, since>>
dvars == <<machine, reading>>

Idle == [phase |-> "idle", linked |-> {}, tries |-> 0, models |-> {}]
Quiet == [failed |-> {}, marked |-> {}, open |-> {}]

ModelOf(p, name) == <<Prefix[p], name>>
UpToLast(p) == IF Len(Pages[p]) < MaxPages THEN Len(Pages[p]) ELSE MaxPages
Offered(p) == (UNION {Pages[p][i] : i \in 1..UpToLast(p)}) \ NonChat
AllModels == {ModelOf(p, n) : p \in Cloud, n \in UNION {Offered(q) : q \in Cloud}} \cup {OllamaModel}

DInit ==
  /\ known = FALSE /\ keys \in SUBSET Cloud /\ inaccessible = {}
  /\ up \in BOOLEAN /\ attempted = FALSE
  /\ listing = [r \in Lister |-> Idle]
  /\ fetch = [r \in Lister |-> [p \in Cloud |-> 0]]
  /\ got = [r \in Lister |-> [p \in Cloud |-> {}]]
  /\ since = [r \in Lister |-> Quiet]

\* resolve_api_key(): the database first, then the environment.
HasKey(p) == p \in keys \cup EnvKeys

-----------------------------------------------------------------------------
(* One listing. *)

StartListing(r, phase, providers) ==
  /\ listing' = [listing EXCEPT ![r] = [Idle EXCEPT !.phase = phase, !.linked = providers]]
  /\ fetch' = [fetch EXCEPT ![r] = [p \in Cloud |-> IF p \in providers THEN 1 ELSE 0]]
  /\ got' = [got EXCEPT ![r] = [p \in Cloud |-> {}]]
  /\ since' = [since EXCEPT ![r] = [Quiet EXCEPT !.marked = inaccessible,
                                                 !.open = AllModels \ inaccessible]]
  /\ UNCHANGED <<keys, inaccessible, up, attempted>>

\* The registry gets its providers on first use.
ensure_initialized == known' = TRUE

\* list_models(): the linked providers, then Ollama.
ListModels(r) ==
  /\ listing[r].phase = "idle"
  /\ ensure_initialized
  /\ StartListing(r, "ollama", {p \in Cloud : HasKey(p)})

\* refresh_provider_models() does not see to the registry: it is 404 if
\* nothing has used it before.
RefreshModels(r, p) ==
  /\ listing[r].phase = "idle" /\ known /\ HasKey(p)
  /\ StartListing(r, "refresh", {p})
  /\ UNCHANGED known

OllamaAnswers(r) ==
  /\ listing[r].phase \in {"ollama", "retry"} /\ up
  /\ listing' = [listing EXCEPT ![r].phase = "cloud", ![r].models = {OllamaModel}]
  /\ UNCHANGED <<machine, fetch, got, since>>

\* _try_start_ollama(): once in the life of the process, if it is installed.
StartOllama(r) ==
  /\ listing[r].phase = "ollama" /\ ~up
  /\ attempted' = TRUE
  /\ listing' = [listing EXCEPT ![r].phase = "retry"]
  /\ UNCHANGED <<known, keys, inaccessible, up, fetch, got, since>>

OllamaFails(r) ==
  /\ listing[r].phase = "retry" /\ ~up
  /\ listing' = IF listing[r].tries + 1 < Retries
                THEN [listing EXCEPT ![r].tries = @ + 1]
                ELSE [listing EXCEPT ![r].phase = "cloud"]
  /\ UNCHANGED <<machine, fetch, got, since>>

\* A page of one of the providers, which are asked at the same time.  The key
\* is looked up again before the first page: it may be gone.
Active(r, p) == listing[r].phase \in {"cloud", "refresh"} /\ fetch[r][p] > 0

FetchFails(r, p) ==
  /\ Active(r, p)
  /\ fetch' = [fetch EXCEPT ![r][p] = 0]
  /\ since' = [since EXCEPT ![r].failed = @ \cup {p}]
  /\ UNCHANGED <<machine, listing, got>>

\* Mutant: a page takes the place of the pages before it.
FetchPageAnew(r, p) ==
  /\ Active(r, p) /\ (fetch[r][p] = 1 => HasKey(p))
  /\ got' = [got EXCEPT ![r][p] =
       {n \in Pages[p][fetch[r][p]] \ NonChat : ModelOf(p, n) \notin inaccessible}]
  /\ fetch' = [fetch EXCEPT ![r][p] = IF @ < UpToLast(p) THEN @ + 1 ELSE 0]
  /\ UNCHANGED <<machine, listing, since>>

FetchPage(r, p) ==
  /\ Active(r, p) /\ (fetch[r][p] = 1 => HasKey(p))
  /\ got' = [got EXCEPT ![r][p] = @ \cup
       {n \in Pages[p][fetch[r][p]] \ NonChat : ModelOf(p, n) \notin inaccessible}]
  /\ fetch' = [fetch EXCEPT ![r][p] = IF @ < UpToLast(p) THEN @ + 1 ELSE 0]
  /\ UNCHANGED <<machine, listing, since>>

\* The listing is put together, and filtered once more; a refresh is not.
PutTogether(r) ==
  LET found == UNION {{ModelOf(p, n) : n \in got[r][p]} : p \in Cloud}
  IN /\ listing[r].phase \in {"cloud", "refresh"} /\ \A p \in Cloud : fetch[r][p] = 0
     /\ listing' = [listing EXCEPT ![r].phase = "done", ![r].models =
          IF listing[r].phase = "cloud" THEN (@ \cup found) \ inaccessible ELSE found]
     /\ UNCHANGED <<machine, fetch, got, since>>

Listed(r) ==
  /\ listing[r].phase = "done"
  /\ listing' = [listing EXCEPT ![r] = Idle]
  /\ got' = [got EXCEPT ![r] = [p \in Cloud |-> {}]]
  /\ since' = [since EXCEPT ![r] = Quiet]
  /\ UNCHANGED <<machine, fetch>>

-----------------------------------------------------------------------------
(* What changes meanwhile. *)

\* set_provider_key(), delete_provider_key(): they see to the registry.
SetKey(p) ==
  /\ ensure_initialized
  /\ keys' = IF p \in keys THEN keys \ {p} ELSE keys \cup {p}
  /\ UNCHANGED <<inaccessible, up, attempted, reading>>

\* track_inaccessible(), when a stream of the model is answered by 404.
Track(m) ==
  /\ inaccessible' = inaccessible \cup {m}
  /\ since' = [r \in Lister |-> IF listing[r] = Idle THEN since[r]
                                ELSE [since[r] EXCEPT !.marked = @ \cup {m}]]
  /\ UNCHANGED <<known, keys, up, attempted, listing, fetch, got>>

clear_inaccessible ==
  /\ inaccessible' = {}
  /\ since' = [r \in Lister |-> IF listing[r] = Idle THEN since[r]
                                ELSE [since[r] EXCEPT !.open = AllModels]]
  /\ UNCHANGED <<known, keys, up, attempted, listing, fetch, got>>

OllamaChanges ==
  /\ up' = ~up
  /\ UNCHANGED <<known, keys, inaccessible, attempted, reading>>

\* The application stops, with its server (_cleanup_ollama()), and starts.
Restart ==
  /\ known' = FALSE /\ inaccessible' = {} /\ attempted' = FALSE
  /\ up' \in {up, FALSE}
  /\ listing' = [r \in Lister |-> Idle]
  /\ fetch' = [r \in Lister |-> [p \in Cloud |-> 0]]
  /\ got' = [r \in Lister |-> [p \in Cloud |-> {}]]
  /\ since' = [r \in Lister |-> Quiet]
  /\ UNCHANGED keys

DNext ==
  \/ \E r \in Lister : \/ ListModels(r) \/ OllamaAnswers(r) \/ StartOllama(r)
                       \/ OllamaFails(r) \/ PutTogether(r) \/ Listed(r)
  \/ \E r \in Lister, p \in Cloud : RefreshModels(r, p) \/ FetchFails(r, p) \/ FetchPage(r, p)
  \/ \E p \in Cloud : SetKey(p)
  \/ \E m \in AllModels \ {OllamaModel} : Track(m)
  \/ clear_inaccessible \/ OllamaChanges \/ Restart

DSpec == DInit /\ [][DNext]_dvars

-----------------------------------------------------------------------------
(* Properties. *)

\* Whatever changes while it is made, a finished listing has every model that
\* its providers offer, except of a provider whose fetch failed and models
\* that were marked at some time meanwhile; it has no model that was marked
\* all the time, of this provider or of one with the same prefix.
ListingsSound ==
  \A r \in Lister : listing[r].phase = "done" =>
    /\ \A p \in listing[r].linked \ since[r].failed, n \in NonChat \cup UNION {Offered(q) : q \in Cloud} :
         n \in Offered(p) /\ ModelOf(p, n) \notin since[r].marked
           => ModelOf(p, n) \in listing[r].models
    /\ listing[r].models \subseteq since[r].open
=============================================================================
