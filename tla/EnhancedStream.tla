--------------------------- MODULE EnhancedStream ---------------------------
(***************************************************************************)
(* One request through providers/enhanced/integration.py: the providers    *)
(* that have a key are offered to the router, its choice is streamed from, *)
(* and whatever goes wrong the original implementation starts over.        *)
(*                                                                         *)
(* Each key is read from the database where the code awaits it, and may be *)
(* stored or deleted in between.  Text is a sequence of pieces, each with  *)
(* the provider it comes from and the key it was asked for with.           *)
(***************************************************************************)
EXTENDS Integers, Sequences, SequencesExt

CONSTANTS Line,        \* PROVIDERS: the providers in their order
          Own,         \* the provider of the model that is asked for
          Local,       \* the providers that need no key
          NoProvider,
          MaxYields    \* bound: pieces of text of a request

ASSUME EnhancedStreamAssumption ==
  /\ Own \in ToSet(Line) /\ Local \subseteq ToSet(Line) /\ NoProvider \notin ToSet(Line)
  /\ MaxYields \in Nat

VARIABLES
  stored,      \* the providers that have a key
  phase,       \* where the request is
  seen,        \* providers of Line looked at so far
  available,   \* available_providers
  provider,    \* provider_id: the model's, later the last one registered
  api_key,     \* the key of the model's provider, as the provider it belongs to
  chosen,      \* selected_provider_id
  used,        \* selected_api_key, as the provider it belongs to
  text         \* what was yielded: [from: the provider, key: whose key, again]

qvars == <<stored, phase, seen, available, provider, api_key, chosen, used, text>>
request == <<seen, available, provider, api_key, chosen, used, text>>

Providers == ToSet(Line)
KeyOf(p) == IF p \in stored THEN p ELSE NoProvider

QInit ==
  /\ stored \in SUBSET Providers
  /\ phase = "new" /\ seen = 0 /\ available = << >>
  /\ provider = NoProvider /\ api_key = NoProvider
  /\ chosen = NoProvider /\ used = NoProvider
  /\ text = << >>

Fallback == phase' = "original" /\ UNCHANGED <<seen, available, chosen, used, text>>

\* get_routing_config() and _resolve_model(): disabled, or no model id.
TurnedOff ==
  /\ phase = "new"
  /\ Fallback /\ UNCHANGED <<stored, provider, api_key>>

\* The key of the provider of the model; without one the original is used.
ResolveKey ==
  /\ phase = "new"
  /\ provider' = Own /\ api_key' = KeyOf(Own)
  /\ phase' = IF Own \in stored THEN "analyze" ELSE "original"
  /\ UNCHANGED <<stored, seen, available, chosen, used, text>>

\* analyze_request(): what it says, or that it fails, makes the context.
Analyze ==
  /\ phase = "analyze" /\ phase' = "look"
  /\ UNCHANGED <<stored, request>>

\* _get_available_providers_for_model(): one key after the other.
Look ==
  /\ phase = "look" /\ seen < Len(Line)
  /\ LET p == Line[seen + 1]
     IN available' = IF p \in Local \cup stored THEN Append(available, p) ELSE available
  /\ seen' = seen + 1
  /\ UNCHANGED <<stored, phase, provider, api_key, chosen, used, text>>

\* register_provider() of each, in the variable that held the model's own
\* provider, and select_provider(), which may choose any of them.
Route ==
  /\ phase = "look" /\ seen = Len(Line)
  /\ IF available = << >>
     THEN Fallback /\ UNCHANGED provider
     ELSE /\ provider' = Last(available)
          /\ chosen' \in ToSet(available)
          /\ phase' = "chosen"
          /\ UNCHANGED <<seen, available, used, text>>
  /\ UNCHANGED <<stored, api_key>>

\* The key of the provider that was chosen.  Without one, what provider_id
\* and api_key hold now.
\* Mutant: the key is that of the model's provider whatever was chosen.
SelectKeyOfModel ==
  /\ phase = "chosen" /\ used' = api_key /\ phase' = "streaming"
  /\ UNCHANGED <<stored, seen, available, provider, api_key, chosen, text>>

SelectKey ==
  /\ phase = "chosen"
  /\ chosen' = IF chosen \in stored THEN chosen ELSE provider
  /\ used' = IF chosen \in stored THEN chosen ELSE api_key
  /\ phase' = "streaming"
  /\ UNCHANGED <<stored, seen, available, provider, api_key, text>>

Yield ==
  /\ phase \in {"streaming", "restarted"} /\ Len(text) < MaxYields
  /\ text' = Append(text, [from |-> chosen, key |-> used, again |-> phase = "restarted"])
  /\ UNCHANGED <<stored, phase, seen, available, provider, api_key, chosen, used>>

\* The stream ends.  Of the two variants, the one that yields response events
\* then asks the builder for a message_finish(), which it does not have.
End ==
  /\ phase = "streaming" /\ phase' \in {"done", "original"}
  /\ UNCHANGED <<stored, request>>

\* Any exception, whatever was yielded already.
Raise ==
  /\ phase \in {"chosen", "streaming"}
  /\ Fallback /\ UNCHANGED <<stored, provider, api_key>>

\* The original implementation, from its beginning, with the key there is now.
Original ==
  /\ phase = "original" /\ phase' = "restarted"
  /\ chosen' = Own /\ used' = KeyOf(Own)
  /\ UNCHANGED <<stored, seen, available, provider, api_key, text>>

EndOriginal ==
  /\ phase = "restarted" /\ phase' \in {"done", "failed"}
  /\ UNCHANGED <<stored, request>>

\* Somebody stores or deletes a key; the request is abandoned.
ChangeKey(p) ==
  /\ phase \notin {"done", "failed", "closed"}
  /\ stored' = IF p \in stored THEN stored \ {p} ELSE stored \cup {p}
  /\ UNCHANGED <<phase, request>>

Close ==
  /\ phase \in {"streaming", "restarted"} /\ phase' = "closed"
  /\ UNCHANGED <<stored, request>>

QNext ==
  \/ TurnedOff \/ ResolveKey \/ Analyze \/ Look \/ Route \/ SelectKey
  \/ Yield \/ End \/ Raise \/ Original \/ EndOriginal \/ Close
  \/ \E p \in Providers : ChangeKey(p)

QSpec == QInit /\ [][QNext]_qvars

-----------------------------------------------------------------------------
(* Properties. *)

\* A piece of text was asked for with the key of the provider it comes from,
\* or its provider took the place of one whose key was gone, or that has none,
\* when it was chosen: that is the last provider offered, with the key of the
\* model's ("Fall back to original provider if key not available" is the
\* comment at integration.py:152).  Keys may come and go between the awaits.
KeysAreOwn ==
  \A i \in DOMAIN text : LET t == text[i] IN
    t.key # t.from =>
      \/ t.again /\ t.from = Own /\ t.key = NoProvider
      \/ ~t.again /\ t.from = Last(available) /\ t.key = Own

\* However the request fails, it starts over at most once, from the model's
\* own provider with one key throughout: what is yielded is the beginning of
\* one stream and then all of another, and never a mixture.
OneRestart ==
  /\ \A i, j \in DOMAIN text : i < j /\ text[i].again => text[j].again
  /\ \A i, j \in DOMAIN text : text[i].again = text[j].again => text[i] = text[j]
  /\ \A i \in DOMAIN text : text[i].again => text[i].from = Own

\* What a client is sent of one request, together.
StreamsWhole == KeysAreOwn /\ OneRestart
=============================================================================
