------------------------------ MODULE MCServices ------------------------------
(* Instances of the modules around the request path for TLC: RoutingConfig,  *)
(* RoutingStrategies, EnhancedStream, ModelDiscovery, ProviderWire, Skills    *)
(* and Tools.  They share nothing: a behaviour is one of the one named by     *)
(* part, and leaves the others in one of their initial states.                *)
EXTENDS RoutingStrategies, RoutingConfig, EnhancedStream, ModelDiscovery,
        ProviderWire, Skills, Tools

CONSTANTS o1, o2, o3, o4, o5, o6, o7, o8, Parts

VARIABLE part

-----------------------------------------------------------------------------
(* RoutingStrategies: lists of three candidates, one of them perhaps down. *)

Cand(id, health, quota, cost, window, can, errors, uses) ==
  [id |-> id, health |-> health, quota |-> quota, cost |-> cost, window |-> window,
   can |-> can, errors |-> errors, uses |-> uses, available |-> TRUE]

Costly == Cand(o1, 950, 700, 30000, 8192, {"vision", "reasoning", "tools"}, 20, 0)
Large  == Cand(o2, 900, 500, 15000, 200000, {"vision", "reasoning", "tools"}, 10, 3)
Free   == Cand(o3, 100, 200, 0, 4096, {}, 500, 1)
Poor   == Cand(o2, 900, 600, 40000, 4096, {"tools"}, 50, 2)   \* Costly betters it
Down(candidate) == [candidate EXCEPT !.available = FALSE]

MCPool == { <<Costly, Large, Free>>, <<Poor, Costly>>, <<Down(Costly), Large, Free>>,
            <<Costly, Down(Large), Free>>, <<Down(Free)>>, <<Free, Large>> }

-----------------------------------------------------------------------------
(* The others. *)

MCLine   == <<o1, o2, o3>>
MCPrefix == [p \in {o1, o2} |-> "openai"]   \* as openai and omniroute have it
MCPages  == [p \in {o1, o2} |-> IF p = o1 THEN << {"x"}, {"e"} >> ELSE << {"x"} >>]

\* o1 names a dependency twice and, as o4, one that is not there; it needs o3 through
\* another; o2 names itself; o4 and o5 depend on each other, and both on o3; so do o6
\* and o7, but o6 requires a parameter, and o7 and o8, but o7 hands parameters on to
\* o8.  o2 quotes a result that it has a parameter for.
MCSkill == {o1, o2, o3, o4, o5, o6, o7, o8}
MCDeps == [s \in MCSkill |->
  CASE s = o1 -> <<o2, Unknown, o2>> [] s = o2 -> <<o3, o2>> [] s = o4 -> <<Unknown, o3, o5>>
    [] s = o5 -> <<o4, o3>> [] s = o6 -> <<o7>> [] s = o7 -> <<o6, o8>> [] s = o8 -> <<o7>>
    [] OTHER -> << >>]
MCDeclares == [s \in MCSkill |-> IF s = o2 THEN {o3} ELSE {}]
MCQuotes   == [s \in MCSkill |-> IF s = o1 THEN {o2} ELSE IF s = o2 THEN {o3} ELSE {}]
MCHands    == [s \in MCSkill |-> IF s = o1 THEN {o3} ELSE IF s = o7 THEN {o8} ELSE {}]

Init ==
  /\ part \in Parts
  /\ SInit /\ CInit /\ QInit /\ DInit /\ WInit /\ KInit /\ TInit
  /\ part = "stream" \/ stored = {}
  /\ part = "discovery" \/ (keys = {} /\ up)
  /\ part = "wire" \/ (style = "ollama" /\ reader = "facade")

Next ==
  \/ part = "strategies" /\ SNext /\ UNCHANGED <<cvars, qvars, dvars, wvars, kvars, tvars>>
  \/ part = "config"     /\ CNext /\ UNCHANGED <<svars, qvars, dvars, wvars, kvars, tvars>>
  \/ part = "stream"     /\ QNext /\ UNCHANGED <<svars, cvars, dvars, wvars, kvars, tvars>>
  \/ part = "discovery"  /\ DNext /\ UNCHANGED <<svars, cvars, qvars, wvars, kvars, tvars>>
  \/ part = "wire"       /\ WNext /\ UNCHANGED <<svars, cvars, qvars, dvars, kvars, tvars>>
  \/ part = "skills"     /\ KNext /\ UNCHANGED <<svars, cvars, qvars, dvars, wvars, tvars>>
  \/ part = "tools"      /\ TNext /\ UNCHANGED <<svars, cvars, qvars, dvars, wvars, kvars>>

Spec == Init /\ [][Next /\ UNCHANGED part]_<<part, svars, cvars, qvars, dvars, wvars, kvars, tvars>>
=============================================================================
