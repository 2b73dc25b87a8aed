---------------------------- MODULE RoutingConfig ----------------------------
(***************************************************************************)
(* The ConfigManager of providers/enhanced/config.py: the configuration of *)
(* the routing in memory, and its YAML file, which the program writes and  *)
(* a person may write as well ("Customize as needed", says its header).    *)
(*                                                                         *)
(* A configuration is its providers and, of the settings of each, who made *)
(* them.  In the file each entry of the program repeats its own key, which *)
(* a constructor then gets twice: such a file is "named".  Enumerations    *)
(* that were loaded are "text", and cannot be turned into a file again.    *)
(***************************************************************************)
EXTENDS Naturals, Functions

CONSTANTS RProvider,    \* the providers of the default configuration
          Nothing       \* no file, no configuration

VARIABLES
  file,      \* routing_config.yaml
  config     \* _config of the global manager, Nothing before the first call

cvars == <<file, config>>

Setting == {"default", "program", "person"}
Config == [providers : UNION {[P -> Setting] : P \in SUBSET RProvider}, text : BOOLEAN]
File == [by : {"program", "person"}, named : BOOLEAN, config : Config \cup {Nothing}]

ASSUME RoutingConfigAssumption == Nothing \notin Config \cup File

Generated(c) == [by |-> "program", named |-> TRUE, config |-> c]

\* The tables _get_default_...() give every provider its settings.
create_default_config == [providers |-> [p \in RProvider |-> "default"], text |-> FALSE]

CInit == file = Nothing /\ config = Nothing

\* _dict_to_config(): an entry that repeats its key raises, and what the
\* program has written has such entries.  A file cut short is no dictionary.
Loadable(f) == f # Nothing /\ f.config # Nothing /\ ~f.named

\* _config_to_dict() takes the value of each enumeration.
Savable(c) == ~c.text

\* Mutant of Load: the default is written only where there is no file.
LoadUnsaved ==
  /\ config = Nothing
  /\ config' = IF Loadable(file) THEN file.config ELSE create_default_config
  /\ file' = IF file = Nothing THEN Generated(create_default_config) ELSE file

\* get_config_manager(): the file, or else the default, which replaces it.
Load ==
  /\ config = Nothing
  /\ IF Loadable(file)
     THEN config' = file.config /\ UNCHANGED file
     ELSE config' = create_default_config /\ file' = Generated(create_default_config)

\* update_provider_config(): in memory first, then on the disk; what cannot
\* be saved raises and stays in memory.  An unknown provider raises at once.
update_provider_config(p) ==
  /\ config # Nothing /\ p \in DOMAIN config.providers
  /\ config' = [config EXCEPT !.providers = [@ EXCEPT ![p] = "program"]]
  /\ file' = IF Savable(config) THEN Generated(config') ELSE file

\* The program stops, perhaps between opening the file and writing it.
Stop ==
  /\ config # Nothing
  /\ file' \in {file} \cup (IF Savable(config) THEN {Generated(Nothing)} ELSE {})
  /\ config' = Nothing

\* A person writes the file, or changes an entry of the one there is.
Write(c) ==
  /\ \A p \in DOMAIN c.providers : c.providers[p] = "person"
  /\ file' = [by |-> "person", named |-> FALSE, config |-> c]
  /\ UNCHANGED config

Customize(p) ==
  /\ file # Nothing /\ file.config # Nothing /\ p \in DOMAIN file.config.providers
  /\ LET c == [file.config EXCEPT !.providers = [@ EXCEPT ![p] = "person"]]
     IN file' = [by |-> "person", named |-> file.named, config |-> c]
  /\ UNCHANGED config

CNext ==
  \/ Load \/ Stop
  \/ \E p \in RProvider : update_provider_config(p) \/ Customize(p)
  \/ \E c \in Config : Write(c)

CSpec == CInit /\ [][CNext]_cvars

-----------------------------------------------------------------------------
(* Properties. *)

\* Through updates that fail, starts that cannot read the file, stops in the
\* middle of a save and files written behind its back, the program's
\* configuration is in the file unless the file is a person's: an update that
\* returned is never only in the memory (_save_config()).
FileAgrees ==
  config # Nothing => file # Nothing /\ (file.config = config \/ file.by = "person")

\* "Load configuration from file or create default" (config.py:145), and what the
\* program has written is there to "Customize as needed" (config.py:406): a start
\* uses the file there is, whoever has written it, unless it was cut short.
FileIsLoaded ==
  [][config = Nothing /\ config' # Nothing /\ file # Nothing /\ file.config # Nothing
       => config' = file.config]_cvars
=============================================================================
