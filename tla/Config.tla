-------------------------------- MODULE Config --------------------------------
(***************************************************************************)
(* config.rs: the configuration record and resolve_profile, the one        *)
(* function that decides what an unfocused app is to get.                  *)
(*                                                                         *)
(* unfocus_grace_ms is not a field: deadlines are abstracted to "waiting"  *)
(* and "due" (module Governor).  skip_shared_scopes is not a field either: *)
(* no code reads it.                                                       *)
(***************************************************************************)
EXTENDS Profile

CONSTANTS Apps,             \* app_ids
          ModeNames,        \* preset names that may occur, defined or dangling
          MinimalThrottle,  \* the built-in "minimal" preset: 5 %, weights 5
          DefaultExcludes,  \* members of Apps in default_excludes()
          Missing,          \* no config.toml
          Unparsable        \* a config.toml that cannot be read or parsed

(* AppRule, tagged by `override` as in the file.                           *)
AppRules == [override : {"use_mode", "exclude"}] \cup
            [override : {"profile"}, profile : ModeNames]

PartialMaps(S, T) == UNION {[D -> T] : D \in SUBSET S}

Configs == [active_mode       : ModeNames,
            modes             : PartialMaps(ModeNames, Profiles),
            manage_all        : BOOLEAN,
            hardcoded_exclude : SUBSET Apps,
            apps              : PartialMaps(Apps, AppRules),
            disabled          : BOOLEAN]

ASSUME ConfigAssumption ==
    /\ MinimalThrottle \in Throttles
    /\ {"off", "minimal", "pause"} \subseteq ModeNames
    /\ DefaultExcludes \subseteq Apps
    /\ {Missing, Unparsable} \cap Configs = {}

(* Config::default.                                                        *)
DefaultConfig ==
    [active_mode       |-> "off",
     modes             |-> [m \in {"off", "minimal", "pause"} |->
                              CASE m = "off"     -> "None"
                                [] m = "minimal" -> MinimalThrottle
                                [] m = "pause"   -> "Pause"],
     manage_all        |-> TRUE,
     hardcoded_exclude |-> DefaultExcludes,
     apps              |-> [a \in {} |-> [override |-> "use_mode"]],
     disabled          |-> FALSE]

(* Option::None of resolve_profile: leave the app alone.                   *)
Unmanaged == "unmanaged"

(* modes.get(m).cloned()                                                   *)
ModeProfile(c, m) == IF m \in DOMAIN c.modes THEN c.modes[m] ELSE Unmanaged

(* Config::resolve_profile.                                                *)
ResolveIgnoringKillSwitch(c, a) ==
    IF a \in c.hardcoded_exclude THEN Unmanaged
    ELSE ModeProfile(c, c.active_mode)
ResolveProfile(c, a) ==
    IF c.disabled \/ a \in c.hardcoded_exclude THEN Unmanaged
    ELSE IF a \in DOMAIN c.apps THEN
        CASE c.apps[a].override = "exclude"  -> Unmanaged
          [] c.apps[a].override = "profile"  -> ModeProfile(c, c.apps[a].profile)
          [] c.apps[a].override = "use_mode" -> ModeProfile(c, c.active_mode)
    ELSE IF c.manage_all THEN ModeProfile(c, c.active_mode)
    ELSE Unmanaged

-----------------------------------------------------------------------------
(* What config.toml may hold.                                              *)
Files == Configs \cup {Missing, Unparsable}

(* Config::load_or_default.  A missing file is replaced by the defaults;   *)
(* one that cannot be read or parsed is left as it is and the defaults are *)
(* used.                                                                   *)
LoadOrDefault(f) == IF f \in {Missing, Unparsable} THEN DefaultConfig ELSE f
=============================================================================
