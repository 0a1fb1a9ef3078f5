----------------------------- MODULE ConfigProofs -----------------------------
(***************************************************************************)
(* For any configuration: that the defaults and whatever is loaded are     *)
(* configurations, and that resolve_profile gives a profile or leaves the  *)
(* app unmanaged.                                                          *)
(***************************************************************************)
EXTENDS Config, TLAPS

(* The built-in configuration is a configuration.                          *)
LEMMA DefaultConfigType == DefaultConfig \in Configs
<1> DEFINE names == {"off", "minimal", "pause"}
<1> DEFINE modes == [m \in names |-> CASE m = "off"     -> "None"
                                       [] m = "minimal" -> MinimalThrottle
                                       [] m = "pause"   -> "Pause"]
<1> DEFINE rules == [a \in {} |-> [override |-> "use_mode"]]
<1>1. modes \in PartialMaps(ModeNames, Profiles)
  <2>1. modes \in [names -> Profiles]
    BY ConfigAssumption DEF Profiles
  <2>2. names \in SUBSET ModeNames
    BY ConfigAssumption
  <2>3. QED BY <2>1, <2>2 DEF PartialMaps
<1>2. rules \in PartialMaps(Apps, AppRules)
  <2>1. rules \in [{} -> AppRules]
    OBVIOUS
  <2>2. QED BY <2>1 DEF PartialMaps
<1>3. DefaultExcludes \in SUBSET Apps /\ "off" \in ModeNames
  BY ConfigAssumption
<1> HIDE DEF modes, rules
<1>4. [active_mode |-> "off", modes |-> modes, manage_all |-> TRUE,
       hardcoded_exclude |-> DefaultExcludes, apps |-> rules,
       disabled |-> FALSE] \in Configs
  BY <1>1, <1>2, <1>3 DEF Configs
<1>5. QED BY <1>4 DEF DefaultConfig, modes, rules

(* Loading any file gives a configuration.                                 *)
LEMMA LoadType ==
    ASSUME NEW f \in Files
    PROVE  LoadOrDefault(f) \in Configs
BY DefaultConfigType DEF LoadOrDefault, Files

(* resolve_profile gives a profile or leaves the app unmanaged.            *)
LEMMA ResolveType ==
    ASSUME NEW c \in Configs, NEW a \in Apps
    PROVE  ResolveProfile(c, a) \in Profiles \cup {Unmanaged}
<1>1. \A m : ModeProfile(c, m) \in Profiles \cup {Unmanaged}
  <2>1. PICK D \in SUBSET ModeNames : c.modes \in [D -> Profiles]
    BY DEF Configs, PartialMaps
  <2>2. QED BY <2>1 DEF ModeProfile
<1>2. a \in DOMAIN c.apps => c.apps[a].override \in {"use_mode", "exclude", "profile"}
  <2>1. PICK D \in SUBSET Apps : c.apps \in [D -> AppRules]
    BY DEF Configs, PartialMaps
  <2>2. \A r \in AppRules : r.override \in {"use_mode", "exclude", "profile"}
    BY DEF AppRules
  <2>3. QED BY <2>1, <2>2
<1>3. QED BY <1>1, <1>2 DEF ResolveProfile
==============================================================================
