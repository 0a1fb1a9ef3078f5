------------------------------- MODULE Profile -------------------------------
(***************************************************************************)
(* The enum Profile of config.rs: what may be done to an unfocused app.    *)
(* Throttle{..} values are the members of the CONSTANT Throttles; which    *)
(* quota, weights and cpuset each carries is abstracted, except for        *)
(* PinOnly: those that set AllowedCPUs= alone (cpu_quota "" and weights    *)
(* 100 are documented as "no limit").                                      *)
(***************************************************************************)
CONSTANTS Throttles, PinOnly

(* Words that stand beside profiles in the modules that use them.          *)
Reserved == {"None", "Pause", "absent", "unset", "keep", "reset", "unmanaged"}

ASSUME ProfileAssumption ==
    /\ Throttles \cap Reserved = {}
    /\ PinOnly \subseteq Throttles

Profiles == Throttles \cup {"None", "Pause"}
=============================================================================
