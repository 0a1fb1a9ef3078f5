------------------------------- MODULE MCDesk -------------------------------
(* Instances of Desk for TLC: one app, with a rule of its own.             *)
EXTENDS Desk, TLC

CONSTANT app

OneApp == {app}

(* Two presets; the app's rule names the one that can be edited.           *)
Small == [active_mode       |-> "minimal",
          modes             |-> ("off" :> "None") @@ ("minimal" :> MinimalThrottle),
          manage_all        |-> TRUE,
          hardcoded_exclude |-> {},
          apps              |-> app :> [override |-> "profile", profile |-> "minimal"],
          disabled          |-> FALSE]

SmallConfigs == {Small}
=============================================================================
