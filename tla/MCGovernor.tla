------------------------------ MODULE MCGovernor ------------------------------
(* Instances of Governor for TLC: two apps, a and b.                       *)
EXTENDS Governor, TLC

CONSTANTS a, b, s1, s2, s3

TwoApps == {a, b}

(* No systemctl call ever fails; or all calls of a handler on one scope do.*)
AllSucceed == {{}}
ScopeFails == {{}, {s1} \X Ops}

(* a has a helper scope that comes and goes; b's scope is its own.         *)
SeparateReach == (a :> {{s1}, {s1, s2}}) @@ (b :> {{s3}})

(* b was launched from a: it may live in a's scope as well as in its own.  *)
SharedReach == (a :> {{s1}}) @@ (b :> {{s2}, {s1, s2}})

WithMode(m) == [DefaultConfig EXCEPT !.active_mode = m]
WithRule(c, app, rule) == [c EXCEPT !.apps = (app :> rule) @@ @]

(* Both apps frozen; a throttled and b frozen, with the kill switch on.    *)
PauseAll   == WithMode("pause")
KilledMix  == [WithRule(WithMode("pause"), a, [override |-> "profile", profile |-> "minimal"])
                 EXCEPT !.disabled = TRUE]

TwoInputs == {PauseAll, KilledMix}
OneInput  == {KilledMix}
NoEdits == {}

(* One app, and a config.toml that is deleted, broken, or edited to engage *)
(* the kill switch or to freeze everything.                                *)
OneApp     == {a}
LoneReach  == (a :> {{s1}, {s1, s2}})
SomeEdits  == {Missing, Unparsable, KilledMix, PauseAll}
=============================================================================
