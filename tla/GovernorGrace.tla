---------------------------- MODULE GovernorGrace ----------------------------
(***************************************************************************)
(* Governor with a history variable, to say what unfocus_grace_ms promises *)
(* (config.example.toml:58, "Wait this long after a window loses focus     *)
(* before throttling it").                                                 *)
(***************************************************************************)
EXTENDS Governor

VARIABLE inGrace  \* apps that lost focus and for which no grace has run out since

graceVars == <<vars, inGrace>>

GraceInit == Init /\ inGrace = {}

GraceNext ==
    /\ Next
    /\ inGrace' = {a \in Live' \ appFocused' :
                     /\ a \in inGrace \cup appFocused
                     /\ ~(pending[a] = "waiting" /\ pending'[a] = "due")}

GraceSpec == GraceInit /\ [][GraceNext]_graceVars

GraceFairSpec == GraceSpec /\ Fairness

(* Apps that share scopes are excepted: what is restricted for one app is   *)
(* reapplied for the other at once, with all scopes of that one.           *)
Apart(a) == \A b \in Apps \ {a} : \A S \in Reach[a], T \in Reach[b] : S \cap T = {}

(* The scopes of an app that lives apart are free until the app's grace is *)
(* over, but for what a failed call left behind: no deadline armed before  *)
(* a refocus is acted upon after the next loss of focus, and nothing but a *)
(* deadline restricts them.                                                *)
GraceAfterFocusLoss ==
    Idle => \A a \in inGrace : Apart(a) =>
                \A s \in scopes[a] : Free(unit[s]) \/ LostByFailure(s)
=============================================================================
