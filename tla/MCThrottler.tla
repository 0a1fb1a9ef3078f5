----------------------------- MODULE MCThrottler -----------------------------
(* Instances of Throttler for TLC.                                         *)
EXTENDS Throttler

(* No systemctl call ever fails.                                           *)
AllSucceed == {{}}

(* Any one call, or any two calls on the same scope, fail in a handler.    *)
SomeFail == UNION {SUBSET {<<s, op1>>, <<s, op2>>} : s \in Scopes, op1 \in Ops, op2 \in Ops}
=============================================================================
