------------------------------ MODULE Throttler ------------------------------
(***************************************************************************)
(* daemon/throttle.rs: the map `applied` from unit to last applied profile *)
(* and the systemctl calls that keep the kernel's cgroups in step with it. *)
(*                                                                         *)
(* unit[s].applied is the daemon's memory; unit[s].frozen and .props are   *)
(* what systemd and the kernel hold for scope s and survive the daemon.    *)
(* unit[s].lost is a history variable: a limit the daemon no longer knows  *)
(* of was left on s, and s has not been free since.                        *)
(***************************************************************************)
EXTENDS Profile

CONSTANTS Scopes,      \* systemd scope units
          Failures     \* sets of <<scope, operation>> calls that may fail together

Ops == {"thaw", "freeze", "set", "clear"}

ASSUME ThrottlerAssumption ==
    Failures \subseteq SUBSET (Scopes \X Ops)

VARIABLES unit,    \* [Scopes -> UnitStates]
          daemon   \* "up", "stopped" (left by SIGTERM/SIGINT) or "crashed"

throttlerVars == <<unit, daemon>>

UnitStates == [applied : Throttles \cup {"Pause", "absent"},
               frozen  : BOOLEAN,
               props   : Throttles \cup {"unset"},
               lost    : BOOLEAN]

Pristine == [applied |-> "absent", frozen |-> FALSE, props |-> "unset", lost |-> FALSE]

(* The kernel holds nothing on the unit.                                   *)
Free(u) == ~u.frozen /\ u.props = "unset"

-----------------------------------------------------------------------------
(* One systemctl invocation that succeeds; "skip" is no invocation.        *)
Systemctl(op, p, u) ==
    CASE op = "thaw"   -> [u EXCEPT !.frozen = FALSE]
      [] op = "freeze" -> [u EXCEPT !.frozen = TRUE]
      [] op = "clear"  -> [u EXCEPT !.props = "unset"]
      [] op = "set"    -> [u EXCEPT !.props = p]
      [] OTHER         -> u

(* The call that takes the previous profile down when its kind changes.    *)
TeardownWithoutThaw(prev, p) ==
    IF prev \in Throttles /\ p \notin Throttles THEN "clear" ELSE "skip"
TeardownWithoutClear(prev, p) ==
    IF prev = "Pause" /\ p # "Pause" THEN "thaw" ELSE "skip"
Teardown(prev, p) ==
    CASE prev = "Pause" /\ p # "Pause"               -> "thaw"
      [] prev \in Throttles /\ p \in {"Pause", "None"} -> "clear"
      [] OTHER                                       -> "skip"

(* The call that puts profile p in force.                                  *)
Setup(p) == CASE p = "Pause"      -> "freeze"
              [] p \in Throttles  -> "set"
              [] OTHER            -> "skip"

(* Throttler::apply.  A failed call returns at once: `applied` keeps the   *)
(* previous profile, and a teardown that did succeed stays done.           *)
ApplyRecordingNone(u, p, bad) ==
    LET down == Systemctl(Teardown(u.applied, p), p, u)
    IN  IF u.applied = p \/ Teardown(u.applied, p) \in bad THEN u
        ELSE IF Setup(p) \in bad THEN down
        ELSE [Systemctl(Setup(p), p, down) EXCEPT !.applied = p]
Apply(u, p, bad) ==
    LET down == Systemctl(Teardown(u.applied, p), p, u)
    IN  IF u.applied = p \/ Teardown(u.applied, p) \in bad THEN u
        ELSE IF Setup(p) \in bad THEN down
        ELSE [Systemctl(Setup(p), p, down) EXCEPT
                !.applied = IF p = "None" THEN "absent" ELSE p]

(* The call that undoes an applied profile.                                *)
UndoPauseOnly(prev) == IF prev = "Pause" THEN "thaw" ELSE "skip"
Undo(prev) == CASE prev = "Pause"     -> "thaw"
                [] prev \in Throttles -> "clear"
                [] OTHER              -> "skip"

(* Throttler::reset.  The entry leaves `applied` before the call is made,  *)
(* and a failure is only logged.                                           *)
Reset(u, bad) ==
    LET failed == Undo(u.applied) \in bad
        after  == IF failed THEN u ELSE Systemctl(Undo(u.applied), "None", u)
    IN  [after EXCEPT !.applied = "absent",
                      !.lost = (@ \/ failed) /\ ~Free(after)]

(* Throttler::force_clear: thaw and clear whatever is recorded, ignoring   *)
(* both results.                                                           *)
ForceClear(u, bad) ==
    LET frozen == u.frozen /\ "thaw" \in bad
        props  == IF "clear" \in bad THEN u.props ELSE "unset"
    IN  [applied |-> "absent", frozen |-> frozen, props |-> props,
         lost |-> frozen \/ props # "unset"]

-----------------------------------------------------------------------------
Failing(bad, s) == {op \in Ops : <<s, op>> \in bad}

(* One handler's calls: per scope nothing, a reset, or the apply of a      *)
(* profile.                                                                *)
Perform(u, call, bad) ==
    IF call = "keep" THEN u
    ELSE IF call = "reset" THEN Reset(u, bad)
    ELSE Apply(u, call, bad)

Calls == Profiles \cup {"keep", "reset"}

Batch(calls, bad) ==
    unit' = [s \in Scopes |-> Perform(unit[s], calls[s], Failing(bad, s))]

(* What the startup sweep's scan of the cgroup tree can see of a limit: it *)
(* reads cgroup.freeze, cpu.max, cpu.weight and io.weight, not the cpuset. *)
VisiblyDirty(u) == u.frozen \/ u.props \notin PinOnly \cup {"unset"}

(* The startup sweep over the scopes of the apps already found and over    *)
(* every visibly dirty one.  A limit it does not see is lost.              *)
SweepUnit(u, managed, bad) ==
    IF managed \/ VisiblyDirty(u) THEN ForceClear(u, bad)
    ELSE [u EXCEPT !.applied = "absent", !.lost = u.props # "unset"]

Sweep(managed, bad) ==
    unit' = [s \in Scopes |-> SweepUnit(unit[s], s \in managed, Failing(bad, s))]

(* Throttler::reset_all, at shutdown and when the kill switch is engaged.  *)
ResetAllButPaused(bad) ==
    unit' = [s \in Scopes |-> IF unit[s].applied = "Pause" THEN unit[s]
                              ELSE Reset(unit[s], Failing(bad, s))]
ResetAll(bad) ==
    unit' = [s \in Scopes |-> Reset(unit[s], Failing(bad, s))]

(* SIGKILL or a panic: `applied` is gone, the cgroups stay as they are.    *)
Forget == unit' = [s \in Scopes |-> [unit[s] EXCEPT !.applied = "absent"]]

-----------------------------------------------------------------------------
(* The throttler under a caller that may do anything.                      *)
ThrottlerInit ==
    /\ unit = [s \in Scopes |-> Pristine]
    /\ daemon = "stopped"

Serve == /\ daemon = "up"
         /\ \E bad \in Failures, calls \in [Scopes -> Calls] : Batch(calls, bad)
         /\ UNCHANGED daemon

Release == /\ daemon = "up"
           /\ \E bad \in Failures : ResetAll(bad)
           /\ daemon' \in {"up", "stopped"}

Die == /\ daemon = "up"
       /\ Forget
       /\ daemon' = "crashed"

Boot == /\ daemon # "up"
        /\ \E bad \in Failures, managed \in SUBSET Scopes : Sweep(managed, bad)
        /\ daemon' = "up"

ThrottlerNext == Serve \/ Release \/ Die \/ Boot

ThrottlerSpec == ThrottlerInit /\ [][ThrottlerNext]_throttlerVars

-----------------------------------------------------------------------------
ThrottlerTypeOK ==
    /\ unit \in [Scopes -> UnitStates]
    /\ daemon \in {"up", "stopped", "crashed"}

(* The kernel holds exactly profile a on the unit.                         *)
InForce(u, a) == /\ u.frozen = (a = "Pause")
                 /\ u.props = IF a \in Throttles THEN a ELSE "unset"

(* The daemon lost a limit on s, as it may where a call on s can fail or a *)
(* sweep overlooks a cpuset, and nowhere else.                             *)
LostByFailure(s) ==
    /\ unit[s].lost
    /\ PinOnly # {} \/ \E bad \in Failures : Failing(bad, s) # {}

(* However the systemctl calls of apply fail, the kernel never holds       *)
(* anything on a scope but what `applied` records for it, or nothing: so   *)
(* undoing what is recorded leaves the scope free.  Only limits lost by a  *)
(* failed reset or missed by the sweep are excepted (apply's early returns,*)
(* throttle.rs:24-54).                                                     *)
Known(u)  == ~u.lost => Free(u) \/ InForce(u, u.applied)
UndoKnown == daemon = "up" => \A s \in Scopes : Known(unit[s])

(* Where no call fails, `applied` says exactly what is in force: a switch  *)
(* of profile leaves no part of the previous one behind.                   *)
Exact(u) == ~u.lost => InForce(u, u.applied)
ExactlyInForce ==
    (daemon = "up" /\ Failures = {{}}) => \A s \in Scopes : Exact(unit[s])

(* After SIGTERM or SIGINT no scope is left with a limit, except for those *)
(* whose undo call failed (mod.rs:618-619).                                *)
CleanAfterStop ==
    daemon = "stopped" =>
        \A s \in Scopes : ~unit[s].lost => Free(unit[s])
=============================================================================
