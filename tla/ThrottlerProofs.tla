--------------------------- MODULE ThrottlerProofs ---------------------------
(***************************************************************************)
(* For any scopes, throttle profiles and failing systemctl calls: the type *)
(* of the throttler's state, and that it always knows how to undo what it  *)
(* did.  The lemmas are about one unit and one call of the throttler.      *)
(***************************************************************************)
EXTENDS Throttler, TLAPS

(* A systemctl call keeps the unit within its type.                        *)
LEMMA SystemctlType ==
    ASSUME NEW u \in UnitStates, NEW op, NEW p, op = "set" => p \in Throttles
    PROVE  Systemctl(op, p, u) \in UnitStates
BY DEF Systemctl, UnitStates

(* apply has two outcomes when it is not a no-op: the teardown alone, or   *)
(* the teardown, the setup and the new entry.                              *)
LEMMA ApplyType ==
    ASSUME NEW u \in UnitStates, NEW p \in Profiles, NEW bad
    PROVE  Apply(u, p, bad) \in UnitStates
<1> DEFINE down == Systemctl(Teardown(u.applied, p), p, u)
<1> DEFINE done == Systemctl(Setup(p), p, down)
<1>1. Teardown(u.applied, p) # "set"
  BY DEF Teardown
<1>2. down \in UnitStates
  BY <1>1, SystemctlType
<1>3. Setup(p) = "set" => p \in Throttles
  BY DEF Setup
<1>4. done \in UnitStates
  <2> HIDE DEF down
  <2> QED BY <1>2, <1>3, SystemctlType
<1>5. [done EXCEPT !.applied = IF p = "None" THEN "absent" ELSE p] \in UnitStates
  <2> HIDE DEF done
  <2> QED BY <1>4 DEF UnitStates, Profiles
<1>6. QED BY <1>2, <1>5 DEF Apply

(* So does reset.                                                          *)
LEMMA ResetType ==
    ASSUME NEW u \in UnitStates, NEW bad
    PROVE  Reset(u, bad) \in UnitStates
<1> DEFINE failed == Undo(u.applied) \in bad
<1> DEFINE after  == IF failed THEN u ELSE Systemctl(Undo(u.applied), "None", u)
<1>1. after \in UnitStates
  BY SystemctlType DEF Undo
<1>2. Reset(u, bad) = [after EXCEPT !.applied = "absent",
                                    !.lost = (@ \/ failed) /\ ~Free(after)]
  BY DEF Reset
<1> HIDE DEF after, failed
<1>3. QED BY <1>1, <1>2 DEF UnitStates

(* The sweep of one unit too.                                              *)
LEMMA SweepType ==
    ASSUME NEW u \in UnitStates, NEW managed \in BOOLEAN, NEW bad
    PROVE  SweepUnit(u, managed, bad) \in UnitStates
BY DEF SweepUnit, ForceClear, VisiblyDirty, UnitStates

(* A failed apply leaves the previous profile in force or nothing; one     *)
(* that succeeds leaves the new profile in force.                          *)
LEMMA ApplyKnown ==
    ASSUME NEW u \in UnitStates, NEW p \in Profiles, NEW bad, Known(u)
    PROVE  Known(Apply(u, p, bad))
<1>1. CASE u.applied = p \/ Teardown(u.applied, p) \in bad
  BY <1>1 DEF Apply
<1>2. CASE u.applied # p /\ Teardown(u.applied, p) \notin bad
  <2> USE ProfileAssumption
      DEF Apply, Systemctl, Teardown, Setup, Known, Free, InForce, UnitStates, Reserved
  <2>1. CASE u.applied = "Pause" /\ p = "None"
    BY <1>2, <2>1
  <2>2. CASE u.applied = "Pause" /\ p \in Throttles
    BY <1>2, <2>2
  <2>3. CASE u.applied = "absent" /\ p = "Pause"
    BY <1>2, <2>3
  <2>4. CASE u.applied = "absent" /\ p = "None"
    BY <1>2, <2>4
  <2>5. CASE u.applied = "absent" /\ p \in Throttles
    BY <1>2, <2>5
  <2>6. CASE u.applied \in Throttles /\ p = "Pause"
    BY <1>2, <2>6
  <2>7. CASE u.applied \in Throttles /\ p = "None"
    BY <1>2, <2>7
  <2>8. CASE u.applied \in Throttles /\ p \in Throttles
    BY <1>2, <2>8
  <2>9. QED
    BY <1>2, <2>1, <2>2, <2>3, <2>4, <2>5, <2>6, <2>7, <2>8 DEF Profiles
<1>3. QED BY <1>1, <1>2

(* reset leaves the unit free unless its call fails, and then it is lost.  *)
LEMMA ResetFrees ==
    ASSUME NEW u \in UnitStates, NEW bad, Known(u)
    PROVE  /\ Reset(u, bad).applied = "absent"
           /\ ~Reset(u, bad).lost => Free(Reset(u, bad))
BY ProfileAssumption
   DEF Reset, Systemctl, Undo, Known, Free, InForce, UnitStates, Reserved

(* After the sweep a unit is free or lost.                                 *)
LEMMA SweepFrees ==
    ASSUME NEW u \in UnitStates, NEW managed \in BOOLEAN, NEW bad
    PROVE  /\ SweepUnit(u, managed, bad).applied = "absent"
           /\ ~SweepUnit(u, managed, bad).lost =>
                 Free(SweepUnit(u, managed, bad))
BY DEF SweepUnit, ForceClear, VisiblyDirty, Free, UnitStates

-----------------------------------------------------------------------------
(* Any call of a batch keeps the type and the knowledge of what to undo.   *)
LEMMA PerformKnown ==
    ASSUME NEW u \in UnitStates, NEW call \in Calls, NEW bad
    PROVE  /\ Perform(u, call, bad) \in UnitStates
           /\ Known(u) => Known(Perform(u, call, bad))
<1>1. CASE call = "keep"
  BY <1>1 DEF Perform
<1>2. CASE call = "reset"
  <2>1. Perform(u, call, bad) = Reset(u, bad)
    BY <1>2 DEF Perform
  <2>2. QED BY <2>1, ResetType, ResetFrees DEF Known
<1>3. CASE call \in Profiles /\ call # "keep" /\ call # "reset"
  <2>1. Perform(u, call, bad) = Apply(u, call, bad)
    BY <1>3 DEF Perform
  <2>2. QED BY <1>3, <2>1, ApplyType, ApplyKnown
<1>4. QED BY <1>1, <1>2, <1>3 DEF Calls

(* Where no call fails, apply leaves exactly the new profile in force.     *)
LEMMA ApplyExact ==
    ASSUME NEW u \in UnitStates, NEW p \in Profiles, Exact(u)
    PROVE  Exact(Apply(u, p, {}))
<1>1. CASE u.applied = p
  BY <1>1 DEF Apply
<1>2. CASE u.applied # p
  <2> USE ProfileAssumption
      DEF Apply, Systemctl, Teardown, Setup, Exact, InForce, UnitStates, Reserved
  <2>1. CASE u.applied = "Pause" /\ p = "None"
    BY <1>2, <2>1
  <2>2. CASE u.applied = "Pause" /\ p \in Throttles
    BY <1>2, <2>2
  <2>3. CASE u.applied = "absent" /\ p = "Pause"
    BY <1>2, <2>3
  <2>4. CASE u.applied = "absent" /\ p = "None"
    BY <1>2, <2>4
  <2>5. CASE u.applied = "absent" /\ p \in Throttles
    BY <1>2, <2>5
  <2>6. CASE u.applied \in Throttles /\ p = "Pause"
    BY <1>2, <2>6
  <2>7. CASE u.applied \in Throttles /\ p = "None"
    BY <1>2, <2>7
  <2>8. CASE u.applied \in Throttles /\ p \in Throttles
    BY <1>2, <2>8
  <2>9. QED
    BY <1>2, <2>1, <2>2, <2>3, <2>4, <2>5, <2>6, <2>7, <2>8 DEF Profiles
<1>3. QED BY <1>1, <1>2

(* A free unit of which nothing is recorded is exactly known.              *)
LEMMA FreeIsExact ==
    ASSUME NEW u \in UnitStates, u.applied = "absent", ~u.lost => Free(u)
    PROVE  Exact(u)
<1>1. "absent" \notin Throttles
  BY ProfileAssumption DEF Reserved
<1>2. u.frozen \in BOOLEAN
  BY DEF UnitStates
<1>3. QED BY <1>1, <1>2 DEF Exact, InForce, Free

(* So does any call of a batch.                                            *)
LEMMA PerformExact ==
    ASSUME NEW u \in UnitStates, NEW call \in Calls, Exact(u)
    PROVE  Exact(Perform(u, call, {}))
<1>1. CASE call = "keep"
  BY <1>1 DEF Perform
<1>2. CASE call = "reset"
  <2>1. Perform(u, call, {}) = Reset(u, {})
    BY <1>2 DEF Perform
  <2>2. Known(u)
    BY DEF Exact, Known
  <2>3. QED BY <2>1, <2>2, ResetType, ResetFrees, FreeIsExact
<1>3. CASE call \in Profiles /\ call # "keep" /\ call # "reset"
  <2>1. Perform(u, call, {}) = Apply(u, call, {})
    BY <1>3 DEF Perform
  <2>2. QED BY <1>3, <2>1, ApplyExact
<1>4. QED BY <1>1, <1>2, <1>3 DEF Calls

-----------------------------------------------------------------------------
(* No step of the throttler leaves its type.                               *)
LEMMA ThrottlerTypeStep ==
    ASSUME ThrottlerTypeOK, [ThrottlerNext]_throttlerVars
    PROVE  ThrottlerTypeOK'
<1> USE DEF ThrottlerTypeOK
<1>1. CASE Serve
  BY <1>1, PerformKnown DEF Serve, Batch
<1>2. CASE Release
  BY <1>2, ResetType DEF Release, ResetAll
<1>3. CASE Die
  BY <1>3 DEF Die, Forget, UnitStates
<1>4. CASE Boot
  <2>1. PICK bad \in Failures, managed \in SUBSET Scopes : Sweep(managed, bad)
    BY <1>4 DEF Boot
  <2>2. \A s \in Scopes : SweepUnit(unit[s], s \in managed, Failing(bad, s)) \in UnitStates
    <3> TAKE s \in Scopes
    <3>1. (s \in managed) \in BOOLEAN /\ unit[s] \in UnitStates
      BY DEF ThrottlerTypeOK
    <3>2. QED BY <3>1, SweepType
  <2>3. QED BY <1>4, <2>1, <2>2 DEF Boot, Sweep
<1>5. CASE UNCHANGED throttlerVars
  BY <1>5 DEF throttlerVars
<1>6. QED BY <1>1, <1>2, <1>3, <1>4, <1>5 DEF ThrottlerNext

(* The state of the throttler stays within its type.                       *)
THEOREM ThrottlerTypeCorrect == ThrottlerSpec => []ThrottlerTypeOK
<1>1. ThrottlerInit => ThrottlerTypeOK
  BY DEF ThrottlerInit, ThrottlerTypeOK, Pristine, UnitStates
<1>2. ThrottlerTypeOK /\ [ThrottlerNext]_throttlerVars => ThrottlerTypeOK'
  BY ThrottlerTypeStep
<1>3. QED BY <1>1, <1>2, PTL DEF ThrottlerSpec

(* While the daemon is up every limit in the kernel is the one `applied`   *)
(* records, or is lost; once it has stopped every limit is lost.           *)
THEOREM ThrottlerUndo == ThrottlerSpec => [](UndoKnown /\ CleanAfterStop)
<1> DEFINE Inv == UndoKnown /\ CleanAfterStop
<1>1. ThrottlerInit => Inv
  BY DEF ThrottlerInit, UndoKnown, CleanAfterStop, Known, Free, Pristine
<1>2. ThrottlerTypeOK /\ Inv /\ [ThrottlerNext]_throttlerVars => Inv'
  <2> SUFFICES ASSUME ThrottlerTypeOK, Inv, [ThrottlerNext]_throttlerVars
               PROVE  Inv'
    OBVIOUS
  <2>1. CASE Serve
    BY <2>1, PerformKnown DEF Serve, Batch, UndoKnown, CleanAfterStop, ThrottlerTypeOK
  <2>2. CASE Release
    <3>1. \A s \in Scopes : ~unit'[s].lost => Free(unit'[s])
      <4>1. PICK bad \in Failures : ResetAll(bad)
        BY <2>2 DEF Release
      <4>2. \A s \in Scopes : Known(unit[s])
        BY <2>2 DEF Release, UndoKnown
      <4>3. \A s \in Scopes : ~Reset(unit[s], Failing(bad, s)).lost =>
                                 Free(Reset(unit[s], Failing(bad, s)))
        BY <4>2, ResetFrees DEF ThrottlerTypeOK
      <4>4. QED BY <4>1, <4>3 DEF ResetAll
    <3>2. QED BY <3>1 DEF UndoKnown, CleanAfterStop, Known
  <2>3. CASE Die
    BY <2>3 DEF Die, UndoKnown, CleanAfterStop
  <2>4. CASE Boot
    <3>1. \A s \in Scopes : ~unit'[s].lost => Free(unit'[s])
      <4>1. PICK bad \in Failures, managed \in SUBSET Scopes : Sweep(managed, bad)
        BY <2>4 DEF Boot
      <4> TAKE s \in Scopes
      <4>2. (s \in managed) \in BOOLEAN /\ unit[s] \in UnitStates
        BY DEF ThrottlerTypeOK
      <4>3. unit'[s] = SweepUnit(unit[s], s \in managed, Failing(bad, s))
        BY <4>1 DEF Sweep
      <4>4. QED BY <4>2, <4>3, SweepFrees
    <3>2. QED BY <2>4, <3>1 DEF Boot, UndoKnown, CleanAfterStop, Known
  <2>5. CASE UNCHANGED throttlerVars
    BY <2>5 DEF throttlerVars, UndoKnown, CleanAfterStop
  <2>6. QED BY <2>1, <2>2, <2>3, <2>4, <2>5 DEF ThrottlerNext
<1>3. QED BY <1>1, <1>2, ThrottlerTypeCorrect, PTL DEF ThrottlerSpec

(* What makes a unit lost: nothing but a failed call, or a cpuset.         *)
LEMMA ResetLoses ==
    ASSUME NEW u \in UnitStates, NEW bad, Reset(u, bad).lost
    PROVE  u.lost \/ bad # {}
<1> DEFINE failed == Undo(u.applied) \in bad
<1> DEFINE after  == IF failed THEN u ELSE Systemctl(Undo(u.applied), "None", u)
<1>1. after \in UnitStates /\ after.lost = u.lost
  BY DEF Systemctl, Undo, UnitStates
<1>2. Reset(u, bad) = [after EXCEPT !.applied = "absent",
                                    !.lost = (@ \/ failed) /\ ~Free(after)]
  BY DEF Reset
<1>3. Reset(u, bad).lost => after.lost \/ failed
  <2> HIDE DEF after, failed
  <2> QED BY <1>1, <1>2 DEF UnitStates
<1>4. QED BY <1>1, <1>3

LEMMA PerformLoses ==
    ASSUME NEW u \in UnitStates, NEW call \in Calls, NEW bad, Perform(u, call, bad).lost
    PROVE  u.lost \/ bad # {}
<1>1. CASE call = "keep"
  BY <1>1 DEF Perform
<1>2. CASE call = "reset"
  <2>1. Perform(u, call, bad) = Reset(u, bad)
    BY <1>2 DEF Perform
  <2>2. QED BY <2>1, ResetLoses
<1>3. CASE call \in Profiles /\ call # "keep" /\ call # "reset"
  <2> DEFINE down == Systemctl(Teardown(u.applied, call), call, u)
  <2> DEFINE done == Systemctl(Setup(call), call, down)
  <2>1. down \in UnitStates /\ down.lost = u.lost
    BY SystemctlType DEF Teardown, Systemctl, UnitStates
  <2>2. Perform(u, call, bad) \in
           {u, down, [done EXCEPT !.applied = IF call = "None" THEN "absent" ELSE call]}
    BY <1>3 DEF Perform, Apply
  <2> HIDE DEF down
  <2>3. done \in UnitStates /\ done.lost = down.lost
    BY <2>1, SystemctlType DEF Setup, Systemctl, UnitStates
  <2> HIDE DEF done
  <2>4. QED BY <2>1, <2>2, <2>3 DEF UnitStates
<1>4. QED BY <1>1, <1>2, <1>3 DEF Calls

LEMMA SweepLoses ==
    ASSUME NEW u \in UnitStates, NEW managed \in BOOLEAN, NEW bad,
           SweepUnit(u, managed, bad).lost
    PROVE  bad # {} \/ PinOnly # {}
BY DEF SweepUnit, ForceClear, VisiblyDirty, UnitStates

(* A limit is lost only on a scope on which a call may fail, or where the  *)
(* sweep may overlook a cpuset.                                            *)
THEOREM ThrottlerLoses == ThrottlerSpec => [](\A s \in Scopes : unit[s].lost => LostByFailure(s))
<1> DEFINE Inv == \A s \in Scopes : unit[s].lost => LostByFailure(s)
<1>1. ThrottlerInit => Inv
  BY DEF ThrottlerInit, Pristine
<1>2. ThrottlerTypeOK /\ Inv /\ [ThrottlerNext]_throttlerVars => Inv'
  <2> SUFFICES ASSUME ThrottlerTypeOK, Inv, [ThrottlerNext]_throttlerVars,
                      NEW s \in Scopes, unit'[s].lost
               PROVE  PinOnly # {} \/ \E bad \in Failures : Failing(bad, s) # {}
    BY DEF LostByFailure
  <2>1. unit[s] \in UnitStates
    BY DEF ThrottlerTypeOK
  <2>2. unit[s].lost => PinOnly # {} \/ \E bad \in Failures : Failing(bad, s) # {}
    BY DEF LostByFailure
  <2>3. CASE Serve
    <3>1. PICK bad \in Failures, calls \in [Scopes -> Calls] : Batch(calls, bad)
      BY <2>3 DEF Serve
    <3>2. unit'[s] = Perform(unit[s], calls[s], Failing(bad, s)) /\ calls[s] \in Calls
      BY <3>1 DEF Batch
    <3>3. QED BY <2>1, <2>2, <3>2, PerformLoses
  <2>4. CASE Release
    <3>1. PICK bad \in Failures : ResetAll(bad)
      BY <2>4 DEF Release
    <3>2. unit'[s] = Reset(unit[s], Failing(bad, s))
      BY <3>1 DEF ResetAll
    <3>3. QED BY <2>1, <2>2, <3>2, ResetLoses
  <2>5. CASE Die
    BY <2>1, <2>2, <2>5 DEF Die, Forget, UnitStates
  <2>6. CASE Boot
    <3>1. PICK bad \in Failures, managed \in SUBSET Scopes : Sweep(managed, bad)
      BY <2>6 DEF Boot
    <3>2. unit'[s] = SweepUnit(unit[s], s \in managed, Failing(bad, s))
      BY <3>1 DEF Sweep
    <3>3. (s \in managed) \in BOOLEAN
      OBVIOUS
    <3>4. QED BY <2>1, <3>2, <3>3, SweepLoses
  <2>7. CASE UNCHANGED throttlerVars
    BY <2>2, <2>7 DEF throttlerVars
  <2>8. QED BY <2>3, <2>4, <2>5, <2>6, <2>7 DEF ThrottlerNext
<1>3. QED BY <1>1, <1>2, ThrottlerTypeCorrect, PTL DEF ThrottlerSpec

(* Where no call fails, `applied` says exactly what is in force on every   *)
(* scope that the daemon has not lost to the startup sweep.                *)
THEOREM ThrottlerExact == ThrottlerSpec => []ExactlyInForce
<1>1. ThrottlerInit => ExactlyInForce
  BY DEF ThrottlerInit, ExactlyInForce
<1>2. ThrottlerTypeOK /\ ExactlyInForce /\ [ThrottlerNext]_throttlerVars => ExactlyInForce'
  <2> SUFFICES ASSUME ThrottlerTypeOK, ExactlyInForce, [ThrottlerNext]_throttlerVars,
                      Failures = {{}}, daemon' = "up", NEW s \in Scopes
               PROVE  Exact(unit'[s])
    BY DEF ExactlyInForce
  <2>1. \A bad \in Failures : Failing(bad, s) = {}
    BY DEF Failing
  <2>2. unit[s] \in UnitStates
    BY DEF ThrottlerTypeOK
  <2>3. CASE Serve
    <3>1. PICK bad \in Failures, calls \in [Scopes -> Calls] : Batch(calls, bad)
      BY <2>3 DEF Serve
    <3>2. unit'[s] = Perform(unit[s], calls[s], {})
      BY <3>1, <2>1 DEF Batch
    <3>3. Exact(unit[s])
      BY <2>3 DEF Serve, ExactlyInForce
    <3>4. QED BY <2>2, <3>2, <3>3, PerformExact
  <2>4. CASE Release
    <3>1. PICK bad \in Failures : ResetAll(bad)
      BY <2>4 DEF Release
    <3>2. unit'[s] = Perform(unit[s], "reset", {})
      BY <3>1, <2>1 DEF ResetAll, Perform
    <3>3. Exact(unit[s])
      BY <2>4 DEF Release, ExactlyInForce
    <3>4. QED BY <2>2, <3>2, <3>3, PerformExact DEF Calls
  <2>5. CASE Die
    BY <2>5 DEF Die
  <2>6. CASE Boot
    <3>1. PICK bad \in Failures, managed \in SUBSET Scopes : Sweep(managed, bad)
      BY <2>6 DEF Boot
    <3>2. unit'[s] = SweepUnit(unit[s], s \in managed, Failing(bad, s))
      BY <3>1 DEF Sweep
    <3>3. (s \in managed) \in BOOLEAN
      OBVIOUS
    <3>4. unit'[s].applied = "absent" /\ (~unit'[s].lost => Free(unit'[s]))
      BY <2>2, <3>2, <3>3, SweepFrees
    <3>5. unit'[s] \in UnitStates
      BY <2>2, <3>2, <3>3, SweepType
    <3>6. QED BY <3>4, <3>5, FreeIsExact
  <2>7. CASE UNCHANGED throttlerVars
    BY <2>7 DEF throttlerVars, ExactlyInForce
  <2>8. QED BY <2>3, <2>4, <2>5, <2>6, <2>7 DEF ThrottlerNext
<1>3. QED BY <1>1, <1>2, ThrottlerTypeCorrect, PTL DEF ThrottlerSpec
=============================================================================
