---------------------------- MODULE GovernorProofs ----------------------------
(***************************************************************************)
(* For any apps, windows, scopes, configurations and failing calls: the    *)
(* type of the governor's state, that it implements the throttler's        *)
(* specification, that every restriction and every deadline it leaves      *)
(* behind between two messages has a reason, that no app is restricted in  *)
(* part, forgotten, or restricted within its grace period, and that the    *)
(* configuration is durable.                                               *)
(***************************************************************************)
EXTENDS GovernorGrace, ConfigProofs, ThrottlerProofs

-----------------------------------------------------------------------------
(* What reconcile and process_pending apply is a profile.                  *)
LEMMA EffectiveType ==
    ASSUME config \in Configs, NEW a \in Apps, ~LeftAlone(a)
    PROVE  EffectiveProfile(a) \in Profiles
<1>1. ResolveProfile(config, a) \in Profiles \cup {Unmanaged}
  BY ResolveType
<1>2. QED BY <1>1 DEF LeftAlone, EffectiveProfile

(* The calls of a handler are calls of the throttler.                      *)
LEMMA CallOnType ==
    ASSUME NEW S, NEW call \in Calls
    PROVE  CallOn(S, call) \in [Scopes -> Calls]
BY DEF CallOn, Calls
(* A walk goes on or ends.                                                 *)
LEMMA VisitedType ==
    ASSUME TypeOK, NEW a, Visited(a)
    PROVE  /\ todo' \subseteq Apps
           /\ phase' \in {"idle", "snapshot", "save", "engage", "reconcile", "process"}
BY DEF TypeOK, Visited

(* Retracking keeps the types and makes one batch of calls.                *)
LEMMA RetrackType ==
    ASSUME TypeOK, NEW wa, NEW refreshed, NEW bad \in Failures,
           NEW found \in [Apps -> SUBSET Scopes],
           Retrack(wa, refreshed, found, bad)
    PROVE  /\ scopes' \in [Apps -> SUBSET Scopes]
           /\ pending' \in [Apps -> {"no", "waiting", "due"}]
           /\ \E calls \in [Scopes -> Calls] : Batch(calls, bad)
<1>1. scopes' \in [Apps -> SUBSET Scopes]
  BY DEF Retrack, TypeOK
<1>2. pending' \in [Apps -> {"no", "waiting", "due"}]
  BY DEF Retrack, TypeOK
<1>3. CallOn(UNION {scopes[a] \ scopes'[a] : a \in Apps}, "reset") \in [Scopes -> Calls]
  BY CallOnType DEF Calls
<1>4. QED BY <1>1, <1>2, <1>3 DEF Retrack

(* A reset or an effective profile, called on the scopes of an app.        *)
LEMMA AppCalls ==
    ASSUME config \in Configs, NEW a \in Apps, NEW S
    PROVE  /\ CallOn(S, "reset") \in [Scopes -> Calls]
           /\ ~LeftAlone(a) => CallOn(S, EffectiveProfile(a)) \in [Scopes -> Calls]
           /\ CallOn(S, IF LeftAlone(a) THEN "keep" ELSE EffectiveProfile(a))
                 \in [Scopes -> Calls]
BY CallOnType, EffectiveType DEF Calls

-----------------------------------------------------------------------------
(* Every step of the governor is a step of the throttler or leaves it be.  *)
LEMMA StepImplements ==
    ASSUME TypeOK, [Next]_vars
    PROVE  [ThrottlerNext]_throttlerVars
<1> USE DEF ThrottlerNext, throttlerVars
<1>1. CASE NiriEvent
  <2>1. ASSUME NEW w \in Windows, NEW a \in Apps, NEW f \in BOOLEAN, Upsert(w, a, f)
        PROVE  Serve
    BY <2>1, RetrackType DEF Upsert, Serve, Idle, Findings
  <2>2. ASSUME NEW w \in Windows, Closed(w)
        PROVE  Serve
    BY <2>2, RetrackType DEF Closed, Serve, Idle, TypeOK
  <2>3. ASSUME NEW w \in Windows \cup {NoWindow}, Focus(w)
        PROVE  UNCHANGED throttlerVars
    BY <2>3 DEF Focus
  <2>4. ASSUME NEW snap \in Snapshots, SnapshotBegin(snap)
        PROVE  Serve
    BY <2>4, RetrackType DEF SnapshotBegin, Serve, Idle, TypeOK
  <2>5. CASE StreamLost
    BY <2>5 DEF StreamLost
  <2>6. QED BY <1>1, <2>1, <2>2, <2>3, <2>4, <2>5 DEF NiriEvent
<1>2. CASE OwnerChanged \/ Cleared
  BY <1>2 DEF OwnerChanged, Cleared, ClipboardEvent
<1>3. CASE Request
  <2>1. CASE Reload
    BY <2>1 DEF Reload
  <2>2. CASE \E c, next : Adopt(c, next)
    BY <2>2 DEF Adopt
  <2>3. QED
    BY <1>3, <2>1, <2>2
    DEF Request, SetMode, SetConfig, EngageKillSwitch, ReleaseKillSwitch, ReloadMissing
<1>4. CASE Handler
  <2>1. ASSUME NEW r \in incoming, SnapshotUpsert(r)
        PROVE  Serve
    BY <2>1, RetrackType DEF SnapshotUpsert, Serve, TypeOK
  <2>2. CASE SnapshotEnd
    BY <2>2, RetrackType DEF SnapshotEnd, Serve, Findings
  <2>3. ASSUME NEW a \in todo, ReconcileRelease(a)
        PROVE  Serve
    BY <2>3, AppCalls DEF ReconcileRelease, Visit, Serve, TypeOK
  <2>4. ASSUME NEW a \in todo, ReconcileReapply(a)
        PROVE  Serve
    BY <2>4, AppCalls DEF ReconcileReapply, Visit, Serve, TypeOK
  <2>5. ASSUME NEW a \in todo, ReconcileArm(a)
        PROVE  UNCHANGED throttlerVars
    BY <2>5 DEF ReconcileArm
  <2>6. ASSUME NEW a \in todo, ProcessDue(a)
        PROVE  Serve
    BY <2>6, AppCalls DEF ProcessDue, Serve, TypeOK
  <2>7. CASE Saved
    BY <2>7 DEF Saved
  <2>8. CASE Killed
    BY <2>8 DEF Killed, Release
  <2>9. QED BY <1>4, <2>1, <2>2, <2>3, <2>4, <2>5, <2>6, <2>7, <2>8 DEF Handler
<1>5. CASE \/ Timeout \/ KilledAtStart
           \/ (\E a \in Apps : GraceElapses(a)) \/ (\E f \in Edits : EditFile(f))
  BY <1>5 DEF Timeout, GraceElapses, EditFile, KilledAtStart
<1>6. CASE Shutdown
  BY <1>6 DEF Shutdown, Release, Idle
<1>7. CASE Crash
  BY <1>7 DEF Crash, Die
<1>8. ASSUME NEW snap \in Snapshots, Start(snap)
      PROVE  Boot
  <2>1. scopes' \in [Apps -> SUBSET Scopes]
    BY <1>8 DEF Start, Findings
  <2>2. UNION {scopes'[a] : a \in Apps} \in SUBSET Scopes
    BY <2>1
  <2>3. QED BY <1>8, <2>2 DEF Start, Boot
<1>9. CASE UNCHANGED vars
  BY <1>9 DEF vars
<1>10. QED BY <1>1, <1>2, <1>3, <1>4, <1>5, <1>6, <1>7, <1>8, <1>9 DEF Next

-----------------------------------------------------------------------------
(* A window said to be focused is known.  Without it the focus flags       *)
(* recomputed from winFocused might be those of no app.                    *)
FocusedKnown == \A w \in winFocused : winApp[w] \in Apps

LEMMA RecomputeType ==
    ASSUME NEW wa, NEW wf \in SUBSET Windows, \A w \in wf : wa[w] \in Apps,
           RecomputeFocused(wa, wf)
    PROVE  /\ winFocused' \subseteq Windows
           /\ focusedId' \in Windows \cup {NoWindow}
           /\ appFocused' \subseteq Apps
BY DEF RecomputeFocused

LEMMA ReconcileType ==
    ASSUME NEW S \in SUBSET Apps, BeginReconcile(S)
    PROVE  /\ todo' \subseteq Apps
           /\ phase' \in {"idle", "snapshot", "save", "engage", "reconcile", "process"}
BY DEF BeginReconcile

LEMMA LiveType ==
    ASSUME NEW wa \in [Windows -> Apps \cup {NoApp}]
    PROVE  LiveIn(wa) \in SUBSET Apps
BY DEF LiveIn

LEMMA LoadStepType ==
    ASSUME TypeOK, LoadAtStart
    PROVE  config' \in Configs /\ file' \in Files
BY LoadType, DefaultConfigType DEF LoadAtStart, TypeOK, Files

(* Adopting a configuration and opening the file keeps the types.          *)
LEMMA AdoptType ==
    ASSUME TypeOK, FocusedKnown, ThrottlerTypeOK', NEW c \in Configs,
           NEW next \in {"save", "engage"}, Adopt(c, next)
    PROVE  TypeOK' /\ FocusedKnown'
<1>1. file' \in Files
  BY DEF Adopt, Opened, TypeOK, Files
<1>2. QED BY <1>1 DEF Adopt, TypeOK, FocusedKnown, windowVars

(* Every request but a reload of a file that exists adopts a configuration *)
(* and saves it.                                                           *)
LEMMA RequestAdopts ==
    ASSUME TypeOK, Request, ~Reload
    PROVE  /\ Idle
           /\ \E c \in Configs, next \in {"save", "engage"} :
                 Adopt(c, next) /\ (next = "engage" => c.disabled)
<1>1. CASE \E m \in ModeNames : SetMode(m)
  BY <1>1 DEF SetMode, TypeOK, Configs
<1>2. CASE \E c \in Inputs : SetConfig(c)
  BY <1>2, GovernorAssumption DEF SetConfig
<1>3. CASE EngageKillSwitch
  <2> DEFINE c == [config EXCEPT !.disabled = TRUE]
  <2>1. Idle /\ Adopt(c, "engage")
    BY <1>3 DEF EngageKillSwitch
  <2>2. c \in Configs /\ c.disabled
    BY DEF TypeOK, Configs
  <2>3. QED BY <2>1, <2>2
<1>4. CASE ReleaseKillSwitch
  <2> DEFINE c == [config EXCEPT !.disabled = FALSE]
  <2>1. Idle /\ Adopt(c, "save")
    BY <1>4 DEF ReleaseKillSwitch
  <2>2. c \in Configs
    BY DEF TypeOK, Configs
  <2>3. QED BY <2>1, <2>2
<1>5. CASE ReloadMissing
  BY <1>5, LoadType DEF ReloadMissing, TypeOK
<1>6. QED BY <1>1, <1>2, <1>3, <1>4, <1>5 DEF Request

(* No step leaves the types.                                               *)
LEMMA TypeStep ==
    ASSUME TypeOK, FocusedKnown, [Next]_vars
    PROVE  TypeOK' /\ FocusedKnown'
<1>1. ThrottlerTypeOK'
  BY StepImplements, ThrottlerTypeStep DEF TypeOK
<1>2. CASE NiriEvent
  <2>1. ASSUME NEW w \in Windows, NEW a \in Apps, NEW f \in BOOLEAN, Upsert(w, a, f)
        PROVE  TypeOK' /\ FocusedKnown'
    <3> DEFINE wa == [winApp EXCEPT ![w] = a]
    <3> DEFINE wf == IF f THEN winFocused \cup {w} ELSE winFocused \ {w}
    <3>1. wa \in [Windows -> Apps \cup {NoApp}]
      BY DEF TypeOK
    <3>2. wf \in SUBSET Windows /\ \A x \in wf : wa[x] \in Apps
      BY DEF TypeOK, FocusedKnown
    <3>3. PICK found \in Findings, bad \in Failures : Retrack(wa, {a}, found, bad)
      BY <2>1 DEF Upsert
    <3>4. /\ RecomputeFocused(wa, wf)
          /\ BeginReconcile(LiveIn(wa))
          /\ UNCHANGED <<daemon, owner, configVars, stream, incoming>>
      BY <2>1 DEF Upsert
    <3>5. winApp' = wa
      BY <3>3 DEF Retrack
    <3>6. found \in [Apps -> SUBSET Scopes]
      BY DEF Findings
    <3>7. winFocused' = wf
      BY <3>4 DEF RecomputeFocused
    <3> HIDE DEF wa, wf
    <3>8. QED
      BY <1>1, <3>1, <3>2, <3>3, <3>4, <3>5, <3>6, <3>7, LiveType, RetrackType,
         RecomputeType, ReconcileType
      DEF TypeOK, FocusedKnown, configVars
  <2>2. ASSUME NEW w \in Windows, Closed(w)
        PROVE  TypeOK' /\ FocusedKnown'
    <3> DEFINE wa == [winApp EXCEPT ![w] = NoApp]
    <3>1. wa \in [Windows -> Apps \cup {NoApp}]
      BY DEF TypeOK
    <3>2. PICK bad \in Failures : Retrack(wa, {}, scopes, bad)
      BY <2>2 DEF Closed
    <3>3. /\ winFocused' = winFocused \ {w}
          /\ appFocused' = appFocused \cap LiveIn(wa)
          /\ BeginReconcile(LiveIn(wa))
          /\ UNCHANGED <<daemon, focusedId, owner, configVars, stream, incoming>>
      BY <2>2 DEF Closed
    <3>4. winApp' = wa
      BY <3>2 DEF Retrack
    <3>5. FocusedKnown'
      BY <3>3, <3>4 DEF FocusedKnown, TypeOK
    <3> HIDE DEF wa
    <3>6. QED
      BY <1>1, <3>1, <3>2, <3>3, <3>4, <3>5, LiveType, RetrackType, ReconcileType
      DEF TypeOK, configVars
  <2>3. ASSUME NEW w \in Windows \cup {NoWindow}, Focus(w)
        PROVE  TypeOK' /\ FocusedKnown'
    <3> DEFINE wf == {x \in Windows : x = w /\ winApp[x] # NoApp}
    <3>1. /\ winFocused' = wf
          /\ focusedId' = w
          /\ appFocused' = {winApp[x] : x \in wf}
          /\ BeginReconcile(Live)
          /\ UNCHANGED <<unit, daemon, winApp, scopes, pending, owner, configVars,
                         stream, incoming>>
      BY <2>3 DEF Focus
    <3>2. \A x \in wf : winApp[x] \in Apps
      BY DEF TypeOK
    <3> HIDE DEF wf
    <3>3. wf \subseteq Windows
      BY DEF wf
    <3>4. appFocused' \subseteq Apps
      BY <3>1, <3>2
    <3>5. Live \in SUBSET Apps
      BY LiveType DEF Live, TypeOK
    <3>6. QED
      BY <1>1, <3>1, <3>2, <3>3, <3>4, <3>5, ReconcileType
      DEF TypeOK, FocusedKnown, configVars
  <2>4. ASSUME NEW snap \in Snapshots, SnapshotBegin(snap)
        PROVE  TypeOK' /\ FocusedKnown'
    <3> DEFINE ids == {r.id : r \in snap}
    <3> DEFINE wa == [w \in Windows |-> IF w \in ids THEN winApp[w] ELSE NoApp]
    <3>1. wa \in [Windows -> Apps \cup {NoApp}]
      BY DEF TypeOK
    <3>2. PICK bad \in Failures : Retrack(wa, {}, scopes, bad)
      BY <2>4 DEF SnapshotBegin
    <3>3. /\ winFocused' = winFocused \cap ids
          /\ appFocused' = appFocused \cap LiveIn(wa)
          /\ incoming' = snap
          /\ phase' = "snapshot"
          /\ stream' = "up"
          /\ UNCHANGED <<daemon, focusedId, owner, configVars, todo>>
      BY <2>4 DEF SnapshotBegin
    <3>4. winApp' = wa
      BY <3>2 DEF Retrack
    <3>5. FocusedKnown'
      BY <3>3, <3>4 DEF FocusedKnown, TypeOK
    <3>6. snap \subseteq WindowInfo
      BY DEF Snapshots
    <3> HIDE DEF wa, ids
    <3>7. QED
      BY <1>1, <3>1, <3>2, <3>3, <3>4, <3>5, <3>6, RetrackType DEF TypeOK, configVars
  <2>5. CASE StreamLost
    BY <1>1, <2>5 DEF StreamLost, TypeOK, FocusedKnown, windowVars, configVars, controlVars
  <2>6. QED BY <1>2, <2>1, <2>2, <2>3, <2>4, <2>5 DEF NiriEvent
<1>3. CASE OwnerChanged \/ Cleared
  <2>1. PICK new \in Apps \cup {NoApp} : ClipboardEvent(new)
    BY <1>3 DEF OwnerChanged, Cleared, FocusedApp, TypeOK
  <2>2. Live \in SUBSET Apps
    BY LiveType DEF Live, TypeOK
  <2>3. QED
    BY <1>1, <2>1, <2>2, ReconcileType
    DEF ClipboardEvent, TypeOK, FocusedKnown, windowVars, configVars
<1>4. CASE Request
  <2>1. CASE Reload
    <3>1. Live \in SUBSET Apps
      BY LiveType DEF Live, TypeOK
    <3>2. config' \in Configs
      BY <2>1, LoadType DEF Reload, TypeOK
    <3>3. QED
      BY <1>1, <2>1, <3>1, <3>2, ReconcileType
      DEF Reload, TypeOK, FocusedKnown, windowVars
  <2>2. CASE ~Reload
    BY <1>1, <1>4, <2>2, RequestAdopts, AdoptType
  <2>3. QED BY <2>1, <2>2
<1>5. CASE Handler
  <2>1. ASSUME NEW r \in incoming, SnapshotUpsert(r)
        PROVE  TypeOK' /\ FocusedKnown'
    <3> DEFINE wa == [winApp EXCEPT ![r.id] = r.app]
    <3>1. r.id \in Windows /\ r.app \in Apps
      BY DEF TypeOK, WindowInfo
    <3>2. wa \in [Windows -> Apps \cup {NoApp}]
      BY <3>1 DEF TypeOK
    <3>3. PICK bad \in Failures : Retrack(wa, {}, scopes, bad)
      BY <2>1 DEF SnapshotUpsert
    <3>4. /\ winFocused' = IF r.focused THEN winFocused \cup {r.id} ELSE winFocused \ {r.id}
          /\ appFocused' = appFocused \cap LiveIn(wa)
          /\ incoming' = incoming \ {r}
          /\ UNCHANGED <<daemon, focusedId, owner, configVars, stream, phase, todo>>
      BY <2>1 DEF SnapshotUpsert
    <3>5. winApp' = wa
      BY <3>3 DEF Retrack
    <3>6. FocusedKnown'
      BY <3>1, <3>4, <3>5 DEF FocusedKnown, TypeOK
    <3> HIDE DEF wa
    <3>7. QED
      BY <1>1, <3>1, <3>2, <3>3, <3>4, <3>5, <3>6, RetrackType DEF TypeOK, configVars
  <2>2. CASE SnapshotEnd
    <3>1. PICK found \in Findings, bad \in Failures : Retrack(winApp, Live, found, bad)
      BY <2>2 DEF SnapshotEnd
    <3>2. /\ RecomputeFocused(winApp, winFocused)
          /\ BeginReconcile(Live)
          /\ UNCHANGED <<daemon, owner, configVars, stream, incoming>>
      BY <2>2 DEF SnapshotEnd
    <3>3. winApp' = winApp
      BY <3>1 DEF Retrack
    <3>4. winFocused' = winFocused
      BY <3>2 DEF RecomputeFocused
    <3>5. found \in [Apps -> SUBSET Scopes]
      BY DEF Findings
    <3>6. Live \in SUBSET Apps
      BY LiveType DEF Live, TypeOK
    <3>7. appFocused' \subseteq Apps /\ focusedId' \in Windows \cup {NoWindow}
      BY <3>2, RecomputeType DEF TypeOK, FocusedKnown
    <3>8. QED
      BY <1>1, <3>1, <3>2, <3>3, <3>4, <3>5, <3>6, <3>7, RetrackType, ReconcileType
      DEF TypeOK, FocusedKnown, configVars
  <2>3. ASSUME NEW a \in todo, ReconcileRelease(a)
        PROVE  TypeOK' /\ FocusedKnown'
    BY <1>1, <2>3, VisitedType
    DEF ReconcileRelease, Visit, TypeOK, FocusedKnown, windowVars, configVars
  <2>4. ASSUME NEW a \in todo, ReconcileReapply(a)
        PROVE  TypeOK' /\ FocusedKnown'
    BY <1>1, <2>4, VisitedType
    DEF ReconcileReapply, Visit, TypeOK, FocusedKnown, windowVars, configVars
  <2>5. ASSUME NEW a \in todo, ReconcileArm(a)
        PROVE  TypeOK' /\ FocusedKnown'
    BY <1>1, <2>5, VisitedType
    DEF ReconcileArm, Visit, TypeOK, FocusedKnown, windowVars, configVars
  <2>6. ASSUME NEW a \in todo, ProcessDue(a)
        PROVE  TypeOK' /\ FocusedKnown'
    BY <1>1, <2>6, VisitedType
    DEF ProcessDue, TypeOK, FocusedKnown, windowVars, configVars
  <2>7. CASE Saved
    <3>1. Live \in SUBSET Apps
      BY LiveType DEF Live, TypeOK
    <3>2. file' \in Files
      BY <2>7 DEF Saved, Written, TypeOK, Files
    <3>3. QED
      BY <1>1, <2>7, <3>1, <3>2, ReconcileType
      DEF Saved, TypeOK, FocusedKnown, windowVars
  <2>8. CASE Killed
    <3>1. file' \in Files
      BY <2>8 DEF Killed, Written, TypeOK, Files
    <3>2. QED
      BY <1>1, <2>8, <3>1 DEF Killed, TypeOK, FocusedKnown, windowVars
  <2>9. QED BY <1>5, <2>1, <2>2, <2>3, <2>4, <2>5, <2>6, <2>7, <2>8 DEF Handler
<1>6. CASE Timeout \/ (\E a \in Apps : GraceElapses(a))
  BY <1>1, <1>6
  DEF Timeout, GraceElapses, TypeOK, FocusedKnown, windowVars, configVars, controlVars
<1>7. CASE \E f \in Edits : EditFile(f)
  BY <1>1, <1>7, GovernorAssumption
  DEF EditFile, TypeOK, FocusedKnown, windowVars, configVars, controlVars
<1>8. CASE Shutdown \/ Crash \/ KilledAtStart
  <2>1. CASE KilledAtStart
    BY <1>1, <2>1
    DEF KilledAtStart, TypeOK, FocusedKnown, Files, windowVars, controlVars
  <2>2. CASE Shutdown \/ Crash
    <3>1. LoseMemory /\ UNCHANGED file
      BY <2>2 DEF Shutdown, Crash
    <3>2. QED BY <1>1, <3>1, DefaultConfigType DEF LoseMemory, TypeOK, FocusedKnown
  <2>3. QED BY <1>8, <2>1, <2>2
<1>9. ASSUME NEW snap \in Snapshots, Start(snap)
      PROVE  TypeOK' /\ FocusedKnown'
  <2> DEFINE wa == [w \in Windows |-> IF \E r \in snap : r.id = w
                                      THEN (CHOOSE r \in snap : r.id = w).app ELSE NoApp]
  <2> DEFINE wf == {r.id : r \in {x \in snap : x.focused}}
  <2>1. snap \subseteq WindowInfo
    BY DEF Snapshots
  <2>2. \A w \in Windows : (\E r \in snap : r.id = w) => wa[w] \in Apps
    BY <2>1 DEF WindowInfo
  <2>3. wa \in [Windows -> Apps \cup {NoApp}]
    BY <2>2
  <2>4. wf \in SUBSET Windows /\ \A w \in wf : wa[w] \in Apps
    BY <2>1, <2>2 DEF WindowInfo
  <2>5. /\ LoadAtStart
        /\ winApp' = wa
        /\ RecomputeFocused(wa, wf)
        /\ BeginReconcile(LiveIn(wa))
        /\ UNCHANGED <<pending, owner, stream, incoming>>
    BY <1>9 DEF Start
  <2>6. scopes' \in [Apps -> SUBSET Scopes]
    BY <1>9 DEF Start, Findings
  <2>7. winFocused' = wf
    BY <2>5 DEF RecomputeFocused
  <2> HIDE DEF wa, wf
  <2>8. QED
    BY <1>1, <2>3, <2>4, <2>5, <2>6, <2>7, LoadStepType, LiveType, RecomputeType, ReconcileType
    DEF TypeOK, FocusedKnown
<1>10. CASE UNCHANGED vars
  BY <1>1, <1>10 DEF vars, TypeOK, FocusedKnown, windowVars, configVars, controlVars
<1>11. QED BY <1>2, <1>3, <1>4, <1>5, <1>6, <1>7, <1>8, <1>9, <1>10 DEF Next

-----------------------------------------------------------------------------
(* The state of the governor stays within its type.                        *)
THEOREM GovernorTypeCorrect == Spec => []TypeOK
<1> DEFINE Inv == TypeOK /\ FocusedKnown
<1>1. Init => Inv
  <2> SUFFICES ASSUME Init PROVE Inv
    OBVIOUS
  <2>1. ThrottlerTypeOK
    BY DEF Init, ThrottlerInit, ThrottlerTypeOK, Pristine, UnitStates
  <2>2. file \in Files
    BY GovernorAssumption DEF Init, Files
  <2>3. QED BY <2>1, <2>2, DefaultConfigType DEF Init, TypeOK, FocusedKnown
<1>2. Inv /\ [Next]_vars => Inv'
  BY TypeStep
<1>3. QED BY <1>1, <1>2, PTL DEF Spec

(* The governor implements the throttler's specification: whatever windows, *)
(* requests, failures and crashes do to it, it uses the throttler only in  *)
(* the ways of ThrottlerNext, and boots it by a sweep.                     *)
THEOREM GovernorImplementsThrottler == Spec => ThrottlerSpec
<1>1. Init => ThrottlerInit
  BY DEF Init
<1>2. TypeOK /\ [Next]_vars => [ThrottlerNext]_throttlerVars
  BY StepImplements
<1>3. QED BY <1>1, <1>2, GovernorTypeCorrect, PTL DEF Spec, ThrottlerSpec

(* So everything proved of the throttler holds of the daemon: it knows how *)
(* to undo every limit it has not lost, and a stop leaves only lost limits. *)
THEOREM GovernorUndo == Spec => [](UndoKnown /\ CleanAfterStop)
BY GovernorImplementsThrottler, ThrottlerUndo, PTL

-----------------------------------------------------------------------------
(* While a handler runs, an app it has still to visit may be restricted or *)
(* have a deadline without a reason, and any app may while a snapshot or a *)
(* save is under way; apps without windows have neither scopes nor         *)
(* deadlines and are not visited; nothing is pending while the daemon is   *)
(* down.                                                                   *)
Justified(a) == \/ phase \in {"snapshot", "save", "engage"}
                \/ phase = "reconcile" /\ a \in todo
                \/ ~LeftAlone(a)
RestrictedInv == daemon = "up" =>
    \A s \in Scopes : Throttled(s) => \E a \in Apps : s \in scopes[a] /\ Justified(a)
DeadlineInv   == \A a \in Apps : pending[a] # "no" => daemon = "up" /\ Justified(a)
OnlyLive      == \A a \in Apps \ Live : scopes[a] = {} /\ pending[a] = "no"
WalkLive      == phase = "reconcile" => todo \subseteq Live
GovernorInv   == RestrictedInv /\ DeadlineInv /\ OnlyLive /\ WalkLive

(* What a batch does to the recorded profiles.                             *)
LEMMA ResetForgets ==
    ASSUME NEW u \in UnitStates, NEW bad
    PROVE  Reset(u, bad).applied = "absent"
BY ProfileAssumption DEF Reset, Systemctl, Undo, UnitStates, Reserved

LEMMA BatchReset ==
    ASSUME ThrottlerTypeOK, NEW S, NEW bad, Batch(CallOn(S, "reset"), bad),
           NEW s \in Scopes, Throttled(s)'
    PROVE  Throttled(s) /\ s \notin S
<1>1. CASE s \in S
  <2>1. unit'[s] = Reset(unit[s], Failing(bad, s))
    BY <1>1 DEF Batch, CallOn, Perform
  <2>2. QED BY <2>1, ResetForgets DEF ThrottlerTypeOK, Throttled
<1>2. CASE s \notin S
  <2>1. unit'[s] = unit[s]
    BY <1>2 DEF Batch, CallOn, Perform
  <2>2. QED BY <1>2, <2>1 DEF Throttled
<1>3. QED BY <1>1, <1>2

LEMMA BatchKeep ==
    ASSUME NEW S, NEW bad, Batch(CallOn(S, "keep"), bad), NEW s \in Scopes
    PROVE  Throttled(s)' = Throttled(s)
<1>1. unit'[s] = unit[s]
  BY DEF Batch, CallOn, Perform
<1>2. QED BY <1>1 DEF Throttled

LEMMA BatchElsewhere ==
    ASSUME NEW S, NEW call, NEW bad, Batch(CallOn(S, call), bad),
           NEW s \in Scopes, Throttled(s)', s \notin S
    PROVE  Throttled(s)
BY DEF Batch, CallOn, Perform, Throttled

LEMMA ResetAllForgets ==
    ASSUME ThrottlerTypeOK, NEW bad, ResetAll(bad), NEW s \in Scopes
    PROVE  ~Throttled(s)'
BY ResetForgets DEF ResetAll, ThrottlerTypeOK, Throttled

LEMMA SweepForgets ==
    ASSUME ThrottlerTypeOK, NEW managed, NEW bad, Sweep(managed, bad), NEW s \in Scopes
    PROVE  ~Throttled(s)'
<1>1. (s \in managed) \in BOOLEAN /\ unit[s] \in UnitStates
  BY DEF ThrottlerTypeOK
<1>2. unit'[s] = SweepUnit(unit[s], s \in managed, Failing(bad, s))
  BY DEF Sweep
<1>3. QED BY <1>1, <1>2, SweepFrees DEF Throttled

(* Retracking keeps scopes and deadlines to the apps that have windows,    *)
(* and restrictions to the scopes of those apps.                           *)
LEMMA RetrackOwned ==
    ASSUME TypeOK, GovernorInv, daemon = "up", NEW wa, NEW bad,
           NEW refreshed \in SUBSET Apps, refreshed \subseteq LiveIn(wa),
           NEW found \in [Apps -> SUBSET Scopes], Retrack(wa, refreshed, found, bad)
    PROVE  /\ OnlyLive'
           /\ \A s \in Scopes : Throttled(s)' => \E a \in Apps : s \in scopes'[a]
<1>1. Live' = LiveIn(wa)
  BY DEF Live, Retrack, LiveIn
<1>2. OnlyLive'
  BY <1>1 DEF Retrack, OnlyLive, GovernorInv, TypeOK
<1>3. ASSUME NEW s \in Scopes, Throttled(s)'
      PROVE  \E a \in Apps : s \in scopes'[a]
  <2>1. Throttled(s) /\ s \notin UNION {scopes[a] \ scopes'[a] : a \in Apps}
    BY <1>3, BatchReset DEF Retrack, TypeOK
  <2>2. PICK a \in Apps : s \in scopes[a]
    BY <2>1 DEF GovernorInv, RestrictedInv
  <2>3. s \in scopes'[a]
    BY <2>1, <2>2
  <2>4. QED BY <2>3
<1>4. QED BY <1>2, <1>3

(* A reconcile that begins with all apps that have windows justifies what  *)
(* there is: it will visit it.                                             *)
LEMMA ReconcileCovers ==
    ASSUME daemon' = "up", BeginReconcile(Live'), OnlyLive',
           \A s \in Scopes : Throttled(s)' => \E a \in Apps : s \in scopes'[a]
    PROVE  GovernorInv'
<1>1. \A a \in Apps : scopes'[a] # {} \/ pending'[a] # "no" => a \in Live'
  BY DEF OnlyLive
<1>2. \A a \in Live' : Justified(a)'
  BY DEF BeginReconcile, Justified
<1>3. RestrictedInv'
  BY <1>1, <1>2 DEF RestrictedInv
<1>4. DeadlineInv'
  BY <1>1, <1>2 DEF DeadlineInv
<1>5. WalkLive'
  BY DEF BeginReconcile, WalkLive
<1>6. QED BY <1>3, <1>4, <1>5 DEF GovernorInv

(* A handler that only changes what LeftAlone depends on and reconciles.   *)
LEMMA PolicyStep ==
    ASSUME GovernorInv, daemon = "up", BeginReconcile(Live),
           UNCHANGED <<unit, daemon, winApp, scopes, pending>>
    PROVE  GovernorInv'
<1>1. Live' = Live
  BY DEF Live, LiveIn
<1>2. OnlyLive'
  BY <1>1 DEF OnlyLive, GovernorInv
<1>3. \A s \in Scopes : Throttled(s)' => \E a \in Apps : s \in scopes'[a]
  BY DEF GovernorInv, RestrictedInv, Throttled
<1>4. QED BY <1>1, <1>2, <1>3, ReconcileCovers

(* Between adopting a configuration and the walk or the reset that follows *)
(* its save, anything may be without a reason.                             *)
LEMMA AdoptStep ==
    ASSUME GovernorInv, daemon = "up", NEW c, NEW next \in {"save", "engage"},
           Adopt(c, next)
    PROVE  GovernorInv'
<1>1. /\ phase' \in {"save", "engage"} /\ phase' # "reconcile"
      /\ Live' = Live
      /\ UNCHANGED <<unit, daemon, scopes, pending>>
  BY DEF Adopt, Live, LiveIn, windowVars
<1>2. \A a \in Apps : Justified(a)'
  BY <1>1 DEF Justified
<1>3. RestrictedInv'
  BY <1>1, <1>2 DEF RestrictedInv, GovernorInv, Throttled
<1>4. QED
  BY <1>1, <1>2, <1>3 DEF GovernorInv, DeadlineInv, OnlyLive, WalkLive

(* What a visit of app a may leave: a deadline or a limit of a only if it  *)
(* is not left alone, except that process_pending keeps old limits.        *)
DeadlinesAfter(a) == \A b \in Apps : pending'[b] # "no" =>
    IF b = a THEN a \in Live /\ ~LeftAlone(a) ELSE pending[b] # "no"
LimitsAfter(a) == \A s \in Scopes : Throttled(s)' =>
    \/ Throttled(s) /\ (s \notin scopes[a] \/ phase = "process")
    \/ s \in scopes[a] /\ ~LeftAlone(a)

LEMMA VisitStep ==
    ASSUME GovernorInv, NEW a \in Apps, daemon = "up", Visited(a),
           phase \in {"reconcile", "process"},
           UNCHANGED <<daemon, windowVars, owner, configVars>>,
           DeadlinesAfter(a), LimitsAfter(a)
    PROVE  GovernorInv'
<1>1. /\ Live' = Live
      /\ scopes' = scopes
      /\ \A b \in Apps : LeftAlone(b)' = LeftAlone(b)
  BY DEF Live, LiveIn, LeftAlone, EffectiveProfile, windowVars, configVars
<1>2. \A b \in Apps \ {a} : Justified(b) => Justified(b)'
  BY <1>1 DEF Justified, Visited
<1>3. ~LeftAlone(a) => Justified(a)'
  BY <1>1 DEF Justified
<1>4. phase = "process" => \A b \in Apps : Justified(b) => Justified(b)'
  BY <1>1 DEF Justified
<1>5. RestrictedInv'
  <2> SUFFICES ASSUME NEW s \in Scopes, Throttled(s)'
               PROVE  \E b \in Apps : s \in scopes[b] /\ Justified(b)'
    BY <1>1 DEF RestrictedInv
  <2>1. CASE s \in scopes[a] /\ ~LeftAlone(a)
    BY <1>3, <2>1
  <2>2. CASE Throttled(s) /\ (phase = "process" \/ s \notin scopes[a])
    <3>1. PICK b \in Apps : s \in scopes[b] /\ Justified(b)
      BY <2>2 DEF GovernorInv, RestrictedInv
    <3>2. CASE phase = "process"
      BY <1>4, <3>1, <3>2
    <3>3. CASE phase = "reconcile"
      BY <1>2, <2>2, <3>1, <3>3
    <3>4. QED BY <3>2, <3>3
  <2>3. QED BY <2>1, <2>2 DEF LimitsAfter
<1>6. DeadlineInv'
  BY <1>2, <1>3 DEF DeadlineInv, GovernorInv, DeadlinesAfter
<1>7. OnlyLive'
  BY <1>1 DEF OnlyLive, GovernorInv, DeadlinesAfter
<1>8. WalkLive'
  BY <1>1 DEF WalkLive, GovernorInv, Visited
<1>9. QED BY <1>5, <1>6, <1>7, <1>8 DEF GovernorInv

(* No step breaks the reasons.                                             *)
LEMMA InvStep ==
    ASSUME TypeOK, TypeOK', GovernorInv, [Next]_vars
    PROVE  GovernorInv'
<1>1. CASE NiriEvent
  <2>1. ASSUME NEW w \in Windows, NEW a \in Apps, NEW f \in BOOLEAN, Upsert(w, a, f)
        PROVE  GovernorInv'
    <3> DEFINE wa == [winApp EXCEPT ![w] = a]
    <3>1. PICK found \in Findings, bad \in Failures : Retrack(wa, {a}, found, bad)
      BY <2>1 DEF Upsert
    <3>2. daemon = "up" /\ daemon' = "up" /\ BeginReconcile(LiveIn(wa))
      BY <2>1 DEF Upsert, Idle
    <3>3. a \in LiveIn(wa)
      BY GovernorAssumption DEF LiveIn, TypeOK
    <3>4. winApp' = wa
      BY <3>1 DEF Retrack
    <3>5. found \in [Apps -> SUBSET Scopes]
      BY DEF Findings
    <3> HIDE DEF wa
    <3>6. LiveIn(wa) = Live'
      BY <3>4 DEF Live, LiveIn
    <3>7. QED BY <3>1, <3>2, <3>3, <3>5, <3>6, RetrackOwned, ReconcileCovers
  <2>2. ASSUME NEW w \in Windows, Closed(w)
        PROVE  GovernorInv'
    <3> DEFINE wa == [winApp EXCEPT ![w] = NoApp]
    <3>1. PICK bad \in Failures : Retrack(wa, {}, scopes, bad)
      BY <2>2 DEF Closed
    <3>2. daemon = "up" /\ daemon' = "up" /\ BeginReconcile(LiveIn(wa))
      BY <2>2 DEF Closed, Idle
    <3>3. winApp' = wa
      BY <3>1 DEF Retrack
    <3> HIDE DEF wa
    <3>4. LiveIn(wa) = Live'
      BY <3>3 DEF Live, LiveIn
    <3>5. scopes \in [Apps -> SUBSET Scopes]
      BY DEF TypeOK
    <3>6. QED BY <3>1, <3>2, <3>4, <3>5, RetrackOwned, ReconcileCovers
  <2>3. ASSUME NEW w \in Windows \cup {NoWindow}, Focus(w)
        PROVE  GovernorInv'
    BY <2>3, PolicyStep DEF Focus, Idle
  <2>4. ASSUME NEW snap \in Snapshots, SnapshotBegin(snap)
        PROVE  GovernorInv'
    <3>1. PICK wa : \E bad \in Failures : Retrack(wa, {}, scopes, bad)
      BY <2>4 DEF SnapshotBegin
    <3>2. PICK bad \in Failures : Retrack(wa, {}, scopes, bad)
      BY <3>1
    <3>3. daemon = "up" /\ daemon' = "up" /\ phase' = "snapshot"
      BY <2>4 DEF SnapshotBegin, Idle
    <3>4. scopes \in [Apps -> SUBSET Scopes]
      BY DEF TypeOK
    <3>5. QED
      BY <3>2, <3>3, <3>4, RetrackOwned
      DEF GovernorInv, RestrictedInv, DeadlineInv, Justified, WalkLive
  <2>5. CASE StreamLost
    <3>1. Live' = Live /\ \A a \in Apps : Justified(a)' = Justified(a)
      BY <2>5 DEF StreamLost, Live, LiveIn, Justified, LeftAlone, EffectiveProfile,
                  windowVars, configVars, controlVars
    <3>2. unit' = unit /\ scopes' = scopes /\ daemon' = daemon
          /\ \A a \in Apps : pending'[a] = "no"
      BY <2>5 DEF StreamLost, windowVars
    <3>3. phase' # "reconcile"
      BY <2>5 DEF StreamLost, Idle, controlVars
    <3>4. QED
      BY <3>1, <3>2, <3>3
      DEF GovernorInv, RestrictedInv, DeadlineInv, OnlyLive, Throttled,
                      WalkLive
  <2>6. QED BY <1>1, <2>1, <2>2, <2>3, <2>4, <2>5 DEF NiriEvent
<1>2. CASE OwnerChanged \/ Cleared
  BY <1>2, PolicyStep DEF OwnerChanged, Cleared, ClipboardEvent, Idle, windowVars
<1>3. CASE Request
  <2>1. CASE Reload
    BY <2>1, PolicyStep DEF Reload, Idle, windowVars
  <2>2. CASE ~Reload
    BY <1>3, <2>2, RequestAdopts, AdoptStep DEF Idle
  <2>3. QED BY <2>1, <2>2
<1>4. CASE Handler
  <2>1. ASSUME NEW r \in incoming, SnapshotUpsert(r)
        PROVE  GovernorInv'
    <3>1. PICK wa : \E bad \in Failures : Retrack(wa, {}, scopes, bad)
      BY <2>1 DEF SnapshotUpsert
    <3>2. PICK bad \in Failures : Retrack(wa, {}, scopes, bad)
      BY <3>1
    <3>3. daemon = "up" /\ daemon' = "up" /\ phase' = "snapshot"
      BY <2>1 DEF SnapshotUpsert
    <3>4. scopes \in [Apps -> SUBSET Scopes]
      BY DEF TypeOK
    <3>5. QED
      BY <3>2, <3>3, <3>4, RetrackOwned
      DEF GovernorInv, RestrictedInv, DeadlineInv, Justified, WalkLive
  <2>2. CASE SnapshotEnd
    <3>1. PICK found \in Findings, bad \in Failures : Retrack(winApp, Live, found, bad)
      BY <2>2 DEF SnapshotEnd
    <3>2. daemon = "up" /\ daemon' = "up" /\ BeginReconcile(Live)
      BY <2>2 DEF SnapshotEnd
    <3>3. Live' = Live /\ Live = LiveIn(winApp)
      BY <3>1 DEF Retrack, Live, LiveIn
    <3>4. found \in [Apps -> SUBSET Scopes] /\ Live \in SUBSET Apps
      BY LiveType DEF Findings, TypeOK, Live
    <3>5. QED BY <3>1, <3>2, <3>3, <3>4, RetrackOwned, ReconcileCovers
  <2>3. ASSUME NEW a \in todo, ReconcileRelease(a)
        PROVE  GovernorInv'
    <3>1. PICK bad \in Failures : Batch(CallOn(scopes[a], "reset"), bad)
      BY <2>3 DEF ReconcileRelease
    <3>2. LimitsAfter(a)
      BY <3>1, BatchReset DEF TypeOK, LimitsAfter
    <3>3. DeadlinesAfter(a)
      BY <2>3 DEF ReconcileRelease, TypeOK, DeadlinesAfter
    <3>4. QED BY <2>3, <3>2, <3>3, VisitStep DEF ReconcileRelease, Visit, TypeOK
  <2>4. ASSUME NEW a \in todo, ReconcileReapply(a)
        PROVE  GovernorInv'
    <3>1. PICK bad \in Failures : Batch(CallOn(scopes[a], EffectiveProfile(a)), bad)
      BY <2>4 DEF ReconcileReapply
    <3>2. LimitsAfter(a)
      <4>1. ~LeftAlone(a)
        BY <2>4 DEF ReconcileReapply
      <4>2. \A s \in Scopes : Throttled(s)' => Throttled(s) \/ s \in scopes[a]
        BY <3>1, BatchElsewhere
      <4>3. QED BY <4>1, <4>2 DEF LimitsAfter, Throttled
    <3>3. pending' = pending /\ ~LeftAlone(a)
      BY <2>4 DEF ReconcileReapply
    <3>4. \A b \in Apps : pending[b] # "no" => b \in Live
      BY DEF GovernorInv, OnlyLive
    <3>5. DeadlinesAfter(a)
      BY <3>3, <3>4 DEF DeadlinesAfter
    <3>6. QED BY <2>4, <3>2, <3>5, VisitStep DEF ReconcileReapply, Visit, TypeOK
  <2>5. ASSUME NEW a \in todo, ReconcileArm(a)
        PROVE  GovernorInv'
    <3>1. a \in Live
      BY <2>5 DEF ReconcileArm, Visit, GovernorInv, WalkLive
    <3>2. LimitsAfter(a)
      BY <2>5 DEF ReconcileArm, LimitsAfter, Throttled
    <3>3. DeadlinesAfter(a)
      BY <2>5, <3>1 DEF ReconcileArm, TypeOK, DeadlinesAfter
    <3>4. QED BY <2>5, <3>2, <3>3, VisitStep DEF ReconcileArm, Visit, TypeOK
  <2>6. ASSUME NEW a \in todo, ProcessDue(a)
        PROVE  GovernorInv'
    <3>1. LimitsAfter(a)
      <4>1. CASE LeftAlone(a)
        <5>1. PICK bad \in Failures : Batch(CallOn(scopes[a], "keep"), bad)
          BY <2>6, <4>1 DEF ProcessDue
        <5>2. phase = "process"
          BY <2>6 DEF ProcessDue
        <5>3. \A s \in Scopes : Throttled(s)' => Throttled(s)
          BY <5>1, BatchKeep
        <5>4. QED BY <5>2, <5>3 DEF LimitsAfter, Throttled
      <4>2. CASE ~LeftAlone(a)
        <5>1. PICK bad \in Failures : Batch(CallOn(scopes[a], EffectiveProfile(a)), bad)
          BY <2>6, <4>2 DEF ProcessDue
        <5>2. QED BY <4>2, <5>1, BatchElsewhere DEF LimitsAfter
      <4>3. QED BY <4>1, <4>2
    <3>2. DeadlinesAfter(a)
      BY <2>6 DEF ProcessDue, TypeOK, DeadlinesAfter
    <3>3. QED BY <2>6, <3>1, <3>2, VisitStep DEF ProcessDue, TypeOK
  <2>7. CASE Saved
    BY <2>7, PolicyStep DEF Saved, windowVars
  <2>8. CASE Killed
    <3>1. \A s \in Scopes : ~Throttled(s)'
      BY <2>8, ResetAllForgets DEF Killed, TypeOK
    <3>2. Live' = Live /\ scopes' = scopes /\ \A a \in Apps : pending'[a] = "no"
      BY <2>8 DEF Killed, Live, LiveIn, windowVars
    <3>3. phase' # "reconcile"
      BY <2>8 DEF Killed
    <3>4. QED
      BY <3>1, <3>2, <3>3 DEF GovernorInv, RestrictedInv, DeadlineInv, OnlyLive, WalkLive
  <2>9. QED BY <1>4, <2>1, <2>2, <2>3, <2>4, <2>5, <2>6, <2>7, <2>8 DEF Handler
<1>5. CASE Timeout \/ (\E a \in Apps : GraceElapses(a))
  <2>1. /\ Live' = Live
        /\ UNCHANGED <<unit, scopes, daemon>>
        /\ daemon = "up"
        /\ \A a \in Apps : LeftAlone(a)' = LeftAlone(a)
    BY <1>5 DEF Timeout, GraceElapses, Idle, Live, LiveIn, LeftAlone, EffectiveProfile,
                windowVars, configVars, controlVars
  <2>2. \A a \in Apps : pending'[a] # "no" => pending[a] # "no"
    BY <1>5 DEF Timeout, GraceElapses, TypeOK
  <2>3. \A a \in Apps : Justified(a) => Justified(a)'
    BY <1>5, <2>1 DEF Timeout, GraceElapses, Idle, Justified, controlVars
  <2>4. WalkLive'
    BY <1>5, <2>1 DEF Timeout, GraceElapses, WalkLive, GovernorInv, controlVars
  <2>5. QED
    BY <2>1, <2>2, <2>3, <2>4
    DEF GovernorInv, RestrictedInv, DeadlineInv, OnlyLive, Throttled
<1>6. CASE KilledAtStart \/ \E f \in Edits : EditFile(f)
  BY <1>6
  DEF EditFile, KilledAtStart, GovernorInv, RestrictedInv, DeadlineInv, OnlyLive, WalkLive, Throttled,
      Justified, Live, LiveIn, LeftAlone, EffectiveProfile, windowVars, controlVars
<1>7. CASE Shutdown \/ Crash
  <2>1. LoseMemory /\ daemon' # "up"
    BY <1>7 DEF Shutdown, Crash
  <2>2. QED
    BY <2>1 DEF LoseMemory, GovernorInv, RestrictedInv, DeadlineInv, OnlyLive, WalkLive
<1>8. ASSUME NEW snap \in Snapshots, Start(snap)
      PROVE  GovernorInv'
  <2>1. PICK wa : /\ winApp' = wa
                  /\ \E found \in Findings :
                        scopes' = [a \in Apps |-> IF a \in LiveIn(wa) THEN found[a] ELSE {}]
                  /\ BeginReconcile(LiveIn(wa))
    BY <1>8 DEF Start
  <2>2. PICK bad \in Failures : Sweep(UNION {scopes'[a] : a \in Apps}, bad)
    BY <1>8 DEF Start
  <2>3. daemon # "up" /\ daemon' = "up" /\ pending' = pending
    BY <1>8 DEF Start
  <2>4. \A s \in Scopes : ~Throttled(s)'
    BY <2>2, SweepForgets DEF TypeOK
  <2>5. Live' = LiveIn(wa)
    BY <2>1 DEF Live, LiveIn
  <2>6. OnlyLive'
    BY <2>1, <2>3, <2>5 DEF OnlyLive, GovernorInv, DeadlineInv
  <2>7. QED BY <2>1, <2>3, <2>4, <2>5, <2>6, ReconcileCovers
<1>9. CASE UNCHANGED vars
  BY <1>9
  DEF vars, GovernorInv, RestrictedInv, DeadlineInv, OnlyLive, WalkLive, Throttled,
      Justified, Live, LiveIn, LeftAlone, EffectiveProfile, windowVars, configVars, controlVars
<1>10. QED BY <1>1, <1>2, <1>3, <1>4, <1>5, <1>6, <1>7, <1>8, <1>9 DEF Next

(* In every reachable state what there is has a reason.                    *)
LEMMA GovernorInvariant == Spec => []GovernorInv
<1>1. Init => GovernorInv
  BY DEF Init, ThrottlerInit, GovernorInv, RestrictedInv, DeadlineInv, OnlyLive, WalkLive
<1>2. TypeOK /\ TypeOK' /\ GovernorInv /\ [Next]_vars => GovernorInv'
  BY InvStep
<1>3. QED BY <1>1, <1>2, GovernorTypeCorrect, PTL DEF Spec

(* Between two messages every scope with a limit in the kernel belongs to  *)
(* an app with a window that ought to be restricted, or a call on it has   *)
(* failed: reconcile visits whatever a message may have changed and resets *)
(* what it leaves, and the daemon records every limit it has not lost.     *)
THEOREM GovernorReasons == Spec => []RestrictedForAReason
<1> DEFINE OnlyFailuresLose == \A s \in Scopes : unit[s].lost => LostByFailure(s)
<1>1. TypeOK /\ GovernorInv /\ UndoKnown /\ OnlyFailuresLose => RestrictedForAReason
  <2> SUFFICES ASSUME TypeOK, GovernorInv, UndoKnown, Idle, NEW s \in Scopes,
                      ~Free(unit[s]), ~unit[s].lost
               PROVE  \E a \in Live : s \in scopes[a] /\ ~LeftAlone(a)
    BY DEF RestrictedForAReason
  <2>1. InForce(unit[s], unit[s].applied)
    BY DEF UndoKnown, Known, Idle
  <2>2. Throttled(s)
    BY <2>1, ProfileAssumption
    DEF InForce, Free, Throttled, TypeOK, ThrottlerTypeOK, UnitStates, Reserved
  <2>3. PICK a \in Apps : s \in scopes[a] /\ Justified(a)
    BY <2>2 DEF GovernorInv, RestrictedInv, Idle
  <2>4. a \in Live
    BY <2>3 DEF GovernorInv, OnlyLive
  <2>5. ~LeftAlone(a)
    BY <2>3 DEF Idle, Justified
  <2>6. QED BY <2>3, <2>4, <2>5
<1>2. Spec => []OnlyFailuresLose
  BY GovernorImplementsThrottler, ThrottlerLoses, PTL
<1>3. QED
  BY <1>1, <1>2, GovernorInvariant, GovernorUndo, GovernorTypeCorrect, PTL

(* So does every deadline: none survives a refocus, an exclusion, the kill *)
(* switch or the app.                                                      *)
THEOREM GovernorDeadlines == Spec => []DeadlineForAReason
<1>1. GovernorInv => DeadlineForAReason
  BY DEF GovernorInv, DeadlineInv, OnlyLive, Justified, Idle, DeadlineForAReason
<1>2. QED BY <1>1, GovernorInvariant, PTL

-----------------------------------------------------------------------------
(* Where no save fails and nobody else writes the file, a start after a    *)
(* kill outside a save finds the configuration that was in force: what a   *)
(* save has written is what it adopted, and what a save cut short has left *)
(* loads as the defaults, which the next daemon then has in force.         *)
THEOREM GovernorDurable == Spec => []ConfigDurable
<1>1. Init => ConfigDurable
  BY DEF Init, ThrottlerInit, ConfigDurable
<1>2. TypeOK /\ ConfigDurable /\ [Next]_vars => ConfigDurable'
  <2> SUFFICES ASSUME TypeOK, ConfigDurable, [Next]_vars,
                      daemon' = "up", ~Saving', Edits = {}, ~SaveMayFail
               PROVE  LoadOrDefault(file') = config'
    BY DEF ConfigDurable
  <2>1. CASE Saved \/ Killed
    <3>1. file' = config /\ config' = config
      BY <2>1 DEF Saved, Killed, Written
    <3>2. QED BY <3>1, ConfigAssumption DEF TypeOK, LoadOrDefault
  <2>2. CASE Reload
    BY <2>2 DEF Reload
  <2>3. CASE LoadAtStart
    <3>1. CASE file = Missing
      BY <2>3, <3>1, DefaultConfigType, ConfigAssumption DEF LoadAtStart, LoadOrDefault
    <3>2. CASE file # Missing
      BY <2>3, <3>2 DEF LoadAtStart
    <3>3. QED BY <3>1, <3>2
  <2>4. CASE \E c, next : Adopt(c, next) /\ next \in {"save", "engage"}
    BY <2>4 DEF Adopt, Saving
  <2>5. CASE UNCHANGED <<daemon, config, file>> /\ ~Saving
    BY <2>5 DEF ConfigDurable
  <2>6. CASE UNCHANGED <<daemon, config, file, phase>>
    BY <2>6 DEF ConfigDurable, Saving
  <2>7. \/ Saved \/ Killed \/ Reload \/ LoadAtStart
        \/ \E c, next : Adopt(c, next) /\ next \in {"save", "engage"}
        \/ UNCHANGED <<daemon, config, file>> /\ ~Saving
        \/ UNCHANGED <<daemon, config, file, phase>>
    <3>1. CASE NiriEvent \/ OwnerChanged \/ Cleared
      BY <3>1 DEF NiriEvent, Upsert, Closed, Focus, SnapshotBegin, StreamLost, OwnerChanged,
                  Cleared, ClipboardEvent, Idle, Saving, configVars
    <3>2. CASE Request
      <4>1. CASE ~Reload
        BY <3>2, <4>1, RequestAdopts
      <4>2. QED BY <4>1
    <3>3. CASE Handler
      BY <3>3 DEF Handler, SnapshotUpsert, SnapshotEnd, ReconcileRelease, ReconcileReapply,
                  ReconcileArm, ProcessDue, Visit, Saving, configVars
    <3>4. CASE \/ Timeout \/ (\E a \in Apps : GraceElapses(a)) \/ UNCHANGED vars
      BY <3>4 DEF Timeout, GraceElapses, vars, configVars, controlVars, Idle, Saving
    <3>5. CASE Shutdown \/ Crash \/ KilledAtStart \/ \E snap \in Snapshots : Start(snap)
      BY <3>5 DEF Shutdown, Crash, KilledAtStart, Start
    <3>6. QED BY <3>1, <3>2, <3>3, <3>4, <3>5 DEF Next
  <2>8. QED BY <2>1, <2>2, <2>3, <2>4, <2>5, <2>6, <2>7
<1>3. QED BY <1>1, <1>2, GovernorTypeCorrect, PTL DEF Spec

-----------------------------------------------------------------------------
(* Where no call fails: an app that the walk under way has not still to    *)
(* visit has one profile on all its private scopes, and is restricted or   *)
(* has a deadline.                                                         *)
ToVisit(a) == \/ phase \in {"snapshot", "save", "engage"}
              \/ phase = "reconcile" /\ a \in todo
InEffect(a) == \A s \in scopes[a] : unit[s].applied = EffectiveProfile(a)
Untouched(a) == \A s \in scopes[a] : ~Throttled(s)
Settled(a) ==
    Private(a) /\ ~LeftAlone(a) =>
        /\ Untouched(a) \/ InEffect(a)
        /\ stream = "up" /\ EffectiveProfile(a) # "None" /\ pending[a] = "no" => InEffect(a)
SettledInv == (daemon = "up" /\ Failures = {{}}) => \A a \in Apps : ToVisit(a) \/ Settled(a)

(* A configuration is adopted; only one with the kill switch on engages it. *)
AdoptSome == Idle /\ \E c \in Configs, next \in {"save", "engage"} :
                Adopt(c, next) /\ (next = "engage" => c.disabled)

(* What a step of a running daemon may be: most messages reconcile all     *)
(* apps, a snapshot or a save does so at its end.                          *)
LEMMA StepsFromUp ==
    ASSUME TypeOK, [Next]_vars, daemon' = "up", daemon = "up"
    PROVE  \/ /\ BeginReconcile(Live')
              /\ phase \in {"idle", "snapshot", "save"}
              /\ \/ UNCHANGED <<unit, scopes, pending>>
                 \/ \E wa, refreshed, found, bad : Retrack(wa, refreshed, found, bad)
           \/ /\ phase' = "snapshot" /\ phase \in {"idle", "snapshot"}
              /\ appFocused' \subseteq appFocused
              /\ \E wa, refreshed, found, bad : Retrack(wa, refreshed, found, bad)
           \/ AdoptSome \/ Killed
           \/ \E a \in todo : \/ ReconcileRelease(a) \/ ReconcileReapply(a)
                              \/ ReconcileArm(a) \/ ProcessDue(a)
           \/ StreamLost \/ Timeout
           \/ \E a \in Apps : GraceElapses(a)
           \/ \E f \in Edits : EditFile(f)
           \/ UNCHANGED vars
<1>1. CASE NiriEvent
  <2>1. ASSUME NEW w \in Windows, NEW a \in Apps, NEW f \in BOOLEAN, Upsert(w, a, f)
        PROVE  /\ BeginReconcile(Live') /\ phase = "idle"
               /\ \E wa, refreshed, found, bad : Retrack(wa, refreshed, found, bad)
    <3>1. PICK found \in Findings, bad \in Failures :
             Retrack([winApp EXCEPT ![w] = a], {a}, found, bad)
      BY <2>1 DEF Upsert
    <3>2. Live' = LiveIn([winApp EXCEPT ![w] = a])
      BY <3>1 DEF Retrack, Live, LiveIn
    <3>3. QED BY <2>1, <3>1, <3>2 DEF Upsert, Idle
  <2>2. ASSUME NEW w \in Windows, Closed(w)
        PROVE  /\ BeginReconcile(Live') /\ phase = "idle"
               /\ \E wa, refreshed, found, bad : Retrack(wa, refreshed, found, bad)
    <3>1. PICK bad \in Failures : Retrack([winApp EXCEPT ![w] = NoApp], {}, scopes, bad)
      BY <2>2 DEF Closed
    <3>2. Live' = LiveIn([winApp EXCEPT ![w] = NoApp])
      BY <3>1 DEF Retrack, Live, LiveIn
    <3>3. QED BY <2>2, <3>1, <3>2 DEF Closed, Idle
  <2>3. ASSUME NEW w \in Windows \cup {NoWindow}, Focus(w)
        PROVE  BeginReconcile(Live') /\ phase = "idle" /\ UNCHANGED <<unit, scopes, pending>>
    BY <2>3 DEF Focus, Live, LiveIn, Idle
  <2>4. ASSUME NEW snap \in Snapshots, SnapshotBegin(snap)
        PROVE  /\ phase' = "snapshot" /\ phase = "idle" /\ appFocused' \subseteq appFocused
               /\ \E wa, refreshed, found, bad : Retrack(wa, refreshed, found, bad)
    BY <2>4 DEF SnapshotBegin, Idle
  <2>5. QED BY <1>1, <2>1, <2>2, <2>3, <2>4 DEF NiriEvent
<1>2. CASE OwnerChanged \/ Cleared
  BY <1>2 DEF OwnerChanged, Cleared, ClipboardEvent, Live, LiveIn, windowVars, Idle
<1>3. CASE Request
  <2>1. CASE Reload
    BY <2>1 DEF Reload, Live, LiveIn, windowVars, Idle
  <2>2. CASE ~Reload
    BY <1>3, <2>2, RequestAdopts DEF AdoptSome
  <2>3. QED BY <2>1, <2>2
<1>4. CASE Handler
  <2>1. ASSUME NEW r \in incoming, SnapshotUpsert(r)
        PROVE  /\ phase' = "snapshot" /\ phase = "snapshot" /\ appFocused' \subseteq appFocused
               /\ \E wa, refreshed, found, bad : Retrack(wa, refreshed, found, bad)
    BY <2>1 DEF SnapshotUpsert
  <2>2. ASSUME SnapshotEnd
        PROVE  /\ BeginReconcile(Live') /\ phase = "snapshot"
               /\ \E wa, refreshed, found, bad : Retrack(wa, refreshed, found, bad)
    <3>1. PICK found \in Findings, bad \in Failures : Retrack(winApp, Live, found, bad)
      BY <2>2 DEF SnapshotEnd
    <3>2. Live' = Live
      BY <3>1 DEF Retrack, Live, LiveIn
    <3>3. QED BY <2>2, <3>1, <3>2 DEF SnapshotEnd
  <2>3. ASSUME Saved
        PROVE  /\ BeginReconcile(Live') /\ phase = "save"
               /\ UNCHANGED <<unit, scopes, pending>>
    BY <2>3 DEF Saved, Live, LiveIn, windowVars
  <2>4. QED BY <1>4, <2>1, <2>2, <2>3 DEF Handler
<1>5. CASE Shutdown \/ Crash \/ KilledAtStart \/ \E snap \in Snapshots : Start(snap)
  BY <1>5 DEF Shutdown, Crash, KilledAtStart, Start
<1>6. QED BY <1>1, <1>2, <1>3, <1>4, <1>5 DEF Next

(* The same of the steps that leave a daemon running, a start included.    *)
LEMMA StepsToUp ==
    ASSUME TypeOK, [Next]_vars, daemon' = "up"
    PROVE  \/ phase' = "snapshot"
           \/ BeginReconcile(Live')
           \/ AdoptSome \/ Killed
           \/ \E a \in todo : \/ ReconcileRelease(a) \/ ReconcileReapply(a)
                              \/ ReconcileArm(a) \/ ProcessDue(a)
           \/ StreamLost \/ Timeout
           \/ \E a \in Apps : GraceElapses(a)
           \/ \E f \in Edits : EditFile(f)
           \/ UNCHANGED vars
<1>1. CASE daemon = "up"
  BY <1>1, StepsFromUp
<1>2. CASE daemon # "up"
  <2>1. ASSUME NEW snap \in Snapshots, Start(snap)
        PROVE  BeginReconcile(Live')
    BY <2>1 DEF Start, Live, LiveIn
  <2>2. \/ \E snap \in Snapshots : Start(snap)
        \/ \E f \in Edits : EditFile(f)
        \/ UNCHANGED vars
    BY <1>2
    DEF Next, NiriEvent, Upsert, Closed, Focus, SnapshotBegin, StreamLost, OwnerChanged,
        Cleared, ClipboardEvent, Request, SetMode, SetConfig, EngageKillSwitch,
        ReleaseKillSwitch, Reload, ReloadMissing, Handler, SnapshotUpsert, SnapshotEnd,
        Saved, Killed, ReconcileRelease, ReconcileReapply, ReconcileArm, Visit, ProcessDue,
        GraceElapses, Timeout, Shutdown, Crash, KilledAtStart, Idle
  <2>3. QED BY <2>1, <2>2
<1>3. QED BY <1>1, <1>2

(* A reconcile of all apps with windows has still to visit what matters.   *)
LEMMA ReconcileUnsettles ==
    ASSUME BeginReconcile(Live'), OnlyLive', NEW a \in Apps
    PROVE  ToVisit(a)' \/ scopes'[a] = {}
BY DEF BeginReconcile, OnlyLive, ToVisit

(* apply that does not fail records its profile.                           *)
LEMMA ApplyRecords ==
    ASSUME NEW u \in UnitStates, NEW p \in Profiles
    PROVE  Apply(u, p, {}).applied = IF p = "None" THEN "absent" ELSE p
<1>1. CASE u.applied = p
  <2>1. p # "None"
    BY <1>1, ProfileAssumption DEF UnitStates, Reserved
  <2>2. QED BY <1>1, <2>1 DEF Apply
<1>2. CASE u.applied # p
  <2> DEFINE down == Systemctl(Teardown(u.applied, p), p, u)
  <2> DEFINE done == Systemctl(Setup(p), p, down)
  <2>1. Apply(u, p, {}) = [done EXCEPT !.applied = IF p = "None" THEN "absent" ELSE p]
    BY <1>2 DEF Apply
  <2>2. down \in UnitStates
    BY SystemctlType DEF Teardown
  <2> HIDE DEF down
  <2>3. done \in UnitStates
    BY <2>2, SystemctlType DEF Setup
  <2> HIDE DEF done
  <2>4. QED BY <2>1, <2>3 DEF UnitStates
<1>3. QED BY <1>1, <1>2

(* A visit that applies the effective profile settles the app.             *)
LEMMA ApplySettles ==
    ASSUME TypeOK, Failures = {{}}, NEW a \in Apps, ~LeftAlone(a), NEW bad \in Failures,
           Batch(CallOn(scopes[a], EffectiveProfile(a)), bad)
    PROVE  \A s \in scopes[a] :
              unit'[s].applied = IF EffectiveProfile(a) = "None" THEN "absent"
                                 ELSE EffectiveProfile(a)
<1> SUFFICES ASSUME NEW s \in scopes[a]
             PROVE  unit'[s].applied = IF EffectiveProfile(a) = "None" THEN "absent"
                                       ELSE EffectiveProfile(a)
  OBVIOUS
<1>1. EffectiveProfile(a) \in Profiles
  BY EffectiveType DEF TypeOK
<1>2. EffectiveProfile(a) # "keep" /\ EffectiveProfile(a) # "reset"
  BY <1>1, ProfileAssumption DEF Profiles, Reserved
<1>3. s \in Scopes /\ unit[s] \in UnitStates /\ Failing(bad, s) = {}
  BY DEF TypeOK, ThrottlerTypeOK, Failing
<1>4. unit'[s] = Apply(unit[s], EffectiveProfile(a), {})
  BY <1>2, <1>3 DEF Batch, CallOn, Perform
<1>5. QED BY <1>1, <1>3, <1>4, ApplyRecords

(* Nothing that Settled speaks of changes: it stays.                       *)
LEMMA SettledElsewhere ==
    ASSUME NEW a \in Apps, Settled(a), UNCHANGED <<windowVars, owner, config, stream>>,
           \A s \in scopes[a] : Private(a) => unit'[s].applied = unit[s].applied,
           pending'[a] = "no" => pending[a] = "no"
    PROVE  Settled(a)'
<1>1. /\ LeftAlone(a)' = LeftAlone(a)
      /\ Private(a)' = Private(a)
      /\ EffectiveProfile(a)' = EffectiveProfile(a)
      /\ scopes'[a] = scopes[a]
  BY DEF LeftAlone, Private, EffectiveProfile, windowVars
<1>2. Private(a) /\ Untouched(a) => Untouched(a)'
  BY <1>1 DEF Untouched, Throttled
<1>3. Private(a) /\ InEffect(a) => InEffect(a)'
  BY <1>1 DEF InEffect
<1>4. stream' = stream
  OBVIOUS
<1>5. QED BY <1>1, <1>2, <1>3, <1>4 DEF Settled

(* A visit of one app leaves the private scopes of the others alone.       *)
LEMMA VisitElsewhere ==
    ASSUME TypeOK, NEW a \in Apps, NEW b \in Apps \ {a}, NEW call, NEW bad,
           Batch(CallOn(scopes[b], call), bad), Private(a)
    PROVE  \A s \in scopes[a] : unit'[s] = unit[s]
<1> SUFFICES ASSUME NEW s \in scopes[a]
             PROVE  unit'[s] = unit[s]
  OBVIOUS
<1>1. s \in Scopes /\ s \notin scopes[b]
  BY DEF Private, TypeOK
<1>2. QED BY <1>1 DEF Batch, CallOn, Perform

(* While the kill switch is being engaged, it is on.                       *)
EngagedIsOn == daemon = "up" /\ phase = "engage" => config.disabled

LEMMA EngagedStep ==
    ASSUME TypeOK, EngagedIsOn, [Next]_vars
    PROVE  EngagedIsOn'
<1> SUFFICES ASSUME daemon' = "up", phase' = "engage"
             PROVE  config'.disabled
  BY DEF EngagedIsOn
<1>1. CASE BeginReconcile(Live') \/ phase' = "snapshot" \/ Killed
  BY <1>1 DEF BeginReconcile, Killed
<1>2. CASE AdoptSome
  BY <1>2 DEF AdoptSome, Adopt
<1>3. CASE \E a \in todo : \/ ReconcileRelease(a) \/ ReconcileReapply(a)
                           \/ ReconcileArm(a) \/ ProcessDue(a)
  BY <1>3 DEF ReconcileRelease, ReconcileReapply, ReconcileArm, ProcessDue, Visit, Visited
<1>4. CASE \/ StreamLost \/ Timeout
           \/ (\E a \in Apps : GraceElapses(a))
           \/ (\E f \in Edits : EditFile(f))
           \/ UNCHANGED vars
  BY <1>4 DEF StreamLost, Timeout, GraceElapses, EditFile, vars, configVars, controlVars,
              Idle, Saving, EngagedIsOn
<1>5. QED BY <1>1, <1>2, <1>3, <1>4, StepsToUp

(* No step unsettles an app but by having it to visit.                     *)
LEMMA SettledStep ==
    ASSUME TypeOK, GovernorInv', EngagedIsOn, SettledInv, [Next]_vars
    PROVE  SettledInv'
<1> SUFFICES ASSUME daemon' = "up", Failures = {{}}, NEW a \in Apps, ~ToVisit(a)'
             PROVE  Settled(a)'
  BY DEF SettledInv
<1>1. CASE phase' = "snapshot"
  BY <1>1 DEF ToVisit
<1>2. CASE BeginReconcile(Live')
  <2>1. scopes'[a] = {}
    BY <1>2, ReconcileUnsettles DEF GovernorInv
  <2>2. QED BY <2>1 DEF Settled, Untouched, InEffect
<1>3. CASE AdoptSome \/ Killed
  <2>1. CASE AdoptSome
    BY <2>1 DEF AdoptSome, Adopt, ToVisit
  <2>2. CASE Killed
    <3>1. config'.disabled
      BY <2>2 DEF Killed, EngagedIsOn
    <3>2. LeftAlone(a)'
      BY <3>1 DEF LeftAlone, EffectiveProfile, ResolveProfile
    <3>3. QED BY <3>2 DEF Settled
  <2>3. QED BY <1>3, <2>1, <2>2
<1>4. ASSUME NEW b \in todo, \/ ReconcileRelease(b) \/ ReconcileReapply(b)
                            \/ ReconcileArm(b) \/ ProcessDue(b)
      PROVE  Settled(a)'
  <2>1. /\ daemon = "up" /\ b \in Apps
        /\ UNCHANGED <<windowVars, owner, config, stream>>
        /\ a # b => pending'[a] = pending[a]
    BY <1>4 DEF ReconcileRelease, ReconcileReapply, ReconcileArm, ProcessDue, Visit,
                configVars, TypeOK
  <2>2. /\ LeftAlone(a)' = LeftAlone(a)
        /\ EffectiveProfile(a)' = EffectiveProfile(a)
        /\ scopes'[a] = scopes[a]
    BY <2>1 DEF LeftAlone, EffectiveProfile, windowVars
  <2>3. CASE a # b
    <3>1. ~ToVisit(a)
      BY <1>4, <2>3 DEF ToVisit, ReconcileRelease, ReconcileReapply, ReconcileArm,
                        ProcessDue, Visit, Visited
    <3>2. Settled(a)
      BY <2>1, <3>1 DEF SettledInv
    <3>3. Private(a) => \A s \in scopes[a] : unit'[s] = unit[s]
      <4>1. CASE ReconcileArm(b)
        BY <4>1 DEF ReconcileArm
      <4>2. CASE ReconcileRelease(b) \/ ReconcileReapply(b) \/ ProcessDue(b)
        <5>1. PICK call, bad : Batch(CallOn(scopes[b], call), bad)
          BY <4>2 DEF ReconcileRelease, ReconcileReapply, ProcessDue
        <5>2. QED BY <2>1, <2>3, <5>1, VisitElsewhere
      <4>3. QED BY <1>4, <4>1, <4>2
    <3>4. QED BY <2>1, <2>3, <3>2, <3>3, SettledElsewhere
  <2>4. CASE a = b /\ LeftAlone(a)
    BY <2>2, <2>4 DEF Settled
  <2>5. CASE a = b /\ ~LeftAlone(a) /\ ReconcileArm(b)
    <3>1. pending'[a] # "no"
      BY <2>5 DEF ReconcileArm, TypeOK
    <3>2. Untouched(a)'
      BY <2>2, <2>5 DEF ReconcileArm, Untouched, Throttled
    <3>3. QED BY <3>1, <3>2 DEF Settled
  <2>6. CASE a = b /\ ~LeftAlone(a) /\ ~ReconcileArm(b)
    <3>1. PICK bad \in Failures : Batch(CallOn(scopes[a], EffectiveProfile(a)), bad)
      BY <1>4, <2>6 DEF ReconcileRelease, ReconcileReapply, ProcessDue
    <3>2. \A s \in scopes[a] :
             unit'[s].applied = IF EffectiveProfile(a) = "None" THEN "absent"
                                ELSE EffectiveProfile(a)
      BY <2>6, <3>1, ApplySettles
    <3>3. CASE EffectiveProfile(a) = "None"
      <4>1. Untouched(a)'
        BY <2>2, <3>2, <3>3 DEF Untouched, Throttled
      <4>2. QED BY <2>2, <3>3, <4>1 DEF Settled
    <3>4. CASE EffectiveProfile(a) # "None"
      <4>1. InEffect(a)'
        BY <2>2, <3>2, <3>4 DEF InEffect
      <4>2. QED BY <4>1 DEF Settled
    <3>5. QED BY <3>3, <3>4
  <2>7. QED BY <2>3, <2>4, <2>5, <2>6
<1>5. CASE \/ StreamLost \/ Timeout
           \/ (\E b \in Apps : GraceElapses(b))
           \/ (\E f \in Edits : EditFile(f))
           \/ UNCHANGED vars
  <2>1. UNCHANGED <<unit, daemon, windowVars, owner, config>>
    BY <1>5 DEF StreamLost, Timeout, GraceElapses, EditFile, vars, configVars
  <2>2. ~ToVisit(a)
    BY <1>5 DEF StreamLost, Timeout, GraceElapses, EditFile, vars, controlVars, ToVisit, Idle
  <2>3. Settled(a)
    BY <2>1, <2>2 DEF SettledInv
  <2>4. CASE StreamLost
    <3>1. stream' # "up"
      BY <2>4 DEF StreamLost
    <3>2. /\ LeftAlone(a)' = LeftAlone(a)
          /\ Private(a)' = Private(a)
          /\ Untouched(a)' = Untouched(a)
          /\ InEffect(a)' = InEffect(a)
      BY <2>1 DEF LeftAlone, EffectiveProfile, Private, Untouched, InEffect, Throttled,
                  windowVars
    <3>3. QED BY <2>3, <3>1, <3>2 DEF Settled
  <2>5. CASE ~StreamLost
    <3>1. stream' = stream /\ (pending'[a] = "no" => pending[a] = "no")
      BY <1>5, <2>5 DEF Timeout, GraceElapses, EditFile, vars, TypeOK
    <3>2. QED BY <2>1, <2>3, <3>1, SettledElsewhere
  <2>6. QED BY <2>4, <2>5
<1>6. QED BY <1>1, <1>2, <1>3, <1>4, <1>5, StepsToUp

LEMMA GovernorSettles == Spec => []SettledInv
<1>1. Init => SettledInv
  BY DEF Init, ThrottlerInit, SettledInv
<1>2. Init => EngagedIsOn
  BY DEF Init, EngagedIsOn
<1>3. TypeOK /\ EngagedIsOn /\ [Next]_vars => EngagedIsOn'
  BY EngagedStep
<1>4. TypeOK /\ GovernorInv' /\ EngagedIsOn /\ SettledInv /\ [Next]_vars => SettledInv'
  BY SettledStep
<1>5. QED BY <1>1, <1>2, <1>3, <1>4, GovernorTypeCorrect, GovernorInvariant, PTL DEF Spec

(* Where no call fails, the private scopes of an app are between two       *)
(* messages all under its current profile or all free: each visit applies  *)
(* one profile to all of them, and every change of profile or of scopes    *)
(* starts a walk of all apps.                                              *)
THEOREM GovernorWhole == Spec => []OneProfilePerApp
<1>1. TypeOK /\ SettledInv => OneProfilePerApp
  <2> SUFFICES ASSUME TypeOK, SettledInv, Idle, Failures = {{}},
                      NEW a \in Live, Private(a), ~LeftAlone(a)
               PROVE  Untouched(a) \/ InEffect(a)
    BY DEF OneProfilePerApp, Untouched, InEffect
  <2>1. a \in Apps
    BY LiveType DEF Live, TypeOK
  <2>2. Settled(a)
    BY <2>1 DEF SettledInv, ToVisit, Idle
  <2>3. QED BY <2>2 DEF Settled
<1>2. QED BY <1>1, GovernorTypeCorrect, GovernorSettles, PTL

(* Where no call fails and the stream is up, no app that ought to be       *)
(* restricted is forgotten: between two messages it is restricted on all   *)
(* its private scopes, or has a deadline.                                  *)
THEOREM GovernorForgetsNone == Spec => []NoAppForgotten
<1>1. TypeOK /\ SettledInv => NoAppForgotten
  <2> SUFFICES ASSUME TypeOK, SettledInv, Idle, Failures = {{}}, stream = "up",
                      NEW a \in Live, Private(a), ~LeftAlone(a),
                      EffectiveProfile(a) # "None", pending[a] = "no"
               PROVE  InEffect(a)
    BY DEF NoAppForgotten, InEffect
  <2>1. a \in Apps
    BY LiveType DEF Live, TypeOK
  <2>2. Settled(a)
    BY <2>1 DEF SettledInv, ToVisit, Idle
  <2>3. QED BY <2>2 DEF Settled
<1>2. QED BY <1>1, GovernorTypeCorrect, GovernorSettles, PTL

-----------------------------------------------------------------------------
(* An app has no scopes but what its resolution found.                     *)
OwnReach == \A a \in Apps : scopes[a] \in Reach[a] \cup {{}}

LEMMA RetrackReach ==
    ASSUME OwnReach, NEW wa, NEW refreshed, NEW bad,
           NEW found, \A a \in Apps : found[a] \in Reach[a] \cup {{}},
           Retrack(wa, refreshed, found, bad)
    PROVE  OwnReach'
BY DEF OwnReach, Retrack

LEMMA ReachStep ==
    ASSUME OwnReach, [Next]_vars
    PROVE  OwnReach'
<1>1. CASE NiriEvent
  <2>1. ASSUME NEW w \in Windows, NEW a \in Apps, NEW f \in BOOLEAN, Upsert(w, a, f)
        PROVE  OwnReach'
    <3>1. PICK found \in Findings, bad \in Failures :
             Retrack([winApp EXCEPT ![w] = a], {a}, found, bad)
      BY <2>1 DEF Upsert
    <3>2. \A b \in Apps : found[b] \in Reach[b] \cup {{}}
      BY DEF Findings
    <3>3. QED BY <3>1, <3>2, RetrackReach
  <2>2. ASSUME \E wa : \E bad \in Failures : Retrack(wa, {}, scopes, bad)
        PROVE  OwnReach'
    BY <2>2, RetrackReach DEF OwnReach
  <2>3. CASE StreamLost \/ \E w \in Windows \cup {NoWindow} : Focus(w)
    BY <2>3 DEF StreamLost, Focus, OwnReach, windowVars
  <2>4. QED BY <1>1, <2>1, <2>2, <2>3 DEF NiriEvent, Closed, SnapshotBegin
<1>2. CASE \E r \in incoming : SnapshotUpsert(r)
  <2>1. PICK wa : \E bad \in Failures : Retrack(wa, {}, scopes, bad)
    BY <1>2 DEF SnapshotUpsert
  <2>2. QED BY <2>1, RetrackReach DEF OwnReach
<1>3. CASE SnapshotEnd
  <2>1. PICK found \in Findings, bad \in Failures : Retrack(winApp, Live, found, bad)
    BY <1>3 DEF SnapshotEnd
  <2>2. \A b \in Apps : found[b] \in Reach[b] \cup {{}}
    BY DEF Findings
  <2>3. QED BY <2>1, <2>2, RetrackReach
<1>4. CASE Shutdown \/ Crash
  BY <1>4 DEF Shutdown, Crash, LoseMemory, OwnReach
<1>5. CASE \E snap \in Snapshots : Start(snap)
  BY <1>5 DEF Start, Findings, OwnReach
<1>6. CASE UNCHANGED scopes
  BY <1>6 DEF OwnReach
<1>7. QED
  BY <1>1, <1>2, <1>3, <1>4, <1>5, <1>6
  DEF Next, vars, windowVars, OwnerChanged, Cleared, ClipboardEvent, Request, SetMode,
      SetConfig, EngageKillSwitch, ReleaseKillSwitch, Reload, ReloadMissing, Adopt, Handler,
      Saved, Killed, ReconcileRelease, ReconcileReapply, ReconcileArm, ProcessDue,
      GraceElapses, Timeout, EditFile, KilledAtStart

(* process_pending walks apps whose deadline is due.                       *)
DueWalk == daemon = "up" /\ phase = "process" => \A a \in todo : pending[a] = "due"

LEMMA DueStep ==
    ASSUME TypeOK, DueWalk, [Next]_vars
    PROVE  DueWalk'
<1> SUFFICES ASSUME daemon' = "up", phase' = "process"
             PROVE  \A a \in todo' : pending'[a] = "due"
  BY DEF DueWalk
<1>1. CASE BeginReconcile(Live') \/ phase' = "snapshot"
  BY <1>1 DEF BeginReconcile
<1>2. CASE AdoptSome \/ Killed \/ StreamLost
  BY <1>2 DEF AdoptSome, Adopt, Killed, StreamLost, Idle, controlVars
<1>3. ASSUME NEW b \in todo, \/ ReconcileRelease(b) \/ ReconcileReapply(b)
                            \/ ReconcileArm(b) \/ ProcessDue(b)
      PROVE  \A a \in todo' : pending'[a] = "due"
  <2>1. ProcessDue(b)
    BY <1>3 DEF ReconcileRelease, ReconcileReapply, ReconcileArm, Visit, Visited
  <2>2. QED BY <2>1 DEF ProcessDue, Visited, DueWalk, TypeOK
<1>4. CASE Timeout
  BY <1>4 DEF Timeout
<1>5. CASE \/ \E a \in Apps : GraceElapses(a)
           \/ \E f \in Edits : EditFile(f)
           \/ UNCHANGED vars
  BY <1>5 DEF GraceElapses, EditFile, vars, controlVars, DueWalk, TypeOK
<1>6. QED BY <1>1, <1>2, <1>3, <1>4, <1>5, StepsToUp

-----------------------------------------------------------------------------
(* The apps that are focused or lost focus within the grace period have    *)
(* nothing on their scopes and no deadline that is due, except for those   *)
(* just focused, which the walk under way has still to release.            *)
Fresh(a) == a \in appFocused /\ phase = "reconcile" /\ a \in todo
Quiet(a) == /\ Untouched(a)
            /\ pending[a] # "due"
            /\ a \in appFocused => pending[a] = "no"
QuietInv == daemon = "up" =>
    \A a \in Apps : a \in inGrace \cup appFocused /\ Apart(a) => Fresh(a) \/ Quiet(a)
GraceTypeOK == inGrace \subseteq Apps \ appFocused

(* The history variable takes nothing from the governor.                   *)
LEMMA GraceIsGovernor == GraceSpec => Spec
<1>1. GraceInit => Init
  BY DEF GraceInit
<1>2. [GraceNext]_graceVars => [Next]_vars
  BY DEF GraceNext, graceVars
<1>3. QED BY <1>1, <1>2, PTL DEF GraceSpec, Spec

LEMMA GraceType == GraceSpec => []GraceTypeOK
<1>1. GraceInit => GraceTypeOK
  BY DEF GraceInit, GraceTypeOK
<1>2. TypeOK' /\ GraceTypeOK /\ [GraceNext]_graceVars => GraceTypeOK'
  <2> SUFFICES ASSUME TypeOK', GraceTypeOK, [GraceNext]_graceVars
               PROVE  GraceTypeOK'
    OBVIOUS
  <2>1. CASE GraceNext
    <3>1. Live' \subseteq Apps
      BY DEF Live, LiveIn, TypeOK
    <3>2. QED BY <2>1, <3>1 DEF GraceNext, GraceTypeOK
  <2>2. CASE UNCHANGED graceVars
    BY <2>2 DEF graceVars, vars, windowVars, GraceTypeOK
  <2>3. QED BY <2>1, <2>2
<1>3. QED BY <1>1, <1>2, GraceIsGovernor, GovernorTypeCorrect, PTL DEF GraceSpec

(* No other app has a scope of an app that lives apart.                    *)
LEMMA ApartScopes ==
    ASSUME OwnReach, NEW a \in Apps, Apart(a), NEW S \in Reach[a] \cup {{}}, NEW s \in S,
           NEW b \in Apps, s \in scopes[b]
    PROVE  b = a
BY DEF OwnReach, Apart

(* Retracking leaves a quiet app quiet: a scope that is new to it was      *)
(* nobody's, hence free.                                                   *)
LEMMA RetrackQuiet ==
    ASSUME TypeOK, TypeOK', GovernorInv, OwnReach, OwnReach', daemon = "up",
           NEW a \in Apps, Apart(a), Quiet(a), a \in appFocused' => a \in appFocused,
           NEW wa, NEW refreshed, NEW found, NEW bad, Retrack(wa, refreshed, found, bad)
    PROVE  Quiet(a)'
<1>1. ASSUME NEW s \in scopes'[a], Throttled(s)'
      PROVE  FALSE
  <2>1. s \in Scopes
    BY DEF TypeOK
  <2>2. Throttled(s)
    BY <1>1, <2>1, BatchReset DEF Retrack, TypeOK
  <2>3. PICK b \in Apps : s \in scopes[b]
    BY <2>1, <2>2 DEF GovernorInv, RestrictedInv
  <2>4. scopes'[a] \in Reach[a] \cup {{}}
    BY DEF OwnReach
  <2>5. b = a
    BY <2>3, <2>4, ApartScopes
  <2>6. QED BY <2>2, <2>3, <2>5 DEF Quiet, Untouched
<1>2. pending'[a] \in {"no", pending[a]}
  BY DEF Retrack
<1>3. QED BY <1>1, <1>2 DEF Quiet, Untouched

(* A reconcile has still to release whatever is focused.                   *)
LEMMA ReconcileFresh ==
    ASSUME BeginReconcile(Live'), OnlyLive', NEW a \in Apps, a \in appFocused'
    PROVE  Fresh(a)' \/ Quiet(a)'
BY DEF BeginReconcile, OnlyLive, Fresh, Quiet, Untouched

(* A message that makes the daemon reconcile all apps.                     *)
LEMMA MessageQuiet ==
    ASSUME TypeOK, TypeOK', GovernorInv, OnlyLive', OwnReach, OwnReach', daemon = "up",
           BeginReconcile(Live'), NEW a \in Apps, Apart(a),
           a \in appFocused' \/ Quiet(a),
           \/ UNCHANGED <<unit, scopes, pending>>
           \/ \E wa, refreshed, found, bad : Retrack(wa, refreshed, found, bad)
    PROVE  Fresh(a)' \/ Quiet(a)'
<1>1. CASE a \in appFocused'
  BY <1>1, ReconcileFresh
<1>2. CASE a \notin appFocused' /\ UNCHANGED <<unit, scopes, pending>>
  BY <1>2 DEF Quiet, Untouched, Throttled
<1>3. CASE a \notin appFocused' /\ \E wa, refreshed, found, bad : Retrack(wa, refreshed, found, bad)
  BY <1>3, RetrackQuiet
<1>4. QED BY <1>1, <1>2, <1>3

(* A visit of app b leaves a quiet app a quiet, and makes a fresh one so.  *)
LEMMA VisitQuiet ==
    ASSUME TypeOK, OwnReach, DueWalk, QuietInv, GraceTypeOK, NEW a \in Apps, Apart(a),
           a \in inGrace \cup appFocused, NEW b \in todo,
           \/ ReconcileRelease(b) \/ ReconcileReapply(b) \/ ReconcileArm(b) \/ ProcessDue(b)
    PROVE  Fresh(a)' \/ Quiet(a)'
<1>1. /\ daemon = "up" /\ b \in Apps
      /\ UNCHANGED windowVars
      /\ a # b => pending'[a] = pending[a]
      /\ phase = "reconcile" \/ ProcessDue(b)
  BY DEF ReconcileRelease, ReconcileReapply, ReconcileArm, ProcessDue, Visit, TypeOK
<1>2. Fresh(a) \/ Quiet(a)
  BY <1>1 DEF QuietInv
<1>3. CASE a # b
  <2>1. Fresh(a) => Fresh(a)'
    BY <1>1, <1>3
    DEF Fresh, windowVars, ReconcileRelease, ReconcileReapply, ReconcileArm, ProcessDue,
        Visit, Visited
  <2>2. scopes[a] \in Reach[a] \cup {{}}
    BY DEF OwnReach
  <2>3. \A s \in scopes[a] : s \notin scopes[b]
    BY <1>1, <1>3, <2>2, ApartScopes
  <2>4. \A s \in scopes[a] : Throttled(s)' => Throttled(s)
    <3>1. CASE ReconcileArm(b)
      BY <3>1 DEF ReconcileArm, Throttled
    <3>2. CASE ReconcileRelease(b) \/ ReconcileReapply(b) \/ ProcessDue(b)
      <4>1. PICK call, bad : Batch(CallOn(scopes[b], call), bad)
        BY <3>2 DEF ReconcileRelease, ReconcileReapply, ProcessDue
      <4>2. \A s \in scopes[a] : s \in Scopes
        BY DEF TypeOK
      <4>3. QED BY <2>3, <4>1, <4>2, BatchElsewhere
    <3>3. QED BY <3>1, <3>2
  <2>5. Quiet(a) => Quiet(a)'
    BY <1>1, <1>3, <2>4 DEF Quiet, Untouched, windowVars
  <2>6. QED BY <1>2, <2>1, <2>5
<1>4. CASE a = b /\ ReconcileRelease(b)
  <2>1. PICK bad \in Failures : Batch(CallOn(scopes[a], "reset"), bad)
    BY <1>4 DEF ReconcileRelease
  <2>2. \A s \in scopes[a] : ~Throttled(s)'
    <3>1. \A s \in scopes[a] : s \in Scopes
      BY DEF TypeOK
    <3>2. QED BY <2>1, <3>1, BatchReset DEF TypeOK
  <2>3. pending'[a] = "no"
    BY <1>4 DEF ReconcileRelease, TypeOK
  <2>4. QED BY <1>1, <2>2, <2>3 DEF Quiet, Untouched, windowVars
<1>5. CASE a = b /\ a \in appFocused /\ ~ReconcileRelease(b)
  <2>1. LeftAlone(a)
    BY <1>5 DEF LeftAlone
  <2>2. ProcessDue(a)
    BY <1>5, <2>1 DEF ReconcileReapply, ReconcileArm
  <2>3. phase = "process" /\ pending[a] = "due"
    BY <1>1, <1>5, <2>2 DEF ProcessDue, DueWalk
  <2>4. QED BY <1>2, <2>3 DEF Fresh, Quiet
<1>6. CASE a = b /\ a \notin appFocused /\ ~ReconcileRelease(b)
  <2>1. Quiet(a)
    BY <1>2, <1>6 DEF Fresh
  <2>2. ~ReconcileReapply(a)
    BY <2>1 DEF ReconcileReapply, Quiet, Untouched
  <2>3. ~ProcessDue(a)
    BY <1>1, <1>6, <2>1 DEF ProcessDue, DueWalk, Quiet
  <2>4. ReconcileArm(a)
    BY <1>6, <2>2, <2>3
  <2>5. QED BY <1>6, <2>1, <2>4 DEF ReconcileArm, Quiet, Untouched, Throttled, windowVars, TypeOK
<1>7. QED BY <1>3, <1>4, <1>5, <1>6

(* No step disturbs an app in its grace, or one that is focused and has    *)
(* been released.                                                          *)
LEMMA QuietStep ==
    ASSUME TypeOK, TypeOK', GovernorInv, GovernorInv', OwnReach, OwnReach', DueWalk,
           GraceTypeOK, QuietInv, [GraceNext]_graceVars
    PROVE  QuietInv'
<1> SUFFICES ASSUME daemon' = "up", NEW a \in Apps, a \in inGrace' \cup appFocused', Apart(a)
             PROVE  Fresh(a)' \/ Quiet(a)'
  BY DEF QuietInv, Apart
<1>1. a \in inGrace' => /\ a \in inGrace \cup appFocused
                        /\ a \notin inGrace \/ ~(pending[a] = "waiting" /\ pending'[a] = "due")
  <2>1. CASE GraceNext
    BY <2>1 DEF GraceNext
  <2>2. CASE UNCHANGED graceVars
    <3>1. inGrace' = inGrace /\ pending' = pending
      BY <2>2 DEF graceVars, vars
    <3>2. QED BY <3>1
  <2>3. QED BY <2>1, <2>2
<1>2. [Next]_vars
  BY DEF GraceNext, graceVars
<1>3. CASE daemon # "up"
  <2>1. CASE \E snap \in Snapshots : Start(snap)
    <3>1. PICK bad \in Failures : Sweep(UNION {scopes'[x] : x \in Apps}, bad)
      <4>1. PICK snap \in Snapshots : Start(snap)
        BY <2>1
      <4>2. QED BY <4>1 DEF Start
    <3>2. \A s \in Scopes : ~Throttled(s)'
      BY <3>1, SweepForgets DEF TypeOK
    <3>3. pending'[a] = "no"
      BY <1>3, <2>1 DEF Start, GovernorInv, DeadlineInv
    <3>4. QED BY <3>2, <3>3 DEF Quiet, Untouched, TypeOK
  <2>2. CASE ~\E snap \in Snapshots : Start(snap)
    BY <1>2, <1>3, <2>2
    DEF Next, vars, NiriEvent, Upsert, Closed, Focus, SnapshotBegin, StreamLost, OwnerChanged,
        Cleared, ClipboardEvent, Request, SetMode, SetConfig, EngageKillSwitch,
        ReleaseKillSwitch, Reload, ReloadMissing, Handler, SnapshotUpsert, SnapshotEnd,
        Saved, Killed, ReconcileRelease, ReconcileReapply, ReconcileArm, Visit, ProcessDue,
        GraceElapses, Timeout, Shutdown, Crash, KilledAtStart, Idle, EditFile
  <2>3. QED BY <2>1, <2>2
<1>4. CASE daemon = "up"
  <2>1. /\ a \in inGrace \cup appFocused => Fresh(a) \/ Quiet(a)
        /\ phase # "reconcile" => ~Fresh(a)
    BY <1>4 DEF QuietInv, Fresh
  <2>2. CASE /\ BeginReconcile(Live')
             /\ phase \in {"idle", "snapshot", "save"}
             /\ \/ UNCHANGED <<unit, scopes, pending>>
                \/ \E wa, refreshed, found, bad : Retrack(wa, refreshed, found, bad)
    <3>1. OnlyLive'
      BY DEF GovernorInv
    <3>2. a \in appFocused' \/ Quiet(a)
      BY <1>1, <2>1, <2>2
    <3>3. QED BY <1>4, <2>2, <3>1, <3>2, MessageQuiet
  <2>3. CASE /\ phase' = "snapshot" /\ phase \in {"idle", "snapshot"}
             /\ appFocused' \subseteq appFocused
             /\ \E wa, refreshed, found, bad : Retrack(wa, refreshed, found, bad)
    <3>1. Quiet(a)
      BY <1>1, <2>1, <2>3
    <3>2. a \in appFocused' => a \in appFocused
      BY <2>3
    <3>3. QED BY <1>4, <2>3, <3>1, <3>2, RetrackQuiet
  <2>4. CASE Killed
    <3>1. \A s \in Scopes : ~Throttled(s)'
      BY <2>4, ResetAllForgets DEF Killed, TypeOK
    <3>2. pending'[a] = "no"
      BY <2>4 DEF Killed
    <3>3. QED BY <3>1, <3>2 DEF Quiet, Untouched, TypeOK
  <2>5. ASSUME NEW b \in todo, \/ ReconcileRelease(b) \/ ReconcileReapply(b)
                              \/ ReconcileArm(b) \/ ProcessDue(b)
        PROVE  Fresh(a)' \/ Quiet(a)'
    <3>1. appFocused' = appFocused
      BY <2>5 DEF ReconcileRelease, ReconcileReapply, ReconcileArm, ProcessDue, windowVars
    <3>2. a \in inGrace \cup appFocused
      BY <1>1, <3>1
    <3>3. QED BY <2>5, <3>2, VisitQuiet
  <2>6. CASE \/ StreamLost \/ Timeout
             \/ (\E b \in Apps : GraceElapses(b))
             \/ (\E f \in Edits : EditFile(f))
             \/ UNCHANGED vars
    <3>1. UNCHANGED <<unit, scopes, appFocused>>
      BY <2>6 DEF StreamLost, Timeout, GraceElapses, EditFile, vars, windowVars
    <3>2. a \in inGrace \cup appFocused
      BY <1>1, <3>1
    <3>3. Fresh(a) => Fresh(a)'
      BY <2>6, <3>1 DEF StreamLost, Timeout, GraceElapses, EditFile, vars, controlVars, Idle, Fresh
    <3>4. Untouched(a) => Untouched(a)'
      BY <3>1 DEF Untouched, Throttled
    <3>5. \/ pending'[a] \in {"no", pending[a]}
          \/ pending[a] = "waiting" /\ pending'[a] = "due"
      BY <2>6 DEF StreamLost, Timeout, GraceElapses, EditFile, vars, TypeOK
    <3>6. Quiet(a) => Quiet(a)'
      <4>1. CASE pending'[a] \in {"no", pending[a]}
        BY <3>1, <3>4, <4>1 DEF Quiet
      <4>2. CASE pending[a] = "waiting" /\ pending'[a] = "due"
        <5>1. a \in appFocused
          BY <1>1, <3>1, <4>2 DEF GraceNext, graceVars
        <5>2. QED BY <4>2, <5>1 DEF Quiet
      <4>3. QED BY <3>5, <4>1, <4>2
    <3>7. QED BY <2>1, <3>2, <3>3, <3>6
  <2>7. CASE AdoptSome
    <3>1. UNCHANGED <<unit, scopes, appFocused, pending>> /\ phase = "idle"
      BY <2>7 DEF AdoptSome, Adopt, Idle, windowVars
    <3>2. Quiet(a)
      BY <1>1, <2>1, <3>1
    <3>3. QED BY <3>1, <3>2 DEF Quiet, Untouched, Throttled
  <2>8. QED BY <1>2, <1>4, <2>2, <2>3, <2>4, <2>5, <2>6, <2>7, StepsFromUp
<1>5. QED BY <1>3, <1>4

(* The scopes of an app that shares none are free, but for what a failed   *)
(* call left behind, until the grace that began when it lost focus is      *)
(* over: whatever else happens, a visit finds  *)
(* nothing on them to reapply and no deadline that is due.                 *)
THEOREM GraceRespected == GraceSpec => []GraceAfterFocusLoss
<1>1. Spec => []OwnReach
  <2>1. Init => OwnReach
    BY DEF Init, OwnReach
  <2>2. OwnReach /\ [Next]_vars => OwnReach'
    BY ReachStep
  <2>3. QED BY <2>1, <2>2, PTL DEF Spec
<1>2. Spec => []DueWalk
  <2>1. Init => DueWalk
    BY DEF Init, DueWalk
  <2>2. TypeOK /\ DueWalk /\ [Next]_vars => DueWalk'
    BY DueStep
  <2>3. QED BY <2>1, <2>2, GovernorTypeCorrect, PTL DEF Spec
<1>3. GraceInit => QuietInv
  BY DEF GraceInit, Init, ThrottlerInit, QuietInv
<1>4. /\ TypeOK /\ TypeOK' /\ GovernorInv /\ GovernorInv' /\ OwnReach /\ OwnReach'
      /\ DueWalk /\ GraceTypeOK /\ QuietInv /\ [GraceNext]_graceVars
      => QuietInv'
  BY QuietStep
<1> DEFINE OnlyFailuresLose == \A s \in Scopes : unit[s].lost => LostByFailure(s)
<1>5. TypeOK /\ UndoKnown /\ OnlyFailuresLose /\ GraceTypeOK /\ QuietInv => GraceAfterFocusLoss
  <2> SUFFICES ASSUME TypeOK, UndoKnown, OnlyFailuresLose, GraceTypeOK, QuietInv, Idle,
                      NEW a \in inGrace, Apart(a), NEW s \in scopes[a], ~unit[s].lost
               PROVE  Free(unit[s])
    BY DEF GraceAfterFocusLoss, TypeOK, GraceTypeOK
  <2>1. a \in Apps /\ s \in Scopes /\ "absent" \notin Throttles
    BY ProfileAssumption DEF GraceTypeOK, TypeOK, Reserved
  <2>2. ~Throttled(s)
    BY <2>1 DEF QuietInv, Idle, Fresh, Quiet, Untouched
  <2>3. Known(unit[s])
    BY <2>1 DEF UndoKnown, Idle
  <2>4. unit[s].frozen \in BOOLEAN
    BY <2>1 DEF TypeOK, ThrottlerTypeOK, UnitStates
  <2>5. QED BY <2>1, <2>2, <2>3, <2>4 DEF Known, InForce, Free, Throttled
<1>6. Spec => []OnlyFailuresLose
  BY GovernorImplementsThrottler, ThrottlerLoses, PTL
<1>7. QED
  BY <1>1, <1>2, <1>3, <1>4, <1>5, <1>6, GraceIsGovernor, GraceType, GovernorTypeCorrect,
     GovernorInvariant, GovernorUndo, PTL DEF GraceSpec
=============================================================================
