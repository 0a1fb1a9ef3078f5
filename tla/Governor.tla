------------------------------- MODULE Governor -------------------------------
(***************************************************************************)
(* The main loop of daemon/mod.rs: one thread that takes a message at a    *)
(* time (niri events, clipboard events, IPC requests, tray actions), keeps *)
(* track of windows and apps, and decides which scopes get which profile.  *)
(*                                                                         *)
(* A handler is one action when it is short, and otherwise a first action  *)
(* that sets `phase` and `todo` followed by one step per app: reconcile    *)
(* and process_pending walk a HashMap, whose order is arbitrary, and the   *)
(* daemon may be killed between any two steps.  No message is taken before *)
(* the handler is done (phase = "idle").  A handler that changes the       *)
(* configuration adopts it and opens config.toml in its first action and   *)
(* writes it in the next (phases "save" and "engage").                     *)
(*                                                                         *)
(* What the process tree and the cgroups say when an app's scopes are      *)
(* resolved is an input: any member of Reach[a].                           *)
(***************************************************************************)
EXTENDS Throttler, Config

CONSTANTS Windows,      \* niri window ids
          NoWindow, NoApp,
          Reach,        \* Reach[a]: the scope sets app a may resolve to
          Inputs,       \* the configurations SetConfig may carry
          Edits,        \* what an editor may leave in config.toml
          SaveMayFail   \* BOOLEAN: whether writing config.toml can fail

ASSUME GovernorAssumption ==
    /\ NoWindow \notin Windows
    /\ NoApp \notin Apps
    /\ Reach \in [Apps -> SUBSET SUBSET Scopes]
    /\ Inputs \subseteq Configs
    /\ Edits \subseteq Files
    /\ SaveMayFail \in BOOLEAN

VARIABLES
    winApp,      \* State.windows: the app of each known window, or NoApp
    winFocused,  \* the known windows with is_focused
    focusedId,   \* State.focused_id
    appFocused,  \* the apps whose AppEntry.focused is set
    scopes,      \* AppEntry.scopes of every app ({} without an entry)
    pending,     \* State.pending: "no", "waiting" or "due" per app
    owner,       \* State.clipboard_owner
    config,      \* the configuration in force
    file,        \* config.toml
    stream,      \* "down" until the event stream has sent a snapshot
    phase,       \* "idle", or what the handler under way has still to do
    todo,        \* the apps the current walk has still to visit
    incoming     \* the windows of a snapshot not yet upserted

windowVars  == <<winApp, winFocused, focusedId, appFocused, scopes>>
controlVars == <<phase, todo, incoming>>
configVars  == <<config, file>>
vars == <<unit, daemon, windowVars, pending, owner, configVars, stream, controlVars>>

WindowInfo == [id : Windows, app : Apps, focused : BOOLEAN]

-----------------------------------------------------------------------------
(* An app has an AppEntry exactly while it has a window.                   *)
LiveIn(wa) == {wa[w] : w \in Windows} \ {NoApp}
Live == LiveIn(winApp)

(* Throttler::is_throttled: what the daemon remembers, not what is in force. *)
Throttled(s) == unit[s].applied # "absent"

(* State::effective_profile.                                               *)
ProfileIgnoringOwner(a) == ResolveProfile(config, a)
EffectiveProfile(a) ==
    LET p == ResolveProfile(config, a)
    IN  IF owner = a /\ p = "Pause" THEN Unmanaged ELSE p

LeftAlone(a) == a \in appFocused \/ EffectiveProfile(a) = Unmanaged

(* One call on every scope of S, none elsewhere.                           *)
CallOn(S, call) == [s \in Scopes |-> IF s \in S THEN call ELSE "keep"]

Idle == daemon = "up" /\ phase = "idle"

(* The call of State::reconcile that ends a handler.                       *)
BeginReconcile(apps) ==
    /\ todo' = apps
    /\ phase' = IF apps = {} THEN "idle" ELSE "reconcile"

StayIdle == UNCHANGED <<phase, todo>>

(* The last app of a walk ends the handler.                                *)
Visited(a) ==
    /\ todo' = todo \ {a}
    /\ phase' = IF todo = {a} THEN "idle" ELSE phase

-----------------------------------------------------------------------------
(* The window table becomes wa and the scope sets become found[a] for the  *)
(* apps in `refreshed`.  An app left without windows is dropped with its   *)
(* pending deadline and its scopes; a scope no longer among an app's is    *)
(* reset even where another app still has it.  This is the common effect   *)
(* of upsert_window, detach_window_from_app, forget_window and             *)
(* refresh_app_scopes.                                                     *)
RetrackKeepingScopes(wa, refreshed, found, bad) ==
    LET gone == Live \ LiveIn(wa)
    IN  /\ winApp' = wa
        /\ scopes' = [a \in Apps |-> IF a \in gone THEN {}
                                     ELSE IF a \in refreshed THEN found[a]
                                     ELSE scopes[a]]
        /\ pending' = [a \in Apps |-> IF a \in gone THEN "no" ELSE pending[a]]
        /\ Batch(CallOn(UNION {scopes[a] : a \in gone}, "reset"), bad)
Retrack(wa, refreshed, found, bad) ==
    LET gone == Live \ LiveIn(wa)
    IN  /\ winApp' = wa
        /\ scopes' = [a \in Apps |-> IF a \in gone THEN {}
                                     ELSE IF a \in refreshed THEN found[a]
                                     ELSE scopes[a]]
        /\ pending' = [a \in Apps |-> IF a \in gone THEN "no" ELSE pending[a]]
        /\ Batch(CallOn(UNION {scopes[a] \ scopes'[a] : a \in Apps}, "reset"), bad)

(* What resolve_scopes_for_tree may find for every app.                    *)
Findings == {found \in [Apps -> SUBSET Scopes] : \A a \in Apps : found[a] \in Reach[a]}

(* State::recompute_focused: any focused window, in HashMap order.         *)
RecomputeFocused(wa, wf) ==
    /\ winFocused' = wf
    /\ focusedId' \in IF wf = {} THEN {NoWindow} ELSE wf
    /\ appFocused' = {wa[w] : w \in wf}

(* niri::Event::Upsert of a window that is not our own.                    *)
Upsert(w, a, f) ==
    LET wa == [winApp EXCEPT ![w] = a]
        wf == IF f THEN winFocused \cup {w} ELSE winFocused \ {w}
    IN  /\ Idle
        /\ \E found \in Findings, bad \in Failures : Retrack(wa, {a}, found, bad)
        /\ RecomputeFocused(wa, wf)
        /\ BeginReconcile(LiveIn(wa))
        /\ UNCHANGED <<daemon, owner, configVars, stream, incoming>>

(* niri::Event::Closed: focus is not recomputed.                           *)
Closed(w) ==
    LET wa == [winApp EXCEPT ![w] = NoApp]
    IN  /\ Idle
        /\ \E bad \in Failures : Retrack(wa, {}, scopes, bad)
        /\ winFocused' = winFocused \ {w}
        /\ appFocused' = appFocused \cap LiveIn(wa)
        /\ BeginReconcile(LiveIn(wa))
        /\ UNCHANGED <<daemon, focusedId, owner, configVars, stream, incoming>>

(* niri::Event::Focus: the id may be that of no known window.              *)
Focus(w) ==
    LET wf == {x \in Windows : x = w /\ winApp[x] # NoApp}
    IN  /\ Idle
        /\ winFocused' = wf
        /\ focusedId' = w
        /\ appFocused' = {winApp[x] : x \in wf}
        /\ BeginReconcile(Live)
        /\ UNCHANGED <<unit, daemon, winApp, scopes, pending, owner, configVars,
                       stream, incoming>>

(* niri::Event::Snapshot, first part of apply_snapshot: forget the windows *)
(* that are gone.                                                          *)
SnapshotBegin(snap) ==
    LET ids == {r.id : r \in snap}
        wa  == [w \in Windows |-> IF w \in ids THEN winApp[w] ELSE NoApp]
    IN  /\ Idle
        /\ \E bad \in Failures : Retrack(wa, {}, scopes, bad)
        /\ winFocused' = winFocused \cap ids
        /\ appFocused' = appFocused \cap LiveIn(wa)
        /\ incoming' = snap
        /\ phase' = "snapshot"
        /\ stream' = "up"
        /\ UNCHANGED <<daemon, focusedId, owner, configVars, todo>>

(* Then every window is upserted, in the order of the message.             *)
SnapshotUpsert(r) ==
    LET wa == [winApp EXCEPT ![r.id] = r.app]
    IN  /\ daemon = "up" /\ phase = "snapshot"
        /\ r \in incoming
        /\ \E bad \in Failures : Retrack(wa, {}, scopes, bad)
        /\ winFocused' = IF r.focused THEN winFocused \cup {r.id} ELSE winFocused \ {r.id}
        /\ appFocused' = appFocused \cap LiveIn(wa)
        /\ incoming' = incoming \ {r}
        /\ UNCHANGED <<daemon, focusedId, owner, configVars, stream, phase, todo>>

(* Then focus is recomputed, every app's scopes are resolved again and     *)
(* reconcile starts.                                                       *)
SnapshotEndWithoutReconcile ==
    /\ daemon = "up" /\ phase = "snapshot"
    /\ incoming = {}
    /\ \E found \in Findings, bad \in Failures : Retrack(winApp, Live, found, bad)
    /\ RecomputeFocused(winApp, winFocused)
    /\ BeginReconcile({})
    /\ UNCHANGED <<daemon, owner, configVars, stream, incoming>>
SnapshotEnd ==
    /\ daemon = "up" /\ phase = "snapshot"
    /\ incoming = {}
    /\ \E found \in Findings, bad \in Failures : Retrack(winApp, Live, found, bad)
    /\ RecomputeFocused(winApp, winFocused)
    /\ BeginReconcile(Live)
    /\ UNCHANGED <<daemon, owner, configVars, stream, incoming>>

(* niri::Event::StreamLost, sent when a stream ends and again each time    *)
(* another cannot be started.                                              *)
StreamLost ==
    /\ Idle
    /\ pending' = [a \in Apps |-> "no"]
    /\ stream' = "down"
    /\ UNCHANGED <<unit, daemon, windowVars, owner, configVars, controlVars>>

-----------------------------------------------------------------------------
(* One turn of the loop in State::reconcile, in its three branches.        *)
Visit(a) == daemon = "up" /\ phase = "reconcile" /\ a \in todo /\ Visited(a)

ReconcileReleaseKeepingDeadline(a) ==
    /\ Visit(a)
    /\ LeftAlone(a)
    /\ \E bad \in Failures : Batch(CallOn(scopes[a], "reset"), bad)
    /\ UNCHANGED <<daemon, windowVars, pending, owner, configVars, stream, incoming>>
ReconcileRelease(a) ==
    /\ Visit(a)
    /\ LeftAlone(a)
    /\ pending' = [pending EXCEPT ![a] = "no"]
    /\ \E bad \in Failures : Batch(CallOn(scopes[a], "reset"), bad)
    /\ UNCHANGED <<daemon, windowVars, owner, configVars, stream, incoming>>

ReconcileReapplyThrottledOnly(a) ==
    /\ Visit(a)
    /\ ~LeftAlone(a)
    /\ \E s \in scopes[a] : Throttled(s)
    /\ \E bad \in Failures :
          Batch(CallOn({s \in scopes[a] : Throttled(s)}, EffectiveProfile(a)), bad)
    /\ UNCHANGED <<daemon, windowVars, pending, owner, configVars, stream, incoming>>
ReconcileReapply(a) ==
    /\ Visit(a)
    /\ ~LeftAlone(a)
    /\ \E s \in scopes[a] : Throttled(s)
    /\ \E bad \in Failures : Batch(CallOn(scopes[a], EffectiveProfile(a)), bad)
    /\ UNCHANGED <<daemon, windowVars, pending, owner, configVars, stream, incoming>>

ReconcileArm(a) ==
    /\ Visit(a)
    /\ ~LeftAlone(a)
    /\ \A s \in scopes[a] : ~Throttled(s)
    /\ pending' = [pending EXCEPT ![a] = IF @ = "no" THEN "waiting" ELSE @]
    /\ UNCHANGED <<unit, daemon, windowVars, owner, configVars, stream, incoming>>

(* The grace period of an armed app runs out.                              *)
GraceElapses(a) ==
    /\ daemon = "up"
    /\ pending[a] = "waiting"
    /\ pending' = [pending EXCEPT ![a] = "due"]
    /\ UNCHANGED <<unit, daemon, windowVars, owner, configVars, stream, controlVars>>

(* recv_timeout returns Timeout with something due: process_pending.       *)
Timeout ==
    /\ Idle
    /\ \E a \in Apps : pending[a] = "due"
    /\ todo' = {a \in Apps : pending[a] = "due"}
    /\ phase' = "process"
    /\ UNCHANGED <<unit, daemon, windowVars, pending, owner, configVars, stream, incoming>>

(* One turn of the loop in State::process_pending.                         *)
ProcessDue(a) ==
    /\ daemon = "up" /\ phase = "process" /\ a \in todo
    /\ Visited(a)
    /\ pending' = [pending EXCEPT ![a] = "no"]
    /\ \E bad \in Failures :
          Batch(CallOn(scopes[a], IF LeftAlone(a) THEN "keep" ELSE EffectiveProfile(a)), bad)
    /\ UNCHANGED <<daemon, windowVars, owner, configVars, stream, incoming>>

-----------------------------------------------------------------------------
(* handle_clipboard_event: the owner is the app of the window that is      *)
(* focused when the event is handled.                                      *)
FocusedApp == IF focusedId \in Windows THEN winApp[focusedId] ELSE NoApp

ClipboardEvent(newOwner) ==
    /\ Idle
    /\ newOwner # owner
    /\ owner' = newOwner
    /\ BeginReconcile(Live)
    /\ UNCHANGED <<unit, daemon, windowVars, pending, configVars, stream, incoming>>

OwnerChanged == ClipboardEvent(FocusedApp)
Cleared      == ClipboardEvent(NoApp)

-----------------------------------------------------------------------------
(* Config::save_to.  fs::write truncates config.toml and then writes it in *)
(* one call, so that a file cut short is empty, which does not parse.      *)
(* Either step may fail, and a failure is only logged.                     *)
Opened     == file' = Unparsable \/ (SaveMayFail /\ file' = file)
Written(c) == (file = Unparsable /\ file' = c) \/ (SaveMayFail /\ file' = file)

Saving == phase \in {"save", "engage"}

(* The new configuration is in force from here on, saved or not.           *)
Adopt(c, next) ==
    /\ config' = c
    /\ Opened
    /\ phase' = next
    /\ UNCHANGED <<unit, daemon, windowVars, pending, owner, stream, todo, incoming>>

(* The save ends and the handler reconciles.                               *)
Saved ==
    /\ daemon = "up" /\ phase = "save"
    /\ Written(config)
    /\ BeginReconcile(Live)
    /\ UNCHANGED <<unit, daemon, windowVars, pending, owner, config, stream, incoming>>

(* The save ends and the kill switch undoes what the throttler has done.   *)
KilledKeepingDeadlines ==
    /\ daemon = "up" /\ phase = "engage"
    /\ Written(config)
    /\ \E bad \in Failures : ResetAll(bad)
    /\ phase' = "idle"
    /\ UNCHANGED <<daemon, windowVars, pending, owner, config, stream, todo, incoming>>
Killed ==
    /\ daemon = "up" /\ phase = "engage"
    /\ Written(config)
    /\ \E bad \in Failures : ResetAll(bad)
    /\ pending' = [a \in Apps |-> "no"]
    /\ phase' = "idle"
    /\ UNCHANGED <<daemon, windowVars, owner, config, stream, todo, incoming>>

(* Request::SetMode and TrayAction::SetMode; an unknown mode is refused.   *)
SetMode(m) ==
    /\ Idle
    /\ m \in DOMAIN config.modes
    /\ Adopt([config EXCEPT !.active_mode = m], "save")

(* Request::SetConfig: the whole configuration, unchecked.                 *)
SetConfig(c) == Idle /\ Adopt(c, "save")

(* Request::SetDisabled(true) and its tray twin: the kill switch.          *)
EngageKillSwitch ==
    /\ Idle
    /\ ~config.disabled
    /\ Adopt([config EXCEPT !.disabled = TRUE], "engage")

(* Request::SetDisabled(false) and its tray twin.                          *)
ReleaseWithoutSaving ==
    /\ Idle
    /\ config.disabled
    /\ config' = [config EXCEPT !.disabled = FALSE]
    /\ BeginReconcile(Live)
    /\ UNCHANGED <<unit, daemon, windowVars, pending, owner, file, stream, incoming>>
ReleaseKillSwitch ==
    /\ Idle
    /\ config.disabled
    /\ Adopt([config EXCEPT !.disabled = FALSE], "save")

(* Request::Reload and SIGHUP: Config::load_or_default, which writes the   *)
(* defaults where there is no file.                                        *)
ReloadMissing ==
    /\ Idle
    /\ file = Missing
    /\ Adopt(LoadOrDefault(file), "save")

ReloadWithoutReconcile ==
    /\ Idle
    /\ file # Missing
    /\ config' = LoadOrDefault(file)
    /\ StayIdle
    /\ UNCHANGED <<unit, daemon, windowVars, pending, owner, file, stream, incoming>>
Reload ==
    /\ Idle
    /\ file # Missing
    /\ config' = LoadOrDefault(file)
    /\ BeginReconcile(Live)
    /\ UNCHANGED <<unit, daemon, windowVars, pending, owner, file, stream, incoming>>

(* The user edits or deletes config.toml, not just while it is saved; the  *)
(* daemon does not notice.                                                 *)
EditFile(f) ==
    /\ ~Saving
    /\ file' = f
    /\ UNCHANGED <<unit, daemon, windowVars, pending, owner, config, stream, controlVars>>

-----------------------------------------------------------------------------
(* The process ends and its memory with it.                                *)
LoseMemory ==
    /\ winApp' = [w \in Windows |-> NoApp]
    /\ winFocused' = {}
    /\ focusedId' = NoWindow
    /\ appFocused' = {}
    /\ scopes' = [a \in Apps |-> {}]
    /\ pending' = [a \in Apps |-> "no"]
    /\ owner' = NoApp
    /\ config' = DefaultConfig
    /\ stream' = "down"
    /\ phase' = "idle"
    /\ todo' = {}
    /\ incoming' = {}

(* SIGTERM or SIGINT, noticed at the top of the loop: reset_all, then exit.*)
ShutdownWithoutReset ==
    /\ Idle
    /\ Forget
    /\ daemon' = "stopped"
    /\ LoseMemory
    /\ UNCHANGED file
Shutdown ==
    /\ Idle
    /\ \E bad \in Failures : ResetAll(bad)
    /\ daemon' = "stopped"
    /\ LoseMemory
    /\ UNCHANGED file

(* SIGKILL or a panic, between any two steps.                              *)
Crash ==
    /\ daemon = "up"
    /\ Forget
    /\ daemon' = "crashed"
    /\ LoseMemory
    /\ UNCHANGED file

(* The load at startup; the defaults it writes may be cut short as well.   *)
LoadAtStart ==
    /\ config' = LoadOrDefault(file)
    /\ IF file = Missing
       THEN file' = DefaultConfig \/ (SaveMayFail /\ file' \in {Missing, Unparsable})
       ELSE UNCHANGED file

(* SIGKILL while the defaults are written at startup.                      *)
KilledAtStart ==
    /\ daemon # "up"
    /\ file = Missing
    /\ file' = Unparsable
    /\ UNCHANGED <<unit, daemon, windowVars, pending, owner, config, stream, controlVars>>

(* run(): load the configuration, bootstrap from `niri msg windows` (snap  *)
(* is {} when that fails), sweep, reconcile.                               *)
Start(snap) ==
    LET wa == [w \in Windows |-> IF \E r \in snap : r.id = w
                                 THEN (CHOOSE r \in snap : r.id = w).app ELSE NoApp]
        wf == {r.id : r \in {x \in snap : x.focused}}
    IN  /\ daemon # "up"
        /\ daemon' = "up"
        /\ LoadAtStart
        /\ winApp' = wa
        /\ \E found \in Findings :
              scopes' = [a \in Apps |-> IF a \in LiveIn(wa) THEN found[a] ELSE {}]
        /\ RecomputeFocused(wa, wf)
        /\ \E bad \in Failures : Sweep(UNION {scopes'[a] : a \in Apps}, bad)
        /\ BeginReconcile(LiveIn(wa))
        /\ UNCHANGED <<pending, owner, stream, incoming>>

-----------------------------------------------------------------------------
(* A niri window list: no id twice and at most one window focused.         *)
Snapshots == {snap \in SUBSET WindowInfo :
                 \A r1, r2 \in snap :
                    r1.id = r2.id \/ (r1.focused /\ r2.focused) => r1 = r2}

Init ==
    /\ ThrottlerInit
    /\ winApp = [w \in Windows |-> NoApp]
    /\ winFocused = {}
    /\ focusedId = NoWindow
    /\ appFocused = {}
    /\ scopes = [a \in Apps |-> {}]
    /\ pending = [a \in Apps |-> "no"]
    /\ owner = NoApp
    /\ config = DefaultConfig
    /\ file \in Inputs \cup {Missing}
    /\ stream = "down"
    /\ phase = "idle"
    /\ todo = {}
    /\ incoming = {}

NiriEvent ==
    \/ \E w \in Windows, a \in Apps, f \in BOOLEAN : Upsert(w, a, f)
    \/ \E w \in Windows : Closed(w)
    \/ \E w \in Windows \cup {NoWindow} : Focus(w)
    \/ \E snap \in Snapshots : SnapshotBegin(snap)
    \/ StreamLost

Request ==
    \/ \E m \in ModeNames : SetMode(m)
    \/ \E c \in Inputs : SetConfig(c)
    \/ EngageKillSwitch
    \/ ReleaseKillSwitch
    \/ Reload
    \/ ReloadMissing

Handler ==
    \/ \E r \in incoming : SnapshotUpsert(r)
    \/ SnapshotEnd
    \/ Saved
    \/ Killed
    \/ \E a \in todo : \/ ReconcileRelease(a)
                       \/ ReconcileReapply(a)
                       \/ ReconcileArm(a)
                       \/ ProcessDue(a)

Next ==
    \/ NiriEvent
    \/ OwnerChanged
    \/ Cleared
    \/ Request
    \/ Handler
    \/ \E a \in Apps : GraceElapses(a)
    \/ Timeout
    \/ \E f \in Edits : EditFile(f)
    \/ Shutdown
    \/ Crash
    \/ KilledAtStart
    \/ \E snap \in Snapshots : Start(snap)

Spec == Init /\ [][Next]_vars

(* After a lost stream, niri::spawn_event_stream starts another, and niri  *)
(* opens every stream with the list of windows.                            *)
Reconnect == stream = "down" /\ \E snap \in Snapshots : SnapshotBegin(snap)

(* The loop goes on with a handler it has begun; time passes; the stream   *)
(* thread reconnects.  recv_timeout reports Timeout only when no message   *)
(* came for 10 ms to 1 s, so that Timeout is fair only in the strong sense *)
(* and only if the message traffic has such a pause again and again.       *)
Fairness ==
    /\ WF_vars(Handler)
    /\ WF_vars(Reconnect)
    /\ \A a \in Apps : WF_vars(GraceElapses(a))
    /\ SF_vars(Timeout)

FairSpec == Spec /\ Fairness

-----------------------------------------------------------------------------
TypeOK ==
    /\ ThrottlerTypeOK
    /\ winApp \in [Windows -> Apps \cup {NoApp}]
    /\ winFocused \subseteq Windows
    /\ focusedId \in Windows \cup {NoWindow}
    /\ appFocused \subseteq Apps
    /\ scopes \in [Apps -> SUBSET Scopes]
    /\ pending \in [Apps -> {"no", "waiting", "due"}]
    /\ owner \in Apps \cup {NoApp}
    /\ config \in Configs
    /\ file \in Files
    /\ stream \in {"up", "down"}
    /\ phase \in {"idle", "snapshot", "save", "engage", "reconcile", "process"}
    /\ todo \subseteq Apps
    /\ incoming \subseteq WindowInfo

(* Between two messages the kernel limits a scope only on behalf of an app *)
(* that has a window, is not focused, is not excluded, and is neither      *)
(* under the kill switch nor a clipboard owner that would be frozen.  So   *)
(* no handler forgets a scope: a closed app, a scope a process has left,   *)
(* an app that was refocused while its deadline was being processed.  The  *)
(* exception is what a failed call left behind: reset drops its record     *)
(* first and only logs the failure (throttle.rs:60).                       *)
RestrictedForAReason ==
    Idle => \A s \in Scopes : ~Free(unit[s]) =>
                \/ LostByFailure(s)
                \/ \E a \in Live : s \in scopes[a] /\ ~LeftAlone(a)

(* Between two messages only apps that may be restricted have a deadline,  *)
(* so a deadline never survives a refocus, an exclusion, the kill switch   *)
(* or the app itself.                                                      *)
DeadlineForAReason ==
    Idle => \A a \in Apps : pending[a] # "no" => a \in Live /\ ~LeftAlone(a)

Private(a) == \A b \in Apps \ {a} : scopes[a] \cap scopes[b] = {}

(* Where no call fails, the private scopes of an app are between two       *)
(* messages all under its current profile or all free: a mode switch, an   *)
(* edited preset or a new child scope never leaves a mixture.              *)
OneProfilePerApp ==
    (Idle /\ Failures = {{}}) =>
        \A a \in Live : Private(a) /\ ~LeftAlone(a) =>
            \/ \A s \in scopes[a] : ~Throttled(s)
            \/ \A s \in scopes[a] : unit[s].applied = EffectiveProfile(a)

(* Where no call fails and niri's stream is up, an app that ought to be    *)
(* restricted is restricted or has a deadline: it is never forgotten, not  *)
(* even after a lost stream, a restart or a change of owner.               *)
NoAppForgotten ==
    (Idle /\ Failures = {{}} /\ stream = "up") =>
        \A a \in Live : ~LeftAlone(a) /\ Private(a) /\ EffectiveProfile(a) # "None"
                        /\ pending[a] = "no" =>
            \A s \in scopes[a] : unit[s].applied = EffectiveProfile(a)

(* An app that from some time on ought to be restricted gets its profile   *)
(* on all its scopes, again each time they change: deadlines are armed,    *)
(* run out and are processed although StreamLost clears them all and every *)
(* message resets recv_timeout.                                            *)
OughtToBeRestricted(a) ==
    /\ daemon = "up" /\ stream = "up" /\ Failures = {{}}
    /\ a \in Live /\ Private(a)
    /\ ~LeftAlone(a) /\ EffectiveProfile(a) # "None"
EventuallyRestricted ==
    \A a \in Apps :
        <>[]OughtToBeRestricted(a) =>
            []<>(\A s \in scopes[a] : unit[s].applied = EffectiveProfile(a))

(* Where no save fails and nobody else writes the file, a daemon that is   *)
(* killed comes back with the configuration that was in force, whichever   *)
(* handler changed it last and wherever in a handler it is killed, but in  *)
(* the save itself (config.rs:161), which leaves an empty file: then it    *)
(* comes back with the defaults, and those are in force until the next     *)
(* save.                                                                   *)
ConfigDurable ==
    (daemon = "up" /\ ~Saving /\ Edits = {} /\ ~SaveMayFail) =>
        LoadOrDefault(file) = config

(* README, Shared scopes: a shared scope is not managed whenever any app   *)
(* in it is focused.                                                       *)
FocusedAppFree ==
    Idle => \A a \in appFocused : \A s \in scopes[a] : Free(unit[s])

(* README, Kill switch: it unfreezes and clears every scope the daemon had *)
(* touched.                                                                *)
KillSwitchClears ==
    Idle /\ config.disabled => \A s \in Scopes : Free(unit[s])
=============================================================================
