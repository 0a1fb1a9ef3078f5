-------------------------------- MODULE Desk --------------------------------
(***************************************************************************)
(* The three places that hold a copy of the configuration and change it:   *)
(* the daemon (daemon/mod.rs, daemon/ipc.rs), the tray icon in the same    *)
(* process (daemon/tray.rs), and one GUI window (gui/mod.rs, proto.rs).    *)
(*                                                                         *)
(* The GUI is one thread and waits for each answer; a request it gave up   *)
(* on stays with the daemon.  What the daemon does to scopes is module     *)
(* Governor; runtime data in the GUI's copy (windows, energy) is left out. *)
(***************************************************************************)
EXTENDS Config, Sequences, FiniteSets, Naturals

CONSTANTS
    NoState,      \* Option::None of App::server and App::draft
    FirstConfigs, \* configurations the daemon may have started with
    NewNames,     \* names "Add preset" makes up
    NewPreset,    \* the throttle profile of an added preset
    MaxEdits,     \* bounds: clicks in the GUI that change something,
    MaxClicks,    \* clicks in the tray menu,
    MaxTimeouts,  \* requests that take more than 5 s,
    MaxFailures,  \* saves that fail,
    MaxStops,     \* daemons that stop,
    MaxFaults     \* and the last three together

ASSUME DeskAssumption ==
    /\ NoState \notin Configs
    /\ FirstConfigs \subseteq Configs
    /\ NewNames \subseteq ModeNames /\ NewPreset \in Throttles
    /\ {MaxEdits, MaxClicks, MaxTimeouts, MaxFailures, MaxStops, MaxFaults} \subseteq Nat

VARIABLES loop,    \* daemon: "recv", "save" (save_to is under way), "push"
                   \* (push_tray_state is next) or "down"
          config,  \* the configuration in force
          file,    \* config.toml, there since the daemon first started
          sound,   \* (history) the last save came to its end without an error
          owed,    \* the GUI waits for the answer to the request being saved
          tray,    \* TrayState: mode, modes, disabled; NoState while down
          ipcQ,    \* requests sent to the main loop; `waited`: GUI still there
          trayQ,   \* tray actions on their way to the main loop
          gui,     \* App: server, draft, the request it waits for, the answer,
                   \* error is Some, and (history) edits are not in force yet
          used     \* what of the bounds has been used

daemonVars == <<loop, config, file, sound>>
vars == <<daemonVars, owed, tray, ipcQ, trayQ, gui, used>>

Shown(c) == [mode |-> c.active_mode, modes |-> DOMAIN c.modes, disabled |-> c.disabled]

Requests == [kind : {"GetState"}] \cup
            [kind : {"SetConfig"}, config : Configs] \cup
            [kind : {"SetDisabled"}, disabled : BOOLEAN]

Idle == "idle"
Answers == [kind : {"none", "Ok", "Error"}] \cup [kind : {"State"}, config : Configs]
NoAnswer == [kind |-> "none"]
Refused  == [kind |-> "Error"]

TrayActions == [kind : {"SetMode"}, mode : ModeNames] \cup
               [kind : {"SetDisabled"}, disabled : BOOLEAN]

Spend(what) == used' = [used EXCEPT ![what] = @ + 1]

Fault(what, bound) ==
    /\ used[what] < bound
    /\ used.timeouts + used.failures + used.stops < MaxFaults
    /\ Spend(what)

-----------------------------------------------------------------------------
(* The daemon's main loop.                                                 *)

(* handle_tray_action.  An unknown mode and an unchanged switch are        *)
(* ignored, but the push that follows is not.                              *)
TrayResultUnchecked(c, act) ==
    IF act.kind = "SetMode" THEN [c EXCEPT !.active_mode = act.mode]
    ELSE [c EXCEPT !.disabled = act.disabled]
TrayResult(c, act) ==
    CASE act.kind = "SetMode" /\ act.mode \in DOMAIN c.modes -> [c EXCEPT !.active_mode = act.mode]
      [] act.kind = "SetMode" /\ act.mode \notin DOMAIN c.modes -> c
      [] act.kind = "SetDisabled" -> [c EXCEPT !.disabled = act.disabled]

(* Whether the handler goes on to save what it adopted: always for a mode  *)
(* it knows, for the switch only if that changed.                          *)
TraySaves(c, act) ==
    CASE act.kind = "SetMode"     -> act.mode \in DOMAIN c.modes
      [] act.kind = "SetDisabled" -> act.disabled # c.disabled

(* The loop pushes the tray's state after every handler that may have      *)
(* touched the configuration.                                              *)
AfterwardsNoPush == "recv"
Afterwards == "push"

HandleTray ==
    /\ loop = "recv" /\ trayQ # <<>>
    /\ config' = TrayResult(config, Head(trayQ))
    /\ loop' = IF TraySaves(config, Head(trayQ)) THEN "save" ELSE Afterwards
    /\ trayQ' = Tail(trayQ)
    /\ UNCHANGED <<file, sound, owed, tray, ipcQ, gui, used>>

(* handle_ipc: the configuration after a request, and its answer.          *)
IpcResult(c, req) ==
    CASE req.kind = "SetConfig"   -> req.config
      [] req.kind = "SetDisabled" -> [c EXCEPT !.disabled = req.disabled]
      [] req.kind = "GetState"    -> c
IpcSaves(c, req) ==
    req.kind = "SetConfig" \/ (req.kind = "SetDisabled" /\ req.disabled # c.disabled)
Answer(c, req) == IF req.kind = "GetState" THEN [kind |-> "State", config |-> c] ELSE [kind |-> "Ok"]

(* The message of ipcQ that is handled next.                               *)
NextRequestNewest == Len(ipcQ)
NextRequest == 1

(* What is to be saved is adopted here; the answer waits for the save.     *)
HandleIpc ==
    /\ loop = "recv" /\ ipcQ # <<>>
    /\ LET m     == ipcQ[NextRequest]
           saves == IpcSaves(config, m.req)
       IN  /\ config' = IpcResult(config, m.req)
           /\ loop' = CASE saves -> "save"
                        [] ~saves /\ m.req.kind = "GetState" -> "recv"
                        [] ~saves /\ m.req.kind # "GetState" -> Afterwards
           /\ owed' = (m.waited /\ saves)
           /\ gui' = IF m.waited /\ ~saves
                     THEN [gui EXCEPT !.answer = Answer(config, m.req)] ELSE gui
           /\ ipcQ' = [i \in 1 .. Len(ipcQ) - 1 |-> IF i < NextRequest THEN ipcQ[i] ELSE ipcQ[i + 1]]
    /\ UNCHANGED <<file, sound, tray, trayQ, used>>

(* save_to truncates config.toml, then writes it.  An error before leaves  *)
(* the old file, one in between an empty file, which does not parse.       *)
Torn == file' \in {file, Unparsable} /\ sound' = FALSE

WrittenNothing == UNCHANGED <<file, used>> /\ sound' = TRUE
Written ==
    \/ file' = config /\ sound' = TRUE /\ UNCHANGED used
    \/ Torn /\ Fault("failures", MaxFailures)

(* The save ends, an error is only logged, and the GUI gets its answer.    *)
Saved ==
    /\ loop = "save"
    /\ Written
    /\ loop' = Afterwards
    /\ owed' = FALSE
    /\ gui' = IF owed THEN [gui EXCEPT !.answer = [kind |-> "Ok"]] ELSE gui
    /\ UNCHANGED <<config, tray, ipcQ, trayQ>>

(* push_tray_state                                                         *)
PushTray ==
    /\ loop = "push"
    /\ loop' = "recv"
    /\ tray' = Shown(config)
    /\ UNCHANGED <<config, file, sound, owed, ipcQ, trayQ, gui, used>>

(* The daemon stops or is killed, perhaps inside a save: what was queued   *)
(* is gone, a GUI that waits sees its connection closed.                   *)
StopDaemon ==
    /\ loop # "down" /\ Fault("stops", MaxStops)
    /\ loop' = "down"
    /\ tray' = NoState
    /\ ipcQ' = <<>> /\ trayQ' = <<>> /\ owed' = FALSE
    /\ IF loop = "save" THEN Torn ELSE UNCHANGED <<file, sound>>
    /\ gui' = IF gui.request # Idle /\ gui.answer.kind = "none"
              THEN [gui EXCEPT !.answer = Refused] ELSE gui
    /\ UNCHANGED config

(* run(): load config.toml, bind the socket, spawn the tray.               *)
StartDaemon ==
    /\ loop = "down"
    /\ loop' = "recv"
    /\ config' = LoadOrDefault(file)
    /\ tray' = Shown(config')
    /\ UNCHANGED <<file, sound, owed, ipcQ, trayQ, gui, used>>

-----------------------------------------------------------------------------
(* Menu callbacks of the tray: change its own copy and send the action.    *)
ClickTray(act, shown) ==
    /\ loop # "down" /\ used.clicks < MaxClicks
    /\ tray' = shown
    /\ trayQ' = Append(trayQ, act)
    /\ Spend("clicks")
    /\ UNCHANGED <<daemonVars, owed, ipcQ, gui>>

TrayMode ==
    tray # NoState /\ \E m \in tray.modes :
        ClickTray([kind |-> "SetMode", mode |-> m], [tray EXCEPT !.mode = m])

TrayToggle ==
    tray # NoState /\ ClickTray([kind |-> "SetDisabled", disabled |-> ~tray.disabled],
                                [tray EXCEPT !.disabled = ~@])

-----------------------------------------------------------------------------
(* The GUI.                                                                *)

IsDirty == gui.server # NoState /\ gui.draft # gui.server

(* client::send: connect and write, then wait for the answer.  With no     *)
(* daemon to connect to it fails at once.                                  *)
Send(req, g) ==
    IF loop = "down" THEN gui' = [g EXCEPT !.failed = TRUE] /\ UNCHANGED ipcQ
    ELSE /\ gui' = [g EXCEPT !.request = req.kind, !.answer = NoAnswer]
         /\ ipcQ' = Append(ipcQ, [req |-> req, waited |-> TRUE])

(* poll(), up to the answer.                                               *)
Poll ==
    /\ gui.request = Idle
    /\ Send([kind |-> "GetState"], gui)
    /\ UNCHANGED <<daemonVars, owed, tray, trayQ, used>>

(* The copies a poll leaves: a dirty draft keeps its configuration.        *)
PolledServerOnly(g, st) == [g EXCEPT !.server = st]
PolledOverwriting(g, st) == [g EXCEPT !.server = st, !.draft = st]
PolledDraftFirst(g, st) ==
    [g EXCEPT !.server = IF IsDirty THEN @ ELSE st, !.draft = IF IsDirty THEN @ ELSE st]
Polled(g, st) == [g EXCEPT !.server = st, !.draft = IF IsDirty THEN @ ELSE st]

(* Whether there are edits not yet in force when the daemon has st: they   *)
(* are over when an Apply was accepted or the daemon has them anyway.      *)
Unsaved(st) == gui.unsaved /\ gui.draft # st

(* The answer arrives: the rest of poll, apply or the kill switch handler. *)
ReceiveAnswer ==
    /\ gui.request # Idle /\ gui.answer.kind # "none"
    /\ LET done == [gui EXCEPT !.request = Idle, !.answer = NoAnswer, !.failed = FALSE]
       IN  gui' = CASE gui.answer.kind = "Error" -> [done EXCEPT !.failed = TRUE]
                    [] gui.answer.kind = "Ok" /\ gui.request = "SetConfig" -> [done EXCEPT !.unsaved = FALSE]
                    [] gui.answer.kind = "Ok" /\ gui.request # "SetConfig" -> done
                    [] OTHER -> [Polled(done, gui.answer.config) EXCEPT !.unsaved = Unsaved(gui.answer.config)]
    /\ UNCHANGED <<daemonVars, owed, tray, ipcQ, trayQ, used>>

(* Five seconds pass without an answer.  The request is not withdrawn.     *)
TimeOut ==
    /\ gui.request # Idle /\ gui.answer.kind = "none"
    /\ Fault("timeouts", MaxTimeouts)
    /\ gui' = [gui EXCEPT !.request = Idle, !.failed = TRUE]
    /\ ipcQ' = [i \in DOMAIN ipcQ |-> [ipcQ[i] EXCEPT !.waited = FALSE]]
    /\ owed' = FALSE
    /\ UNCHANGED <<daemonVars, tray, trayQ>>

(* Apply, enabled while dirty, sends the whole draft.                      *)
Apply ==
    /\ gui.request = Idle /\ IsDirty /\ used.edits < MaxEdits
    /\ Send([kind |-> "SetConfig", config |-> gui.draft], gui)
    /\ Spend("edits")
    /\ UNCHANGED <<daemonVars, owed, tray, trayQ>>

Discard ==
    /\ gui.request = Idle /\ IsDirty
    /\ gui' = [gui EXCEPT !.draft = gui.server, !.unsaved = FALSE]
    /\ UNCHANGED <<daemonVars, owed, tray, ipcQ, trayQ, used>>

(* The kill switch button changes both copies, if there are any, before it *)
(* sends.  That ends the edits of a draft that differed in nothing else.   *)
ClickKillSwitch ==
    /\ gui.request = Idle /\ used.edits < MaxEdits
    /\ LET new    == gui.draft = NoState \/ ~gui.draft.disabled
           Set(c) == IF c = NoState THEN c ELSE [c EXCEPT !.disabled = new]
       IN  Send([kind |-> "SetDisabled", disabled |-> new],
                [gui EXCEPT !.draft = Set(@), !.server = Set(@),
                            !.unsaved = @ /\ Set(gui.draft) # Set(gui.server)])
    /\ Spend("edits")
    /\ UNCHANGED <<daemonVars, owed, tray, trayQ>>

(* The Presets tab.  Only throttle presets are listed.                     *)
Listed(c) == {m \in DOMAIN c.modes : c.modes[m] \in Throttles}

RenamedModeOnly(c, old, new) ==
    [c EXCEPT !.modes = [m \in (DOMAIN c.modes \ {old}) \cup {new} |->
                            IF m = new THEN c.modes[old] ELSE c.modes[m]],
              !.active_mode = IF @ = old THEN new ELSE @]
Renamed(c, old, new) ==
    [c EXCEPT !.modes = [m \in (DOMAIN c.modes \ {old}) \cup {new} |->
                            IF m = new THEN c.modes[old] ELSE c.modes[m]],
              !.active_mode = IF @ = old THEN new ELSE @,
              !.apps = [a \in DOMAIN c.apps |->
                           IF c.apps[a] = [override |-> "profile", profile |-> old]
                           THEN [override |-> "profile", profile |-> new] ELSE c.apps[a]]]
(* `first` becomes the active mode if the removed one was.                 *)
Removed(c, name, first) ==
    [c EXCEPT !.modes = [m \in DOMAIN c.modes \ {name} |-> c.modes[m]],
              !.active_mode = IF @ = name THEN first ELSE @]

WithPreset(c, name, p) ==
    [c EXCEPT !.modes = [m \in DOMAIN c.modes \cup {name} |-> IF m = name THEN p ELSE c.modes[m]]]

(* The rule combo box of an app; "use mode" removes the rule.              *)
WithRule(c, a, rule) ==
    [c EXCEPT !.apps = IF rule.override = "use_mode"
                       THEN [x \in DOMAIN c.apps \ {a} |-> c.apps[x]]
                       ELSE [x \in DOMAIN c.apps \cup {a} |-> IF x = a THEN rule ELSE c.apps[x]]]

(* Every edit of the draft that a frame of the GUI can make.               *)
EditResults(c) ==
    {[c EXCEPT !.active_mode = m] : m \in IF c.disabled THEN {} ELSE DOMAIN c.modes}
    \cup {WithRule(c, a, r) : a \in Apps,
             r \in [override : {"use_mode", "exclude"}] \cup
                   [override : {"profile"}, profile : DOMAIN c.modes]}
    \cup {Renamed(c, old, new) : old \in Listed(c), new \in ModeNames \ DOMAIN c.modes}
    \cup (UNION {{Removed(c, name, first) : first \in DOMAIN c.modes \ {name}} : name \in Listed(c)})
    \cup {WithPreset(c, name, NewPreset) : name \in NewNames \ DOMAIN c.modes}
    \cup {WithPreset(c, name, p) : name \in Listed(c), p \in Throttles}

Edit ==
    /\ gui.request = Idle /\ gui.server # NoState /\ used.edits < MaxEdits
    /\ \E c \in EditResults(gui.draft) \ {gui.draft} :
          gui' = [gui EXCEPT !.draft = c, !.unsaved = c # gui.server]
    /\ Spend("edits")
    /\ UNCHANGED <<daemonVars, owed, tray, ipcQ, trayQ>>

-----------------------------------------------------------------------------
Init ==
    /\ config \in FirstConfigs
    /\ loop = "recv" /\ file = config /\ sound = TRUE /\ owed = FALSE /\ tray = Shown(config)
    /\ ipcQ = <<>> /\ trayQ = <<>>
    /\ gui = [server |-> NoState, draft |-> NoState, request |-> Idle, answer |-> NoAnswer,
              failed |-> FALSE, unsaved |-> FALSE]
    /\ used = [edits |-> 0, clicks |-> 0, timeouts |-> 0, failures |-> 0, stops |-> 0]

Daemon == HandleTray \/ HandleIpc \/ Saved \/ PushTray \/ StartDaemon
User   == Edit \/ Apply \/ Discard \/ ClickKillSwitch \/ TrayMode \/ TrayToggle

Next == Daemon \/ StopDaemon \/ User \/ Poll \/ ReceiveAnswer \/ TimeOut

Spec == Init /\ [][Next]_vars

(* The main loop runs, systemd restarts a daemon that failed, and the GUI  *)
(* goes on polling.  Nobody has to click, nothing has to fail.             *)
FairSpec ==
    Spec /\ WF_vars(HandleTray) /\ WF_vars(HandleIpc) /\ WF_vars(Saved)
         /\ WF_vars(PushTray) /\ WF_vars(StartDaemon) /\ WF_vars(Poll) /\ WF_vars(ReceiveAnswer)

(* The daemon, its queues and config.toml as the promise of Settings: what *)
(* is in force is in memory, or in the file while there is no daemon.      *)
Promised == INSTANCE Settings WITH
    Clients <- {"gui", "tray"},
    value   <- IF loop = "down" THEN LoadOrDefault(file) ELSE config,
    stored  <- LoadOrDefault(file),
    saving  <- loop = "save",
    asked   <- [k \in {"gui", "tray"} |->
                   IF k = "tray" THEN trayQ ELSE [i \in 1 .. Len(ipcQ) |-> ipcQ[i].req]]

-----------------------------------------------------------------------------
(* Every variable has its type.                                            *)
TypeOK ==
    /\ loop \in {"recv", "save", "push", "down"}
    /\ config \in Configs /\ file \in Configs \cup {Unparsable}
    /\ sound \in BOOLEAN /\ owed \in BOOLEAN
    /\ loop # "down" => tray \in [mode : ModeNames, modes : SUBSET ModeNames, disabled : BOOLEAN]
    /\ ipcQ \in Seq([req : Requests, waited : BOOLEAN])
    /\ trayQ \in Seq(TrayActions)
    /\ gui \in [server : Configs \cup {NoState}, draft : Configs \cup {NoState},
                request : {Idle, "GetState", "SetConfig", "SetDisabled"}, answer : Answers,
                failed : BOOLEAN, unsaved : BOOLEAN]
    /\ gui.draft = NoState <=> gui.server = NoState
    /\ used \in [{"edits", "clicks", "timeouts", "failures", "stops"} -> Nat]

(* Whatever the tray showed after a click, also one the daemon refused, it *)
(* shows what is in force once its actions are handled (tray.rs:130,       *)
(* mod.rs:594-604).                                                        *)
TrayShowsDaemon ==
    loop = "recv" /\ trayQ = <<>> => tray = Shown(config)

(* The active mode names a preset in every copy, and in what config.toml   *)
(* would be read as, also when one was removed or renamed while the tray   *)
(* or a late request still meant the old list.                             *)
ActiveModeDefined ==
    \A c \in ({config, LoadOrDefault(file), gui.server, gui.draft} \ {NoState}) :
        c.active_mode \in DOMAIN c.modes

(* When the GUI reports no error, no request of its own is still to be     *)
(* applied: one that it gave up on never overtakes a later one             *)
(* (proto.rs:216-237, ipc.rs:48-76).                                       *)
NoLateRequest ==
    gui.request = Idle /\ ~gui.failed => ipcQ = <<>>

(* Renaming a preset leaves every app with the profile it had              *)
(* (gui/mod.rs: draw_preset_editor), unless its rule named the new name    *)
(* when no preset had it.                                                  *)
RenameKeepsProfiles ==
    gui.draft # NoState =>
        \A old \in Listed(gui.draft), new \in ModeNames \ DOMAIN gui.draft.modes, a \in Apps :
            (a \in DOMAIN gui.draft.apps =>
                gui.draft.apps[a] # [override |-> "profile", profile |-> new])
            => ResolveProfile(Renamed(gui.draft, old, new), a) = ResolveProfile(gui.draft, a)

(* "Preserve draft if user has unsaved changes" (gui/mod.rs:325): edits    *)
(* that are not in force stay in the draft until the user changes them.    *)
NoEditLost ==
    [][gui.unsaved /\ gui'.unsaved /\ gui'.draft # gui.draft => used'.edits > used.edits]_vars

(* Once nobody clicks any more, the GUI and the tray come to agree with    *)
(* the daemon, and so does config.toml unless the last save failed.        *)
EventuallyAgree ==
    <>[](gui.server = config /\ tray = Shown(config) /\ (sound => file = config))

(* One configuration that only requested operations change, each client's  *)
(* in order and at most once, though the GUI gave up on some or the daemon *)
(* stopped with some in its queues.  A daemon comes back with it, unless   *)
(* the last save failed or was cut short: then with what was stored before *)
(* or with the defaults, never with another                                *)
(* (mod.rs:645-680, 765-812, ipc.rs:48-76, config.rs:131-162).             *)
KeepsItsPromise == Promised!Spec

(* "stops applying new restrictions until you flip it back"                *)
(* (README.md:173-174): only the kill switch itself releases it.           *)
KillSwitchSticky ==
    [][config.disabled /\ ~config'.disabled =>
          \/ trayQ # <<>> /\ trayQ' = Tail(trayQ) /\ Head(trayQ).kind = "SetDisabled"
          \/ Len(ipcQ') < Len(ipcQ) /\ ipcQ[1].req.kind = "SetDisabled"]_vars

=============================================================================
