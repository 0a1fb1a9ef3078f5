-------------------------------- MODULE Feed --------------------------------
(***************************************************************************)
(* How the daemon comes to know the windows, the focus and the clipboard's *)
(* owner: niri's event stream with its reader thread (daemon/niri.rs), the *)
(* clipboard watcher (daemon/clipboard.rs), the bootstrap fetch, and the   *)
(* part of the handlers in daemon/mod.rs that keeps the window table.      *)
(*                                                                         *)
(* The compositor is external.  Pipe, reader thread, channel and forwarder *)
(* of one source are one FIFO queue; the two sources are in no order.      *)
(* What the handlers then do to scopes is module Governor.                 *)
(***************************************************************************)
EXTENDS Naturals, Sequences

CONSTANTS Windows,     \* window ids
          Apps,        \* app_ids
          SelfApp,     \* SELF_APP_ID, the GUI's own
          NoWindow, NoApp,
          FirstApps,   \* windows there may be when the daemon starts
          MaxActs,     \* bounds: what the user does,
          MaxLosses    \* streams and watchers that end

ASSUME FeedAssumption ==
    /\ SelfApp \in Apps /\ NoApp \notin Apps /\ NoWindow \notin Windows
    /\ FirstApps \subseteq [Windows -> Apps \cup {NoApp}]
    /\ {MaxActs, MaxLosses} \subseteq Nat

VARIABLES comp,    \* the compositor: app of each window, focus, clipboard owner
          stream,  \* "up", or how it went down: "ended" or "failed"
          events,  \* niri events on their way to the main loop
          watcher, \* "listening", "down", or "deaf" after Finished
          clips,   \* clipboard events on their way to the main loop
          daemon,  \* State: booted, windows, focused_id, clipboard_owner
          marked,  \* (history) lost the focus with no focus event: see Act
          taken,   \* (history) taken over by the GUI's app_id: see Act
          known,   \* (history) the last copy could be attributed: see Copy
          used     \* what of the bounds has been used

hist == <<marked, taken>>
vars == <<comp, stream, events, watcher, clips, daemon, hist, known, used>>

Closed == [app |-> NoApp, focused |-> FALSE]
Table  == [Windows -> [app : Apps \cup {NoApp}, focused : BOOLEAN]]

(* What niri reports of its windows; the daemon leaves out the GUI's own.  *)
Reported(c) ==
    [w \in Windows |-> IF c.app[w] = NoApp THEN Closed
                       ELSE [app |-> c.app[w], focused |-> c.focus = w]]
WithoutSelf(t) == [w \in Windows |-> IF t[w].app = SelfApp THEN Closed ELSE t[w]]

Spend(what) == used' = [used EXCEPT ![what] = @ + 1]

-----------------------------------------------------------------------------
(* The window table: apply_snapshot, upsert_window, forget_window,         *)
(* set_focus and recompute_focused.                                        *)

FocusedIn(t) == {w \in Windows : t[w].focused}

(* recompute_focused: the first focused window that the map yields.        *)
Recomputed(t) ==
    {[daemon EXCEPT !.windows = t, !.focused_id = w] :
        w \in IF FocusedIn(t) = {} THEN {NoWindow} ELSE FocusedIn(t)}

SnapshotUpserting(t) ==
    [w \in Windows |-> IF t[w].app = NoApp THEN daemon.windows[w] ELSE WithoutSelf(t)[w]]
SnapshotTable(t) == WithoutSelf(t)

SetFocus(id) ==
    [daemon EXCEPT !.windows = [w \in Windows |-> [@[w] EXCEPT !.focused = (w = id)]],
                   !.focused_id = id]

(* handle_niri_event                                                       *)
HandleNiri(ev) ==
    CASE ev.kind = "Snapshot" -> Recomputed(SnapshotTable(ev.table))
      [] ev.kind = "Upsert" /\ ev.window.app = SelfApp -> {daemon}
      [] ev.kind = "Upsert" /\ ev.window.app # SelfApp ->
            Recomputed([daemon.windows EXCEPT ![ev.id] = ev.window])
      [] ev.kind = "Closed" -> {[daemon EXCEPT !.windows[ev.id] = Closed]}
      [] ev.kind = "Focus" -> {SetFocus(ev.id)}
      [] ev.kind = "StreamLost" -> {daemon}

(* A closed window has no focus flag of its own.                           *)
FocusOpenOnly(d) ==
    [d EXCEPT !.windows = [w \in Windows |-> IF @[w].app = NoApp THEN Closed ELSE @[w]]]

(* handle_clipboard_event                                                  *)
HandleClipById(ev) ==
    [daemon EXCEPT !.clipboard_owner =
        IF ev = "Cleared" \/ daemon.focused_id = NoWindow THEN NoApp ELSE daemon.focused_id]
HandleClip(ev) ==
    [daemon EXCEPT !.clipboard_owner =
        IF ev = "Cleared" \/ daemon.focused_id = NoWindow THEN NoApp
        ELSE daemon.windows[daemon.focused_id].app]

TakeEvent ==
    /\ daemon.booted /\ events # <<>>
    /\ events' = Tail(events)
    /\ \E d \in HandleNiri(Head(events)) : daemon' = FocusOpenOnly(d)
    /\ UNCHANGED <<comp, stream, watcher, clips, hist, known, used>>

TakeClip ==
    /\ daemon.booted /\ clips # <<>>
    /\ clips' = Tail(clips)
    /\ daemon' = HandleClip(Head(clips))
    /\ UNCHANGED <<comp, stream, events, watcher, hist, known, used>>

(* The bootstrap fetch, after the stream's thread was started; it may fail. *)
Boot ==
    /\ ~daemon.booted
    /\ \/ \E d \in Recomputed(WithoutSelf(Reported(comp))) : daemon' = [d EXCEPT !.booted = TRUE]
       \/ daemon' = [daemon EXCEPT !.booted = TRUE]
    /\ UNCHANGED <<comp, stream, events, watcher, clips, hist, known, used>>

-----------------------------------------------------------------------------
(* niri.rs: run_one and its respawn.                                       *)

(* The stream ends cleanly or with an error; lines that were not read are  *)
(* lost with it.                                                           *)
EndStream ==
    /\ stream = "up" /\ used.losses < MaxLosses /\ Spend("losses")
    /\ stream' \in {"ended", "failed"}
    /\ \E n \in 0 .. Len(events) :
          events' = Append(SubSeq(events, 1, n), [kind |-> "StreamLost"])
    /\ UNCHANGED <<comp, watcher, clips, daemon, hist, known>>

RespawnsAfterError(why) == why = "failed"
Respawns(why) == why # "up"

(* After the backoff: a new stream begins with all windows.                *)
Reconnect ==
    /\ Respawns(stream)
    /\ stream' = "up"
    /\ events' = Append(events, [kind |-> "Snapshot", table |-> Reported(comp)])
    /\ marked' = {} /\ taken' = {}
    /\ UNCHANGED <<comp, watcher, clips, daemon, known, used>>

-----------------------------------------------------------------------------
(* clipboard.rs: run_one and its respawn.                                  *)

(* The connection fails, or the device is finished, which is only logged.  *)
EndWatch ==
    /\ watcher = "listening" /\ used.losses < MaxLosses /\ Spend("losses")
    /\ watcher' \in {"down", "deaf"}
    /\ UNCHANGED <<comp, stream, events, clips, daemon, hist, known>>

InitialReported == IF comp.owner = NoApp THEN <<"Cleared">> ELSE <<"OwnerChanged">>
InitialDropped == <<>>

(* After the backoff: the first selection describes what is there already. *)
Bind ==
    /\ watcher = "down" /\ watcher' = "listening"
    /\ clips' = clips \o InitialDropped
    /\ UNCHANGED <<comp, stream, events, daemon, hist, known, used>>

-----------------------------------------------------------------------------
(* The compositor and its user, external.  An event is written for every   *)
(* change while there is a stream.                                         *)

Settled == daemon.booted /\ stream = "up" /\ events = <<>> /\ clips = <<>>

Upsert(c, w) == [kind |-> "Upsert", id |-> w, window |-> Reported(c)[w]]
FocusOn(w) == [kind |-> "Focus", id |-> w]

(* The focus goes to w: an upsert that says w is focused means that all    *)
(* others lost the focus, with or without a focus event after it.          *)
FocusTold(c, w) == {<<FocusOn(w)>>} \cup IF w = NoWindow THEN {} ELSE {<<Upsert(c, w)>>}

FocusEventIn(evs) == \E i \in DOMAIN evs : evs[i].kind = "Focus"

(* Marked are the windows that lost the focus since the last focus event;  *)
(* taken the GUI's that were another app's.  A snapshot ends both.         *)
Act(c, evs) ==
    /\ used.acts < MaxActs /\ Spend("acts")
    /\ comp' = c
    /\ events' = IF stream = "up" THEN events \o evs ELSE events
    /\ marked' = IF FocusEventIn(evs) THEN {}
                 ELSE IF c.focus = comp.focus THEN marked
                 ELSE marked \cup ({comp.focus} \ {NoWindow})
    /\ taken' = {w \in Windows : /\ c.app[w] = SelfApp
                                /\ \/ w \in taken
                                   \/ comp.app[w] \notin {NoApp, SelfApp}}
    /\ UNCHANGED <<stream, watcher, daemon>>

(* A change of focus or windows before a copy was handled hides its owner. *)
Unnoticed == known' = (known /\ clips = <<>>) /\ UNCHANGED clips

(* A window opens, and takes the focus or not.                             *)
Open(w, a) ==
    /\ comp.app[w] = NoApp
    /\ \/ LET c == [comp EXCEPT !.app[w] = a, !.focus = w]
          IN  \E told \in {<<Upsert(c, w)>>, <<Upsert(c, w), FocusOn(w)>>} : Act(c, told)
       \/ LET c == [comp EXCEPT !.app[w] = a] IN Act(c, <<Upsert(c, w)>>)
    /\ Unnoticed

(* A window gets another app_id.                                           *)
Rename(w, a) ==
    /\ comp.app[w] \notin {NoApp, a}
    /\ LET c == [comp EXCEPT !.app[w] = a] IN Act(c, <<Upsert(c, w)>>)
    /\ Unnoticed

Close(w) ==
    /\ comp.app[w] # NoApp
    /\ LET gone == [kind |-> "Closed", id |-> w]
           c(next) == [comp EXCEPT !.app[w] = NoApp, !.focus = next]
       IN  \/ comp.focus # w /\ Act(c(comp.focus), <<gone>>)
           \/ /\ comp.focus = w
              /\ \E next \in {v \in Windows \ {w} : comp.app[v] # NoApp} \cup {NoWindow} :
                    \E told \in FocusTold(c(next), next) : Act(c(next), <<gone>> \o told)
    /\ Unnoticed

MoveFocus(w) ==
    /\ w # comp.focus /\ (w # NoWindow => comp.app[w] # NoApp)
    /\ LET c == [comp EXCEPT !.focus = w] IN \E told \in FocusTold(c, w) : Act(c, told)
    /\ Unnoticed

Reach(ev) == clips' = IF watcher = "listening" THEN Append(clips, ev) ELSE clips

(* The focused app copies.  It can be told who it was if the daemon has    *)
(* caught up, the last change of focus came with a focus event, the window *)
(* was not another app's before the GUI's, and nothing changes until the   *)
(* daemon looks.                                                           *)
Copy ==
    /\ comp.focus # NoWindow
    /\ Act([comp EXCEPT !.owner = comp.app[comp.focus]], <<>>)
    /\ Reach("OwnerChanged")
    /\ known' = (Settled /\ watcher = "listening" /\ marked = {} /\ comp.focus \notin taken)

Clear ==
    /\ comp.owner # NoApp
    /\ Act([comp EXCEPT !.owner = NoApp], <<>>)
    /\ Reach("Cleared")
    /\ known' = (watcher = "listening")

UserActs ==
    \/ \E w \in Windows : \/ Close(w) \/ MoveFocus(w)
                          \/ \E a \in Apps : Open(w, a) \/ Rename(w, a)
    \/ MoveFocus(NoWindow)
    \/ Copy \/ Clear

(* The daemon starts, for the first time or again, among any windows.      *)
Init ==
    /\ \E app \in FirstApps, focus \in Windows \cup {NoWindow} :
          /\ focus # NoWindow => app[focus] # NoApp
          /\ comp = [app |-> app, focus |-> focus, owner |-> NoApp]
    /\ stream = "ended" /\ events = <<>> /\ watcher = "down" /\ clips = <<>>
    /\ daemon = [booted |-> FALSE, windows |-> [w \in Windows |-> Closed],
                 focused_id |-> NoWindow, clipboard_owner |-> NoApp]
    /\ marked = {} /\ taken = {} /\ known = FALSE
    /\ used = [acts |-> 0, losses |-> 0]

Next ==
    \/ TakeEvent \/ TakeClip \/ Boot
    \/ EndStream \/ Reconnect \/ EndWatch \/ Bind
    \/ UserActs

Spec == Init /\ [][Next]_vars

(* Each thread goes on: the main loop takes what is in its queues, and the *)
(* two respawn loops never give up (their backoff is at most 30 s).        *)
Fairness == WF_vars(TakeEvent) /\ WF_vars(TakeClip) /\ WF_vars(Boot)
            /\ WF_vars(Reconnect) /\ WF_vars(Bind)

FairSpec == Spec /\ Fairness

-----------------------------------------------------------------------------
(* Every variable has its type, and the clipboard's owner is an app.        *)
TypeOK ==
    /\ comp \in [app : [Windows -> Apps \cup {NoApp}], focus : Windows \cup {NoWindow},
                 owner : Apps \cup {NoApp}]
    /\ stream \in {"up", "ended", "failed"} /\ watcher \in {"listening", "down", "deaf"}
    /\ \A i \in 1 .. Len(clips) : clips[i] \in {"OwnerChanged", "Cleared"}
    /\ daemon \in [booted : BOOLEAN, windows : Table, focused_id : Windows \cup {NoWindow},
                   clipboard_owner : Apps \cup {NoApp}]
    /\ marked \subseteq Windows /\ taken \subseteq Windows /\ known \in BOOLEAN

(* Once nothing is on its way the daemon's table has the compositor's      *)
(* windows, but for the GUI's own, and takes the focused one for focused:  *)
(* whatever the bootstrap fetch overtook, and whatever a dead stream       *)
(* swallowed.  Only a window that lost the focus by an upsert alone may    *)
(* count as focused beside it, until the next focus event, and be          *)
(* focused_id; and one taken over by the GUI's app_id keeps its old app    *)
(* (mod.rs:97-176, 738, niri.rs:86-132).                                   *)
TableFollows ==
    daemon.booted /\ stream = "up" /\ events = <<>>
        => LET seen == WithoutSelf(Reported(comp))
           IN  /\ \A w \in Windows \ taken :
                     /\ daemon.windows[w].app = seen[w].app
                     /\ seen[w].focused => daemon.windows[w].focused
               /\ \A w \in FocusedIn(daemon.windows) : w = comp.focus \/ w \in marked
               /\ marked = {} => FocusedIn(daemon.windows) \subseteq {daemon.focused_id}

(* A copy made when the daemon had caught up with the focus, by a focus    *)
(* event or a snapshot, and handled before the user did anything else, is  *)
(* attributed to the app that made it, and stays so across lost streams    *)
(* and watchers (mod.rs:709-727, clipboard.rs:146-151: the selection       *)
(* announced at a reconnection is nobody's copy).  After an upsert alone   *)
(* recompute_focused may choose the window that lost the focus.            *)
OwnerKnown ==
    known /\ clips = <<>>
        => daemon.clipboard_owner = IF comp.owner = SelfApp THEN NoApp ELSE comp.owner

(* Whenever the compositor leaves it alone, the daemon catches up.         *)
CatchesUp == []<>Settled
=============================================================================
