------------------------------ MODULE DeskProofs ------------------------------
(***************************************************************************)
(* Desk for any configurations, edits and bounds: TypeOK, TrayShowsDaemon, *)
(* NoLateRequest, NoEditLost, ActiveModeDefined, RenameKeepsProfiles, that *)
(* what was saved survives the daemon, and that the daemon with its queues *)
(* implements Settings (KeepsItsPromise).                                  *)
(***************************************************************************)
EXTENDS Desk, ConfigProofs, SequenceTheorems

LEMMA MapElim ==
    ASSUME NEW S, NEW T, NEW f \in PartialMaps(S, T)
    PROVE  DOMAIN f \subseteq S /\ f \in [DOMAIN f -> T]
BY DEF PartialMaps

LEMMA MapIntro ==
    ASSUME NEW S, NEW T, NEW D \in SUBSET S, NEW f \in [D -> T]
    PROVE  f \in PartialMaps(S, T)
BY DEF PartialMaps

(* What an edit of the draft may put into a field.                         *)
LEMMA ConfigExcept ==
    ASSUME NEW c \in Configs
    PROVE  /\ \A m \in ModeNames : [c EXCEPT !.active_mode = m] \in Configs
           /\ \A b \in BOOLEAN : [c EXCEPT !.disabled = b] \in Configs
           /\ \A r \in PartialMaps(Apps, AppRules) : [c EXCEPT !.apps = r] \in Configs
           /\ \A p \in PartialMaps(ModeNames, Profiles) : [c EXCEPT !.modes = p] \in Configs
BY DEF Configs

LEMMA ConfigParts ==
    ASSUME NEW c \in Configs
    PROVE  /\ c.active_mode \in ModeNames /\ c.disabled \in BOOLEAN
           /\ DOMAIN c.modes \subseteq ModeNames /\ c.modes \in [DOMAIN c.modes -> Profiles]
           /\ DOMAIN c.apps \subseteq Apps /\ c.apps \in [DOMAIN c.apps -> AppRules]
<1>1. /\ c.active_mode \in ModeNames /\ c.disabled \in BOOLEAN
      /\ c.modes \in PartialMaps(ModeNames, Profiles)
      /\ c.apps \in PartialMaps(Apps, AppRules)
  BY DEF Configs
<1>2. QED BY <1>1, MapElim

-----------------------------------------------------------------------------
(* The edits, one by one.                                                  *)

Defined(c) == c.active_mode \in DOMAIN c.modes

LEMMA RuleEdit ==
    ASSUME NEW c \in Configs, NEW a \in Apps, NEW r \in AppRules
    PROVE  /\ WithRule(c, a, r) \in Configs
           /\ Defined(c) => Defined(WithRule(c, a, r))
<1> DEFINE rules == IF r.override = "use_mode"
                    THEN [x \in DOMAIN c.apps \ {a} |-> c.apps[x]]
                    ELSE [x \in DOMAIN c.apps \cup {a} |-> IF x = a THEN r ELSE c.apps[x]]
<1>1. rules \in PartialMaps(Apps, AppRules)
  <2>1. CASE r.override = "use_mode"
    <3>1. rules \in [DOMAIN c.apps \ {a} -> AppRules]
      BY <2>1, ConfigParts
    <3>2. DOMAIN c.apps \ {a} \in SUBSET Apps
      BY ConfigParts
    <3>3. QED BY <3>1, <3>2, MapIntro
  <2>2. CASE r.override # "use_mode"
    <3>1. rules \in [DOMAIN c.apps \cup {a} -> AppRules]
      BY <2>2, ConfigParts
    <3>2. DOMAIN c.apps \cup {a} \in SUBSET Apps
      BY ConfigParts
    <3>3. QED BY <3>1, <3>2, MapIntro
  <2>3. QED BY <2>1, <2>2
<1> HIDE DEF rules
<1>2. WithRule(c, a, r) = [c EXCEPT !.apps = rules]
  BY DEF WithRule, rules
<1>3. QED BY <1>1, <1>2, ConfigExcept DEF Configs, Defined

LEMMA PresetEdit ==
    ASSUME NEW c \in Configs, NEW name \in ModeNames, NEW p \in Profiles
    PROVE  /\ WithPreset(c, name, p) \in Configs
           /\ Defined(c) => Defined(WithPreset(c, name, p))
<1> DEFINE D     == DOMAIN c.modes \cup {name}
           modes == [m \in D |-> IF m = name THEN p ELSE c.modes[m]]
<1>1. modes \in [D -> Profiles] /\ D \in SUBSET ModeNames
  BY ConfigParts
<1>2. DOMAIN modes = D
  OBVIOUS
<1> HIDE DEF modes
<1>3. modes \in PartialMaps(ModeNames, Profiles)
  BY <1>1, MapIntro
<1>4. WithPreset(c, name, p) = [c EXCEPT !.modes = modes]
  BY DEF WithPreset, modes
<1>5. QED BY <1>2, <1>3, <1>4, ConfigExcept DEF Configs, Defined

LEMMA RemoveEdit ==
    ASSUME NEW c \in Configs, NEW name \in DOMAIN c.modes, NEW first \in DOMAIN c.modes \ {name}
    PROVE  /\ Removed(c, name, first) \in Configs
           /\ Defined(c) => Defined(Removed(c, name, first))
<1> DEFINE D     == DOMAIN c.modes \ {name}
           modes == [m \in D |-> c.modes[m]]
           mode  == IF c.active_mode = name THEN first ELSE c.active_mode
<1>1. modes \in [D -> Profiles] /\ D \in SUBSET ModeNames /\ mode \in ModeNames
  BY ConfigParts
<1>2. DOMAIN modes = D
  OBVIOUS
<1>3. Defined(c) => mode \in D
  BY DEF Defined
<1> HIDE DEF modes, mode, D
<1>4. modes \in PartialMaps(ModeNames, Profiles)
  BY <1>1, MapIntro
<1>5. Removed(c, name, first) = [c EXCEPT !.modes = modes, !.active_mode = mode]
  BY DEF Removed, modes, mode, D, Configs
<1>6. QED BY <1>1, <1>2, <1>3, <1>4, <1>5 DEF Configs, Defined

(* The presets, the active mode and the rules of d, c after a renaming.    *)
RenamedTo(c, old, new, d) ==
    /\ DOMAIN d.modes = (DOMAIN c.modes \ {old}) \cup {new}
    /\ \A m \in DOMAIN d.modes : d.modes[m] = IF m = new THEN c.modes[old] ELSE c.modes[m]
    /\ d.active_mode = IF c.active_mode = old THEN new ELSE c.active_mode
    /\ DOMAIN d.apps = DOMAIN c.apps
    /\ \A a \in DOMAIN c.apps :
          d.apps[a] = IF c.apps[a] = [override |-> "profile", profile |-> old]
                      THEN [override |-> "profile", profile |-> new] ELSE c.apps[a]
    /\ d.manage_all = c.manage_all
    /\ d.hardcoded_exclude = c.hardcoded_exclude
    /\ d.disabled = c.disabled

LEMMA RenameEdit ==
    ASSUME NEW c \in Configs, NEW old \in DOMAIN c.modes, NEW new \in ModeNames \ DOMAIN c.modes
    PROVE  /\ Renamed(c, old, new) \in Configs
           /\ Defined(c) => Defined(Renamed(c, old, new))
           /\ RenamedTo(c, old, new, Renamed(c, old, new))
<1> DEFINE D     == (DOMAIN c.modes \ {old}) \cup {new}
           modes == [m \in D |-> IF m = new THEN c.modes[old] ELSE c.modes[m]]
           mode  == IF c.active_mode = old THEN new ELSE c.active_mode
           named == [override |-> "profile", profile |-> new]
           rules == [a \in DOMAIN c.apps |->
                        IF c.apps[a] = [override |-> "profile", profile |-> old]
                        THEN named ELSE c.apps[a]]
<1>1. modes \in [D -> Profiles] /\ D \in SUBSET ModeNames /\ mode \in ModeNames
  BY ConfigParts
<1>2. DOMAIN modes = D
  OBVIOUS
<1>3. Defined(c) => mode \in D
  BY DEF Defined
<1>4. named \in AppRules
  BY DEF AppRules
<1>5. rules \in [DOMAIN c.apps -> AppRules] /\ DOMAIN c.apps \in SUBSET Apps
  <2> HIDE DEF named
  <2>1. QED BY <1>4, ConfigParts
<1>6. Renamed(c, old, new) = [c EXCEPT !.modes = modes, !.active_mode = mode, !.apps = rules]
  BY DEF Renamed, Configs
<1> HIDE DEF modes, mode, D, rules
<1>7. modes \in PartialMaps(ModeNames, Profiles) /\ rules \in PartialMaps(Apps, AppRules)
  BY <1>1, <1>5, MapIntro
<1>8. /\ Renamed(c, old, new) \in Configs
      /\ Renamed(c, old, new).modes = modes /\ Renamed(c, old, new).active_mode = mode
      /\ Renamed(c, old, new).apps = rules
      /\ Renamed(c, old, new).manage_all = c.manage_all
      /\ Renamed(c, old, new).hardcoded_exclude = c.hardcoded_exclude
      /\ Renamed(c, old, new).disabled = c.disabled
  BY <1>1, <1>6, <1>7 DEF Configs
<1>9. Defined(c) => Defined(Renamed(c, old, new))
  BY <1>2, <1>3, <1>8 DEF Defined
<1>10. RenamedTo(c, old, new, Renamed(c, old, new))
  <2>1. \A m \in D : modes[m] = IF m = new THEN c.modes[old] ELSE c.modes[m]
    BY DEF modes
  <2>2. /\ DOMAIN rules = DOMAIN c.apps
        /\ \A a \in DOMAIN c.apps :
              rules[a] = IF c.apps[a] = [override |-> "profile", profile |-> old]
                         THEN [override |-> "profile", profile |-> new] ELSE c.apps[a]
    BY DEF rules
  <2>3. D = (DOMAIN c.modes \ {old}) \cup {new}
        /\ mode = IF c.active_mode = old THEN new ELSE c.active_mode
    BY DEF D, mode
  <2>4. QED BY <1>2, <1>8, <2>1, <2>2, <2>3, Zenon DEF RenamedTo
<1>11. QED BY <1>8, <1>9, <1>10

(* Whatever is edited stays a configuration, and its active mode defined.  *)
LEMMA EditsGood ==
    ASSUME NEW c \in Configs, NEW d \in EditResults(c)
    PROVE  d \in Configs /\ (Defined(c) => Defined(d))
<1>1. Throttles \subseteq Profiles /\ NewPreset \in Profiles /\ NewNames \subseteq ModeNames
  BY DeskAssumption DEF Profiles
<1>2. Listed(c) \subseteq DOMAIN c.modes /\ DOMAIN c.modes \subseteq ModeNames
  BY ConfigParts DEF Listed
<1>3. ASSUME NEW m \in DOMAIN c.modes, d = [c EXCEPT !.active_mode = m]
      PROVE  d \in Configs /\ Defined(d)
  BY <1>2, <1>3, ConfigExcept DEF Configs, Defined
<1> DEFINE byMode   == {[c EXCEPT !.active_mode = m] : m \in IF c.disabled THEN {} ELSE DOMAIN c.modes}
           words    == [override : {"use_mode", "exclude"}]
           here     == [override : {"profile"}, profile : DOMAIN c.modes]
           anywhere == [override : {"profile"}, profile : ModeNames]
           byRule   == {WithRule(c, a, r) : a \in Apps, r \in words \cup here}
           renames  == {Renamed(c, old, new) : old \in Listed(c), new \in ModeNames \ DOMAIN c.modes}
           removals == UNION {{Removed(c, name, first) : first \in DOMAIN c.modes \ {name}} :
                                 name \in Listed(c)}
           adds     == {WithPreset(c, name, NewPreset) : name \in NewNames \ DOMAIN c.modes}
           sets     == {WithPreset(c, name, p) : name \in Listed(c), p \in Throttles}
<1>4. d \in byMode \cup byRule \cup renames \cup removals \cup adds \cup sets
  <2>1. EditResults(c) = byMode \cup byRule \cup renames \cup removals \cup adds \cup sets
    BY DEF EditResults
  <2> HIDE DEF byMode, byRule, renames, removals, adds, sets
  <2>2. QED BY <2>1
<1>5. CASE d \in renames
  <2>1. PICK old \in Listed(c), new \in ModeNames \ DOMAIN c.modes : d = Renamed(c, old, new)
    BY <1>5
  <2>2. QED BY <1>2, <2>1, RenameEdit
<1>6. CASE d \in removals
  BY <1>2, <1>6, RemoveEdit
<1>7. CASE d \in adds \cup sets
  BY <1>1, <1>2, <1>7, PresetEdit
<1>8. CASE d \in byRule
  <2>1. here \subseteq anywhere
    BY <1>2
  <2>2. AppRules = words \cup anywhere
    BY DEF AppRules
  <2> HIDE DEF here, anywhere, words
  <2>3. PICK a \in Apps, r \in words \cup here : d = WithRule(c, a, r)
    BY <1>8
  <2>4. r \in AppRules
    BY <2>1, <2>2
  <2>5. QED BY <2>3, <2>4, RuleEdit
<1>9. CASE d \in byMode
  <2>1. PICK m \in IF c.disabled THEN {} ELSE DOMAIN c.modes : d = [c EXCEPT !.active_mode = m]
    BY <1>9
  <2>2. QED BY <1>3, <2>1
<1> HIDE DEF byMode, byRule, renames, removals, adds, sets
<1>10. QED BY <1>4, <1>5, <1>6, <1>7, <1>8, <1>9

-----------------------------------------------------------------------------
(* The actions in a form that is easier to use.                            *)

GuiType == [server : Configs \cup {NoState}, draft : Configs \cup {NoState},
            request : {Idle, "GetState", "SetConfig", "SetDisabled"}, answer : Answers,
            failed : BOOLEAN, unsaved : BOOLEAN]

Trays == [mode : ModeNames, modes : SUBSET ModeNames, disabled : BOOLEAN]

Queued == [req : Requests, waited : BOOLEAN]

UsedType == [{"edits", "clicks", "timeouts", "failures", "stops"} -> Nat]

LEMMA ShownType == ASSUME NEW c \in Configs PROVE Shown(c) \in Trays
BY ConfigParts DEF Shown, Trays

LEMMA SpendType ==
    ASSUME NEW what \in {"edits", "clicks", "timeouts", "failures", "stops"},
           used \in UsedType, Spend(what)
    PROVE  used' \in UsedType
BY DEF Spend, UsedType

LEMMA FaultType ==
    ASSUME NEW what \in {"edits", "clicks", "timeouts", "failures", "stops"}, NEW bound,
           used \in UsedType, Fault(what, bound)
    PROVE  used' \in UsedType
BY SpendType DEF Fault

LEMMA TrayResultType ==
    ASSUME NEW c \in Configs, NEW act \in TrayActions
    PROVE  TrayResult(c, act) \in Configs /\ (Defined(c) => Defined(TrayResult(c, act)))
<1>1. \/ act.kind = "SetMode" /\ act.mode \in ModeNames
      \/ act.kind = "SetDisabled" /\ act.disabled \in BOOLEAN
  BY DEF TrayActions
<1>2. CASE act.kind = "SetMode" /\ act.mode \in DOMAIN c.modes
  <2>1. TrayResult(c, act) = [c EXCEPT !.active_mode = act.mode]
    BY <1>2 DEF TrayResult
  <2>2. QED BY <1>1, <1>2, <2>1 DEF Configs, Defined
<1>3. CASE act.kind = "SetMode" /\ act.mode \notin DOMAIN c.modes
  BY <1>3 DEF TrayResult
<1>4. CASE act.kind = "SetDisabled"
  <2>1. TrayResult(c, act) = [c EXCEPT !.disabled = act.disabled]
    BY <1>4 DEF TrayResult
  <2>2. QED BY <1>1, <1>4, <2>1 DEF Configs, Defined
<1>5. QED BY <1>1, <1>2, <1>3, <1>4

(* A request means a configuration that is defined.                        *)
GoodRequest(req) == req.kind = "SetConfig" => Defined(req.config)

LEMMA IpcResultType ==
    ASSUME NEW c \in Configs, NEW req \in Requests
    PROVE  /\ IpcResult(c, req) \in Configs
           /\ Defined(c) /\ GoodRequest(req) => Defined(IpcResult(c, req))
<1>1. \/ req.kind = "GetState"
      \/ req.kind = "SetConfig" /\ req.config \in Configs
      \/ req.kind = "SetDisabled" /\ req.disabled \in BOOLEAN
  BY DEF Requests
<1>2. CASE req.kind = "SetDisabled"
  <2>1. IpcResult(c, req) = [c EXCEPT !.disabled = req.disabled]
    BY <1>2 DEF IpcResult
  <2>2. QED BY <1>1, <1>2, <2>1 DEF Configs, Defined
<1>3. CASE req.kind = "SetConfig"
  BY <1>1, <1>3 DEF IpcResult, GoodRequest
<1>4. CASE req.kind = "GetState"
  BY <1>4 DEF IpcResult
<1>5. QED BY <1>1, <1>2, <1>3, <1>4

LEMMA AnswerType == ASSUME NEW c \in Configs, NEW req PROVE Answer(c, req) \in Answers
BY DEF Answer, Answers

(* What the queue of requests holds after its head was handled.            *)
LEMMA IpcTail ==
    ASSUME NEW S, NEW q \in Seq(S), q # <<>>
    PROVE  /\ [i \in 1 .. Len(q) - 1 |-> IF i < NextRequest THEN q[i] ELSE q[i + 1]] = Tail(q)
           /\ q[NextRequest] = Head(q) /\ q[NextRequest] \in S
<1> DEFINE rest == [i \in 1 .. Len(q) - 1 |-> IF i < NextRequest THEN q[i] ELSE q[i + 1]]
<1>1. rest = [i \in 1 .. Len(q) - 1 |-> q[i + 1]]
  BY DEF NextRequest
<1>2. Len(q) - 1 \in Nat /\ \A i \in 1 .. Len(q) - 1 : q[i + 1] \in S
  OBVIOUS
<1>3. rest \in Seq(S) /\ Len(rest) = Len(q) - 1
  BY <1>1, <1>2
<1>4. Tail(q) \in Seq(S) /\ Len(Tail(q)) = Len(q) - 1
  OBVIOUS
<1>5. \A i \in 1 .. Len(q) - 1 : rest[i] = q[i + 1] /\ Tail(q)[i] = q[i + 1]
  BY <1>1
<1>6. q[NextRequest] = Head(q) /\ q[NextRequest] \in S
  BY DEF NextRequest
<1> HIDE DEF rest
<1>7. rest = Tail(q)
  BY <1>3, <1>4, <1>5, SeqEqual
<1>8. QED BY <1>6, <1>7 DEF rest

LEMMA TailType ==
    ASSUME NEW S, NEW q \in Seq(S), q # <<>>
    PROVE  /\ Tail(q) \in Seq(S) /\ Head(q) \in S /\ Head(q) = q[1] /\ Len(Tail(q)) = Len(q) - 1
           /\ \A i \in 1 .. Len(q) - 1 : Tail(q)[i] = q[i + 1]
OBVIOUS

LEMMA AppendType ==
    ASSUME NEW S, NEW q \in Seq(S), NEW x \in S
    PROVE  /\ Append(q, x) \in Seq(S) /\ Len(Append(q, x)) = Len(q) + 1
           /\ Append(q, x)[Len(q) + 1] = x
           /\ \A i \in 1 .. Len(q) : Append(q, x)[i] = q[i]
OBVIOUS

-----------------------------------------------------------------------------

LEMMA TypeParts ==
    TypeOK <=> /\ loop \in {"recv", "save", "push", "down"}
               /\ config \in Configs /\ file \in Configs \cup {Unparsable}
               /\ sound \in BOOLEAN /\ owed \in BOOLEAN
               /\ loop # "down" => tray \in Trays
               /\ ipcQ \in Seq(Queued)
               /\ trayQ \in Seq(TrayActions)
               /\ gui \in GuiType
               /\ gui.draft = NoState <=> gui.server = NoState
               /\ used \in UsedType
BY DEF TypeOK, Trays, Queued, GuiType, UsedType

(* The fields of the GUI.                                                  *)
LEMMA GuiParts ==
    ASSUME gui \in GuiType
    PROVE  /\ gui.server \in Configs \cup {NoState} /\ gui.draft \in Configs \cup {NoState}
           /\ gui.request \in {Idle, "GetState", "SetConfig", "SetDisabled"}
           /\ gui.answer \in Answers /\ gui.failed \in BOOLEAN /\ gui.unsaved \in BOOLEAN
BY DEF GuiType

LEMMA AnswerKinds ==
    ASSUME NEW answer \in Answers
    PROVE  \/ answer.kind \in {"none", "Error", "Ok"}
           \/ answer.kind = "State" /\ answer.config \in Configs
BY DEF Answers

(* A request leaves with the copies g, or fails at once.                   *)
LEMMA SendType ==
    ASSUME TypeOK, NEW req \in Requests, NEW g \in GuiType, Send(req, g)
    PROVE  gui' \in GuiType /\ gui'.draft = g.draft /\ gui'.server = g.server /\ ipcQ' \in Seq(Queued)
<1>1. req.kind \in {"GetState", "SetConfig", "SetDisabled"}
  BY DEF Requests
<1>2. NoAnswer \in Answers
  BY DEF NoAnswer, Answers
<1>3. [req |-> req, waited |-> TRUE] \in Queued
  BY DEF Queued
<1>4. CASE loop = "down"
  BY <1>4 DEF Send, GuiType, TypeOK, Queued
<1>5. CASE loop # "down"
  <2>1. /\ gui' = [g EXCEPT !.request = req.kind, !.answer = NoAnswer]
        /\ ipcQ' = Append(ipcQ, [req |-> req, waited |-> TRUE])
    BY <1>5 DEF Send
  <2>2. ipcQ' \in Seq(Queued)
    BY <1>3, <2>1, AppendType, TypeParts
  <2>3. QED BY <1>1, <1>2, <2>1, <2>2 DEF GuiType
<1>6. QED BY <1>4, <1>5

LEMMA DeskTypeStep == ASSUME TypeOK, [Next]_vars PROVE TypeOK'
<1> USE TypeParts
<1> DEFINE TypeThen ==
             /\ loop' \in {"recv", "save", "push", "down"}
             /\ config' \in Configs /\ file' \in Configs \cup {Unparsable}
             /\ sound' \in BOOLEAN /\ owed' \in BOOLEAN
             /\ loop' # "down" => tray' \in Trays
             /\ ipcQ' \in Seq(Queued)
             /\ trayQ' \in Seq(TrayActions)
             /\ gui' \in GuiType
             /\ gui'.draft = NoState <=> gui'.server = NoState
             /\ used' \in UsedType
<1>a. TypeThen => TypeOK'
  BY DEF TypeOK, Trays, Queued, GuiType, UsedType
<1>b. Torn => file' \in Configs \cup {Unparsable} /\ sound' \in BOOLEAN
  BY DEF Torn
<1>1. CASE HandleTray
  <2>1. Head(trayQ) \in TrayActions /\ trayQ' \in Seq(TrayActions)
    BY <1>1, TailType DEF HandleTray
  <2>2. config' \in Configs
    BY <1>1, <2>1, TrayResultType DEF HandleTray
  <2>3. loop' \in {"save", "push"}
    BY <1>1 DEF HandleTray, Afterwards
  <2>4. QED BY <1>1, <1>a, <2>1, <2>2, <2>3 DEF HandleTray
<1>2. CASE HandleIpc
  <2> DEFINE m == ipcQ[NextRequest]
  <2>1. m \in Queued /\ ipcQ' \in Seq(Queued)
    BY <1>2, IpcTail, TailType DEF HandleIpc
  <2>2. m.req \in Requests
    BY <2>1 DEF Queued
  <2> HIDE DEF m
  <2>3. config' \in Configs
    BY <1>2, <2>2, IpcResultType DEF HandleIpc, m
  <2>4. gui' \in GuiType /\ gui'.draft = gui.draft /\ gui'.server = gui.server
    <3>1. Answer(config, m.req) \in Answers
      BY AnswerType
    <3>2. gui' = gui \/ gui' = [gui EXCEPT !.answer = Answer(config, m.req)]
      BY <1>2 DEF HandleIpc, m
    <3>3. QED BY <3>1, <3>2 DEF GuiType
  <2>5. loop' \in {"recv", "save", "push"} /\ UNCHANGED <<file, sound, tray, trayQ, used>>
    BY <1>2 DEF HandleIpc, Afterwards
  <2>6. loop # "down"
    BY <1>2 DEF HandleIpc
  <2>7. owed' \in BOOLEAN
    BY <1>2 DEF HandleIpc
  <2>8. QED BY <1>a, <2>1, <2>3, <2>4, <2>5, <2>6, <2>7
<1>3. CASE PushTray
  BY <1>3, <1>a, ShownType DEF PushTray
<1>4. CASE StartDaemon
  <2>1. config' \in Configs
    BY <1>4, LoadType DEF StartDaemon, Files
  <2>2. tray' \in Trays
    BY <1>4, <2>1, ShownType DEF StartDaemon
  <2>3. QED BY <1>4, <1>a, <2>1, <2>2 DEF StartDaemon
<1>5. CASE StopDaemon
  <2>1. Refused \in Answers
    BY DEF Refused, Answers
  <2>2. gui' \in GuiType /\ gui'.draft = gui.draft /\ gui'.server = gui.server
    BY <1>5, <2>1 DEF StopDaemon, GuiType
  <2>3. used' \in UsedType
    BY <1>5, FaultType DEF StopDaemon
  <2>4. ipcQ' \in Seq(Queued) /\ trayQ' \in Seq(TrayActions)
    BY <1>5 DEF StopDaemon
  <2>5. file' \in Configs \cup {Unparsable} /\ sound' \in BOOLEAN
    BY <1>5, <1>b DEF StopDaemon
  <2>6. QED BY <1>5, <1>a, <2>2, <2>3, <2>4, <2>5 DEF StopDaemon
<1>6. ASSUME NEW act \in TrayActions, NEW shown \in Trays, ClickTray(act, shown) PROVE TypeOK'
  BY <1>6, <1>a, AppendType, SpendType DEF ClickTray, daemonVars
<1>7. CASE TrayMode
  <2>1. PICK m \in tray.modes :
               ClickTray([kind |-> "SetMode", mode |-> m], [tray EXCEPT !.mode = m])
    BY <1>7 DEF TrayMode
  <2>2. tray \in Trays
    BY <2>1 DEF ClickTray
  <2>3. [tray EXCEPT !.mode = m] \in Trays /\ m \in ModeNames
    BY <2>2 DEF Trays
  <2>4. [kind |-> "SetMode", mode |-> m] \in TrayActions
    BY <2>3 DEF TrayActions
  <2>5. QED BY <1>6, <2>1, <2>3, <2>4
<1>8. CASE TrayToggle
  <2>1. tray \in Trays
    BY <1>8 DEF TrayToggle, ClickTray
  <2> DEFINE off == ~tray.disabled
  <2>2. ClickTray([kind |-> "SetDisabled", disabled |-> off], [tray EXCEPT !.disabled = off])
    BY <1>8 DEF TrayToggle
  <2>3. off \in BOOLEAN
    OBVIOUS
  <2> HIDE DEF off
  <2>4. [tray EXCEPT !.disabled = off] \in Trays
    BY <2>1, <2>3 DEF Trays
  <2>5. [kind |-> "SetDisabled", disabled |-> off] \in TrayActions
    BY <2>3 DEF TrayActions
  <2>6. QED BY <1>6, <2>2, <2>4, <2>5
<1>9. CASE Poll
  <2>1. [kind |-> "GetState"] \in Requests
    BY DEF Requests
  <2>2. QED BY <1>9, <1>a, <2>1, SendType DEF Poll, daemonVars
<1>10. CASE ReceiveAnswer
  <2> DEFINE done == [gui EXCEPT !.request = Idle, !.answer = NoAnswer, !.failed = FALSE]
  <2>1. NoAnswer \in Answers
    BY DEF NoAnswer, Answers
  <2>2. done \in GuiType /\ done.draft = gui.draft /\ done.server = gui.server
    BY <2>1 DEF GuiType
  <2> HIDE DEF done
  <2>3. \/ gui.answer.kind \in {"none", "Error", "Ok"}
        \/ gui.answer.kind = "State" /\ gui.answer.config \in Configs
    <3>1. gui.answer \in Answers
      BY GuiParts
    <3>2. QED BY <3>1, AnswerKinds, Zenon
  <2>4. gui' \in GuiType /\ (gui'.draft = NoState <=> gui'.server = NoState)
    <3>1. CASE gui.answer.kind = "Error"
      <4>1. gui' = [done EXCEPT !.failed = TRUE]
        BY <1>10, <3>1 DEF ReceiveAnswer, done
      <4>2. QED BY <2>2, <4>1 DEF GuiType
    <3>2. CASE gui.answer.kind = "Ok"
      <4>1. gui' = [done EXCEPT !.unsaved = FALSE] \/ gui' = done
        BY <1>10, <3>2 DEF ReceiveAnswer, done
      <4>2. QED BY <2>2, <4>1 DEF GuiType
    <3>3. CASE gui.answer.kind = "State" /\ gui.answer.config \in Configs
      <4> DEFINE st == gui.answer.config
      <4>1. gui' = [Polled(done, st) EXCEPT !.unsaved = Unsaved(st)]
        BY <1>10, <3>3 DEF ReceiveAnswer, done
      <4>2. Unsaved(st) \in BOOLEAN
        BY GuiParts DEF Unsaved
      <4>3. st # NoState /\ st \in Configs
        BY <3>3, DeskAssumption
      <4> HIDE DEF st
      <4>4. Polled(done, st) \in GuiType /\ Polled(done, st).server = st
            /\ Polled(done, st).draft = IF IsDirty THEN done.draft ELSE st
        BY <2>2, <4>3 DEF Polled, GuiType
      <4>5. gui' \in GuiType /\ gui'.server = st /\ gui'.draft = IF IsDirty THEN gui.draft ELSE st
        BY <2>2, <4>1, <4>2, <4>4 DEF GuiType
      <4>6. QED BY <4>3, <4>5 DEF IsDirty
    <3>4. QED BY <1>10, <2>3, <3>1, <3>2, <3>3 DEF ReceiveAnswer
  <2>5. QED BY <1>10, <1>a, <2>4 DEF ReceiveAnswer, daemonVars
<1>11. CASE TimeOut
  <2>1. ipcQ' \in Seq(Queued)
    <3>1. \A i \in DOMAIN ipcQ : [ipcQ[i] EXCEPT !.waited = FALSE] \in Queued
      <4>1. \A m \in Queued : [m EXCEPT !.waited = FALSE] \in Queued
        BY DEF Queued
      <4>2. \A i \in DOMAIN ipcQ : ipcQ[i] \in Queued
        OBVIOUS
      <4>3. QED BY <4>1, <4>2
    <3>2. ipcQ' = [i \in 1 .. Len(ipcQ) |-> [ipcQ[i] EXCEPT !.waited = FALSE]] /\ Len(ipcQ) \in Nat
      BY <1>11 DEF TimeOut
    <3>3. QED BY <3>1, <3>2
  <2>2. gui' \in GuiType /\ gui'.draft = gui.draft /\ gui'.server = gui.server
    BY <1>11 DEF TimeOut, GuiType
  <2>3. used' \in UsedType
    BY <1>11, FaultType DEF TimeOut
  <2>4. QED BY <1>11, <1>a, <2>1, <2>2, <2>3 DEF TimeOut, daemonVars
<1>12. CASE Apply
  <2>1. gui.draft \in Configs
    BY <1>12, GuiParts DEF Apply, IsDirty
  <2>2. [kind |-> "SetConfig", config |-> gui.draft] \in Requests
    BY <2>1 DEF Requests
  <2>3. used' \in UsedType
    BY <1>12, SpendType DEF Apply
  <2>4. QED BY <1>12, <1>a, <2>2, <2>3, SendType DEF Apply, daemonVars
<1>13. CASE Discard
  <2>1. gui' \in GuiType /\ gui'.draft = gui.server /\ gui'.server = gui.server
    BY <1>13 DEF Discard, GuiType
  <2>2. QED BY <1>13, <1>a, <2>1 DEF Discard, daemonVars
<1>14. CASE ClickKillSwitch
  <2> DEFINE new    == gui.draft = NoState \/ ~gui.draft.disabled
             Set(c) == IF c = NoState THEN c ELSE [c EXCEPT !.disabled = new]
             left   == gui.unsaved /\ Set(gui.draft) # Set(gui.server)
             g      == [gui EXCEPT !.draft = Set(gui.draft), !.server = Set(gui.server),
                                   !.unsaved = left]
  <2>1. Send([kind |-> "SetDisabled", disabled |-> new], g)
    BY <1>14 DEF ClickKillSwitch
  <2>2. new \in BOOLEAN /\ left \in BOOLEAN
    BY GuiParts
  <2>3. [kind |-> "SetDisabled", disabled |-> new] \in Requests
    BY <2>2 DEF Requests
  <2> HIDE DEF new, left
  <2>4. \A c \in Configs : Set(c) \in Configs /\ Set(c) # NoState
    BY <2>2, ConfigExcept, DeskAssumption
  <2>5. Set(NoState) = NoState
    OBVIOUS
  <2> HIDE DEF Set
  <2>6. /\ Set(gui.draft) \in Configs \cup {NoState} /\ Set(gui.server) \in Configs \cup {NoState}
        /\ Set(gui.draft) = NoState <=> Set(gui.server) = NoState
    BY <2>4, <2>5, GuiParts
  <2>7. g \in GuiType /\ g.draft = Set(gui.draft) /\ g.server = Set(gui.server)
    BY <2>2, <2>6 DEF GuiType
  <2> HIDE DEF g
  <2>8. used' \in UsedType
    BY <1>14, SpendType DEF ClickKillSwitch
  <2>9. gui' \in GuiType /\ (gui'.draft = NoState <=> gui'.server = NoState) /\ ipcQ' \in Seq(Queued)
    BY <2>1, <2>3, <2>6, <2>7, SendType
  <2>10. QED BY <1>14, <1>a, <2>8, <2>9 DEF ClickKillSwitch, daemonVars
<1>15. CASE Edit
  <2>1. PICK c \in EditResults(gui.draft) :
               gui' = [gui EXCEPT !.draft = c, !.unsaved = c # gui.server]
    BY <1>15 DEF Edit
  <2>2. gui.draft \in Configs /\ gui.server # NoState
    BY <1>15, GuiParts DEF Edit
  <2>3. c \in Configs /\ c # NoState
    BY <2>2, EditsGood, DeskAssumption
  <2>4. gui' \in GuiType /\ gui'.draft = c /\ gui'.server = gui.server
    BY <2>1, <2>3 DEF GuiType
  <2>5. used' \in UsedType
    BY <1>15, SpendType DEF Edit
  <2>6. QED BY <1>15, <1>a, <2>2, <2>3, <2>4, <2>5 DEF Edit, daemonVars
<1>16. CASE UNCHANGED vars
  BY <1>16, <1>a DEF vars, daemonVars
<1>17. CASE Saved
  <2>1. [kind |-> "Ok"] \in Answers
    BY DEF Answers
  <2>2. gui' \in GuiType /\ gui'.draft = gui.draft /\ gui'.server = gui.server
    BY <1>17, <2>1 DEF Saved, GuiType
  <2>3. /\ file' \in Configs \cup {Unparsable} /\ sound' \in BOOLEAN
        /\ used' \in UsedType
    BY <1>17, <1>b, FaultType DEF Saved, Written
  <2>4. QED BY <1>17, <1>a, <2>2, <2>3 DEF Saved, Afterwards
<1>18. QED
  BY <1>1, <1>2, <1>3, <1>4, <1>5, <1>7, <1>8, <1>9, <1>10, <1>11, <1>12, <1>13, <1>14, <1>15,
     <1>16, <1>17
  DEF Next, Daemon, User

(* Every copy of the configuration is one, whatever is edited, refused,    *)
(* timed out or loaded.                                                    *)
THEOREM DeskTypeCorrect == Spec => []TypeOK
<1>1. Init => TypeOK
  <2> SUFFICES ASSUME Init PROVE TypeOK
    OBVIOUS
  <2>1. config \in Configs /\ file \in Configs
    BY DeskAssumption DEF Init
  <2>2. tray \in Trays
    BY <2>1, ShownType DEF Init
  <2>3. NoAnswer \in Answers
    BY DEF NoAnswer, Answers
  <2>4. gui \in GuiType /\ gui.draft = gui.server
    BY <2>3 DEF Init, GuiType
  <2>5. used \in UsedType
    BY DEF Init, UsedType
  <2>6. ipcQ \in Seq(Queued) /\ trayQ \in Seq(TrayActions)
    BY DEF Init
  <2>7. loop = "recv" /\ sound \in BOOLEAN /\ owed \in BOOLEAN
    BY DEF Init
  <2>8. QED BY <2>1, <2>2, <2>4, <2>5, <2>6, <2>7, TypeParts
<1>2. TypeOK /\ [Next]_vars => TypeOK'
  BY DeskTypeStep
<1>3. QED BY <1>1, <1>2, PTL DEF Spec

-----------------------------------------------------------------------------
(* The tray, and the file.                                                 *)

(* The tray shows what is in force as soon as its last action is handled,  *)
(* one that meant a mode removed meanwhile included.                       *)
THEOREM TrayCatchesUp == Spec => []TrayShowsDaemon
<1>1. Init => TrayShowsDaemon
  BY DEF Init, TrayShowsDaemon
<1>2. ASSUME TypeOK, TrayShowsDaemon, [Next]_vars PROVE TrayShowsDaemon'
  <2>1. CASE TrayMode \/ TrayToggle
    <3>1. PICK act, shown : ClickTray(act, shown)
      BY <2>1 DEF TrayMode, TrayToggle
    <3>2. trayQ' # <<>>
      BY <3>1 DEF ClickTray, TypeOK
    <3>3. QED BY <3>2 DEF TrayShowsDaemon
  <2>2. CASE HandleTray \/ Saved \/ PushTray \/ StartDaemon \/ StopDaemon
    BY <2>2
    DEF HandleTray, Saved, Afterwards, PushTray, StartDaemon, StopDaemon, TrayShowsDaemon
  <2>3. CASE HandleIpc
    <3> DEFINE req == ipcQ[NextRequest].req
    <3>1. /\ config' = IpcResult(config, req)
          /\ req.kind = "GetState" \/ loop' \in {"save", "push"}
          /\ loop = "recv" /\ UNCHANGED <<tray, trayQ>>
      BY <2>3 DEF HandleIpc, Afterwards
    <3>2. req.kind = "GetState" => config' = config
      BY <3>1 DEF IpcResult
    <3>3. QED BY <1>2, <3>1, <3>2 DEF TrayShowsDaemon, Shown
  <2>4. CASE Poll \/ ReceiveAnswer \/ TimeOut \/ Apply \/ Discard \/ ClickKillSwitch \/ Edit
             \/ UNCHANGED vars
    <3>1. UNCHANGED <<loop, config, tray, trayQ>>
      BY <2>4
      DEF Poll, ReceiveAnswer, TimeOut, Apply, Discard, ClickKillSwitch, Edit, vars, daemonVars
    <3>2. QED BY <1>2, <3>1 DEF TrayShowsDaemon, Shown
  <2>5. QED BY <1>2, <2>1, <2>2, <2>3, <2>4 DEF Next, Daemon, User
<1>3. TypeOK /\ TrayShowsDaemon /\ [Next]_vars => TrayShowsDaemon'
  BY <1>2
<1>4. QED BY <1>1, <1>3, DeskTypeCorrect, PTL DEF Spec

(* What ends without an error is what a new daemon starts from.            *)
StoredInv == sound /\ loop # "save" => file = config

(* A handler that does not save leaves the configuration as it is.         *)
LEMMA UnsavedIsUnchanged ==
    ASSUME NEW c \in Configs
    PROVE  /\ \A act \in TrayActions : ~TraySaves(c, act) => TrayResult(c, act) = c
           /\ \A req \in Requests : ~IpcSaves(c, req) => IpcResult(c, req) = c
<1>1. [c EXCEPT !.disabled = c.disabled] = c
  BY DEF Configs
<1>2. ASSUME NEW act \in TrayActions, ~TraySaves(c, act) PROVE TrayResult(c, act) = c
  <2>1. act.kind = "SetMode" \/ act.kind = "SetDisabled"
    BY DEF TrayActions
  <2>2. QED BY <1>1, <1>2, <2>1 DEF TraySaves, TrayResult
<1>3. ASSUME NEW req \in Requests, ~IpcSaves(c, req) PROVE IpcResult(c, req) = c
  <2>1. req.kind \in {"GetState", "SetConfig", "SetDisabled"}
    BY DEF Requests
  <2>2. QED BY <1>1, <1>3, <2>1 DEF IpcSaves, IpcResult
<1>4. QED BY <1>2, <1>3

LEMMA StoredStep == ASSUME TypeOK, StoredInv, [Next]_vars PROVE StoredInv'
<1> USE TypeParts
<1>1. CASE StartDaemon
  <2>1. file = config => LoadOrDefault(file) = config
    BY ConfigAssumption DEF LoadOrDefault
  <2>2. QED BY <1>1, <2>1 DEF StartDaemon, StoredInv
<1>2. CASE StopDaemon
  BY <1>2 DEF StopDaemon, Torn, StoredInv
<1>3. CASE Saved
  BY <1>3 DEF Saved, Written, Torn, StoredInv
<1>4. CASE HandleTray
  <2>1. Head(trayQ) \in TrayActions
    BY <1>4, TailType DEF HandleTray
  <2>2. loop' = "save" \/ config' = config
    BY <1>4, <2>1, UnsavedIsUnchanged DEF HandleTray
  <2>3. QED BY <1>4, <2>2 DEF HandleTray, StoredInv
<1>5. CASE HandleIpc
  <2> DEFINE m == ipcQ[NextRequest]
  <2>1. m \in Queued
    BY <1>5, IpcTail DEF HandleIpc
  <2>2. m.req \in Requests
    BY <2>1 DEF Queued
  <2> HIDE DEF m
  <2>3. config' = IpcResult(config, m.req) /\ (IpcSaves(config, m.req) => loop' = "save")
    BY <1>5 DEF HandleIpc, m
  <2>4. loop' = "save" \/ config' = config
    BY <2>2, <2>3, UnsavedIsUnchanged
  <2>5. QED BY <1>5, <2>4 DEF HandleIpc, StoredInv
<1>6. CASE PushTray
  BY <1>6 DEF PushTray, StoredInv
<1>7. CASE \/ TrayMode \/ TrayToggle \/ Poll \/ ReceiveAnswer \/ TimeOut \/ Apply \/ Discard
           \/ ClickKillSwitch \/ Edit \/ UNCHANGED vars
  <2>1. UNCHANGED daemonVars
    BY <1>7
    DEF TrayMode, TrayToggle, ClickTray, Poll, ReceiveAnswer, TimeOut, Apply, Discard,
        ClickKillSwitch, Edit, vars
  <2>2. QED BY <2>1 DEF daemonVars, StoredInv
<1>8. QED
  BY <1>1, <1>2, <1>3, <1>4, <1>5, <1>6, <1>7 DEF Next, Daemon, User

(* Once a save has ended without an error, and until the next one, a new   *)
(* daemon comes up with the configuration in force, at whatever moment     *)
(* this one is killed: only a save that failed or was cut short loses it   *)
(* (mod.rs:645-680, 765-812, config.rs:131-162).                           *)
THEOREM SavedSurvives == Spec => [](sound /\ loop # "save" => LoadOrDefault(file) = config)
<1>1. Init => StoredInv
  BY DEF Init, StoredInv
<1>2. TypeOK /\ StoredInv /\ [Next]_vars => StoredInv'
  BY StoredStep
<1>3. TypeOK /\ StoredInv => (sound /\ loop # "save" => LoadOrDefault(file) = config)
  BY TypeParts, ConfigAssumption DEF StoredInv, LoadOrDefault
<1>4. QED BY <1>1, <1>2, <1>3, DeskTypeCorrect, PTL DEF Spec

-----------------------------------------------------------------------------
(* What the steps of the GUI change, field by field.                       *)

LEMMA SendEffect ==
    ASSUME NEW req, NEW g \in GuiType, Send(req, g)
    PROVE  /\ gui'.draft = g.draft /\ gui'.server = g.server /\ gui'.unsaved = g.unsaved
           /\ \/ /\ loop = "down" /\ ipcQ' = ipcQ /\ gui'.failed = TRUE
                 /\ gui'.request = g.request /\ gui'.answer = g.answer
              \/ /\ loop # "down" /\ ipcQ' = Append(ipcQ, [req |-> req, waited |-> TRUE])
                 /\ gui'.request = req.kind /\ gui'.answer.kind = "none"
                 /\ gui'.failed = g.failed
<1>1. CASE loop = "down"
  BY <1>1 DEF Send, GuiType
<1>2. CASE loop # "down"
  <2>1. /\ gui' = [g EXCEPT !.request = req.kind, !.answer = NoAnswer]
        /\ ipcQ' = Append(ipcQ, [req |-> req, waited |-> TRUE])
    BY <1>2 DEF Send
  <2>2. /\ gui'.draft = g.draft /\ gui'.server = g.server /\ gui'.unsaved = g.unsaved
        /\ gui'.failed = g.failed /\ gui'.request = req.kind /\ gui'.answer = NoAnswer
    BY <2>1 DEF GuiType
  <2>3. NoAnswer.kind = "none"
    BY DEF NoAnswer
  <2>4. QED BY <1>2, <2>1, <2>2, <2>3
<1>3. QED BY <1>1, <1>2

LEMMA ReceiveEffect ==
    ASSUME TypeOK, ReceiveAnswer
    PROVE  /\ gui'.request = Idle /\ gui'.answer.kind = "none"
           /\ gui'.failed = (gui.answer.kind = "Error")
           /\ UNCHANGED <<ipcQ, owed, config, file, used>>
           /\ \/ /\ gui'.draft = gui.draft /\ gui'.server = gui.server
                 /\ gui'.unsaved \in {gui.unsaved, FALSE}
              \/ /\ gui.answer.kind = "State" /\ gui.answer.config \in Configs
                 /\ gui'.server = gui.answer.config
                 /\ gui'.draft = IF IsDirty THEN gui.draft ELSE gui.answer.config
                 /\ gui'.unsaved = Unsaved(gui.answer.config)
<1> DEFINE done == [gui EXCEPT !.request = Idle, !.answer = NoAnswer, !.failed = FALSE]
<1>1. gui \in GuiType
  BY TypeParts
<1>2. /\ \/ gui.answer.kind \in {"none", "Error", "Ok"}
         \/ gui.answer.kind = "State" /\ gui.answer.config \in Configs
      /\ gui.answer.kind # "none"
  <2>1. gui.answer \in Answers
    BY <1>1, GuiParts
  <2>2. gui.answer.kind # "none"
    BY DEF ReceiveAnswer
  <2>3. QED BY <2>1, <2>2, AnswerKinds, Zenon
<1>3. /\ done.draft = gui.draft /\ done.server = gui.server /\ done.unsaved = gui.unsaved
      /\ done.request = Idle /\ done.answer.kind = "none" /\ done.failed = FALSE
      /\ done \in [server : Configs \cup {NoState}, draft : Configs \cup {NoState},
                   request : {Idle, "GetState", "SetConfig", "SetDisabled"},
                   answer : {NoAnswer}, failed : BOOLEAN, unsaved : BOOLEAN]
  BY <1>1 DEF GuiType, NoAnswer
<1>4. UNCHANGED <<ipcQ, owed, config, file, used>>
  BY DEF ReceiveAnswer, daemonVars
<1>5. CASE gui.answer.kind = "Error"
  <2>1. gui' = [done EXCEPT !.failed = TRUE]
    BY <1>5 DEF ReceiveAnswer
  <2> HIDE DEF done
  <2>2. /\ gui'.draft = done.draft /\ gui'.server = done.server /\ gui'.unsaved = done.unsaved
        /\ gui'.request = done.request /\ gui'.answer = done.answer /\ gui'.failed = TRUE
    BY <1>3, <2>1
  <2>3. QED BY <1>3, <1>4, <1>5, <2>2
<1>6. CASE gui.answer.kind = "Ok"
  <2>1. gui' = [done EXCEPT !.unsaved = FALSE] \/ gui' = done
    BY <1>6 DEF ReceiveAnswer
  <2> HIDE DEF done
  <2>2. /\ gui'.draft = done.draft /\ gui'.server = done.server
        /\ gui'.unsaved \in {done.unsaved, FALSE}
        /\ gui'.request = done.request /\ gui'.answer = done.answer /\ gui'.failed = done.failed
    BY <1>3, <2>1
  <2>3. QED BY <1>3, <1>4, <1>6, <2>2
<1>7. CASE gui.answer.kind = "State" /\ gui.answer.config \in Configs
  <2> DEFINE st == gui.answer.config
             un == Unsaved(st)
  <2>1. gui' = [Polled(done, st) EXCEPT !.unsaved = un]
    BY <1>7 DEF ReceiveAnswer
  <2> HIDE DEF done, un
  <2>2. gui' = [[done EXCEPT !.server = st, !.draft = IF IsDirty THEN done.draft ELSE st]
                  EXCEPT !.unsaved = un]
    BY <2>1 DEF Polled
  <2>3. /\ gui'.server = st /\ gui'.draft = IF IsDirty THEN done.draft ELSE st
        /\ gui'.unsaved = un /\ gui'.request = done.request /\ gui'.answer = done.answer
        /\ gui'.failed = done.failed
    BY <1>3, <2>2
  <2>4. QED BY <1>3, <1>4, <1>7, <2>3 DEF un
<1>8. QED BY <1>2, <1>5, <1>6, <1>7

(* The kill switch sends from copies that differ where they did before, or *)
(* do not differ any more.                                                 *)
LEMMA KillSwitchEffect ==
    ASSUME TypeOK, ClickKillSwitch
    PROVE  \E g \in GuiType, new \in BOOLEAN :
             /\ Send([kind |-> "SetDisabled", disabled |-> new], g)
             /\ g.request = Idle /\ g.failed = gui.failed /\ g.answer = gui.answer
             /\ g.unsaved => g.draft # g.server
             /\ g.draft \in {gui.draft, [gui.draft EXCEPT !.disabled = new]}
             /\ g.server \in {gui.server, [gui.server EXCEPT !.disabled = new]}
             /\ g.draft = NoState <=> gui.draft = NoState
             /\ g.server = NoState <=> gui.server = NoState
<1> DEFINE new    == gui.draft = NoState \/ ~gui.draft.disabled
           Set(c) == IF c = NoState THEN c ELSE [c EXCEPT !.disabled = new]
           left   == gui.unsaved /\ Set(gui.draft) # Set(gui.server)
           g      == [gui EXCEPT !.draft = Set(gui.draft), !.server = Set(gui.server),
                                 !.unsaved = left]
<1>1. Send([kind |-> "SetDisabled", disabled |-> new], g) /\ gui.request = Idle
  BY DEF ClickKillSwitch
<1>2. gui \in GuiType
  BY TypeParts
<1>3. new \in BOOLEAN /\ left \in BOOLEAN
  BY <1>2, GuiParts
<1>4. left => Set(gui.draft) # Set(gui.server)
  OBVIOUS
<1>5. \A c : Set(c) \in {c, [c EXCEPT !.disabled = new]}
  OBVIOUS
<1> HIDE DEF new, left
<1>6. \A c \in Configs : Set(c) \in Configs /\ Set(c) # NoState /\ c # NoState
  BY <1>3, ConfigExcept, DeskAssumption
<1>7. Set(NoState) = NoState
  OBVIOUS
<1> HIDE DEF Set
<1>8. /\ Set(gui.draft) \in Configs \cup {NoState} /\ Set(gui.server) \in Configs \cup {NoState}
      /\ Set(gui.draft) = NoState <=> gui.draft = NoState
      /\ Set(gui.server) = NoState <=> gui.server = NoState
  BY <1>2, <1>6, <1>7, GuiParts
<1>9. /\ g \in GuiType /\ g.draft = Set(gui.draft) /\ g.server = Set(gui.server)
      /\ g.unsaved = left /\ g.request = gui.request /\ g.failed = gui.failed
      /\ g.answer = gui.answer
  BY <1>2, <1>3, <1>8 DEF GuiType
<1> HIDE DEF g
<1> USE <1>3, <1>9
<1>10. WITNESS g \in GuiType, new \in BOOLEAN
<1>11. QED BY <1>1, <1>4, <1>5, <1>8, <1>9

-----------------------------------------------------------------------------
(* Requests that come late.                                                *)

(* The GUI waits for at most one request, the last one it sent, and only   *)
(* while that one is queued or being saved; what it was told has left the  *)
(* queue.                                                                  *)
QueueInv ==
    /\ gui.request = Idle => ~owed /\ \A i \in 1 .. Len(ipcQ) : ~ipcQ[i].waited
    /\ gui.request # Idle /\ gui.answer.kind = "none" /\ owed => ipcQ = <<>>
    /\ gui.request # Idle /\ gui.answer.kind = "none" /\ ~owed =>
          ipcQ # <<>> /\ \A i \in 1 .. Len(ipcQ) : ipcQ[i].waited <=> i = Len(ipcQ)
    /\ gui.request # Idle /\ gui.answer.kind # "none" => ~owed /\ ipcQ = <<>>
    /\ NoLateRequest

(* One more request, from a GUI that waited for none.                      *)
LEMMA SendQueue ==
    ASSUME TypeOK, QueueInv, NEW req \in Requests, NEW g \in GuiType, Send(req, g),
           gui.request = Idle, g.request = Idle, g.failed = gui.failed, owed' = owed
    PROVE  QueueInv'
<1>1. ~owed /\ \A i \in 1 .. Len(ipcQ) : ~ipcQ[i].waited
  BY DEF QueueInv
<1>2. CASE loop = "down"
  BY <1>1, <1>2, SendEffect DEF QueueInv, NoLateRequest
<1>3. CASE loop # "down"
  <2>1. /\ ipcQ' = Append(ipcQ, [req |-> req, waited |-> TRUE])
        /\ gui'.request = req.kind /\ gui'.answer.kind = "none"
    BY <1>3, SendEffect
  <2>2. req.kind # Idle
    BY DEF Requests, Idle
  <2>3. [req |-> req, waited |-> TRUE] \in Queued /\ ipcQ \in Seq(Queued)
    BY TypeParts DEF Queued
  <2> DEFINE m == [req |-> req, waited |-> TRUE]
  <2>4. m.waited = TRUE
    OBVIOUS
  <2> HIDE DEF m
  <2>5. /\ Len(ipcQ') = Len(ipcQ) + 1 /\ ipcQ'[Len(ipcQ) + 1] = m /\ ipcQ' # <<>>
        /\ \A i \in 1 .. Len(ipcQ) : ipcQ'[i] = ipcQ[i]
    BY <2>1, <2>3, AppendType DEF m
  <2>6. Len(ipcQ) \in Nat
    BY <2>3
  <2>7. \A i \in 1 .. Len(ipcQ') : ipcQ'[i].waited <=> i = Len(ipcQ')
    <3>1. TAKE i \in 1 .. Len(ipcQ')
    <3>2. CASE i = Len(ipcQ) + 1
      BY <2>4, <2>5, <3>2
    <3>3. CASE i # Len(ipcQ) + 1
      <4>1. i \in 1 .. Len(ipcQ)
        BY <2>5, <2>6, <3>3
      <4>2. ipcQ[i].waited \in BOOLEAN
        <5>1. ipcQ[i] \in Queued
          BY <2>3, <4>1
        <5>2. QED BY <5>1 DEF Queued
      <4>3. QED BY <1>1, <2>5, <3>3, <4>1, <4>2
    <3>4. QED BY <3>2, <3>3
  <2>8. QED BY <1>1, <2>1, <2>2, <2>5, <2>7 DEF QueueInv, NoLateRequest
<1>4. QED BY <1>2, <1>3

LEMMA QueueStep == ASSUME TypeOK, QueueInv, [Next]_vars PROVE QueueInv'
<1>1. CASE HandleIpc
  <2> DEFINE m == ipcQ[NextRequest]
  <2>1. /\ ipcQ # <<>> /\ ipcQ \in Seq(Queued)
        /\ ipcQ' = [i \in 1 .. Len(ipcQ) - 1 |-> IF i < NextRequest THEN ipcQ[i] ELSE ipcQ[i + 1]]
    BY <1>1, TypeParts DEF HandleIpc
  <2>2. /\ ipcQ' = Tail(ipcQ) /\ m \in Queued /\ m = ipcQ[1]
    BY <2>1, IpcTail DEF NextRequest
  <2>3. /\ Len(ipcQ) \in Nat \ {0} /\ Len(ipcQ') = Len(ipcQ) - 1
        /\ \A i \in 1 .. Len(ipcQ') : ipcQ'[i] = ipcQ[i + 1]
    BY <2>1, <2>2
  <2>4. CASE m.waited
    <3>1. Len(ipcQ) = 1 /\ gui.request # Idle /\ gui.answer.kind = "none"
      <4>1. ipcQ[1].waited /\ 1 \in 1 .. Len(ipcQ)
        BY <2>2, <2>3, <2>4
      <4>2. QED BY <2>1, <2>3, <4>1 DEF QueueInv
    <3>2. ipcQ' = <<>>
      BY <2>1, <2>2, <2>3, <3>1
    <3>3. CASE IpcSaves(config, m.req)
      <4>1. gui' = gui /\ owed' = TRUE
        BY <1>1, <2>4, <3>3 DEF HandleIpc
      <4>2. QED BY <3>1, <3>2, <4>1 DEF QueueInv, NoLateRequest
    <3>4. CASE ~IpcSaves(config, m.req)
      <4>1. gui' = [gui EXCEPT !.answer = Answer(config, m.req)] /\ owed' = FALSE
        BY <1>1, <2>4, <3>4 DEF HandleIpc
      <4>2. gui'.request = gui.request /\ gui'.answer = Answer(config, m.req)
        <5>1. gui \in GuiType
          BY TypeParts
        <5> HIDE DEF m
        <5>2. QED BY <4>1, <5>1 DEF GuiType
      <4>3. Answer(config, m.req).kind # "none"
        BY DEF Answer
      <4>4. QED BY <3>1, <3>2, <4>1, <4>2, <4>3 DEF QueueInv, NoLateRequest
    <3>5. QED BY <3>3, <3>4
  <2>5. CASE ~m.waited
    <3>1. gui' = gui /\ owed' = FALSE
      BY <1>1, <2>5 DEF HandleIpc
    <3>2. gui.request = Idle => \A i \in 1 .. Len(ipcQ') : ~ipcQ'[i].waited
      BY <2>3 DEF QueueInv
    <3>3. ~owed /\ gui.request # Idle /\ gui.answer.kind = "none" =>
            ipcQ' # <<>> /\ \A i \in 1 .. Len(ipcQ') : ipcQ'[i].waited <=> i = Len(ipcQ')
      <4>1. SUFFICES ASSUME ~owed, gui.request # Idle, gui.answer.kind = "none"
                     PROVE  /\ ipcQ' # <<>>
                            /\ \A i \in 1 .. Len(ipcQ') : ipcQ'[i].waited <=> i = Len(ipcQ')
        OBVIOUS
      <4>2. \A i \in 1 .. Len(ipcQ) : ipcQ[i].waited <=> i = Len(ipcQ)
        BY <4>1 DEF QueueInv
      <4>3. Len(ipcQ) # 1
        <5>1. ~ipcQ[1].waited /\ 1 \in 1 .. Len(ipcQ)
          BY <2>2, <2>3, <2>5
        <5>2. QED BY <4>2, <5>1
      <4>4. ipcQ' # <<>>
        BY <2>3, <4>3
      <4>5. ASSUME NEW i \in 1 .. Len(ipcQ') PROVE ipcQ'[i].waited <=> i = Len(ipcQ')
        <5>1. i + 1 \in 1 .. Len(ipcQ) /\ (i = Len(ipcQ') <=> i + 1 = Len(ipcQ))
          BY <2>3
        <5>2. ipcQ'[i] = ipcQ[i + 1]
          BY <2>3
        <5>3. QED BY <4>2, <5>1, <5>2
      <4>6. QED BY <4>4, <4>5
    <3>4. ipcQ = <<>> => ipcQ' = <<>>
      BY <2>1
    <3>5. QED BY <2>1, <3>1, <3>2, <3>3, <3>4 DEF QueueInv, NoLateRequest
  <2>6. QED BY <2>4, <2>5
<1>2. CASE StopDaemon
  <2>1. ipcQ' = <<>> /\ owed' = FALSE
    BY <1>2 DEF StopDaemon
  <2>2. \/ gui' = gui /\ ~(gui.request # Idle /\ gui.answer.kind = "none")
        \/ gui'.request # Idle /\ gui'.answer.kind # "none"
    <3>1. Refused.kind # "none"
      BY DEF Refused
    <3>2. gui \in GuiType
      BY TypeParts
    <3>3. CASE gui.request # Idle /\ gui.answer.kind = "none"
      <4>1. gui' = [gui EXCEPT !.answer = Refused]
        BY <1>2, <3>3 DEF StopDaemon
      <4>2. gui'.request = gui.request /\ gui'.answer = Refused
        BY <3>2, <4>1 DEF GuiType
      <4>3. QED BY <3>1, <3>3, <4>2
    <3>4. QED BY <1>2, <3>3 DEF StopDaemon
  <2>3. QED BY <2>1, <2>2 DEF QueueInv, NoLateRequest
<1>3. CASE TimeOut
  <2>1. gui'.request = Idle /\ gui'.failed = TRUE /\ owed' = FALSE
    <3>1. gui \in GuiType
      BY TypeParts
    <3>2. QED BY <1>3, <3>1 DEF TimeOut, GuiType
  <2>2. \A i \in 1 .. Len(ipcQ') : ~ipcQ'[i].waited
    <3>1. /\ ipcQ \in Seq(Queued)
          /\ ipcQ' = [i \in 1 .. Len(ipcQ) |-> [ipcQ[i] EXCEPT !.waited = FALSE]]
      BY <1>3, TypeParts DEF TimeOut
    <3>2. \A q \in Queued : ~[q EXCEPT !.waited = FALSE].waited
      BY DEF Queued
    <3>3. Len(ipcQ') = Len(ipcQ)
      BY <3>1
    <3>4. QED BY <3>1, <3>2, <3>3
  <2>3. QED BY <2>1, <2>2 DEF QueueInv, NoLateRequest
<1>4. CASE ReceiveAnswer
  <2>1. ipcQ = <<>> /\ ~owed
    BY <1>4 DEF ReceiveAnswer, QueueInv
  <2>2. ipcQ' = ipcQ /\ owed' = owed /\ gui'.request = Idle
    BY <1>4, ReceiveEffect
  <2>3. QED BY <2>1, <2>2 DEF QueueInv, NoLateRequest
<1>5. CASE Poll
  <2>1. [kind |-> "GetState"] \in Requests
    BY DEF Requests
  <2>2. QED BY <1>5, <2>1, SendQueue, TypeParts DEF Poll
<1>6. CASE Apply
  <2>1. gui \in GuiType
    BY TypeParts
  <2>2. gui.draft \in Configs
    BY <1>6, <2>1, GuiParts, TypeParts DEF Apply, IsDirty
  <2>3. [kind |-> "SetConfig", config |-> gui.draft] \in Requests
    BY <2>2 DEF Requests
  <2>4. QED BY <1>6, <2>1, <2>3, SendQueue DEF Apply
<1>7. CASE ClickKillSwitch
  <2>1. PICK g \in GuiType, new \in BOOLEAN :
               /\ Send([kind |-> "SetDisabled", disabled |-> new], g)
               /\ g.request = Idle /\ g.failed = gui.failed
    BY <1>7, KillSwitchEffect
  <2>2. [kind |-> "SetDisabled", disabled |-> new] \in Requests
    BY DEF Requests
  <2>3. gui.request = Idle /\ owed' = owed
    BY <1>7 DEF ClickKillSwitch
  <2>4. QED BY <2>1, <2>2, <2>3, SendQueue
<1>8. CASE Edit \/ Discard
  <2>1. gui \in GuiType
    BY TypeParts
  <2>2. PICK draft, unsaved : gui' = [gui EXCEPT !.draft = draft, !.unsaved = unsaved]
    BY <1>8 DEF Edit, Discard
  <2>3. gui'.request = gui.request /\ gui'.answer = gui.answer /\ gui'.failed = gui.failed
    BY <2>1, <2>2 DEF GuiType
  <2>4. ipcQ' = ipcQ /\ owed' = owed
    BY <1>8 DEF Edit, Discard
  <2>5. QED BY <2>3, <2>4 DEF QueueInv, NoLateRequest
<1>9. CASE HandleTray \/ PushTray \/ StartDaemon \/ TrayMode \/ TrayToggle \/ UNCHANGED vars
  <2>1. UNCHANGED <<ipcQ, gui, owed>>
    BY <1>9 DEF HandleTray, PushTray, StartDaemon, TrayMode, TrayToggle, ClickTray, vars
  <2>2. QED BY <2>1 DEF QueueInv, NoLateRequest
<1>10. CASE Saved
  <2>1. ipcQ' = ipcQ /\ owed' = FALSE
    BY <1>10 DEF Saved
  <2>2. CASE owed
    <3>1. gui.request # Idle
      BY <2>2 DEF QueueInv
    <3>2. gui'.request = gui.request /\ gui'.answer.kind # "none"
      BY <1>10, <2>2, TypeParts DEF Saved, GuiType
    <3>3. ipcQ = <<>>
      BY <2>2, <3>1 DEF QueueInv
    <3>4. QED BY <2>1, <3>1, <3>2, <3>3 DEF QueueInv, NoLateRequest
  <2>3. CASE ~owed
    <3>1. gui' = gui
      BY <1>10, <2>3 DEF Saved
    <3>2. QED BY <2>1, <2>3, <3>1 DEF QueueInv, NoLateRequest
  <2>4. QED BY <2>2, <2>3
<1>11. QED
  BY <1>1, <1>2, <1>3, <1>4, <1>5, <1>6, <1>7, <1>8, <1>9, <1>10 DEF Next, Daemon, User

(* A request the GUI gave up on is handled before any later one, so that   *)
(* none is left over when the GUI reports no error.                        *)
THEOREM NothingComesLate == Spec => []NoLateRequest
<1>1. Init => QueueInv
  BY DEF Init, QueueInv, NoLateRequest
<1>2. TypeOK /\ QueueInv /\ [Next]_vars => QueueInv'
  BY QueueStep
<1>3. QueueInv => NoLateRequest
  BY DEF QueueInv
<1>4. QED BY <1>1, <1>2, <1>3, DeskTypeCorrect, PTL DEF Spec

-----------------------------------------------------------------------------
(* The copies of the GUI.                                                  *)

(* The steps that leave the copies as they are.                            *)
Leaving == \/ HandleTray \/ HandleIpc \/ Saved \/ PushTray \/ StartDaemon \/ StopDaemon
           \/ TrayMode \/ TrayToggle \/ Poll \/ TimeOut \/ Apply \/ UNCHANGED vars

LEMMA CopiesKept ==
    ASSUME TypeOK, Leaving
    PROVE  gui'.draft = gui.draft /\ gui'.server = gui.server /\ gui'.unsaved = gui.unsaved
<1>1. gui \in GuiType
  BY TypeParts
<1>2. CASE HandleIpc
  <2>1. \/ gui' = gui
        \/ \E x : gui' = [gui EXCEPT !.answer = x]
    BY <1>2 DEF HandleIpc
  <2>2. QED BY <1>1, <2>1 DEF GuiType
<1>3. CASE StopDaemon \/ Saved
  BY <1>1, <1>3 DEF StopDaemon, Saved, GuiType
<1>4. CASE Poll
  BY <1>1, <1>4, SendEffect DEF Poll
<1>5. CASE Apply
  BY <1>1, <1>5, SendEffect DEF Apply
<1>6. CASE TimeOut
  BY <1>1, <1>6 DEF TimeOut, GuiType
<1>7. CASE HandleTray \/ PushTray \/ StartDaemon \/ TrayMode \/ TrayToggle \/ UNCHANGED vars
  BY <1>7 DEF HandleTray, PushTray, StartDaemon, TrayMode, TrayToggle, ClickTray, vars
<1>8. QED BY <1>2, <1>3, <1>4, <1>5, <1>6, <1>7 DEF Leaving

(* Edits that are not in force make the draft differ from what the daemon  *)
(* last said.                                                              *)
EditsInv == gui.unsaved => gui.draft # gui.server

LEMMA EditsStep ==
    ASSUME TypeOK, EditsInv, [Next]_vars
    PROVE  /\ EditsInv'
           /\ gui.unsaved /\ gui'.unsaved /\ gui'.draft # gui.draft => used'.edits > used.edits
<1>1. gui \in GuiType /\ used.edits \in Nat
  BY TypeParts DEF UsedType
<1>2. CASE Leaving
  BY <1>2, CopiesKept DEF EditsInv
<1>3. CASE ReceiveAnswer
  <2>1. CASE gui'.draft = gui.draft /\ gui'.server = gui.server /\ gui'.unsaved \in {gui.unsaved, FALSE}
    BY <2>1 DEF EditsInv
  <2>2. CASE /\ gui'.server = gui.answer.config
             /\ gui'.draft = IF IsDirty THEN gui.draft ELSE gui.answer.config
             /\ gui'.unsaved = Unsaved(gui.answer.config)
    <3>1. gui'.unsaved => gui.unsaved /\ gui.draft # gui.answer.config
      BY <2>2 DEF Unsaved
    <3>2. gui.unsaved => IsDirty
      BY TypeParts DEF EditsInv, IsDirty
    <3>3. QED BY <2>2, <3>1, <3>2 DEF EditsInv
  <2>3. QED BY <1>3, <2>1, <2>2, ReceiveEffect
<1>4. CASE Discard
  <2>1. gui'.unsaved = FALSE
    BY <1>1, <1>4 DEF Discard, GuiType
  <2>2. QED BY <2>1 DEF EditsInv
<1>5. CASE ClickKillSwitch
  <2>1. PICK g \in GuiType, new \in BOOLEAN :
               /\ Send([kind |-> "SetDisabled", disabled |-> new], g)
               /\ g.unsaved => g.draft # g.server
    BY <1>5, KillSwitchEffect
  <2>2. gui'.draft = g.draft /\ gui'.server = g.server /\ gui'.unsaved = g.unsaved
    BY <2>1, SendEffect
  <2>3. used'.edits = used.edits + 1
    BY <1>5, TypeParts DEF ClickKillSwitch, Spend, UsedType
  <2>4. QED BY <1>1, <2>1, <2>2, <2>3 DEF EditsInv
<1>6. CASE Edit
  <2>1. PICK c : gui' = [gui EXCEPT !.draft = c, !.unsaved = c # gui.server]
    BY <1>6 DEF Edit
  <2>2. gui'.draft = c /\ gui'.server = gui.server /\ (gui'.unsaved => c # gui.server)
    BY <1>1, <2>1 DEF GuiType
  <2>3. used'.edits = used.edits + 1
    BY <1>6, TypeParts DEF Edit, Spend, UsedType
  <2>4. QED BY <1>1, <2>2, <2>3 DEF EditsInv
<1>7. QED BY <1>2, <1>3, <1>4, <1>5, <1>6 DEF Next, Daemon, User, Leaving

(* A poll, a timeout, a restart or a refused request never takes an edit   *)
(* that is not in force out of the draft.                                  *)
THEOREM EditsAreKept == Spec => NoEditLost
<1>1. Init => EditsInv
  BY DEF Init, EditsInv
<1>2. TypeOK /\ EditsInv /\ [Next]_vars => EditsInv'
  BY EditsStep
<1>3. TypeOK /\ EditsInv /\ [Next]_vars =>
        [gui.unsaved /\ gui'.unsaved /\ gui'.draft # gui.draft => used'.edits > used.edits]_vars
  BY EditsStep
<1>4. QED BY <1>1, <1>2, <1>3, DeskTypeCorrect, PTL DEF Spec, NoEditLost

(* Wherever a configuration is kept or on its way, its active mode is one  *)
(* of its presets.                                                         *)
AllDefined ==
    /\ Defined(config) /\ Defined(LoadOrDefault(file))
    /\ \A i \in 1 .. Len(ipcQ) : GoodRequest(ipcQ[i].req)
    /\ gui.answer.kind = "State" => Defined(gui.answer.config)
    /\ gui.draft # NoState => Defined(gui.draft)
    /\ gui.server # NoState => Defined(gui.server)

LEMMA SendDefined ==
    ASSUME TypeOK, AllDefined, NEW req \in Requests, GoodRequest(req), NEW g \in GuiType,
           Send(req, g), g.answer = gui.answer, UNCHANGED <<config, file>>,
           g.draft # NoState => Defined(g.draft), g.server # NoState => Defined(g.server)
    PROVE  AllDefined'
<1>1. \A i \in 1 .. Len(ipcQ') : GoodRequest(ipcQ'[i].req)
  <2>1. CASE ipcQ' = ipcQ
    BY <2>1 DEF AllDefined
  <2> DEFINE m == [req |-> req, waited |-> TRUE]
  <2>2. CASE ipcQ' = Append(ipcQ, m)
    <3>1. m.req = req /\ m \in Queued /\ ipcQ \in Seq(Queued)
      BY TypeParts DEF Queued
    <3> HIDE DEF m
    <3>2. /\ Len(ipcQ') = Len(ipcQ) + 1 /\ ipcQ'[Len(ipcQ) + 1] = m
          /\ \A i \in 1 .. Len(ipcQ) : ipcQ'[i] = ipcQ[i]
      BY <2>2, <3>1, AppendType
    <3>3. Len(ipcQ) \in Nat
      BY <3>1
    <3>4. TAKE i \in 1 .. Len(ipcQ')
    <3>5. i \in 1 .. Len(ipcQ) \/ i = Len(ipcQ) + 1
      BY <3>2, <3>3
    <3>6. QED BY <3>1, <3>2, <3>5 DEF AllDefined
  <2>3. QED BY <2>1, <2>2, SendEffect
<1>2. /\ gui'.draft # NoState => Defined(gui'.draft)
      /\ gui'.server # NoState => Defined(gui'.server)
  BY SendEffect
<1>3. gui'.answer.kind = "State" => Defined(gui'.answer.config)
  BY SendEffect DEF AllDefined
<1>4. Defined(config') /\ Defined(LoadOrDefault(file'))
  BY DEF AllDefined
<1>5. QED BY <1>1, <1>2, <1>3, <1>4 DEF AllDefined, Defined, LoadOrDefault

(* A save that failed or was cut short leaves what was stored, or nothing. *)
LEMMA TornLoads ==
    ASSUME Torn
    PROVE  LoadOrDefault(file') \in {LoadOrDefault(file), DefaultConfig}
BY DEF Torn, LoadOrDefault

LEMMA DefaultDefined == Defined(DefaultConfig)
BY DEF Defined, DefaultConfig

LEMMA DefinedStep == ASSUME TypeOK, AllDefined, [Next]_vars PROVE AllDefined'
<1> USE DEF Defined
<1>1. gui \in GuiType /\ config \in Configs /\ ipcQ \in Seq(Queued) /\ trayQ \in Seq(TrayActions)
  BY TypeParts
<1>2. \A m \in Queued : m.req \in Requests
  BY DEF Queued
<1>3. CASE HandleTray
  <2>1. Head(trayQ) \in TrayActions
    BY <1>1, <1>3, TailType DEF HandleTray
  <2>2. Defined(config')
    BY <1>1, <1>3, <2>1, TrayResultType DEF HandleTray, AllDefined
  <2>3. UNCHANGED <<file, ipcQ, gui>>
    BY <1>3 DEF HandleTray
  <2>4. QED BY <2>2, <2>3 DEF AllDefined
<1>4. CASE HandleIpc
  <2> DEFINE m == ipcQ[NextRequest]
  <2>1. ipcQ' = Tail(ipcQ) /\ ipcQ # <<>> /\ m \in Queued /\ m = ipcQ[1]
    BY <1>1, <1>4, IpcTail DEF HandleIpc, NextRequest
  <2>2. GoodRequest(m.req) /\ m.req \in Requests
    BY <1>1, <1>2, <2>1 DEF AllDefined
  <2> HIDE DEF m
  <2>3. config' = IpcResult(config, m.req) /\ file' = file
    BY <1>4 DEF HandleIpc, m
  <2>4. Defined(config')
    BY <1>1, <2>2, <2>3, IpcResultType DEF AllDefined
  <2>5. \A i \in 1 .. Len(ipcQ') : GoodRequest(ipcQ'[i].req)
    <3>1. \A i \in 1 .. Len(ipcQ') : i + 1 \in 1 .. Len(ipcQ) /\ ipcQ'[i] = ipcQ[i + 1]
      BY <1>1, <2>1
    <3>2. QED BY <3>1 DEF AllDefined
  <2>6. gui' = gui \/ gui' = [gui EXCEPT !.answer = Answer(config, m.req)]
    BY <1>4 DEF HandleIpc, m
  <2>7. gui'.answer = gui.answer \/ gui'.answer = Answer(config, m.req)
    BY <1>1, <2>6 DEF GuiType
  <2>8. Answer(config, m.req).kind = "State" => Answer(config, m.req).config = config
    BY DEF Answer
  <2>9. gui'.draft = gui.draft /\ gui'.server = gui.server
    BY <1>4, CopiesKept DEF Leaving
  <2>10. gui'.answer.kind = "State" => Defined(gui'.answer.config)
    BY <2>7, <2>8 DEF AllDefined
  <2>11. QED BY <2>3, <2>4, <2>5, <2>9, <2>10 DEF AllDefined
<1>5. CASE StartDaemon
  <2>1. config' = LoadOrDefault(file) /\ UNCHANGED <<file, ipcQ, gui>>
    BY <1>5 DEF StartDaemon
  <2>2. QED BY <2>1 DEF AllDefined
<1>6. CASE StopDaemon
  <2>1. ipcQ' = <<>> /\ config' = config /\ Defined(LoadOrDefault(file'))
    <3>1. ipcQ' = <<>> /\ config' = config /\ (file' = file \/ Torn)
      BY <1>6 DEF StopDaemon
    <3> HIDE DEF Defined
    <3>2. QED BY <3>1, TornLoads, DefaultDefined DEF AllDefined
  <2>2. gui'.draft = gui.draft /\ gui'.server = gui.server
    BY <1>6, CopiesKept DEF Leaving
  <2>3. gui'.answer \in {gui.answer, Refused}
    BY <1>1, <1>6 DEF StopDaemon, GuiType
  <2>4. Refused.kind # "State"
    BY DEF Refused
  <2>5. QED BY <2>1, <2>2, <2>3, <2>4 DEF AllDefined
<1>7. CASE TimeOut
  <2>1. /\ ipcQ' = [i \in 1 .. Len(ipcQ) |-> [ipcQ[i] EXCEPT !.waited = FALSE]]
        /\ UNCHANGED <<config, file>>
    BY <1>1, <1>7 DEF TimeOut, daemonVars
  <2>2. gui'.draft = gui.draft /\ gui'.server = gui.server
    BY <1>7, CopiesKept DEF Leaving
  <2>3. gui'.answer = gui.answer
    BY <1>1, <1>7 DEF TimeOut, GuiType
  <2>4. \A q \in Queued : [q EXCEPT !.waited = FALSE].req = q.req
    BY DEF Queued
  <2>5. Len(ipcQ') = Len(ipcQ) /\ \A i \in 1 .. Len(ipcQ) : ipcQ'[i].req = ipcQ[i].req
    <3>1. \A i \in 1 .. Len(ipcQ) : ipcQ[i] \in Queued
      BY <1>1
    <3>2. \A i \in 1 .. Len(ipcQ) : ipcQ'[i] = [ipcQ[i] EXCEPT !.waited = FALSE]
      BY <2>1
    <3>3. Len(ipcQ') = Len(ipcQ)
      BY <1>1, <2>1
    <3>4. QED BY <2>4, <3>1, <3>2, <3>3
  <2>6. \A i \in 1 .. Len(ipcQ') : GoodRequest(ipcQ'[i].req)
    BY <2>5 DEF AllDefined
  <2>7. QED BY <2>1, <2>2, <2>3, <2>6 DEF AllDefined
<1>8. CASE Poll
  <2> DEFINE req == [kind |-> "GetState"]
  <2>1. req \in Requests /\ GoodRequest(req)
    BY DEF Requests, GoodRequest
  <2>2. Send(req, gui) /\ UNCHANGED <<config, file>>
    BY <1>8 DEF Poll, daemonVars
  <2> HIDE DEF req
  <2>3. QED BY <1>1, <2>1, <2>2, SendDefined DEF AllDefined
<1>9. CASE Apply
  <2> DEFINE req == [kind |-> "SetConfig", config |-> gui.draft]
  <2>1. gui.draft \in Configs /\ gui.draft # NoState
    BY <1>1, <1>9, GuiParts, TypeParts DEF Apply, IsDirty
  <2>2. req \in Requests /\ GoodRequest(req)
    BY <2>1 DEF Requests, GoodRequest, AllDefined
  <2>3. Send(req, gui) /\ UNCHANGED <<config, file>>
    BY <1>9 DEF Apply, daemonVars
  <2> HIDE DEF req
  <2>4. QED BY <1>1, <2>2, <2>3, SendDefined DEF AllDefined
<1>10. CASE ClickKillSwitch
  <2>1. PICK g \in GuiType, new \in BOOLEAN :
               /\ Send([kind |-> "SetDisabled", disabled |-> new], g)
               /\ g.answer = gui.answer
               /\ g.draft \in {gui.draft, [gui.draft EXCEPT !.disabled = new]}
               /\ g.server \in {gui.server, [gui.server EXCEPT !.disabled = new]}
               /\ g.draft = NoState <=> gui.draft = NoState
               /\ g.server = NoState <=> gui.server = NoState
    BY <1>10, KillSwitchEffect
  <2> DEFINE req == [kind |-> "SetDisabled", disabled |-> new]
  <2>2. req \in Requests /\ GoodRequest(req)
    BY DEF Requests, GoodRequest
  <2>3. \A c \in Configs : Defined(c) => Defined([c EXCEPT !.disabled = new])
    BY DEF Configs
  <2>4. /\ g.draft # NoState => Defined(g.draft)
        /\ g.server # NoState => Defined(g.server)
    <3> HIDE DEF Defined
    <3>1. QED BY <1>1, <2>1, <2>3, GuiParts DEF AllDefined
  <2>5. UNCHANGED <<config, file>>
    BY <1>10 DEF ClickKillSwitch, daemonVars
  <2>6. Send(req, g)
    BY <2>1
  <2> HIDE DEF req
  <2>7. QED BY <2>1, <2>2, <2>4, <2>5, <2>6, SendDefined
<1>11. CASE ReceiveAnswer
  <2>1. UNCHANGED <<config, file, ipcQ>> /\ gui'.answer.kind = "none"
    BY <1>11, ReceiveEffect
  <2>2. /\ gui'.draft # NoState => Defined(gui'.draft)
        /\ gui'.server # NoState => Defined(gui'.server)
    BY <1>11, ReceiveEffect DEF AllDefined
  <2>3. QED BY <2>1, <2>2 DEF AllDefined
<1>12. CASE Edit
  <2>1. PICK c \in EditResults(gui.draft) :
               gui' = [gui EXCEPT !.draft = c, !.unsaved = c # gui.server]
    BY <1>12 DEF Edit
  <2>2. gui.draft \in Configs /\ gui.draft # NoState
    BY <1>1, <1>12, GuiParts, TypeParts DEF Edit
  <2>3. Defined(c)
    BY <2>2, EditsGood DEF AllDefined
  <2>4. /\ gui'.draft = c /\ gui'.server = gui.server /\ gui'.answer = gui.answer
        /\ UNCHANGED <<config, file, ipcQ>>
    BY <1>1, <1>12, <2>1 DEF GuiType, Edit, daemonVars
  <2>5. QED BY <2>3, <2>4 DEF AllDefined
<1>13. CASE Discard
  <2>1. /\ gui'.draft = gui.server /\ gui'.server = gui.server /\ gui'.answer = gui.answer
        /\ UNCHANGED <<config, file, ipcQ>>
    BY <1>1, <1>13 DEF GuiType, Discard, daemonVars
  <2>2. QED BY <2>1 DEF AllDefined
<1>14. CASE PushTray \/ TrayMode \/ TrayToggle \/ UNCHANGED vars
  <2>1. UNCHANGED <<config, file, ipcQ, gui>>
    BY <1>14 DEF PushTray, TrayMode, TrayToggle, ClickTray, vars, daemonVars
  <2>2. QED BY <2>1 DEF AllDefined
<1>15. CASE Saved
  <2>1. UNCHANGED <<config, ipcQ>> /\ (file' = config \/ Torn)
    BY <1>15 DEF Saved, Written
  <2>2. LoadOrDefault(config) = config
    BY <1>1, ConfigAssumption DEF LoadOrDefault
  <2>3. Defined(LoadOrDefault(file'))
    <3> HIDE DEF Defined
    <3>1. QED BY <2>1, <2>2, TornLoads, DefaultDefined DEF AllDefined
  <2>4. gui'.draft = gui.draft /\ gui'.server = gui.server
    BY <1>15, CopiesKept DEF Leaving
  <2>5. gui'.answer.kind = "State" => gui'.answer = gui.answer
    BY <1>1, <1>15 DEF Saved, GuiType
  <2>6. QED BY <2>1, <2>3, <2>4, <2>5 DEF AllDefined
<1>16. QED
  BY <1>3, <1>4, <1>5, <1>6, <1>7, <1>8, <1>9, <1>10, <1>11, <1>12, <1>13, <1>14, <1>15
  DEF Next, Daemon, User

LEMMA AlwaysDefined == Spec /\ Defined(config) => []AllDefined
<1>1. Init /\ Defined(config) => AllDefined
  <2> SUFFICES ASSUME Init, Defined(config) PROVE AllDefined
    OBVIOUS
  <2>1. config \in Configs /\ file = config
    BY DeskAssumption DEF Init
  <2>2. LoadOrDefault(file) = config
    BY <2>1, ConfigAssumption DEF LoadOrDefault
  <2>3. QED BY <2>2 DEF Init, AllDefined, NoAnswer
<1>2. TypeOK /\ AllDefined /\ [Next]_vars => AllDefined'
  BY DefinedStep
<1>3. QED BY <1>1, <1>2, DeskTypeCorrect, PTL DEF Spec

(* If the active mode is defined at first it stays so in every copy, and   *)
(* in what a new daemon would load, whatever is renamed, removed, clicked, *)
(* saved in part or loaded later.                                          *)
THEOREM ActiveModeStays == Spec /\ Defined(config) => []ActiveModeDefined
<1>1. AllDefined => ActiveModeDefined
  BY DEF AllDefined, ActiveModeDefined, Defined
<1>2. QED BY <1>1, AlwaysDefined, PTL

(* Renaming keeps what every app gets.  (With a dangling active mode the   *)
(* new name might give it a meaning.)                                      *)
LEMMA RenameKeeps ==
    ASSUME NEW c \in Configs, Defined(c), NEW old \in DOMAIN c.modes,
           NEW new \in ModeNames \ DOMAIN c.modes, NEW a \in Apps,
           a \in DOMAIN c.apps => c.apps[a] # [override |-> "profile", profile |-> new]
    PROVE  ResolveProfile(Renamed(c, old, new), a) = ResolveProfile(c, a)
<1> DEFINE d == Renamed(c, old, new)
           Newly(m) == IF m = old THEN new ELSE m
<1>1. RenamedTo(c, old, new, d)
  BY RenameEdit
<1> HIDE DEF d
<1>2. /\ d.active_mode = Newly(c.active_mode)
      /\ d.manage_all = c.manage_all /\ d.hardcoded_exclude = c.hardcoded_exclude
      /\ d.disabled = c.disabled /\ DOMAIN d.apps = DOMAIN c.apps
  BY <1>1 DEF RenamedTo
<1>3. \A m : m # new => ModeProfile(d, Newly(m)) = ModeProfile(c, m)
  BY <1>1 DEF ModeProfile, RenamedTo
<1>4. ModeProfile(d, d.active_mode) = ModeProfile(c, c.active_mode)
  BY <1>2, <1>3 DEF Defined
<1> HIDE DEF Newly
<1>5. CASE c.disabled \/ a \in c.hardcoded_exclude
  BY <1>2, <1>5 DEF ResolveProfile, d
<1>6. CASE ~(c.disabled \/ a \in c.hardcoded_exclude) /\ a \notin DOMAIN c.apps
  BY <1>2, <1>4, <1>6 DEF ResolveProfile, d
<1>7. CASE ~(c.disabled \/ a \in c.hardcoded_exclude) /\ a \in DOMAIN c.apps
  <2> DEFINE Ruled(e) == CASE e.apps[a].override = "exclude"  -> Unmanaged
                           [] e.apps[a].override = "profile"  -> ModeProfile(e, e.apps[a].profile)
                           [] e.apps[a].override = "use_mode" -> ModeProfile(e, e.active_mode)
  <2>1. ResolveProfile(d, a) = Ruled(d) /\ ResolveProfile(c, a) = Ruled(c)
    BY <1>2, <1>7 DEF ResolveProfile
  <2>2. \/ c.apps[a].override \in {"use_mode", "exclude"}
        \/ \E p \in ModeNames : c.apps[a] = [override |-> "profile", profile |-> p]
    <3>1. c.apps[a] \in AppRules
      BY <1>7, ConfigParts
    <3>2. QED BY <3>1 DEF AppRules
  <2>3. d.apps[a] = IF c.apps[a] = [override |-> "profile", profile |-> old]
                    THEN [override |-> "profile", profile |-> new] ELSE c.apps[a]
    BY <1>1, <1>7 DEF RenamedTo
  <2>4. CASE c.apps[a].override \in {"use_mode", "exclude"}
    <3>1. d.apps[a] = c.apps[a]
      BY <2>3, <2>4
    <3>2. QED BY <1>4, <2>1, <2>4, <3>1 DEF d
  <2>5. ASSUME NEW p \in ModeNames, c.apps[a] = [override |-> "profile", profile |-> p]
        PROVE  Ruled(d) = Ruled(c)
    <3>1. p # new
      BY <1>7, <2>5
    <3>2. d.apps[a] = [override |-> "profile", profile |-> Newly(p)]
      BY <2>3, <2>5 DEF Newly
    <3>3. ModeProfile(d, Newly(p)) = ModeProfile(c, p)
      BY <1>3, <3>1
    <3>4. /\ d.apps[a].override = "profile" /\ d.apps[a].profile = Newly(p)
          /\ c.apps[a].override = "profile" /\ c.apps[a].profile = p
      BY <2>5, <3>2
    <3>5. QED BY <3>3, <3>4
  <2> HIDE DEF Ruled
  <2>6. QED BY <2>1, <2>2, <2>4, <2>5 DEF d
<1>8. QED BY <1>5, <1>6, <1>7

(* In no draft that the GUI comes to hold does a renaming change what an   *)
(* app gets.                                                               *)
THEOREM RenamingIsNeutral == Spec /\ Defined(config) => []RenameKeepsProfiles
<1>1. TypeOK /\ AllDefined => RenameKeepsProfiles
  <2> SUFFICES ASSUME TypeOK, AllDefined, gui.draft # NoState,
                      NEW old \in Listed(gui.draft),
                      NEW new \in ModeNames \ DOMAIN gui.draft.modes, NEW a \in Apps,
                      a \in DOMAIN gui.draft.apps =>
                        gui.draft.apps[a] # [override |-> "profile", profile |-> new]
               PROVE  ResolveProfile(Renamed(gui.draft, old, new), a) = ResolveProfile(gui.draft, a)
    BY DEF RenameKeepsProfiles
  <2>1. gui.draft \in Configs /\ Defined(gui.draft)
    BY TypeParts, GuiParts DEF AllDefined
  <2>2. old \in DOMAIN gui.draft.modes
    BY DEF Listed
  <2>3. QED BY <2>1, <2>2, RenameKeeps
<1>2. QED BY <1>1, AlwaysDefined, DeskTypeCorrect, PTL

-----------------------------------------------------------------------------
(* The daemon with its queues implements Settings.                         *)

(* What is in force and what is asked, as `Promised` sees them.            *)
Value    == IF loop = "down" THEN LoadOrDefault(file) ELSE config
Stored   == LoadOrDefault(file)
Saving   == loop = "save"
GuiAsked == [i \in 1 .. Len(ipcQ) |-> ipcQ[i].req]
Asked    == [k \in {"gui", "tray"} |->
                IF k = "tray" THEN trayQ ELSE [i \in 1 .. Len(ipcQ) |-> ipcQ[i].req]]

Promise  == <<Value, Stored, Saving, sound, Asked>>

LEMMA SameDefault == Promised!DefaultConfig = DefaultConfig
BY DEF DefaultConfig, Promised!DefaultConfig

LEMMA AskedParts == Asked["gui"] = GuiAsked /\ Asked["tray"] = trayQ
BY DEF Asked, GuiAsked

LEMMA AskedPartsThen == Asked'["gui"] = GuiAsked' /\ Asked'["tray"] = trayQ'
BY DEF Asked, GuiAsked

LEMMA SameConfigs == Promised!Configs = Configs
<1>1. Promised!Profiles = Profiles
  BY DEF Profiles, Promised!Profiles
<1>2. Promised!AppRules = AppRules
  BY DEF AppRules, Promised!AppRules
<1>3. Promised!PartialMaps(ModeNames, Profiles) = PartialMaps(ModeNames, Profiles)
  BY DEF PartialMaps, Promised!PartialMaps
<1>4. Promised!PartialMaps(Apps, AppRules) = PartialMaps(Apps, AppRules)
  BY DEF PartialMaps, Promised!PartialMaps
<1>5. QED BY <1>1, <1>2, <1>3, <1>4 DEF Configs, Promised!Configs

LEMMA AskedOperations ==
    Requests \subseteq Promised!Operations /\ TrayActions \subseteq Promised!Operations
BY SameConfigs DEF Requests, TrayActions, Promised!Operations

(* The requests of a queue, and those of its tail and of a longer one.     *)
Reqs(q) == [i \in 1 .. Len(q) |-> q[i].req]

LEMMA ReqsOf ==
    ASSUME NEW q \in Seq(Queued)
    PROVE  /\ Reqs(q) \in Seq(Requests) /\ Len(Reqs(q)) = Len(q)
           /\ \A i \in 1 .. Len(q) : Reqs(q)[i] = q[i].req
<1>1. \A m \in Queued : m.req \in Requests
  BY DEF Queued
<1>2. \A i \in 1 .. Len(q) : q[i] \in Queued
  OBVIOUS
<1>3. \A i \in 1 .. Len(q) : q[i].req \in Requests
  BY <1>1, <1>2
<1>4. QED BY <1>3 DEF Reqs

LEMMA ReqsTail ==
    ASSUME NEW q \in Seq(Queued), q # <<>>
    PROVE  Reqs(q) # <<>> /\ Reqs(Tail(q)) = Tail(Reqs(q)) /\ Head(Reqs(q)) = q[1].req
<1>1. /\ Tail(q) \in Seq(Queued) /\ Len(Tail(q)) = Len(q) - 1 /\ Len(q) \in Nat \ {0}
      /\ \A i \in 1 .. Len(q) - 1 : Tail(q)[i] = q[i + 1]
  BY TailType
<1>2. /\ Reqs(q) \in Seq(Requests) /\ Len(Reqs(q)) = Len(q)
      /\ \A i \in 1 .. Len(q) : Reqs(q)[i] = q[i].req
  BY ReqsOf
<1>3. Reqs(q) # <<>>
  BY <1>1, <1>2
<1>4. /\ Tail(Reqs(q)) \in Seq(Requests) /\ Len(Tail(Reqs(q))) = Len(q) - 1
      /\ \A i \in 1 .. Len(q) - 1 : Tail(Reqs(q))[i] = Reqs(q)[i + 1]
      /\ Head(Reqs(q)) = Reqs(q)[1]
  BY <1>2, <1>3, TailType
<1>5. /\ Reqs(Tail(q)) \in Seq(Requests) /\ Len(Reqs(Tail(q))) = Len(q) - 1
      /\ \A i \in 1 .. Len(q) - 1 : Reqs(Tail(q))[i] = Tail(q)[i].req
  BY <1>1, ReqsOf
<1>6. \A i \in 1 .. Len(q) - 1 : i + 1 \in 1 .. Len(q)
  BY <1>1
<1>7. Reqs(Tail(q)) = Tail(Reqs(q))
  BY <1>1, <1>2, <1>4, <1>5, <1>6, SeqEqual
<1>8. QED BY <1>1, <1>2, <1>3, <1>4, <1>7

LEMMA AskedType ==
    ASSUME NEW q \in Seq(Queued), NEW t \in Seq(TrayActions)
    PROVE  [k \in {"gui", "tray"} |-> IF k = "tray" THEN t ELSE Reqs(q)]
              \in [{"gui", "tray"} -> Seq(Promised!Operations)]
<1>1. Reqs(q) \in Seq(Requests)
  BY ReqsOf
<1>2. Reqs(q) \in Seq(Promised!Operations) /\ t \in Seq(Promised!Operations)
  BY <1>1, AskedOperations, SeqMonotonic
<1>3. QED BY <1>2

LEMMA AskedTypeThen ==
    TypeOK' => Asked' \in [{"gui", "tray"} -> Seq(Promised!Operations)]
<1>1. TypeOK' => ipcQ' \in Seq(Queued) /\ trayQ' \in Seq(TrayActions)
  BY DEF TypeOK, Queued
<1>2. QED BY <1>1, AskedType DEF Asked, Reqs

LEMMA PromiseStep ==
    ASSUME TypeOK, TypeOK', [Next]_vars
    PROVE  [Promised!Next]_Promise
<1>1. /\ config \in Configs /\ ipcQ \in Seq(Queued) /\ trayQ \in Seq(TrayActions)
      /\ gui \in GuiType
  BY TypeParts
<1>2. Reqs(ipcQ) = GuiAsked /\ Reqs(ipcQ') = GuiAsked'
  BY DEF GuiAsked, Reqs
<1>3. UNCHANGED daemonVars => UNCHANGED <<Value, Stored, Saving, sound>>
  BY DEF daemonVars, Value, Stored, Saving
<1>4. ASSUME UNCHANGED <<daemonVars, trayQ>>, Reqs(ipcQ') = Reqs(ipcQ)
      PROVE  UNCHANGED Promise
  <2>1. Asked' = Asked
    BY <1>4 DEF Asked, Reqs
  <2>2. QED BY <1>3, <1>4, <2>1 DEF Promise
<1>5. ASSUME NEW act \in TrayActions, UNCHANGED daemonVars, ipcQ' = ipcQ, trayQ' = Append(trayQ, act)
      PROVE  Promised!Ask("tray")
  <2>1. Asked'["gui"] = Asked["gui"] /\ Asked["tray"] = trayQ /\ Asked'["tray"] = trayQ'
    BY <1>5 DEF Asked
  <2>2. Len(trayQ') = Len(trayQ) + 1 /\ \A i \in 1 .. Len(trayQ) : trayQ'[i] = trayQ[i]
    BY <1>1, <1>5, AppendType
  <2>3. UNCHANGED <<Value, Stored, Saving, sound>>
    BY <1>3, <1>5
  <2>4. QED BY <2>1, <2>2, <2>3, AskedTypeThen DEF Promised!Ask, Value, Stored, Saving, Asked
<1>6. ASSUME NEW req \in Requests, UNCHANGED <<daemonVars, trayQ>>,
             ipcQ' = Append(ipcQ, [req |-> req, waited |-> TRUE])
      PROVE  Promised!Ask("gui")
  <2> DEFINE m == [req |-> req, waited |-> TRUE]
  <2>1. m \in Queued
    BY DEF Queued
  <2> HIDE DEF m
  <2>2. /\ ipcQ' \in Seq(Queued) /\ Len(ipcQ') = Len(ipcQ) + 1
        /\ \A i \in 1 .. Len(ipcQ) : ipcQ'[i] = ipcQ[i]
    BY <1>1, <1>6, <2>1, AppendType DEF m
  <2>3. /\ Len(Reqs(ipcQ')) = Len(Reqs(ipcQ)) + 1
        /\ \A i \in 1 .. Len(Reqs(ipcQ)) : Reqs(ipcQ')[i] = Reqs(ipcQ)[i]
    <3>1. Len(ipcQ) \in Nat /\ \A i \in 1 .. Len(ipcQ) : i \in 1 .. Len(ipcQ')
      BY <1>1, <2>2
    <3>2. QED BY <1>1, <2>2, <3>1, ReqsOf
  <2>4. /\ Asked["gui"] = Reqs(ipcQ) /\ Asked'["gui"] = Reqs(ipcQ') /\ Asked'["tray"] = Asked["tray"]
    BY <1>2, <1>6, AskedParts, AskedPartsThen
  <2>5. UNCHANGED <<Value, Stored, Saving, sound>>
    BY <1>3, <1>6
  <2>6. QED BY <2>3, <2>4, <2>5, AskedTypeThen DEF Promised!Ask, Value, Stored, Saving, Asked
<1>7. ASSUME NEW req \in Requests, NEW g, Send(req, g), UNCHANGED <<daemonVars, trayQ>>
      PROVE  [Promised!Next]_Promise
  <2>1. CASE ipcQ' = ipcQ
    BY <1>4, <1>7, <2>1
  <2>2. CASE ipcQ' = Append(ipcQ, [req |-> req, waited |-> TRUE])
    BY <1>6, <1>7, <2>2 DEF Promised!Next
  <2>3. QED BY <1>7, <2>1, <2>2 DEF Send
<1>8. CASE HandleTray
  <2> DEFINE act == Head(trayQ)
  <2>1. /\ trayQ # <<>> /\ trayQ' = Tail(trayQ) /\ ipcQ' = ipcQ
        /\ config' = TrayResult(config, act) /\ UNCHANGED <<file, sound>>
        /\ loop = "recv" /\ loop' = IF TraySaves(config, act) THEN "save" ELSE "push"
    BY <1>8 DEF HandleTray, Afterwards
  <2>2. act \in TrayActions
    BY <1>1, <2>1, TailType
  <2> HIDE DEF act
  <2>3. TrayResult(config, act) = Promised!Carried(act, config)
    <3>1. act.kind = "SetMode" \/ act.kind = "SetDisabled"
      BY <2>2 DEF TrayActions
    <3>2. [config EXCEPT !.active_mode = config.active_mode] = config
      BY <1>1 DEF Configs
    <3>3. QED BY <3>1, <3>2 DEF TrayResult, Promised!Carried
  <2>4. Value' = Promised!Carried(act, Value) /\ (Value' # Value => Saving')
    <3>1. Value = config /\ Value' = config' /\ (Saving' <=> TraySaves(config, act))
      BY <2>1 DEF Value, Saving
    <3>2. QED BY <1>1, <2>1, <2>2, <2>3, <3>1, UnsavedIsUnchanged
  <2>5. Asked["tray"] = trayQ /\ Asked' = [Asked EXCEPT !["tray"] = Tail(Asked["tray"])]
    BY <2>1 DEF Asked
  <2>6. ~Saving /\ Saving' \in BOOLEAN /\ UNCHANGED <<Stored, sound>>
    BY <2>1 DEF Saving, Stored
  <2>7. Promised!Serve("tray")
    BY <2>1, <2>4, <2>5, <2>6 DEF Promised!Serve, Value, Stored, Saving, Asked, act
  <2>8. QED BY <2>7 DEF Promised!Next
<1>9. CASE HandleIpc
  <2> DEFINE req == ipcQ[NextRequest].req
  <2>1. /\ ipcQ # <<>> /\ ipcQ' = Tail(ipcQ) /\ trayQ' = trayQ
        /\ config' = IpcResult(config, req) /\ req = ipcQ[1].req
        /\ UNCHANGED <<file, sound>>
    BY <1>1, <1>9, IpcTail DEF HandleIpc, NextRequest
  <2>2. ipcQ[1] \in Queued
    BY <1>1, <2>1
  <2>3. req \in Requests
    BY <2>1, <2>2 DEF Queued
  <2>a. /\ loop = "recv" /\ loop' \in {"recv", "save", "push"}
        /\ IpcSaves(config, req) => loop' = "save"
    BY <1>9 DEF HandleIpc, Afterwards
  <2> HIDE DEF req
  <2>4. IpcResult(config, req) = Promised!Carried(req, config)
    <3>1. req.kind \in {"GetState", "SetConfig", "SetDisabled"}
      BY <2>3 DEF Requests
    <3>2. QED BY <3>1 DEF IpcResult, Promised!Carried
  <2>5. Reqs(ipcQ) # <<>> /\ Reqs(ipcQ') = Tail(Reqs(ipcQ)) /\ Head(Reqs(ipcQ)) = req
    BY <1>1, <2>1, ReqsTail
  <2>6. Value' = Promised!Carried(req, Value) /\ (Value' # Value => Saving')
    <3>1. Value = config /\ Value' = config' /\ (IpcSaves(config, req) => Saving')
      BY <2>a DEF Value, Saving
    <3>2. QED BY <1>1, <2>1, <2>3, <2>4, <3>1, UnsavedIsUnchanged
  <2>7. Asked["gui"] = Reqs(ipcQ) /\ Asked' = [Asked EXCEPT !["gui"] = Tail(Asked["gui"])]
    BY <2>1, <2>5 DEF Asked, Reqs
  <2>8. ~Saving /\ Saving' \in BOOLEAN /\ UNCHANGED <<Stored, sound>>
    BY <2>1, <2>a DEF Saving, Stored
  <2>9. Promised!Serve("gui")
    BY <2>5, <2>6, <2>7, <2>8 DEF Promised!Serve, Value, Stored, Saving, Asked
  <2>10. QED BY <2>9 DEF Promised!Next
<1>10. CASE StopDaemon
  <2>1. ipcQ' = <<>> /\ trayQ' = <<>> /\ loop' = "down"
    BY <1>10 DEF StopDaemon
  <2>2. Asked' = [k \in {"gui", "tray"} |-> <<>>]
    BY <2>1 DEF Asked
  <2>3. Value' = Stored' /\ Saving' = FALSE
    BY <2>1 DEF Value, Stored, Saving
  <2>4. IF Saving THEN Stored' \in {Stored, DefaultConfig} /\ sound' = FALSE
                  ELSE UNCHANGED <<Stored, sound>>
    <3>1. IF loop = "save" THEN Torn ELSE UNCHANGED <<file, sound>>
      BY <1>10 DEF StopDaemon
    <3>2. QED BY <3>1, TornLoads DEF Torn, Saving, Stored
  <2>5. QED
    BY <2>2, <2>3, <2>4, SameDefault
    DEF Promised!Next, Promised!Lose, Promised!Broken, Value, Stored, Saving, Asked
<1>11. CASE TrayMode
  <2>1. PICK m \in tray.modes :
               ClickTray([kind |-> "SetMode", mode |-> m], [tray EXCEPT !.mode = m])
    BY <1>11 DEF TrayMode
  <2>2. m \in ModeNames
    BY <2>1, TypeParts DEF ClickTray, Trays
  <2>3. [kind |-> "SetMode", mode |-> m] \in TrayActions
    BY <2>2 DEF TrayActions
  <2>4. QED BY <1>5, <2>1, <2>3 DEF ClickTray, Promised!Next
<1>12. CASE TrayToggle
  <2> DEFINE off == ~tray.disabled
  <2>1. ClickTray([kind |-> "SetDisabled", disabled |-> off], [tray EXCEPT !.disabled = off])
    BY <1>12 DEF TrayToggle
  <2>2. off \in BOOLEAN
    OBVIOUS
  <2> HIDE DEF off
  <2>3. [kind |-> "SetDisabled", disabled |-> off] \in TrayActions
    BY <2>2 DEF TrayActions
  <2>4. QED BY <1>5, <2>1, <2>3 DEF ClickTray, Promised!Next
<1>13. CASE Poll
  <2>1. [kind |-> "GetState"] \in Requests
    BY DEF Requests
  <2>2. QED BY <1>7, <1>13, <2>1 DEF Poll
<1>14. CASE Apply
  <2>1. gui.draft \in Configs
    BY <1>1, <1>14, GuiParts, TypeParts DEF Apply, IsDirty
  <2>2. [kind |-> "SetConfig", config |-> gui.draft] \in Requests
    BY <2>1 DEF Requests
  <2>3. QED BY <1>7, <1>14, <2>2 DEF Apply
<1>15. CASE ClickKillSwitch
  <2>1. PICK g \in GuiType, new \in BOOLEAN : Send([kind |-> "SetDisabled", disabled |-> new], g)
    BY <1>15, KillSwitchEffect
  <2>2. [kind |-> "SetDisabled", disabled |-> new] \in Requests
    BY DEF Requests
  <2>3. QED BY <1>7, <1>15, <2>1, <2>2 DEF ClickKillSwitch
<1>16. CASE TimeOut
  <2>1. ipcQ' = [i \in 1 .. Len(ipcQ) |-> [ipcQ[i] EXCEPT !.waited = FALSE]]
    BY <1>1, <1>16 DEF TimeOut
  <2>2. \A q \in Queued : [q EXCEPT !.waited = FALSE].req = q.req
    BY DEF Queued
  <2>3. \A i \in 1 .. Len(ipcQ) : ipcQ'[i].req = ipcQ[i].req
    <3>1. \A i \in 1 .. Len(ipcQ) : ipcQ[i] \in Queued
      BY <1>1
    <3>2. QED BY <2>1, <2>2, <3>1
  <2>4. Len(ipcQ') = Len(ipcQ)
    BY <1>1, <2>1
  <2>5. Reqs(ipcQ') = Reqs(ipcQ)
    BY <2>3, <2>4 DEF Reqs
  <2>6. QED BY <1>4, <1>16, <2>5 DEF TimeOut
<1>17. CASE ReceiveAnswer \/ Discard \/ Edit \/ UNCHANGED vars
  <2>1. UNCHANGED <<daemonVars, ipcQ, trayQ>>
    BY <1>17 DEF ReceiveAnswer, Discard, Edit, vars
  <2>2. QED BY <1>4, <2>1
<1>18. CASE PushTray \/ StartDaemon
  <2>1. UNCHANGED <<file, sound, ipcQ, trayQ>> /\ loop # "save" /\ loop' # "save"
    BY <1>18 DEF PushTray, StartDaemon
  <2>2. Value' = Value
    BY <1>18 DEF PushTray, StartDaemon, Value
  <2>3. UNCHANGED <<Stored, Saving, Asked>>
    BY <2>1 DEF Stored, Saving, Asked
  <2>4. QED BY <2>1, <2>2, <2>3 DEF Promise
<1>19. CASE Saved
  <2>1. /\ loop = "save" /\ loop' = "push" /\ UNCHANGED <<config, ipcQ, trayQ>>
        /\ (file' = config /\ sound' = TRUE) \/ Torn
    BY <1>19 DEF Saved, Written, Afterwards
  <2>2. LoadOrDefault(config) = config
    BY <1>1, ConfigAssumption DEF LoadOrDefault
  <2>3. Value = config /\ Value' = config /\ Saving /\ Saving' = FALSE /\ UNCHANGED Asked
    BY <2>1 DEF Value, Saving, Asked
  <2>4. \/ Stored' = Value /\ sound' = TRUE
        \/ Stored' \in {Stored, DefaultConfig} /\ sound' = FALSE
    BY <2>1, <2>2, <2>3, TornLoads DEF Torn, Stored
  <2>5. QED
    BY <2>3, <2>4, SameDefault
    DEF Promised!Next, Promised!Store, Promised!Broken, Value, Stored, Saving, Asked
<1>20. QED
  BY <1>8, <1>9, <1>10, <1>11, <1>12, <1>13, <1>14, <1>15, <1>16, <1>17, <1>18, <1>19
  DEF Next, Daemon, User

(* One configuration, changed only by the requests and clicks of its       *)
(* clients, each client's in order and at most once, that a new daemon     *)
(* has again unless the last save failed or was cut short.                 *)
THEOREM DeskImplementsSettings == Spec => KeepsItsPromise
<1>1. Init => Promised!Init
  <2> SUFFICES ASSUME Init PROVE Promised!Init
    OBVIOUS
  <2>1. config \in Configs /\ file = config /\ loop = "recv" /\ sound = TRUE
    BY DeskAssumption DEF Init
  <2>2. LoadOrDefault(file) = config
    BY <2>1, ConfigAssumption DEF LoadOrDefault
  <2>3. Value \in Promised!Configs /\ Stored = Value /\ Saving = FALSE
    BY <2>1, <2>2, SameConfigs DEF Value, Stored, Saving
  <2>4. Asked = [k \in {"gui", "tray"} |-> <<>>]
    BY DEF Init, Asked
  <2>5. QED BY <2>1, <2>3, <2>4 DEF Promised!Init, Value, Stored, Saving, Asked
<1>2. TypeOK /\ TypeOK' /\ [Next]_vars => [Promised!Next]_Promise
  BY PromiseStep
<1>3. QED
  BY <1>1, <1>2, DeskTypeCorrect, PTL
  DEF Spec, KeepsItsPromise, Promised!Spec, Promise, Value, Stored, Saving, Asked
=============================================================================
