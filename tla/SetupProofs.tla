---------------------------- MODULE SetupProofs ----------------------------
(***************************************************************************)
(* Setup for any machines and bounds: TypeOK, SuccessIsTrue,               *)
(* PackageNotShadowed and RemoveLeavesNoDaemon.                            *)
(*                                                                         *)
(* The reports are true because of what holds after each call of the       *)
(* operation under way: an installation has put the files of the calls     *)
(* behind it in place, a removal that missed nothing has disabled the      *)
(* service and then removed its unit.                                      *)
(***************************************************************************)
EXTENDS Setup, SequenceTheorems, TLAPS

Calls == {"check", "bin", "unit", "desktop", "icon", "reload", "enable",
          "disable", "rm unit", "rm extras", "restart"}

Shells == [place : Places, op : Operations \cup {"none"}, todo : Seq(Calls),
           missed : BOOLEAN, report : {"none", "failed", "installed", "enabled"},
           installed : BOOLEAN, enabled : BOOLEAN, stale : BOOLEAN]

SetupType ==
    /\ disk \in Disks /\ service \in Services /\ shell \in Shells
    /\ used \in [clicks : 0 .. MaxClicks, packages : 0 .. MaxPackages]

(* What holds when the n-th call of an operation is next.                  *)
InstallSoFar(n) ==
    /\ shell.place = "Detached"
    /\ n > 2 => disk["bin"] = "new"
    /\ n > 3 => disk["unit"] = "new"
    /\ n > 4 => disk["desktop"] = "new"
    /\ n > 5 => disk["icon"] = "new"

RemoveSoFar(n) ==
    ~shell.missed => /\ n > 1 => ~service.enabled /\ service.running = "nothing"
                     /\ n > 2 => disk["unit"] = "absent"

UnderWay(n) ==
    /\ shell.todo = SubSeq(Steps(shell.op), n, Len(Steps(shell.op)))
    /\ shell.op = "install" => InstallSoFar(n)
    /\ shell.op = "remove" => RemoveSoFar(n)

Progress ==
    IF Free THEN shell.todo = <<>>
    ELSE \E n \in 1 .. Len(Steps(shell.op)) : UnderWay(n)

(* A window that looked after the last change of the package knows of it,  *)
(* and one that installs has seen none.                                    *)
Knows ==
    service.package /\ ~shell.stale => shell.installed /\ shell.op # "install"

SetupInv == SetupType /\ Progress /\ Knows

-----------------------------------------------------------------------------
LEMMA StepsParts ==
    /\ Steps("install") = <<"check", "bin", "unit", "desktop", "icon", "reload", "enable">>
    /\ Steps("enable")  = <<"check", "reload", "enable">>
    /\ Steps("remove")  = <<"disable", "rm unit", "rm extras", "reload">>
    /\ Steps("restart") = <<"restart">>
BY DEF Steps

LEMMA StepsType ==
    ASSUME NEW op \in Operations
    PROVE  Steps(op) \in Seq(Calls) /\ Len(Steps(op)) \in 1 .. 7
<1>1. \A S : S \subseteq Calls => Seq(S) \subseteq Seq(Calls)
  OBVIOUS
<1>2. 7 \in 1 .. 7 /\ 4 \in 1 .. 7 /\ 3 \in 1 .. 7 /\ 1 \in 1 .. 7
  OBVIOUS
<1>3. CASE op = "install"
  <2> DEFINE s == <<"check", "bin", "unit", "desktop", "icon", "reload", "enable">>
             S == {"check", "bin", "unit", "desktop", "icon", "reload", "enable"}
  <2>1. Steps(op) = s
    BY <1>3, StepsParts
  <2>2. s \in Seq(S) /\ Len(s) = 7
    OBVIOUS
  <2>3. S \subseteq Calls
    BY DEF Calls
  <2> HIDE DEF s, S
  <2>4. QED BY <1>1, <1>2, <2>1, <2>2, <2>3
<1>4. CASE op = "enable"
  <2> DEFINE s == <<"check", "reload", "enable">>
             S == {"check", "reload", "enable"}
  <2>1. Steps(op) = s
    BY <1>4, StepsParts
  <2>2. s \in Seq(S) /\ Len(s) = 3
    OBVIOUS
  <2>3. S \subseteq Calls
    BY DEF Calls
  <2> HIDE DEF s, S
  <2>4. QED BY <1>1, <1>2, <2>1, <2>2, <2>3
<1>5. CASE op = "remove"
  <2> DEFINE s == <<"disable", "rm unit", "rm extras", "reload">>
             S == {"disable", "rm unit", "rm extras", "reload"}
  <2>1. Steps(op) = s
    BY <1>5, StepsParts
  <2>2. s \in Seq(S) /\ Len(s) = 4
    OBVIOUS
  <2>3. S \subseteq Calls
    BY DEF Calls
  <2> HIDE DEF s, S
  <2>4. QED BY <1>1, <1>2, <2>1, <2>2, <2>3
<1>6. CASE op = "restart"
  <2> DEFINE s == <<"restart">>
             S == {"restart"}
  <2>1. Steps(op) = s
    BY <1>6, StepsParts
  <2>2. s \in Seq(S) /\ Len(s) = 1
    OBVIOUS
  <2>3. S \subseteq Calls
    BY DEF Calls
  <2> HIDE DEF s, S
  <2>4. QED BY <1>1, <1>2, <2>1, <2>2, <2>3
<1>7. QED BY <1>3, <1>4, <1>5, <1>6 DEF Operations

(* The calls from the n-th on.                                             *)
LEMMA FromNth ==
    ASSUME NEW op \in Operations, NEW n \in 1 .. Len(Steps(op)),
           NEW todo, todo = SubSeq(Steps(op), n, Len(Steps(op)))
    PROVE  /\ todo \in Seq(Calls) /\ todo # <<>> /\ Head(todo) = Steps(op)[n]
           /\ Len(todo) = 1 <=> n = Len(Steps(op))
           /\ n < Len(Steps(op)) => Tail(todo) = SubSeq(Steps(op), n + 1, Len(Steps(op)))
<1> DEFINE s == Steps(op)
           l == Len(Steps(op))
<1>1. s \in Seq(Calls) /\ l \in 1 .. 7 /\ l = Len(s)
  BY StepsType
<1> HIDE DEF s, l
<1>2. n \in 1 .. l /\ l \in n .. l /\ todo = SubSeq(s, n, l)
  BY <1>1 DEF s, l
<1>3. \A i \in n .. l : s[i] \in Calls
  BY <1>1, <1>2
<1>4. todo \in Seq(Calls) /\ Len(todo) = l - n + 1
  BY <1>1, <1>2, <1>3, SubSeqProperties
<1>5. Head(todo) = s[n] /\ Tail(todo) = SubSeq(s, n + 1, l)
  BY <1>1, <1>2, HeadTailOfSubSeq
<1>6. todo # <<>> /\ (Len(todo) = 1 <=> n = l)
  BY <1>1, <1>2, <1>4
<1>7. QED BY <1>4, <1>5, <1>6 DEF s, l

LEMMA AllSteps ==
    ASSUME NEW op \in Operations
    PROVE  SubSeq(Steps(op), 1, Len(Steps(op))) = Steps(op)
BY StepsType, SubSeqFull

(* The n-th call of each operation.                                        *)
LEMMA InstallCalls ==
    /\ Len(Steps("install")) = 7
    /\ Steps("install")[1] = "check" /\ Steps("install")[2] = "bin"
    /\ Steps("install")[3] = "unit" /\ Steps("install")[4] = "desktop"
    /\ Steps("install")[5] = "icon" /\ Steps("install")[6] = "reload"
    /\ Steps("install")[7] = "enable"
<1> DEFINE s == <<"check", "bin", "unit", "desktop", "icon", "reload", "enable">>
<1>1. /\ Len(s) = 7 /\ s[1] = "check" /\ s[2] = "bin" /\ s[3] = "unit"
      /\ s[4] = "desktop" /\ s[5] = "icon" /\ s[6] = "reload" /\ s[7] = "enable"
  OBVIOUS
<1>2. Steps("install") = s
  BY StepsParts
<1> HIDE DEF s
<1>3. QED BY <1>1, <1>2

LEMMA RemoveCalls ==
    /\ Len(Steps("remove")) = 4
    /\ Steps("remove")[1] = "disable" /\ Steps("remove")[2] = "rm unit"
    /\ Steps("remove")[3] = "rm extras" /\ Steps("remove")[4] = "reload"
<1> DEFINE s == <<"disable", "rm unit", "rm extras", "reload">>
<1>1. /\ Len(s) = 4 /\ s[1] = "disable" /\ s[2] = "rm unit"
      /\ s[3] = "rm extras" /\ s[4] = "reload"
  OBVIOUS
<1>2. Steps("remove") = s
  BY StepsParts
<1> HIDE DEF s
<1>3. QED BY <1>1, <1>2

LEMMA OtherCalls ==
    ASSUME NEW op \in {"enable", "restart"}, NEW n \in 1 .. Len(Steps(op))
    PROVE  Steps(op)[n] \in {"check", "reload", "enable", "restart"}
<1>1. CASE op = "enable"
  <2>1. Steps(op) = <<"check", "reload", "enable">>
    BY <1>1, StepsParts
  <2>2. n \in 1 .. 3
    BY <2>1
  <2>3. n = 1 \/ n = 2 \/ n = 3
    BY <2>2
  <2>4. QED BY <2>1, <2>3
<1>2. CASE op = "restart"
  <2>1. Steps(op) = <<"restart">>
    BY <1>2, StepsParts
  <2>2. n = 1
    BY <2>1
  <2>3. QED BY <2>1, <2>2
<1>3. QED BY <1>1, <1>2

-----------------------------------------------------------------------------
(* What a call does to the files and to systemd.                           *)
LEMMA DiskAfterType ==
    ASSUME disk \in Disks, NEW step, NEW ok \in BOOLEAN, NEW d \in DiskAfter(step, ok)
    PROVE  d \in Disks
<1>1. \A f \in UserFiles : WriteResults(f, ok) \subseteq Disks
  <2> SUFFICES ASSUME NEW f \in UserFiles
               PROVE  WriteResults(f, ok) \subseteq Disks
    OBVIOUS
  <2>1. \A c \in Contents : [disk EXCEPT ![f] = c] \in Disks
    BY DEF Disks
  <2>2. (IF ok THEN {"new"} ELSE {disk[f], "broken", "new"}) \subseteq Contents
    BY DEF Disks, Contents
  <2>3. QED BY <2>1, <2>2 DEF WriteResults
<1>2. \A gone : [f \in UserFiles |-> IF f \in gone THEN "absent" ELSE disk[f]] \in Disks
  BY DEF Disks, Contents
<1>3. [disk EXCEPT !.unit = "absent"] \in Disks
  BY DEF Disks, Contents, UserFiles
<1>4. CASE step = "bin"
  BY <1>1, <1>4 DEF DiskAfter, UserFiles
<1>5. CASE step \in {"unit", "desktop", "icon"}
  BY <1>1, <1>5 DEF DiskAfter, UserFiles
<1>6. CASE step = "rm unit"
  BY <1>3, <1>6 DEF DiskAfter
<1>7. CASE step = "rm extras"
  <2>1. PICK gone : d = [f \in UserFiles |-> IF f \in gone THEN "absent" ELSE disk[f]]
    BY <1>7 DEF DiskAfter
  <2>2. QED BY <2>1, <1>2
<1>8. CASE step \notin {"bin", "unit", "desktop", "icon", "rm unit", "rm extras"}
  BY <1>8 DEF DiskAfter
<1>9. QED BY <1>4, <1>5, <1>6, <1>7, <1>8

(* Only its own call touches a file.                                       *)
OnlyItsOwn(step, ok, d) ==
    /\ step \notin {"unit", "rm unit"} => d["unit"] = disk["unit"]
    /\ step \notin {"bin"} => d["bin"] = disk["bin"]
    /\ step \notin {"desktop", "rm extras"} => d["desktop"] = disk["desktop"]
    /\ step \notin {"icon", "rm extras"} => d["icon"] = disk["icon"]
    /\ ok /\ step \in {"unit", "desktop", "icon"} => d[step] = "new"
    /\ step = "rm unit" => d["unit"] \in {disk["unit"], "absent"}
    /\ ok /\ step = "rm unit" => d["unit"] = "absent"

LEMMA DiskAfterKeeps ==
    ASSUME disk \in Disks, NEW step, NEW ok \in BOOLEAN, NEW d \in DiskAfter(step, ok)
    PROVE  OnlyItsOwn(step, ok, d)
<1> SUFFICES /\ step \notin {"unit", "rm unit"} => d["unit"] = disk["unit"]
             /\ step \notin {"bin"} => d["bin"] = disk["bin"]
             /\ step \notin {"desktop", "rm extras"} => d["desktop"] = disk["desktop"]
             /\ step \notin {"icon", "rm extras"} => d["icon"] = disk["icon"]
             /\ ok /\ step \in {"unit", "desktop", "icon"} => d[step] = "new"
             /\ step = "rm unit" => d["unit"] \in {disk["unit"], "absent"}
             /\ ok /\ step = "rm unit" => d["unit"] = "absent"
  BY DEF OnlyItsOwn
<1>1. \A f \in UserFiles : \A e \in WriteResults(f, ok) :
          /\ \A g \in UserFiles \ {f} : e[g] = disk[g]
          /\ ok => e[f] = "new"
  BY DEF WriteResults, Disks
<1>2. CASE step = "bin"
  BY <1>1, <1>2 DEF DiskAfter, UserFiles
<1>3. CASE step = "unit"
  BY <1>1, <1>3 DEF DiskAfter, UserFiles
<1>4. CASE step = "desktop"
  BY <1>1, <1>4 DEF DiskAfter, UserFiles
<1>5. CASE step = "icon"
  BY <1>1, <1>5 DEF DiskAfter, UserFiles
<1>6. CASE step = "rm unit"
  BY <1>6 DEF DiskAfter, Disks, UserFiles
<1>7. CASE step = "rm extras"
  <2>1. PICK gone \in SUBSET {"desktop", "icon"} :
            d = [f \in UserFiles |-> IF f \in gone THEN "absent" ELSE disk[f]]
    BY <1>7 DEF DiskAfter
  <2>2. "unit" \notin gone /\ "bin" \notin gone
    OBVIOUS
  <2>3. QED BY <2>1, <2>2, <1>7 DEF UserFiles
<1>8. CASE step \notin {"bin", "unit", "desktop", "icon", "rm unit", "rm extras"}
  BY <1>8 DEF DiskAfter
<1>9. QED BY <1>2, <1>3, <1>4, <1>5, <1>6, <1>7, <1>8

(* The binary is copied to the end when the copy is neither skipped nor    *)
(* refused.                                                                *)
LEMMA BinaryCopied ==
    ASSUME disk \in Disks, ~CopySkipped, ~BinaryBusy, NEW d \in DiskAfter("bin", TRUE)
    PROVE  d["bin"] = "new"
BY DEF DiskAfter, WriteResults, Disks, UserFiles

LEMMA StartsType ==
    ASSUME NEW d, NEW package
    PROVE  StartsFrom(d, package) \in {"nothing", "user", "system"}
BY DEF StartsFrom

LEMMA ServiceAfterType ==
    ASSUME service \in Services, NEW step, NEW ok \in BOOLEAN, NEW s \in ServiceAfter(step, ok)
    PROVE  s \in Services /\ s.package = service.package
<1> DEFINE starts == StartsFrom(disk, service.package)
<1>1. starts \in {"nothing", "user", "system"}
  BY StartsType
<1> HIDE DEF starts
<1>2. CASE step = "enable" /\ ok
  BY <1>1, <1>2 DEF ServiceAfter, Services, starts
<1>3. CASE step = "enable" /\ ~ok
  BY <1>3 DEF ServiceAfter, Services
<1>4. CASE step = "disable" /\ ok
  BY <1>4 DEF ServiceAfter, Services
<1>5. CASE step = "restart" /\ ok
  BY <1>1, <1>5 DEF ServiceAfter, Services, starts
<1>6. CASE step # "enable" /\ (step \notin {"disable", "restart"} \/ ~ok)
  BY <1>6 DEF ServiceAfter
<1>7. QED BY <1>2, <1>3, <1>4, <1>5, <1>6

-----------------------------------------------------------------------------
(* The n-th call of the operation under way returns: it ends the operation *)
(* as failed, ends it as done, or leaves the next call to be made.         *)
Fails(ok, n)    == ~ok /\ Fatal(shell.op, Steps(shell.op)[n]) /\ shell' = Failed(shell)
GoesOn(ok, n)   == ok \/ ~Fatal(shell.op, Steps(shell.op)[n])
Missed(ok)      == shell.missed \/ ~ok
Finishes(ok, n) ==
    /\ GoesOn(ok, n) /\ n = Len(Steps(shell.op))
    /\ shell' = Done([shell EXCEPT !.missed = Missed(ok)], disk')
Continues(ok, n) ==
    /\ GoesOn(ok, n) /\ n < Len(Steps(shell.op))
    /\ shell' = [shell EXCEPT !.todo = SubSeq(Steps(shell.op), n + 1, Len(Steps(shell.op))),
                              !.missed = Missed(ok)]

Returns(ok, n) ==
    /\ shell.op \in Operations /\ n \in 1 .. Len(Steps(shell.op)) /\ UnderWay(n)
    /\ ok => ~Impossible(Steps(shell.op)[n])
    /\ disk' \in DiskAfter(Steps(shell.op)[n], ok)
    /\ service' \in ServiceAfter(Steps(shell.op)[n], ok)
    /\ Fails(ok, n) \/ Finishes(ok, n) \/ Continues(ok, n)
    /\ used' = used

LEMMA ServiceStepReturns ==
    ASSUME SetupInv, ServiceStep
    PROVE  \E ok \in BOOLEAN : \E n \in 1 .. Len(Steps(shell.op)) : Returns(ok, n)
<1>1. shell.op \in Operations
  BY DEF SetupInv, SetupType, Shells, ServiceStep, Free
<1>2. PICK n \in 1 .. Len(Steps(shell.op)) : UnderWay(n)
  BY DEF SetupInv, Progress, ServiceStep
<1>3. shell.todo = SubSeq(Steps(shell.op), n, Len(Steps(shell.op)))
  BY <1>2 DEF UnderWay
<1>4. /\ Head(shell.todo) = Steps(shell.op)[n]
      /\ Len(shell.todo) = 1 <=> n = Len(Steps(shell.op))
      /\ n < Len(Steps(shell.op)) =>
            Tail(shell.todo) = SubSeq(Steps(shell.op), n + 1, Len(Steps(shell.op)))
  BY <1>1, <1>3, FromNth
<1> DEFINE step == Steps(shell.op)[n]
<1>5. PICK ok \in BOOLEAN :
         /\ ok => ~Impossible(step)
         /\ disk' \in DiskAfter(step, ok)
         /\ service' \in ServiceAfter(step, ok)
         /\ shell' = IF ~ok /\ Fatal(shell.op, step) THEN Failed(shell)
                     ELSE IF Len(shell.todo) = 1
                     THEN Done([shell EXCEPT !.missed = @ \/ ~ok], disk')
                     ELSE [shell EXCEPT !.todo = Tail(@), !.missed = @ \/ ~ok]
  BY <1>4 DEF ServiceStep
<1>6. used' = used
  BY DEF ServiceStep
<1>7. Len(Steps(shell.op)) \in Nat
  BY <1>1, StepsType
<1>8. Fails(ok, n) \/ Finishes(ok, n) \/ Continues(ok, n)
  <2>1. CASE ~ok /\ Fatal(shell.op, step)
    BY <2>1, <1>5 DEF Fails
  <2>2. CASE GoesOn(ok, n) /\ n = Len(Steps(shell.op))
    <3>1. shell' = Done([shell EXCEPT !.missed = @ \/ ~ok], disk')
      BY <2>2, <1>4, <1>5 DEF GoesOn
    <3>2. QED BY <2>2, <3>1 DEF Finishes, Missed
  <2>3. CASE GoesOn(ok, n) /\ n < Len(Steps(shell.op))
    <3>1. shell' = [shell EXCEPT !.todo = Tail(shell.todo), !.missed = @ \/ ~ok]
      BY <2>3, <1>4, <1>5, <1>7 DEF GoesOn
    <3>2. QED BY <2>3, <3>1, <1>4 DEF Continues, Missed
  <2>4. QED BY <2>1, <2>2, <2>3, <1>7 DEF GoesOn
<1>9. Returns(ok, n)
  BY <1>1, <1>2, <1>5, <1>6, <1>8 DEF Returns
<1>10. QED BY <1>9

(* The window after each of the three.                                     *)
Same(f) == shell'[f] = shell[f]

LEMMA FailsShell ==
    ASSUME SetupType, NEW ok \in BOOLEAN, NEW n, Fails(ok, n)
    PROVE  /\ shell' \in Shells /\ shell'.op = "none" /\ shell'.todo = <<>>
           /\ shell'.missed = TRUE /\ Same("place") /\ Same("installed") /\ Same("stale")
           /\ shell.op = "install" => shell'.report = "failed"
<1>1. shell \in Shells /\ shell' = Failed(shell)
  BY DEF SetupType, Fails
<1>2. <<>> \in Seq(Calls)
  OBVIOUS
<1>3. QED BY <1>1, <1>2 DEF Failed, Shells, Same

LEMMA FinishesShell ==
    ASSUME SetupType, NEW ok \in BOOLEAN, NEW n, Finishes(ok, n), shell.op \in Operations
    PROVE  /\ shell' \in Shells /\ shell'.op = "none" /\ shell'.todo = <<>>
           /\ (shell'.missed <=> Missed(ok)) /\ Same("place") /\ Same("stale")
           /\ shell'.installed =
                 CASE shell.op \in {"install", "enable"} -> TRUE
                   [] shell.op = "remove" -> AnyUnitPresent(disk', service.package)
                   [] OTHER -> shell.installed
<1> DEFINE m  == Missed(ok)
           i  == AnyUnitPresent(disk', service.package)
           sh == [shell EXCEPT !.missed = m]
<1>1. shell \in Shells /\ m \in BOOLEAN /\ i \in BOOLEAN /\ <<>> \in Seq(Calls)
  BY DEF SetupType, Missed, AnyUnitPresent
<1>2. m <=> Missed(ok)
  OBVIOUS
<1>3. shell' = Done(sh, disk')
  BY DEF Finishes
<1>4. i = AnyUnitPresent(disk', service.package)
  OBVIOUS
<1> HIDE DEF m, i
<1>5. sh.op = shell.op /\ sh \in Shells /\ sh.missed = m
  BY <1>1 DEF Shells
<1>6. CASE shell.op = "install"
  BY <1>1, <1>2, <1>3, <1>5, <1>6 DEF Done, Shells, Same
<1>7. CASE shell.op = "enable"
  BY <1>1, <1>2, <1>3, <1>5, <1>7 DEF Done, Shells, Same
<1>8. CASE shell.op = "remove"
  BY <1>1, <1>2, <1>3, <1>4, <1>5, <1>8 DEF Done, Shells, Same
<1>9. CASE shell.op = "restart"
  BY <1>1, <1>2, <1>3, <1>5, <1>9 DEF Done, Shells, Same
<1>10. QED BY <1>6, <1>7, <1>8, <1>9 DEF Operations

LEMMA ContinuesShell ==
    ASSUME SetupType, NEW ok \in BOOLEAN, NEW n \in Nat, Continues(ok, n),
           n \in 1 .. Len(Steps(shell.op)), shell.op \in Operations
    PROVE  /\ shell' \in Shells /\ Same("op") /\ Same("place") /\ Same("installed")
           /\ Same("stale") /\ (shell'.missed <=> Missed(ok))
           /\ shell'.todo = SubSeq(Steps(shell.op), n + 1, Len(Steps(shell.op)))
<1> DEFINE m == Missed(ok)
           t == SubSeq(Steps(shell.op), n + 1, Len(Steps(shell.op)))
<1>1. shell \in Shells /\ m \in BOOLEAN
  BY DEF SetupType, Missed
<1>2. t \in Seq(Calls)
  <2>1. n + 1 \in 1 .. Len(Steps(shell.op))
    BY StepsType DEF Continues
  <2>2. QED BY <2>1, FromNth
<1>3. shell' = [shell EXCEPT !.todo = t, !.missed = m]
  BY DEF Continues
<1>4. (m <=> Missed(ok)) /\ t = SubSeq(Steps(shell.op), n + 1, Len(Steps(shell.op)))
  OBVIOUS
<1> HIDE DEF m, t
<1>5. QED BY <1>1, <1>2, <1>3, <1>4 DEF Shells, Same

-----------------------------------------------------------------------------
(* The invariant.                                                          *)
LEMMA OpenedShell ==
    ASSUME NEW place \in Places, NEW d, NEW s
    PROVE  /\ Opened(place, d, s) \in Shells /\ Opened(place, d, s).op = "none"
           /\ Opened(place, d, s).todo = <<>>
           /\ s.package => Opened(place, d, s).installed
<1> DEFINE i == AnyUnitPresent(d, s.package)
           e == IsUnitEnabled(d, s)
<1>1. i \in BOOLEAN /\ (s.package => i)
  BY DEF AnyUnitPresent
<1>2. e \in BOOLEAN
  BY Zenon DEF IsUnitEnabled
<1>3. Opened(place, d, s) =
         [place |-> place, op |-> "none", todo |-> <<>>, missed |-> FALSE, report |-> "none",
          installed |-> i, enabled |-> e, stale |-> FALSE]
  BY DEF Opened
<1> HIDE DEF i, e
<1>4. <<>> \in Seq(Calls)
  OBVIOUS
<1>5. QED BY <1>1, <1>2, <1>3, <1>4 DEF Shells

LEMMA PlacesOfType ==
    ASSUME NEW d, NEW package
    PROVE  PlacesOf(d, package) \subseteq Places
BY DEF PlacesOf, Places

LEMMA InitInv == SetupAssumption /\ Init => SetupInv
<1> SUFFICES ASSUME SetupAssumption, Init PROVE SetupInv
  OBVIOUS
<1>1. disk \in Disks /\ service \in Services
  <2>1. PICK m \in Machines : disk = m.disk /\ service = m.service
    BY DEF Init
  <2>2. QED BY <2>1 DEF SetupAssumption
<1>2. PICK place \in PlacesOf(disk, service.package) : shell = Opened(place, disk, service)
  BY DEF Init
<1>3. shell \in Shells /\ shell.op = "none" /\ shell.todo = <<>>
  BY <1>2, OpenedShell, PlacesOfType
<1>4. service.package => shell.installed
  BY <1>2, OpenedShell, PlacesOfType
<1>5. used \in [clicks : 0 .. MaxClicks, packages : 0 .. MaxPackages]
  BY DEF Init, SetupAssumption
<1>6. SetupType
  BY <1>1, <1>3, <1>5 DEF SetupType
<1>7. Progress
  BY <1>3 DEF Progress, Free
<1>8. Knows
  BY <1>3, <1>4 DEF Knows
<1>9. QED BY <1>6, <1>7, <1>8 DEF SetupInv

LEMMA ClickKeeps == SetupInv /\ Click => SetupInv'
<1> SUFFICES ASSUME SetupInv, Click PROVE SetupInv'
  OBVIOUS
<1>1. SetupType /\ Knows /\ shell \in Shells
  BY DEF SetupInv, SetupType
<1>2. PICK op \in Buttons :
         shell' = [shell EXCEPT !.op = op, !.todo = Steps(op), !.missed = FALSE]
  BY DEF Click
<1>3. op \in Operations
  BY DEF Buttons, Operations
<1>4. op = "install" => shell.place = "Detached" /\ ~shell.installed
  BY <1>2 DEF Buttons, Banner
<1>5. Steps(op) \in Seq(Calls) /\ Len(Steps(op)) \in 1 .. 7
  BY <1>3, StepsType
<1>6. /\ shell' \in Shells /\ shell'.op = op /\ shell'.todo = Steps(op)
      /\ Same("place") /\ Same("installed") /\ Same("stale")
  BY <1>1, <1>2, <1>3, <1>5 DEF Shells, Same
<1>7. /\ disk' = disk /\ service' = service
      /\ used' = [used EXCEPT !["clicks"] = @ + 1] /\ used.clicks < MaxClicks
  BY DEF Click, Spend
<1>8. used' \in [clicks : 0 .. MaxClicks, packages : 0 .. MaxPackages]
  BY <1>1, <1>7, SetupAssumption DEF SetupType, SetupAssumption
<1>9. SetupType'
  BY <1>1, <1>6, <1>7, <1>8 DEF SetupType
<1>10. Progress'
  <2>1. shell'.todo = SubSeq(Steps(op), 1, Len(Steps(op)))
    BY <1>3, <1>6, AllSteps
  <2>2. op = "install" => InstallSoFar(1)'
    BY <1>4, <1>6 DEF InstallSoFar, Same
  <2>3. RemoveSoFar(1)'
    BY DEF RemoveSoFar
  <2>4. UnderWay(1)'
    BY <2>1, <2>2, <2>3, <1>6 DEF UnderWay
  <2>5. 1 \in 1 .. Len(Steps(shell'.op))
    <3>1. \A l \in 1 .. 7 : 1 \in 1 .. l
      OBVIOUS
    <3>2. QED BY <3>1, <1>5, <1>6, Zenon
  <2>6. ~Free'
    BY <1>3, <1>6 DEF Free, Operations
  <2>7. QED BY <2>4, <2>5, <2>6 DEF Progress
<1>11. Knows'
  BY <1>1, <1>4, <1>6, <1>7 DEF Knows, Same
<1>12. QED BY <1>9, <1>10, <1>11 DEF SetupInv

(* The files and the service when the n-th call of an operation returns    *)
(* and another follows.                                                    *)
LEMMA InstallGoesOn ==
    ASSUME SetupType, NEW ok \in BOOLEAN, NEW n \in 1 .. 6, Returns(ok, n), Continues(ok, n),
           shell.op = "install"
    PROVE  InstallSoFar(n + 1)'
<1>1. ok /\ InstallSoFar(n)
  BY DEF Continues, GoesOn, Fatal, Returns, UnderWay
<1>2. disk \in Disks /\ shell'.place = "Detached"
  <2>1. Same("place")
    BY ContinuesShell DEF Returns
  <2>2. QED BY <1>1, <2>1 DEF SetupType, InstallSoFar, Same
<1>3. disk' \in DiskAfter(Steps("install")[n], ok)
  BY DEF Returns
<1>4. CASE n = 1
  BY <1>2, <1>4 DEF InstallSoFar
<1>5. CASE n = 2
  <2>1. disk' \in DiskAfter("bin", TRUE) /\ ~Impossible("bin")
    BY <1>1, <1>3, <1>5, InstallCalls DEF Returns
  <2>2. ~CopySkipped /\ ~BinaryBusy
    BY <2>1, <1>1 DEF InstallSoFar, CopySkipped, Impossible
  <2>3. disk'["bin"] = "new"
    BY <2>1, <2>2, <1>2, BinaryCopied
  <2>4. QED BY <2>3, <1>2, <1>5 DEF InstallSoFar
<1>6. CASE n \in {3, 4, 5, 6}
  <2>1. CASE n = 3
    <3>1. disk' \in DiskAfter("unit", ok)
      BY <2>1, <1>3, InstallCalls
    <3>2. OnlyItsOwn("unit", ok, disk')
      BY <3>1, <1>2, DiskAfterKeeps
    <3>3. disk'["unit"] = "new" /\ disk'["bin"] = disk["bin"]
      BY <3>2, <1>1 DEF OnlyItsOwn
    <3>4. QED BY <3>3, <2>1, <1>1, <1>2 DEF InstallSoFar
  <2>2. CASE n = 4
    <3>1. disk' \in DiskAfter("desktop", ok)
      BY <2>2, <1>3, InstallCalls
    <3>2. OnlyItsOwn("desktop", ok, disk')
      BY <3>1, <1>2, DiskAfterKeeps
    <3>3. /\ disk'["bin"] = disk["bin"] /\ disk'["unit"] = disk["unit"]
          /\ disk'["desktop"] = "new"
      BY <3>2, <1>1 DEF OnlyItsOwn
    <3>4. QED BY <3>3, <2>2, <1>1, <1>2 DEF InstallSoFar
  <2>3. CASE n = 5
    <3>1. disk' \in DiskAfter("icon", ok)
      BY <2>3, <1>3, InstallCalls
    <3>2. OnlyItsOwn("icon", ok, disk')
      BY <3>1, <1>2, DiskAfterKeeps
    <3>3. /\ disk'["bin"] = disk["bin"] /\ disk'["unit"] = disk["unit"]
          /\ disk'["desktop"] = disk["desktop"] /\ disk'["icon"] = "new"
      BY <3>2, <1>1 DEF OnlyItsOwn
    <3>4. QED BY <3>3, <2>3, <1>1, <1>2 DEF InstallSoFar
  <2>4. CASE n = 6
    <3>1. disk' = disk
      BY <2>4, <1>3, InstallCalls DEF DiskAfter
    <3>2. QED BY <3>1, <2>4, <1>1, <1>2 DEF InstallSoFar
  <2>5. QED BY <2>1, <2>2, <2>3, <2>4, <1>6
<1>7. QED BY <1>4, <1>5, <1>6

LEMMA RemoveGoesOn ==
    ASSUME SetupType, NEW ok \in BOOLEAN, NEW n \in 1 .. 3, Returns(ok, n), Continues(ok, n),
           shell.op = "remove"
    PROVE  RemoveSoFar(n + 1)'
<1> SUFFICES ASSUME ~shell'.missed
             PROVE  /\ n + 1 > 1 => ~service'.enabled /\ service'.running = "nothing"
                    /\ n + 1 > 2 => disk'["unit"] = "absent"
  BY DEF RemoveSoFar
<1>1. ok /\ ~shell.missed
  BY ContinuesShell DEF Missed, Returns
<1>2. RemoveSoFar(n) /\ disk \in Disks /\ service \in Services
  BY DEF Returns, UnderWay, SetupType
<1>3. /\ disk' \in DiskAfter(Steps("remove")[n], ok)
      /\ service' \in ServiceAfter(Steps("remove")[n], ok)
  BY DEF Returns
<1>4. CASE n = 1
  <2>1. service' = [service EXCEPT !.enabled = FALSE, !.running = "nothing"]
    BY <1>1, <1>3, <1>4, RemoveCalls DEF ServiceAfter
  <2>2. QED BY <2>1, <1>2, <1>4 DEF Services
<1>5. CASE n = 2
  <2>1. service' = service
    BY <1>3, <1>5, RemoveCalls DEF ServiceAfter
  <2>2. disk'["unit"] = "absent"
    BY <1>1, <1>2, <1>3, <1>5, RemoveCalls, DiskAfterKeeps DEF OnlyItsOwn
  <2>3. QED BY <2>1, <2>2, <1>1, <1>2, <1>5 DEF RemoveSoFar
<1>6. CASE n = 3
  <2>1. service' = service
    BY <1>3, <1>6, RemoveCalls DEF ServiceAfter
  <2>2. disk' \in DiskAfter("rm extras", ok)
    BY <1>3, <1>6, RemoveCalls
  <2>3. disk'["unit"] = disk["unit"]
    <3>1. OnlyItsOwn("rm extras", ok, disk')
      BY <2>2, <1>2, DiskAfterKeeps
    <3>2. QED BY <3>1 DEF OnlyItsOwn
  <2>4. QED BY <2>1, <2>3, <1>1, <1>2, <1>6 DEF RemoveSoFar
<1>7. QED BY <1>4, <1>5, <1>6

LEMMA ServiceStepKeeps == SetupInv /\ ServiceStep => SetupInv'
<1> SUFFICES ASSUME SetupInv, ServiceStep PROVE SetupInv'
  OBVIOUS
<1>1. SetupType /\ Knows
  BY DEF SetupInv
<1>2. PICK ok \in BOOLEAN, n \in 1 .. Len(Steps(shell.op)) : Returns(ok, n)
  BY ServiceStepReturns
<1>3. shell.op \in Operations /\ used' = used
  BY <1>2 DEF Returns
<1>4. disk' \in Disks
  BY <1>1, <1>2, DiskAfterType DEF Returns, SetupType
<1>5. service' \in Services /\ service'.package = service.package
  BY <1>1, <1>2, ServiceAfterType DEF Returns, SetupType
<1>6. Len(Steps(shell.op)) \in Nat
  BY <1>3, StepsType
<1>7. CASE Fails(ok, n)
  <2>1. /\ shell' \in Shells /\ shell'.op = "none" /\ shell'.todo = <<>>
        /\ Same("installed") /\ Same("stale")
    BY <1>1, <1>7, FailsShell
  <2>2. SetupType'
    BY <1>1, <1>3, <1>4, <1>5, <2>1 DEF SetupType
  <2>3. Progress'
    BY <2>1 DEF Progress, Free
  <2>4. Knows'
    BY <1>1, <1>5, <2>1 DEF Knows, Same
  <2>5. QED BY <2>2, <2>3, <2>4 DEF SetupInv
<1>8. CASE Finishes(ok, n)
  <2>1. /\ shell' \in Shells /\ shell'.op = "none" /\ shell'.todo = <<>> /\ Same("stale")
        /\ shell'.installed =
              CASE shell.op \in {"install", "enable"} -> TRUE
                [] shell.op = "remove" -> AnyUnitPresent(disk', service.package)
                [] OTHER -> shell.installed
    BY <1>1, <1>3, <1>8, FinishesShell
  <2>2. SetupType'
    BY <1>1, <1>3, <1>4, <1>5, <2>1 DEF SetupType
  <2>3. Progress'
    BY <2>1 DEF Progress, Free
  <2>4. Knows'
    <3>1. SUFFICES ASSUME service.package, ~shell.stale PROVE shell'.installed
      BY <1>5, <2>1 DEF Knows, Same
    <3>2. shell.installed
      BY <1>1, <3>1 DEF Knows
    <3>3. AnyUnitPresent(disk', service.package)
      BY <3>1 DEF AnyUnitPresent
    <3>4. CASE shell.op \in {"install", "enable"}
      BY <2>1, <3>4
    <3>5. CASE shell.op = "remove"
      BY <2>1, <3>3, <3>5
    <3>6. CASE shell.op = "restart"
      BY <2>1, <3>2, <3>6
    <3>7. QED BY <3>4, <3>5, <3>6, <1>3 DEF Operations
  <2>5. QED BY <2>2, <2>3, <2>4 DEF SetupInv
<1>9. CASE Continues(ok, n)
  <2>1. n \in Nat /\ n + 1 \in 1 .. Len(Steps(shell.op))
    BY <1>6, <1>9 DEF Continues
  <2>2. /\ shell' \in Shells /\ Same("op") /\ Same("place") /\ Same("installed")
        /\ Same("stale")
        /\ shell'.todo = SubSeq(Steps(shell.op), n + 1, Len(Steps(shell.op)))
    BY <1>1, <1>3, <1>9, <2>1, ContinuesShell
  <2>3. SetupType'
    BY <1>1, <1>3, <1>4, <1>5, <2>2 DEF SetupType
  <2>4. Progress'
    <3>1. shell.op = "install" => InstallSoFar(n + 1)'
      <4> SUFFICES ASSUME shell.op = "install" PROVE InstallSoFar(n + 1)'
        OBVIOUS
      <4>1. n \in 1 .. 6
        <5>1. Len(Steps(shell.op)) = 7
          BY InstallCalls
        <5>2. n + 1 \in 1 .. 7 /\ n \in 1 .. 7
          BY <2>1, <5>1
        <5>3. QED BY <5>2
      <4>2. QED BY <4>1, <1>1, <1>2, <1>9, InstallGoesOn
    <3>2. shell.op = "remove" => RemoveSoFar(n + 1)'
      <4> SUFFICES ASSUME shell.op = "remove" PROVE RemoveSoFar(n + 1)'
        OBVIOUS
      <4>1. n \in 1 .. 3
        <5>1. Len(Steps(shell.op)) = 4
          BY RemoveCalls
        <5>2. n + 1 \in 1 .. 4 /\ n \in 1 .. 4
          BY <2>1, <5>1
        <5>3. QED BY <5>2
      <4>2. QED BY <4>1, <1>1, <1>2, <1>9, RemoveGoesOn
    <3>3. shell'.op = shell.op
      BY <2>2 DEF Same
    <3>4. UnderWay(n + 1)'
      BY <2>2, <3>1, <3>2, <3>3 DEF UnderWay
    <3>5. ~Free'
      BY <1>3, <3>3 DEF Free, Operations
    <3>6. n + 1 \in 1 .. Len(Steps(shell'.op))
      BY <2>1, <3>3
    <3>7. QED BY <3>4, <3>5, <3>6 DEF Progress
  <2>5. Knows'
    BY <1>1, <1>5, <2>2 DEF Knows, Same
  <2>6. QED BY <2>3, <2>4, <2>5 DEF SetupInv
<1>10. QED BY <1>2, <1>7, <1>8, <1>9 DEF Returns

LEMMA PollServiceKeeps == SetupInv /\ PollService => SetupInv'
<1> SUFFICES ASSUME SetupInv, PollService PROVE SetupInv'
  OBVIOUS
<1> DEFINE i == AnyUnitPresent(disk, service.package)
           e == IsUnitEnabled(disk, service)
<1>1. i \in BOOLEAN /\ (service.package => i)
  BY DEF AnyUnitPresent
<1>2. e \in BOOLEAN
  BY Zenon DEF IsUnitEnabled
<1>3. shell' = [shell EXCEPT !.installed = i, !.enabled = e, !.stale = FALSE]
  BY DEF PollService
<1> HIDE DEF i, e
<1>4. /\ SetupType /\ shell \in Shells /\ Progress /\ Free
      /\ disk' = disk /\ service' = service /\ used' = used
  BY DEF SetupInv, SetupType, PollService
<1>5. /\ shell' \in Shells /\ shell'.op = "none" /\ shell'.todo = shell.todo
      /\ (shell'.installed <=> i)
  BY <1>1, <1>2, <1>3, <1>4 DEF Shells, Free
<1>6. SetupType'
  BY <1>4, <1>5 DEF SetupType
<1>7. Progress'
  BY <1>4, <1>5 DEF Progress, Free
<1>8. Knows'
  BY <1>1, <1>4, <1>5 DEF Knows
<1>9. QED BY <1>6, <1>7, <1>8 DEF SetupInv

LEMMA ChangePackageKeeps == SetupInv /\ ChangePackage => SetupInv'
<1> SUFFICES ASSUME SetupInv, ChangePackage PROVE SetupInv'
  OBVIOUS
<1>1. /\ SetupType /\ Progress /\ shell \in Shells /\ service \in Services
      /\ disk' = disk
  BY DEF SetupInv, SetupType, ChangePackage
<1>2. /\ service' = [service EXCEPT !.package = ~@] /\ shell' = [shell EXCEPT !.stale = TRUE]
      /\ used' = [used EXCEPT !["packages"] = @ + 1] /\ used.packages < MaxPackages
  BY DEF ChangePackage, Spend
<1>3. /\ service' \in Services /\ service'.enabled = service.enabled
      /\ service'.running = service.running
  BY <1>1, <1>2 DEF Services
<1>4. /\ shell' \in Shells /\ shell'.stale = TRUE /\ Same("op") /\ Same("todo")
      /\ Same("place") /\ Same("missed")
  BY <1>1, <1>2 DEF Shells, Same
<1>5. used' \in [clicks : 0 .. MaxClicks, packages : 0 .. MaxPackages]
  BY <1>1, <1>2, SetupAssumption DEF SetupType, SetupAssumption
<1>6. SetupType'
  BY <1>1, <1>3, <1>4, <1>5 DEF SetupType
<1>7. Progress'
  <2>1. CASE Free
    BY <2>1, <1>1, <1>4 DEF Progress, Free, Same
  <2>2. CASE ~Free
    <3>1. PICK n \in 1 .. Len(Steps(shell.op)) : UnderWay(n)
      BY <2>2, <1>1 DEF Progress
    <3>2. UnderWay(n)'
      BY <3>1, <1>1, <1>3, <1>4 DEF UnderWay, InstallSoFar, RemoveSoFar, Same
    <3>3. ~Free' /\ n \in 1 .. Len(Steps(shell'.op))
      BY <2>2, <1>4 DEF Free, Same
    <3>4. QED BY <3>2, <3>3 DEF Progress
  <2>3. QED BY <2>1, <2>2
<1>8. Knows'
  BY <1>4 DEF Knows
<1>9. QED BY <1>6, <1>7, <1>8 DEF SetupInv

LEMMA ReopenKeeps == SetupInv /\ Reopen => SetupInv'
<1> SUFFICES ASSUME SetupInv, Reopen PROVE SetupInv'
  OBVIOUS
<1>1. SetupType /\ disk' = disk /\ service' = service
  BY DEF SetupInv, Reopen
<1>2. PICK place \in PlacesOf(disk, service.package) : shell' = Opened(place, disk, service)
  BY DEF Reopen
<1>3. /\ shell' \in Shells /\ shell'.op = "none" /\ shell'.todo = <<>>
      /\ service.package => shell'.installed
  BY <1>2, OpenedShell, PlacesOfType
<1>4. used' = [used EXCEPT !["clicks"] = @ + 1] /\ used.clicks < MaxClicks
  BY DEF Reopen, Spend
<1>5. used' \in [clicks : 0 .. MaxClicks, packages : 0 .. MaxPackages]
  BY <1>1, <1>4, SetupAssumption DEF SetupType, SetupAssumption
<1>6. SetupType'
  BY <1>1, <1>3, <1>5 DEF SetupType
<1>7. Progress'
  BY <1>3 DEF Progress, Free
<1>8. Knows'
  BY <1>1, <1>3 DEF Knows
<1>9. QED BY <1>6, <1>7, <1>8 DEF SetupInv

LEMMA StutterKeeps == SetupInv /\ UNCHANGED vars => SetupInv'
<1> SUFFICES ASSUME SetupInv, UNCHANGED vars PROVE SetupInv'
  OBVIOUS
<1>1. disk' = disk /\ service' = service /\ shell' = shell /\ used' = used
  BY DEF vars
<1>2. SetupType' /\ Knows'
  BY <1>1 DEF SetupInv, SetupType, Knows
<1>3. Free' <=> Free
  BY <1>1 DEF Free
<1>4. \A n : UnderWay(n) => UnderWay(n)'
  BY <1>1 DEF UnderWay, InstallSoFar, RemoveSoFar
<1>5. Progress'
  <2>1. CASE Free
    BY <2>1, <1>1, <1>3 DEF SetupInv, Progress
  <2>2. CASE ~Free
    BY <2>2, <1>1, <1>3, <1>4 DEF SetupInv, Progress
  <2>3. QED BY <2>1, <2>2
<1>6. QED BY <1>2, <1>5 DEF SetupInv

LEMMA Invariance == Spec => []SetupInv
<1>1. Init => SetupInv
  BY InitInv, SetupAssumption
<1>2. SetupInv /\ [Next]_vars => SetupInv'
  BY ClickKeeps, ServiceStepKeeps, PollServiceKeeps, ChangePackageKeeps, ReopenKeeps,
     StutterKeeps DEF Next
<1>3. QED BY <1>1, <1>2, PTL DEF Spec

-----------------------------------------------------------------------------
(* The types, and the calls still to be made are the last ones of some     *)
(* operation.                                                              *)
THEOREM SetupTypeCorrect == Spec => []TypeOK
<1>1. SetupInv => TypeOK
  <2> SUFFICES ASSUME SetupInv PROVE TypeOK
    OBVIOUS
  <2>1. /\ SetupType /\ Progress /\ shell \in Shells
    BY DEF SetupInv, SetupType
  <2>2. CASE Free
    BY <2>1, <2>2 DEF TypeOK, SetupType, Progress, Shells, Free
  <2>3. CASE ~Free
    <3>1. PICK n \in 1 .. Len(Steps(shell.op)) : UnderWay(n)
      BY <2>1, <2>3 DEF Progress
    <3>2. shell.op \in Operations
      BY <2>1, <2>3 DEF Shells, Free
    <3>3. shell.todo = SubSeq(Steps(shell.op), n, Len(Steps(shell.op)))
      BY <3>1 DEF UnderWay
    <3>4. shell.todo # <<>>
      <4>1. \A todo : todo = SubSeq(Steps(shell.op), n, Len(Steps(shell.op))) => todo # <<>>
        BY <3>2, FromNth
      <4>2. QED BY <3>3, <4>1
    <3>5. QED BY <2>1, <2>3, <3>3, <3>4 DEF TypeOK, SetupType, Shells
  <2>4. QED BY <2>2, <2>3
<1>2. QED BY <1>1, Invariance, PTL

(* Only the return of a call ends an operation.                            *)
LEMMA OnlyReturnsEnd ==
    ASSUME SetupInv, [Next]_vars, ~Free, shell'.op = "none"
    PROVE  ServiceStep
<1>1. shell \in Shells
  BY DEF SetupInv, SetupType
<1>2. ~Click /\ ~PollService /\ ~Reopen
  BY DEF Click, PollService, Reopen
<1>3. ~ChangePackage
  <2> SUFFICES ASSUME ChangePackage PROVE FALSE
    OBVIOUS
  <2>1. shell' = [shell EXCEPT !.stale = TRUE]
    BY DEF ChangePackage
  <2>2. QED BY <2>1, <1>1 DEF Shells, Free
<1>4. ~UNCHANGED vars
  BY DEF vars, Free
<1>5. QED BY <1>2, <1>3, <1>4 DEF Next

LEMMA EndReturns ==
    ASSUME SetupInv, [Next]_vars, shell.op \in Operations, shell'.op = "none"
    PROVE  \E ok \in BOOLEAN : \E n \in 1 .. Len(Steps(shell.op)) :
               Returns(ok, n) /\ (Fails(ok, n) \/ Finishes(ok, n))
<1>1. ServiceStep
  BY OnlyReturnsEnd DEF Free, Operations
<1>2. PICK ok \in BOOLEAN, n \in 1 .. Len(Steps(shell.op)) : Returns(ok, n)
  BY <1>1, ServiceStepReturns
<1>3. ~Continues(ok, n)
  <2> SUFFICES ASSUME Continues(ok, n) PROVE FALSE
    OBVIOUS
  <2>1. Same("op")
    BY ContinuesShell DEF SetupInv
  <2>2. QED BY <2>1 DEF Same, Operations
<1>4. QED BY <1>2, <1>3 DEF Returns

(* An installation that reports success has put every file in place and    *)
(* left the service enabled and running, whatever the machine looked like  *)
(* and whatever failed before (bootstrap.rs:247-299).                      *)
THEOREM ReportedInstallIsReal == Spec => SuccessIsTrue
<1>1. ASSUME SetupInv, [Next]_vars, shell.op = "install", shell'.report = "installed",
             shell'.op = "none"
      PROVE  /\ \A f \in UserFiles : disk'[f] = "new"
             /\ service'.enabled /\ service'.running # "nothing"
  <2>1. PICK ok \in BOOLEAN, n \in 1 .. Len(Steps(shell.op)) :
            Returns(ok, n) /\ (Fails(ok, n) \/ Finishes(ok, n))
    BY <1>1, EndReturns DEF Operations
  <2>2. SetupType /\ disk \in Disks /\ service \in Services
    BY <1>1 DEF SetupInv, SetupType
  <2>3. ~Fails(ok, n)
    BY <1>1, <2>2, FailsShell
  <2>4. Finishes(ok, n) /\ n = 7
    BY <1>1, <2>1, <2>3, InstallCalls DEF Finishes
  <2>5. ok
    BY <1>1, <2>4 DEF Finishes, GoesOn, Fatal
  <2>6. Steps(shell.op)[n] = "enable"
    BY <1>1, <2>4, InstallCalls
  <2>7. InstallSoFar(7)
    BY <1>1, <2>1, <2>4 DEF Returns, UnderWay
  <2>8. \A f \in UserFiles : disk[f] = "new"
    BY <2>7 DEF InstallSoFar, UserFiles
  <2>9. disk' = disk
    BY <2>1, <2>6 DEF Returns, DiskAfter
  <2>10. StartsFrom(disk, service.package) = "user"
    BY <2>8 DEF StartsFrom, UserFiles
  <2>11. service' = [service EXCEPT !.enabled = TRUE,
                                    !.running = IF @ = "nothing" THEN "user" ELSE @]
    BY <2>1, <2>5, <2>6, <2>10 DEF Returns, ServiceAfter
  <2>12. service'.enabled /\ service'.running # "nothing"
    BY <2>2, <2>11 DEF Services
  <2>13. QED BY <2>8, <2>9, <2>12
<1>2. SetupInv /\ [Next]_vars =>
         (shell.op = "install" /\ shell'.report = "installed" /\ shell'.op = "none"
            => /\ \A f \in UserFiles : disk'[f] = "new"
               /\ service'.enabled /\ service'.running # "nothing")
  BY <1>1
<1>3. QED BY <1>2, Invariance, PTL DEF Spec, SuccessIsTrue

(* While the package is there no click puts a unit of the user's own in    *)
(* front of it, unless the package came after the window's last look       *)
(* (bootstrap.rs:83-85).                                                   *)
THEOREM PackageStaysInFront == Spec => PackageNotShadowed
<1>1. ASSUME SetupInv, [Next]_vars, service.package, disk.unit = "absent", ~shell.stale
      PROVE  disk'.unit = "absent"
  <2>1. CASE ServiceStep
    <3>1. PICK ok \in BOOLEAN, n \in 1 .. Len(Steps(shell.op)) : Returns(ok, n)
      BY <1>1, <2>1, ServiceStepReturns
    <3> DEFINE step == Steps(shell.op)[n]
    <3>2. shell.op \in {"enable", "restart", "remove"}
      BY <1>1, <3>1 DEF SetupInv, Knows, Returns, Operations
    <3>3. step # "unit"
      <4>1. CASE shell.op \in {"enable", "restart"}
        <5>1. step \in {"check", "reload", "enable", "restart"}
          BY <4>1, OtherCalls
        <5>2. QED BY <5>1
      <4>2. CASE shell.op = "remove"
        <5>1. n \in 1 .. 4
          BY <4>2, RemoveCalls
        <5>2. n = 1 \/ n = 2 \/ n = 3 \/ n = 4
          BY <5>1
        <5>3. QED BY <4>2, <5>2, RemoveCalls
      <4>3. QED BY <4>1, <4>2, <3>2
    <3>4. disk \in Disks /\ disk' \in DiskAfter(step, ok)
      BY <1>1, <3>1 DEF SetupInv, SetupType, Returns
    <3> HIDE DEF step
    <3>5. OnlyItsOwn(step, ok, disk')
      BY <3>4, DiskAfterKeeps
    <3>6. QED BY <1>1, <3>3, <3>5 DEF OnlyItsOwn
  <2>2. CASE ~ServiceStep
    <3>1. disk' = disk
      BY <1>1, <2>2 DEF Next, Click, PollService, ChangePackage, Reopen, vars
    <3>2. QED BY <1>1, <3>1
  <2>3. QED BY <2>1, <2>2
<1>2. SetupInv /\ [Next]_vars =>
         (service.package /\ disk.unit = "absent" /\ ~shell.stale => disk'.unit = "absent")
  BY <1>1
<1>3. QED BY <1>2, Invariance, PTL DEF Spec, PackageNotShadowed

(* A removal in which no call failed leaves no unit of the user, nothing   *)
(* enabled and no daemon that runs from it; the binary stays               *)
(* (bootstrap.rs:301-304).                                                 *)
THEOREM CleanRemoval == Spec => RemoveLeavesNoDaemon
<1>1. ASSUME SetupInv, [Next]_vars, shell.op = "remove", shell'.op = "none", ~shell'.missed
      PROVE  /\ disk'.unit = "absent" /\ disk'.bin = disk.bin
             /\ ~service'.enabled /\ service'.running # "user"
  <2>1. PICK ok \in BOOLEAN, n \in 1 .. Len(Steps(shell.op)) :
            Returns(ok, n) /\ (Fails(ok, n) \/ Finishes(ok, n))
    BY <1>1, EndReturns DEF Operations
  <2>2. SetupType
    BY <1>1 DEF SetupInv
  <2>3. ~Fails(ok, n)
    BY <1>1, <2>2, FailsShell
  <2>4. Finishes(ok, n) /\ n = 4
    BY <1>1, <2>1, <2>3, RemoveCalls DEF Finishes
  <2>5. ~Missed(ok)
    <3>1. shell.op \in Operations
      BY <1>1 DEF Operations
    <3>2. shell'.missed <=> Missed(ok)
      BY <2>2, <2>4, <3>1, FinishesShell
    <3>3. QED BY <1>1, <3>2
  <2>6. RemoveSoFar(4)
    BY <1>1, <2>1, <2>4 DEF Returns, UnderWay
  <2>7. disk["unit"] = "absent" /\ ~service.enabled /\ service.running = "nothing"
    BY <2>5, <2>6 DEF Missed, RemoveSoFar
  <2>8. Steps(shell.op)[n] = "reload"
    BY <1>1, <2>4, RemoveCalls
  <2>9. disk' = disk /\ service' = service
    BY <2>1, <2>8 DEF Returns, DiskAfter, ServiceAfter
  <2>10. QED BY <2>7, <2>9
<1>2. SetupInv /\ [Next]_vars =>
         (shell.op = "remove" /\ shell'.op = "none" /\ ~shell'.missed
            => /\ disk'.unit = "absent" /\ disk'.bin = disk.bin
               /\ ~service'.enabled /\ service'.running # "user")
  BY <1>1
<1>3. QED BY <1>2, Invariance, PTL DEF Spec, RemoveLeavesNoDaemon
=============================================================================
