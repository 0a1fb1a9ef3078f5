------------------------------- MODULE TdpProofs -------------------------------
(***************************************************************************)
(* Tdp for any windows, limits and bounds: TypeOK, OkMeansInForce,         *)
(* BurstNotBelowSustained and TdpInstalledWhole.                           *)
(*                                                                         *)
(* The arguments of a helper are in order before it starts, so what the    *)
(* sliders and other windows do later does not matter; and a helper that   *)
(* runs alone has put in force exactly what it has written.                *)
(***************************************************************************)
EXTENDS Tdp, TLAPS

LEMMA SpendType ==
    ASSUME TypeOK, NEW what \in {"applies", "installs", "reopens"}, Spend(what),
           \/ what = "applies"  /\ used.applies < MaxApplies
           \/ what = "installs" /\ used.installs < MaxInstalls
           \/ what = "reopens"  /\ used.reopens < MaxReopens
    PROVE  used' \in [applies : 0 .. MaxApplies, installs : 0 .. MaxInstalls,
                      reopens : 0 .. MaxReopens]
BY TdpAssumption DEF TypeOK, Spend

(* What the sliders can show.                                              *)
OnSliders(d) == d \in Limits /\ d.pl1 <= Pl1Max /\ d.pl2 <= Pl2Max

LEMMA ClampedType == ASSUME NEW l \in Limits PROVE OnSliders(Clamped(l))
<1>1. l.pl1 \in Nat /\ l.pl2 \in Nat /\ l.pl1 \in Watts /\ l.pl2 \in Watts
  BY TdpAssumption DEF Limits
<1>2. Pl1Max \in Watts /\ Pl2Max \in Watts /\ Pl1Max \in Nat /\ Pl2Max \in Nat
  BY TdpAssumption
<1>3. QED BY <1>1, <1>2 DEF Clamped, Clamp, OnSliders, Limits

LEMMA RaisedType ==
    ASSUME NEW d, OnSliders(d)
    PROVE  OnSliders(Raised(d)) /\ Raised(d).pl1 <= Raised(d).pl2
<1>1. d.pl1 \in Nat /\ d.pl2 \in Nat /\ Pl1Max <= Pl2Max /\ Pl1Max \in Nat /\ Pl2Max \in Nat
  BY TdpAssumption DEF OnSliders, Limits
<1>2. QED BY <1>1 DEF Raised, OnSliders, Limits

(* A tab with its drafts where the sliders can put them.                   *)
GoodTab(t) == t \in Tabs /\ OnSliders(t.draft)

LEMMA FreshTabType ==
    ASSUME NEW l \in Limits, NEW r \in [RootFiles -> Contents]
    PROVE  GoodTab(FreshTab(l, r))
<1>1. OnSliders(Clamped(l)) /\ Clamped(l) \in Limits
  BY ClampedType DEF OnSliders
<1>2. QED BY <1>1 DEF FreshTab, GoodTab, Tabs, OnSliders

(* The tabs after a change of the one of w.                                *)
LEMMA TabsType ==
    ASSUME TypeOK, NEW w \in Windows, NEW t, GoodTab(t), tab' = [tab EXCEPT ![w] = t]
    PROVE  tab' \in [Windows -> Tabs] /\ \A v \in Windows : OnSliders(tab'[v].draft)
BY DEF TypeOK, GoodTab, OnSliders, Tabs

LEMMA GoodTabs == TypeOK => \A w \in Windows : GoodTab(tab[w])
BY DEF TypeOK, GoodTab, OnSliders, Tabs

LEMMA JobType ==
    ASSUME TypeOK, NEW w \in Windows
    PROVE  IF Idle(w) THEN tab[w].job.at = "none" ELSE tab[w].job \in Jobs
<1>1. tab[w].job \in Jobs \cup {NoJob}
  BY GoodTabs DEF GoodTab, Tabs
<1>2. NoJob.at = "none"
  BY DEF NoJob
<1>3. QED BY <1>1, <1>2 DEF Idle

LEMMA TdpTypeStep == ASSUME TypeOK, [Next]_vars PROVE TypeOK'
<1> USE DEF OnSliders
<1>1. CASE ClickInstall
  <2>1. tab' = [tab EXCEPT ![Installer].install = "none"]
    BY <1>1 DEF ClickInstall
  <2>2. GoodTab([tab[Installer] EXCEPT !.install = "none"])
    BY GoodTabs, TdpAssumption DEF GoodTab, Tabs
  <2>3. tab' \in [Windows -> Tabs] /\ \A v \in Windows : OnSliders(tab'[v].draft)
    BY <2>1, <2>2, TdpAssumption, TabsType
  <2>4. todo' \in Seq(RootFiles)
    BY <1>1 DEF ClickInstall, RootFiles
  <2>5. QED BY <1>1, <2>3, <2>4, SpendType DEF ClickInstall, TypeOK
<1>2. CASE InstallStep
  <2>1. PICK ok \in BOOLEAN :
          LET failed == StopsAt(ok, Len(todo))
              over   == failed \/ Len(todo) = 1
          IN  /\ root' \in IF ok THEN {[root EXCEPT ![Head(todo)] = "new"]}
                           ELSE {root, [root EXCEPT ![Head(todo)] = "broken"]}
              /\ todo' = IF over THEN <<>> ELSE Tail(todo)
              /\ tab' = [tab EXCEPT ![Installer].install =
                                       IF ~over THEN @ ELSE IF failed THEN "err" ELSE "ok",
                                    ![Installer].ready = @ \/ (over /\ ~failed)]
    BY <1>2 DEF InstallStep
  <2> DEFINE over == StopsAt(ok, Len(todo)) \/ Len(todo) = 1
             told == IF ~over THEN tab[Installer].install
                     ELSE IF StopsAt(ok, Len(todo)) THEN "err" ELSE "ok"
             set  == tab[Installer].ready \/ (over /\ ~StopsAt(ok, Len(todo)))
  <2>2. tab' = [tab EXCEPT ![Installer] = [tab[Installer] EXCEPT !.install = told, !.ready = set]]
    BY <2>1, TdpAssumption DEF TypeOK, Tabs
  <2>3. told \in {"none", "ok", "err"} /\ set \in BOOLEAN
    BY TdpAssumption, GoodTabs DEF GoodTab, Tabs
  <2> HIDE DEF told, set
  <2>4. GoodTab([tab[Installer] EXCEPT !.install = told, !.ready = set])
    BY <2>3, GoodTabs, TdpAssumption DEF GoodTab, Tabs
  <2>5. tab' \in [Windows -> Tabs] /\ \A v \in Windows : OnSliders(tab'[v].draft)
    BY <2>2, <2>4, TdpAssumption, TabsType
  <2>6. root' \in [RootFiles -> Contents]
    BY <2>1 DEF TypeOK, Contents
  <2>7. todo' \in Seq(RootFiles)
    BY <1>2, <2>1 DEF TypeOK, InstallStep
  <2>8. QED BY <1>2, <2>5, <2>6, <2>7 DEF InstallStep, TypeOK
<1>3. ASSUME NEW w \in Windows, Refresh(w) PROVE TypeOK'
  <2>1. GoodTab([tab[w] EXCEPT !.snap = rapl])
    BY GoodTabs DEF GoodTab, Tabs, TypeOK
  <2>2. tab' \in [Windows -> Tabs] /\ \A v \in Windows : OnSliders(tab'[v].draft)
    BY <1>3, <2>1, TabsType DEF Refresh
  <2>3. QED BY <1>3, <2>2 DEF Refresh, TypeOK
<1>4. ASSUME NEW w \in Windows, MoveSlider(w) PROVE TypeOK'
  <2>1. PICK d \in {[tab[w].draft EXCEPT !.pl1 = n] : n \in 0 .. Pl1Max} \cup
                   {[tab[w].draft EXCEPT !.pl2 = n] : n \in 0 .. Pl2Max} :
               tab' = [tab EXCEPT ![w].draft = Raised(d)]
    BY <1>4 DEF MoveSlider
  <2>2. OnSliders(d)
    BY GoodTabs, TdpAssumption DEF GoodTab, Limits
  <2>3. OnSliders(Raised(d))
    BY <2>2, RaisedType
  <2>4. GoodTab([tab[w] EXCEPT !.draft = Raised(d)])
    BY <2>3, GoodTabs DEF GoodTab, Tabs
  <2>5. tab' \in [Windows -> Tabs] /\ \A v \in Windows : OnSliders(tab'[v].draft)
    BY <2>1, <2>4, TabsType
  <2>6. QED BY <1>4, <2>5 DEF MoveSlider, TypeOK
<1>5. ASSUME NEW w \in Windows, Reset(w) PROVE TypeOK'
  <2>1. OnSliders(Clamped(tab[w].snap))
    BY GoodTabs, ClampedType DEF GoodTab, Tabs
  <2>2. GoodTab([tab[w] EXCEPT !.draft = Clamped(tab[w].snap)])
    BY <2>1, GoodTabs DEF GoodTab, Tabs
  <2>3. tab' \in [Windows -> Tabs] /\ \A v \in Windows : OnSliders(tab'[v].draft)
    BY <1>5, <2>2, TabsType DEF Reset
  <2>4. QED BY <1>5, <2>3 DEF Reset, TypeOK
<1>6. ASSUME NEW w \in Windows, Apply(w) PROVE TypeOK'
  <2> DEFINE args == Raised(tab[w].draft)
             lone == {v \in Windows \ {w} : ~Idle(v)} = {}
             mine == [tab[w] EXCEPT !.draft = args, !.last = "none",
                                    !.job = [at |-> "asked", args |-> args, alone |-> lone]]
  <2>1. tab' = [v \in Windows |->
                  IF v = w THEN mine
                  ELSE IF v \in {u \in Windows \ {w} : ~Idle(u)}
                       THEN [tab[v] EXCEPT !.job.alone = FALSE]
                       ELSE tab[v]]
    BY <1>6 DEF Apply
  <2>2. OnSliders(args)
    BY GoodTabs, RaisedType DEF GoodTab
  <2>3. lone \in BOOLEAN
    OBVIOUS
  <2> HIDE DEF args, lone
  <2>4. GoodTab(mine)
    BY <2>2, <2>3, GoodTabs DEF GoodTab, Tabs, Jobs
  <2>5. \A v \in Windows : ~Idle(v) => GoodTab([tab[v] EXCEPT !.job.alone = FALSE])
    BY GoodTabs DEF GoodTab, Tabs, Jobs, Idle
  <2>6. tab' \in [Windows -> Tabs] /\ \A v \in Windows : OnSliders(tab'[v].draft)
    BY <2>1, <2>4, <2>5, GoodTabs DEF GoodTab
  <2>7. torn' \in BOOLEAN
    BY <1>6 DEF Apply, TypeOK
  <2>8. QED BY <1>6, <2>6, <2>7, SpendType DEF Apply, TypeOK
<1>7. ASSUME NEW w \in Windows, NEW at \in {"write 0", "write 1", "done", "failed"},
             JobTo(w, at), ~Idle(w)
      PROVE  tab' \in [Windows -> Tabs] /\ \A v \in Windows : OnSliders(tab'[v].draft)
  <2>1. GoodTab([tab[w] EXCEPT !.job.at = at])
    BY <1>7, GoodTabs DEF GoodTab, Tabs, Jobs, Idle
  <2>2. QED BY <1>7, <2>1, TabsType DEF JobTo
<1>8. ASSUME NEW w \in Windows, Authorize(w) PROVE TypeOK'
  <2>1. ~Idle(w)
    BY <1>8, JobType DEF Authorize
  <2>2. JobTo(w, "write 0") \/ JobTo(w, "failed")
    BY <1>8 DEF Authorize
  <2>3. tab' \in [Windows -> Tabs] /\ \A v \in Windows : OnSliders(tab'[v].draft)
    BY <1>7, <2>1, <2>2
  <2>4. QED BY <1>8, <2>3 DEF Authorize, TypeOK
<1>9. ASSUME NEW w \in Windows, WriteLimit(w) PROVE TypeOK'
  <2>1. ~Idle(w) /\ tab[w].job \in Jobs
    BY <1>9, JobType DEF WriteLimit
  <2>2. tab[w].job.args.pl1 \in Watts /\ tab[w].job.args.pl2 \in Watts
    BY <2>1 DEF Jobs, Limits
  <2>3. rapl' \in Limits /\ torn' \in BOOLEAN
    BY <1>9, <2>2 DEF WriteLimit, TypeOK, Limits
  <2>4. \E at \in {"write 0", "write 1", "done", "failed"} : JobTo(w, at)
    BY <1>9 DEF WriteLimit, AfterFailedWrite
  <2>5. tab' \in [Windows -> Tabs] /\ \A v \in Windows : OnSliders(tab'[v].draft)
    BY <1>7, <2>1, <2>4
  <2>6. QED BY <1>9, <2>3, <2>5 DEF WriteLimit, TypeOK
<1>10. ASSUME NEW w \in Windows, Collect(w) PROVE TypeOK'
  <2> DEFINE said == IF tab[w].job.at = "done" THEN "ok" ELSE "err"
  <2>1. GoodTab([tab[w] EXCEPT !.job = NoJob, !.last = said])
    BY GoodTabs DEF GoodTab, Tabs
  <2>2. tab' = [tab EXCEPT ![w] = [tab[w] EXCEPT !.job = NoJob, !.last = said]]
    BY <1>10 DEF Collect, TypeOK, Tabs
  <2>3. tab' \in [Windows -> Tabs] /\ \A v \in Windows : OnSliders(tab'[v].draft)
    BY <2>1, <2>2, TabsType
  <2>4. QED BY <1>10, <2>3 DEF Collect, TypeOK
<1>11. ASSUME NEW w \in Windows, Reopen(w) PROVE TypeOK'
  <2>1. GoodTab(FreshTab(rapl, root))
    BY FreshTabType DEF TypeOK
  <2>2. tab' \in [Windows -> Tabs] /\ \A v \in Windows : OnSliders(tab'[v].draft)
    BY <1>11, <2>1, TabsType DEF Reopen
  <2>3. QED BY <1>11, <2>2, SpendType DEF Reopen, TypeOK
<1>12. CASE UNCHANGED vars
  BY <1>12 DEF vars, TypeOK
<1>13. QED BY <1>1, <1>2, <1>3, <1>4, <1>5, <1>6, <1>8, <1>9, <1>10, <1>11, <1>12 DEF Next

(* Types, and the sliders stay in their range: what is raised to the       *)
(* sustained limit still fits the burst slider.                            *)
THEOREM TdpTypeCorrect == Spec => []TypeOK
<1>1. <<>> \in Seq(RootFiles)
  OBVIOUS
<1>2. Init => TypeOK
  <2> SUFFICES ASSUME Init PROVE TypeOK
    OBVIOUS
  <2>1. rapl \in Limits /\ root \in [RootFiles -> Contents]
    BY DEF Init, Contents
  <2>2. GoodTab(FreshTab(rapl, root))
    BY <2>1, FreshTabType
  <2>3. used \in [applies : 0 .. MaxApplies, installs : 0 .. MaxInstalls, reopens : 0 .. MaxReopens]
    BY TdpAssumption DEF Init
  <2>4. tab \in [Windows -> Tabs] /\ \A w \in Windows : OnSliders(tab[w].draft)
    <3>1. tab = [w \in Windows |-> FreshTab(rapl, root)]
      BY DEF Init
    <3>2. QED BY <2>2, <3>1 DEF GoodTab
  <2>5. todo \in Seq(RootFiles) /\ torn \in BOOLEAN
    BY <1>1 DEF Init
  <2>6. QED BY <2>1, <2>3, <2>4, <2>5 DEF TypeOK, OnSliders
<1>3. TypeOK /\ [Next]_vars => TypeOK'
  BY TdpTypeStep
<1>4. QED BY <1>2, <1>3, PTL DEF Spec

-----------------------------------------------------------------------------
(* The helper of a window.                                                 *)
Stage(w) == tab[w].job.at
Args(w)  == tab[w].job.args
Alone(w) == tab[w].job.alone

(* What a helper has done so far, if it is the only one.                   *)
Written(w) ==
    ~Idle(w) => /\ Args(w).pl1 <= Args(w).pl2
                /\ Alone(w) => /\ \A v \in Windows \ {w} : Idle(v)
                               /\ Stage(w) = "write 1" => rapl.pl1 = Args(w).pl1
                               /\ Stage(w) = "done" => rapl = Args(w)

(* Helpers do not overlap, each leaves the limits in order; in between     *)
(* only the first of the two is new.                                       *)
Ordered ==
    ~torn => /\ \A w \in Windows : ~Idle(w) => Alone(w)
             /\ rapl.pl1 <= rapl.pl2 \/ \E w \in Windows : Stage(w) = "write 1"

HelperInv == (\A w \in Windows : Written(w)) /\ Ordered

LEMMA StageType ==
    ASSUME TypeOK, NEW w \in Windows
    PROVE  /\ Idle(w) <=> Stage(w) = "none"
           /\ ~Idle(w) => Args(w) \in Limits /\ Alone(w) \in BOOLEAN
<1>1. \A j \in Jobs : j.at # "none" /\ j.args \in Limits /\ j.alone \in BOOLEAN
  BY DEF Jobs
<1>2. QED BY <1>1, JobType DEF Stage, Args, Alone

LEMMA StageTypeThen == TypeOK' => \A w \in Windows : Idle(w)' <=> Stage(w)' = "none"
<1>1. \A t \in Tabs : t.job = NoJob <=> t.job.at = "none"
  <2>1. \A j \in Jobs \cup {NoJob} : j = NoJob <=> j.at = "none"
    <3>1. \A j \in Jobs : j.at # "none"
      BY DEF Jobs
    <3>2. NoJob.at = "none"
      BY DEF NoJob
    <3>3. QED BY <3>1, <3>2
  <2>2. QED BY <2>1 DEF Tabs
<1>2. TypeOK' => \A w \in Windows : tab'[w] \in Tabs
  BY DEF TypeOK
<1>3. QED BY <1>1, <1>2 DEF Idle, Stage

(* The helper of w is left as it is.                                       *)
Kept(w) == /\ Idle(w)' = Idle(w) /\ Stage(w)' = Stage(w)
           /\ Args(w)' = Args(w) /\ Alone(w)' = Alone(w)

LEMMA KeptJob == ASSUME NEW w, tab'[w].job = tab[w].job PROVE Kept(w)
BY DEF Kept, Idle, Stage, Args, Alone

(* The helper of w goes on to a stage, and no other does anything.         *)
LEMMA JobToStage ==
    ASSUME TypeOK, TypeOK', NEW w \in Windows, ~Idle(w),
           NEW at \in {"write 0", "write 1", "done", "failed"}, JobTo(w, at)
    PROVE  /\ ~Idle(w)' /\ Stage(w)' = at /\ Args(w)' = Args(w) /\ Alone(w)' = Alone(w)
           /\ \A v \in Windows \ {w} : Kept(v)
<1> DEFINE job == [tab[w].job EXCEPT !.at = at]
<1>1. tab' = [tab EXCEPT ![w] = [tab[w] EXCEPT !.job = job]]
  BY DEF JobTo
<1>2. job.at = at /\ job.args = tab[w].job.args /\ job.alone = tab[w].job.alone
  BY JobType DEF Jobs
<1> HIDE DEF job
<1>3. tab'[w].job = job
  <2>1. tab'[w] = [tab[w] EXCEPT !.job = job]
    BY <1>1 DEF TypeOK
  <2>2. \A t \in Tabs : [t EXCEPT !.job = job].job = job
    BY DEF Tabs
  <2>3. QED BY <2>1, <2>2 DEF TypeOK
<1>4. \A v \in Windows \ {w} : tab'[v].job = tab[v].job
  BY <1>1 DEF TypeOK
<1>5. Stage(w)' = at /\ Args(w)' = Args(w) /\ Alone(w)' = Alone(w)
  BY <1>2, <1>3 DEF Stage, Args, Alone
<1>6. ~Idle(w)'
  <2>1. at # "none"
    OBVIOUS
  <2>2. Idle(w)' <=> Stage(w)' = "none"
    BY StageTypeThen
  <2>3. QED BY <1>5, <2>1, <2>2
<1>7. QED BY <1>4, <1>5, <1>6, KeptJob

LEMMA HelperStep == ASSUME TypeOK, TypeOK', HelperInv, [Next]_vars PROVE HelperInv'
<1>1. ASSUME \A v \in Windows : Kept(v), UNCHANGED <<rapl, torn>> PROVE HelperInv'
  BY <1>1 DEF HelperInv, Written, Ordered, Kept
<1>2. CASE InstallStep
  <2>1. PICK told, set : tab' = [tab EXCEPT ![Installer].install = told, ![Installer].ready = set]
    BY <1>2 DEF InstallStep
  <2>2. \A v \in Windows : tab'[v].job = tab[v].job
    BY <2>1 DEF TypeOK, Tabs
  <2>3. UNCHANGED <<rapl, torn>>
    BY <1>2 DEF InstallStep
  <2>4. QED BY <1>1, <2>2, <2>3, KeptJob
<1>3. CASE ClickInstall \/ UNCHANGED vars
  <2>1. \A v \in Windows : tab'[v].job = tab[v].job
    BY <1>3 DEF ClickInstall, vars, TypeOK, Tabs
  <2>2. UNCHANGED <<rapl, torn>>
    BY <1>3 DEF ClickInstall, vars
  <2>3. QED BY <1>1, <2>1, <2>2, KeptJob
<1>4. ASSUME NEW w \in Windows, Refresh(w) \/ MoveSlider(w) \/ Reset(w) PROVE HelperInv'
  <2>1. \A v \in Windows : tab'[v].job = tab[v].job
    BY <1>4 DEF Refresh, MoveSlider, Reset, TypeOK, Tabs
  <2>2. UNCHANGED <<rapl, torn>>
    BY <1>4 DEF Refresh, MoveSlider, Reset
  <2>3. QED BY <1>1, <2>1, <2>2, KeptJob
<1>5. ASSUME NEW w \in Windows, Reopen(w) PROVE HelperInv'
  <2>1. tab'[w].job = NoJob /\ tab[w].job = NoJob
    BY <1>5 DEF Reopen, FreshTab, TypeOK, Idle
  <2>2. \A v \in Windows \ {w} : tab'[v] = tab[v]
    BY <1>5 DEF Reopen, TypeOK
  <2>3. UNCHANGED <<rapl, torn>>
    BY <1>5 DEF Reopen
  <2>4. \A v \in Windows : tab'[v].job = tab[v].job
    BY <2>1, <2>2
  <2>5. QED BY <1>1, <2>3, <2>4, KeptJob
<1>6. ASSUME NEW w \in Windows, Apply(w) PROVE HelperInv'
  <2> DEFINE args == Raised(tab[w].draft)
             others == {v \in Windows \ {w} : ~Idle(v)}
             lone == others = {}
  <2>1. /\ tab' = [v \in Windows |->
                    IF v = w
                    THEN [tab[v] EXCEPT !.draft = args, !.last = "none",
                             !.job = [at |-> "asked", args |-> args, alone |-> lone]]
                    ELSE IF v \in others THEN [tab[v] EXCEPT !.job.alone = FALSE]
                    ELSE tab[v]]
        /\ torn' = (torn \/ others # {})
        /\ UNCHANGED rapl
    BY <1>6 DEF Apply
  <2>2. Idle(w)
    BY <1>6 DEF Apply
  <2>3. args.pl1 <= args.pl2
    BY GoodTabs, RaisedType DEF GoodTab
  <2>4. lone \in BOOLEAN
    OBVIOUS
  <2> HIDE DEF args, lone
  <2>5. tab'[w].job = [at |-> "asked", args |-> args, alone |-> lone]
    BY <2>1, GoodTabs DEF GoodTab, Tabs
  <2>6. Stage(w)' = "asked" /\ Args(w)' = args /\ Alone(w)' = lone
    BY <2>5 DEF Stage, Args, Alone
  <2>7. \A v \in Windows \ {w} : Idle(v) => Kept(v)
    BY <2>1, KeptJob
  <2>8. ASSUME NEW v \in Windows \ {w}, ~Idle(v)
        PROVE  Stage(v)' = Stage(v) /\ Args(v)' = Args(v) /\ Alone(v)' = FALSE
    <3> DEFINE job == [tab[v].job EXCEPT !.alone = FALSE]
    <3>1. tab'[v] = [tab[v] EXCEPT !.job = job]
      BY <2>1, <2>8
    <3>2. job.at = tab[v].job.at /\ job.args = tab[v].job.args /\ job.alone = FALSE
      BY <2>8, JobType DEF Jobs
    <3> HIDE DEF job
    <3>3. tab'[v].job = job
      BY <3>1, GoodTabs DEF GoodTab, Tabs
    <3>4. QED BY <3>2, <3>3 DEF Stage, Args, Alone
  <2>9. \A v \in Windows : Idle(v)' <=> Stage(v)' = "none"
    BY StageTypeThen
  <2>10. Written(w)'
    <3>1. lone => \A v \in Windows \ {w} : Idle(v)'
      BY <2>7 DEF lone, Kept
    <3>2. QED BY <2>3, <2>6, <3>1 DEF Written
  <2>11. ASSUME NEW v \in Windows \ {w} PROVE Written(v)'
    <3>1. CASE Idle(v)
      BY <2>7, <3>1 DEF Written, Kept
    <3>2. CASE ~Idle(v)
      BY <2>8, <3>2 DEF HelperInv, Written
    <3>3. QED BY <3>1, <3>2
  <2>12. Ordered'
    <3>1. SUFFICES ASSUME ~torn' PROVE Ordered'
      BY DEF Ordered
    <3>2. ~torn /\ others = {} /\ lone
      BY <2>1, <3>1 DEF lone
    <3>3. \A v \in Windows \ {w} : Idle(v) /\ Kept(v)
      BY <2>7, <3>2
    <3>4. \A v \in Windows : Stage(v) # "write 1"
      BY <2>2, <3>3, StageType
    <3>5. rapl'.pl1 <= rapl'.pl2
      BY <2>1, <3>2, <3>4 DEF HelperInv, Ordered
    <3>6. \A v \in Windows : ~Idle(v)' => Alone(v)'
      BY <2>6, <3>2, <3>3 DEF Kept
    <3>7. QED BY <3>5, <3>6 DEF Ordered
  <2>13. QED BY <2>10, <2>11, <2>12 DEF HelperInv
<1>7. ASSUME NEW w \in Windows, Authorize(w) PROVE HelperInv'
  <2>1. PICK at \in {"write 0", "failed"} : JobTo(w, at) /\ UNCHANGED <<rapl, torn>>
    BY <1>7 DEF Authorize
  <2>2. Stage(w) = "asked" /\ ~Idle(w)
    BY <1>7, StageType DEF Authorize, Stage
  <2>3. /\ ~Idle(w)' /\ Stage(w)' = at /\ Args(w)' = Args(w) /\ Alone(w)' = Alone(w)
        /\ \A v \in Windows \ {w} : Kept(v)
    BY <2>1, <2>2, JobToStage
  <2>4. QED BY <2>1, <2>2, <2>3 DEF HelperInv, Written, Ordered, Kept
<1>8. ASSUME NEW w \in Windows, WriteLimit(w) PROVE HelperInv'
  <2>1. Stage(w) \in {"write 0", "write 1"} /\ ~Idle(w)
    BY <1>8, StageType DEF WriteLimit, Stage
  <2>2. PICK next \in {"write 1", "done", "failed"} :
          /\ JobTo(w, next)
          /\ \/ /\ Stage(w) = "write 0" /\ next = "write 1" /\ UNCHANGED torn
                /\ rapl' = [rapl EXCEPT !.pl1 = Args(w).pl1]
             \/ /\ Stage(w) = "write 1" /\ next = "done" /\ UNCHANGED torn
                /\ rapl' = [rapl EXCEPT !.pl2 = Args(w).pl2]
             \/ next = "failed" /\ rapl' = rapl /\ torn' = (torn \/ Stage(w) = "write 1")
    BY <1>8 DEF WriteLimit, AfterFailedWrite, Stage, Args
  <2>3. /\ ~Idle(w)' /\ Stage(w)' = next /\ Args(w)' = Args(w) /\ Alone(w)' = Alone(w)
        /\ \A v \in Windows \ {w} : Kept(v)
    BY <2>1, <2>2, JobToStage
  <2>4. Args(w) \in Limits /\ Args(w).pl1 <= Args(w).pl2
    BY <2>1, StageType DEF HelperInv, Written
  <2>5. Alone(w) => /\ \A v \in Windows \ {w} : Idle(v)
                    /\ Stage(w) = "write 1" => rapl.pl1 = Args(w).pl1
    BY <2>1 DEF HelperInv, Written
  <2>6. rapl \in Limits
    BY DEF TypeOK
  <2>7. Alone(w) => /\ next = "write 1" => rapl'.pl1 = Args(w).pl1
                    /\ next = "done" => rapl' = Args(w)
    BY <2>2, <2>4, <2>5, <2>6 DEF Limits
  <2>8. Written(w)'
    BY <2>3, <2>4, <2>5, <2>7 DEF Written, Kept
  <2>9. ASSUME NEW v \in Windows \ {w} PROVE Written(v)'
    <3>1. Written(v) /\ Kept(v)
      BY <2>3 DEF HelperInv
    <3>2. ~Idle(v) => ~Alone(v) /\ Args(v).pl1 <= Args(v).pl2
      BY <2>1, <3>1 DEF Written
    <3>3. QED BY <3>1, <3>2 DEF Written, Kept
  <2>10. Ordered'
    <3>1. SUFFICES ASSUME ~torn' PROVE Ordered'
      BY DEF Ordered
    <3>2. ~torn
      BY <2>2, <3>1
    <3>3. Alone(w) /\ \A v \in Windows \ {w} : Idle(v) /\ Kept(v)
      BY <2>1, <2>3, <2>5, <3>2 DEF HelperInv, Ordered
    <3>4. \A v \in Windows : ~Idle(v)' => Alone(v)'
      BY <2>3, <3>3 DEF Kept
    <3>5. rapl'.pl1 <= rapl'.pl2 \/ Stage(w)' = "write 1"
      <4>1. CASE next = "write 1"
        BY <2>3, <4>1
      <4>2. CASE next = "done"
        BY <2>4, <2>7, <3>3, <4>2
      <4>3. CASE next = "failed"
        <5>1. rapl' = rapl /\ Stage(w) # "write 1"
          BY <2>2, <3>1, <4>3
        <5>2. \A v \in Windows : Stage(v) # "write 1"
          BY <3>3, <5>1, StageType
        <5>3. QED BY <3>2, <5>1, <5>2 DEF HelperInv, Ordered
      <4>4. QED BY <4>1, <4>2, <4>3
    <3>6. QED BY <3>4, <3>5 DEF Ordered
  <2>11. QED BY <2>8, <2>9, <2>10 DEF HelperInv
<1>9. ASSUME NEW w \in Windows, Collect(w) PROVE HelperInv'
  <2>1. ~Idle(w) /\ Stage(w) # "write 1" /\ UNCHANGED <<rapl, torn>>
    BY <1>9, StageType DEF Collect, Stage
  <2>2. tab'[w].job = NoJob /\ \A v \in Windows \ {w} : tab'[v] = tab[v]
    BY <1>9 DEF Collect, TypeOK, Tabs
  <2>3. Idle(w)' /\ \A v \in Windows \ {w} : Kept(v)
    BY <2>2, KeptJob DEF Idle
  <2>4. QED BY <2>1, <2>3 DEF HelperInv, Written, Ordered, Kept
<1>10. QED BY <1>2, <1>3, <1>4, <1>5, <1>6, <1>7, <1>8, <1>9 DEF Next

LEMMA HelperInvariant == Spec => []HelperInv
<1>1. Init => HelperInv
  <2> SUFFICES ASSUME Init PROVE HelperInv
    OBVIOUS
  <2>1. tab = [w \in Windows |-> FreshTab(rapl, root)]
    BY DEF Init
  <2>2. \A w \in Windows : Idle(w)
    BY <2>1 DEF FreshTab, Idle
  <2>3. rapl.pl1 <= rapl.pl2
    BY DEF Init
  <2>4. QED BY <2>2, <2>3 DEF HelperInv, Written, Ordered
<1>2. TypeOK /\ TypeOK' /\ HelperInv /\ [Next]_vars => HelperInv'
  BY HelperStep
<1>3. QED BY <1>1, <1>2, TdpTypeCorrect, PTL DEF Spec

(* A helper that ran alone and reports success has put both limits in      *)
(* force, in however many windows Apply was clicked before.                *)
THEOREM SuccessIsInForce == Spec => []OkMeansInForce
<1>1. TypeOK /\ HelperInv => OkMeansInForce
  BY StageType DEF HelperInv, Written, OkMeansInForce, Stage, Args, Alone
<1>2. QED BY <1>1, TdpTypeCorrect, HelperInvariant, PTL

(* No pair of limits with the burst below the sustained one is left behind *)
(* by helpers that ran one at a time and whose second write succeeded.     *)
THEOREM LimitsStayOrdered == Spec => []BurstNotBelowSustained
<1>1. TypeOK /\ HelperInv => BurstNotBelowSustained
  BY StageType DEF HelperInv, Ordered, BurstNotBelowSustained
<1>2. QED BY <1>1, TdpTypeCorrect, HelperInvariant, PTL

-----------------------------------------------------------------------------
(* The script writes in order, and what it has written stays written.      *)
InstallInv ==
    LET new == {f \in RootFiles : root[f] = "new"}
    IN  /\ \/ todo \in {<<>>, <<"helper", "policy", "udev">>}
           \/ todo = <<"policy", "udev">> /\ "helper" \in new
           \/ todo = <<"udev">> /\ {"helper", "policy"} \subseteq new
        /\ todo # <<>> => tab[Installer].install = "none"
        /\ TdpInstalledWhole

LEMMA InstallStepInv == ASSUME TypeOK, InstallInv, [Next]_vars PROVE InstallInv'
<1>1. CASE ClickInstall
  <2>1. tab'[Installer].install = "none" /\ todo' = <<"helper", "policy", "udev">>
    BY <1>1, TdpAssumption DEF ClickInstall, TypeOK, Tabs
  <2>2. QED BY <2>1 DEF InstallInv, TdpInstalledWhole
<1>2. CASE InstallStep
  <2> DEFINE last == Len(todo) = 1
  <2>1. PICK ok \in BOOLEAN :
          /\ root' \in IF ok THEN {[root EXCEPT ![Head(todo)] = "new"]}
                       ELSE {root, [root EXCEPT ![Head(todo)] = "broken"]}
          /\ todo' = IF ~ok \/ last THEN <<>> ELSE Tail(todo)
          /\ tab' = [tab EXCEPT ![Installer].install =
                                  IF ~(~ok \/ last) THEN @ ELSE IF ~ok THEN "err" ELSE "ok",
                                ![Installer].ready = @ \/ ((~ok \/ last) /\ ok)]
    BY <1>2 DEF InstallStep, StopsAt
  <2>2. tab'[Installer].install = IF ~ok THEN "err" ELSE IF last THEN "ok"
                                  ELSE tab[Installer].install
    BY <2>1, TdpAssumption DEF TypeOK, Tabs
  <2>3. tab[Installer].install = "none"
    BY <1>2 DEF InstallStep, InstallInv
  <2>4. CASE ~ok
    BY <2>1, <2>2, <2>4 DEF InstallInv, TdpInstalledWhole
  <2>5. CASE ok /\ todo = <<"helper", "policy", "udev">>
    <3>1. root' = [root EXCEPT !["helper"] = "new"] /\ todo' = <<"policy", "udev">> /\ ~last
      BY <2>1, <2>5
    <3>2. root'["helper"] = "new"
      BY <3>1 DEF TypeOK, RootFiles
    <3>3. QED BY <2>2, <2>3, <2>5, <3>1, <3>2 DEF InstallInv, TdpInstalledWhole, RootFiles
  <2>6. CASE ok /\ todo = <<"policy", "udev">> /\ root["helper"] = "new"
    <3>1. root' = [root EXCEPT !["policy"] = "new"] /\ todo' = <<"udev">> /\ ~last
      BY <2>1, <2>6
    <3>2. root'["helper"] = "new" /\ root'["policy"] = "new"
      BY <2>6, <3>1 DEF TypeOK, RootFiles
    <3>3. QED BY <2>2, <2>3, <2>6, <3>1, <3>2 DEF InstallInv, TdpInstalledWhole, RootFiles
  <2>7. CASE ok /\ todo = <<"udev">> /\ root["helper"] = "new" /\ root["policy"] = "new"
    <3>1. root' = [root EXCEPT !["udev"] = "new"] /\ todo' = <<>> /\ last
      BY <2>1, <2>7
    <3>2. root'["helper"] = "new" /\ root'["policy"] = "new" /\ root'["udev"] = "new"
      BY <2>7, <3>1 DEF TypeOK, RootFiles
    <3>3. QED BY <2>2, <2>7, <3>1, <3>2 DEF InstallInv, TdpInstalledWhole, RootFiles
  <2>8. QED BY <1>2, <2>4, <2>5, <2>6, <2>7 DEF InstallStep, InstallInv
<1>3. ASSUME NEW w \in Windows,
             \/ Refresh(w) \/ MoveSlider(w) \/ Reset(w) \/ Apply(w)
             \/ Authorize(w) \/ WriteLimit(w) \/ Collect(w) \/ Reopen(w)
      PROVE  InstallInv'
  <2>1. UNCHANGED <<root, todo>>
    BY <1>3 DEF Refresh, MoveSlider, Reset, Apply, Authorize, WriteLimit, Collect, Reopen
  <2>2. tab'[Installer].install \in {"none", tab[Installer].install}
    <3>1. CASE Apply(w)
      BY <3>1, TdpAssumption DEF Apply, TypeOK, Tabs
    <3>2. CASE Reopen(w)
      BY <3>2, TdpAssumption DEF Reopen, FreshTab, TypeOK
    <3>3. CASE Authorize(w) \/ WriteLimit(w)
      <4>1. PICK at : JobTo(w, at)
        BY <3>3 DEF Authorize, WriteLimit
      <4>2. PICK x : tab' = [tab EXCEPT ![w].job = x]
        BY <4>1 DEF JobTo
      <4>3. QED BY <4>2, TdpAssumption DEF TypeOK, Tabs
    <3>4. CASE Refresh(w) \/ MoveSlider(w) \/ Reset(w)
      BY <3>4, TdpAssumption DEF Refresh, MoveSlider, Reset, TypeOK, Tabs
    <3>5. CASE Collect(w)
      <4>1. PICK said : tab' = [tab EXCEPT ![w].job = NoJob, ![w].last = said]
        BY <3>5 DEF Collect
      <4>2. QED BY <4>1, TdpAssumption DEF TypeOK, Tabs
    <3>6. QED BY <1>3, <3>1, <3>2, <3>3, <3>4, <3>5
  <2>3. QED BY <2>1, <2>2 DEF InstallInv, TdpInstalledWhole
<1>4. CASE UNCHANGED vars
  BY <1>4 DEF vars, InstallInv, TdpInstalledWhole
<1>5. QED BY <1>1, <1>2, <1>3, <1>4 DEF Next

(* Success is reported only when the helper, its policy and the udev rule  *)
(* are all in place, whichever of them earlier installations broke.        *)
THEOREM InstallIsWhole == Spec => []TdpInstalledWhole
<1>1. Init => InstallInv
  BY TdpAssumption DEF Init, FreshTab, InstallInv, TdpInstalledWhole
<1>2. TypeOK /\ InstallInv /\ [Next]_vars => InstallInv'
  BY InstallStepInv
<1>3. InstallInv => TdpInstalledWhole
  BY DEF InstallInv
<1>4. QED BY <1>1, <1>2, <1>3, TdpTypeCorrect, PTL DEF Spec
=============================================================================
