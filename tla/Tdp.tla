--------------------------------- MODULE Tdp ---------------------------------
(***************************************************************************)
(* The TDP tab (gui/tdp.rs) in windows that may be several, the root       *)
(* helper nbk-set-rapl (rapl_helper.rs) each may have running, and         *)
(* install_tdp (bootstrap.rs), which a window waits for.                   *)
(*                                                                         *)
(* Power limits are whole watts.  The readouts of temperature, power and   *)
(* PL3 are left out, and so is the search for a polkit agent: that none    *)
(* runs is one of the ways a click fails.                                  *)
(***************************************************************************)
EXTENDS Naturals, Sequences

CONSTANTS Windows,     \* GUI processes
          Installer,   \* the window whose install button is used
          Watts,       \* limits the registers may hold
          Pl1Max,      \* PL1_MAX_W, PL2_MAX_W: the ends of the sliders
          Pl2Max,
          HelperMax,   \* MAX_UW of the helper
          MaxApplies,  \* bounds: clicks on Apply,
          MaxInstalls, \* clicks on Install,
          MaxReopens   \* windows opened again

ASSUME TdpAssumption ==
    /\ Installer \in Windows
    /\ Watts \subseteq Nat
    /\ {Pl1Max, Pl2Max, HelperMax, MaxApplies, MaxInstalls, MaxReopens} \subseteq Nat
    /\ 0 .. Pl1Max \subseteq Watts /\ 0 .. Pl2Max \subseteq Watts
    /\ Pl1Max <= Pl2Max

VARIABLES rapl,  \* the two limits in force
          root,  \* the helper, its polkit policy, the udev rule
          tab,   \* per window: TdpState and its helper process
          todo,  \* files install_tdp's script has still to write
          torn,  \* (history) a second write failed, or two helpers overlapped
          used   \* what of the bounds has been used

vars == <<rapl, root, tab, todo, torn, used>>

RootFiles == {"helper", "policy", "udev"}
Contents  == {"absent", "broken", "old", "new"}
Limits    == [pl1 : Watts, pl2 : Watts]

Unclamped(n, max) == n
Clamp(n, max) == IF n > max THEN max ELSE n
Clamped(l) == [pl1 |-> Clamp(l.pl1, Pl1Max), pl2 |-> Clamp(l.pl2, Pl2Max)]

(* "Keep PL2 >= PL1", in every frame that draws the sliders.               *)
NotRaised(d) == d
Raised(d) == IF d.pl2 < d.pl1 THEN [d EXCEPT !.pl2 = d.pl1] ELSE d

NoJob   == [at |-> "none"]
Idle(w) == tab[w].job = NoJob

(* The frame loop of a window stands still while install_tdp runs.         *)
Drawing(w) == w = Installer => todo = <<>>

(* TdpState::new: the drafts start from what the registers hold, as far as *)
(* the sliders go.                                                         *)
FreshTab(l, r) == [draft |-> Clamped(l), snap |-> l, job |-> NoJob, last |-> "none",
                   ready |-> r.helper # "absent", install |-> "none"]

(* is_dirty, after the line that keeps PL2 above PL1.                      *)
Dirty(w) == tab[w].snap # Raised(tab[w].draft)

Spend(what) == used' = [used EXCEPT ![what] = @ + 1]

(* refresh()                                                               *)
Refresh(w) ==
    /\ Drawing(w)
    /\ tab' = [tab EXCEPT ![w].snap = rapl]
    /\ UNCHANGED <<rapl, root, todo, torn, used>>

(* A frame in which a slider is moved.                                     *)
MoveSlider(w) ==
    /\ Drawing(w) /\ tab[w].ready
    /\ \E d \in {[tab[w].draft EXCEPT !.pl1 = n] : n \in 0 .. Pl1Max} \cup
                {[tab[w].draft EXCEPT !.pl2 = n] : n \in 0 .. Pl2Max} :
          tab' = [tab EXCEPT ![w].draft = Raised(d)]
    /\ UNCHANGED <<rapl, root, todo, torn, used>>

(* Reset: snap back to the snapshot, as far as the sliders go.             *)
Reset(w) ==
    /\ Drawing(w) /\ tab[w].ready /\ Idle(w) /\ Dirty(w)
    /\ tab' = [tab EXCEPT ![w].draft = Clamped(tab[w].snap)]
    /\ UNCHANGED <<rapl, root, todo, torn, used>>

(* Apply: one helper of a window at a time, when the draft differs from    *)
(* the snapshot.                                                           *)
Apply(w) ==
    /\ Drawing(w) /\ tab[w].ready /\ Idle(w) /\ Dirty(w)
    /\ used.applies < MaxApplies /\ Spend("applies")
    /\ LET args   == Raised(tab[w].draft)
           others == {v \in Windows \ {w} : ~Idle(v)}
       IN  /\ tab' = [v \in Windows |->
                  IF v = w
                  THEN [tab[v] EXCEPT !.draft = args, !.last = "none",
                           !.job = [at |-> "asked", args |-> args, alone |-> others = {}]]
                  ELSE IF v \in others THEN [tab[v] EXCEPT !.job.alone = FALSE]
                  ELSE tab[v]]
           /\ torn' = (torn \/ others # {})
    /\ UNCHANGED <<rapl, root, todo>>

-----------------------------------------------------------------------------
(* pkexec and the helper.  It may be refused, and either write may fail.   *)

JobTo(w, at) == tab' = [tab EXCEPT ![w].job.at = at]

(* parse_uw of both arguments.                                             *)
InRange(args) == args.pl1 <= HelperMax /\ args.pl2 <= HelperMax

Authorize(w) ==
    /\ tab[w].job.at = "asked"
    /\ \/ root.helper \in {"old", "new"} /\ InRange(tab[w].job.args) /\ JobTo(w, "write 0")
       \/ JobTo(w, "failed")
    /\ UNCHANGED <<rapl, root, todo, torn, used>>

AfterFailedWriteGoOn(at) == IF at = "write 0" THEN "write 1" ELSE "done"
AfterFailedWrite(at) == "failed"

(* write(0, pl1), then write(1, pl2).                                      *)
WriteLimit(w) ==
    /\ tab[w].job.at \in {"write 0", "write 1"}
    /\ LET at == tab[w].job.at
       IN  \/ /\ rapl' = IF at = "write 0" THEN [rapl EXCEPT !.pl1 = tab[w].job.args.pl1]
                         ELSE [rapl EXCEPT !.pl2 = tab[w].job.args.pl2]
              /\ JobTo(w, IF at = "write 0" THEN "write 1" ELSE "done")
              /\ UNCHANGED torn
           \/ /\ JobTo(w, AfterFailedWrite(at))
              /\ torn' = (torn \/ at = "write 1")
              /\ UNCHANGED rapl
    /\ UNCHANGED <<root, todo, used>>

(* tick(): try_wait.                                                       *)
Collect(w) ==
    /\ Drawing(w) /\ tab[w].job.at \in {"done", "failed"}
    /\ tab' = [tab EXCEPT ![w].job = NoJob,
                          ![w].last = IF tab[w].job.at = "done" THEN "ok" ELSE "err"]
    /\ UNCHANGED <<rapl, root, todo, torn, used>>

-----------------------------------------------------------------------------
(* install_tdp: pkexec sh -c "set -e ..." while the window waits.  A       *)
(* refused password is a first call that fails and changes nothing.        *)

ClickInstall ==
    /\ Drawing(Installer) /\ ~tab[Installer].ready
    /\ used.installs < MaxInstalls /\ Spend("installs")
    /\ todo' = <<"helper", "policy", "udev">>
    /\ tab' = [tab EXCEPT ![Installer].install = "none"]
    /\ UNCHANGED <<rapl, root, torn>>

StopsAtLast(ok, left) == ~ok /\ left = 1
StopsAt(ok, left) == ~ok

InstallStep ==
    /\ todo # <<>>
    /\ \E ok \in BOOLEAN :
         LET failed == StopsAt(ok, Len(todo))
             over   == failed \/ Len(todo) = 1
         IN  /\ root' \in IF ok THEN {[root EXCEPT ![Head(todo)] = "new"]}
                          ELSE {root, [root EXCEPT ![Head(todo)] = "broken"]}
             /\ todo' = IF over THEN <<>> ELSE Tail(todo)
             /\ tab' = [tab EXCEPT ![Installer].install =
                                      IF ~over THEN @ ELSE IF failed THEN "err" ELSE "ok",
                                   ![Installer].ready = @ \/ (over /\ ~failed)]
    /\ UNCHANGED <<rapl, torn, used>>

(* A window is closed and opened again (while it has no helper running).   *)
Reopen(w) ==
    /\ Drawing(w) /\ Idle(w) /\ used.reopens < MaxReopens /\ Spend("reopens")
    /\ tab' = [tab EXCEPT ![w] = FreshTab(rapl, root)]
    /\ UNCHANGED <<rapl, root, todo, torn>>

Init ==
    /\ rapl \in {l \in Limits : l.pl1 <= l.pl2}
    /\ root \in {[f \in RootFiles |-> c] : c \in {"absent", "old"}}
    /\ tab = [w \in Windows |-> FreshTab(rapl, root)]
    /\ todo = <<>> /\ torn = FALSE
    /\ used = [applies |-> 0, installs |-> 0, reopens |-> 0]

Next ==
    \/ ClickInstall
    \/ InstallStep
    \/ \E w \in Windows :
          \/ Refresh(w) \/ MoveSlider(w) \/ Reset(w) \/ Apply(w)
          \/ Authorize(w) \/ WriteLimit(w) \/ Collect(w) \/ Reopen(w)

Spec == Init /\ [][Next]_vars

-----------------------------------------------------------------------------
Jobs == [at : {"asked", "write 0", "write 1", "done", "failed"}, args : Limits, alone : BOOLEAN]
Tabs == [draft : Limits, snap : Limits, job : Jobs \cup {NoJob}, last : {"none", "ok", "err"},
         ready : BOOLEAN, install : {"none", "ok", "err"}]

(* Types; and the sliders never leave their range.                         *)
TypeOK ==
    /\ rapl \in Limits
    /\ root \in [RootFiles -> Contents]
    /\ tab \in [Windows -> Tabs]
    /\ \A w \in Windows : tab[w].draft.pl1 <= Pl1Max /\ tab[w].draft.pl2 <= Pl2Max
    /\ todo \in Seq(RootFiles)
    /\ torn \in BOOLEAN
    /\ used \in [applies : 0 .. MaxApplies, installs : 0 .. MaxInstalls, reopens : 0 .. MaxReopens]

(* A helper that reported success, with no other helper running in its     *)
(* time, has put both limits in force (rapl_helper.rs:34-62: a failure of  *)
(* the second write is a failure of the whole).                            *)
OkMeansInForce ==
    \A w \in Windows : tab[w].job.at = "done" /\ tab[w].job.alone => rapl = tab[w].job.args

(* "Keep PL2 >= PL1: burst limit below sustained makes no sense"           *)
(* (gui/tdp.rs:226): once helpers have finished, the limits in force obey  *)
(* it, whatever sliders were moved, reset, or outdated by another window,  *)
(* unless a second write failed or two helpers overlapped.                 *)
BurstNotBelowSustained ==
    ~torn /\ (\A w \in Windows : Idle(w)) => rapl.pl1 <= rapl.pl2

(* A window that says the TDP helper is installed found every file of it   *)
(* written, also after installations that stopped half way.                *)
TdpInstalledWhole ==
    tab[Installer].install = "ok" => \A f \in RootFiles : root[f] = "new"
=============================================================================
