-------------------------------- MODULE Setup --------------------------------
(***************************************************************************)
(* bootstrap.rs and the buttons of gui/mod.rs that call it: install,       *)
(* enable, remove and restart the systemd user service, one call after     *)
(* another on the GUI's only thread, each of which may fail.               *)
(*                                                                         *)
(* One window's buttons are used; it may be closed and opened again.  What *)
(* systemd does with a unit is external.                                   *)
(***************************************************************************)
EXTENDS Naturals, Sequences

CONSTANTS Machines,   \* what the computer may look like at first
          MaxClicks,  \* bound on clicks and on windows opened again
          MaxPackages \* bound on installations and removals of the package

VARIABLES disk,    \* the user's copies: binary, unit, desktop entry, icon
          service, \* systemd: enabled, running from which unit; package unit
          shell,   \* App: where it runs from, the calls still to do, caches
          used     \* clicks and package changes so far

vars == <<disk, service, shell, used>>

UserFiles == {"bin", "unit", "desktop", "icon"}
Contents  == {"absent", "broken", "old", "new"}
Disks     == [UserFiles -> Contents]
Services  == [enabled : BOOLEAN, package : BOOLEAN, running : {"nothing", "user", "system"}]

ASSUME SetupAssumption ==
    /\ Machines \subseteq [disk : Disks, service : Services]
    /\ MaxClicks \in Nat /\ MaxPackages \in Nat

(* enum InstallState                                                       *)
Places == {"SystemInstalled", "UserInstalled", "Detached"}

Operations == {"install", "enable", "remove", "restart"}

(* bootstrap.rs: the calls of each operation, in order.                    *)
StepsLeavingDaemon(op) ==
    CASE op = "install" -> <<"check", "bin", "unit", "desktop", "icon", "reload", "enable">>
      [] op = "enable"  -> <<"check", "reload", "enable">>
      [] op = "remove"  -> <<"rm unit", "rm extras", "reload">>
      [] op = "restart" -> <<"restart">>
Steps(op) ==
    CASE op = "install" -> <<"check", "bin", "unit", "desktop", "icon", "reload", "enable">>
      [] op = "enable"  -> <<"check", "reload", "enable">>
      [] op = "remove"  -> <<"disable", "rm unit", "rm extras", "reload">>
      [] op = "restart" -> <<"restart">>

(* Failures that end an operation; the others are logged.                  *)
FatalButUnit(op, step) == IF op = "remove" THEN step = "rm unit" ELSE step # "unit"
Fatal(op, step) == op = "remove" => step = "rm unit"

-----------------------------------------------------------------------------
(* systemd, external: what a start of the service runs.  A unit in         *)
(* ~/.config hides the package's.                                          *)
StartsFrom(d, package) ==
    CASE d.unit = "absent" /\ package -> "system"
      [] d.unit \in {"old", "new"} /\ d.bin \in {"old", "new"} -> "user"
      [] OTHER -> "nothing"

UnitUsable(d, package) == IF d.unit = "absent" THEN package ELSE d.unit # "broken"

(* any_unit_present                                                        *)
UserUnitPresent(d, package) == d.unit # "absent"
AnyUnitPresent(d, package) == d.unit # "absent" \/ package

(* is_unit_enabled                                                         *)
IsUnitEnabled(d, s) == s.enabled /\ UnitUsable(d, s.package)

(* The copy is skipped when the window runs from the destination; the      *)
(* binary of a running daemon cannot be opened for writing.                *)
CopySkipped == shell.place = "UserInstalled"
BinaryBusy  == service.running = "user" /\ ~CopySkipped

(* write_with_mode truncates, writes and sets the mode: a failure leaves   *)
(* the file as it was, broken or written.                                  *)
WriteResults(f, ok) ==
    {[disk EXCEPT ![f] = c] : c \in IF ok THEN {"new"} ELSE {disk[f], "broken", "new"}}

(* What one call does to the files, and to systemd.                        *)
DiskAfter(step, ok) ==
    CASE step = "bin" -> IF CopySkipped \/ BinaryBusy THEN {disk} ELSE WriteResults("bin", ok)
      [] step \in {"unit", "desktop", "icon"} -> WriteResults(step, ok)
      [] step = "rm unit" /\ ok -> {[disk EXCEPT !.unit = "absent"]}
      [] step = "rm extras" ->
            {[f \in UserFiles |-> IF f \in gone THEN "absent" ELSE disk[f]] :
                gone \in IF ok THEN {{"desktop", "icon"}} ELSE SUBSET {"desktop", "icon"}}
      [] OTHER -> {disk}

ServiceAfter(step, ok) ==
    LET starts == StartsFrom(disk, service.package)
    IN  CASE step = "enable" /\ ok ->
                {[service EXCEPT !.enabled = TRUE, !.running = IF @ = "nothing" THEN starts ELSE @]}
          [] step = "enable" /\ ~ok -> {service, [service EXCEPT !.enabled = TRUE]}
          [] step = "disable" /\ ok -> {[service EXCEPT !.enabled = FALSE, !.running = "nothing"]}
          [] step = "restart" /\ ok -> {[service EXCEPT !.running = starts]}
          [] OTHER -> {service}

(* Calls that cannot succeed.                                              *)
Impossible(step) ==
    \/ step = "bin" /\ BinaryBusy
    \/ step \in {"enable", "restart"} /\ ~UnitUsable(disk, service.package)

-----------------------------------------------------------------------------
(* draw_install_banner                                                     *)
Banner ==
    CASE shell.place = "Detached" /\ ~shell.installed -> "Install"
      [] shell.place = "SystemInstalled" /\ service.package /\ ~shell.enabled -> "EnableAutostart"
      [] OTHER -> "None"

(* The buttons that are drawn.                                             *)
Buttons ==
    {"restart"}
    \cup (IF Banner = "Install" THEN {"install"} ELSE {})
    \cup (IF Banner = "EnableAutostart" THEN {"enable"} ELSE {})
    \cup (IF shell.place = "UserInstalled" /\ disk.unit # "absent" THEN {"remove"} ELSE {})

Free == shell.op = "none"

Spend(what) == used' = [used EXCEPT ![what] = @ + 1]

Click ==
    /\ Free /\ used.clicks < MaxClicks /\ Spend("clicks")
    /\ \E op \in Buttons :
          shell' = [shell EXCEPT !.op = op, !.todo = Steps(op), !.missed = FALSE]
    /\ UNCHANGED <<disk, service>>

(* The result of an operation, and the caches it sets: install_service,    *)
(* enable_autostart, remove_service; restart_daemon sets only the error    *)
(* line of the window.                                                     *)
FailedHalfway(sh) ==
    [sh EXCEPT !.op = "none", !.missed = TRUE,
               !.report = IF sh.op \in {"install", "enable"} THEN "failed" ELSE @]
Failed(sh) ==
    [sh EXCEPT !.op = "none", !.todo = <<>>, !.missed = TRUE,
               !.report = IF sh.op \in {"install", "enable"} THEN "failed" ELSE @]

Done(sh, d) ==
    LET done == [sh EXCEPT !.op = "none", !.todo = <<>>]
    IN  CASE sh.op = "install" ->
                [done EXCEPT !.report = "installed", !.installed = TRUE, !.enabled = TRUE]
          [] sh.op = "enable" ->
                [done EXCEPT !.report = "enabled", !.installed = TRUE, !.enabled = TRUE]
          [] sh.op = "remove" ->
                [done EXCEPT !.report = "none", !.enabled = FALSE,
                             !.installed = AnyUnitPresent(d, service.package)]
          [] sh.op = "restart" -> done

(* The next call of the operation under way succeeds or fails.             *)
ServiceStep ==
    /\ ~Free
    /\ \E ok \in BOOLEAN :
         LET step == Head(shell.todo)
         IN  /\ ok => ~Impossible(step)
             /\ disk' \in DiskAfter(step, ok)
             /\ service' \in ServiceAfter(step, ok)
             /\ shell' = IF ~ok /\ Fatal(shell.op, step) THEN Failed(shell)
                         ELSE IF Len(shell.todo) = 1
                         THEN Done([shell EXCEPT !.missed = @ \/ ~ok], disk')
                         ELSE [shell EXCEPT !.todo = Tail(@), !.missed = @ \/ ~ok]
    /\ UNCHANGED used

(* The part of poll() that looks at the unit.                              *)
PollService ==
    /\ Free
    /\ shell' = [shell EXCEPT !.installed = AnyUnitPresent(disk, service.package),
                              !.enabled = IsUnitEnabled(disk, service), !.stale = FALSE]
    /\ UNCHANGED <<disk, service, used>>

(* The package is installed or removed behind the window's back.           *)
ChangePackage ==
    /\ used.packages < MaxPackages /\ Spend("packages")
    /\ service' = [service EXCEPT !.package = ~@]
    /\ shell' = [shell EXCEPT !.stale = TRUE]
    /\ UNCHANGED disk

(* App::new: a window is opened, from any place there is a binary in.      *)
Opened(place, d, s) ==
    [place |-> place, op |-> "none", todo |-> <<>>, missed |-> FALSE, report |-> "none",
     installed |-> AnyUnitPresent(d, s.package), enabled |-> IsUnitEnabled(d, s),
     stale |-> FALSE]

PlacesOf(d, package) ==
    {"Detached"} \cup (IF d.bin \in {"old", "new"} THEN {"UserInstalled"} ELSE {})
                 \cup (IF package THEN {"SystemInstalled"} ELSE {})

Reopen ==
    /\ Free /\ used.clicks < MaxClicks /\ Spend("clicks")
    /\ \E place \in PlacesOf(disk, service.package) : shell' = Opened(place, disk, service)
    /\ UNCHANGED <<disk, service>>

Init ==
    /\ \E m \in Machines : disk = m.disk /\ service = m.service
    /\ \E place \in PlacesOf(disk, service.package) : shell = Opened(place, disk, service)
    /\ used = [clicks |-> 0, packages |-> 0]

Next == Click \/ ServiceStep \/ PollService \/ ChangePackage \/ Reopen

Spec == Init /\ [][Next]_vars

-----------------------------------------------------------------------------
(* Types; and the calls under way are the last ones of some operation.     *)
TypeOK ==
    /\ disk \in Disks /\ service \in Services
    /\ shell.place \in Places
    /\ shell.op \in Operations \cup {"none"}
    /\ shell.todo = <<>> <=> Free
    /\ ~Free => \E n \in 1 .. Len(Steps(shell.op)) :
                   shell.todo = SubSeq(Steps(shell.op), n, Len(Steps(shell.op)))
    /\ shell.report \in {"none", "failed", "installed", "enabled"}
    /\ {shell.installed, shell.enabled, shell.missed, shell.stale} \subseteq BOOLEAN
    /\ used \in [clicks : 0 .. MaxClicks, packages : 0 .. MaxPackages]

(* An installation that reports success has put every file in place and    *)
(* left the service enabled and running (bootstrap.rs:247-299).            *)
SuccessIsTrue ==
    [][shell.op = "install" /\ shell'.report = "installed" /\ shell'.op = "none"
          => /\ \A f \in UserFiles : disk'[f] = "new"
             /\ service'.enabled /\ service'.running # "nothing"]_vars

(* "So a package-managed binary doesn't get shadowed by a stale copy"      *)
(* (bootstrap.rs:83-85): while the package is there, no click puts a unit  *)
(* of the user's own in front of it, unless the package came after the     *)
(* window's last look.                                                     *)
PackageNotShadowed ==
    [][service.package /\ disk.unit = "absent" /\ ~shell.stale => disk'.unit = "absent"]_vars

(* A removal in which no call failed leaves no unit of the user, nothing   *)
(* enabled and no daemon that runs from it; the binary stays               *)
(* (bootstrap.rs:301-304).                                                 *)
RemoveLeavesNoDaemon ==
    [][shell.op = "remove" /\ shell'.op = "none" /\ ~shell'.missed
          => /\ disk'.unit = "absent" /\ disk'.bin = disk.bin
             /\ ~service'.enabled /\ service'.running # "user"]_vars

=============================================================================
