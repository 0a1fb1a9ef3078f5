-------------------------------- MODULE Units --------------------------------
(***************************************************************************)
(* How the daemon finds the scopes of an app (daemon/cgroup.rs,            *)
(* daemon/proctree.rs and State::refresh_app_scopes): the processes below  *)
(* its windows, each looked up once and then remembered.                   *)
(*                                                                         *)
(* One app.  Processes, scopes and niri are external, and stand still      *)
(* while one event is handled.  What is found here is what Governor        *)
(* applies profiles to (its constant Reach).                               *)
(***************************************************************************)
EXTENDS Naturals, FiniteSets

CONSTANTS Pids,
          NoPid,     \* a window without, a process whose parent is gone
          Scopes,    \* app-*.scope and run-*.scope units below app.slice
          NoUnit,    \* any other cgroup; and Option::None of the cache
          Unseen,    \* a pid that is not in the cache
          Windows

VARIABLES proc,    \* the processes: alive, protected by name, cgroup, parent
          shown,   \* niri: the process of each window, NoPid if there is none
          windows, \* State::windows, the daemon's own copy
          cache,   \* UnitCache
          scopes   \* AppEntry::scopes

vars == <<proc, shown, windows, cache, scopes>>

Dead  == [alive |-> FALSE, protected |-> FALSE, cgroup |-> NoUnit, parent |-> NoPid]
Alive == {p \in Pids : proc[p].alive}

-----------------------------------------------------------------------------
(* is_protected_pid, scope_contains_protected_pid                          *)
IsProtected(p) == proc[p].alive /\ proc[p].protected
ScopeContainsProtected(s) == \E p \in Alive : proc[p].cgroup = s /\ IsProtected(p)

(* resolve_unit: a dead or protected process has none, and a scope with a  *)
(* protected process in it is nobody's.                                    *)
ResolveUnit(p) ==
    IF p \in Alive /\ ~IsProtected(p) /\ ~ScopeContainsProtected(proc[p].cgroup)
    THEN proc[p].cgroup ELSE NoUnit

(* proctree::descendants, the root included, dead or alive.                *)
Descendants(root) ==
    LET within[n \in 0 .. Cardinality(Pids)] ==
            IF n = 0 THEN {root}
            ELSE within[n - 1] \cup {p \in Alive : proc[p].parent \in within[n - 1]}
    IN  within[Cardinality(Pids)]

(* refresh_app_scopes over windows ws with cache c: every pid of the trees *)
(* goes through UnitCache::lookup, which remembers what it resolved.       *)
Walked(ws) == UNION {Descendants(ws[w]) : w \in {v \in Windows : ws[v] # NoPid}}
Looked(c, tree) == [p \in Pids |-> IF p \in tree /\ c[p] = Unseen THEN ResolveUnit(p) ELSE c[p]]

RefreshWith(ws, c) ==
    LET tree == Walked(ws)
    IN  /\ cache' = Looked(c, tree)
        /\ scopes' = {cache'[p] : p \in tree} \ {NoUnit}

Forgotten(c, pids) == [p \in Pids |-> IF p \in pids THEN Unseen ELSE c[p]]

-----------------------------------------------------------------------------
(* The daemon's handlers.                                                  *)

Upsert(w) ==
    /\ shown[w] # NoPid
    /\ windows' = [windows EXCEPT ![w] = shown[w]]
    /\ RefreshWith(windows', cache)
    /\ UNCHANGED <<proc, shown>>

(* forget_window: the other windows keep their scopes, without a new walk. *)
Closed(w) ==
    /\ windows[w] # NoPid /\ shown[w] = NoPid
    /\ windows' = [windows EXCEPT ![w] = NoPid]
    /\ cache' = Forgotten(cache, {windows[w]})
    /\ scopes' = IF \A v \in Windows : windows'[v] = NoPid THEN {} ELSE scopes
    /\ UNCHANGED <<proc, shown>>

Snapshot ==
    /\ windows' = shown
    /\ RefreshWith(shown, Forgotten(cache, {windows[w] : w \in {v \in Windows : shown[v] = NoPid}}))
    /\ UNCHANGED <<proc, shown>>

-----------------------------------------------------------------------------
(* The system.                                                             *)

Launch(p, s) ==
    /\ p \notin Alive
    /\ proc' = [proc EXCEPT ![p] = [Dead EXCEPT !.alive = TRUE, !.cgroup = s]]
    /\ UNCHANGED <<shown, windows, cache, scopes>>

(* A child begins with the name and in the cgroup of its parent.           *)
Fork(p, child) ==
    /\ p \in Alive /\ child \notin Alive
    /\ proc' = [proc EXCEPT ![child] = [proc[p] EXCEPT !.parent = p]]
    /\ UNCHANGED <<shown, windows, cache, scopes>>

Exec(p) ==
    /\ p \in Alive
    /\ proc' = [proc EXCEPT ![p].protected = ~@]
    /\ UNCHANGED <<shown, windows, cache, scopes>>

Exit(p) ==
    /\ p \in Alive
    /\ proc' = [q \in Pids |-> IF q = p THEN Dead
                               ELSE IF proc[q].parent = p THEN [proc[q] EXCEPT !.parent = NoPid]
                               ELSE proc[q]]
    /\ shown' = [w \in Windows |-> IF shown[w] = p THEN NoPid ELSE shown[w]]
    /\ UNCHANGED <<windows, cache, scopes>>

Map(w, p) ==
    /\ shown[w] = NoPid /\ windows[w] = NoPid /\ p \in Alive
    /\ shown' = [shown EXCEPT ![w] = p]
    /\ UNCHANGED <<proc, windows, cache, scopes>>

Unmap(w) ==
    /\ shown[w] # NoPid
    /\ shown' = [shown EXCEPT ![w] = NoPid]
    /\ UNCHANGED <<proc, windows, cache, scopes>>

Init ==
    /\ proc = [p \in Pids |-> Dead]
    /\ shown = [w \in Windows |-> NoPid]
    /\ windows = shown
    /\ cache = [p \in Pids |-> Unseen]
    /\ scopes = {}

System ==
    \/ \E p \in Pids : \/ Exec(p) \/ Exit(p)
                       \/ \E s \in Scopes \cup {NoUnit} : Launch(p, s)
                       \/ \E q \in Pids : Fork(p, q)
    \/ \E w \in Windows : Unmap(w) \/ \E p \in Pids : Map(w, p)

Daemon == Snapshot \/ \E w \in Windows : Upsert(w) \/ Closed(w)

Next == System \/ Daemon

Spec == Init /\ [][Next]_vars

-----------------------------------------------------------------------------
(* "A scope is skipped if either (a) the PID our resolver sees is a        *)
(* protected process, or (b) the scope itself contains any protected       *)
(* process" (README.md:274-275): an event that makes the daemon take up a  *)
(* scope for an app finds no protected process in it.                      *)
ProtectedSkipped ==
    [][\A s \in scopes' \ scopes : ~ScopeContainsProtected(s)]_vars

=============================================================================
