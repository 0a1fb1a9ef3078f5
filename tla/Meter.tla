-------------------------------- MODULE Meter --------------------------------
(***************************************************************************)
(* daemon/energy.rs: the energy meter the daemon samples about once a      *)
(* second, the session it persists to battery_session.json, and one RAPL   *)
(* energy counter.                                                         *)
(*                                                                         *)
(* Time is counted in seconds, energy in joules.  Not modelled: values     *)
(* that are only shown and decide nothing (the latest wattages, the EMA of *)
(* the package power, the time-remaining estimate, capacities).  A restart *)
(* is a crash: the daemon saves nothing when it shuts down.                *)
(***************************************************************************)
EXTENDS Naturals, Sequences, FiniteSets

CONSTANTS
    NoReading,    \* a value sysfs does not give
    Readings,     \* what one tick may read: battery power, AC, status, and
                  \* the RAPL counter, if it can be read, after `draw` more joules
    Dts,          \* seconds between two ticks
    BucketS,      \* HISTORY_BUCKET_S
    SuspendGap,   \* SUSPEND_GAP_THRESHOLD_S
    SaveEvery,    \* SAVE_EVERY_N_BUCKETS
    MaxSamples,   \* MAX_SAMPLES
    SaveOutcomes, \* TRUE: a save succeeds, FALSE: it fails
    CounterMax,   \* max_energy_range_uj, in joules
    CapW,         \* the power above which a RAPL result is dropped
    MaxStarts,    \* bound on the daemons a behaviour runs
    MaxClock      \* bound on the time a behaviour takes

ASSUME MeterAssumption ==
    /\ Readings \subseteq [w : Nat \cup {NoReading}, ac : BOOLEAN,
                           status : {"Charging", "Discharging", "Other"},
                           draw : Nat, readable : BOOLEAN]
    /\ NoReading \notin Nat
    /\ Dts \subseteq Nat \ {0}
    /\ BucketS \in Nat \ {0} /\ SaveEvery \in Nat \ {0} /\ MaxSamples \in Nat \ {0}
    /\ SuspendGap \in Nat /\ CounterMax \in Nat /\ CapW \in Nat
    /\ MaxStarts \in Nat /\ MaxClock \in Nat
    /\ SaveOutcomes \subseteq BOOLEAN

VARIABLES up,      \* the daemon runs
          starts,  \* how many have been started
          clock,   \* time
          meter,   \* EnergyMeter: sessions, counters, bucket, timeline
          file,    \* battery_session.json
          zone,    \* the RAPL counter, prev_pkg_uj and the last result
          truth    \* history: what really flowed since the transitions seen

vars == <<up, starts, clock, meter, file, zone, truth>>

Sides == {"battery", "ac"}

(* PersistedState::default, also what a missing or broken file gives.      *)
Blank == [onBattery |-> 0, onAc |-> 0, discharge |-> 0, charge |-> 0, samples |-> <<>>]

EmptyBucket == [age |-> NoReading, j |-> 0, dt |-> 0, discharging |-> FALSE, charging |-> FALSE]

(* EnergyMeter::new with what load_persisted returned.                     *)
Started(p) ==
    [onBattery |-> p.onBattery, onAc |-> p.onAc,
     discharge |-> p.discharge, charge |-> p.charge, samples |-> p.samples,
     inBattery |-> p.onBattery > 0, inAc |-> p.onAc > 0,
     prevOnAc  |-> "unknown", bucket |-> EmptyBucket, sinceSave |-> 0]

(* What save_state writes.                                                 *)
Persisted(m) == [onBattery |-> m.onBattery, onAc |-> m.onAc,
                 discharge |-> m.discharge, charge |-> m.charge, samples |-> m.samples]

(* save_persisted: written to a temporary file and renamed, or not at all. *)
Saved(m, ok) == IF ok THEN Persisted(m) ELSE file

-----------------------------------------------------------------------------
(* The parts of sample(), in the order of the code.                        *)

Joules(r, dt) == IF r.w = NoReading THEN 0 ELSE r.w * dt

(* The discharge and charge counters.                                      *)
Integrate(m, r, dt) ==
    [m EXCEPT !.discharge = @ + IF r.status = "Discharging" THEN Joules(r, dt) ELSE 0,
              !.charge    = @ + IF r.status = "Charging"    THEN Joules(r, dt) ELSE 0]

(* Awake seconds of the current session.                                   *)
AccrueThroughSuspend(m, r, dt) ==
    [m EXCEPT !.onBattery = @ + IF m.inBattery /\ ~r.ac THEN dt ELSE 0,
              !.onAc      = @ + IF m.inAc /\ r.ac       THEN dt ELSE 0]
Accrue(m, r, dt) ==
    IF dt > SuspendGap THEN m
    ELSE [m EXCEPT !.onBattery = @ + IF m.inBattery /\ ~r.ac THEN dt ELSE 0,
                   !.onAc      = @ + IF m.inAc /\ r.ac       THEN dt ELSE 0]

(* The history bucket in progress; its age counts from its first tick.     *)
AggregateMissing(m, r, dt) ==
    LET b == m.bucket
    IN  [m EXCEPT !.bucket =
            [age |-> IF b.age = NoReading THEN 0 ELSE b.age + dt,
             j   |-> b.j + Joules(r, dt),
             dt  |-> b.dt + dt,
             discharging |-> b.discharging \/ r.status = "Discharging",
             charging    |-> b.charging \/ r.status = "Charging"]]
Aggregate(m, r, dt) ==
    LET b == m.bucket
    IN  [m EXCEPT !.bucket =
            [age |-> IF b.age = NoReading THEN 0 ELSE b.age + dt,
             j   |-> b.j + Joules(r, dt),
             dt  |-> b.dt + IF r.w = NoReading THEN 0 ELSE dt,
             discharging |-> b.discharging \/ r.status = "Discharging",
             charging    |-> b.charging \/ r.status = "Charging"]]

(* The newest MaxSamples points of a timeline.                             *)
KeepOldest(s) == IF Len(s) > MaxSamples THEN SubSeq(s, 1, MaxSamples) ELSE s
Capped(s) == IF Len(s) > MaxSamples
             THEN SubSeq(s, Len(s) - MaxSamples + 1, Len(s)) ELSE s

BucketFull(m) == m.bucket.age >= BucketS

(* Close a full bucket: a new point, an empty bucket that starts now.      *)
CloseBucket(m, now) ==
    LET b == m.bucket
    IN  [m EXCEPT !.samples = Capped(Append(@, [at |-> now, j |-> b.j, dt |-> b.dt,
                                                discharging |-> b.discharging,
                                                charging |-> b.charging])),
                  !.bucket = [EmptyBucket EXCEPT !.age = 0],
                  !.sinceSave = @ + 1]

PeriodicSaveLate(m) == m.sinceSave % (SaveEvery + 1) = 0
PeriodicSave(m) == m.sinceSave % SaveEvery = 0

(* Sessions that this reading starts: after a transition, and on the first *)
(* tick unless the persisted seconds say that one was under way.           *)
StartedSides(m, r) ==
    CASE m.prevOnAc = "unknown" -> IF r.ac THEN IF m.inAc THEN {} ELSE {"ac"}
                                   ELSE IF m.inBattery THEN {} ELSE {"battery"}
      [] m.prevOnAc = "yes" /\ ~r.ac -> {"battery"}
      [] m.prevOnAc = "no" /\ r.ac   -> {"ac"}
      [] OTHER -> {}

TransitionWithoutReset(m, r) ==
    LET started == StartedSides(m, r)
        crossed == started # {} /\ m.prevOnAc # "unknown"
    IN  [m EXCEPT
            !.onBattery = IF "battery" \in started THEN 0 ELSE @,
            !.onAc      = IF "ac" \in started THEN 0 ELSE @,
            !.inBattery = "battery" \in started \/ (@ /\ ~crossed),
            !.inAc      = "ac" \in started \/ (@ /\ ~crossed),
            !.discharge = @,
            !.charge    = IF crossed /\ "ac" \in started THEN 0 ELSE @,
            !.prevOnAc  = IF r.ac THEN "yes" ELSE "no"]
Transition(m, r) ==
    LET started == StartedSides(m, r)
        crossed == started # {} /\ m.prevOnAc # "unknown"
    IN  [m EXCEPT
            !.onBattery = IF "battery" \in started THEN 0 ELSE @,
            !.onAc      = IF "ac" \in started THEN 0 ELSE @,
            !.inBattery = "battery" \in started \/ (@ /\ ~crossed),
            !.inAc      = "ac" \in started \/ (@ /\ ~crossed),
            !.discharge = IF crossed /\ "battery" \in started THEN 0 ELSE @,
            !.charge    = IF crossed /\ "ac" \in started THEN 0 ELSE @,
            !.prevOnAc  = IF r.ac THEN "yes" ELSE "no"]

-----------------------------------------------------------------------------
(* sample_rapl_zone.  NoReading for `cur` is a read that failed.  The      *)
(* result is the energy and the time it is divided by.                     *)
NoResult == [delta |-> 0, dt |-> 0]

PlainDelta(prev, cur) == cur - prev
WrappedDelta(prev, cur) == IF cur >= prev THEN cur - prev ELSE cur
Delta(prev, cur) == IF cur >= prev THEN cur - prev ELSE (CounterMax - prev) + cur

SampleZone(z, cur, dt) ==
    CASE cur = NoReading -> [z EXCEPT !.result = NoResult]
      [] cur # NoReading /\ (dt = 0 \/ z.prev = NoReading \/ (cur < z.prev /\ CounterMax = 0)) ->
            [z EXCEPT !.prev = cur, !.result = NoResult]
      [] OTHER ->
            [z EXCEPT !.prev = cur,
                      !.result = IF Delta(z.prev, cur) <= CapW * dt
                                 THEN [delta |-> Delta(z.prev, cur), dt |-> dt]
                                 ELSE NoResult]

(* The package uses `draw` joules and the counter is read, or cannot be.   *)
(* `used` is the energy since the last reading that succeeded.             *)
ZoneStep(draw, readable, dt) ==
    LET counter == IF CounterMax = 0 THEN 0 ELSE (zone.counter + draw) % CounterMax
        used    == zone.used + draw
        z       == SampleZone(zone, IF readable THEN counter ELSE NoReading, dt)
    IN  zone' = [z EXCEPT !.counter = counter,
                          !.used    = IF readable THEN 0 ELSE used,
                          !.before  = IF readable THEN used ELSE @]

-----------------------------------------------------------------------------
(* History.  flow[side] and time[side] accumulate what every tick saw      *)
(* since the session of that side was seen to start, crashes or not.       *)
(* unsafe: sides whose start is not in the file; doubtful: a crash lost    *)
(* the start; lossy: a crash may have lost part of the session.            *)
TruthAfter(r, dt, started, crossed, tried, anySaved, lastSaved) ==
    LET out == IF r.status = "Discharging" THEN Joules(r, dt) ELSE 0
        in  == IF r.status = "Charging" THEN Joules(r, dt) ELSE 0
        awake == IF dt > SuspendGap THEN 0 ELSE dt
        reset(side, v) == IF side \in started THEN 0 ELSE v
        cut(side, v)   == IF side \in started /\ crossed THEN 0 ELSE v
    IN  truth' = [truth EXCEPT
            !.flow = [battery |-> cut("battery", @.battery + out), ac |-> cut("ac", @.ac + in)],
            !.time = [battery |-> reset("battery", @.battery + IF r.ac THEN 0 ELSE awake),
                      ac      |-> reset("ac", @.ac + IF r.ac THEN awake ELSE 0)],
            !.unsafe   = IF lastSaved THEN {} ELSE (IF anySaved THEN {} ELSE @) \cup started,
            !.doubtful = IF crossed THEN @ \ started ELSE @,
            !.lossy    = IF crossed THEN @ \ started ELSE @,
            !.triedAt  = IF tried THEN clock' ELSE @]

(* The first tick of a daemon comes at once and has no interval.           *)
Elapsed(step) == IF meter.prevOnAc = "unknown" THEN 0 ELSE step

(* sample(): one tick of the daemon's loop.  The periodic save happens     *)
(* before a transition is handled; the transition saves again.             *)
Sample(r, step, okPeriodic, okTransition) ==
    /\ up /\ clock + Elapsed(step) <= MaxClock
    /\ clock' = clock + Elapsed(step)
    /\ \E dt \in {Elapsed(step)} :
       \E m0 \in {Accrue(Integrate(meter, r, dt), r, dt)} :
       \E m1 \in {Aggregate(m0, r, dt)} :
       \E m2 \in {IF BucketFull(m1) THEN CloseBucket(m1, clock') ELSE m1} :
          LET periodic == BucketFull(m1) /\ PeriodicSave(m2)
              started  == StartedSides(m2, r)
          IN  /\ meter' = Transition(m2, r)
              /\ file' = IF started # {} /\ okTransition THEN Persisted(meter')
                         ELSE IF periodic THEN Saved(m2, okPeriodic) ELSE file
              /\ TruthAfter(r, dt, started, started # {} /\ meter.prevOnAc # "unknown",
                            periodic \/ started # {},
                            periodic /\ okPeriodic, started # {} /\ okTransition)
              /\ ZoneStep(r.draw, r.readable, dt)
    /\ UNCHANGED <<up, starts>>

(* The daemon ends: on a signal, at logout or by SIGKILL.                  *)
Stop ==
    /\ up
    /\ up' = FALSE
    /\ truth' = [truth EXCEPT !.doubtful = @ \cup truth.unsafe, !.lossy = Sides]
    /\ UNCHANGED <<starts, clock, meter, file, zone>>

(* EnergyMeter::new in a new daemon, any time later.                       *)
Start ==
    /\ ~up /\ starts < MaxStarts
    /\ up' = TRUE
    /\ starts' = starts + 1
    /\ meter' = Started([file EXCEPT !.samples = Capped(@)])
    /\ zone' = [zone EXCEPT !.prev = NoReading, !.result = NoResult, !.used = 0]
    /\ truth' = [truth EXCEPT !.unsafe = {}, !.triedAt = clock]
    /\ UNCHANGED <<clock, file>>

Init ==
    /\ up = TRUE /\ starts = 1
    /\ clock = 0
    /\ file = Blank
    /\ meter = Started(Blank)
    /\ zone = [counter |-> 0, prev |-> NoReading, result |-> NoResult,
               used |-> 0, before |-> 0]
    /\ truth = [flow |-> [battery |-> 0, ac |-> 0], time |-> [battery |-> 0, ac |-> 0],
                unsafe |-> {}, doubtful |-> {}, lossy |-> {}, triedAt |-> 0]

Next ==
    \/ \E r \in Readings, step \in Dts, ok1, ok2 \in SaveOutcomes : Sample(r, step, ok1, ok2)
    \/ Stop
    \/ Start

Spec == Init /\ [][Next]_vars

-----------------------------------------------------------------------------
Points == [at : Nat, j : Nat, dt : Nat, discharging : BOOLEAN, charging : BOOLEAN]

(* Every variable has its type.                                            *)
TypeOK ==
    /\ up \in BOOLEAN /\ starts \in Nat /\ clock \in Nat
    /\ DOMAIN meter = DOMAIN Started(Blank)
    /\ {meter.onBattery, meter.onAc, meter.discharge, meter.charge, meter.sinceSave} \subseteq Nat
    /\ {meter.inBattery, meter.inAc} \subseteq BOOLEAN
    /\ meter.prevOnAc \in {"unknown", "yes", "no"}
    /\ meter.samples \in Seq(Points) /\ file.samples \in Seq(Points)
    /\ DOMAIN file = DOMAIN Blank
    /\ zone.counter \in Nat /\ zone.prev \in Nat \cup {NoReading}
    /\ zone.result \in [delta : Nat, dt : Nat]

(* A counter never shows more than what flowed since its session was seen  *)
(* to start, however often the daemon was restarted, unless the save of    *)
(* that start failed; and it shows all of it if the daemon was not         *)
(* restarted since (energy.rs:134-140, 181-186).                           *)
Counted(side, shown, real) ==
    /\ side \notin truth.doubtful => shown <= real
    /\ side \notin truth.lossy => shown = real
NothingCountedTwice ==
    up => /\ Counted("battery", meter.discharge, truth.flow.battery)
          /\ Counted("battery", meter.onBattery, truth.time.battery)
          /\ Counted("ac", meter.charge, truth.flow.ac)
          /\ Counted("ac", meter.onAc, truth.time.ac)

(* "A crash loses at most ~60 s of samples" (energy.rs:45): fewer than     *)
(* SaveEvery points were taken since the last attempt to save.             *)
CrashLosesLittle ==
    up => Cardinality({i \in 1 .. Len(meter.samples) : meter.samples[i].at > truth.triedAt})
             < SaveEvery

(* The timeline is capped, oldest first, without a point twice, and ends   *)
(* with the point of the last bucket closed, also after a reload.          *)
TimelineInOrder ==
    /\ Len(meter.samples) <= MaxSamples
    /\ \A i \in 1 .. Len(meter.samples) - 1 : meter.samples[i].at < meter.samples[i + 1].at
    /\ up /\ meter.sinceSave > 0 =>
          /\ meter.samples # <<>>
          /\ meter.samples[Len(meter.samples)].at + meter.bucket.age = clock

(* A point's average power lies between the lowest and the highest power   *)
(* that is ever read: missing readings do not dilute it.                   *)
AverageIsPlausible ==
    LET read == {r.w : r \in Readings} \ {NoReading}
    IN  \A i \in 1 .. Len(meter.samples) :
            LET p == meter.samples[i]
            IN  /\ \A lo \in read : (\A w \in read : lo <= w) => lo * p.dt <= p.j
                /\ \A hi \in read : (\A w \in read : w <= hi) => p.j <= hi * p.dt

(* The energy of a RAPL result is what the package used since the reading  *)
(* before, across a wrap of the counter, as long as that is less than one  *)
(* range (energy.rs:563-602).  A result above the cap is no result.        *)
WrapIsExact ==
    zone.result # NoResult /\ zone.before < CounterMax => zone.result.delta = zone.before

=============================================================================
