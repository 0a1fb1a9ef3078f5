---------------------------- MODULE MeterProofs ----------------------------
(***************************************************************************)
(* Meter for any readings, intervals, bounds and outcomes of the saves:    *)
(* TypeOK, NothingCountedTwice, CrashLosesLittle, TimelineInOrder,         *)
(* AverageIsPlausible and WrapIsExact.                                     *)
(*                                                                         *)
(* What a restart may break is kept true of the file as well: its timeline *)
(* is in order, its points plausible, and its counters are behind what     *)
(* flowed for every side whose start it holds.                             *)
(***************************************************************************)
EXTENDS Meter, SequenceTheorems, FiniteSetTheorems, TLAPS

Buckets == [age : Nat \cup {NoReading}, j : Nat, dt : Nat,
            discharging : BOOLEAN, charging : BOOLEAN]
Meters  == [onBattery : Nat, onAc : Nat, discharge : Nat, charge : Nat,
            samples : Seq(Points), inBattery : BOOLEAN, inAc : BOOLEAN,
            prevOnAc : {"unknown", "yes", "no"}, bucket : Buckets, sinceSave : Nat]
Files   == [onBattery : Nat, onAc : Nat, discharge : Nat, charge : Nat, samples : Seq(Points)]
Zones   == [counter : Nat, prev : Nat \cup {NoReading}, result : [delta : Nat, dt : Nat],
            used : Nat, before : Nat]
Pairs   == [battery : Nat, ac : Nat]
Truths  == [flow : Pairs, time : Pairs, unsafe : SUBSET Sides, doubtful : SUBSET Sides,
            lossy : SUBSET Sides, triedAt : Nat]

MeterType ==
    /\ up \in BOOLEAN /\ starts \in Nat /\ clock \in Nat
    /\ meter \in Meters /\ file \in Files /\ zone \in Zones /\ truth \in Truths

(* The counter is what it was at the last reading and what was used since, *)
(* less whole ranges.                                                      *)
CounterInv ==
    /\ CounterMax > 0 =>
          /\ zone.counter < CounterMax
          /\ zone.prev # NoReading =>
                /\ zone.prev < CounterMax
                /\ \E k \in Nat : zone.prev + zone.used = k * CounterMax + zone.counter
    /\ WrapIsExact

(* A timeline in order at the time t.                                      *)
Ordered(s, t) ==
    /\ \A i \in 1 .. Len(s) - 1 : s[i].at < s[i + 1].at
    /\ \A i \in 1 .. Len(s) : s[i].at <= t

(* The bucket in progress was opened after every point, and closing one    *)
(* leaves its point last.                                                  *)
BucketInv ==
    /\ meter.prevOnAc = "unknown" <=> meter.bucket.age = NoReading
    /\ meter.bucket.age = NoReading => meter.sinceSave = 0
    /\ meter.bucket.age # NoReading =>
          \A i \in 1 .. Len(meter.samples) : meter.samples[i].at + meter.bucket.age <= clock
    /\ meter.sinceSave > 0 =>
          /\ meter.samples # <<>>
          /\ meter.samples[Len(meter.samples)].at + meter.bucket.age = clock

TimelineInv ==
    /\ Ordered(meter.samples, clock) /\ Ordered(file.samples, clock)
    /\ Len(meter.samples) <= MaxSamples
    /\ up => BucketInv

(* Only the points since the last multiple of SaveEvery may be unsaved.    *)
UnsavedInv ==
    up => \A i \in 1 .. Len(meter.samples) :
             i + (meter.sinceSave % SaveEvery) <= Len(meter.samples)
                => meter.samples[i].at <= truth.triedAt

(* Energy and time whose quotient lies between the readings' bounds.       *)
Powers == {r.w : r \in Readings} \ {NoReading}
Plausible(j, dt) ==
    /\ \A lo \in Powers : (\A w \in Powers : lo <= w) => lo * dt <= j
    /\ \A hi \in Powers : (\A w \in Powers : w <= hi) => j <= hi * dt

AveragesInv ==
    /\ \A i \in 1 .. Len(meter.samples) : Plausible(meter.samples[i].j, meter.samples[i].dt)
    /\ \A i \in 1 .. Len(file.samples) : Plausible(file.samples[i].j, file.samples[i].dt)
    /\ Plausible(meter.bucket.j, meter.bucket.dt)

(* The session of the side the machine is on runs.                         *)
SessionInv ==
    /\ meter.prevOnAc = "no" => meter.inBattery
    /\ meter.prevOnAc = "yes" => meter.inAc

(* The file is behind the truth for every side whose start it holds.       *)
Sure(side) == side \notin truth.doubtful /\ side \notin truth.unsafe
FileCounted ==
    /\ Sure("battery") => /\ file.discharge <= truth.flow.battery
                          /\ file.onBattery <= truth.time.battery
    /\ Sure("ac") => /\ file.charge <= truth.flow.ac
                     /\ file.onAc <= truth.time.ac

CountInv ==
    /\ NothingCountedTwice /\ FileCounted
    /\ up => SessionInv
    /\ ~up => truth.unsafe \subseteq truth.doubtful /\ truth.lossy = Sides

MeterInv == MeterType /\ CounterInv /\ TimelineInv /\ UnsavedInv /\ AveragesInv /\ CountInv

-----------------------------------------------------------------------------
(* What one tick adds to the counters of a side, in energy and in time.    *)
Out(r, dt)     == IF r.status = "Discharging" THEN Joules(r, dt) ELSE 0
In(r, dt)      == IF r.status = "Charging" THEN Joules(r, dt) ELSE 0
Away(r, dt)    == IF dt > SuspendGap \/ r.ac THEN 0 ELSE dt
Plugged(r, dt) == IF dt > SuspendGap \/ ~r.ac THEN 0 ELSE dt

LEMMA ReadingType ==
    ASSUME NEW r \in Readings
    PROVE  /\ r.w \in Nat \cup {NoReading} /\ r.ac \in BOOLEAN /\ r.draw \in Nat
           /\ r.readable \in BOOLEAN /\ r.status \in {"Charging", "Discharging", "Other"}
BY MeterAssumption DEF MeterAssumption

LEMMA AddedType ==
    ASSUME NEW r \in Readings, NEW dt \in Nat
    PROVE  /\ Joules(r, dt) \in Nat /\ Out(r, dt) \in Nat /\ In(r, dt) \in Nat
           /\ Away(r, dt) \in Nat /\ Plugged(r, dt) \in Nat
<1>1. Joules(r, dt) \in Nat
  <2>1. CASE r.w = NoReading
    BY <2>1 DEF Joules
  <2>2. CASE r.w # NoReading
    <3>1. r.w \in Nat
      BY <2>2, ReadingType
    <3>2. r.w * dt \in Nat
      BY <3>1
    <3>3. QED BY <2>2, <3>2 DEF Joules
  <2>3. QED BY <2>1, <2>2
<1>2. QED BY <1>1 DEF Out, In, Away, Plugged

(* Writing one field of the meter.                                         *)
Counters == {"onBattery", "onAc", "discharge", "charge", "sinceSave"}
Flags    == {"inBattery", "inAc"}
Others   == {"samples", "prevOnAc", "bucket"}
Fields   == Counters \cup Flags \cup Others

FieldType(f) ==
    CASE f \in Counters    -> Nat
      [] f \in Flags       -> BOOLEAN
      [] f = "samples"     -> Seq(Points)
      [] f = "prevOnAc"    -> {"unknown", "yes", "no"}
      [] f = "bucket"      -> Buckets

(* n is m but for the fields in F.                                         *)
SameBut(m, n, F) == \A g \in Fields \ F : n[g] = m[g]

LEMMA FieldTypes ==
    /\ \A g \in Counters : FieldType(g) = Nat
    /\ \A g \in Flags : FieldType(g) = BOOLEAN
    /\ FieldType("samples") = Seq(Points) /\ FieldType("bucket") = Buckets
    /\ FieldType("prevOnAc") = {"unknown", "yes", "no"}
BY DEF FieldType, Counters, Flags

LEMMA MetersAreFunctions ==
    ASSUME NEW m
    PROVE  m \in Meters <=> /\ m = [g \in Fields |-> m[g]]
                            /\ \A g \in Fields : m[g] \in FieldType(g)
<1>1. ASSUME m \in Meters
      PROVE  /\ m = [g \in Fields |-> m[g]]
             /\ \A g \in Fields : m[g] \in FieldType(g)
  <2>1. m = [g \in Fields |-> m[g]]
    BY <1>1 DEF Meters, Fields, Counters, Flags, Others
  <2>2. \A g \in Counters : m[g] \in Nat
    BY <1>1 DEF Meters, Counters
  <2>3. \A g \in Flags : m[g] \in BOOLEAN
    BY <1>1 DEF Meters, Flags
  <2>4. m["samples"] \in Seq(Points) /\ m["bucket"] \in Buckets /\ m["prevOnAc"] \in {"unknown", "yes", "no"}
    BY <1>1 DEF Meters
  <2>5. QED BY <2>1, <2>2, <2>3, <2>4 DEF FieldType, Fields, Counters, Flags, Others
<1>2. ASSUME m = [g \in Fields |-> m[g]], \A g \in Fields : m[g] \in FieldType(g)
      PROVE  m \in Meters
  <2>1. \A g \in Counters : m[g] \in Nat
    BY <1>2, FieldTypes DEF Fields
  <2>2. \A g \in Flags : m[g] \in BOOLEAN
    BY <1>2, FieldTypes DEF Fields
  <2>3. /\ m["samples"] \in Seq(Points) /\ m["bucket"] \in Buckets
        /\ m["prevOnAc"] \in {"unknown", "yes", "no"}
    <3>1. {"samples", "bucket", "prevOnAc"} \subseteq Fields
      BY DEF Fields, Others
    <3>2. QED BY <1>2, <3>1, FieldTypes, Zenon
  <2>4. QED BY <1>2, <2>1, <2>2, <2>3 DEF Meters, Fields, Counters, Flags, Others
<1>3. QED BY <1>1, <1>2

LEMMA SetField ==
    ASSUME NEW m \in Meters, NEW f \in Fields, NEW v \in FieldType(f)
    PROVE  /\ [m EXCEPT ![f] = v] \in Meters /\ [m EXCEPT ![f] = v][f] = v
           /\ SameBut(m, [m EXCEPT ![f] = v], {f})
<1> DEFINE n == [m EXCEPT ![f] = v]
<1>1. m = [g \in Fields |-> m[g]] /\ \A g \in Fields : m[g] \in FieldType(g)
  BY MetersAreFunctions
<1>2. DOMAIN n = Fields /\ n[f] = v /\ \A g \in Fields \ {f} : n[g] = m[g]
  BY <1>1
<1>3. n = [g \in Fields |-> n[g]]
  BY <1>1
<1>4. \A g \in Fields : n[g] \in FieldType(g)
  BY <1>1, <1>2
<1>5. n \in Meters
  BY <1>3, <1>4, MetersAreFunctions
<1>6. QED BY <1>2, <1>5 DEF SameBut

(* The meter after the counters are brought up to date.                    *)
Summed(m, r, dt) ==
    /\ m \in Meters /\ SameBut(meter, m, {"discharge", "charge", "onBattery", "onAc"})
    /\ m.discharge = meter.discharge + Out(r, dt)
    /\ m.charge = meter.charge + In(r, dt)
    /\ m.onBattery = meter.onBattery + IF meter.inBattery THEN Away(r, dt) ELSE 0
    /\ m.onAc = meter.onAc + IF meter.inAc THEN Plugged(r, dt) ELSE 0

(* n is m with v in the field f and w in the field g.                      *)
Written(m, n, f, v, g, w) ==
    n \in Meters /\ n[f] = v /\ n[g] = w /\ SameBut(m, n, {f, g})

LEMMA SetCounters ==
    ASSUME NEW m \in Meters, NEW f \in Counters, NEW g \in Counters \ {f},
           NEW v \in Nat, NEW w \in Nat
    PROVE  Written(m, [m EXCEPT ![f] = v, ![g] = w], f, v, g, w)
<1> DEFINE k == [m EXCEPT ![f] = v]
           n == [m EXCEPT ![f] = v, ![g] = w]
<1>1. f \in Fields /\ g \in Fields /\ v \in FieldType(f) /\ w \in FieldType(g)
  BY FieldTypes DEF Fields
<1>2. k \in Meters /\ k[f] = v /\ SameBut(m, k, {f})
  BY <1>1, SetField
<1>3. n = [k EXCEPT ![g] = w]
  OBVIOUS
<1> HIDE DEF k
<1>4. n \in Meters /\ n[g] = w /\ SameBut(k, n, {g})
  BY <1>1, <1>2, <1>3, SetField
<1> HIDE DEF n
<1>5. n[f] = v
  BY <1>1, <1>2, <1>4 DEF SameBut
<1>6. SameBut(m, n, {f, g})
  BY <1>2, <1>4 DEF SameBut
<1>7. QED BY <1>4, <1>5, <1>6 DEF n, Written

LEMMA Summing ==
    ASSUME meter \in Meters, NEW r \in Readings, NEW dt \in Nat
    PROVE  Summed(Accrue(Integrate(meter, r, dt), r, dt), r, dt)
<1> DEFINE o == meter.discharge + Out(r, dt)
           i == meter.charge + In(r, dt)
           n == Integrate(meter, r, dt)
           b == n.onBattery + IF n.inBattery THEN Away(r, dt) ELSE 0
           a == n.onAc + IF n.inAc THEN Plugged(r, dt) ELSE 0
           m == Accrue(n, r, dt)
<1>1. o \in Nat /\ i \in Nat
  <2>1. meter.discharge \in Nat /\ meter.charge \in Nat
    BY DEF Meters
  <2>2. Out(r, dt) \in Nat /\ In(r, dt) \in Nat
    BY AddedType
  <2>3. QED BY <2>1, <2>2
<1>2. n = [meter EXCEPT !["discharge"] = o, !["charge"] = i]
  BY DEF Integrate, Out, In
<1>3. /\ n \in Meters /\ n["discharge"] = o /\ n["charge"] = i
      /\ SameBut(meter, n, {"discharge", "charge"})
  <2> HIDE DEF o, i, n
  <2>1. "discharge" \in Counters /\ "charge" \in Counters \ {"discharge"}
    BY DEF Counters
  <2>2. Written(meter, [meter EXCEPT !["discharge"] = o, !["charge"] = i],
                "discharge", o, "charge", i)
    BY <1>1, <2>1, SetCounters
  <2>3. QED BY <1>2, <2>2 DEF Written
<1> HIDE DEF n
<1>4. /\ n["onBattery"] \in Nat /\ n["onAc"] \in Nat
      /\ n["inBattery"] \in BOOLEAN /\ n["inAc"] \in BOOLEAN
  BY <1>3 DEF Meters
<1>5. b \in Nat /\ a \in Nat
  BY <1>4, AddedType
<1>6. SuspendGap \in Nat /\ r.ac \in BOOLEAN
  BY MeterAssumption, ReadingType DEF MeterAssumption
<1>7. /\ m \in Meters /\ m["onBattery"] = b /\ m["onAc"] = a
      /\ SameBut(n, m, {"onBattery", "onAc"})
  <2>1. CASE dt > SuspendGap
    <3>1. Away(r, dt) = 0 /\ Plugged(r, dt) = 0 /\ m = n
      BY <2>1 DEF Away, Plugged, Accrue
    <3>2. b = n["onBattery"] /\ a = n["onAc"]
      BY <3>1, <1>4
    <3>3. QED BY <3>1, <3>2, <1>3 DEF SameBut
  <2>2. CASE ~(dt > SuspendGap)
    <3>1. b = n.onBattery + (IF n.inBattery /\ ~r.ac THEN dt ELSE 0)
      BY <1>4, <1>6, <2>2 DEF Away
    <3>2. a = n.onAc + (IF n.inAc /\ r.ac THEN dt ELSE 0)
      BY <1>4, <1>6, <2>2 DEF Plugged
    <3>3. m = [n EXCEPT !["onBattery"] = b, !["onAc"] = a]
      BY <2>2, <3>1, <3>2 DEF Accrue
    <3> HIDE DEF m, a, b
    <3>4. "onBattery" \in Counters /\ "onAc" \in Counters \ {"onBattery"}
      BY DEF Counters
    <3>5. Written(n, [n EXCEPT !["onBattery"] = b, !["onAc"] = a], "onBattery", b, "onAc", a)
      BY <1>3, <1>5, <3>4, SetCounters
    <3>6. QED BY <3>3, <3>5 DEF Written
  <2>3. QED BY <2>1, <2>2
<1> HIDE DEF m
<1>8. SameBut(meter, m, {"discharge", "charge", "onBattery", "onAc"})
  BY <1>3, <1>7 DEF SameBut
<1>9. m["discharge"] = o /\ m["charge"] = i
  BY <1>3, <1>7 DEF SameBut, Fields, Counters
<1>10. /\ n["onBattery"] = meter["onBattery"] /\ n["onAc"] = meter["onAc"]
       /\ n["inBattery"] = meter["inBattery"] /\ n["inAc"] = meter["inAc"]
  BY <1>3 DEF SameBut, Fields, Counters, Flags
<1>11. Summed(m, r, dt)
  BY <1>7, <1>8, <1>9, <1>10 DEF Summed
<1>12. QED BY <1>11 DEF m, n

(* ... after the bucket in progress is, ...                                *)
BucketOf(age, j, dt, d, c) == [age |-> age, j |-> j, dt |-> dt, discharging |-> d, charging |-> c]

LEMMA BucketType ==
    ASSUME NEW age \in Nat \cup {NoReading}, NEW j \in Nat, NEW dt \in Nat,
           NEW d \in BOOLEAN, NEW c \in BOOLEAN
    PROVE  /\ BucketOf(age, j, dt, d, c) \in Buckets
           /\ BucketOf(age, j, dt, d, c).age = age
           /\ BucketOf(age, j, dt, d, c).j = j
           /\ BucketOf(age, j, dt, d, c).dt = dt
BY DEF BucketOf, Buckets

LEMMA EmptyBucketType ==
    /\ EmptyBucket \in Buckets
    /\ EmptyBucket.age = NoReading /\ EmptyBucket.j = 0 /\ EmptyBucket.dt = 0
    /\ [EmptyBucket EXCEPT !.age = 0] \in Buckets
    /\ [EmptyBucket EXCEPT !.age = 0].age = 0
    /\ [EmptyBucket EXCEPT !.age = 0].j = 0 /\ [EmptyBucket EXCEPT !.age = 0].dt = 0
<1> DEFINE f == FALSE
           e == EmptyBucket
<1>1. e = BucketOf(NoReading, 0, 0, f, f)
  BY DEF EmptyBucket, BucketOf
<1>2. f \in BOOLEAN
  OBVIOUS
<1> HIDE DEF f, e
<1>3. e \in Buckets /\ e.age = NoReading /\ e.j = 0 /\ e.dt = 0
  BY <1>1, <1>2 DEF BucketOf, Buckets
<1>4. /\ [e EXCEPT !.age = 0] \in Buckets /\ [e EXCEPT !.age = 0].age = 0
      /\ [e EXCEPT !.age = 0].j = e.j /\ [e EXCEPT !.age = 0].dt = e.dt
  BY <1>3 DEF Buckets
<1>5. QED BY <1>3, <1>4 DEF e

LEMMA BucketParts ==
    ASSUME NEW m \in Meters
    PROVE  /\ m.bucket \in Buckets
           /\ m.bucket.age \in Nat \cup {NoReading}
           /\ m.bucket.j \in Nat /\ m.bucket.dt \in Nat
           /\ m.bucket.discharging \in BOOLEAN /\ m.bucket.charging \in BOOLEAN
<1>1. m.bucket \in Buckets
  BY DEF Meters
<1>2. QED BY <1>1 DEF Buckets

(* The seconds that count towards an average.                              *)
Measured(r, dt) == IF r.w = NoReading THEN 0 ELSE dt

Aggregated(m, n, r, dt) ==
    /\ n \in Meters /\ SameBut(m, n, {"bucket"})
    /\ n.bucket.age = IF m.bucket.age = NoReading THEN 0 ELSE m.bucket.age + dt
    /\ n.bucket.j = m.bucket.j + Joules(r, dt)
    /\ n.bucket.dt = m.bucket.dt + Measured(r, dt)

LEMMA Aggregating ==
    ASSUME NEW m \in Meters, NEW r \in Readings, NEW dt \in Nat
    PROVE  Aggregated(m, Aggregate(m, r, dt), r, dt)
<1> DEFINE age == IF m.bucket.age = NoReading THEN 0 ELSE m.bucket.age + dt
           j   == m.bucket.j + Joules(r, dt)
           t   == m.bucket.dt + Measured(r, dt)
           d   == m.bucket.discharging \/ r.status = "Discharging"
           c   == m.bucket.charging \/ r.status = "Charging"
           b   == BucketOf(age, j, t, d, c)
           n   == Aggregate(m, r, dt)
<1>1. age \in Nat \cup {NoReading} /\ j \in Nat /\ t \in Nat
  BY BucketParts, AddedType DEF Measured
<1>2. d \in BOOLEAN /\ c \in BOOLEAN
  OBVIOUS
<1>3. n = [m EXCEPT !["bucket"] = b]
  BY DEF Aggregate, BucketOf, Measured
<1>4. age = (IF m.bucket.age = NoReading THEN 0 ELSE m.bucket.age + dt)
      /\ j = m.bucket.j + Joules(r, dt) /\ t = m.bucket.dt + Measured(r, dt)
  OBVIOUS
<1> HIDE DEF age, j, t, d, c, n
<1>5. b \in Buckets /\ b.age = age /\ b.j = j /\ b.dt = t
  BY <1>1, <1>2, BucketType
<1> HIDE DEF b
<1>6. "bucket" \in Fields /\ b \in FieldType("bucket")
  BY <1>5, FieldTypes DEF Fields, Others
<1>7. n \in Meters /\ n["bucket"] = b /\ SameBut(m, n, {"bucket"})
  BY <1>3, <1>6, SetField
<1>8. Aggregated(m, n, r, dt)
  BY <1>4, <1>5, <1>7 DEF Aggregated
<1>9. QED BY <1>8 DEF n

-----------------------------------------------------------------------------
(* The newest points of a timeline.                                        *)
Dropped(s) == IF Len(s) > MaxSamples THEN Len(s) - MaxSamples ELSE 0

LEMMA CappedIsSuffix ==
    ASSUME NEW S, NEW s \in Seq(S)
    PROVE  /\ Capped(s) \in Seq(S) /\ Dropped(s) \in Nat
           /\ Len(Capped(s)) = Len(s) - Dropped(s) /\ Len(Capped(s)) <= MaxSamples
           /\ \A i \in 1 .. Len(Capped(s)) :
                 i + Dropped(s) \in 1 .. Len(s) /\ Capped(s)[i] = s[i + Dropped(s)]
           /\ s # <<>> => Capped(s) # <<>>
<1>1. MaxSamples \in Nat \ {0} /\ Len(s) \in Nat
  BY MeterAssumption DEF MeterAssumption
<1>2. CASE Len(s) > MaxSamples
  <2> DEFINE m == Len(s) - MaxSamples + 1
             c == SubSeq(s, m, Len(s))
  <2>1. m \in 1 .. Len(s) /\ Len(s) \in m .. Len(s) /\ Capped(s) = c
    BY <1>1, <1>2 DEF Capped
  <2>2. \A i \in m .. Len(s) : s[i] \in S
    BY <2>1
  <2> HIDE DEF m
  <2>3. c \in Seq(S) /\ Len(c) = Len(s) - m + 1 /\ \A i \in 1 .. Len(s) - m + 1 : c[i] = s[m + i - 1]
    <3>1. Len(s) \in Nat /\ m \in Nat
      BY <2>1, <1>1
    <3>2. QED BY <2>1, <2>2, <3>1, SubSeqProperties
  <2> HIDE DEF c
  <2>4. m = Len(s) - MaxSamples + 1 /\ Dropped(s) = Len(s) - MaxSamples
    BY <1>2 DEF m, Dropped
  <2>5. Len(c) = MaxSamples
    BY <1>1, <2>3, <2>4
  <2>6. \A i \in 1 .. Len(c) : i + Dropped(s) \in 1 .. Len(s) /\ c[i] = s[i + Dropped(s)]
    <3> TAKE i \in 1 .. Len(c)
    <3>1. c[i] = s[m + i - 1]
      BY <1>1, <2>3, <2>4, <2>5
    <3>2. m + i - 1 = i + Dropped(s) /\ i + Dropped(s) \in 1 .. Len(s)
      BY <1>1, <1>2, <2>4, <2>5
    <3>3. QED BY <3>1, <3>2
  <2>7. c # <<>>
    BY <1>1, <2>5
  <2>8. QED BY <1>1, <1>2, <2>1, <2>3, <2>4, <2>5, <2>6, <2>7
<1>3. CASE ~(Len(s) > MaxSamples)
  BY <1>1, <1>3 DEF Capped, Dropped
<1>4. QED BY <1>2, <1>3

(* A point is added to a timeline.                                         *)
Extended(s, p, c, d) ==
    /\ d \in Nat /\ c \in Seq(Points) /\ c # <<>>
    /\ Len(c) \in Nat /\ Len(c) = Len(s) + 1 - d /\ Len(c) <= MaxSamples
    /\ c[Len(c)] = p
    /\ \A i \in 1 .. Len(c) - 1 : i + d \in 1 .. Len(s) /\ c[i] = s[i + d]

LEMMA Extending ==
    ASSUME NEW s \in Seq(Points), NEW p \in Points
    PROVE  Extended(s, p, Capped(Append(s, p)), Dropped(Append(s, p)))
<1> DEFINE a == Append(s, p)
           c == Capped(a)
           d == Dropped(a)
<1>1. /\ a \in Seq(Points) /\ Len(a) = Len(s) + 1 /\ a[Len(s) + 1] = p
      /\ \A i \in 1 .. Len(s) : a[i] = s[i]
      /\ Len(s) \in Nat
  OBVIOUS
<1> HIDE DEF a
<1>2. /\ c \in Seq(Points) /\ d \in Nat /\ Len(c) = Len(a) - d /\ Len(c) <= MaxSamples
      /\ \A i \in 1 .. Len(c) : i + d \in 1 .. Len(a) /\ c[i] = a[i + d]
      /\ a # <<>> => c # <<>>
  BY <1>1, CappedIsSuffix
<1> HIDE DEF c, d
<1>3. c # <<>> /\ Len(c) \in Nat /\ Len(c) >= 1
  BY <1>1, <1>2
<1>4. c[Len(c)] = p
  BY <1>1, <1>2, <1>3
<1>5. \A i \in 1 .. Len(c) - 1 : i + d \in 1 .. Len(s) /\ c[i] = s[i + d]
  <2> TAKE i \in 1 .. Len(c) - 1
  <2>1. i \in 1 .. Len(c) /\ i + d \in 1 .. Len(s)
    BY <1>1, <1>2, <1>3
  <2>2. QED BY <1>1, <1>2, <2>1
<1>6. Extended(s, p, c, d)
  BY <1>1, <1>2, <1>3, <1>4, <1>5 DEF Extended
<1>7. QED BY <1>6 DEF a, c, d

(* ... after the bucket is closed, ...                                     *)
NewPoint(b, now) ==
    [at |-> now, j |-> b.j, dt |-> b.dt, discharging |-> b.discharging, charging |-> b.charging]

LEMMA PointType ==
    ASSUME NEW b \in Buckets, NEW now \in Nat
    PROVE  /\ NewPoint(b, now) \in Points /\ NewPoint(b, now).at = now
           /\ NewPoint(b, now).j = b.j /\ NewPoint(b, now).dt = b.dt
<1> DEFINE j == b.j
           t == b.dt
           d == b.discharging
           c == b.charging
<1>1. j \in Nat /\ t \in Nat /\ d \in BOOLEAN /\ c \in BOOLEAN
  BY DEF Buckets
<1>2. NewPoint(b, now) = [at |-> now, j |-> j, dt |-> t, discharging |-> d, charging |-> c]
  BY DEF NewPoint
<1>3. j = b.j /\ t = b.dt
  OBVIOUS
<1> HIDE DEF j, t, d, c
<1>4. QED BY <1>1, <1>2, <1>3 DEF Points

Closed(m, n, now) ==
    /\ n \in Meters /\ SameBut(m, n, {"samples", "bucket", "sinceSave"})
    /\ \E d : Extended(m.samples, NewPoint(m.bucket, now), n.samples, d)
    /\ n.bucket.age = 0 /\ n.bucket.j = 0 /\ n.bucket.dt = 0
    /\ n.sinceSave = m.sinceSave + 1

LEMMA Closing ==
    ASSUME NEW m \in Meters, NEW now \in Nat
    PROVE  Closed(m, CloseBucket(m, now), now)
<1> DEFINE p == NewPoint(m.bucket, now)
           s == Capped(Append(m.samples, p))
           b == [EmptyBucket EXCEPT !.age = 0]
           u == m.sinceSave + 1
           n == CloseBucket(m, now)
<1>1. /\ m.samples \in Seq(Points) /\ m.sinceSave \in Nat /\ m.bucket \in Buckets
      /\ DOMAIN m = Fields /\ \A g \in Fields : m[g] \in FieldType(g)
  BY MetersAreFunctions DEF Meters
<1>2. p \in Points
  BY <1>1, PointType
<1>3. Extended(m.samples, p, s, Dropped(Append(m.samples, p)))
  BY <1>1, <1>2, Extending
<1>4. b \in Buckets /\ b.age = 0 /\ b.j = 0 /\ b.dt = 0 /\ u \in Nat
  BY <1>1, EmptyBucketType
<1>5. n = [m EXCEPT !["samples"] = s, !["bucket"] = b, !["sinceSave"] = u]
  BY DEF CloseBucket, NewPoint
<1>6. s \in Seq(Points) /\ u = m.sinceSave + 1
  BY <1>3 DEF Extended
<1> HIDE DEF s, b, u, n
<1>7. /\ s \in FieldType("samples") /\ b \in FieldType("bucket") /\ u \in FieldType("sinceSave")
      /\ {"samples", "bucket", "sinceSave"} \subseteq Fields
  BY <1>4, <1>6, FieldTypes DEF Fields, Counters, Others
<1>8. /\ DOMAIN n = Fields /\ n["samples"] = s /\ n["bucket"] = b /\ n["sinceSave"] = u
      /\ \A g \in Fields \ {"samples", "bucket", "sinceSave"} : n[g] = m[g]
      /\ n = [g \in Fields |-> n[g]]
  BY <1>1, <1>5, <1>7
<1>9. \A g \in Fields : n[g] \in FieldType(g)
  BY <1>1, <1>7, <1>8
<1>10. n \in Meters
  BY <1>8, <1>9, MetersAreFunctions
<1>11. Closed(m, n, now)
  BY <1>3, <1>4, <1>6, <1>8, <1>10 DEF Closed, SameBut
<1>12. QED BY <1>11 DEF n

(* ... and after a transition.                                             *)
Crossed(m, r) == StartedSides(m, r) # {} /\ m.prevOnAc # "unknown"
Starts(side, m, r) == side \in StartedSides(m, r)

Crossing(m, n, r) ==
    /\ n \in Meters /\ SameBut(m, n, Counters \cup Flags \cup {"prevOnAc"})
    /\ n.sinceSave = m.sinceSave
    /\ n.onBattery = IF Starts("battery", m, r) THEN 0 ELSE m.onBattery
    /\ n.onAc      = IF Starts("ac", m, r) THEN 0 ELSE m.onAc
    /\ n.inBattery <=> Starts("battery", m, r) \/ (m.inBattery /\ ~Crossed(m, r))
    /\ n.inAc      <=> Starts("ac", m, r) \/ (m.inAc /\ ~Crossed(m, r))
    /\ n.discharge = IF Crossed(m, r) /\ Starts("battery", m, r) THEN 0 ELSE m.discharge
    /\ n.charge    = IF Crossed(m, r) /\ Starts("ac", m, r) THEN 0 ELSE m.charge
    /\ n.prevOnAc  = IF r.ac THEN "yes" ELSE "no"

LEMMA Transiting ==
    ASSUME NEW m \in Meters, NEW r
    PROVE  Crossing(m, Transition(m, r), r)
<1> DEFINE ob == IF Starts("battery", m, r) THEN 0 ELSE m.onBattery
           oa == IF Starts("ac", m, r) THEN 0 ELSE m.onAc
           ib == Starts("battery", m, r) \/ (m.inBattery /\ ~Crossed(m, r))
           ia == Starts("ac", m, r) \/ (m.inAc /\ ~Crossed(m, r))
           di == IF Crossed(m, r) /\ Starts("battery", m, r) THEN 0 ELSE m.discharge
           ch == IF Crossed(m, r) /\ Starts("ac", m, r) THEN 0 ELSE m.charge
           pr == IF r.ac THEN "yes" ELSE "no"
           n  == Transition(m, r)
           F  == {"onBattery", "onAc", "inBattery", "inAc", "discharge", "charge", "prevOnAc"}
<1>1. /\ DOMAIN m = Fields /\ \A g \in Fields : m[g] \in FieldType(g)
      /\ m["onBattery"] \in Nat /\ m["onAc"] \in Nat
      /\ m["discharge"] \in Nat /\ m["charge"] \in Nat
  BY MetersAreFunctions DEF Meters
<1>2. /\ ob \in Nat /\ oa \in Nat /\ di \in Nat /\ ch \in Nat /\ pr \in {"unknown", "yes", "no"}
      /\ ib \in BOOLEAN /\ ia \in BOOLEAN
  BY <1>1
<1>3. n = [m EXCEPT !["onBattery"] = ob, !["onAc"] = oa, !["inBattery"] = ib, !["inAc"] = ia,
                    !["discharge"] = di, !["charge"] = ch, !["prevOnAc"] = pr]
  BY DEF Transition, Starts, Crossed
<1>4. /\ ob = (IF Starts("battery", m, r) THEN 0 ELSE m.onBattery)
      /\ oa = (IF Starts("ac", m, r) THEN 0 ELSE m.onAc)
      /\ (ib <=> Starts("battery", m, r) \/ (m.inBattery /\ ~Crossed(m, r)))
      /\ (ia <=> Starts("ac", m, r) \/ (m.inAc /\ ~Crossed(m, r)))
      /\ di = (IF Crossed(m, r) /\ Starts("battery", m, r) THEN 0 ELSE m.discharge)
      /\ ch = (IF Crossed(m, r) /\ Starts("ac", m, r) THEN 0 ELSE m.charge)
      /\ pr = (IF r.ac THEN "yes" ELSE "no")
  OBVIOUS
<1> HIDE DEF ob, oa, ib, ia, di, ch, pr, n
<1>5. /\ ob \in FieldType("onBattery") /\ oa \in FieldType("onAc")
      /\ ib \in FieldType("inBattery") /\ ia \in FieldType("inAc")
      /\ di \in FieldType("discharge") /\ ch \in FieldType("charge")
      /\ pr \in FieldType("prevOnAc") /\ F \subseteq Fields
  BY <1>2, FieldTypes DEF Fields, Counters, Flags, Others
<1>6. /\ DOMAIN n = Fields /\ n = [g \in Fields |-> n[g]]
      /\ n["onBattery"] = ob /\ n["onAc"] = oa /\ n["inBattery"] = ib /\ n["inAc"] = ia
      /\ n["discharge"] = di /\ n["charge"] = ch /\ n["prevOnAc"] = pr
      /\ \A g \in Fields \ F : n[g] = m[g]
  BY <1>1, <1>3, <1>5
<1>7. \A g \in Fields : n[g] \in FieldType(g)
  BY <1>1, <1>5, <1>6
<1>8. n \in Meters
  BY <1>6, <1>7, MetersAreFunctions
<1>9. SameBut(m, n, Counters \cup Flags \cup {"prevOnAc"}) /\ n["sinceSave"] = m["sinceSave"]
  BY <1>6 DEF SameBut, Fields, Counters, Flags, Others
<1>10. Crossing(m, n, r)
  BY <1>4, <1>6, <1>8, <1>9 DEF Crossing
<1>11. QED BY <1>10 DEF n

-----------------------------------------------------------------------------
(* The RAPL counter.                                                       *)
LEMMA Division ==
    ASSUME NEW x \in Nat, NEW M \in Nat \ {0}
    PROVE  /\ x % M \in 0 .. M - 1 /\ x % M \in Nat /\ x \div M \in Nat
           /\ x = (x \div M) * M + (x % M)
OBVIOUS

(* One more wrap at most between two readings: the difference is exact.    *)
LEMMA OneWrap ==
    ASSUME NEW M \in Nat \ {0}, NEW prev \in Nat, NEW cur \in Nat, NEW used \in Nat, NEW k \in Nat,
           prev < M, cur < M, used < M, prev + used = k * M + cur
    PROVE  (IF cur >= prev THEN cur - prev ELSE (M - prev) + cur) = used
<1>1. k = 0 \/ k = 1 \/ k >= 2
  OBVIOUS
<1>2. CASE k = 0
  BY <1>2
<1>3. CASE k = 1
  BY <1>3
<1>4. CASE k >= 2
  <2>1. k * M >= 2 * M
    BY <1>4
  <2>2. QED BY <2>1
<1>5. QED BY <1>1, <1>2, <1>3, <1>4

(* The counter and the result after a tick.                                *)
CounterAfter(draw) == IF CounterMax = 0 THEN 0 ELSE (zone.counter + draw) % CounterMax
NoComparison(cur, dt) == dt = 0 \/ zone.prev = NoReading \/ (cur < zone.prev /\ CounterMax = 0)
ResultAfter(cur, readable, dt) ==
    IF ~readable \/ NoComparison(cur, dt) THEN NoResult
    ELSE IF Delta(zone.prev, cur) <= CapW * dt
    THEN [delta |-> Delta(zone.prev, cur), dt |-> dt] ELSE NoResult

LEMMA ZoneAfter ==
    ASSUME zone \in Zones, NEW draw \in Nat, NEW readable \in BOOLEAN, NEW dt \in Nat,
           ZoneStep(draw, readable, dt)
    PROVE  /\ DOMAIN zone' = {"counter", "prev", "result", "used", "before"}
           /\ zone' = [g \in DOMAIN zone' |-> zone'[g]]
           /\ CounterAfter(draw) \in Nat
           /\ zone'["counter"] = CounterAfter(draw)
           /\ zone'["prev"] = IF readable THEN CounterAfter(draw) ELSE zone.prev
           /\ zone'["result"] = ResultAfter(CounterAfter(draw), readable, dt)
           /\ zone'["used"] = IF readable THEN 0 ELSE zone.used + draw
           /\ zone'["before"] = IF readable THEN zone.used + draw ELSE zone.before
<1> DEFINE c == CounterAfter(draw)
           u == zone.used + draw
           z == SampleZone(zone, IF readable THEN c ELSE NoReading, dt)
           q == ResultAfter(c, readable, dt)
<1>1. c \in Nat
  <2>1. CASE CounterMax = 0
    BY <2>1 DEF CounterAfter
  <2>2. CASE CounterMax # 0
    <3>1. CounterMax \in Nat \ {0} /\ zone.counter + draw \in Nat
      BY <2>2, MeterAssumption DEF MeterAssumption, Zones
    <3>2. (zone.counter + draw) % CounterMax \in Nat
      BY <3>1, Division
    <3>3. QED BY <2>2, <3>2 DEF CounterAfter
  <2>3. QED BY <2>1, <2>2
<1>2. c # NoReading
  BY <1>1, MeterAssumption DEF MeterAssumption
<1>3. zone' = [z EXCEPT !["counter"] = c, !["used"] = IF readable THEN 0 ELSE u,
                        !["before"] = IF readable THEN u ELSE @]
  BY DEF ZoneStep, CounterAfter
<1> HIDE DEF c
<1>4. z = IF readable THEN [zone EXCEPT !["prev"] = c, !["result"] = q]
                      ELSE [zone EXCEPT !["result"] = q]
  <2>1. CASE ~readable
    BY <2>1 DEF SampleZone, ResultAfter
  <2>2. CASE readable /\ NoComparison(c, dt)
    BY <2>2, <1>2 DEF SampleZone, ResultAfter, NoComparison
  <2>3. CASE readable /\ ~NoComparison(c, dt)
    BY <2>3, <1>2 DEF SampleZone, ResultAfter, NoComparison
  <2>4. QED BY <2>1, <2>2, <2>3
<1> HIDE DEF z, q
<1>5. /\ DOMAIN zone = {"counter", "prev", "result", "used", "before"}
      /\ zone = [g \in DOMAIN zone |-> zone[g]]
  BY DEF Zones
<1>6. /\ DOMAIN z = DOMAIN zone
      /\ z["prev"] = IF readable THEN c ELSE zone["prev"]
      /\ z["result"] = q /\ z["counter"] = zone["counter"]
      /\ z["used"] = zone["used"] /\ z["before"] = zone["before"]
  BY <1>4, <1>5
<1>7. /\ DOMAIN zone' = DOMAIN z /\ zone' = [g \in DOMAIN zone' |-> zone'[g]]
      /\ zone'["counter"] = c /\ zone'["prev"] = z["prev"] /\ zone'["result"] = z["result"]
      /\ zone'["used"] = IF readable THEN 0 ELSE u
      /\ zone'["before"] = IF readable THEN u ELSE z["before"]
  BY <1>3, <1>5, <1>6
<1>8. QED BY <1>1, <1>5, <1>6, <1>7 DEF c, q

LEMMA DeltaType ==
    ASSUME NEW prev \in Nat, NEW cur \in Nat, CounterMax > 0 => prev < CounterMax,
           ~(cur < prev /\ CounterMax = 0)
    PROVE  Delta(prev, cur) \in Nat
BY MeterAssumption DEF MeterAssumption, Delta

LEMMA ResultType == NoResult \in [delta : Nat, dt : Nat]
BY DEF NoResult

LEMMA ZoneStepKeeps ==
    ASSUME zone \in Zones, CounterInv, NEW draw \in Nat, NEW readable \in BOOLEAN,
           NEW dt \in Nat, ZoneStep(draw, readable, dt)
    PROVE  zone' \in Zones /\ CounterInv'
<1> DEFINE c == CounterAfter(draw)
           u == zone.used + draw
           q == ResultAfter(c, readable, dt)
           M == CounterMax
<1>1. /\ DOMAIN zone' = {"counter", "prev", "result", "used", "before"}
      /\ zone' = [g \in DOMAIN zone' |-> zone'[g]]
      /\ c \in Nat /\ zone'["counter"] = c
      /\ zone'["prev"] = IF readable THEN c ELSE zone.prev
      /\ zone'["result"] = q
      /\ zone'["used"] = IF readable THEN 0 ELSE u
      /\ zone'["before"] = IF readable THEN u ELSE zone.before
  BY ZoneAfter
<1>2. /\ M \in Nat /\ CapW \in Nat /\ u \in Nat /\ zone.counter \in Nat /\ zone.used \in Nat
      /\ zone.prev \in Nat \cup {NoReading} /\ zone.before \in Nat
      /\ zone.result \in [delta : Nat, dt : Nat] /\ NoReading \notin Nat
  BY MeterAssumption DEF MeterAssumption, Zones
<1>3. /\ M > 0 => zone.counter < M /\ (zone.prev # NoReading => zone.prev < M)
      /\ WrapIsExact
  BY DEF CounterInv
<1>4. readable /\ ~NoComparison(c, dt) =>
         /\ zone.prev \in Nat /\ Delta(zone.prev, c) \in Nat
         /\ q \in {NoResult, [delta |-> Delta(zone.prev, c), dt |-> dt]}
  <2> SUFFICES ASSUME readable, ~NoComparison(c, dt)
               PROVE  /\ zone.prev \in Nat /\ Delta(zone.prev, c) \in Nat
                      /\ q \in {NoResult, [delta |-> Delta(zone.prev, c), dt |-> dt]}
    OBVIOUS
  <2>1. zone.prev \in Nat /\ ~(c < zone.prev /\ M = 0)
    BY <1>2 DEF NoComparison
  <2>2. Delta(zone.prev, c) \in Nat
    BY <1>1, <1>2, <1>3, <2>1, DeltaType
  <2>3. q \in {NoResult, [delta |-> Delta(zone.prev, c), dt |-> dt]}
    BY DEF ResultAfter
  <2>4. QED BY <2>1, <2>2, <2>3
<1>5. ~readable \/ NoComparison(c, dt) => q = NoResult
  BY DEF ResultAfter
<1>6. q \in [delta : Nat, dt : Nat]
  BY <1>4, <1>5, ResultType
<1> HIDE DEF q, u
<1>7. M > 0 /\ zone.prev # NoReading =>
         \E k \in Nat : zone.prev + u = k * M + c /\ c < M
  <2> SUFFICES ASSUME M > 0, zone.prev # NoReading
               PROVE  \E k \in Nat : zone.prev + u = k * M + c /\ c < M
    OBVIOUS
  <2>1. PICK k \in Nat : zone.prev + zone.used = k * M + zone.counter
    BY DEF CounterInv
  <2> DEFINE x == zone.counter + draw
             d == x \div M
  <2>2. x \in Nat /\ M \in Nat \ {0} /\ c = x % M
    BY <1>2 DEF CounterAfter
  <2> HIDE DEF x
  <2>3. c < M /\ d \in Nat /\ x = d * M + c
    <3>1. /\ x % M \in 0 .. M - 1 /\ x \div M \in Nat
          /\ x = (x \div M) * M + (x % M)
      BY <2>2, Division, Zenon
    <3>2. c \in 0 .. M - 1
      BY <2>2, <3>1
    <3>3. c < M
      BY <1>2, <3>2
    <3>4. QED BY <2>2, <3>1, <3>3, Zenon
  <2> HIDE DEF d
  <2>4. zone.prev + u = k * M + x
    <3>1. zone.prev \in Nat /\ k * M \in Nat
      BY <1>2, <2>2
    <3>2. QED BY <1>2, <2>1, <3>1 DEF u, x
  <2>5. (k + d) * M = k * M + d * M
    BY <2>2, <2>3
  <2>6. k * M \in Nat /\ d * M \in Nat /\ zone.prev \in Nat
    BY <1>2, <2>2, <2>3
  <2>7. zone.prev + u = (k + d) * M + c
    BY <1>1, <1>2, <2>3, <2>4, <2>5, <2>6
  <2>8. k + d \in Nat
    BY <2>3
  <2>9. QED BY <2>3, <2>7, <2>8
<1>8. M > 0 => c < M
  <2> SUFFICES ASSUME M > 0 PROVE c < M
    OBVIOUS
  <2>1. zone.counter + draw \in Nat /\ M \in Nat \ {0}
    BY <1>2
  <2>2. c = (zone.counter + draw) % M
    BY <1>2 DEF CounterAfter
  <2>3. QED BY <2>1, <2>2, Division
<1>9. zone' \in Zones
  <2>1. zone'["prev"] \in Nat \cup {NoReading} /\ zone'["used"] \in Nat /\ zone'["before"] \in Nat
    BY <1>1, <1>2
  <2>2. QED BY <1>1, <1>6, <2>1 DEF Zones
<1>10. WrapIsExact'
  <2> SUFFICES ASSUME zone'.result # NoResult, zone'.before < M
               PROVE  zone'.result.delta = zone'.before
    BY DEF WrapIsExact
  <2>1. readable /\ ~NoComparison(c, dt)
    BY <1>1, <1>5
  <2>2. zone.prev \in Nat /\ zone'["result"].delta = Delta(zone.prev, c)
    BY <1>1, <1>4, <2>1
  <2>3. u < M /\ M > 0
    BY <1>1, <1>2, <2>1
  <2>4. PICK k \in Nat : zone.prev + u = k * M + c /\ c < M
    BY <1>2, <1>7, <2>2, <2>3
  <2>5. Delta(zone.prev, c) = u
    <3>1. M \in Nat \ {0} /\ zone.prev < M
      BY <1>2, <1>3, <2>2, <2>3
    <3>2. QED BY <1>1, <1>2, <2>2, <2>3, <2>4, <3>1, OneWrap DEF Delta
  <2>6. QED BY <1>1, <2>1, <2>2, <2>5
<1>11. CounterInv'
  <2>1. ASSUME M > 0, zone'.prev # NoReading
        PROVE  /\ zone'.prev < M
               /\ \E k \in Nat : zone'.prev + zone'.used = k * M + zone'.counter
    <3>1. CASE readable
      <4>1. zone'["prev"] = c /\ zone'["used"] = 0 /\ zone'["counter"] = c
        BY <1>1, <3>1
      <4>2. c + 0 = 0 * M + c
        BY <1>1, <1>2
      <4>3. 0 \in Nat
        OBVIOUS
      <4>4. QED BY <1>8, <2>1, <4>1, <4>2, <4>3
    <3>2. CASE ~readable
      <4>1. zone'["prev"] = zone.prev /\ zone'["used"] = u /\ zone'["counter"] = c
        BY <1>1, <3>2
      <4>2. QED BY <1>3, <1>7, <2>1, <4>1
    <3>3. QED BY <3>1, <3>2
  <2>2. M > 0 => zone'.counter < M
    BY <1>1, <1>8
  <2>3. QED BY <1>10, <2>1, <2>2 DEF CounterInv
<1>12. QED BY <1>9, <1>11

-----------------------------------------------------------------------------
(* One tick.                                                               *)

(* What a tick adds to the meter, before the bucket is closed.             *)
Added(m, r, dt) ==
    /\ m \in Meters
    /\ m.discharge = meter.discharge + Out(r, dt)
    /\ m.charge = meter.charge + In(r, dt)
    /\ m.onBattery = meter.onBattery + IF meter.inBattery THEN Away(r, dt) ELSE 0
    /\ m.onAc = meter.onAc + IF meter.inAc THEN Plugged(r, dt) ELSE 0
    /\ m.samples = meter.samples /\ m.sinceSave = meter.sinceSave
    /\ m.prevOnAc = meter.prevOnAc
    /\ (m.inBattery <=> meter.inBattery) /\ (m.inAc <=> meter.inAc)
    /\ m.bucket.age = IF meter.bucket.age = NoReading THEN 0 ELSE meter.bucket.age + dt
    /\ m.bucket.j = meter.bucket.j + Joules(r, dt)
    /\ m.bucket.dt = meter.bucket.dt + Measured(r, dt)

(* Then a full bucket is closed, ...                                       *)
ClosedIfFull(m, n) == IF BucketFull(m) THEN Closed(m, n, clock') ELSE n = m

(* ... the file is written, ...                                            *)
Periodic(m, n) == BucketFull(m) /\ PeriodicSave(n)
Written2(r, m, n, okPeriodic, okTransition) ==
    file' = IF StartedSides(n, r) # {} /\ okTransition THEN Persisted(meter')
            ELSE IF Periodic(m, n) /\ okPeriodic THEN Persisted(n) ELSE file

(* ... and the truth goes on.                                              *)
Truer(r, dt, m, n, okPeriodic, okTransition) ==
    /\ truth' \in Truths
    /\ truth'.flow.battery = IF Crossed(n, r) /\ Starts("battery", n, r) THEN 0
                             ELSE truth.flow.battery + Out(r, dt)
    /\ truth'.flow.ac = IF Crossed(n, r) /\ Starts("ac", n, r) THEN 0
                        ELSE truth.flow.ac + In(r, dt)
    /\ truth'.time.battery = IF Starts("battery", n, r) THEN 0
                             ELSE truth.time.battery + Away(r, dt)
    /\ truth'.time.ac = IF Starts("ac", n, r) THEN 0
                        ELSE truth.time.ac + Plugged(r, dt)
    /\ truth'.unsafe =
          IF StartedSides(n, r) # {} /\ okTransition THEN {}
          ELSE (IF Periodic(m, n) /\ okPeriodic THEN {} ELSE truth.unsafe) \cup StartedSides(n, r)
    /\ truth'.doubtful = IF Crossed(n, r) THEN truth.doubtful \ StartedSides(n, r)
                         ELSE truth.doubtful
    /\ truth'.lossy = IF Crossed(n, r) THEN truth.lossy \ StartedSides(n, r)
                      ELSE truth.lossy
    /\ truth'.triedAt = IF Periodic(m, n) \/ StartedSides(n, r) # {} THEN clock'
                        ELSE truth.triedAt

Tick(r, dt, m, n, okPeriodic, okTransition) ==
    /\ r \in Readings /\ dt \in Nat /\ (meter.prevOnAc = "unknown" => dt = 0)
    /\ okPeriodic \in BOOLEAN /\ okTransition \in BOOLEAN
    /\ up /\ up' = up /\ starts' = starts /\ clock' = clock + dt
    /\ Added(m, r, dt) /\ n \in Meters /\ ClosedIfFull(m, n) /\ Crossing(n, meter', r)
    /\ Written2(r, m, n, okPeriodic, okTransition)
    /\ Truer(r, dt, m, n, okPeriodic, okTransition)
    /\ ZoneStep(r.draw, r.readable, dt)

LEMMA StartedType ==
    ASSUME NEW m, NEW r
    PROVE  StartedSides(m, r) \subseteq Sides
BY DEF StartedSides, Sides

LEMMA AddedUp ==
    ASSUME meter \in Meters, NEW r \in Readings, NEW dt \in Nat
    PROVE  Added(Aggregate(Accrue(Integrate(meter, r, dt), r, dt), r, dt), r, dt)
<1> DEFINE m == Accrue(Integrate(meter, r, dt), r, dt)
           n == Aggregate(m, r, dt)
<1>1. Summed(m, r, dt)
  BY Summing
<1> HIDE DEF m
<1>2. m \in Meters
  BY <1>1 DEF Summed
<1>3. Aggregated(m, n, r, dt)
  BY <1>2, Aggregating
<1> HIDE DEF n
<1>4. \A g \in Fields \ {"bucket"} : n[g] = m[g]
  BY <1>3 DEF Aggregated, SameBut
<1>5. /\ n["discharge"] = m["discharge"] /\ n["charge"] = m["charge"]
      /\ n["onBattery"] = m["onBattery"] /\ n["onAc"] = m["onAc"]
      /\ n["samples"] = m["samples"] /\ n["sinceSave"] = m["sinceSave"]
      /\ n["prevOnAc"] = m["prevOnAc"]
      /\ n["inBattery"] = m["inBattery"] /\ n["inAc"] = m["inAc"]
  BY <1>4 DEF Fields, Counters, Flags, Others
<1>6. /\ m["samples"] = meter["samples"] /\ m["sinceSave"] = meter["sinceSave"]
      /\ m["prevOnAc"] = meter["prevOnAc"] /\ m["bucket"] = meter["bucket"]
      /\ m["inBattery"] = meter["inBattery"] /\ m["inAc"] = meter["inAc"]
  BY <1>1 DEF Summed, SameBut, Fields, Counters, Flags, Others
<1>7. n \in Meters
  BY <1>3 DEF Aggregated
<1>8. /\ n.bucket.age = IF meter.bucket.age = NoReading THEN 0 ELSE meter.bucket.age + dt
      /\ n.bucket.j = meter.bucket.j + Joules(r, dt)
      /\ n.bucket.dt = meter.bucket.dt + Measured(r, dt)
  BY <1>3, <1>6 DEF Aggregated
<1>9. /\ n.discharge = meter.discharge + Out(r, dt)
      /\ n.charge = meter.charge + In(r, dt)
      /\ n.onBattery = meter.onBattery + IF meter.inBattery THEN Away(r, dt) ELSE 0
      /\ n.onAc = meter.onAc + IF meter.inAc THEN Plugged(r, dt) ELSE 0
  BY <1>1, <1>5 DEF Summed
<1>10. Added(n, r, dt)
  BY <1>5, <1>6, <1>7, <1>8, <1>9 DEF Added
<1>11. QED BY <1>10 DEF n, m

LEMMA TruthParts ==
    ASSUME truth \in Truths, clock' \in Nat, NEW r \in Readings, NEW dt \in Nat,
           NEW m, NEW n, NEW okP \in BOOLEAN, NEW okT \in BOOLEAN,
           TruthAfter(r, dt, StartedSides(n, r), Crossed(n, r),
                      Periodic(m, n) \/ StartedSides(n, r) # {},
                      Periodic(m, n) /\ okP, StartedSides(n, r) # {} /\ okT)
    PROVE  Truer(r, dt, m, n, okP, okT)
<1> DEFINE st == StartedSides(n, r)
           awake == IF dt > SuspendGap THEN 0 ELSE dt
           fb == IF "battery" \in st /\ Crossed(n, r) THEN 0
                 ELSE truth.flow.battery + Out(r, dt)
           fa == IF "ac" \in st /\ Crossed(n, r) THEN 0 ELSE truth.flow.ac + In(r, dt)
           tb == IF "battery" \in st THEN 0
                 ELSE truth.time.battery + IF r.ac THEN 0 ELSE awake
           ta == IF "ac" \in st THEN 0 ELSE truth.time.ac + IF r.ac THEN awake ELSE 0
           us == IF st # {} /\ okT THEN {}
                 ELSE (IF Periodic(m, n) /\ okP THEN {} ELSE truth.unsafe) \cup st
           do == IF Crossed(n, r) THEN truth.doubtful \ st ELSE truth.doubtful
           lo == IF Crossed(n, r) THEN truth.lossy \ st ELSE truth.lossy
           at == IF Periodic(m, n) \/ st # {} THEN clock' ELSE truth.triedAt
           fl == [battery |-> fb, ac |-> fa]
           ti == [battery |-> tb, ac |-> ta]
<1>1. /\ truth.flow.battery \in Nat /\ truth.flow.ac \in Nat
      /\ truth.time.battery \in Nat /\ truth.time.ac \in Nat
      /\ truth.unsafe \subseteq Sides /\ truth.doubtful \subseteq Sides
      /\ truth.lossy \subseteq Sides /\ truth.triedAt \in Nat
  BY DEF Truths, Pairs
<1>2. /\ Out(r, dt) \in Nat /\ In(r, dt) \in Nat /\ Away(r, dt) \in Nat /\ Plugged(r, dt) \in Nat
      /\ st \subseteq Sides
  BY AddedType, StartedType
<1>3. fb \in Nat /\ fa \in Nat /\ tb \in Nat /\ ta \in Nat
  <2>1. awake \in Nat
    OBVIOUS
  <2> HIDE DEF awake
  <2>2. QED BY <1>1, <1>2, <2>1
<1>4. us \in SUBSET Sides /\ do \in SUBSET Sides /\ lo \in SUBSET Sides /\ at \in Nat
  BY <1>1, <1>2
<1>5. /\ fb = IF Crossed(n, r) /\ Starts("battery", n, r) THEN 0
              ELSE truth.flow.battery + Out(r, dt)
      /\ fa = IF Crossed(n, r) /\ Starts("ac", n, r) THEN 0 ELSE truth.flow.ac + In(r, dt)
      /\ tb = IF Starts("battery", n, r) THEN 0 ELSE truth.time.battery + Away(r, dt)
      /\ ta = IF Starts("ac", n, r) THEN 0 ELSE truth.time.ac + Plugged(r, dt)
  BY DEF Away, Plugged, Starts
<1>6. truth' = [truth EXCEPT !["flow"] = fl, !["time"] = ti, !["unsafe"] = us,
                             !["doubtful"] = do, !["lossy"] = lo, !["triedAt"] = at]
  BY DEF TruthAfter, Out, In
<1>7. fl \in Pairs /\ ti \in Pairs /\ fl.battery = fb /\ fl.ac = fa
      /\ ti.battery = tb /\ ti.ac = ta
  BY <1>3 DEF Pairs
<1> HIDE DEF fb, fa, tb, ta, us, do, lo, at, fl, ti
<1>8. /\ truth' \in Truths /\ truth'.flow = fl /\ truth'.time = ti /\ truth'.unsafe = us
      /\ truth'.doubtful = do /\ truth'.lossy = lo /\ truth'.triedAt = at
  BY <1>4, <1>6, <1>7 DEF Truths
<1>9. QED BY <1>5, <1>7, <1>8 DEF Truer, us, do, lo, at

LEMMA SampleTicks ==
    ASSUME MeterType, NEW r \in Readings, NEW step \in Dts,
           NEW okP \in SaveOutcomes, NEW okT \in SaveOutcomes, Sample(r, step, okP, okT)
    PROVE  \E m, n : Tick(r, Elapsed(step), m, n, okP, okT)
<1> DEFINE dt == Elapsed(step)
           m1 == Aggregate(Accrue(Integrate(meter, r, dt), r, dt), r, dt)
           m2 == IF BucketFull(m1) THEN CloseBucket(m1, clock') ELSE m1
           st == StartedSides(m2, r)
           pe == Periodic(m1, m2)
<1>1. /\ meter \in Meters /\ truth \in Truths /\ clock \in Nat
  BY DEF MeterType
<1>2. /\ dt \in Nat /\ (meter.prevOnAc = "unknown" => dt = 0)
      /\ okP \in BOOLEAN /\ okT \in BOOLEAN
  BY MeterAssumption DEF MeterAssumption, Elapsed
<1>3. /\ up /\ clock' = clock + dt /\ up' = up /\ starts' = starts
      /\ meter' = Transition(m2, r)
      /\ file' = IF st # {} /\ okT THEN Persisted(meter')
                 ELSE IF pe THEN Saved(m2, okP) ELSE file
      /\ TruthAfter(r, dt, st, st # {} /\ meter.prevOnAc # "unknown",
                    pe \/ st # {}, pe /\ okP, st # {} /\ okT)
      /\ ZoneStep(r.draw, r.readable, dt)
  BY DEF Sample, Periodic
<1> HIDE DEF dt
<1>4. clock' \in Nat
  BY <1>1, <1>2, <1>3
<1>5. Added(m1, r, dt)
  BY <1>1, <1>2, AddedUp
<1> HIDE DEF m1
<1>6. m1 \in Meters /\ m1.prevOnAc = meter.prevOnAc
  BY <1>5 DEF Added
<1>7. m2 \in Meters /\ ClosedIfFull(m1, m2) /\ m2.prevOnAc = meter.prevOnAc
  <2>1. CASE BucketFull(m1)
    <3>1. Closed(m1, m2, clock')
      BY <2>1, <1>4, <1>6, Closing
    <3> HIDE DEF m2
    <3>2. m2 \in Meters /\ m2["prevOnAc"] = m1["prevOnAc"]
      BY <3>1 DEF Closed, SameBut, Fields, Others
    <3>3. QED BY <2>1, <3>1, <3>2, <1>6 DEF ClosedIfFull
  <2>2. CASE ~BucketFull(m1)
    BY <2>2, <1>6 DEF ClosedIfFull
  <2>3. QED BY <2>1, <2>2
<1> HIDE DEF m2
<1>8. Crossing(m2, meter', r)
  BY <1>3, <1>7, Transiting
<1>9. Written2(r, m1, m2, okP, okT)
  BY <1>3 DEF Written2, Saved
<1>10. Truer(r, dt, m1, m2, okP, okT)
  <2>1. TruthAfter(r, dt, st, st # {} /\ m2.prevOnAc # "unknown",
                   pe \/ st # {}, pe /\ okP, st # {} /\ okT)
    BY <1>3, <1>7, Zenon
  <2>2. TruthAfter(r, dt, st, Crossed(m2, r), pe \/ st # {}, pe /\ okP, st # {} /\ okT)
    BY <2>1 DEF Crossed
  <2>3. QED BY <1>1, <1>2, <1>4, <2>2, TruthParts
<1>11. Tick(r, dt, m1, m2, okP, okT)
  BY <1>2, <1>3, <1>5, <1>7, <1>8, <1>9, <1>10 DEF Tick
<1>12. QED BY <1>11 DEF dt

LEMMA PersistedType ==
    ASSUME NEW m \in Meters
    PROVE  /\ Persisted(m) \in Files /\ Persisted(m).samples = m.samples
           /\ Persisted(m).onBattery = m.onBattery /\ Persisted(m).onAc = m.onAc
           /\ Persisted(m).discharge = m.discharge /\ Persisted(m).charge = m.charge
<1>1. /\ m.onBattery \in Nat /\ m.onAc \in Nat /\ m.discharge \in Nat /\ m.charge \in Nat
      /\ m.samples \in Seq(Points)
  BY DEF Meters
<1>2. QED BY <1>1 DEF Persisted, Files

(* The timeline, the bucket and what is written of them.                   *)
LEMMA TickMeters ==
    ASSUME NEW r, NEW dt, NEW m, NEW n, NEW okP, NEW okT, Tick(r, dt, m, n, okP, okT)
    PROVE  /\ m \in Meters /\ n \in Meters /\ meter' \in Meters
           /\ meter'.samples = n.samples /\ meter'.bucket = n.bucket
           /\ meter'.sinceSave = n.sinceSave
<1>1. m \in Meters /\ n \in Meters /\ Crossing(n, meter', r)
  BY DEF Tick, Added
<1>2. meter' \in Meters /\ meter'["sinceSave"] = n["sinceSave"]
  BY <1>1 DEF Crossing
<1>3. \A g \in Fields \ (Counters \cup Flags \cup {"prevOnAc"}) : (meter')[g] = n[g]
  BY <1>1 DEF Crossing, SameBut
<1>4. meter'["samples"] = n["samples"] /\ meter'["bucket"] = n["bucket"]
  BY <1>3 DEF Fields, Others, Counters, Flags
<1>5. QED BY <1>1, <1>2, <1>4

LEMMA TickFile ==
    ASSUME NEW r, NEW dt, NEW m, NEW n, NEW okP, NEW okT, Tick(r, dt, m, n, okP, okT)
    PROVE  \/ file' = Persisted(meter') /\ StartedSides(n, r) # {} /\ okT
           \/ /\ ~(StartedSides(n, r) # {} /\ okT)
              /\ file' = Persisted(n) /\ Periodic(m, n) /\ okP
           \/ /\ ~(StartedSides(n, r) # {} /\ okT) /\ ~(Periodic(m, n) /\ okP)
              /\ file' = file
BY DEF Tick, Written2

LEMMA TickType ==
    ASSUME MeterType, CounterInv,
           NEW r, NEW dt, NEW m, NEW n, NEW okP, NEW okT, Tick(r, dt, m, n, okP, okT)
    PROVE  MeterType' /\ CounterInv'
<1>1. zone' \in Zones /\ CounterInv'
  <2>1. r \in Readings /\ dt \in Nat /\ ZoneStep(r.draw, r.readable, dt) /\ zone \in Zones
    BY DEF Tick, MeterType
  <2>2. r.draw \in Nat /\ r.readable \in BOOLEAN
    BY <2>1, ReadingType
  <2>3. QED BY <2>1, <2>2, ZoneStepKeeps
<1>2. meter' \in Meters /\ n \in Meters
  BY TickMeters
<1>3. file' \in Files
  <2>1. Persisted(meter') \in Files /\ Persisted(n) \in Files /\ file \in Files
    BY <1>2, PersistedType DEF MeterType
  <2>2. QED BY <2>1, TickFile
<1>4. truth' \in Truths
  BY DEF Tick, Truer
<1>5. up' \in BOOLEAN /\ starts' \in Nat /\ clock' \in Nat
  BY DEF Tick, MeterType
<1>6. QED BY <1>1, <1>2, <1>3, <1>4, <1>5 DEF MeterType

(* The points are at most the bucket's age old, and the last one exactly.  *)
Aged(s, age, since, now) ==
    /\ age \in Nat
    /\ \A i \in 1 .. Len(s) : s[i].at + age <= now
    /\ since > 0 => s # <<>> /\ s[Len(s)].at + age = now

LEMMA PointParts ==
    ASSUME NEW s \in Seq(Points)
    PROVE  /\ Len(s) \in Nat
           /\ \A i \in 1 .. Len(s) : s[i].at \in Nat /\ s[i].j \in Nat /\ s[i].dt \in Nat
<1>1. Len(s) \in Nat /\ \A i \in 1 .. Len(s) : s[i] \in Points
  OBVIOUS
<1>2. \A p \in Points : p.at \in Nat /\ p.j \in Nat /\ p.dt \in Nat
  BY DEF Points
<1>3. QED BY <1>1, <1>2

LEMMA AddedAges ==
    ASSUME MeterType, TimelineInv,
           NEW r, NEW dt, NEW m, NEW n, NEW okP, NEW okT, Tick(r, dt, m, n, okP, okT)
    PROVE  /\ Aged(m.samples, m.bucket.age, m.sinceSave, clock')
           /\ Ordered(m.samples, clock') /\ Len(m.samples) <= MaxSamples
<1> DEFINE s == meter.samples
           b == meter.bucket
<1>1. /\ dt \in Nat /\ (meter.prevOnAc = "unknown" => dt = 0)
      /\ clock \in Nat /\ clock' = clock + dt /\ up
      /\ m.samples = s /\ m.sinceSave = meter.sinceSave
      /\ m.bucket.age = IF b.age = NoReading THEN 0 ELSE b.age + dt
  BY DEF Tick, Added, MeterType
<1>2. s \in Seq(Points) /\ b.age \in Nat \cup {NoReading} /\ meter.sinceSave \in Nat
  BY BucketParts DEF MeterType, Meters
<1>3. Ordered(s, clock) /\ BucketInv /\ Len(s) <= MaxSamples
  BY <1>1 DEF TimelineInv
<1>4. Len(s) \in Nat /\ \A i \in 1 .. Len(s) : s[i].at \in Nat
  BY <1>2, PointParts
<1>5. Ordered(s, clock')
  BY <1>1, <1>3, <1>4 DEF Ordered
<1>6. s # <<>> => Len(s) \in 1 .. Len(s)
  BY <1>2
<1>7. CASE b.age = NoReading
  <2>1. dt = 0 /\ meter.sinceSave = 0 /\ m.bucket.age = 0
    BY <1>1, <1>3, <1>7 DEF BucketInv
  <2>2. Aged(s, m.bucket.age, meter.sinceSave, clock')
    BY <1>1, <1>4, <1>5, <2>1 DEF Aged, Ordered
  <2>3. QED BY <1>1, <1>3, <1>5, <2>2
<1>8. CASE b.age # NoReading
  <2>1. b.age \in Nat /\ m.bucket.age = b.age + dt
    BY <1>1, <1>2, <1>8
  <2>2. \A i \in 1 .. Len(s) : s[i].at + b.age <= clock
    BY <1>3, <1>8 DEF BucketInv
  <2>3. meter.sinceSave > 0 => s # <<>> /\ s[Len(s)].at + b.age = clock
    BY <1>3 DEF BucketInv
  <2>4. \A i \in 1 .. Len(s) : s[i].at + (b.age + dt) <= clock + dt
    BY <1>1, <1>4, <2>1, <2>2
  <2>5. meter.sinceSave > 0 => s # <<>> /\ s[Len(s)].at + (b.age + dt) = clock + dt
    <3> SUFFICES ASSUME meter.sinceSave > 0
                 PROVE  s # <<>> /\ s[Len(s)].at + (b.age + dt) = clock + dt
      OBVIOUS
    <3> DEFINE x == s[Len(s)].at
    <3>1. s # <<>> /\ x + b.age = clock
      BY <2>3
    <3>2. x \in Nat
      BY <1>4, <1>6, <3>1
    <3> HIDE DEF x
    <3>3. x + (b.age + dt) = clock + dt
      BY <1>1, <2>1, <3>1, <3>2
    <3>4. QED BY <3>1, <3>3 DEF x
  <2>6. Aged(s, m.bucket.age, meter.sinceSave, clock')
    BY <1>1, <2>1, <2>4, <2>5 DEF Aged
  <2>7. QED BY <1>1, <1>3, <1>5, <2>6
<1>9. QED BY <1>7, <1>8

LEMMA ExtendedInOrder ==
    ASSUME NEW s \in Seq(Points), NEW p \in Points, NEW c, NEW d, NEW t \in Nat,
           Extended(s, p, c, d), Ordered(s, t), p.at = t,
           \A i \in 1 .. Len(s) : s[i].at < t
    PROVE  Ordered(c, t)
<1>1. /\ d \in Nat /\ c \in Seq(Points) /\ Len(c) \in Nat /\ Len(c) = Len(s) + 1 - d
      /\ c[Len(c)] = p /\ \A i \in 1 .. Len(c) - 1 : i + d \in 1 .. Len(s) /\ c[i] = s[i + d]
      /\ Len(s) \in Nat /\ \A i \in 1 .. Len(s) : s[i].at \in Nat
  BY PointParts DEF Extended
<1>2. \A i \in 1 .. Len(c) : c[i].at <= t
  <2> TAKE i \in 1 .. Len(c)
  <2>1. CASE i = Len(c)
    BY <1>1, <2>1
  <2>2. CASE i # Len(c)
    <3>1. i \in 1 .. Len(c) - 1
      BY <1>1, <2>2
    <3>2. i + d \in 1 .. Len(s) /\ c[i] = s[i + d]
      BY <1>1, <3>1
    <3>3. QED BY <1>1, <3>2
  <2>3. QED BY <2>1, <2>2
<1>3. \A i \in 1 .. Len(c) - 1 : c[i].at < c[i + 1].at
  <2> TAKE i \in 1 .. Len(c) - 1
  <2>1. i + d \in 1 .. Len(s) /\ c[i] = s[i + d]
    BY <1>1
  <2>2. CASE i + 1 = Len(c)
    BY <1>1, <2>1, <2>2
  <2>3. CASE i + 1 # Len(c)
    <3>1. i + 1 \in 1 .. Len(c) - 1
      <4>1. Len(c) \in Nat
        BY <1>1
      <4>2. QED BY <2>3, <4>1
    <3>2. i + 1 + d \in 1 .. Len(s) /\ c[i + 1] = s[i + 1 + d]
      BY <1>1, <3>1
    <3>3. i + 1 + d = i + d + 1 /\ i + d \in 1 .. Len(s) - 1
      BY <1>1, <2>1, <3>2
    <3>4. s[i + d].at < s[i + d + 1].at
      BY <3>3 DEF Ordered
    <3>5. QED BY <2>1, <3>2, <3>3, <3>4
  <2>4. QED BY <2>2, <2>3
<1>4. QED BY <1>2, <1>3 DEF Ordered

(* What closing does, in the tick's own terms.                             *)
LEMMA FullParts ==
    ASSUME MeterType, TimelineInv,
           NEW r, NEW dt, NEW m, NEW n, NEW okP, NEW okT, Tick(r, dt, m, n, okP, okT),
           BucketFull(m)
    PROVE  /\ NewPoint(m.bucket, clock') \in Points
           /\ NewPoint(m.bucket, clock').at = clock'
           /\ NewPoint(m.bucket, clock').j = m.bucket.j
           /\ NewPoint(m.bucket, clock').dt = m.bucket.dt
           /\ \E d : Extended(m.samples, NewPoint(m.bucket, clock'), n.samples, d)
           /\ n.bucket.age = 0 /\ n.bucket.j = 0 /\ n.bucket.dt = 0
           /\ n.sinceSave = m.sinceSave + 1
           /\ \A i \in 1 .. Len(m.samples) : m.samples[i].at < clock'
<1>1. clock' \in Nat /\ m \in Meters
  BY TickMeters DEF Tick, MeterType
<1>2. m.bucket \in Buckets /\ m.samples \in Seq(Points)
  BY <1>1 DEF Meters
<1>3. Closed(m, n, clock')
  BY DEF Tick, ClosedIfFull
<1>4. \A i \in 1 .. Len(m.samples) : m.samples[i].at < clock'
  <2> TAKE i \in 1 .. Len(m.samples)
  <2>1. m.samples[i].at + m.bucket.age <= clock' /\ m.bucket.age \in Nat
    BY AddedAges DEF Aged
  <2>2. m.bucket.age >= BucketS /\ BucketS \in Nat \ {0}
    BY MeterAssumption DEF MeterAssumption, BucketFull
  <2>3. m.samples[i].at \in Nat
    BY <1>2, PointParts
  <2>4. QED BY <1>1, <2>1, <2>2, <2>3
<1>5. /\ NewPoint(m.bucket, clock') \in Points /\ NewPoint(m.bucket, clock').at = clock'
      /\ NewPoint(m.bucket, clock').j = m.bucket.j
      /\ NewPoint(m.bucket, clock').dt = m.bucket.dt
  BY <1>1, <1>2, PointType
<1>6. QED BY <1>3, <1>4, <1>5 DEF Closed

LEMMA NotFullParts ==
    ASSUME NEW r, NEW dt, NEW m, NEW n, NEW okP, NEW okT, Tick(r, dt, m, n, okP, okT),
           ~BucketFull(m)
    PROVE  n = m
BY DEF Tick, ClosedIfFull

LEMMA ClosedAges ==
    ASSUME MeterType, TimelineInv,
           NEW r, NEW dt, NEW m, NEW n, NEW okP, NEW okT, Tick(r, dt, m, n, okP, okT)
    PROVE  /\ Aged(n.samples, n.bucket.age, n.sinceSave, clock')
           /\ Ordered(n.samples, clock') /\ Len(n.samples) <= MaxSamples
<1>1. /\ Aged(m.samples, m.bucket.age, m.sinceSave, clock')
      /\ Ordered(m.samples, clock') /\ Len(m.samples) <= MaxSamples
  BY AddedAges
<1>2. CASE ~BucketFull(m)
  BY <1>1, <1>2, NotFullParts
<1>3. CASE BucketFull(m)
  <2> DEFINE p == NewPoint(m.bucket, clock')
  <2>1. /\ p \in Points /\ p.at = clock' /\ n.bucket.age = 0
        /\ \A i \in 1 .. Len(m.samples) : m.samples[i].at < clock'
    BY <1>3, FullParts
  <2>2. PICK d : Extended(m.samples, p, n.samples, d)
    BY <1>3, FullParts
  <2> HIDE DEF p
  <2>3. m.samples \in Seq(Points) /\ n.samples \in Seq(Points) /\ clock' \in Nat
    <3>1. m \in Meters /\ n \in Meters
      BY TickMeters
    <3>2. m.samples \in Seq(Points) /\ n.samples \in Seq(Points)
      BY <3>1 DEF Meters
    <3>3. clock' \in Nat
      BY DEF MeterType, Tick
    <3>4. QED BY <3>2, <3>3
  <2>4. Ordered(n.samples, clock')
    BY <1>1, <2>1, <2>2, <2>3, ExtendedInOrder
  <2>5. n.samples # <<>> /\ n.samples[Len(n.samples)] = p /\ Len(n.samples) <= MaxSamples
    BY <2>2 DEF Extended
  <2>6. \A i \in 1 .. Len(n.samples) : n.samples[i].at + 0 <= clock'
    BY <2>3, <2>4, PointParts DEF Ordered
  <2>7. n.samples[Len(n.samples)].at + 0 = clock'
    BY <2>1, <2>3, <2>5
  <2>8. Aged(n.samples, n.bucket.age, n.sinceSave, clock')
    BY <2>1, <2>5, <2>6, <2>7 DEF Aged
  <2>9. QED BY <2>4, <2>5, <2>8
<1>4. QED BY <1>2, <1>3

LEMMA OrderedLater ==
    ASSUME NEW s \in Seq(Points), NEW t \in Nat, NEW u \in Nat, t <= u, Ordered(s, t)
    PROVE  Ordered(s, u)
BY PointParts DEF Ordered

LEMMA TickTimeline ==
    ASSUME MeterType, TimelineInv,
           NEW r, NEW dt, NEW m, NEW n, NEW okP, NEW okT, Tick(r, dt, m, n, okP, okT)
    PROVE  TimelineInv'
<1>1. /\ Aged(n.samples, n.bucket.age, n.sinceSave, clock')
      /\ Ordered(n.samples, clock') /\ Len(n.samples) <= MaxSamples
  BY ClosedAges
<1>2. /\ n \in Meters /\ meter' \in Meters /\ meter'.samples = n.samples
      /\ meter'.bucket = n.bucket /\ meter'.sinceSave = n.sinceSave
  BY TickMeters
<1>3. Ordered(file'.samples, clock')
  <2>1. /\ Persisted(meter').samples = n.samples /\ Persisted(n).samples = n.samples
    BY <1>2, PersistedType
  <2>2. Ordered(file.samples, clock')
    <3>1. file.samples \in Seq(Points) /\ clock \in Nat /\ clock' \in Nat /\ clock <= clock'
      BY DEF MeterType, Files, Tick
    <3>2. Ordered(file.samples, clock)
      BY DEF TimelineInv
    <3>3. QED BY <3>1, <3>2, OrderedLater
  <2>3. QED BY <1>1, <2>1, <2>2, TickFile
<1>4. BucketInv'
  <2>1. meter'.prevOnAc # "unknown"
    BY DEF Tick, Crossing
  <2>2. meter'.bucket.age \in Nat /\ meter'.bucket.age # NoReading
    BY <1>1, <1>2, MeterAssumption DEF Aged, MeterAssumption
  <2>3. \A i \in 1 .. Len(meter'.samples) :
           meter'.samples[i].at + meter'.bucket.age <= clock'
    BY <1>1, <1>2 DEF Aged
  <2>4. meter'.sinceSave > 0 =>
           /\ meter'.samples # <<>>
           /\ meter'.samples[Len(meter'.samples)].at + meter'.bucket.age = clock'
    BY <1>1, <1>2 DEF Aged
  <2>5. QED BY <2>1, <2>2, <2>3, <2>4 DEF BucketInv
<1>5. QED BY <1>1, <1>2, <1>3, <1>4 DEF TimelineInv

(* Points that may be unsaved: the k newest ones at most.                  *)
Behind(s, k, t) == \A i \in 1 .. Len(s) : i + k <= Len(s) => s[i].at <= t

LEMMA NextRemainder ==
    ASSUME NEW x \in Nat, NEW M \in Nat \ {0}
    PROVE  (x + 1) % M = 0 \/ (x + 1) % M = (x % M) + 1
<1> DEFINE q == x \div M
           y == x % M
           e == (x + 1) \div M
           z == (x + 1) % M
<1>1. y \in 0 .. M - 1 /\ q \in Nat /\ x = q * M + y
  BY Division, Zenon
<1>2. x + 1 \in Nat
  OBVIOUS
<1>3. z \in 0 .. M - 1 /\ e \in Nat /\ x + 1 = e * M + z
  BY <1>2, Division, Zenon
<1> HIDE DEF q, y, e, z
<1>4. q * M \in Nat /\ e * M \in Nat
  BY <1>1, <1>3
<1>5. e = q \/ e >= q + 1 \/ q >= e + 1
  BY <1>1, <1>3
<1>6. CASE e = q
  BY <1>1, <1>3, <1>4, <1>6 DEF y, z
<1>7. CASE e >= q + 1
  <2>1. e * M >= (q + 1) * M
    BY <1>1, <1>3, <1>7
  <2>2. (q + 1) * M = q * M + M
    BY <1>1
  <2>3. z = 0
    BY <1>1, <1>3, <1>4, <2>1, <2>2
  <2>4. QED BY <2>3 DEF z
<1>8. CASE q >= e + 1
  <2>1. q * M >= (e + 1) * M
    BY <1>1, <1>3, <1>8
  <2>2. (e + 1) * M = e * M + M
    BY <1>3
  <2>3. QED BY <1>1, <1>3, <1>4, <2>1, <2>2
<1>9. QED BY <1>5, <1>6, <1>7, <1>8

LEMMA TickUnsaved ==
    ASSUME MeterType, TimelineInv, UnsavedInv,
           NEW r, NEW dt, NEW m, NEW n, NEW okP, NEW okT, Tick(r, dt, m, n, okP, okT)
    PROVE  UnsavedInv'
<1> DEFINE k == meter.sinceSave % SaveEvery
           l == n.sinceSave % SaveEvery
<1>1. /\ n \in Meters /\ meter' \in Meters /\ meter'.samples = n.samples
      /\ meter'.sinceSave = n.sinceSave
  BY TickMeters
<1>2. m.samples = meter.samples /\ m.sinceSave = meter.sinceSave
  BY DEF Tick, Added
<1>3. truth'.triedAt = IF Periodic(m, n) \/ StartedSides(n, r) # {} THEN clock'
                       ELSE truth.triedAt
  BY DEF Tick, Truer
<1>4. Behind(meter.samples, k, truth.triedAt)
  BY DEF UnsavedInv, Behind, Tick
<1>5. SaveEvery \in Nat \ {0} /\ meter.sinceSave \in Nat /\ n.samples \in Seq(Points)
      /\ meter.samples \in Seq(Points)
  BY <1>1, MeterAssumption DEF MeterAssumption, MeterType, Meters
<1>6. k \in Nat
  BY <1>5, Division
<1>7. Behind(n.samples, l, truth'.triedAt)
  <2>1. CASE Periodic(m, n) \/ StartedSides(n, r) # {}
    <3>1. \A i \in 1 .. Len(n.samples) : n.samples[i].at <= clock'
      BY ClosedAges DEF Ordered
    <3>2. QED BY <2>1, <1>3, <3>1 DEF Behind
  <2>2. CASE ~(Periodic(m, n) \/ StartedSides(n, r) # {}) /\ ~BucketFull(m)
    <3>1. n = m /\ truth'.triedAt = truth.triedAt
      BY <2>2, <1>3, NotFullParts
    <3>2. QED BY <1>2, <1>4, <3>1
  <2>3. CASE ~(Periodic(m, n) \/ StartedSides(n, r) # {}) /\ BucketFull(m)
    <3> DEFINE s == meter.samples
               c == n.samples
    <3>1. PICK d : Extended(s, NewPoint(m.bucket, clock'), c, d)
      BY <2>3, <1>2, FullParts
    <3>2. n.sinceSave = meter.sinceSave + 1
      BY <2>3, <1>2, FullParts
    <3>3. l # 0
      BY <2>3 DEF Periodic, PeriodicSave
    <3>4. l = k + 1
      BY <1>5, <3>2, <3>3, NextRemainder
    <3>5. truth'.triedAt = truth.triedAt
      BY <2>3, <1>3
    <3>6. /\ d \in Nat /\ Len(c) \in Nat /\ Len(c) = Len(s) + 1 - d /\ Len(s) \in Nat
          /\ \A i \in 1 .. Len(c) - 1 : i + d \in 1 .. Len(s) /\ c[i] = s[i + d]
      BY <1>5, <3>1 DEF Extended
    <3> HIDE DEF s, c, k, l
    <3>7. ASSUME NEW i \in 1 .. Len(c), i + l <= Len(c)
          PROVE  c[i].at <= truth.triedAt
      <4>1. i \in 1 .. Len(c) - 1
        BY <1>6, <3>4, <3>6, <3>7
      <4>2. i + d \in 1 .. Len(s) /\ c[i] = s[i + d]
        BY <3>6, <4>1
      <4>3. i + d + k <= Len(s)
        BY <1>6, <3>4, <3>6, <3>7
      <4>4. s[i + d].at <= truth.triedAt
        BY <1>4, <4>2, <4>3 DEF Behind, s
      <4>5. QED BY <4>2, <4>4
    <3>8. Behind(c, l, truth.triedAt)
      BY <3>7 DEF Behind
    <3>9. QED BY <3>5, <3>8 DEF c
  <2>4. QED BY <2>1, <2>2, <2>3
<1>8. QED BY <1>1, <1>7 DEF UnsavedInv, Behind

-----------------------------------------------------------------------------
(* A reading's energy keeps the average between the bounds.                *)
LEMMA PowersType == Powers \subseteq Nat
BY ReadingType DEF Powers

LEMMA PlausibleSum ==
    ASSUME NEW j \in Nat, NEW t \in Nat, NEW r \in Readings, NEW dt \in Nat, Plausible(j, t)
    PROVE  Plausible(j + Joules(r, dt), t + Measured(r, dt))
<1>1. CASE r.w = NoReading
  BY <1>1 DEF Joules, Measured
<1>2. CASE r.w # NoReading
  <2> DEFINE w == r.w
  <2>1. w \in Powers /\ w \in Nat
    BY <1>2, ReadingType DEF Powers
  <2>2. Joules(r, dt) = w * dt /\ Measured(r, dt) = dt
    BY <1>2 DEF Joules, Measured
  <2> HIDE DEF w
  <2>3. ASSUME NEW lo \in Powers, \A v \in Powers : lo <= v
        PROVE  lo * (t + dt) <= j + w * dt
    <3>1. lo \in Nat /\ lo <= w
      BY <2>1, <2>3, PowersType
    <3>2. lo * t <= j
      BY <2>3 DEF Plausible
    <3>3. lo * dt <= w * dt
      BY <2>1, <3>1
    <3>4. lo * (t + dt) = lo * t + lo * dt
      BY <3>1
    <3>5. lo * t \in Nat /\ lo * dt \in Nat /\ w * dt \in Nat
      BY <2>1, <3>1
    <3>6. QED BY <3>2, <3>3, <3>4, <3>5
  <2>4. ASSUME NEW hi \in Powers, \A v \in Powers : v <= hi
        PROVE  j + w * dt <= hi * (t + dt)
    <3>1. hi \in Nat /\ w <= hi
      BY <2>1, <2>4, PowersType
    <3>2. j <= hi * t
      BY <2>4 DEF Plausible
    <3>3. w * dt <= hi * dt
      BY <2>1, <3>1
    <3>4. hi * (t + dt) = hi * t + hi * dt
      BY <3>1
    <3>5. hi * t \in Nat /\ hi * dt \in Nat /\ w * dt \in Nat
      BY <2>1, <3>1
    <3>6. QED BY <3>2, <3>3, <3>4, <3>5
  <2>5. QED BY <2>2, <2>3, <2>4 DEF Plausible
<1>3. QED BY <1>1, <1>2

LEMMA PlausibleZero == Plausible(0, 0)
BY PowersType DEF Plausible

AllPlausible(s) == \A i \in 1 .. Len(s) : Plausible(s[i].j, s[i].dt)

LEMMA TickAverages ==
    ASSUME MeterType, TimelineInv, AveragesInv,
           NEW r, NEW dt, NEW m, NEW n, NEW okP, NEW okT, Tick(r, dt, m, n, okP, okT)
    PROVE  AveragesInv'
<1>1. /\ n \in Meters /\ meter' \in Meters /\ meter'.samples = n.samples
      /\ meter'.bucket = n.bucket
  BY TickMeters
<1>2. Plausible(m.bucket.j, m.bucket.dt)
  <2>1. /\ m.bucket.j = meter.bucket.j + Joules(r, dt)
        /\ m.bucket.dt = meter.bucket.dt + Measured(r, dt)
        /\ r \in Readings /\ dt \in Nat
    BY DEF Tick, Added
  <2>2. /\ meter.bucket.j \in Nat /\ meter.bucket.dt \in Nat
        /\ Plausible(meter.bucket.j, meter.bucket.dt)
    BY BucketParts DEF MeterType, AveragesInv
  <2>3. QED BY <2>1, <2>2, PlausibleSum
<1>3. AllPlausible(m.samples)
  BY DEF Tick, Added, AveragesInv, AllPlausible
<1>4. AllPlausible(n.samples) /\ Plausible(n.bucket.j, n.bucket.dt)
  <2>1. CASE ~BucketFull(m)
    BY <1>2, <1>3, <2>1, NotFullParts
  <2>2. CASE BucketFull(m)
    <3> DEFINE p == NewPoint(m.bucket, clock')
    <3>1. /\ p.j = m.bucket.j /\ p.dt = m.bucket.dt /\ n.bucket.j = 0 /\ n.bucket.dt = 0
      BY <2>2, FullParts
    <3>2. PICK d : Extended(m.samples, p, n.samples, d)
      BY <2>2, FullParts
    <3> HIDE DEF p
    <3>3. Plausible(p.j, p.dt)
      BY <1>2, <3>1
    <3>4. AllPlausible(n.samples)
      <4>1. SUFFICES ASSUME NEW i \in 1 .. Len(n.samples)
                     PROVE  Plausible(n.samples[i].j, n.samples[i].dt)
        BY DEF AllPlausible
      <4>2. CASE i = Len(n.samples)
        BY <3>2, <3>3, <4>2 DEF Extended
      <4>3. CASE i # Len(n.samples)
        <5>1. i \in 1 .. Len(n.samples) - 1
          <6>1. Len(n.samples) \in Nat
            BY <3>2 DEF Extended
          <6>2. QED BY <4>3, <6>1
        <5>2. i + d \in 1 .. Len(m.samples) /\ n.samples[i] = m.samples[i + d]
          BY <3>2, <5>1 DEF Extended
        <5>3. QED BY <1>3, <5>2 DEF AllPlausible
      <4>4. QED BY <4>2, <4>3
    <3>5. QED BY <3>1, <3>4, PlausibleZero
  <2>3. QED BY <2>1, <2>2
<1>5. AllPlausible(file'.samples)
  <2>1. Persisted(meter').samples = n.samples /\ Persisted(n).samples = n.samples
    BY <1>1, PersistedType
  <2>2. AllPlausible(file.samples)
    BY DEF AveragesInv, AllPlausible
  <2>3. QED BY <1>4, <2>1, <2>2, TickFile
<1>6. QED BY <1>1, <1>4, <1>5 DEF AveragesInv, AllPlausible

-----------------------------------------------------------------------------
(* One side's counter and what really flowed, over one tick: both start    *)
(* again or both grow, and only a crossing makes a side sure again.        *)
LEMMA CountedOn ==
    ASSUME NEW side, NEW d, NEW l, NEW st, NEW crossed \in BOOLEAN, NEW again \in BOOLEAN,
           NEW shown \in Nat, NEW real \in Nat, NEW more \in Nat, NEW add \in Nat,
           side \notin d => shown <= real, side \notin l => shown = real,
           crossed /\ side \in st => again, ~again => more = add
    PROVE  /\ side \notin (IF crossed THEN d \ st ELSE d) =>
                 (IF again THEN 0 ELSE shown + more) <= (IF again THEN 0 ELSE real + add)
           /\ side \notin (IF crossed THEN l \ st ELSE l) =>
                 (IF again THEN 0 ELSE shown + more) = (IF again THEN 0 ELSE real + add)
<1>1. CASE again
  BY <1>1
<1>2. CASE ~again
  <2>1. /\ side \notin (IF crossed THEN d \ st ELSE d) => side \notin d
        /\ side \notin (IF crossed THEN l \ st ELSE l) => side \notin l
    BY <1>2
  <2>2. QED BY <1>2, <2>1
<1>3. QED BY <1>1, <1>2

(* The counters before the transition.                                     *)
LEMMA TickCounters ==
    ASSUME NEW r, NEW dt, NEW m, NEW n, NEW okP, NEW okT, Tick(r, dt, m, n, okP, okT)
    PROVE  /\ n.discharge = meter.discharge + Out(r, dt)
           /\ n.charge = meter.charge + In(r, dt)
           /\ n.onBattery = meter.onBattery + IF meter.inBattery THEN Away(r, dt) ELSE 0
           /\ n.onAc = meter.onAc + IF meter.inAc THEN Plugged(r, dt) ELSE 0
           /\ n.prevOnAc = meter.prevOnAc
           /\ (n.inBattery <=> meter.inBattery) /\ (n.inAc <=> meter.inAc)
<1>1. /\ n["discharge"] = m["discharge"] /\ n["charge"] = m["charge"]
      /\ n["onBattery"] = m["onBattery"] /\ n["onAc"] = m["onAc"]
      /\ n["prevOnAc"] = m["prevOnAc"]
      /\ n["inBattery"] = m["inBattery"] /\ n["inAc"] = m["inAc"]
  <2>1. CASE BucketFull(m)
    <3>1. SameBut(m, n, {"samples", "bucket", "sinceSave"})
      BY <2>1 DEF Tick, ClosedIfFull, Closed
    <3>2. QED BY <3>1 DEF SameBut, Fields, Counters, Flags, Others
  <2>2. CASE ~BucketFull(m)
    BY <2>2, NotFullParts
  <2>3. QED BY <2>1, <2>2
<1>2. /\ m.discharge = meter.discharge + Out(r, dt)
      /\ m.charge = meter.charge + In(r, dt)
      /\ m.onBattery = meter.onBattery + IF meter.inBattery THEN Away(r, dt) ELSE 0
      /\ m.onAc = meter.onAc + IF meter.inAc THEN Plugged(r, dt) ELSE 0
      /\ m.prevOnAc = meter.prevOnAc
      /\ (m.inBattery <=> meter.inBattery) /\ (m.inAc <=> meter.inAc)
  BY DEF Tick, Added
<1>3. QED BY <1>1, <1>2

LEMMA TickInputs ==
    ASSUME MeterType,
           NEW r, NEW dt, NEW m, NEW n, NEW okP, NEW okT, Tick(r, dt, m, n, okP, okT)
    PROVE  /\ r \in Readings /\ r.ac \in BOOLEAN /\ dt \in Nat
           /\ meter.prevOnAc \in {"unknown", "yes", "no"}
<1>1. r \in Readings /\ dt \in Nat
  BY DEF Tick
<1>2. r.ac \in BOOLEAN
  BY <1>1, ReadingType
<1>3. meter \in Meters
  BY DEF MeterType
<1>4. meter.prevOnAc \in {"unknown", "yes", "no"}
  BY <1>3 DEF Meters
<1>5. QED BY <1>1, <1>2, <1>4

(* Where a session does not run and none starts, no time is to be counted. *)
LEMMA NoTimeMissed ==
    ASSUME SessionInv, MeterType,
           NEW r, NEW dt, NEW m, NEW n, NEW okP, NEW okT, Tick(r, dt, m, n, okP, okT)
    PROVE  /\ ~Starts("battery", n, r) => meter.inBattery \/ Away(r, dt) = 0
           /\ ~Starts("ac", n, r) => meter.inAc \/ Plugged(r, dt) = 0
<1>1. /\ n.prevOnAc = meter.prevOnAc /\ meter.prevOnAc \in {"unknown", "yes", "no"}
      /\ r.ac \in BOOLEAN
  BY TickCounters, TickInputs
<1>2. CASE meter.prevOnAc = "unknown"
  <2>1. dt = 0
    BY <1>2 DEF Tick
  <2>2. Away(r, dt) = 0 /\ Plugged(r, dt) = 0
    BY <2>1 DEF Away, Plugged
  <2>3. QED BY <2>2
<1>3. CASE meter.prevOnAc = "yes"
  <2>1. meter.inAc
    BY <1>3 DEF SessionInv
  <2>2. r.ac => Away(r, dt) = 0
    BY DEF Away
  <2>3. ~r.ac => Starts("battery", n, r)
    BY <1>1, <1>3 DEF Starts, StartedSides
  <2>4. QED BY <2>1, <2>2, <2>3
<1>4. CASE meter.prevOnAc = "no"
  <2>1. meter.inBattery
    BY <1>4 DEF SessionInv
  <2>2. ~r.ac => Plugged(r, dt) = 0
    BY DEF Plugged
  <2>3. r.ac => Starts("ac", n, r)
    BY <1>1, <1>4 DEF Starts, StartedSides
  <2>4. QED BY <2>1, <2>2, <2>3
<1>5. QED BY <1>1, <1>2, <1>3, <1>4

LEMMA TickSession ==
    ASSUME SessionInv, MeterType,
           NEW r, NEW dt, NEW m, NEW n, NEW okP, NEW okT, Tick(r, dt, m, n, okP, okT)
    PROVE  SessionInv'
<1>1. /\ n.prevOnAc = meter.prevOnAc /\ meter.prevOnAc \in {"unknown", "yes", "no"}
      /\ r.ac \in BOOLEAN
      /\ (n.inBattery <=> meter.inBattery) /\ (n.inAc <=> meter.inAc)
  BY TickCounters, TickInputs
<1>2. /\ meter'.prevOnAc = IF r.ac THEN "yes" ELSE "no"
      /\ meter'.inBattery <=> Starts("battery", n, r) \/ (n.inBattery /\ ~Crossed(n, r))
      /\ meter'.inAc <=> Starts("ac", n, r) \/ (n.inAc /\ ~Crossed(n, r))
  BY DEF Tick, Crossing
<1>3. CASE meter.prevOnAc = "unknown"
  <2>1. ~Crossed(n, r)
    BY <1>1, <1>3 DEF Crossed
  <2>2. r.ac => n.inAc \/ Starts("ac", n, r)
    BY <1>1, <1>3 DEF Starts, StartedSides
  <2>3. ~r.ac => n.inBattery \/ Starts("battery", n, r)
    BY <1>1, <1>3 DEF Starts, StartedSides
  <2>4. QED BY <1>2, <2>1, <2>2, <2>3 DEF SessionInv
<1>4. CASE meter.prevOnAc = "yes"
  <2>1. ~r.ac => Starts("battery", n, r)
    BY <1>1, <1>4 DEF Starts, StartedSides
  <2>2. r.ac => ~Crossed(n, r)
    BY <1>1, <1>4 DEF Crossed, StartedSides
  <2>3. n.inAc
    BY <1>1, <1>4 DEF SessionInv
  <2>4. QED BY <1>2, <2>1, <2>2, <2>3 DEF SessionInv
<1>5. CASE meter.prevOnAc = "no"
  <2>1. r.ac => Starts("ac", n, r)
    BY <1>1, <1>5 DEF Starts, StartedSides
  <2>2. ~r.ac => ~Crossed(n, r)
    BY <1>1, <1>5 DEF Crossed, StartedSides
  <2>3. n.inBattery
    BY <1>1, <1>5 DEF SessionInv
  <2>4. QED BY <1>2, <2>1, <2>2, <2>3 DEF SessionInv
<1>6. QED BY <1>1, <1>3, <1>4, <1>5

(* A counter of the meter and the truth about it, before and after a tick. *)
LEMMA TickCounted ==
    ASSUME MeterType, CountInv,
           NEW r, NEW dt, NEW m, NEW n, NEW okP, NEW okT, Tick(r, dt, m, n, okP, okT)
    PROVE  NothingCountedTwice'
<1> DEFINE st == StartedSides(n, r)
           cr == Crossed(n, r)
           d  == truth.doubtful
           l  == truth.lossy
           d2 == IF cr THEN d \ st ELSE d
           l2 == IF cr THEN l \ st ELSE l
<1>1. up /\ SessionInv /\ NothingCountedTwice
  BY DEF Tick, CountInv
<1>2. /\ Counted("battery", meter.discharge, truth.flow.battery)
      /\ Counted("battery", meter.onBattery, truth.time.battery)
      /\ Counted("ac", meter.charge, truth.flow.ac)
      /\ Counted("ac", meter.onAc, truth.time.ac)
  BY <1>1 DEF NothingCountedTwice
<1>3. /\ meter.discharge \in Nat /\ meter.charge \in Nat
      /\ meter.onBattery \in Nat /\ meter.onAc \in Nat
      /\ truth.flow.battery \in Nat /\ truth.flow.ac \in Nat
      /\ truth.time.battery \in Nat /\ truth.time.ac \in Nat
  BY DEF MeterType, Meters, Truths, Pairs
<1>4. /\ Out(r, dt) \in Nat /\ In(r, dt) \in Nat
      /\ Away(r, dt) \in Nat /\ Plugged(r, dt) \in Nat
  BY TickInputs, AddedType
<1>5. /\ ~Starts("battery", n, r) => meter.inBattery \/ Away(r, dt) = 0
      /\ ~Starts("ac", n, r) => meter.inAc \/ Plugged(r, dt) = 0
  BY <1>1, NoTimeMissed
<1>6. cr \in BOOLEAN /\ Starts("battery", n, r) \in BOOLEAN /\ Starts("ac", n, r) \in BOOLEAN
  BY DEF Crossed, Starts
<1>7. truth'.doubtful = d2 /\ truth'.lossy = l2
  BY DEF Tick, Truer
<1>8. /\ meter'.discharge = (IF cr /\ Starts("battery", n, r) THEN 0
                             ELSE meter.discharge + Out(r, dt))
      /\ meter'.charge = (IF cr /\ Starts("ac", n, r) THEN 0 ELSE meter.charge + In(r, dt))
  BY TickCounters DEF Tick, Crossing
<1>9. /\ meter'.onBattery =
            (IF Starts("battery", n, r) THEN 0
             ELSE meter.onBattery + IF meter.inBattery THEN Away(r, dt) ELSE 0)
      /\ meter'.onAc =
            (IF Starts("ac", n, r) THEN 0
             ELSE meter.onAc + IF meter.inAc THEN Plugged(r, dt) ELSE 0)
  BY TickCounters DEF Tick, Crossing
<1>10. /\ truth'.flow.battery = (IF cr /\ Starts("battery", n, r) THEN 0
                                 ELSE truth.flow.battery + Out(r, dt))
       /\ truth'.flow.ac = (IF cr /\ Starts("ac", n, r) THEN 0 ELSE truth.flow.ac + In(r, dt))
       /\ truth'.time.battery = (IF Starts("battery", n, r) THEN 0
                                 ELSE truth.time.battery + Away(r, dt))
       /\ truth'.time.ac = (IF Starts("ac", n, r) THEN 0
                            ELSE truth.time.ac + Plugged(r, dt))
  BY DEF Tick, Truer
<1> HIDE DEF cr
<1>11. Counted("battery", meter.discharge, truth.flow.battery)'
  <2> DEFINE again == cr /\ Starts("battery", n, r)
             sh == IF again THEN 0 ELSE meter.discharge + Out(r, dt)
             re == IF again THEN 0 ELSE truth.flow.battery + Out(r, dt)
  <2>1. cr /\ "battery" \in st => again
    BY DEF Starts
  <2>2. again \in BOOLEAN
    BY <1>6
  <2>3. /\ "battery" \notin d => meter.discharge <= truth.flow.battery
        /\ "battery" \notin l => meter.discharge = truth.flow.battery
    BY <1>2 DEF Counted
  <2> HIDE DEF again
  <2>4. ("battery" \notin d2 => sh <= re) /\ ("battery" \notin l2 => sh = re)
    BY <1>3, <1>4, <1>6, <2>1, <2>2, <2>3, CountedOn
  <2>5. meter'.discharge = sh /\ truth'.flow.battery = re
    BY <1>8, <1>10 DEF again
  <2> HIDE DEF sh, re, d2, l2
  <2>6. QED BY <1>7, <2>4, <2>5 DEF Counted
<1>12. Counted("ac", meter.charge, truth.flow.ac)'
  <2> DEFINE again == cr /\ Starts("ac", n, r)
             sh == IF again THEN 0 ELSE meter.charge + In(r, dt)
             re == IF again THEN 0 ELSE truth.flow.ac + In(r, dt)
  <2>1. cr /\ "ac" \in st => again
    BY DEF Starts
  <2>2. again \in BOOLEAN
    BY <1>6
  <2>3. /\ "ac" \notin d => meter.charge <= truth.flow.ac
        /\ "ac" \notin l => meter.charge = truth.flow.ac
    BY <1>2 DEF Counted
  <2> HIDE DEF again
  <2>4. ("ac" \notin d2 => sh <= re) /\ ("ac" \notin l2 => sh = re)
    BY <1>3, <1>4, <1>6, <2>1, <2>2, <2>3, CountedOn
  <2>5. meter'.charge = sh /\ truth'.flow.ac = re
    BY <1>8, <1>10 DEF again
  <2> HIDE DEF sh, re, d2, l2
  <2>6. QED BY <1>7, <2>4, <2>5 DEF Counted
<1>13. Counted("battery", meter.onBattery, truth.time.battery)'
  <2> DEFINE again == Starts("battery", n, r)
             more == IF meter.inBattery THEN Away(r, dt) ELSE 0
             sh == IF again THEN 0 ELSE meter.onBattery + more
             re == IF again THEN 0 ELSE truth.time.battery + Away(r, dt)
  <2>1. cr /\ "battery" \in st => again
    BY DEF Starts
  <2>2. again \in BOOLEAN /\ more \in Nat /\ (~again => more = Away(r, dt))
    BY <1>4, <1>5, <1>6
  <2>3. /\ "battery" \notin d => meter.onBattery <= truth.time.battery
        /\ "battery" \notin l => meter.onBattery = truth.time.battery
    BY <1>2 DEF Counted
  <2>4. meter'.onBattery = sh /\ truth'.time.battery = re
    BY <1>9, <1>10
  <2> HIDE DEF again, more
  <2>5. ("battery" \notin d2 => sh <= re) /\ ("battery" \notin l2 => sh = re)
    BY <1>3, <1>4, <1>6, <2>1, <2>2, <2>3, CountedOn
  <2> HIDE DEF sh, re, d2, l2
  <2>6. QED BY <1>7, <2>4, <2>5 DEF Counted
<1>14. Counted("ac", meter.onAc, truth.time.ac)'
  <2> DEFINE again == Starts("ac", n, r)
             more == IF meter.inAc THEN Plugged(r, dt) ELSE 0
             sh == IF again THEN 0 ELSE meter.onAc + more
             re == IF again THEN 0 ELSE truth.time.ac + Plugged(r, dt)
  <2>1. cr /\ "ac" \in st => again
    BY DEF Starts
  <2>2. again \in BOOLEAN /\ more \in Nat /\ (~again => more = Plugged(r, dt))
    BY <1>4, <1>5, <1>6
  <2>3. /\ "ac" \notin d => meter.onAc <= truth.time.ac
        /\ "ac" \notin l => meter.onAc = truth.time.ac
    BY <1>2 DEF Counted
  <2>4. meter'.onAc = sh /\ truth'.time.ac = re
    BY <1>9, <1>10
  <2> HIDE DEF again, more
  <2>5. ("ac" \notin d2 => sh <= re) /\ ("ac" \notin l2 => sh = re)
    BY <1>3, <1>4, <1>6, <2>1, <2>2, <2>3, CountedOn
  <2> HIDE DEF sh, re, d2, l2
  <2>6. QED BY <1>7, <2>4, <2>5 DEF Counted
<1>15. QED BY <1>11, <1>12, <1>13, <1>14 DEF NothingCountedTwice

(* A side that this tick does not start: what flowed grows, a crash is as  *)
(* sure of it as before, and the counters before the transition are        *)
(* behind.                                                                 *)
LEMMA GoesOn ==
    ASSUME MeterType, CountInv,
           NEW r, NEW dt, NEW m, NEW n, NEW okP, NEW okT, Tick(r, dt, m, n, okP, okT)
    PROVE  /\ "battery" \notin StartedSides(n, r) =>
                 /\ "battery" \in truth'.doubtful <=> "battery" \in truth.doubtful
                 /\ truth.flow.battery <= truth'.flow.battery
                 /\ truth.time.battery <= truth'.time.battery
                 /\ "battery" \notin truth.doubtful =>
                       n.discharge <= truth'.flow.battery /\ n.onBattery <= truth'.time.battery
           /\ "ac" \notin StartedSides(n, r) =>
                 /\ "ac" \in truth'.doubtful <=> "ac" \in truth.doubtful
                 /\ truth.flow.ac <= truth'.flow.ac
                 /\ truth.time.ac <= truth'.time.ac
                 /\ "ac" \notin truth.doubtful =>
                       n.charge <= truth'.flow.ac /\ n.onAc <= truth'.time.ac
<1>1. NothingCountedTwice /\ up
  BY DEF Tick, CountInv
<1>2. /\ Counted("battery", meter.discharge, truth.flow.battery)
      /\ Counted("battery", meter.onBattery, truth.time.battery)
      /\ Counted("ac", meter.charge, truth.flow.ac)
      /\ Counted("ac", meter.onAc, truth.time.ac)
  BY <1>1 DEF NothingCountedTwice
<1>3. /\ meter.discharge \in Nat /\ meter.charge \in Nat
      /\ meter.onBattery \in Nat /\ meter.onAc \in Nat
      /\ truth.flow.battery \in Nat /\ truth.flow.ac \in Nat
      /\ truth.time.battery \in Nat /\ truth.time.ac \in Nat
  BY DEF MeterType, Meters, Truths, Pairs
<1>4. /\ Out(r, dt) \in Nat /\ In(r, dt) \in Nat
      /\ Away(r, dt) \in Nat /\ Plugged(r, dt) \in Nat
  BY TickInputs, AddedType
<1>5. truth'.doubtful = (IF Crossed(n, r) THEN truth.doubtful \ StartedSides(n, r)
                         ELSE truth.doubtful)
  BY DEF Tick, Truer
<1>6. /\ "battery" \notin StartedSides(n, r) =>
            /\ truth'.flow.battery = truth.flow.battery + Out(r, dt)
            /\ truth'.time.battery = truth.time.battery + Away(r, dt)
      /\ "ac" \notin StartedSides(n, r) =>
            /\ truth'.flow.ac = truth.flow.ac + In(r, dt)
            /\ truth'.time.ac = truth.time.ac + Plugged(r, dt)
  BY DEF Tick, Truer, Starts
<1>7. /\ n.discharge = meter.discharge + Out(r, dt)
      /\ n.charge = meter.charge + In(r, dt)
      /\ n.onBattery = meter.onBattery + IF meter.inBattery THEN Away(r, dt) ELSE 0
      /\ n.onAc = meter.onAc + IF meter.inAc THEN Plugged(r, dt) ELSE 0
  BY TickCounters
<1>8. ASSUME "battery" \notin StartedSides(n, r)
      PROVE  /\ "battery" \in truth'.doubtful <=> "battery" \in truth.doubtful
             /\ truth.flow.battery <= truth'.flow.battery
             /\ truth.time.battery <= truth'.time.battery
             /\ "battery" \notin truth.doubtful =>
                   n.discharge <= truth'.flow.battery /\ n.onBattery <= truth'.time.battery
  <2>1. "battery" \in truth'.doubtful <=> "battery" \in truth.doubtful
    BY <1>5, <1>8
  <2>2. "battery" \notin truth.doubtful =>
           meter.discharge <= truth.flow.battery /\ meter.onBattery <= truth.time.battery
    BY <1>2 DEF Counted
  <2>3. QED BY <1>3, <1>4, <1>6, <1>7, <1>8, <2>1, <2>2
<1>9. ASSUME "ac" \notin StartedSides(n, r)
      PROVE  /\ "ac" \in truth'.doubtful <=> "ac" \in truth.doubtful
             /\ truth.flow.ac <= truth'.flow.ac
             /\ truth.time.ac <= truth'.time.ac
             /\ "ac" \notin truth.doubtful =>
                   n.charge <= truth'.flow.ac /\ n.onAc <= truth'.time.ac
  <2>1. "ac" \in truth'.doubtful <=> "ac" \in truth.doubtful
    BY <1>5, <1>9
  <2>2. "ac" \notin truth.doubtful =>
           meter.charge <= truth.flow.ac /\ meter.onAc <= truth.time.ac
    BY <1>2 DEF Counted
  <2>3. QED BY <1>3, <1>4, <1>6, <1>7, <1>9, <2>1, <2>2
<1>10. QED BY <1>8, <1>9

(* Whichever save of a tick succeeds, the file stays behind.               *)
LEMMA TickFileCounted ==
    ASSUME MeterType, CounterInv, CountInv,
           NEW r, NEW dt, NEW m, NEW n, NEW okP, NEW okT, Tick(r, dt, m, n, okP, okT)
    PROVE  FileCounted'
<1>1. NothingCountedTwice' /\ up'
  BY TickCounted DEF Tick
<1>2. /\ meter' \in Meters /\ n \in Meters
  BY TickMeters
<1>3. truth'.unsafe =
         (IF StartedSides(n, r) # {} /\ okT THEN {}
          ELSE (IF Periodic(m, n) /\ okP THEN {} ELSE truth.unsafe) \cup StartedSides(n, r))
  BY DEF Tick, Truer
<1>4. CASE file' = Persisted(meter')
  <2>1. /\ file'.discharge = meter'.discharge /\ file'.onBattery = meter'.onBattery
        /\ file'.charge = meter'.charge /\ file'.onAc = meter'.onAc
    BY <1>2, <1>4, PersistedType
  <2>2. QED BY <1>1, <2>1 DEF NothingCountedTwice, Counted, FileCounted, Sure
<1>5. CASE /\ ~(StartedSides(n, r) # {} /\ okT)
           /\ file' = Persisted(n) /\ Periodic(m, n) /\ okP
  <2>1. /\ file'.discharge = n.discharge /\ file'.onBattery = n.onBattery
        /\ file'.charge = n.charge /\ file'.onAc = n.onAc
    BY <1>2, <1>5, PersistedType
  <2>2. truth'.unsafe = StartedSides(n, r)
    BY <1>3, <1>5
  <2>3. Sure("battery")' => "battery" \notin StartedSides(n, r) /\ "battery" \notin truth'.doubtful
    BY <2>2 DEF Sure
  <2>4. Sure("ac")' => "ac" \notin StartedSides(n, r) /\ "ac" \notin truth'.doubtful
    BY <2>2 DEF Sure
  <2>5. Sure("battery")' => n.discharge <= truth'.flow.battery /\ n.onBattery <= truth'.time.battery
    BY <2>3, GoesOn
  <2>6. Sure("ac")' => n.charge <= truth'.flow.ac /\ n.onAc <= truth'.time.ac
    BY <2>4, GoesOn
  <2>7. QED BY <2>1, <2>5, <2>6 DEF FileCounted
<1>6. CASE /\ ~(StartedSides(n, r) # {} /\ okT) /\ ~(Periodic(m, n) /\ okP)
           /\ file' = file
  <2>1. truth'.unsafe = truth.unsafe \cup StartedSides(n, r)
    BY <1>3, <1>6
  <2>2. FileCounted
    BY DEF CountInv
  <2>3. /\ file.discharge \in Nat /\ file.onBattery \in Nat
        /\ file.charge \in Nat /\ file.onAc \in Nat
        /\ truth.flow.battery \in Nat /\ truth.flow.ac \in Nat
        /\ truth.time.battery \in Nat /\ truth.time.ac \in Nat
    BY DEF MeterType, Files, Truths, Pairs
  <2>4. truth' \in Truths
    BY DEF Tick, Truer
  <2>5. /\ truth'.flow.battery \in Nat /\ truth'.flow.ac \in Nat
        /\ truth'.time.battery \in Nat /\ truth'.time.ac \in Nat
    BY <2>4 DEF Truths, Pairs
  <2>6. ASSUME Sure("battery")'
        PROVE  file.discharge <= truth'.flow.battery /\ file.onBattery <= truth'.time.battery
    <3>1. /\ "battery" \notin StartedSides(n, r) /\ "battery" \notin truth'.doubtful
          /\ "battery" \notin truth.unsafe
      BY <2>1, <2>6 DEF Sure
    <3>2. /\ "battery" \notin truth.doubtful /\ truth.flow.battery <= truth'.flow.battery
          /\ truth.time.battery <= truth'.time.battery
      BY <3>1, GoesOn
    <3>3. file.discharge <= truth.flow.battery /\ file.onBattery <= truth.time.battery
      BY <2>2, <3>1, <3>2 DEF FileCounted, Sure
    <3>4. QED BY <2>3, <2>5, <3>2, <3>3
  <2>7. ASSUME Sure("ac")'
        PROVE  file.charge <= truth'.flow.ac /\ file.onAc <= truth'.time.ac
    <3>1. /\ "ac" \notin StartedSides(n, r) /\ "ac" \notin truth'.doubtful
          /\ "ac" \notin truth.unsafe
      BY <2>1, <2>7 DEF Sure
    <3>2. /\ "ac" \notin truth.doubtful /\ truth.flow.ac <= truth'.flow.ac
          /\ truth.time.ac <= truth'.time.ac
      BY <3>1, GoesOn
    <3>3. file.charge <= truth.flow.ac /\ file.onAc <= truth.time.ac
      BY <2>2, <3>1, <3>2 DEF FileCounted, Sure
    <3>4. QED BY <2>3, <2>5, <3>2, <3>3
  <2>8. QED BY <1>6, <2>6, <2>7 DEF FileCounted
<1>7. QED BY <1>4, <1>5, <1>6, TickFile

LEMMA TickCount ==
    ASSUME MeterType, CounterInv, CountInv,
           NEW r, NEW dt, NEW m, NEW n, NEW okP, NEW okT, Tick(r, dt, m, n, okP, okT)
    PROVE  CountInv'
<1>1. NothingCountedTwice' /\ FileCounted'
  BY TickCounted, TickFileCounted
<1>2. SessionInv' /\ up'
  <2>1. SessionInv /\ up /\ up' = up
    BY DEF Tick, CountInv
  <2>2. QED BY <2>1, TickSession
<1>3. QED BY <1>1, <1>2 DEF CountInv

-----------------------------------------------------------------------------
(* The daemon ends.                                                        *)
LEMMA StopKeeps == ASSUME MeterInv, Stop PROVE MeterInv'
<1>1. /\ up /\ up' = FALSE /\ meter' = meter /\ file' = file /\ zone' = zone
      /\ clock' = clock /\ starts' = starts
      /\ truth' = [truth EXCEPT !.doubtful = @ \cup truth.unsafe, !.lossy = Sides]
  BY DEF Stop
<1>2. truth \in Truths
  BY DEF MeterInv, MeterType
<1>3. /\ truth'.flow = truth.flow /\ truth'.time = truth.time /\ truth'.unsafe = truth.unsafe
      /\ truth'.doubtful = truth.doubtful \cup truth.unsafe /\ truth'.lossy = Sides
      /\ truth'.triedAt = truth.triedAt
  BY <1>1, <1>2 DEF Truths
<1>4. truth' \in Truths
  BY <1>1, <1>2 DEF Truths
<1>5. MeterType'
  BY <1>1, <1>4 DEF MeterInv, MeterType
<1>6. CounterInv'
  BY <1>1 DEF MeterInv, CounterInv, WrapIsExact
<1>7. TimelineInv'
  BY <1>1 DEF MeterInv, TimelineInv, Ordered
<1>8. UnsavedInv' /\ AveragesInv'
  BY <1>1 DEF MeterInv, UnsavedInv, AveragesInv, Plausible
<1>9. CountInv'
  <2>1. FileCounted'
    BY <1>1, <1>3 DEF MeterInv, CountInv, FileCounted, Sure
  <2>2. NothingCountedTwice'
    BY <1>1 DEF NothingCountedTwice
  <2>3. QED BY <1>1, <1>3, <2>1, <2>2 DEF CountInv
<1>10. QED BY <1>5, <1>6, <1>7, <1>8, <1>9 DEF MeterInv

-----------------------------------------------------------------------------
(* A new daemon: the meter that EnergyMeter::new makes of a file.          *)
Resumed(p, m) ==
    /\ m \in Meters /\ m.prevOnAc = "unknown" /\ m.sinceSave = 0
    /\ m.bucket.age = NoReading /\ m.bucket.j = 0 /\ m.bucket.dt = 0
    /\ m.samples = Capped(p.samples)
    /\ m.onBattery = p.onBattery /\ m.onAc = p.onAc
    /\ m.discharge = p.discharge /\ m.charge = p.charge

LEMMA Resuming ==
    ASSUME NEW p \in Files
    PROVE  Resumed(p, Started([p EXCEPT !.samples = Capped(@)]))
<1> DEFINE c == Capped(p.samples)
           q == [p EXCEPT !.samples = c]
           ib == p.onBattery > 0
           ia == p.onAc > 0
           b == EmptyBucket
           m == [onBattery |-> p.onBattery, onAc |-> p.onAc,
                 discharge |-> p.discharge, charge |-> p.charge, samples |-> c,
                 inBattery |-> ib, inAc |-> ia,
                 prevOnAc |-> "unknown", bucket |-> b, sinceSave |-> 0]
<1>1. /\ p.onBattery \in Nat /\ p.onAc \in Nat /\ p.discharge \in Nat /\ p.charge \in Nat
      /\ p.samples \in Seq(Points)
  BY DEF Files
<1>2. c \in Seq(Points)
  BY <1>1, CappedIsSuffix
<1>3. /\ q.onBattery = p.onBattery /\ q.onAc = p.onAc /\ q.discharge = p.discharge
      /\ q.charge = p.charge /\ q.samples = c
  <2> HIDE DEF c
  <2>1. QED BY DEF Files
<1>4. ib \in BOOLEAN /\ ia \in BOOLEAN
  BY <1>1
<1>5. b \in Buckets /\ b.age = NoReading /\ b.j = 0 /\ b.dt = 0
  BY EmptyBucketType
<1> HIDE DEF c, b, q
<1>6. Started(q) = m
  BY <1>3 DEF Started, b
<1> HIDE DEF ib, ia
<1>7. m \in Meters
  BY <1>1, <1>2, <1>4, <1>5 DEF Meters
<1>8. Resumed(p, m)
  BY <1>5, <1>7 DEF Resumed, c
<1>9. Started([p EXCEPT !.samples = Capped(@)]) = Started(q)
  BY DEF q, c
<1>10. QED BY <1>6, <1>8, <1>9

LEMMA CappedInOrder ==
    ASSUME NEW s \in Seq(Points), NEW t \in Nat, Ordered(s, t)
    PROVE  Ordered(Capped(s), t)
<1> DEFINE c == Capped(s)
           d == Dropped(s)
<1>1. /\ c \in Seq(Points) /\ d \in Nat /\ Len(c) = Len(s) - d
      /\ \A i \in 1 .. Len(c) : i + d \in 1 .. Len(s) /\ c[i] = s[i + d]
  BY CappedIsSuffix
<1>2. Len(c) \in Nat /\ Len(s) \in Nat
  BY <1>1
<1> HIDE DEF c, d
<1>3. \A i \in 1 .. Len(c) : c[i].at <= t
  BY <1>1 DEF Ordered
<1>4. \A i \in 1 .. Len(c) - 1 : c[i].at < c[i + 1].at
  <2> TAKE i \in 1 .. Len(c) - 1
  <2>1. i \in 1 .. Len(c) /\ i + 1 \in 1 .. Len(c)
    BY <1>2
  <2>2. c[i] = s[i + d] /\ c[i + 1] = s[i + 1 + d] /\ i + d \in 1 .. Len(s) /\ i + 1 + d \in 1 .. Len(s)
    BY <1>1, <2>1
  <2>3. i + 1 + d = i + d + 1 /\ i + d \in 1 .. Len(s) - 1
    BY <1>1, <1>2, <2>2
  <2>4. s[i + d].at < s[i + d + 1].at
    BY <2>3 DEF Ordered
  <2>5. QED BY <2>2, <2>3, <2>4
<1>5. QED BY <1>3, <1>4 DEF Ordered, c

LEMMA StartKeeps == ASSUME MeterInv, Start PROVE MeterInv'
<1>1. /\ ~up /\ up' = TRUE /\ file' = file /\ clock' = clock /\ starts' = starts + 1
      /\ meter' = Started([file EXCEPT !.samples = Capped(@)])
      /\ zone' = [zone EXCEPT !.prev = NoReading, !.result = NoResult, !.used = 0]
      /\ truth' = [truth EXCEPT !.unsafe = {}, !.triedAt = clock]
  BY DEF Start
<1>2. /\ file \in Files /\ truth \in Truths /\ clock \in Nat /\ starts \in Nat /\ zone \in Zones
      /\ file.samples \in Seq(Points)
  BY DEF MeterInv, MeterType, Files
<1>3. Resumed(file, meter')
  BY <1>1, <1>2, Resuming
<1>4. /\ truth' \in Truths /\ truth'.flow = truth.flow /\ truth'.time = truth.time
      /\ truth'.unsafe = {} /\ truth'.doubtful = truth.doubtful /\ truth'.lossy = truth.lossy
      /\ truth'.triedAt = clock
  BY <1>1, <1>2 DEF Truths
<1>5. zone' \in Zones /\ zone'.prev = NoReading /\ zone'.result = NoResult
      /\ zone'.counter = zone.counter
  BY <1>1, <1>2, ResultType DEF Zones
<1>6. MeterType'
  BY <1>1, <1>2, <1>3, <1>4, <1>5 DEF MeterType, Resumed
<1>7. CounterInv'
  BY <1>5 DEF MeterInv, CounterInv, WrapIsExact
<1> DEFINE s == file.samples
           c == Capped(s)
<1>8. meter'.samples = c /\ meter'.sinceSave = 0 /\ meter'.prevOnAc = "unknown"
      /\ meter'.bucket.age = NoReading /\ meter'.bucket.j = 0 /\ meter'.bucket.dt = 0
  BY <1>3 DEF Resumed
<1>9. /\ c \in Seq(Points) /\ Dropped(s) \in Nat /\ Len(c) <= MaxSamples
      /\ \A i \in 1 .. Len(c) : i + Dropped(s) \in 1 .. Len(s) /\ c[i] = s[i + Dropped(s)]
  BY <1>2, CappedIsSuffix
<1>10. Ordered(s, clock) /\ Ordered(c, clock)
  BY <1>2, CappedInOrder DEF MeterInv, TimelineInv
<1> HIDE DEF c, s
<1>11. TimelineInv'
  <2>1. BucketInv'
    BY <1>8 DEF BucketInv
  <2>2. QED BY <1>1, <1>8, <1>9, <1>10, <2>1 DEF TimelineInv, s
<1>12. UnsavedInv'
  BY <1>1, <1>4, <1>8, <1>10 DEF UnsavedInv, Ordered
<1>13. AveragesInv'
  <2>1. \A i \in 1 .. Len(s) : Plausible(s[i].j, s[i].dt)
    BY DEF MeterInv, AveragesInv, s
  <2>2. \A i \in 1 .. Len(c) : Plausible(c[i].j, c[i].dt)
    BY <1>9, <2>1
  <2>3. QED BY <1>1, <1>8, <2>1, <2>2, PlausibleZero DEF AveragesInv, s
<1>14. CountInv'
  <2>1. truth.unsafe \subseteq truth.doubtful /\ truth.lossy = Sides /\ FileCounted
    BY <1>1 DEF MeterInv, CountInv
  <2>2. Sure("battery")' => Sure("battery")
    BY <1>4, <2>1 DEF Sure
  <2>3. Sure("ac")' => Sure("ac")
    BY <1>4, <2>1 DEF Sure
  <2>4. FileCounted'
    BY <1>1, <1>4, <2>1, <2>2, <2>3 DEF FileCounted
  <2>5. /\ meter'.onBattery = file.onBattery /\ meter'.onAc = file.onAc
        /\ meter'.discharge = file.discharge /\ meter'.charge = file.charge
    BY <1>3 DEF Resumed
  <2>6. "battery" \in truth'.lossy /\ "ac" \in truth'.lossy
    BY <1>4, <2>1 DEF Sides
  <2>7. NothingCountedTwice'
    BY <1>1, <1>4, <2>4, <2>5, <2>6 DEF NothingCountedTwice, Counted, FileCounted, Sure
  <2>8. SessionInv'
    BY <1>8 DEF SessionInv
  <2>9. QED BY <1>1, <2>4, <2>7, <2>8 DEF CountInv
<1>15. QED BY <1>6, <1>7, <1>11, <1>12, <1>13, <1>14 DEF MeterInv

-----------------------------------------------------------------------------
LEMMA Initially == ASSUME Init PROVE MeterInv
<1>1. /\ up = TRUE /\ starts = 1 /\ clock = 0 /\ file = Blank /\ meter = Started(Blank)
      /\ zone = [counter |-> 0, prev |-> NoReading, result |-> NoResult,
                 used |-> 0, before |-> 0]
      /\ truth = [flow |-> [battery |-> 0, ac |-> 0], time |-> [battery |-> 0, ac |-> 0],
                  unsafe |-> {}, doubtful |-> {}, lossy |-> {}, triedAt |-> 0]
  BY DEF Init
<1>2. Blank \in Files /\ Blank.samples = <<>> /\ Blank.onBattery = 0 /\ Blank.onAc = 0
      /\ Blank.discharge = 0 /\ Blank.charge = 0
  BY DEF Blank, Files
<1>3. [Blank EXCEPT !.samples = Capped(@)] = Blank /\ Capped(<<>>) = <<>>
  <2>1. Capped(<<>>) = <<>>
    BY MeterAssumption DEF MeterAssumption, Capped
  <2>2. QED BY <2>1 DEF Blank
<1>4. Resumed(Blank, meter)
  BY <1>1, <1>2, <1>3, Resuming
<1>5. meter \in Meters /\ meter.samples = <<>> /\ meter.sinceSave = 0
      /\ meter.prevOnAc = "unknown" /\ meter.bucket.age = NoReading
      /\ meter.bucket.j = 0 /\ meter.bucket.dt = 0
      /\ meter.onBattery = 0 /\ meter.onAc = 0 /\ meter.discharge = 0 /\ meter.charge = 0
  BY <1>2, <1>3, <1>4 DEF Resumed
<1>6. truth \in Truths
  BY <1>1 DEF Truths, Pairs
<1>7. zone \in Zones
  BY <1>1, ResultType DEF Zones
<1>8. MeterType
  BY <1>1, <1>2, <1>5, <1>6, <1>7 DEF MeterType
<1>9. CounterInv
  BY <1>1 DEF CounterInv, WrapIsExact
<1>10. Ordered(<<>>, 0)
  BY DEF Ordered
<1>11. TimelineInv
  <2>1. BucketInv
    BY <1>5 DEF BucketInv
  <2>2. Len(meter.samples) <= MaxSamples
    BY <1>5, MeterAssumption DEF MeterAssumption
  <2>3. QED BY <1>1, <1>2, <1>5, <1>10, <2>1, <2>2 DEF TimelineInv
<1>12. UnsavedInv
  BY <1>5 DEF UnsavedInv
<1>13. AveragesInv
  BY <1>1, <1>2, <1>5, PlausibleZero DEF AveragesInv
<1>14. CountInv
  BY <1>1, <1>2, <1>5 DEF CountInv, NothingCountedTwice, Counted, FileCounted, SessionInv
<1>15. QED BY <1>8, <1>9, <1>11, <1>12, <1>13, <1>14 DEF MeterInv

LEMMA SampleKeeps ==
    ASSUME MeterInv, NEW r \in Readings, NEW step \in Dts,
           NEW okP \in SaveOutcomes, NEW okT \in SaveOutcomes, Sample(r, step, okP, okT)
    PROVE  MeterInv'
<1>1. /\ MeterType /\ CounterInv /\ TimelineInv /\ UnsavedInv /\ AveragesInv /\ CountInv
  BY DEF MeterInv
<1>2. PICK m, n : Tick(r, Elapsed(step), m, n, okP, okT)
  BY <1>1, SampleTicks
<1>3. MeterType' /\ CounterInv'
  BY <1>1, <1>2, TickType
<1>4. TimelineInv'
  BY <1>1, <1>2, TickTimeline
<1>5. UnsavedInv'
  BY <1>1, <1>2, TickUnsaved
<1>6. AveragesInv'
  BY <1>1, <1>2, TickAverages
<1>7. CountInv'
  BY <1>1, <1>2, TickCount
<1>8. QED BY <1>3, <1>4, <1>5, <1>6, <1>7 DEF MeterInv

LEMMA Invariance == Spec => []MeterInv
<1>1. Init => MeterInv
  BY Initially
<1>2. MeterInv /\ [Next]_vars => MeterInv'
  <2> SUFFICES ASSUME MeterInv, [Next]_vars PROVE MeterInv'
    OBVIOUS
  <2>1. CASE \E r \in Readings, step \in Dts, ok1, ok2 \in SaveOutcomes :
                Sample(r, step, ok1, ok2)
    BY <2>1, SampleKeeps
  <2>2. CASE Stop
    BY <2>2, StopKeeps
  <2>3. CASE Start
    BY <2>3, StartKeeps
  <2>4. CASE UNCHANGED vars
    BY <2>4 DEF vars, MeterInv, MeterType, CounterInv, WrapIsExact, TimelineInv, Ordered,
                BucketInv, UnsavedInv, AveragesInv, Plausible, CountInv, NothingCountedTwice,
                Counted, FileCounted, Sure, SessionInv
  <2>5. QED BY <2>1, <2>2, <2>3, <2>4 DEF Next
<1>3. QED BY <1>1, <1>2, PTL DEF Spec

-----------------------------------------------------------------------------
(* Whatever is read, whenever the daemon is restarted and whichever save   *)
(* fails, every variable of the energy meter has its type.                 *)
THEOREM MeterTypeCorrect == Spec => []TypeOK
<1>1. MeterInv => TypeOK
  <2> SUFFICES ASSUME MeterInv PROVE TypeOK
    OBVIOUS
  <2>1. /\ up \in BOOLEAN /\ starts \in Nat /\ clock \in Nat
        /\ meter \in Meters /\ file \in Files /\ zone \in Zones
    BY DEF MeterInv, MeterType
  <2>2. /\ meter.onBattery \in Nat /\ meter.onAc \in Nat /\ meter.discharge \in Nat
        /\ meter.charge \in Nat /\ meter.sinceSave \in Nat
        /\ meter.inBattery \in BOOLEAN /\ meter.inAc \in BOOLEAN
        /\ meter.prevOnAc \in {"unknown", "yes", "no"} /\ meter.samples \in Seq(Points)
    BY <2>1 DEF Meters
  <2>3. file.samples \in Seq(Points) /\ DOMAIN file = DOMAIN Blank
    BY <2>1 DEF Files, Blank
  <2>4. DOMAIN meter = DOMAIN Started(Blank)
    BY <2>1 DEF Meters, Started
  <2>5. /\ zone.counter \in Nat /\ zone.prev \in Nat \cup {NoReading}
        /\ zone.result \in [delta : Nat, dt : Nat]
    BY <2>1 DEF Zones
  <2>6. QED BY <2>1, <2>2, <2>3, <2>4, <2>5 DEF TypeOK
<1>2. QED BY <1>1, Invariance, PTL

(* A discharge, charge or time counter never shows more than what flowed   *)
(* since its session was seen to start, across any number of restarts and  *)
(* failed saves, unless a restart lost that start; and it shows all of it  *)
(* if there was no restart.                                                *)
THEOREM CountersAreHonest == Spec => []NothingCountedTwice
<1>1. MeterInv => NothingCountedTwice
  BY DEF MeterInv, CountInv
<1>2. QED BY <1>1, Invariance, PTL

(* At any moment fewer than SaveEvery points of the timeline are missing   *)
(* from what the last attempt to save was given: a crash loses no more.    *)
THEOREM CrashesAreCheap == Spec => []CrashLosesLittle
<1>1. MeterInv => CrashLosesLittle
  <2> DEFINE s == meter.samples
             k == meter.sinceSave % SaveEvery
             U == {i \in 1 .. Len(s) : s[i].at > truth.triedAt}
             I == Len(s) - k + 1 .. Len(s)
  <2> SUFFICES ASSUME MeterInv, up PROVE Cardinality(U) < SaveEvery
    BY DEF CrashLosesLittle
  <2>1. meter \in Meters /\ truth \in Truths
    BY DEF MeterInv, MeterType
  <2>2. s \in Seq(Points) /\ meter.sinceSave \in Nat /\ truth.triedAt \in Nat
    BY <2>1 DEF Meters, Truths
  <2>3. Len(s) \in Nat /\ \A i \in 1 .. Len(s) : s[i].at \in Nat
    BY <2>2, PointParts
  <2>4. SaveEvery \in Nat \ {0}
    BY MeterAssumption DEF MeterAssumption
  <2>5. k \in Nat /\ k < SaveEvery
    <3>1. meter.sinceSave \in Nat
      BY <2>2
    <3>2. k \in Nat /\ k \in 0 .. SaveEvery - 1
      BY <2>4, <3>1, Division
    <3> HIDE DEF k
    <3>3. QED BY <2>4, <3>2
  <2>6. \A i \in 1 .. Len(s) : i + k <= Len(s) => s[i].at <= truth.triedAt
    BY DEF MeterInv, UnsavedInv
  <2> HIDE DEF s, k
  <2>7. U \subseteq I
    BY <2>2, <2>3, <2>5, <2>6
  <2>8. IsFiniteSet(I) /\ Cardinality(I) <= k
    <3>1. Len(s) - k + 1 \in Int /\ Len(s) \in Int
      BY <2>3, <2>5
    <3>2. /\ IsFiniteSet(I)
          /\ Cardinality(I) = IF Len(s) - k + 1 > Len(s) THEN 0 ELSE Len(s) - (Len(s) - k + 1) + 1
      BY <3>1, FS_Interval
    <3>3. QED BY <2>3, <2>5, <3>2
  <2> HIDE DEF U, I
  <2>9. Cardinality(U) <= Cardinality(I) /\ IsFiniteSet(U)
    BY <2>7, <2>8, FS_Subset
  <2>10. Cardinality(U) \in Nat /\ Cardinality(I) \in Nat
    BY <2>8, <2>9, FS_CardinalityType
  <2>11. QED BY <2>4, <2>5, <2>8, <2>9, <2>10
<1>2. QED BY <1>1, Invariance, PTL

(* The timeline is capped, strictly in order and ends with the last bucket *)
(* closed, also after a restart read it back from the file.                *)
THEOREM TimelineStaysInOrder == Spec => []TimelineInOrder
<1>1. MeterInv => TimelineInOrder
  BY DEF MeterInv, TimelineInv, BucketInv, Ordered, TimelineInOrder
<1>2. QED BY <1>1, Invariance, PTL

(* No point's average power leaves the range of what was ever read.        *)
THEOREM AveragesArePlausible == Spec => []AverageIsPlausible
<1>1. MeterInv => AverageIsPlausible
  BY DEF MeterInv, AveragesInv, Plausible, Powers, AverageIsPlausible
<1>2. QED BY <1>1, Invariance, PTL

(* The energy of a RAPL result is exact across a wrap of the counter and   *)
(* across readings that failed, if less than one range was used.           *)
THEOREM WrapsAreExact == Spec => []WrapIsExact
<1>1. MeterInv => WrapIsExact
  BY DEF MeterInv, CounterInv
<1>2. QED BY <1>1, Invariance, PTL
=============================================================================
