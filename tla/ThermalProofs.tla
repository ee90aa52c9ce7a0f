---------------------------- MODULE ThermalProofs ----------------------------
(* Thermal's safety, proved for any drives, sensors, limits and settings: no *)
(* setting raises a device's limit, what is hot has been said, a replacement *)
(* is earned and a level is left only below its hysteresis.                  *)
EXTENDS Thermal, TLAPS

Opt == Int \cup {None}
Word == Words \cup {None}
Reading == [id : Ids, class : Classes, temp : Opt, device : DeviceLimits]

-----------------------------------------------------------------------------
(* Limits.                                                                 *)

LEMMA NoneIsNoNumber == None \notin Int
  BY ThermalAssumption DEF AssumeConfig

\* A sane limit is one, and a warning of one is below its critical limit.
LEMMA SaneType ==
  ASSUME NEW dev \in DeviceLimits
  PROVE  Sane(dev) \in DeviceLimits
<1>1. Plausible(dev.warn) \in Opt /\ Plausible(dev.crit) \in Opt
  BY DEF Plausible, DeviceLimits, Opt
<1>2. QED
  BY <1>1 DEF Sane, DeviceLimits, Opt

\* What is chosen is a number, and not above what the device gives.
LEMMA PickLimitBound ==
  ASSUME NEW dev \in Opt, NEW set \in Opt, NEW base \in Int
  PROVE  /\ PickLimit(dev, set, base) \in Int
         /\ dev # None => PickLimit(dev, set, base) <= dev
<1>1. CASE dev = None
  BY <1>1, NoneIsNoNumber DEF PickLimit, Or, Opt
<1>2. CASE dev # None
  <2>1. dev \in Int
    BY <1>2 DEF Opt
  <2>2. CASE set = None
    BY <1>2, <2>1, <2>2 DEF PickLimit
  <2>3. CASE set # None
    <3>1. set \in Int
      BY <2>3 DEF Opt
    <3>2. QED
      BY <1>2, <2>1, <2>3, <3>1 DEF PickLimit
  <2>4. QED
    BY <2>2, <2>3
<1>3. QED
  BY <1>1, <1>2

\* The limits in force: warning below critical, neither above the device's.
LEMMA ResolveBound ==
  ASSUME NEW device \in DeviceLimits, NEW set \in LimitSetting, NEW base \in [warn : Int, crit : Int]
  PROVE  /\ Resolve(device, set, base) \in [warn : Int, crit : Int]
         /\ Resolve(device, set, base).warn < Resolve(device, set, base).crit
         /\ Sane(device).warn # None => Resolve(device, set, base).warn <= Sane(device).warn
         /\ Sane(device).crit # None => Resolve(device, set, base).crit <= Sane(device).crit
<1> DEFINE dev == Sane(device)
           crit == PickLimit(dev.crit, set.crit, base.crit)
           pick == PickLimit(dev.warn, set.warn, base.warn)
           derived == /\ dev.warn = None /\ set.warn = None /\ dev.crit # None
                      /\ base.warn > crit - DerivedGap
           warn == IF derived THEN crit - DerivedGap ELSE pick
           low == IF warn >= crit THEN crit - DerivedGap ELSE warn
<1>1. dev.warn \in Opt /\ dev.crit \in Opt
  BY SaneType DEF DeviceLimits, Opt
<1>2. set.warn \in Opt /\ set.crit \in Opt
  BY DEF LimitSetting, Degrees, Opt
<1>3. base.warn \in Int /\ base.crit \in Int
  OBVIOUS
<1>4. crit \in Int /\ (dev.crit # None => crit <= dev.crit)
  BY <1>1, <1>2, <1>3, PickLimitBound
<1>5. pick \in Int /\ (dev.warn # None => pick <= dev.warn)
  BY <1>1, <1>2, <1>3, PickLimitBound
<1>6. Resolve(device, set, base) = [warn |-> low, crit |-> crit]
  BY DEF Resolve
<1> HIDE DEF dev, crit, pick
<1>7. low \in Int /\ low < crit
  BY <1>4, <1>5 DEF DerivedGap
<1>8. ASSUME dev.warn # None
      PROVE  low <= dev.warn
  <2>1. dev.warn \in Int /\ warn = pick
    BY <1>1, <1>8 DEF Opt
  <2>2. QED
    BY <1>4, <1>5, <1>8, <2>1 DEF DerivedGap
<1>9. QED
  BY <1>4, <1>6, <1>7, <1>8 DEF dev

LEMMA DefaultType ==
  ASSUME NEW class \in Classes
  PROVE  DefaultLimits[class] \in [warn : Int, crit : Int]
  BY ThermalAssumption DEF Classes, DefaultLimits, AssumeConfig

\* The live settings are what the operator may put, or none.
SettingsOK(s) == /\ s.classes \in [Classes -> LimitSetting]
                 /\ s.components \in [Ids -> LimitSetting]

LEMMA PutsOK == \A s \in Puts \cup {NoSettings} : SettingsOK(s)
<1>1. \A s \in Puts : SettingsOK(s)
  BY ThermalAssumption DEF SettingsOK, AssumeConfig
<1>2. NoSetting \in LimitSetting
  BY DEF NoSetting, LimitSetting
<1>3. SettingsOK(NoSettings)
  BY <1>2 DEF SettingsOK, NoSettings
<1>4. QED
  BY <1>1, <1>3

LEMMA SettingForType ==
  ASSUME NEW s, SettingsOK(s), NEW id \in Ids, NEW class \in Classes
  PROVE  SettingFor(s, id, class) \in LimitSetting
<1>1. s.components[id] \in LimitSetting /\ s.classes[class] \in LimitSetting
  BY DEF SettingsOK
<1>2. QED
  BY <1>1 DEF SettingFor, LimitSetting, Or

-----------------------------------------------------------------------------
(* Levels.                                                                 *)

\* A level is one; it is unknown without a reading only; and it drops only
\* below the hysteresis of where it was entered.
LEMMA LevelOfType ==
  ASSUME NEW prev \in Levels, NEW t \in Opt, NEW l \in [warn : Int, crit : Int]
  PROVE  /\ LevelOf(prev, t, l) \in Levels
         /\ (LevelOf(prev, t, l) < prev /\ LevelOf(prev, t, l) # Unknown)
               => t <= Entry(prev, l) - HysteresisC
<1> DEFINE held(at) == t >= Entry(at, l) \/ (prev >= at /\ t > Entry(at, l) - HysteresisC)
           level == LevelOf(prev, t, l)
<1> USE DEF Unknown, Ok, Near, Warning, Critical, Levels
<1>1. CASE t = None
  BY <1>1, NoneIsNoNumber DEF LevelOf
<1>2. CASE t # None
  <2>1. t \in Int /\ l.warn \in Int /\ l.crit \in Int
    BY <1>2 DEF Opt
  <2>2. NearC \in Nat /\ HysteresisC \in Nat
    BY ThermalAssumption DEF AssumeConfig
  <2>3. Entry(4, l) = l.crit /\ Entry(3, l) = l.warn /\ Entry(2, l) = l.warn - NearC
    BY DEF Entry
  <2>4. /\ held(4) => level = 4
        /\ ~held(4) /\ held(3) => level = 3
        /\ ~held(4) /\ ~held(3) /\ held(2) => level = 2
        /\ ~held(4) /\ ~held(3) /\ ~held(2) => level = 1
    BY <1>2 DEF LevelOf
  <2>5. level \in Levels
    BY <2>4
  <2>6. ASSUME level < prev
        PROVE  t <= Entry(prev, l) - HysteresisC
    <3>1. prev \in {2, 3, 4} /\ ~held(prev)
      BY <2>4, <2>6
    <3>2. Entry(prev, l) \in Int
      BY <2>1, <2>2, <2>3, <3>1
    <3>3. QED
      BY <2>1, <2>2, <3>1, <3>2
  <2>7. QED
    BY <2>5, <2>6
<1>3. QED
  BY <1>1, <1>2

-----------------------------------------------------------------------------
(* Readings.                                                               *)

LEMMA HwmonClassType ==
  ASSUME NEW c \in Chips, HwmonClass(c) # "none"
  PROVE  HwmonClass(c) \in Classes
  BY ThermalAssumption DEF AssumeConfig, HwmonClass, Classes, ChipNames, ChipLabels

\* Every reading of a pass is one of a known component.
LEMMA ReadingsType ==
  ASSUME sampled \in [Drives -> Opt],
         NEW temp, \A i \in Ids : temp[i] \in Opt,
         NEW r \in Readings(temp)
  PROVE  r \in Reading
<1>1. CASE r \in HwmonReadings(temp)
  <2>1. PICK c \in Chips : /\ HwmonClass(c) # "none"
                           /\ r = [id |-> c.id, class |-> HwmonClass(c), temp |-> temp[c.id],
                                   device |-> c.limits]
    BY <1>1 DEF HwmonReadings
  <2>2. c.id \in Ids /\ c.limits \in DeviceLimits /\ HwmonClass(c) \in Classes
    BY <2>1, HwmonClassType, ThermalAssumption DEF AssumeConfig, Ids
  <2>3. QED
    BY <2>1, <2>2 DEF Reading
<1>2. CASE r \in ShelfReadings(temp)
  <2>1. PICK e \in Elements : r = [id |-> e.id, class |-> "shelf", temp |-> temp[e.id],
                                   device |-> e.limits]
    BY <1>2 DEF ShelfReadings
  <2>2. e.id \in Ids /\ e.limits \in DeviceLimits
    BY ThermalAssumption DEF AssumeConfig, Ids
  <2>3. QED
    BY <2>1, <2>2 DEF Reading, Classes
<1>3. CASE \E d \in Present : r = DriveReading(d, temp[d])
  <2>1. PICK d \in Drives : r = DriveReading(d, temp[d])
    BY <1>3 DEF Present
  <2>2. d \in Ids /\ temp[d] \in Opt /\ sampled[d] \in Opt
    BY DEF Ids
  <2>3. OwnLimits[d] \in DeviceLimits /\ SmartLimits[d] \in DeviceLimits
    BY ThermalAssumption DEF AssumeConfig
  <2>4. Sane(OwnLimits[d]) \in DeviceLimits
    BY <2>3, SaneType
  <2>5. r.id = d /\ r.class = "drive" /\ r.temp \in Opt /\ r.device \in DeviceLimits
    BY <2>1, <2>2, <2>3, <2>4 DEF DriveReading, Or
  <2>6. r = [id |-> r.id, class |-> r.class, temp |-> r.temp, device |-> r.device]
    BY <2>1 DEF DriveReading
  <2>7. QED
    BY <2>2, <2>5, <2>6 DEF Reading, Classes
<1>4. QED
  BY <1>1, <1>2, <1>3 DEF Readings

-----------------------------------------------------------------------------
(* The invariant.                                                          *)

Record == [thermal : Word, pushed : Word, missing : BOOLEAN, member : BOOLEAN]

\* The tracker's tables, and the clock behind them.
TrackerType ==
  /\ now \in Nat /\ now <= MaxTime
  /\ sampled \in [Drives -> Opt]
  /\ DOMAIN comp \subseteq Ids /\ \A i \in DOMAIN comp : comp[i] \in Component
  /\ \A i \in DOMAIN written : written[i].at \in Int
  /\ settings \in Puts \cup {NoSettings} /\ file \in Puts \cup {NoSettings}
  /\ hotSince \in [Ids -> Opt]

\* The records and the words on their way to them and to the engine.
RecordType ==
  /\ drive \in [Drives -> Record]
  /\ saved \in [Drives -> Word] /\ eng \in [Drives -> Word]
  /\ DOMAIN pend.drives \subseteq Drives /\ \A d \in DOMAIN pend.drives : pend.drives[d] \in Words
  /\ \A d \in DOMAIN jobs : jobs[d] \in Words

\* An alarm on its way to the events counts as told, and so does a request.
ToBeTold(i) == IF i \in DOMAIN pend.alarms
               THEN IF pend.alarms[i] >= Warning THEN pend.alarms[i] ELSE None ELSE told[i]
ToBeSaid == IF pend.cooling # None THEN pend.cooling ELSE said

ToldOK ==
  /\ \A i \in DOMAIN comp : comp[i].level >= Warning => ToBeTold(i) = comp[i].level
  /\ cooling # None /\ cooling.request # "auto" => ToBeSaid = cooling.request

\* What is critical now has been since its level says so, at least.
HotOK ==
  /\ \A i \in Ids : hotSince[i] # None => hotSince[i] <= now
  /\ \A i \in DOMAIN comp : comp[i].level = Critical => hotSince[i] # None /\ hotSince[i] <= comp[i].since

IInv == TrackerType /\ RecordType /\ LimitsNeverRaised /\ HistoryFresh /\ ToldOK /\ HotOK /\ ReplaceIsEarned

-----------------------------------------------------------------------------
(* One reading of a pass.                                                  *)

LEMMA TrackedType ==
  ASSUME TrackerType, NEW r \in Reading, NEW t \in Nat
  PROVE  LET c == Tracked(r, t)
             prev == IF r.id \in DOMAIN comp THEN comp[r.id].level ELSE Unknown
         IN  /\ c \in Component
             /\ c.limits.warn < c.limits.crit
             /\ c.device.warn # None => c.limits.warn <= c.device.warn
             /\ c.device.crit # None => c.limits.crit <= c.device.crit
             /\ (c.level < prev /\ c.level # Unknown) => c.temp <= Entry(prev, c.limits) - HysteresisC
             /\ c.since = IF r.id \in DOMAIN comp /\ prev = c.level THEN comp[r.id].since ELSE t
<1> DEFINE l == Resolve(r.device, SettingFor(settings, r.id, r.class), DefaultLimits[r.class])
           prev == IF r.id \in DOMAIN comp THEN comp[r.id].level ELSE Unknown
           level == LevelOf(prev, r.temp, l)
           since == IF r.id \in DOMAIN comp /\ prev = level THEN comp[r.id].since ELSE t
<1>1. r.id \in Ids /\ r.class \in Classes /\ r.temp \in Opt /\ r.device \in DeviceLimits
  BY DEF Reading
<1>2. SettingFor(settings, r.id, r.class) \in LimitSetting
  BY <1>1, PutsOK, SettingForType DEF TrackerType
<1>3. DefaultLimits[r.class] \in [warn : Int, crit : Int]
  BY <1>1, DefaultType
<1>4. /\ l \in [warn : Int, crit : Int] /\ l.warn < l.crit
      /\ Sane(r.device).warn # None => l.warn <= Sane(r.device).warn
      /\ Sane(r.device).crit # None => l.crit <= Sane(r.device).crit
  BY <1>1, <1>2, <1>3, ResolveBound
<1>5. prev \in Levels
  BY DEF TrackerType, Component, Levels, Unknown, Critical
<1>6. Tracked(r, t) = [class |-> r.class, temp |-> r.temp, limits |-> l, device |-> Sane(r.device),
                       level |-> level, since |-> since]
  BY DEF Tracked
<1> HIDE DEF l, prev
<1>7. /\ level \in Levels
      /\ (level < prev /\ level # Unknown) => r.temp <= Entry(prev, l) - HysteresisC
  BY <1>1, <1>4, <1>5, LevelOfType
<1>8. since \in Nat
  BY DEF TrackerType, Component
<1>9. Sane(r.device) \in DeviceLimits
  BY <1>1, SaneType
<1> HIDE DEF level, since
<1>10. Tracked(r, t) \in Component
  BY <1>1, <1>4, <1>6, <1>7, <1>8, <1>9 DEF Component, Opt
<1>11. QED
  BY <1>4, <1>6, <1>7, <1>10 DEF prev, since

LEMMA DriveThermalType ==
  ASSUME NEW c \in Component, NEW t
  PROVE  DriveThermal(c, t) \in Words
  BY DEF DriveThermal, Words, Component

-----------------------------------------------------------------------------
(* The pass.                                                               *)

\* What a pass leaves: of every component it read, the state that follows.
Judged(t, comps, rpm) ==
  /\ t \in Nat /\ now <= t /\ t <= MaxTime
  /\ DOMAIN comps \subseteq Ids
  /\ \A i \in DOMAIN comps : \E r \in Reading : r.id = i /\ comps[i] = Tracked(r, t)
  /\ pend = NoPass
  /\ now' = t /\ comp' = comps
  /\ written' = WrittenAfter(comps, rpm, t)
  /\ cooling'.request = CoolingFor(comps, rpm)
  /\ pend' = [drives |-> [d \in Drives \cap DOMAIN comps |-> DriveThermal(comps[d], t)],
              alarms |-> [i \in {j \in DOMAIN comps :
                                  WorthTelling(IF j \in DOMAIN comp THEN comp[j].level ELSE Unknown,
                                               comps[j].level)} |-> comps[i].level],
              cooling |-> IF \/ cooling # None /\ cooling.request = CoolingFor(comps, rpm)
                             \/ cooling = None /\ CoolingFor(comps, rpm) = "auto"
                          THEN None ELSE CoolingFor(comps, rpm)]
  /\ hotSince' = [i \in Ids |-> IF i \in DOMAIN comps /\ comps[i].level = Critical
                                THEN Or(hotSince[i], t) ELSE None]
  /\ UNCHANGED <<sampled, settings, file, drive, saved, jobs, muted, eng, told, said, budget>>

LEMMA JudgeJudges ==
  ASSUME TrackerType, Judge
  PROVE  \E t, comps, rpm : Judged(t, comps, rpm)
<1> DEFINE t == IF now < MaxTime THEN now + 1 ELSE now
           comps(temp) == [i \in {r.id : r \in Readings(temp)} |->
                             Tracked(CHOOSE r \in Readings(temp) : r.id = i, t)]
<1>1. PICK temp \in [Ids -> UNION {Temps[i] : i \in Ids}], rpm \in [{f.id : f \in Fans} -> Rpms] :
        /\ \A i \in Ids : temp[i] \in Temps[i]
        /\ now' = t
        /\ comp' = comps(temp)
        /\ written' = WrittenAfter(comps(temp), rpm, t)
        /\ cooling' = [request |-> CoolingFor(comps(temp), rpm),
                       since |-> IF cooling # None /\ cooling.request = CoolingFor(comps(temp), rpm)
                                 THEN cooling.since ELSE t]
        /\ pend' = [drives |-> [d \in Drives \cap DOMAIN comps(temp) |-> DriveThermal(comps(temp)[d], t)],
                    alarms |-> [i \in {j \in DOMAIN comps(temp) :
                                        WorthTelling(IF j \in DOMAIN comp THEN comp[j].level ELSE Unknown,
                                                     comps(temp)[j].level)} |-> comps(temp)[i].level],
                    cooling |-> IF \/ cooling # None /\ cooling.request = CoolingFor(comps(temp), rpm)
                                   \/ cooling = None /\ CoolingFor(comps(temp), rpm) = "auto"
                                THEN None ELSE CoolingFor(comps(temp), rpm)]
        /\ hotSince' = [i \in Ids |-> IF i \in DOMAIN comps(temp) /\ comps(temp)[i].level = Critical
                                      THEN Or(hotSince[i], t) ELSE None]
  BY DEF Judge
<1>2. t \in Nat /\ now <= t /\ t <= MaxTime
  BY ThermalAssumption DEF TrackerType, AssumeConfig
<1>3. \A i \in Ids : temp[i] \in Opt
  BY <1>1, ThermalAssumption DEF AssumeConfig, Opt
<1>4. \A r \in Readings(temp) : r \in Reading
  BY <1>3, ReadingsType DEF TrackerType
<1>5. DOMAIN comps(temp) = {r.id : r \in Readings(temp)}
  OBVIOUS
<1>6. DOMAIN comps(temp) \subseteq Ids
  BY <1>4, <1>5 DEF Reading
<1>7. ASSUME NEW i \in DOMAIN comps(temp)
      PROVE  \E r \in Reading : r.id = i /\ comps(temp)[i] = Tracked(r, t)
  <2>1. \E r \in Readings(temp) : r.id = i
    BY <1>7
  <2>2. PICK r : r \in Readings(temp) /\ r.id = i /\ r = CHOOSE q \in Readings(temp) : q.id = i
    BY <2>1
  <2>3. comps(temp)[i] = Tracked(r, t)
    BY <1>7, <2>2
  <2>4. QED
    BY <1>4, <2>2, <2>3
<1>8. pend = NoPass
  BY DEF Judge
<1>9. UNCHANGED <<sampled, settings, file, drive, saved, jobs, muted, eng, told, said, budget>>
  BY DEF Judge
<1>10. cooling'.request = CoolingFor(comps(temp), rpm)
  BY <1>1
<1> HIDE DEF t, comps
<1>11. Judged(t, comps(temp), rpm)
  BY <1>1, <1>2, <1>6, <1>7, <1>8, <1>9, <1>10 DEF Judged
<1>12. QED
  BY <1>11

\* Of every component a pass leaves: its type, its limits, its drop and since
\* when it has its level.
LEMMA JudgedComponent ==
  ASSUME TrackerType, NEW t, NEW comps, NEW rpm, Judged(t, comps, rpm), NEW i \in DOMAIN comps
  PROVE  LET c == comps[i]
             prev == IF i \in DOMAIN comp THEN comp[i].level ELSE Unknown
         IN  /\ i \in Ids /\ c \in Component
             /\ c.limits.warn < c.limits.crit
             /\ c.device.warn # None => c.limits.warn <= c.device.warn
             /\ c.device.crit # None => c.limits.crit <= c.device.crit
             /\ (c.level < prev /\ c.level # Unknown) => c.temp <= Entry(prev, c.limits) - HysteresisC
             /\ c.since = IF i \in DOMAIN comp /\ prev = c.level THEN comp[i].since ELSE t
<1>1. PICK r \in Reading : r.id = i /\ comps[i] = Tracked(r, t)
  BY DEF Judged
<1>2. t \in Nat /\ i \in Ids
  BY DEF Judged
<1>3. QED
  BY <1>1, <1>2, TrackedType

\* The history after a pass: every component it read, as it is, not long ago.
LEMMA JudgedHistory ==
  ASSUME TrackerType, NEW t, NEW comps, NEW rpm, Judged(t, comps, rpm)
  PROVE  /\ \A i \in DOMAIN written' : written'[i].at \in Int
         /\ HistoryFresh'
<1>1. t \in Nat /\ now' = t /\ comp' = comps /\ written' = WrittenAfter(comps, rpm, t)
  BY DEF Judged
<1>2. Heartbeat \in Nat /\ Heartbeat > 0
  BY ThermalAssumption DEF AssumeConfig
<1>3. DOMAIN written' = DOMAIN comps \cup DOMAIN rpm
  BY <1>1 DEF WrittenAfter
<1>4. ASSUME NEW i \in DOMAIN comps
      PROVE  /\ written'[i].at \in Int /\ written'[i].level = comps[i].level
             /\ written'[i].value = comps[i].temp /\ t - written'[i].at < Heartbeat
  <2>1. CASE CompDue(i, comps[i], t)
    <3>1. written'[i] = [value |-> comps[i].temp, level |-> comps[i].level, at |-> t]
      BY <1>1, <1>3, <1>4, <2>1 DEF WrittenAfter
    <3>2. QED
      BY <1>1, <1>2, <3>1
  <2>2. CASE ~CompDue(i, comps[i], t)
    <3>1. written'[i] = written[i]
      BY <1>1, <1>3, <1>4, <2>2 DEF WrittenAfter
    <3>2. i \in DOMAIN written /\ written[i].level = comps[i].level
          /\ ~(t - written[i].at >= Heartbeat) /\ written[i].value = comps[i].temp
      BY <2>2 DEF CompDue
    <3>3. written[i].at \in Int
      BY <3>2 DEF TrackerType
    <3>4. QED
      BY <1>1, <1>2, <3>1, <3>2, <3>3
  <2>3. QED
    BY <2>1, <2>2
<1>5. ASSUME NEW i \in DOMAIN rpm, i \notin DOMAIN comps
      PROVE  written'[i].at \in Int
  <2>1. written'[i] = IF FanDue(i, rpm[i], t)
                      THEN [value |-> rpm[i], level |-> Unknown, at |-> t] ELSE written[i]
    BY <1>1, <1>3, <1>5 DEF WrittenAfter
  <2>2. CASE FanDue(i, rpm[i], t)
    BY <1>1, <2>1, <2>2
  <2>3. CASE ~FanDue(i, rpm[i], t)
    <3>1. i \in DOMAIN written
      BY <2>3 DEF FanDue
    <3>2. QED
      BY <2>1, <2>3, <3>1 DEF TrackerType
  <2>4. QED
    BY <2>2, <2>3
<1>6. HistoryFresh'
  BY <1>1, <1>3, <1>4 DEF HistoryFresh
<1>7. QED
  BY <1>3, <1>4, <1>5, <1>6

LEMMA JudgedTypes ==
  ASSUME TrackerType, RecordType, NEW t, NEW comps, NEW rpm, Judged(t, comps, rpm)
  PROVE  TrackerType' /\ RecordType' /\ LimitsNeverRaised'
<1>1. /\ t \in Nat /\ t <= MaxTime /\ now' = t /\ comp' = comps /\ DOMAIN comps \subseteq Ids
      /\ UNCHANGED <<sampled, settings, file, drive, saved, jobs, eng>>
  BY DEF Judged
<1>2. \A i \in DOMAIN comps : comps[i] \in Component
  BY JudgedComponent
<1>3. hotSince' \in [Ids -> Opt]
  <2>1. \A i \in Ids : Or(hotSince[i], t) \in Opt /\ None \in Opt
    BY <1>1 DEF TrackerType, Or, Opt
  <2>2. QED
    BY <2>1 DEF Judged
<1>4. TrackerType'
  BY <1>1, <1>2, <1>3, JudgedHistory DEF TrackerType
<1>5. /\ DOMAIN pend'.drives = Drives \cap DOMAIN comps
      /\ \A d \in DOMAIN pend'.drives : pend'.drives[d] = DriveThermal(comps[d], t)
  BY DEF Judged
<1>6. \A d \in DOMAIN pend'.drives : pend'.drives[d] \in Words
  BY <1>2, <1>5, DriveThermalType
<1>7. RecordType'
  BY <1>1, <1>5, <1>6 DEF RecordType
<1>8. LimitsNeverRaised'
  BY <1>1, JudgedComponent DEF LimitsNeverRaised
<1>9. QED
  BY <1>4, <1>7, <1>8

\* What is hot and not told anew was told by an earlier pass.
LEMMA JudgedTold ==
  ASSUME TrackerType, ToldOK, NEW t, NEW comps, NEW rpm, Judged(t, comps, rpm)
  PROVE  ToldOK'
<1> DEFINE before(i) == IF i \in DOMAIN comp THEN comp[i].level ELSE Unknown
           request == CoolingFor(comps, rpm)
<1>1. /\ pend = NoPass /\ comp' = comps /\ UNCHANGED <<told, said>>
      /\ cooling'.request = request
  BY DEF Judged
<1>2. /\ pend'.alarms = [i \in {j \in DOMAIN comps : WorthTelling(before(j), comps[j].level)} |-> comps[i].level]
      /\ pend'.cooling = IF \/ cooling # None /\ cooling.request = request
                            \/ cooling = None /\ request = "auto"
                         THEN None ELSE request
  BY DEF Judged
<1>3. DOMAIN pend.alarms = {} /\ pend.cooling = None
  BY <1>1 DEF NoPass
<1>4. ASSUME NEW i \in DOMAIN comps, comps[i].level >= Warning
      PROVE  (ToBeTold(i))' = comps[i].level
  <2>1. comps[i].level \in Levels /\ before(i) \in Levels
    BY JudgedComponent DEF Component, TrackerType, Levels, Unknown, Critical
  <2>2. CASE WorthTelling(before(i), comps[i].level)
    <3>1. i \in DOMAIN pend'.alarms /\ pend'.alarms[i] = comps[i].level
      BY <1>2, <1>4, <2>2
    <3>2. QED
      BY <1>4, <3>1 DEF ToBeTold
  <2>3. CASE ~WorthTelling(before(i), comps[i].level)
    <3>1. before(i) = comps[i].level
      BY <1>4, <2>1, <2>3 DEF WorthTelling, Levels, Unknown, Warning, Critical
    <3>2. i \in DOMAIN comp /\ comp[i].level = comps[i].level
      BY <1>4, <3>1 DEF Unknown, Warning
    <3>3. told[i] = comps[i].level
      BY <1>3, <1>4, <3>2 DEF ToldOK, ToBeTold
    <3>4. i \notin DOMAIN pend'.alarms
      BY <1>2, <2>3
    <3>5. QED
      BY <1>1, <3>3, <3>4 DEF ToBeTold
  <2>4. QED
    BY <2>2, <2>3
<1>5. ASSUME request # "auto"
      PROVE  ToBeSaid' = request
  <2>1. request # None
    BY NoneAssumption DEF CoolingFor
  <2>2. CASE cooling # None /\ cooling.request = request
    BY <1>1, <1>2, <1>3, <1>5, <2>2 DEF ToldOK, ToBeSaid
  <2>3. CASE ~(cooling # None /\ cooling.request = request)
    BY <1>2, <1>5, <2>1, <2>3 DEF ToBeSaid
  <2>4. QED
    BY <2>2, <2>3
<1>6. QED
  BY <1>1, <1>4, <1>5 DEF ToldOK

\* What is critical has been for as long as its level says.
LEMMA JudgedHot ==
  ASSUME TrackerType, HotOK, NEW t, NEW comps, NEW rpm, Judged(t, comps, rpm)
  PROVE  HotOK' /\ ReplaceIsEarned'
<1>1. /\ t \in Nat /\ now \in Nat /\ now <= t /\ now' = t /\ comp' = comps /\ DOMAIN comps \subseteq Ids
      /\ hotSince' = [i \in Ids |-> IF i \in DOMAIN comps /\ comps[i].level = Critical
                                    THEN Or(hotSince[i], t) ELSE None]
  BY DEF Judged, TrackerType
<1>2. ASSUME NEW i \in Ids, hotSince'[i] # None
      PROVE  hotSince'[i] \in Int /\ hotSince'[i] <= t
  <2>1. hotSince'[i] = Or(hotSince[i], t)
    BY <1>1, <1>2
  <2>2. hotSince[i] \in Opt /\ (hotSince[i] # None => hotSince[i] <= now)
    BY DEF TrackerType, HotOK
  <2>3. QED
    BY <1>1, <2>1, <2>2 DEF Or, Opt
<1>3. ASSUME NEW i \in DOMAIN comps, comps[i].level = Critical
      PROVE  hotSince'[i] # None /\ hotSince'[i] <= comps[i].since
  <2>1. i \in Ids /\ hotSince'[i] = Or(hotSince[i], t)
    BY <1>1, <1>3
  <2>2. hotSince'[i] # None
    BY <1>1, <2>1, NoneIsNoNumber DEF Or
  <2>3. CASE i \in DOMAIN comp /\ comp[i].level = Critical
    <3>1. comps[i].since = comp[i].since
      BY <1>3, <2>3, JudgedComponent
    <3>2. hotSince[i] # None /\ hotSince[i] <= comp[i].since
      BY <2>3 DEF HotOK
    <3>3. QED
      BY <2>1, <2>2, <3>1, <3>2 DEF Or
  <2>4. CASE ~(i \in DOMAIN comp /\ comp[i].level = Critical)
    <3>1. comps[i].since = t
      BY <1>3, <2>4, JudgedComponent
    <3>2. QED
      BY <1>2, <2>1, <2>2, <3>1
  <2>5. QED
    BY <2>3, <2>4
<1>4. ASSUME NEW d \in DOMAIN pend'.drives, pend'.drives[d].replace
      PROVE  hotSince'[d] # None /\ now' - hotSince'[d] >= ReplaceAfter
  <2>1. d \in DOMAIN comps /\ d \in Ids
    BY <1>1, <1>4 DEF Judged
  <2>2. pend'.drives[d] = DriveThermal(comps[d], t)
    BY <1>4 DEF Judged
  <2>3. comps[d].level = Critical /\ t - comps[d].since >= ReplaceAfter
    <3>1. DriveThermal(comps[d], t).replace = (comps[d].level = Critical /\ t - comps[d].since >= ReplaceAfter)
      BY DEF DriveThermal
    <3>2. QED
      BY <1>4, <2>2, <3>1, Zenon
  <2>4. comps[d].since \in Nat /\ ReplaceAfter \in Nat
    BY <2>1, JudgedComponent, ThermalAssumption DEF Component, AssumeConfig
  <2>5. hotSince'[d] # None /\ hotSince'[d] \in Int /\ hotSince'[d] <= comps[d].since
    BY <1>2, <1>3, <2>1, <2>3
  <2>6. QED
    BY <1>1, <2>3, <2>4, <2>5
<1>5. QED
  BY <1>1, <1>2, <1>3, <1>4 DEF HotOK, ReplaceIsEarned

-----------------------------------------------------------------------------
(* Everything else.                                                        *)

\* What every other step leaves of the tracker and of what is told.
TrackerKept == UNCHANGED <<tracker, now, hotSince, told, said, pend>>

LEMMA KeptKeeps ==
  ASSUME IInv, TrackerKept, TrackerType', RecordType'
  PROVE  IInv'
<1>1. UNCHANGED <<comp, written, cooling, now, hotSince, told, said, pend>>
  BY DEF TrackerKept, tracker
<1>2. LimitsNeverRaised' /\ HistoryFresh'
  BY <1>1 DEF IInv, LimitsNeverRaised, HistoryFresh
<1>3. ToldOK'
  BY <1>1 DEF IInv, ToldOK, ToBeTold, ToBeSaid
<1>4. HotOK' /\ ReplaceIsEarned'
  BY <1>1 DEF IInv, HotOK, ReplaceIsEarned
<1>5. QED
  BY <1>2, <1>3, <1>4 DEF IInv

LEMMA InitInv == Init => IInv
<1> SUFFICES ASSUME Init
             PROVE  IInv
  OBVIOUS
<1>1. /\ DOMAIN comp = {} /\ DOMAIN written = {} /\ DOMAIN jobs = {} /\ cooling = None
      /\ DOMAIN pend.drives = {}
  BY DEF Init, NoPass
<1>2. TrackerType
  BY <1>1, ThermalAssumption DEF Init, TrackerType, Opt, AssumeConfig
<1>3. RecordType
  BY <1>1 DEF Init, RecordType, Record, Word
<1>4. LimitsNeverRaised /\ HistoryFresh /\ ToldOK /\ ReplaceIsEarned
  BY <1>1 DEF LimitsNeverRaised, HistoryFresh, ToldOK, ReplaceIsEarned
<1>5. HotOK
  BY <1>1 DEF Init, HotOK
<1>6. QED
  BY <1>2, <1>3, <1>4, <1>5 DEF IInv

LEMMA JudgeKeeps == IInv /\ Judge => IInv'
<1> SUFFICES ASSUME IInv, Judge
             PROVE  IInv'
  OBVIOUS
<1>1. PICK t, comps, rpm : Judged(t, comps, rpm)
  BY JudgeJudges DEF IInv
<1>2. QED
  BY <1>1, JudgedTypes, JudgedHistory, JudgedTold, JudgedHot DEF IInv

\* What was on its way is written: told is what was to be told.
LEMMA WriteKeeps == IInv /\ Write => IInv'
<1> SUFFICES ASSUME IInv, Write
             PROVE  IInv'
  OBVIOUS
<1>1. /\ pend' = NoPass /\ pend'.alarms = << >> /\ pend'.cooling = None /\ DOMAIN pend'.drives = {}
      /\ UNCHANGED <<now, sampled, comp, cooling, written, settings, file, saved, jobs, eng, hotSince>>
  BY DEF Write, NoPass
<1>2. drive' \in [Drives -> Record]
  <2>1. ASSUME NEW d \in Drives
        PROVE  (IF d \in DOMAIN pend.drives THEN [drive[d] EXCEPT !.thermal = pend.drives[d]]
                ELSE drive[d]) \in Record
    BY DEF IInv, RecordType, Record, Word
  <2>2. QED
    BY <2>1 DEF Write
<1>3. TrackerType' /\ RecordType'
  BY <1>1, <1>2 DEF IInv, TrackerType, RecordType
<1>4. LimitsNeverRaised' /\ HistoryFresh' /\ HotOK' /\ ReplaceIsEarned'
  BY <1>1 DEF IInv, LimitsNeverRaised, HistoryFresh, HotOK, ReplaceIsEarned
<1>5. \A i \in Ids : (ToBeTold(i))' = ToBeTold(i)
  BY <1>1 DEF Write, ToBeTold
<1>6. ToBeSaid' = ToBeSaid
  BY <1>1 DEF Write, ToBeSaid
<1>7. ToldOK'
  BY <1>1, <1>5, <1>6 DEF IInv, TrackerType, ToldOK
<1>8. QED
  BY <1>3, <1>4, <1>7 DEF IInv

\* A restart forgets the tracker and what was on its way.
LEMMA RestartKeeps == IInv /\ Restart => IInv'
<1> SUFFICES ASSUME IInv, Restart
             PROVE  IInv'
  OBVIOUS
<1>1. /\ DOMAIN comp' = {} /\ DOMAIN written' = {} /\ DOMAIN jobs' = {} /\ cooling' = None
      /\ DOMAIN pend'.drives = {} /\ settings' = file
      /\ UNCHANGED <<now, sampled, file, saved, eng, hotSince>>
  <2>1. comp' = << >> /\ written' = << >> /\ jobs' = << >> /\ cooling' = None /\ pend' = NoPass
    BY DEF Restart, NewTracker
  <2>2. settings' = file /\ UNCHANGED <<now, sampled, file, saved, eng, hotSince>>
    BY DEF Restart
  <2>3. DOMAIN comp' = {} /\ DOMAIN written' = {} /\ DOMAIN jobs' = {}
    BY <2>1
  <2>4. DOMAIN pend'.drives = {}
    BY <2>1 DEF NoPass
  <2>5. QED
    BY <2>1, <2>2, <2>3, <2>4
<1>2. drive' \in [Drives -> Record]
  BY DEF Restart, IInv, RecordType, Record, Word
<1>3. TrackerType' /\ RecordType'
  BY <1>1, <1>2 DEF IInv, TrackerType, RecordType
<1>4. LimitsNeverRaised' /\ HistoryFresh' /\ ToldOK' /\ ReplaceIsEarned' /\ HotOK'
  BY <1>1 DEF IInv, LimitsNeverRaised, HistoryFresh, ToldOK, ReplaceIsEarned, HotOK
<1>5. QED
  BY <1>3, <1>4 DEF IInv

\* The sampler, the operator, and what neither touches.
LEMMA OutsideKeeps ==
  ASSUME IInv, NEW d \in Drives,
         \/ Sample(d) \/ Pull(d) \/ Leave(d) \/ Join(d) \/ Save \/ Unmute
         \/ \E s \in Puts : PutLimits(s)
  PROVE  IInv'
<1> USE DEF IInv, TrackerType, RecordType
<1>1. TrackerKept
  BY DEF TrackerKept, tracker, Sample, Pull, Leave, Join, Save, Unmute, PutLimits
<1>2. sampled' \in [Drives -> Opt]
  BY ThermalAssumption
  DEF AssumeConfig, Opt, Sample, Pull, Leave, Join, Save, Unmute, PutLimits
<1>3. settings' \in Puts \cup {NoSettings} /\ file' \in Puts \cup {NoSettings}
  BY DEF Sample, Pull, Leave, Join, Save, Unmute, PutLimits
<1>4. drive' \in [Drives -> Record]
  <2>1. CASE Pull(d)
    <3>1. (~drive[d].missing) \in BOOLEAN
      BY Zenon
    <3>2. drive[d] \in Record /\ drive' = [drive EXCEPT ![d] = [drive[d] EXCEPT !.missing = ~drive[d].missing]]
      BY <2>1 DEF Pull
    <3>3. QED
      BY <3>1, <3>2, Zenon DEF Record
  <2>2. CASE Leave(d) \/ Join(d)
    <3>1. PICK b \in BOOLEAN : drive' = [drive EXCEPT ![d] = [drive[d] EXCEPT !.member = b]]
      BY <2>2 DEF Leave, Join
    <3>2. QED
      BY <3>1, Zenon DEF Record
  <2>3. CASE Sample(d) \/ Save \/ Unmute \/ \E s \in Puts : PutLimits(s)
    BY <2>3 DEF Sample, Save, Unmute, PutLimits
  <2>4. QED
    BY <2>1, <2>2, <2>3
<1>5. saved' \in [Drives -> Word] /\ eng' \in [Drives -> Word]
  BY DEF Record, Word, Sample, Pull, Leave, Join, Save, Unmute, PutLimits, pushVars
<1>6. jobs' = jobs
  BY DEF Sample, Pull, Leave, Join, Save, Unmute, PutLimits, pushVars
<1>7. TrackerType'
  BY <1>1, <1>2, <1>3 DEF TrackerKept, tracker
<1>8. RecordType'
  BY <1>1, <1>4, <1>5, <1>6 DEF TrackerKept
<1>9. QED
  BY <1>1, <1>7, <1>8, KeptKeeps

\* The push: only words of records are on their way to the engine.
LEMMA PushKeeps ==
  ASSUME IInv, NEW d \in Drives, PushBegin \/ PushUnsupported \/ PushOk(d) \/ PushFails(d)
  PROVE  IInv'
<1> USE DEF IInv, TrackerType, RecordType
<1>1. TrackerKept /\ UNCHANGED <<sampled, settings, file, saved>>
  BY DEF TrackerKept, tracker, PushBegin, PushUnsupported, PushOk, PushFails
<1>2. \A x \in DOMAIN jobs' : jobs'[x] \in Words
  <2>1. CASE PushBegin
    <3>1. jobs' = [x \in {y \in Drives : PushDue(drive[y])} |-> drive[x].thermal]
      BY <2>1 DEF PushBegin
    <3>2. \A x \in Drives : PushDue(drive[x]) => drive[x].thermal \in Words
      BY DEF PushDue, Record, Word
    <3>3. QED
      BY <3>1, <3>2
  <2>2. CASE PushOk(d) \/ PushFails(d)
    BY <2>2 DEF PushOk, PushFails, WithoutJob
  <2>3. CASE PushUnsupported
    BY <2>3 DEF PushUnsupported
  <2>4. QED
    BY <2>1, <2>2, <2>3
<1>3. drive' \in [Drives -> Record]
  BY DEF PushBegin, PushUnsupported, PushOk, PushFails, Record, Word
<1>4. eng' \in [Drives -> Word]
  BY DEF PushBegin, PushUnsupported, PushOk, PushFails, Word
<1>5. TrackerType'
  BY <1>1 DEF TrackerKept, tracker
<1>6. RecordType'
  BY <1>1, <1>2, <1>3, <1>4 DEF TrackerKept
<1>7. QED
  BY <1>1, <1>5, <1>6, KeptKeeps

LEMMA NextInv == IInv /\ [Next]_vars => IInv'
<1> SUFFICES ASSUME IInv, [Next]_vars
             PROVE  IInv'
  OBVIOUS
<1>1. CASE Judge \/ Write \/ Restart
  BY <1>1, JudgeKeeps, WriteKeeps, RestartKeeps
<1>2. ASSUME NEW d \in Drives, Sample(d) \/ PushOk(d) \/ PushFails(d) \/ Pull(d) \/ Leave(d) \/ Join(d)
      PROVE  IInv'
  BY <1>2, OutsideKeeps, PushKeeps
<1>3. CASE PushBegin
  <2>1. PICK d \in Drives : TRUE
    BY <1>3 DEF PushBegin
  <2>2. QED
    BY <1>3, PushKeeps
<1>4. CASE Save \/ Unmute \/ PushUnsupported \/ \E s \in Puts : PutLimits(s)
  <2>1. CASE Drives # {}
    <3>1. PICK d \in Drives : TRUE
      BY <2>1
    <3>2. QED
      BY <1>4, OutsideKeeps, PushKeeps
  <2>2. CASE Drives = {}
    <3>1. TrackerKept
      BY <1>4 DEF TrackerKept, tracker, Save, Unmute, PushUnsupported, PutLimits
    <3>2. TrackerType'
      BY <1>4, <3>1 DEF TrackerKept, tracker, IInv, TrackerType, Save, Unmute, PushUnsupported, PutLimits
    <3>3. saved' \in [Drives -> Word] /\ drive' = drive /\ eng' = eng /\ (jobs' = jobs \/ jobs' = << >>)
      BY <1>4, <2>2 DEF IInv, RecordType, Save, Unmute, PushUnsupported, PutLimits, pushVars
    <3>4. RecordType'
      BY <3>1, <3>3 DEF TrackerKept, IInv, RecordType
    <3>5. QED
      BY <3>1, <3>2, <3>4, KeptKeeps
  <2>3. QED
    BY <2>1, <2>2
<1>5. CASE UNCHANGED vars
  <2>1. TrackerKept /\ TrackerType' /\ RecordType'
    BY <1>5 DEF vars, TrackerKept, tracker, IInv, TrackerType, RecordType
  <2>2. QED
    BY <2>1, KeptKeeps
<1>6. QED
  BY <1>1, <1>2, <1>3, <1>4, <1>5 DEF Next

-----------------------------------------------------------------------------
\* The invariant is inductive (thermal.rs; fleet.rs, sync_thermal).
THEOREM Invariant == Spec => []IInv
<1>1. QED
  BY InitInv, NextInv, PTL DEF Spec

\* Warning stays below critical, no setting raises a limit a device gives, and
\* no component's history falls behind (thermal.rs, resolve and history_due).
THEOREM LimitsAndHistory == Spec => []ThermalInv
<1>1. IInv => TypeOK
  BY ThermalAssumption DEF IInv, TrackerType, RecordType, TypeOK, Record, Word, AssumeConfig
<1>2. IInv => ThermalInv
  BY <1>1 DEF IInv, ThermalInv
<1>3. QED
  BY <1>2, Invariant, PTL

\* What is hot has been said, over restarts, pulled drives and readings that
\* come and go (thermal.rs, worth_telling and pass).
THEOREM HotTold == Spec => []HotIsTold
<1>1. ASSUME ToldOK, pend = NoPass
      PROVE  /\ \A i \in DOMAIN comp : comp[i].level >= Warning => told[i] = comp[i].level
             /\ cooling # None /\ cooling.request # "auto" => said = cooling.request
  BY <1>1 DEF ToldOK, ToBeTold, ToBeSaid, NoPass
<1>2. IInv => HotIsTold
  BY <1>1 DEF IInv, HotIsTold
<1>3. QED
  BY <1>2, Invariant, PTL

\* A replacement is proposed only of a drive that was critical in every pass of
\* the whole replace_after_mins (thermal.rs, DriveThermal::from_component).
THEOREM ReplacementEarned == Spec => []ReplaceIsEarned
<1>1. IInv => ReplaceIsEarned
  BY DEF IInv
<1>2. QED
  BY <1>1, Invariant, PTL

\* A level is left downwards only below its hysteresis, or without a reading
\* (thermal.rs, level_of).
THEOREM NoFlapping == Spec => LeftOnlyBelow
<1> DEFINE Below == \A i \in DOMAIN comp \cap DOMAIN comp' :
                      (comp'[i].level < comp[i].level /\ comp'[i].level # Unknown) =>
                         comp'[i].temp <= Entry(comp[i].level, comp'[i].limits) - HysteresisC
<1>1. ASSUME IInv, [Next]_vars
      PROVE  [Below]_comp
  <2>1. CASE Judge
    <3>1. PICK t, comps, rpm : Judged(t, comps, rpm)
      BY <1>1, <2>1, JudgeJudges DEF IInv
    <3>2. comp' = comps
      BY <3>1 DEF Judged
    <3>3. QED
      BY <1>1, <3>1, <3>2, JudgedComponent DEF IInv
  <2>2. CASE Restart
    <3>1. comp' = << >>
      BY <2>2 DEF Restart, NewTracker
    <3>2. DOMAIN comp' = {}
      BY <3>1
    <3>3. Below
      BY <3>2
    <3>4. QED
      BY <3>3
  <2>3. CASE ~Judge /\ ~Restart
    <3>1. comp' = comp
      BY <1>1, <2>3 DEF Next, vars, tracker, Write, PutLimits, PushBegin, PushUnsupported, Unmute, Save,
                        Sample, PushOk, PushFails, Pull, Leave, Join
    <3>2. QED
      BY <3>1
  <2>4. QED
    BY <2>1, <2>2, <2>3
<1>2. QED
  BY <1>1, Invariant, PTL DEF Spec, LeftOnlyBelow
=============================================================================
