------------------------------- MODULE Thermal -------------------------------
(***************************************************************************)
(* Thermal management: src/thermal.rs, the limits endpoint of the REST API *)
(* (src/api/mod.rs) and the thermal push of the fleet tick (src/fleet.rs). *)
(*                                                                         *)
(* Every interval one pass reads every sensor, resolves its limits, moves  *)
(* its level, and writes what a hot drive asks of the engine to the        *)
(* drive's record; the fleet tick tells the engine when that changed.  The *)
(* pass and the push are two tasks that meet in the drive's record; the    *)
(* operator changes the limits between passes; the daemon restarts.        *)
(*                                                                         *)
(* Degrees are integers (the code's are f64; no property tells a fraction  *)
(* of a degree apart).  What sysfs holds is an input of the pass.          *)
(***************************************************************************)
EXTENDS Integers, FiniteSets

CONSTANTS
  None,          \* an absent value: no reading, no limit, nothing told
  Drives,        \* the drives with a record in the inventory
  Chips,         \* the temperature sensors of the hwmon chips
  Elements,      \* the temperature elements of one shelf's SES report
  Through,       \* that shelf is reported through another one
  Fans,          \* the node's fans: [id, min, flagged]
  OwnLimits,     \* drive -> the limits its own hwmon chip gives
  SmartLimits,   \* drive -> the limits the health sampler found
  DriveDefault,  \* config: monitor.temp_warn_c and temp_crit_c
  NearC, HysteresisC, ReplaceAfter, Heartbeat,   \* config: [thermal]
  Puts,          \* the live settings the operator may put
  Temps,         \* component -> the temperatures it may show (None: no reading)
  Samples,       \* the temperatures the health sampler may find
  Rpms,          \* the speeds a fan may show
  MaxTime,       \* bound: the clock stops there
  Budgets        \* how often each kind of trouble may strike: one of these

Trouble == {"restart", "save", "pull", "leave", "put", "fail", "lost", "unsupported"}
Classes == {"drive", "cpu", "dimm", "hba", "nic", "gpu", "chipset", "board",
            "psu", "inlet", "exhaust", "shelf", "other"}
Degrees == 0..150
DeviceLimits == [warn : Int \cup {None}, crit : Int \cup {None}]
LimitSetting == [warn : Degrees \cup {None}, crit : Degrees \cup {None}]

ChipNames == {"nvme", "drivetemp", "cpu", "dimm", "gpu", "chipset", "nic",
              "hba", "psu", "board", "unknown"}
ChipLabels == {"inlet", "exhaust", "cpu", "plain"}

VARIABLES
  now,        \* the clock, in pass intervals
  sampled,    \* drive -> the health sampler's latest temperature
  comp,       \* the tracker: component -> its state after the last pass
  fan,        \* the tracker: fan -> the speed it last showed
  cooling,    \* the tracker: the request to the BMC and since when
  written,    \* the tracker: component or fan -> what the history last said
  settings,   \* the live limit settings
  file,       \* thermal-limits.json
  drive,      \* the inventory's records of the drives
  saved,      \* the drives' thermal states in the inventory file
  pend,       \* a pass judged and not yet written to records and events
  jobs,       \* the push: what is left of its snapshot
  muted,      \* the push: the engine has no thermal route, wait
  eng,        \* what the engine holds of each drive (external)
  told,       \* history: the last alarm said of a component, None when over
  said,       \* history: the last cooling request said
  hotSince,   \* history: the first of the unbroken critical passes
  budget      \* what is left of the budget

tracker == <<comp, fan, cooling, written>>
pushVars == <<jobs, muted, eng>>
vars == <<now, sampled, comp, fan, cooling, written, settings, file, drive, saved,
          pend, jobs, muted, eng, told, said, hotSince, budget>>

----------------------------------------------------------------------------
(* Limits.                                                                 *)

\* Class::default_limits, in degrees.
DefaultLimits == [
  drive |-> DriveDefault, cpu |-> [warn |-> 85, crit |-> 95],
  dimm |-> [warn |-> 80, crit |-> 90], hba |-> [warn |-> 85, crit |-> 100],
  nic |-> [warn |-> 90, crit |-> 105], gpu |-> [warn |-> 85, crit |-> 95],
  chipset |-> [warn |-> 80, crit |-> 95], board |-> [warn |-> 70, crit |-> 85],
  psu |-> [warn |-> 70, crit |-> 85], inlet |-> [warn |-> 35, crit |-> 42],
  exhaust |-> [warn |-> 60, crit |-> 70], shelf |-> [warn |-> 50, crit |-> 60],
  other |-> [warn |-> 80, crit |-> 95]]

Plausible(v) == IF v # None /\ v \in 1..150 THEN v ELSE None

\* DeviceLimits::sane: a placeholder is no limit, a warning not below the
\* critical limit is none either.
Sane(dev) ==
  LET w == Plausible(dev.warn)
      c == Plausible(dev.crit)
  IN  [warn |-> IF w # None /\ c # None /\ w >= c THEN None ELSE w, crit |-> c]

ValidSetting(s) == (s.warn # None /\ s.crit # None) => s.warn < s.crit

Or(v, w) == IF v # None THEN v ELSE w

\* setting_for: a component's own setting over its class's.
SettingFor(s, id, class) ==
  [warn |-> Or(s.components[id].warn, s.classes[class].warn),
   crit |-> Or(s.components[id].crit, s.classes[class].crit)]

DerivedGap == 5

\* Mutants are the definitions a plausible slip in the code would make.
PickLimitOver(dev, set, base) == Or(set, Or(dev, base))

\* The device first; a setting fills what it does not give and may lower
\* what it does; else the class default.
PickLimit(dev, set, base) ==
  IF dev # None THEN IF set # None /\ set < dev THEN set ELSE dev ELSE Or(set, base)

Resolve(device, set, base) ==
  LET dev  == Sane(device)
      crit == PickLimit(dev.crit, set.crit, base.crit)
      derived == /\ dev.warn = None /\ set.warn = None /\ dev.crit # None
                 /\ base.warn > crit - DerivedGap
      warn == IF derived THEN crit - DerivedGap ELSE PickLimit(dev.warn, set.warn, base.warn)
  IN  [warn |-> IF warn >= crit THEN crit - DerivedGap ELSE warn, crit |-> crit]

----------------------------------------------------------------------------
(* Levels.                                                                 *)

Unknown == 0
Ok == 1
Near == 2
Warning == 3
Critical == 4
Levels == Unknown..Critical

\* Where a level is entered.
Entry(at, l) == CASE at = Critical -> l.crit
                  [] at = Warning -> l.warn
                  [] at = Near -> l.warn - NearC

LevelOfFlat(prev, t, l) ==
  IF t = None THEN Unknown
  ELSE IF t >= l.crit THEN Critical
  ELSE IF t >= l.warn THEN Warning
  ELSE IF t >= l.warn - NearC THEN Near ELSE Ok

LevelOf(prev, t, l) ==
  LET held(at) == t >= Entry(at, l) \/ (prev >= at /\ t > Entry(at, l) - HysteresisC)
  IN  CASE t = None -> Unknown
        [] t # None /\ held(Critical) -> Critical
        [] t # None /\ ~held(Critical) /\ held(Warning) -> Warning
        [] t # None /\ ~held(Critical) /\ ~held(Warning) /\ held(Near) -> Near
        [] OTHER -> Ok

WorthTellingKnown(from, to) == from # Unknown /\ to # from /\ (to >= Warning \/ from >= Warning)

\* Alert::worth_telling
WorthTelling(from, to) == \/ to > from /\ to >= Warning
                          \/ to < from /\ from >= Warning /\ to # Unknown

----------------------------------------------------------------------------
(* What a pass reads.                                                      *)

\* hwmon_class: by the sensor's label, then by its chip, then by what the
\* chip hangs off; a drive's own chip is read with its drive ("none").
HwmonClass(c) ==
  CASE c.label \in {"inlet", "exhaust"} -> c.label
    [] c.label \notin {"inlet", "exhaust"} /\ c.chip \in {"nvme", "drivetemp"} -> "none"
    [] c.label \notin {"inlet", "exhaust"} /\ c.chip \in {"cpu", "dimm", "gpu", "chipset"} -> c.chip
    [] OTHER -> IF c.net \/ c.chip = "nic" THEN "nic"
                ELSE IF c.scsi \/ c.chip = "hba" THEN "hba"
                ELSE IF c.chip \in {"psu", "board"} THEN c.chip
                ELSE IF c.label = "cpu" THEN "cpu" ELSE "other"

HwmonReadings(temp) ==
  {[id |-> c.id, class |-> HwmonClass(c), temp |-> temp[c.id], device |-> c.limits] :
     c \in {x \in Chips : HwmonClass(x) # "none"}}

ShelfReadings(temp) ==
  {[id |-> e.id, class |-> "shelf", temp |-> temp[e.id], device |-> e.limits] :
     e \in {x \in Elements : /\ ~Through /\ ~x.overall
                             /\ x.status \notin {"not_installed", "unsupported"}}}

\* drive_reading: its own chip when it was read fresh, else the sampler's.
DriveReading(d, fresh) ==
  LET chip == OwnLimits[d]
      own  == fresh # None /\ (Sane(chip).warn # None \/ Sane(chip).crit # None)
  IN  [id |-> d, class |-> "drive", temp |-> Or(fresh, sampled[d]),
       device |-> IF own THEN Sane(chip) ELSE SmartLimits[d]]

\* The drives the scan has not lost, and every sensor of the node.
Present == {d \in Drives : ~drive[d].missing}
Readings(temp) == HwmonReadings(temp) \cup ShelfReadings(temp)
                    \cup {DriveReading(d, temp[d]) : d \in Present}
Ids == Drives \cup {c.id : c \in Chips} \cup {e.id : e \in Elements}

FanProblem(f, rpm) == f.flagged \/ (rpm # None /\ f.min # 0 /\ rpm < f.min)

----------------------------------------------------------------------------
(* The state of a component, of a drive, of the tracker.                   *)

TrackedSinceHot(r, t) ==
  LET l == Resolve(r.device, SettingFor(settings, r.id, r.class), DefaultLimits[r.class])
      known == r.id \in DOMAIN comp
      prev == IF known THEN comp[r.id].level ELSE Unknown
      level == LevelOf(prev, r.temp, l)
  IN  [class |-> r.class, temp |-> r.temp, limits |-> l, device |-> Sane(r.device), level |-> level,
       since |-> IF known /\ prev >= Warning /\ level >= Warning THEN comp[r.id].since ELSE t]

\* Tracker::pass, for one reading.
Tracked(r, t) ==
  LET l == Resolve(r.device, SettingFor(settings, r.id, r.class), DefaultLimits[r.class])
      known == r.id \in DOMAIN comp
      prev == IF known THEN comp[r.id].level ELSE Unknown
      level == LevelOf(prev, r.temp, l)
  IN  [class |-> r.class, temp |-> r.temp, limits |-> l, device |-> Sane(r.device), level |-> level,
       since |-> IF known /\ prev = level THEN comp[r.id].since ELSE t]

CoolingFor(comps, rpm) ==
  IF \E i \in DOMAIN comps : comps[i].level = Critical THEN "max"
  ELSE IF \/ \E i \in DOMAIN comps : comps[i].level >= Near
          \/ \E f \in Fans : FanProblem(f, rpm[f.id]) THEN "raise"
  ELSE "auto"

\* DriveThermal::from_component
DriveThermal(c, t) == [level |-> c.level,
                       throttle |-> c.level >= Warning,
                       exclude |-> c.level = Critical,
                       replace |-> c.level = Critical /\ t - c.since >= ReplaceAfter]

\* What a drive's record asks of the engine, if anything.
Asks(t) == t.throttle \/ t.exclude \/ t.replace

CompDueLate(i, c, t) ==
  \/ i \notin DOMAIN written
  \/ written[i].level # c.level
  \/ t - written[i].at > Heartbeat
  \/ written[i].value # c.temp

\* history_due: new, changed (a degree, a level, a tenth of a fan's speed)
\* or not written for a heartbeat.
CompDue(i, c, t) ==
  \/ i \notin DOMAIN written
  \/ written[i].level # c.level
  \/ t - written[i].at >= Heartbeat
  \/ written[i].value # c.temp

Far(a, b) == IF a = None \/ b = None THEN a # b
             ELSE (IF a > b THEN a - b ELSE b - a) * 10 >= (IF a > 1 THEN a ELSE 1)

FanDue(i, rpm, t) ==
  \/ i \notin DOMAIN written
  \/ t - written[i].at >= Heartbeat
  \/ Far(written[i].value, rpm)

\* The history after the line of this pass; what is gone is forgotten.
WrittenAfter(comps, rpm, t) ==
  [i \in DOMAIN comps \cup DOMAIN rpm |->
     IF i \in DOMAIN comps
     THEN IF CompDue(i, comps[i], t)
          THEN [value |-> comps[i].temp, level |-> comps[i].level, at |-> t] ELSE written[i]
     ELSE IF FanDue(i, rpm[i], t)
          THEN [value |-> rpm[i], level |-> Unknown, at |-> t] ELSE written[i]]

----------------------------------------------------------------------------
NoPass == [drives |-> << >>, alarms |-> << >>, cooling |-> None]

Spend(kind) == budget[kind] > 0 /\ budget' = [budget EXCEPT ![kind] = @ - 1]

AssumeConfig ==
  /\ None \notin Int
  /\ DriveDefault \in [warn : Int, crit : Int] /\ DriveDefault.warn < DriveDefault.crit
  /\ OwnLimits \in [Drives -> DeviceLimits] /\ SmartLimits \in [Drives -> DeviceLimits]
  /\ \A c \in Chips : c.limits \in DeviceLimits /\ c.chip \in ChipNames /\ c.label \in ChipLabels
  /\ \A e \in Elements : e.limits \in DeviceLimits
  /\ NearC \in Nat /\ HysteresisC \in Nat /\ ReplaceAfter \in Nat /\ Heartbeat \in Nat \ {0}
  /\ \A s \in Puts : /\ s.classes \in [Classes -> LimitSetting]
                     /\ s.components \in [Ids -> LimitSetting]
  /\ Budgets \subseteq [Trouble -> Nat]
  /\ MaxTime \in Nat
  /\ \A i \in Ids : Temps[i] \subseteq Int \cup {None}
  /\ Samples \subseteq Int \cup {None}
ASSUME ThermalAssumption == AssumeConfig
ASSUME NoneAssumption == None \notin {"max", "raise", "auto"}

NoSetting == [warn |-> None, crit |-> None]
NoSettings == [classes |-> [c \in Classes |-> NoSetting],
               components |-> [i \in Ids |-> NoSetting]]

NewTracker ==
  /\ comp' = << >> /\ fan' = << >> /\ cooling' = None /\ written' = << >>

Init ==
  /\ now = 0
  /\ sampled = [d \in Drives |-> None]
  /\ comp = << >> /\ fan = << >> /\ cooling = None /\ written = << >>
  /\ settings = NoSettings /\ file = NoSettings
  /\ drive = [d \in Drives |-> [thermal |-> None, pushed |-> None, missing |-> FALSE, member |-> TRUE]]
  /\ saved = [d \in Drives |-> None]
  /\ pend = NoPass
  /\ jobs = << >> /\ muted = FALSE
  /\ eng = [d \in Drives |-> None]
  /\ told = [i \in Ids |-> None] /\ said = None
  /\ hotSince = [i \in Ids |-> None]
  /\ budget \in Budgets

----------------------------------------------------------------------------
(* The pass.                                                               *)

\* The health sampler reads a drive.
Sample(d) ==
  /\ ~drive[d].missing
  /\ \E t \in Samples : sampled' = [sampled EXCEPT ![d] = t]
  /\ UNCHANGED <<now, comp, fan, cooling, written, settings, file, drive, saved, pend,
                 jobs, muted, eng, told, said, hotSince, budget>>

\* pass, up to the release of the tracker's lock: read, resolve, judge,
\* and take along what is to be written elsewhere.
Judge ==
  /\ pend = NoPass
  /\ \E temp \in [Ids -> UNION {Temps[i] : i \in Ids}], rpm \in [{f.id : f \in Fans} -> Rpms] :
       /\ \A i \in Ids : temp[i] \in Temps[i]
       /\ \A d \in Drives : drive[d].missing => temp[d] = None
       /\ LET t  == IF now < MaxTime THEN now + 1 ELSE now
              rs == Readings(temp)
              of(i) == CHOOSE r \in rs : r.id = i
              comps == [i \in {r.id : r \in rs} |-> Tracked(of(i), t)]
              before(i) == IF i \in DOMAIN comp THEN comp[i].level ELSE Unknown
              request == CoolingFor(comps, rpm)
          IN  /\ now' = t
              /\ comp' = comps
              /\ fan' = rpm
              /\ written' = WrittenAfter(comps, rpm, t)
              /\ cooling' = [request |-> request,
                             since |-> IF cooling # None /\ cooling.request = request
                                       THEN cooling.since ELSE t]
              /\ pend' = [drives |-> [d \in Drives \cap DOMAIN comps |-> DriveThermal(comps[d], t)],
                          alarms |-> [i \in {j \in DOMAIN comps : WorthTelling(before(j), comps[j].level)}
                                        |-> comps[i].level],
                          cooling |-> IF \/ cooling # None /\ cooling.request = request
                                         \/ cooling = None /\ request = "auto"
                                      THEN None ELSE request]
              /\ hotSince' = [i \in Ids |->
                   IF i \in DOMAIN comps /\ comps[i].level = Critical
                   THEN Or(hotSince[i], t) ELSE None]
  /\ UNCHANGED <<sampled, settings, file, drive, saved, jobs, muted, eng, told, said, budget>>

\* The rest of the pass: the drives' records, then the events.
Write ==
  /\ pend # NoPass
  /\ drive' = [d \in Drives |-> IF d \in DOMAIN pend.drives
                                THEN [drive[d] EXCEPT !.thermal = pend.drives[d]] ELSE drive[d]]
  /\ told' = [i \in Ids |-> IF i \in DOMAIN pend.alarms
                            THEN IF pend.alarms[i] >= Warning THEN pend.alarms[i] ELSE None
                            ELSE told[i]]
  /\ said' = IF pend.cooling # None THEN pend.cooling ELSE said
  /\ pend' = NoPass
  /\ UNCHANGED <<now, sampled, comp, fan, cooling, written, settings, file, saved,
                 jobs, muted, eng, hotSince, budget>>

\* set_thermal_limits: in force at once, and kept when the file can be
\* written; a failed save answers an error and leaves them in force.
PutLimits(s) ==
  /\ Spend("put")
  /\ \A c \in Classes : ValidSetting(s.classes[c])
  /\ \A i \in Ids : ValidSetting(s.components[i])
  /\ settings' = s
  /\ file' \in {file, s}
  /\ UNCHANGED <<now, sampled, comp, fan, cooling, written, drive, saved, pend,
                 jobs, muted, eng, told, said, hotSince>>

----------------------------------------------------------------------------
(* The push: sync_thermal, once a fleet tick.                              *)

PushDueLevel(r) == /\ r.member /\ ~r.missing /\ r.thermal # None
                   /\ IF r.pushed = None THEN Asks(r.thermal) ELSE r.pushed.level # r.thermal.level

\* thermal_push_due
PushDue(r) == /\ r.member /\ ~r.missing /\ r.thermal # None
              /\ IF r.pushed = None THEN Asks(r.thermal) ELSE r.pushed # r.thermal

PushBegin ==
  /\ jobs = << >> /\ ~muted
  /\ \E d \in Drives : PushDue(drive[d])
  /\ jobs' = [d \in {x \in Drives : PushDue(drive[x])} |-> drive[d].thermal]
  /\ UNCHANGED <<tracker, now, sampled, settings, file, drive, saved, pend, muted, eng,
                 told, said, hotSince, budget>>

WithoutJob(d) == [x \in DOMAIN jobs \ {d} |-> jobs[x]]

\* The engine takes it and its answer arrives; or it takes it and the
\* answer is lost; or it does not.
PushOk(d) ==
  /\ d \in DOMAIN jobs
  /\ eng' = [eng EXCEPT ![d] = jobs[d]]
  /\ drive' = [drive EXCEPT ![d].pushed = jobs[d]]
  /\ jobs' = WithoutJob(d)
  /\ UNCHANGED <<tracker, now, sampled, settings, file, saved, pend, muted, told, said,
                 hotSince, budget>>

PushFails(d) ==
  /\ d \in DOMAIN jobs
  /\ \/ Spend("lost") /\ eng' = [eng EXCEPT ![d] = jobs[d]]
     \/ Spend("fail") /\ UNCHANGED eng
  /\ jobs' = WithoutJob(d)
  /\ UNCHANGED <<tracker, now, sampled, settings, file, drive, saved, pend, muted, told,
                 said, hotSince>>

\* An engine without the route: nothing more is tried until a timer ends.
PushUnsupported ==
  /\ jobs # << >>
  /\ Spend("unsupported")
  /\ jobs' = << >> /\ muted' = TRUE
  /\ UNCHANGED <<tracker, now, sampled, settings, file, drive, saved, pend, eng, told, said,
                 hotSince>>

Unmute ==
  /\ muted
  /\ muted' = FALSE
  /\ UNCHANGED <<tracker, now, sampled, settings, file, drive, saved, pend, jobs, eng, told,
                 said, hotSince, budget>>

----------------------------------------------------------------------------
(* The rest of the daemon and the world.                                   *)

\* The scan loses a drive, and finds it again.
Pull(d) ==
  /\ IF drive[d].missing THEN UNCHANGED budget ELSE Spend("pull")
  /\ drive' = [drive EXCEPT ![d].missing = ~@]
  /\ UNCHANGED <<tracker, now, sampled, settings, file, saved, pend, pushVars, told, said,
                 hotSince>>

\* The drive leaves the fleet (the engine closes it and forgets) and joins
\* again: poll_drains, join_drive.  Neither touches pushed_thermal.
Leave(d) ==
  /\ drive[d].member
  /\ Spend("leave")
  /\ drive' = [drive EXCEPT ![d].member = FALSE]
  /\ eng' = [eng EXCEPT ![d] = None]
  /\ UNCHANGED <<tracker, now, sampled, settings, file, saved, pend, jobs, muted, told,
                 said, hotSince>>

Join(d) ==
  /\ ~drive[d].member
  /\ drive' = [drive EXCEPT ![d].member = TRUE]
  /\ UNCHANGED <<tracker, now, sampled, settings, file, saved, pend, pushVars, told, said,
                 hotSince, budget>>

\* The inventory file is written.
Save ==
  /\ Spend("save")
  /\ saved' = [d \in Drives |-> drive[d].thermal]
  /\ UNCHANGED <<tracker, now, sampled, settings, file, drive, pend, pushVars, told, said,
                 hotSince>>

\* A restart: the tracker and what was pushed are not kept.
Restart ==
  /\ Spend("restart")
  /\ NewTracker
  /\ settings' = file
  /\ drive' = [d \in Drives |-> [drive[d] EXCEPT !.thermal = saved[d], !.pushed = None]]
  /\ pend' = NoPass /\ jobs' = << >> /\ muted' = FALSE
  /\ UNCHANGED <<now, sampled, file, saved, eng, told, said, hotSince>>

Next ==
  \/ Judge \/ Write
  \/ \E s \in Puts : PutLimits(s)
  \/ PushBegin \/ PushUnsupported \/ Unmute
  \/ Save \/ Restart
  \/ \E d \in Drives : \/ Sample(d) \/ PushOk(d) \/ PushFails(d)
                       \/ Pull(d) \/ Leave(d) \/ Join(d)

Spec == Init /\ [][Next]_vars

\* The daemon's loops go round, a call that has not failed is answered, the
\* inventory is saved, the timer ends.
FairSpec ==
  /\ Spec
  /\ WF_vars(Write) /\ WF_vars(PushBegin) /\ WF_vars(Unmute)
  /\ \A d \in Drives : WF_vars(PushOk(d))

----------------------------------------------------------------------------
(* What must hold.                                                         *)

Words == [level : Levels, throttle : BOOLEAN, exclude : BOOLEAN, replace : BOOLEAN]
Asking == {w \in Words : Asks(w) /\ w.throttle /\ (w.exclude <=> w.level = Critical) /\ (w.replace => w.exclude) /\ w.level >= Warning}
Component == [class : Classes, temp : Int \cup {None}, limits : [warn : Int, crit : Int],
              device : DeviceLimits, level : Levels, since : Nat]

\* Every variable keeps its type.
TypeOK ==
  /\ now \in 0..MaxTime
  /\ DOMAIN comp \subseteq Ids /\ \A i \in DOMAIN comp : comp[i] \in Component
  /\ \A d \in Drives : /\ drive[d].thermal \in Words \cup {None}
                       /\ drive[d].pushed \in Words \cup {None}
                       /\ eng[d] \in Words \cup {None}
  /\ settings \in Puts \cup {NoSettings} /\ file \in Puts \cup {NoSettings}

\* Warning stays below critical, and no setting raises a limit the device
\* itself gives (thermal.rs resolve: "may lower what it does, never raise
\* it"), whatever is put and whichever source a drive's limits come from.
LimitsNeverRaised ==
  \A i \in DOMAIN comp :
    LET c == comp[i] IN
    /\ c.limits.warn < c.limits.crit
    /\ c.device.warn # None => c.limits.warn <= c.device.warn
    /\ c.device.crit # None => c.limits.crit <= c.device.crit

\* After a pass the history's last word on every component is its level
\* and temperature, and no older than a heartbeat (history_due).
HistoryFresh ==
  \A i \in DOMAIN comp : /\ i \in DOMAIN written
                         /\ written[i].level = comp[i].level
                         /\ written[i].value = comp[i].temp
                         /\ now - written[i].at < Heartbeat

\* All three: no limit is raised, and no component's history falls behind.
ThermalInv == TypeOK /\ LimitsNeverRaised /\ HistoryFresh

\* What is hot has been said: once a pass is through, the last alarm told
\* of a component at warning or critical is that level, and a cooling
\* request that is not auto is the last one told, over restarts, pulled
\* drives and readings that come and go.
HotIsTold ==
  pend = NoPass =>
    /\ \A i \in DOMAIN comp : comp[i].level >= Warning => told[i] = comp[i].level
    /\ cooling # None /\ cooling.request # "auto" => said = cooling.request

\* A replacement is proposed only of a drive that was at critical in every
\* pass of the whole replace_after_mins, however its limits, its source of
\* readings or its presence changed meanwhile.
ReplaceIsEarned ==
  \A d \in DOMAIN pend.drives :
    pend.drives[d].replace => hotSince[d] # None /\ now - hotSince[d] >= ReplaceAfter

\* A level is left downwards only at hysteresis_c below where it is
\* entered, or without a reading: a reading on the line does not flap.
LeftOnlyBelow ==
  [][\A i \in DOMAIN comp \cap DOMAIN comp' :
       (comp'[i].level < comp[i].level /\ comp'[i].level # Unknown) =>
          comp'[i].temp <= Entry(comp[i].level, comp'[i].limits) - HysteresisC]_comp

\* A drive that stays in the fleet and keeps asking something of the engine
\* gets through to it: sync_thermal repeats what was not accepted.  It is
\* promised only while the record does not claim a word the engine does not
\* hold, which a lost answer or a drive that left and joined again cause.
EngineIsTold ==
  \A d \in Drives, w \in Asking :
    <>[](/\ drive[d].member /\ ~drive[d].missing /\ drive[d].thermal = w
         /\ drive[d].pushed \in {None, eng[d]})
      => <>[](eng[d] = w)

\* What the engine holds against a drive is taken back when the drive is
\* cool again: "A drive that is cool and was never pushed is not sent
\* (nothing to undo)" (fleet.rs:139).
NothingToUndo ==
  \A d \in Drives :
    <>[](drive[d].member /\ ~drive[d].missing /\ drive[d].thermal # None /\ ~Asks(drive[d].thermal))
      => <>[](eng[d] = None \/ ~Asks(eng[d]))
=============================================================================
