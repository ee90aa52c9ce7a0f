------------------------------ MODULE Actions ------------------------------
(***************************************************************************)
(* What may be done to a drive: the buttons of its card (components.rs,    *)
(* drive_among), the handlers that take or refuse them (api/mod.rs) by the *)
(* rules of the drive record (drive.rs, inuse.rs), and the tests they      *)
(* start (drivetest.rs), while scans, health verdicts, other requests and  *)
(* a restart change the drive.  Low-level jobs are Worker's, the drain of  *)
(* a fleet drive is Fleet's.                                               *)
(***************************************************************************)
EXTENDS Absent, Naturals, FiniteSets

CONSTANTS Asks,                \* requests
          Regions, MaxErrors,  \* reads of a test; errors at which a scan stops
          Starts,              \* the drive's record and the world at first
          Wanted               \* what the requests may ask

\* A drive's record, and the disk: whether it is there, and what may still happen to it.
DriveStates == [fleet : BOOLEAN, desig : {"none", "spare", "failed", "reserved", "system"},
                activity : {"idle", "testing", "formatting", "missing"}, health : {"unknown", "good", "warning", "failing"},
                usable : BOOLEAN, hot : BOOLEAN, slab : {"none", "fs", "member", "system", "raid", "data"},
                mounted : BOOLEAN, enrolable : BOOLEAN, nvme : BOOLEAN]
DiskStates == [slab : {"none", "fs", "member", "system", "raid", "data"}, mounted : BOOLEAN, usable : BOOLEAN,
               here : BOOLEAN, nvme : BOOLEAN, bad : Nat, changes : Nat, restarts : Nat]
\* No test runs at first.
ASSUME StartsAssumption ==
    /\ None \notin Asks \union DriveStates /\ MaxErrors \in Nat \ {0}
    /\ Wanted \subseteq {"acknowledge", "locate", "join", "leave", "cancel", "smoke", "destructive", "enroll", "format",
                          "forget", "spare", "failed", "system", "clear"}
    /\ \A s \in Starts : s.record \in DriveStates /\ s.record.activity # "testing" /\ s.disk \in DiskStates

VARIABLES d,        \* the drive's record
          disk,     \* what is on the disk, its presence and bound on outside changes
          ask,      \* per request: "none", "go" (taken, not begun), "works" or "over"; and what
          test,     \* per request: the run of its test
          shown,    \* the test in AppState.tests, or None
          excused   \* history: two requests overlapped, or the disk changed or left meanwhile

actvars == <<d, disk, ask, test, shown, excused>>

(***************************************************************************)
(* The rules.  d.slab is what the last scan found: "none", "fs" (known but *)
(* nobody's), or who holds it.                                             *)
(***************************************************************************)
Held(slab) == slab \notin {"none", "fs"}
\* inuse::of: the first that holds.
Use(r) == CASE r.slab \in {"system", "raid", "data"} -> r.slab
            [] r.fleet \/ r.slab = "member" -> "slab_member"
            [] r.mounted -> "mounted"
            [] OTHER -> "free"
InUse(r) == Use(r) # "free"

JoinBlocked(r) ==
    \/ r.fleet \/ r.desig \in {"failed", "reserved", "system"} \/ r.activity # "idle"
    \/ r.health = "failing" \/ Held(r.slab) \/ ~r.usable
AckBlocked(r) == r.health # "warning"
DesignationBlocked(r, to) ==
    /\ to # r.desig
    /\ \/ to = "system" /\ (r.fleet \/ (InUse(r) /\ Use(r) # "system"))
       \/ to = "failed" /\ Use(r) = "system"
TestAnyway(r) == r.desig = "system" \/ r.activity # "idle" \/ ~r.usable \* mutant: whoever uses it
DestructiveTestBlocked(r) == InUse(r) \/ r.desig = "system" \/ r.activity # "idle" \/ ~r.usable
OfferBlocked(r) ==
    \/ r.fleet \/ r.activity # "idle" \/ r.desig # "none" \/ r.health \in {"unknown", "failing"}
    \/ ~r.usable \/ r.hot \/ r.slab # "none"
FormatBlocked(r) ==
    InUse(r) \/ r.activity # "idle" \/ r.desig \in {"reserved", "system"} \/ r.nvme

(***************************************************************************)
(* The card and the handlers.                                              *)
(***************************************************************************)
Missing(r) == r.activity = "missing"
Idle(r) == r.activity = "idle"

Offered(r) == {a \in Wanted :
    CASE a = "acknowledge" -> ~AckBlocked(r)
      [] a = "locate" -> ~Missing(r)
      [] a = "join" -> ~r.fleet /\ Idle(r) /\ ~JoinBlocked(r)
      [] a = "leave" -> r.fleet /\ Idle(r)
      [] a = "cancel" -> r.activity = "testing"
      [] a = "smoke" -> Idle(r)
      [] a = "destructive" -> Idle(r) /\ ~DestructiveTestBlocked(r)
      [] a = "enroll" -> ~r.fleet /\ r.enrolable /\ ~Missing(r)
      [] a = "format" -> ~FormatBlocked(r) /\ ~Missing(r)
      [] a = "forget" -> Missing(r) /\ ~r.fleet
      [] a = "spare" -> r.desig # "spare"
      [] a = "failed" -> r.desig # "failed" /\ ~DesignationBlocked(r, "failed")
      [] a = "system" -> r.desig # "system" /\ ~DesignationBlocked(r, "system")
      [] a = "clear" -> r.desig # "none"}

\* By the record as it is now.
Refuses(a, r) ==
    CASE a = "acknowledge" -> AckBlocked(r)
      [] a = "locate" -> FALSE
      [] a = "join" -> JoinBlocked(r)
      [] a = "leave" -> ~r.fleet
      [] a = "cancel" -> shown = None \/ (shown # None => test[shown].state # "running")
      [] a = "smoke" -> ~Idle(r)
      [] a = "destructive" -> ~Idle(r) \/ DestructiveTestBlocked(r)
      [] a = "enroll" -> OfferBlocked(r)
      [] a = "format" -> FormatBlocked(r)
      [] a = "forget" -> ~Missing(r) \/ r.fleet
      [] a \in {"spare", "failed", "system"} -> DesignationBlocked(r, a)
      [] a = "clear" -> DesignationBlocked(r, "none")
\* By a look at the disk: contents::probe and is_mounted.
NoLook(a) == FALSE \* mutant: the record is enough
LookRefuses(a) ==
    \/ a \in {"join", "destructive", "format"} /\ Held(disk.slab)
    \/ a \in {"destructive", "format"} /\ disk.mounted

Destroys == {"destructive", "format"}
Tests == {"smoke", "destructive"}
NoTest == [state |-> "none", cancel |-> FALSE, at |-> 0, errors |-> 0]

AInit ==
    /\ \E s \in Starts : d = s.record /\ disk = s.disk
    /\ ask = [q \in Asks |-> [pc |-> "none", what |-> "none"]]
    /\ test = [q \in Asks |-> NoTest]
    /\ shown = None /\ excused = FALSE

Pending == \E q \in Asks : ask[q].pc \in {"go", "works"}
To(q, pc, a) == ask' = [ask EXCEPT ![q] = [pc |-> pc, what |-> a]]

\* A request whose handler checks and changes under one lock, or changes nothing here.
AtOnce(q, a) ==
    /\ ask[q].pc = "none" /\ a \in Wanted \ (Tests \union {"format", "join", "leave"})
    /\ d # None
    /\ ~Refuses(a, d)
    /\ d' = CASE a \in {"spare", "failed", "system"} -> [d EXCEPT !.desig = a]
              [] a = "clear" -> [d EXCEPT !.desig = "none"]
              [] a = "forget" -> None
              [] OTHER -> d
    /\ test' = IF a = "cancel" THEN [test EXCEPT ![shown].cancel = TRUE] ELSE test
    /\ To(q, "over", a)
    /\ UNCHANGED <<disk, shown, excused>>

\* The others take the drive as it is, and begin after more locks and awaits.
Take(q, a) ==
    /\ ask[q].pc = "none" /\ a \in Wanted \cap (Tests \union {"format", "join", "leave"})
    /\ d # None
    /\ ~Refuses(a, d) /\ ~LookRefuses(a)
    /\ To(q, "go", a)
    /\ excused' = (excused \/ Pending)
    /\ UNCHANGED <<d, disk, test, shown>>

Refused(q, a) ==
    /\ ask[q].pc = "none" /\ a \in Wanted
    /\ d = None \/ (d # None => Refuses(a, d) \/ LookRefuses(a))
    /\ To(q, "over", a)
    /\ UNCHANGED <<d, disk, test, shown, excused>>

\* The engine has taken it in, or let it go (Fleet has what that takes).
JoinOrLeave(q) ==
    /\ ask[q].pc = "go" /\ ask[q].what \in {"join", "leave"}
    /\ d' = IF d = None THEN None ELSE [d EXCEPT !.fleet = ask[q].what = "join"]
    /\ disk' = [disk EXCEPT !.slab = IF ask[q].what = "join" /\ @ = "none" THEN "member" ELSE @]
    /\ To(q, "over", ask[q].what)
    /\ UNCHANGED <<test, shown, excused>>

(***************************************************************************)
(* Tests and formats.                                                      *)
(***************************************************************************)
\* start: the drive is marked whatever it is now; the test replaces the one before it.
StartTest(q) ==
    /\ ask[q].pc = "go" /\ ask[q].what \in Tests
    /\ test' = [test EXCEPT ![q] = [NoTest EXCEPT !.state = "running"]]
    /\ shown' = q
    /\ d' = IF d = None THEN None ELSE [d EXCEPT !.activity = "testing"]
    /\ To(q, "works", ask[q].what)
    /\ UNCHANGED <<disk, excused>>

StartFormat(q) ==
    /\ ask[q].pc = "go" /\ ask[q].what = "format"
    /\ d' = IF d = None THEN None ELSE [d EXCEPT !.activity = "formatting"]
    /\ To(q, "works", "format")
    /\ UNCHANGED <<disk, test, shown, excused>>

\* One read: one that fails is noted, and the test goes on to MaxErrors of them.
ReadRegion(q) ==
    /\ test[q].state = "running" /\ ~test[q].cancel
    /\ test[q].at < Regions /\ test[q].errors < MaxErrors
    /\ \E e \in IF disk.here THEN 0..disk.bad ELSE {1} :
          test' = [test EXCEPT ![q].at = @ + 1, ![q].errors = @ + e]
    /\ UNCHANGED <<d, disk, ask, shown, excused>>

ByErrors(t) == IF t.errors = 0 THEN "passed" ELSE "failed" \* mutant: cancelled or not
Verdict(t) == IF t.cancel THEN "cancelled" ELSE IF t.errors = 0 THEN "passed" ELSE "failed"
\* Not back to Idle when the drive has gone missing meanwhile.
EndTest(q) ==
    /\ test[q].state = "running"
    /\ test[q].cancel \/ test[q].at = Regions \/ test[q].errors >= MaxErrors
    /\ test' = [test EXCEPT ![q].state = Verdict(test[q])]
    /\ d' = IF d = None THEN None ELSE [d EXCEPT !.activity = IF Missing(d) THEN @ ELSE "idle"]
    /\ To(q, "over", ask[q].what)
    /\ UNCHANGED <<disk, shown, excused>>

\* Done (nothing is left on the disk), or failed.
EndFormat(q) ==
    /\ ask[q].pc = "works" /\ ask[q].what = "format"
    /\ \E ok \in BOOLEAN :
          /\ d' = IF d = None THEN None
                  ELSE [d EXCEPT !.activity = IF @ = "formatting" THEN "idle" ELSE @, !.usable = @ \/ ok]
          /\ disk' = [disk EXCEPT !.slab = IF ok THEN "none" ELSE @, !.usable = @ \/ ok]
    /\ To(q, "over", "format")
    /\ UNCHANGED <<test, shown, excused>>

(***************************************************************************)
(* Around it.                                                              *)
(***************************************************************************)
\* merge_observed, a drive without a record among them; and refresh_offers after it.
FreshRecord ==
    [fleet |-> FALSE, desig |-> "none", activity |-> "idle", health |-> "unknown", usable |-> disk.usable, hot |-> FALSE,
     slab |-> disk.slab, mounted |-> disk.mounted, enrolable |-> FALSE, nvme |-> disk.nvme]
Offer(r) == [r EXCEPT !.enrolable = ~OfferBlocked(r)]
LooksAgain(r) == [r EXCEPT !.slab = disk.slab, !.mounted = disk.mounted, !.usable = disk.usable]
Rescan ==
    /\ d' = CASE d = None /\ ~disk.here -> None
              [] d = None /\ disk.here -> Offer(FreshRecord)
              [] d # None /\ ~disk.here -> Offer([d EXCEPT !.activity = "missing"])
              [] d # None /\ disk.here ->
                   Offer(LET r == IF d.activity = "formatting" THEN d ELSE LooksAgain(d)
                         IN  [r EXCEPT !.activity = IF @ = "missing" THEN "idle" ELSE @])
    /\ d' # d
    /\ UNCHANGED <<disk, ask, test, shown, excused>>

Verdicts == {"good", "warning", "failing"}
JudgeHealth ==
    /\ d # None /\ disk.changes > 0
    /\ \E h \in Verdicts \ {d.health} : d' = [d EXCEPT !.health = h]
    /\ disk' = [disk EXCEPT !.changes = @ - 1]
    /\ UNCHANGED <<ask, test, shown, excused>>

\* Somebody puts something on the disk or mounts it, or pulls it or puts it back.
ChangeDisk ==
    /\ disk.changes > 0
    /\ \/ \E s \in {"fs", "data", "raid"} : disk' = [disk EXCEPT !.slab = s, !.changes = @ - 1]
       \/ disk' = [disk EXCEPT !.mounted = ~@, !.changes = @ - 1]
       \/ disk' = [disk EXCEPT !.here = ~@, !.changes = @ - 1]
    /\ excused' = (excused \/ Pending)
    /\ UNCHANGED <<d, ask, test, shown>>

\* Tests end with the process; a format goes on in the drive (Worker has how).
RestartDaemon ==
    /\ disk.restarts > 0 /\ disk' = [disk EXCEPT !.restarts = @ - 1]
    /\ d' = IF d = None THEN None ELSE [d EXCEPT !.activity = IF @ = "testing" THEN "idle" ELSE @]
    /\ test' = [q \in Asks |-> NoTest] /\ shown' = None
    /\ ask' = [q \in Asks |-> IF ask[q].pc = "go" \/ test[q].state = "running"
                              THEN [ask[q] EXCEPT !.pc = "over"] ELSE ask[q]]
    /\ UNCHANGED excused

ANext ==
    \/ \E q \in Asks : \/ \E a \in Wanted : AtOnce(q, a) \/ Take(q, a) \/ Refused(q, a)
                       \/ JoinOrLeave(q) \/ StartTest(q) \/ StartFormat(q) \/ ReadRegion(q)
                       \/ EndTest(q) \/ EndFormat(q)
    \/ Rescan \/ JudgeHealth \/ ChangeDisk \/ RestartDaemon

ASpec == AInit /\ [][ANext]_actvars

-----------------------------------------------------------------------------
(* What the card offers, the handler takes by the same record: the rules are  *)
(* kept in two places (components.rs, drive_among; api/mod.rs).  Enrolment is *)
(* apart: it is offered as of the last refresh_offers.                        *)
OfferedIsTaken ==
    d # None => \A a \in Offered(d) :
        \/ a = "enroll" /\ d # Offer(d)
        \/ a = "cancel" /\ excused
        \/ ~Refuses(a, d)

(* No test or format writes to a drive that is in the fleet, or holds a slab,   *)
(* a RAID member or a mount, however old the record's scan is: the disk was     *)
(* looked at.  Two requests at a time, and a disk that changes hands under a    *)
(* request, are not covered by any lock (api/mod.rs, start_test, start_formats).*)
DestroysOnlyFree ==
    \A q \in Asks : ask[q].pc = "works" /\ ask[q].what \in Destroys /\ ~excused =>
        ~Held(disk.slab) /\ ~disk.mounted /\ (d # None => ~d.fleet)

(* A drive that reads testing has a test running, one that reads idle has none   *)
(* and no format, and a test says passed only after it read all of its plan      *)
(* without an error and without a cancel taken (drivetest.rs, run_blocking).     *)
TestsAreTold ==
    /\ ~excused /\ d # None =>
         /\ d.activity = "testing" => \E q \in Asks : test[q].state = "running"
         /\ d.activity = "idle" => \A q \in Asks : ask[q].pc # "works"
    /\ \A q \in Asks : test[q].state = "passed" =>
         test[q].at = Regions /\ test[q].errors = 0

(* The card, the handlers and the tests (components.rs, api/mod.rs, drivetest.rs). *)
ActionsOK == OfferedIsTaken /\ DestroysOnlyFree /\ TestsAreTold
=============================================================================
