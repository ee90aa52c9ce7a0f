-------------------------------- MODULE Fleet --------------------------------
(***************************************************************************)
(* Fleet membership and drains: src/fleet.rs, the fleet half of the REST   *)
(* API (src/api/mod.rs), and the parts of the monitor loop that write the  *)
(* same fields (src/monitor.rs: merge_observed, reconcile_stormblock).     *)
(*                                                                         *)
(* stormdrive keeps an inventory record per drive and talks to the         *)
(* stormblock engine over HTTP.  Every handler snapshots the inventory     *)
(* under a lock, awaits an engine call, and writes back under a new lock,  *)
(* so each await is an interleaving point here: one step reads, one step   *)
(* is the engine's (its effect and the answer it sends), one step writes.  *)
(* A failed call may or may not have reached the engine.                   *)
(*                                                                         *)
(* Actors: the monitor loop (one task: discover, reconcile, then the fleet *)
(* tick's phases in order), one task per REST request, the engine, and the *)
(* world (drives pulled and pushed, health verdicts).  The daemon may      *)
(* crash: memory is lost, the inventory file is what was last persisted.   *)
(***************************************************************************)
EXTENDS Naturals, FiniteSets

CONSTANTS
  Drives,           \* the drives of the node
  Enrolled,         \* those in the fleet, holding data, when the daemon starts
  Loop,             \* the monitor loop's task
  Reqs,             \* REST requests; each is served at most once
  Kinds,            \* what the requests may ask for
  Verdicts,         \* health verdicts the health loop may reach
  DrainOnFailing,   \* config: stormblock.drain_on_failing
  AutoAdd,          \* config: stormblock.auto_add
  Budgets           \* how often each kind of trouble may strike: one of these

Trouble == {"fault", "crash", "engine", "verdict", "pull", "save"}
AllKinds == {"join", "leave", "leave_drain", "leave_force", "drain",
             "drain_leave", "cancel", "mark_failed", "mark_reserved",
             "mark_none", "format", "firmware"}
HealthStatus == {"unknown", "good", "failing", "failed"}

ASSUME FleetAssumption ==
  /\ Enrolled \subseteq Drives
  /\ Loop \notin Reqs
  /\ Kinds \subseteq AllKinds
  /\ Verdicts \subseteq HealthStatus
  /\ DrainOnFailing \in BOOLEAN
  /\ AutoAdd \in BOOLEAN
  /\ Budgets \subseteq [Trouble -> Nat]

VARIABLES
  inv,        \* the inventory in memory, one record per drive
  disk,       \* the inventory file
  eng,        \* the engine's view of each drive (external)
  present,    \* the drives the node can see (the world)
  phase,      \* the monitor loop: which part of the pass it is in
  todo,       \* the monitor loop: what is left of the phase's snapshot
  listed,     \* the monitor loop: the engine's drive list it last read
  task,       \* every task's program counter and locals
  asked,      \* history: somebody wanted this drive out of the fleet
  budget      \* what is left of the budget

vars == <<inv, disk, eng, present, phase, todo, listed, task, asked, budget>>
loopVars == <<phase, todo, listed>>

Actors == {Loop} \cup Reqs

----------------------------------------------------------------------------
(* The data.                                                               *)

EngineDrain == {"none", "running", "empty", "stuck", "cancelled"}
DrainState == {"pending", "running", "empty", "stuck", "cancelled"}
Reason == {"health", "operator", "leave", "resumed"}
Word == {"healthy", "failing", "failed", "missing"}

\* DrainRecord: no record is the state "none".
NoDrain == [state |-> "none", reason |-> "health", leave |-> FALSE]
Drain == [state : DrainState, reason : Reason, leave : BOOLEAN] \cup {NoDrain}

Membership == {"out", "fleet"}
Designation == {"none", "reserved", "failed"}
Activity == {"idle", "draining", "formatting", "updating_firmware", "missing"}

Drive == [membership : Membership, designation : Designation, activity : Activity,
          health : HealthStatus, drain : Drain, pushed : Word \cup {"none"}]

NewDrive == [membership |-> "out", designation |-> "none", activity |-> "idle",
             health |-> "unknown", drain |-> NoDrain, pushed |-> "none"]

EnrolledDrive == [NewDrive EXCEPT !.membership = "fleet", !.health = "good", !.pushed = "healthy"]

\* The engine: is the drive open (listed), its drain, what it was told of
\* the drive's health, whether data lives there, whether it is rebuilding
\* the drive's volumes, and whether it owes the drive a drain after that.
Engine == [open : BOOLEAN, drain : EngineDrain, word : Word,
           used : BOOLEAN, rebuild : BOOLEAN, owed : BOOLEAN]
Closed == [open |-> FALSE, drain |-> "none", word |-> "healthy",
           used |-> FALSE, rebuild |-> FALSE, owed |-> FALSE]

Serving == [Closed EXCEPT !.open = TRUE, !.used = TRUE]

\* A task's locals: the drive it works on, the health word it pushes, why
\* it drains and whether that retires the drive, the engine's answer.
DrainPcs == {"sd_read", "sd_status", "sd_post", "sd_write", "sd_pend"}
JoinPcs == {"j_open", "j_slab", "j_write"}
PushPcs == {"push", "push_write", "drop"}
PollPcs == {"poll", "poll_write", "poll_idle", "poll_stuck", "poll_undrain",
            "retire", "retire_write"}
RequestPcs == {"new", "done", "j_check", "l_check", "l_slabs", "l_delete", "l_write",
               "c_call", "c_write", "designate", "m_report", "m_write", "m_save",
               "f_check", "u_check", "start", "run"}
Pcs == {"begin", "next"} \cup DrainPcs \cup JoinPcs \cup PushPcs \cup PollPcs \cup RequestPcs
Task == [pc : Pcs, kind : AllKinds \cup {"none"}, drive : Drives \cup {Loop},
         word : Word, reason : Reason, leave : BOOLEAN,
         answer : EngineDrain]
NewTask == [pc |-> "new", kind |-> "none", drive |-> Loop, word |-> "healthy",
            reason |-> "operator", leave |-> FALSE, answer |-> "none"]

\* One entry of a phase's snapshot.
Job == [drive : Drives, word : Word, reason : Reason, leave : BOOLEAN]

Phases == {"discover", "list", "reconcile", "health", "poll", "retry", "add"}

TypeOK ==
  /\ inv \in [Drives -> Drive]
  /\ disk \in [Drives -> Drive]
  /\ eng \in [Drives -> Engine]
  /\ present \in SUBSET Drives
  /\ phase \in Phases
  /\ todo \in SUBSET Job
  /\ listed \in SUBSET Drives
  /\ task \in [Actors -> Task]
  /\ asked \in [Drives -> BOOLEAN]
  /\ budget \in [Trouble -> Nat]

Init ==
  /\ inv = [d \in Drives |-> IF d \in Enrolled THEN EnrolledDrive ELSE NewDrive]
  /\ disk = inv
  /\ eng = [d \in Drives |-> IF d \in Enrolled THEN Serving ELSE Closed]
  /\ present = Drives
  /\ phase = "discover"
  /\ todo = {}
  /\ listed = {}
  /\ task = [a \in Actors |-> IF a = Loop THEN [NewTask EXCEPT !.pc = "begin"] ELSE NewTask]
  /\ asked = [d \in Drives |-> FALSE]
  /\ budget \in Budgets

----------------------------------------------------------------------------
(* Conditions of the code.                                                 *)

Bad(h) == h \in {"failing", "failed"}

\* push_health: the word the engine should hold for this drive now.
HealthWord(r) ==
  IF r.activity = "missing" THEN "missing"
  ELSE IF r.designation = "failed" \/ r.health = "failed" THEN "failed"
  ELSE IF r.health = "failing" THEN "failing"
  ELSE "healthy"

PushDue(r) ==
  /\ r.membership = "fleet"
  /\ r.activity = "missing" \/ r.health # "unknown"
  /\ r.pushed # HealthWord(r)

\* Mutant: only the drains health asked for are tried again.
DrainDueHealthOnly(r) ==
  /\ r.membership = "fleet"
  /\ r.activity # "missing"
  /\ r.drain.state = "pending"
  /\ r.drain.reason = "health"

DrainDue(r) ==
  /\ r.membership = "fleet"
  /\ r.activity # "missing"
  /\ r.drain.state = "pending"

JoinAllowed(r) ==
  /\ r.membership = "out"
  /\ r.designation \notin {"failed", "reserved"}
  /\ r.activity = "idle"
  /\ ~Bad(r.health)

AutoAddAllowed(r) ==
  /\ JoinAllowed(r)
  /\ r.designation = "none"
  /\ r.health # "unknown"

FormatAllowed(r) ==
  /\ r.membership = "out"
  /\ r.activity = "idle"
  /\ r.designation # "reserved"

FirmwareAllowed(r) == r.activity = "idle" /\ ~Bad(r.health)

----------------------------------------------------------------------------
(* Updates shared by several handlers.                                     *)

Undrain(r) == IF r.activity = "draining" THEN [r EXCEPT !.activity = "idle"] ELSE r

\* Mutant: a drain the engine forgot keeps its drive Draining.
MarkPendingHolds(r, why, leave) ==
  [r EXCEPT !.drain = IF r.drain.state = "pending" THEN r.drain
                      ELSE [state |-> "pending", reason |-> why, leave |-> leave]]

\* mark_pending: the reason and the retirement of a drain already pending
\* are kept.
MarkPending(r, why, leave) ==
  LET rec == IF r.drain.state = "pending" THEN r.drain
             ELSE [state |-> "pending", reason |-> why, leave |-> leave]
  IN  Undrain([r EXCEPT !.drain = rec])

\* The drive's record in memory, not persisted yet.
Write(d, r) == inv' = [inv EXCEPT ![d] = r] /\ UNCHANGED disk

\* The drive's record, and the persist that follows it.
Save(d, r) == inv' = [inv EXCEPT ![d] = r] /\ disk' = inv'

Persist == UNCHANGED inv /\ disk' = inv

NoWrite == UNCHANGED <<inv, disk>>

At(a, pc) == task[a].pc = pc

Goto(a, pc) == task' = [task EXCEPT ![a].pc = pc]

\* On with the engine's answer.
GotoWith(a, pc, answer) ==
  task' = [task EXCEPT ![a] = [@ EXCEPT !.pc = pc, !.answer = answer]]

\* The loop goes on to the next entry; a request is answered, a Failed
\* designation after a last persist.
End(a) == IF a = Loop THEN "next" ELSE IF task[a].kind = "mark_failed" THEN "m_save" ELSE "done"
Return(a) == Goto(a, End(a))

Spend(k) == budget[k] > 0 /\ budget' = [budget EXCEPT ![k] = @ - 1]
NoTrouble == UNCHANGED budget

Tell(d, e) == eng' = [eng EXCEPT ![d] = e]

----------------------------------------------------------------------------
(* The engine (external): what its answers and its docs say it does.       *)

\* POST health: `failing` and `failed` may start a rebuild; `failed` and
\* `missing` drain the drive whatever the report asks, after the rebuild.
Report(d, w) ==
  LET e == eng[d] IN
  \E rb \in IF Bad(w) /\ e.used THEN {TRUE, e.rebuild} ELSE {e.rebuild},
     ow \in IF w \in {"failed", "missing"} THEN BOOLEAN ELSE {e.owed},
     dr \in IF w \in {"failed", "missing"} /\ ~e.rebuild THEN {"running", e.drain}
            ELSE {e.drain} :
       Tell(d, [e EXCEPT !.word = w, !.rebuild = rb, !.owed = ow, !.drain = dr])

EngineDrains(d) ==
  /\ eng[d].drain = "running"
  /\ \/ Tell(d, [eng[d] EXCEPT !.drain = "empty", !.used = FALSE]) /\ NoTrouble
     \/ Tell(d, [eng[d] EXCEPT !.drain = "stuck"]) /\ Spend("engine")
  /\ UNCHANGED <<inv, disk, present, task, loopVars, asked>>

EngineRebuilt(d) ==
  /\ eng[d].rebuild
  /\ Tell(d, [eng[d] EXCEPT !.rebuild = FALSE, !.owed = FALSE,
                            !.drain = IF eng[d].owed THEN "running" ELSE @])
  /\ UNCHANGED <<inv, disk, present, task, loopVars, asked, budget>>

EnginePlaces(d) ==
  /\ eng[d].open /\ ~eng[d].used
  /\ eng[d].word = "healthy"
  /\ eng[d].drain \in {"none", "cancelled"}
  /\ Tell(d, [eng[d] EXCEPT !.used = TRUE])
  /\ UNCHANGED <<inv, disk, present, task, loopVars, asked, budget>>

\* A restart of the engine: it still has the drives and what it was told
\* of them, its drains are forgotten.
EngineRestarts ==
  /\ Spend("engine")
  /\ eng' = [d \in Drives |-> [eng[d] EXCEPT !.drain = "none", !.rebuild = FALSE]]
  /\ UNCHANGED <<inv, disk, present, task, loopVars, asked>>

----------------------------------------------------------------------------
(* start_drain and request_drain, called by the loop (health, retry) and   *)
(* by requests (drain, leave, a Failed designation).                       *)

\* request_drain keeps a drain that did not start as pending; the drain and
\* leave requests call start_drain itself and answer the error.
KeepsPending(a) == a = Loop \/ task[a].kind = "mark_failed"

\* Mutant: a drain that did not start is given up, whoever asked.
RefusedForgets(a) == Return(a)

Refused(a) == IF KeepsPending(a) THEN Goto(a, "sd_pend") ELSE Return(a)

SdRead(a) ==
  LET d == task[a].drive IN
  /\ At(a, "sd_read")
  /\ \/ /\ inv[d].membership # "fleet"
        /\ Refused(a)
     \/ /\ inv[d].membership = "fleet" /\ inv[d].drain.state = "running"
        /\ Return(a)
     \/ /\ inv[d].membership = "fleet" /\ inv[d].drain.state # "running"
        /\ Goto(a, "sd_status")
  /\ UNCHANGED <<inv, disk, eng, present, loopVars, asked, budget>>

SdStatus(a) ==
  LET d == task[a].drive IN
  /\ At(a, "sd_status")
  /\ \/ /\ eng[d].drain = "running" /\ NoTrouble
        /\ GotoWith(a, "sd_write", "running")
     \/ /\ eng[d].drain # "running" /\ NoTrouble
        /\ Goto(a, "sd_post")
     \/ Spend("fault") /\ Refused(a)
  /\ UNCHANGED <<inv, disk, eng, present, loopVars, asked>>

\* 409 while the engine rebuilds, or runs a drain already; 404 for a drive
\* it does not have.
CanDrain(e) == e.open /\ ~e.rebuild /\ e.drain # "running"

\* A drive with nothing on it may be empty before the answer is sent.
Started(e) == IF e.used THEN {"running"} ELSE {"running", "empty"}

SdPost(a) ==
  LET d == task[a].drive IN
  /\ At(a, "sd_post")
  /\ \/ /\ CanDrain(eng[d]) /\ NoTrouble
        /\ \E s \in Started(eng[d]) :
             /\ Tell(d, [eng[d] EXCEPT !.drain = s])
             /\ GotoWith(a, "sd_write", s)
     \/ /\ ~CanDrain(eng[d]) /\ NoTrouble
        /\ Refused(a) /\ UNCHANGED eng
     \/ /\ Spend("fault") /\ Refused(a)
        /\ \/ UNCHANGED eng
           \/ CanDrain(eng[d]) /\ Tell(d, [eng[d] EXCEPT !.drain = "running"])
  /\ UNCHANGED <<inv, disk, present, loopVars, asked>>

SdWrite(a) ==
  LET d == task[a].drive
      rec == [state |-> task[a].answer, reason |-> task[a].reason, leave |-> task[a].leave]
  IN
  /\ At(a, "sd_write")
  /\ Save(d, [inv[d] EXCEPT !.drain = rec,
                            !.activity = IF rec.state = "running" THEN "draining" ELSE @])
  /\ Return(a)
  /\ UNCHANGED <<eng, present, loopVars, asked, budget>>

SdPend(a) ==
  LET d == task[a].drive IN
  /\ At(a, "sd_pend")
  /\ IF inv[d].membership = "fleet"
     THEN Save(d, MarkPending(inv[d], task[a].reason, task[a].leave))
     ELSE NoWrite
  /\ Return(a)
  /\ UNCHANGED <<eng, present, loopVars, asked, budget>>

StartDrain(a) == SdRead(a) \/ SdStatus(a) \/ SdPost(a) \/ SdWrite(a) \/ SdPend(a)

----------------------------------------------------------------------------
(* join: open the drive in the engine (or relabel it when it is listed),   *)
(* format a slab, mark it Fleet.  Called by auto-add and the join request. *)

JoinOpen(a) ==
  LET d == task[a].drive
      opened == IF eng[d].open THEN eng[d] ELSE [Closed EXCEPT !.open = TRUE]
  IN
  /\ At(a, "j_open")
  /\ \/ d \in present /\ Tell(d, opened) /\ Goto(a, "j_slab") /\ NoTrouble
     \/ d \notin present /\ UNCHANGED eng /\ Return(a) /\ NoTrouble
     \/ Spend("fault") /\ (UNCHANGED eng \/ Tell(d, opened)) /\ Return(a)
  /\ UNCHANGED <<inv, disk, present, loopVars, asked>>

\* The slab listing and the slab format: up to 15 minutes.
JoinSlab(a) ==
  /\ At(a, "j_slab")
  /\ \/ Goto(a, "j_write") /\ NoTrouble
     \/ Return(a) /\ Spend("fault")
  /\ UNCHANGED <<inv, disk, eng, present, loopVars, asked>>

JoinWrite(a) ==
  LET d == task[a].drive IN
  /\ At(a, "j_write")
  /\ Save(d, [inv[d] EXCEPT !.membership = "fleet", !.pushed = "none", !.drain = NoDrain])
  /\ Return(a)
  /\ UNCHANGED <<eng, present, loopVars, asked, budget>>

Join(a) == JoinOpen(a) \/ JoinSlab(a) \/ JoinWrite(a)

----------------------------------------------------------------------------
(* The monitor loop's pass: discovery and reconcile, then the fleet tick.  *)

\* The end of a phase's snapshot is the start of the next phase.
Enter(p, pc) == phase' = p /\ Goto(Loop, pc) /\ todo' = {}

\* merge_observed: an absent drive is Missing whatever it was doing, and one
\* that is back is Idle.
Observed(d) ==
  IF d \notin present THEN [inv[d] EXCEPT !.activity = "missing"]
  ELSE IF inv[d].activity = "missing" THEN [inv[d] EXCEPT !.activity = "idle"]
  ELSE inv[d]

Discover ==
  /\ phase = "discover" /\ At(Loop, "begin")
  /\ inv' = [d \in Drives |-> Observed(d)]
  /\ Enter("list", "begin")
  /\ UNCHANGED <<disk, eng, present, listed, asked, budget>>

\* reconcile_stormblock reads the engine's list before it takes the lock.
ListDrives ==
  /\ phase = "list" /\ At(Loop, "begin")
  /\ \/ /\ listed' = {d \in Drives : eng[d].open}
        /\ Enter("reconcile", "begin") /\ NoWrite /\ NoTrouble
     \/ /\ Spend("fault") /\ UNCHANGED listed
        /\ Enter("health", "begin") /\ Persist
  /\ UNCHANGED <<eng, present, asked>>

\* Mutant: a drive the engine lists joins, one it has dropped stays.
ReconcileOneWay ==
  /\ phase = "reconcile" /\ At(Loop, "begin")
  /\ inv' = [d \in Drives |-> [inv[d] EXCEPT !.membership =
                                 IF d \in listed THEN "fleet" ELSE @]]
  /\ disk' = inv'
  /\ listed' = {}
  /\ Enter("health", "begin")
  /\ UNCHANGED <<eng, present, asked, budget>>

Reconcile ==
  /\ phase = "reconcile" /\ At(Loop, "begin")
  /\ inv' = [d \in Drives |-> [inv[d] EXCEPT !.membership =
                                 IF d \in listed THEN "fleet" ELSE "out"]]
  /\ disk' = inv'
  /\ listed' = {}
  /\ Enter("health", "begin")
  /\ UNCHANGED <<eng, present, asked, budget>>

\* The snapshot each phase works through.
PushJobs == {[drive |-> d, word |-> HealthWord(inv[d]), reason |-> "health", leave |-> TRUE] :
               d \in {x \in Drives : PushDue(inv[x])}}
PollJobs == {[drive |-> d, word |-> "healthy", reason |-> inv[d].drain.reason,
              leave |-> inv[d].drain.leave] :
               d \in {x \in Drives : inv[x].drain.state = "running"}}
\* Mutant: a drain that is tried again retires its drive.
RetryJobsRetire == {[drive |-> d, word |-> "healthy", reason |-> inv[d].drain.reason,
                     leave |-> TRUE] :
                      d \in {x \in Drives : DrainDue(inv[x])}}
RetryJobs == {[drive |-> d, word |-> "healthy", reason |-> inv[d].drain.reason,
               leave |-> inv[d].drain.leave] :
               d \in {x \in Drives : DrainDue(inv[x])}}
AddJobs == {[drive |-> d, word |-> "healthy", reason |-> "operator", leave |-> FALSE] :
              d \in {x \in Drives : AutoAdd /\ AutoAddAllowed(inv[x])}}

\* auto_add leaves alone the drives it tried in the last ten minutes.
Snapshots ==
  CASE phase = "health" -> {PushJobs}
    [] phase = "poll" -> {PollJobs}
    [] phase = "retry" -> {RetryJobs}
    [] phase = "add" -> SUBSET AddJobs

TickPhases == {"health", "poll", "retry", "add"}
FirstStep == [health |-> "push", poll |-> "poll", retry |-> "sd_read", add |-> "j_open"]
NextPhase == [health |-> "poll", poll |-> "retry", retry |-> "add"]

TakeSnapshot ==
  /\ phase \in TickPhases /\ At(Loop, "begin")
  /\ todo' \in Snapshots
  /\ Goto(Loop, "next")
  /\ UNCHANGED <<inv, disk, eng, present, phase, listed, asked, budget>>

TakeJob ==
  /\ phase \in TickPhases /\ At(Loop, "next")
  /\ \E j \in todo :
       /\ todo' = todo \ {j}
       /\ task' = [task EXCEPT ![Loop] =
                     [@ EXCEPT !.pc = FirstStep[phase], !.drive = j.drive, !.word = j.word,
                               !.reason = j.reason, !.leave = j.leave, !.answer = "none"]]
  /\ UNCHANGED <<inv, disk, eng, present, phase, listed, asked, budget>>

EndPhase ==
  /\ phase \in TickPhases /\ At(Loop, "next") /\ todo = {}
  /\ IF phase = "add"
     THEN Enter("discover", "begin") /\ Persist
     ELSE Enter(NextPhase[phase], "begin") /\ NoWrite
  /\ UNCHANGED <<eng, present, listed, asked, budget>>

(* push_health *)

PushSend ==
  LET d == task[Loop].drive  w == task[Loop].word IN
  /\ At(Loop, "push")
  /\ \/ /\ eng[d].open /\ NoTrouble
        /\ Report(d, w)
        /\ Goto(Loop, "push_write")
     \/ /\ ~eng[d].open /\ NoTrouble
        /\ UNCHANGED eng /\ Return(Loop)
     \/ /\ Spend("fault") /\ Return(Loop)
        /\ \/ UNCHANGED eng
           \/ eng[d].open /\ Report(d, w)
  /\ UNCHANGED <<inv, disk, present, loopVars, asked>>

PushWrite ==
  LET d == task[Loop].drive  w == task[Loop].word IN
  /\ At(Loop, "push_write")
  /\ Write(d, [inv[d] EXCEPT !.pushed = w])
  /\ \/ Bad(w) /\ DrainOnFailing /\ Goto(Loop, "sd_read")
     \/ w = "healthy" /\ Goto(Loop, "drop")
     \/ ~(Bad(w) /\ DrainOnFailing) /\ w # "healthy" /\ Return(Loop)
  /\ UNCHANGED <<eng, present, loopVars, asked, budget>>

DropPendingDrain ==
  LET d == task[Loop].drive
      dr == inv[d].drain
  IN
  /\ At(Loop, "drop")
  /\ IF dr.state = "pending" /\ dr.reason = "health"
     THEN Save(d, [inv[d] EXCEPT !.drain = NoDrain])
     ELSE NoWrite
  /\ Return(Loop)
  /\ UNCHANGED <<eng, present, loopVars, asked, budget>>

(* poll_drains and retire *)

PollStatus ==
  LET d == task[Loop].drive IN
  /\ At(Loop, "poll")
  /\ \/ /\ NoTrouble
        /\ GotoWith(Loop, "poll_write", eng[d].drain)
     \/ Spend("fault") /\ Return(Loop)
  /\ UNCHANGED <<inv, disk, eng, present, loopVars, asked>>

\* Mutant: every empty drive is retired.
AfterPollRetires(answer, leave) ==
  CASE answer = "running" -> "next"
    [] answer = "empty" -> "retire"
    [] answer = "stuck" -> "poll_stuck"
    [] OTHER -> "poll_undrain"

\* What the loop does after it copied the engine's state to the record.
AfterPoll(answer, leave) ==
  CASE answer = "running" -> "next"
    [] answer = "empty" -> IF leave THEN "retire" ELSE "poll_idle"
    [] answer = "stuck" -> "poll_stuck"
    [] OTHER -> "poll_undrain"

PollWrite ==
  LET t == task[Loop]  d == t.drive
      dr == inv[d].drain
  IN
  /\ At(Loop, "poll_write")
  /\ IF t.answer = "none"
     THEN /\ Write(d, MarkPending(inv[d], IF dr = NoDrain THEN "resumed" ELSE dr.reason, t.leave))
          /\ Return(Loop)
     ELSE /\ IF dr = NoDrain THEN NoWrite
             ELSE Write(d, [inv[d] EXCEPT !.drain.state = t.answer])
          /\ Goto(Loop, AfterPoll(t.answer, t.leave))
  /\ UNCHANGED <<eng, present, loopVars, asked, budget>>

PollSettle ==
  LET d == task[Loop].drive IN
  /\ \/ At(Loop, "poll_idle") /\ Save(d, [inv[d] EXCEPT !.activity = "idle"])
     \/ At(Loop, "poll_stuck") /\ Persist
     \/ At(Loop, "poll_undrain") /\ Write(d, Undrain(inv[d]))
  /\ Return(Loop)
  /\ UNCHANGED <<eng, present, loopVars, asked, budget>>

\* DELETE of a drive: the engine keeps one with data on it unless forced.
CanClose(e, force) == e.open /\ (force \/ ~e.used)

RetireDelete ==
  LET d == task[Loop].drive IN
  /\ At(Loop, "retire")
  /\ \/ /\ CanClose(eng[d], FALSE) /\ NoTrouble
        /\ Tell(d, Closed) /\ Goto(Loop, "retire_write") /\ NoWrite
     \/ /\ ~CanClose(eng[d], FALSE) /\ NoTrouble
        /\ UNCHANGED eng /\ Return(Loop) /\ Persist
     \/ /\ Spend("fault") /\ Return(Loop) /\ Persist
        /\ UNCHANGED eng \/ (CanClose(eng[d], FALSE) /\ Tell(d, Closed))
  /\ UNCHANGED <<present, loopVars, asked>>

RetireWrite ==
  LET d == task[Loop].drive IN
  /\ At(Loop, "retire_write")
  /\ Save(d, [inv[d] EXCEPT !.membership = "out", !.activity = "idle", !.pushed = "none"])
  /\ Return(Loop)
  /\ UNCHANGED <<eng, present, loopVars, asked, budget>>

LoopStep ==
  \/ Discover \/ ListDrives \/ Reconcile
  \/ TakeSnapshot \/ TakeJob \/ EndPhase
  \/ PushSend \/ PushWrite \/ DropPendingDrain
  \/ PollStatus \/ PollWrite \/ PollSettle \/ RetireDelete \/ RetireWrite
  \/ StartDrain(Loop) \/ Join(Loop)

----------------------------------------------------------------------------
(* The REST requests.                                                      *)

FirstOf(k) ==
  CASE k = "join" -> "j_check"
    [] k \in {"leave", "leave_drain", "leave_force"} -> "l_check"
    [] k \in {"drain", "drain_leave"} -> "sd_read"
    [] k = "cancel" -> "c_call"
    [] k \in {"mark_failed", "mark_reserved", "mark_none"} -> "designate"
    [] k = "format" -> "f_check"
    [] k = "firmware" -> "u_check"

WantsOut(k) == k \in {"leave_drain", "drain_leave", "mark_failed"}

Arrive(r) ==
  /\ At(r, "new")
  /\ \E k \in Kinds, d \in Drives :
       /\ task' = [task EXCEPT ![r] =
                     [NewTask EXCEPT !.pc = FirstOf(k), !.kind = k, !.drive = d,
                                     !.reason = IF k = "leave_drain" THEN "leave" ELSE "operator",
                                     !.leave = WantsOut(k)]]
       /\ asked' = [asked EXCEPT ![d] = @ \/ WantsOut(k)]
  /\ UNCHANGED <<inv, disk, eng, present, loopVars, budget>>

\* Validated against the record as it is now: refused, or the first step.
Check(r, pc, ok, next) ==
  /\ At(r, pc)
  /\ Goto(r, IF ok THEN next ELSE "done")
  /\ UNCHANGED <<inv, disk, eng, present, loopVars, asked, budget>>

JoinCheck(r) == Check(r, "j_check", JoinAllowed(inv[task[r].drive]), "j_open")

LeaveCheck(r) ==
  Check(r, "l_check", inv[task[r].drive].membership = "fleet",
        IF task[r].kind = "leave_force" THEN "l_delete" ELSE "l_slabs")

\* An occupied drive drains first when asked to, and is refused otherwise.
LeaveSlabs(r) ==
  LET d == task[r].drive IN
  /\ At(r, "l_slabs")
  /\ \/ ~eng[d].used /\ NoTrouble /\ Goto(r, "l_delete")
     \/ /\ eng[d].used /\ NoTrouble
        /\ Goto(r, IF task[r].kind = "leave_drain" THEN "sd_read" ELSE "done")
     \/ Spend("fault") /\ Goto(r, "done")
  /\ UNCHANGED <<inv, disk, eng, present, loopVars, asked>>

LeaveDelete(r) ==
  LET d == task[r].drive  force == task[r].kind = "leave_force" IN
  /\ At(r, "l_delete")
  /\ \/ CanClose(eng[d], force) /\ NoTrouble /\ Tell(d, Closed) /\ Goto(r, "l_write")
     \/ ~CanClose(eng[d], force) /\ NoTrouble /\ UNCHANGED eng /\ Goto(r, "done")
     \/ /\ Spend("fault") /\ Goto(r, "done")
        /\ UNCHANGED eng \/ (CanClose(eng[d], force) /\ Tell(d, Closed))
  /\ UNCHANGED <<inv, disk, present, loopVars, asked>>

LeaveWrite(r) ==
  LET d == task[r].drive IN
  /\ At(r, "l_write")
  /\ Save(d, [inv[d] EXCEPT !.membership = "out"])
  /\ Goto(r, "done")
  /\ UNCHANGED <<eng, present, loopVars, asked, budget>>

\* DELETE …/drain: a drain the engine does not have is an error, one that
\* has ended may be.
CancelCall(r) ==
  LET d == task[r].drive  cancelled == [eng[d] EXCEPT !.drain = "cancelled"] IN
  /\ At(r, "c_call")
  /\ \/ /\ eng[d].drain # "none" /\ NoTrouble
        /\ Tell(d, cancelled) /\ Goto(r, "c_write")
     \/ /\ eng[d].drain # "running" /\ NoTrouble
        /\ UNCHANGED eng /\ Goto(r, "done")
     \/ /\ Spend("fault") /\ Goto(r, "done")
        /\ UNCHANGED eng \/ (eng[d].drain = "running" /\ Tell(d, cancelled))
  /\ UNCHANGED <<inv, disk, present, loopVars, asked>>

CancelWrite(r) ==
  LET d == task[r].drive
      cancelled == IF inv[d].drain = NoDrain THEN inv[d]
                   ELSE [inv[d] EXCEPT !.drain.state = "cancelled"]
  IN
  /\ At(r, "c_write")
  /\ Save(d, Undrain(cancelled))
  /\ Goto(r, "done")
  /\ UNCHANGED <<eng, present, loopVars, asked, budget>>

Marked == [mark_failed |-> "failed", mark_reserved |-> "reserved", mark_none |-> "none"]

\* set_designation: a Failed fleet drive is reported and drained at once.
Designate(r) ==
  LET d == task[r].drive  k == task[r].kind IN
  /\ At(r, "designate")
  /\ LET marked == [inv[d] EXCEPT !.designation = Marked[k]]
         reports == k = "mark_failed" /\ inv[d].membership = "fleet"
     IN IF reports THEN Write(d, marked) /\ Goto(r, "m_report")
                   ELSE Save(d, marked) /\ Goto(r, "done")
  /\ UNCHANGED <<eng, present, loopVars, asked, budget>>

AfterReport == IF DrainOnFailing THEN "sd_read" ELSE "m_save"

MarkReport(r) ==
  LET d == task[r].drive IN
  /\ At(r, "m_report")
  /\ \/ /\ eng[d].open /\ NoTrouble
        /\ Report(d, "failed")
        /\ Goto(r, "m_write")
     \/ /\ ~eng[d].open /\ NoTrouble
        /\ UNCHANGED eng /\ Goto(r, AfterReport)
     \/ /\ Spend("fault") /\ Goto(r, AfterReport)
        /\ \/ UNCHANGED eng
           \/ eng[d].open /\ Report(d, "failed")
  /\ UNCHANGED <<inv, disk, present, loopVars, asked>>

MarkWrite(r) ==
  LET d == task[r].drive IN
  /\ At(r, "m_write")
  /\ Write(d, [inv[d] EXCEPT !.pushed = "failed"])
  /\ Goto(r, AfterReport)
  /\ UNCHANGED <<eng, present, loopVars, asked, budget>>

MarkSave(r) ==
  /\ At(r, "m_save")
  /\ Persist
  /\ Goto(r, "done")
  /\ UNCHANGED <<eng, present, loopVars, asked, budget>>

\* A format and a firmware update: checked against the record, then, in a
\* later step, the activity is set; the operation runs and sets it back.
OperationCheck(r) ==
  \/ Check(r, "f_check", FormatAllowed(inv[task[r].drive]), "start")
  \/ Check(r, "u_check", FirmwareAllowed(inv[task[r].drive]), "start")

Doing(k) == IF k = "format" THEN "formatting" ELSE "updating_firmware"

OperationStart(r) ==
  LET d == task[r].drive IN
  /\ At(r, "start")
  /\ Save(d, [inv[d] EXCEPT !.activity = Doing(task[r].kind)])
  /\ Goto(r, "run")
  /\ UNCHANGED <<eng, present, loopVars, asked, budget>>

OperationEnd(r) ==
  LET d == task[r].drive IN
  /\ At(r, "run")
  /\ Save(d, IF inv[d].activity = Doing(task[r].kind)
             THEN [inv[d] EXCEPT !.activity = "idle"] ELSE inv[d])
  /\ Goto(r, "done")
  /\ UNCHANGED <<eng, present, loopVars, asked, budget>>

RequestStep(r) ==
  \/ JoinCheck(r) \/ LeaveCheck(r) \/ LeaveSlabs(r) \/ LeaveDelete(r) \/ LeaveWrite(r)
  \/ CancelCall(r) \/ CancelWrite(r)
  \/ Designate(r) \/ MarkReport(r) \/ MarkWrite(r) \/ MarkSave(r)
  \/ OperationCheck(r) \/ OperationStart(r) \/ OperationEnd(r)
  \/ StartDrain(r) \/ Join(r)

----------------------------------------------------------------------------
(* The world.                                                              *)

\* The health loop reaches a verdict.
Verdict(d) ==
  /\ Spend("verdict")
  /\ \E h \in Verdicts \ {inv[d].health} :
       /\ inv' = [inv EXCEPT ![d].health = h]
       /\ asked' = [asked EXCEPT ![d] = @ \/ Bad(h)]
  /\ UNCHANGED <<disk, eng, present, loopVars, task>>

Pull(d) ==
  /\ d \in present /\ Spend("pull")
  /\ present' = present \ {d}
  /\ UNCHANGED <<inv, disk, eng, loopVars, task, asked>>

Push(d) ==
  /\ d \notin present
  /\ present' = present \cup {d}
  /\ UNCHANGED <<inv, disk, eng, loopVars, task, asked, budget>>

\* Any other handler's persist: it writes the whole inventory.
OtherPersist ==
  /\ Spend("save")
  /\ Persist
  /\ UNCHANGED <<eng, present, loopVars, task, asked>>

\* What a restart does with a busy drive: a SCSI format runs on and is
\* re-attached, a firmware update is gone (orphan_action, idle_orphan).
Recovered(r) ==
  IF r.activity = "updating_firmware" THEN [r EXCEPT !.activity = "idle"] ELSE r

Survives(a) ==
  a # Loop /\ task[a].pc = "run" /\ task[a].kind = "format"
           /\ disk[task[a].drive].activity = "formatting"

Crash ==
  /\ Spend("crash")
  /\ inv' = [d \in Drives |-> Recovered(disk[d])]
  /\ disk' = inv'
  /\ task' = [a \in Actors |->
                IF a = Loop THEN [NewTask EXCEPT !.pc = "begin"]
                ELSE IF Survives(a) \/ task[a].pc = "new" THEN task[a]
                ELSE [task[a] EXCEPT !.pc = "done"]]
  /\ phase' = "discover" /\ todo' = {} /\ listed' = {}
  /\ UNCHANGED <<eng, present, asked>>

EngineStep == \E d \in Drives : EngineDrains(d) \/ EngineRebuilt(d)

Next ==
  \/ LoopStep
  \/ \E r \in Reqs : Arrive(r) \/ RequestStep(r)
  \/ EngineStep
  \/ \E d \in Drives : EnginePlaces(d) \/ Verdict(d) \/ Pull(d) \/ Push(d)
  \/ EngineRestarts \/ OtherPersist \/ Crash

\* tokio runs every ready task and every engine call ends (each try has a
\* timeout and the tries are counted); a drain and a rebuild end.
Fairness ==
  /\ WF_vars(LoopStep)
  /\ \A r \in Reqs : WF_vars(RequestStep(r))
  /\ \A d \in Drives : WF_vars(EngineDrains(d)) /\ WF_vars(EngineRebuilt(d))

Spec == Init /\ [][Next]_vars
FairSpec == Spec /\ Fairness
----------------------------------------------------------------------------
(* What the component promises.                                            *)

\* A drain that waits (`pending`) does not hold the drive: whatever wrote
\* the record last, a drive whose drain is pending is not shown Draining,
\* so nothing else that needs it idle is locked out while the engine
\* refuses the drain (mark_pending, start_drain, poll_drains).
PendingIsNotDraining ==
  \A d \in Drives :
    inv[d].drain.state = "pending" => inv[d].activity # "draining"

\* The retirement a drain carries (then_leave) goes through the record, the
\* inventory file, the tick's snapshots and mark_pending; nothing on the
\* way may turn a plain drain into a retirement.  The loop takes a drive
\* out of the fleet only when its health, a Failed designation or a leave
\* asked for that.
OnlyAskedDrivesRetire ==
  task[Loop].pc \in {"retire", "retire_write"} => asked[task[Loop].drive]

\* An operation (format, firmware update) running on a drive, and a drive
\* in the fleet.
Running(d, k) == {r \in Reqs : At(r, "run") /\ task[r].drive = d /\ task[r].kind = k}

\* Reformatting needs an out-of-fleet drive (Drive::format_blocker): the
\* engine is never given a drive a format is running on.
NoFormatInFleet ==
  \A d \in Drives : Running(d, "format") # {} => inv[d].membership = "out"

\* With everything settled, the engine does not trust a drive the operator
\* designated Failed, once stormdrive holds that it was told.
Settled == phase = "discover" /\ \A r \in Reqs : task[r].pc \in {"new", "done"}
FailedIsDistrusted ==
  \A d \in Drives :
    Settled /\ eng[d].open /\ inv[d].designation = "failed" /\ inv[d].pushed = "failed"
      => eng[d].word # "healthy"

----------------------------------------------------------------------------
(* Liveness, under Fairness.                                               *)

\* A failing fleet drive is drained with nobody asking, whatever the engine
\* refuses or forgets and whichever calls are lost: unless the engine gives
\* up (stuck), its drain reaches the end.
NotDrained(d) ==
  /\ inv[d].membership = "fleet" /\ d \in present
  /\ Bad(inv[d].health) /\ inv[d].drain.state \notin {"stuck", "empty"}
NoCrash == \A b \in Budgets : budget["crash"] = b["crash"]
FailingDriveDrained == \A d \in Drives : ~ <>[](NoCrash /\ NotDrained(d))

\* The same across a crash of the daemon at any step.
FailingDriveDrainedAnyway == \A d \in Drives : ~ <>[]NotDrained(d)

\* A drain on record that retires the drive is followed to its end, across
\* restarts of the daemon and of the engine.
RetiringDrainEnds ==
  \A d \in Drives :
    ~ <>[](/\ inv[d].membership = "fleet" /\ d \in present
           /\ inv[d].drain.leave /\ inv[d].drain.state \in {"pending", "running"})

\* Once the operator is quiet, the record's membership is what the engine
\* has: lost answers, half-done joins and crashes are reconciled.
QuietOperator == \A r \in Reqs : At(r, "new") \/ At(r, "done")
MembershipConverges ==
  <>[]QuietOperator =>
    \A d \in Drives : []<>((inv[d].membership = "fleet") = eng[d].open)

----------------------------------------------------------------------------
(* The inductive invariant: what the promises of the component rest on     *)
(* between the steps of a handler.  TLC checks it as an invariant of the   *)
(* runs; FleetProofs proves it of every instance.                          *)

\* A task that works has a drive, a designation to set is one of the three,
\* and a drain that was started is running or has ended.
TaskOK(a) ==
  /\ task[a].pc \notin (IF a = Loop THEN {"begin", "next"} ELSE {"new"})
       => task[a].drive \in Drives
  /\ task[a].pc = "designate" => task[a].kind \in DOMAIN Marked
  /\ task[a].pc = "sd_write" => task[a].answer \in {"running", "empty"}

TypeInv ==
  /\ TypeOK
  /\ \A a \in Actors : TaskOK(a)

\* In memory and in the file alike: a pending drain holds nothing.
Waits(r) == r.drain.state = "pending" => r.activity # "draining"
WaitInv == \A d \in Drives : Waits(inv[d]) /\ Waits(disk[d])

\* Whatever says, in a record, that the drive is to leave: somebody asked.
WantedOut(r) == r.drain.leave \/ Bad(r.health) \/ r.designation = "failed"
RecordsAsked == \A d \in Drives : WantedOut(inv[d]) \/ WantedOut(disk[d]) => asked[d]

\* The same of the snapshot the loop works through, of the loop's locals at
\* each of its steps, and of a request in flight.
JobsAsked ==
  \A j \in todo : j.leave /\ (phase = "health" => Bad(j.word)) => asked[j.drive]

LoopAsked ==
  LET t == task[Loop] IN
  /\ t.pc \in PushPcs => (t.leave /\ Bad(t.word) => asked[t.drive])
  /\ t.pc \in DrainPcs \cup PollPcs => (t.leave => asked[t.drive])
  /\ t.pc \in {"retire", "retire_write"} => t.leave

RequestAsked(r) ==
  LET t == task[r] IN
  t.pc # "new" => (t.leave \/ t.kind = "mark_failed" => asked[t.drive])

AskedInv ==
  /\ RecordsAsked
  /\ JobsAsked
  /\ LoopAsked
  /\ \A r \in Reqs : RequestAsked(r)

\* Memory, file, snapshots and locals agree that nothing retires unasked and
\* nothing waits while it holds its drive: what every handler of the fleet
\* relies on when it writes back what it read before an engine call.
IInv == TypeInv /\ WaitInv /\ AskedInv
==============================================================================
