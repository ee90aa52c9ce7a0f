-------------------------------- MODULE Worker --------------------------------
(***************************************************************************)
(* The provisioning worker: src/worker.rs, with the format runs it starts  *)
(* (src/format.rs), the erase commands (src/erase.rs) and the test runs    *)
(* (src/drivetest.rs).                                                     *)
(*                                                                         *)
(* A job takes each of its drives through its steps.  Every drive of a job *)
(* is a task of its own (run_drive): it waits for a lane, checks the drive *)
(* and the requester again, marks the step running, saves jobs.json, and   *)
(* then runs the step.  The drives work by themselves: a format, sanitize  *)
(* or erase goes on when the daemon dies.  A restart reads jobs.json and   *)
(* inventory.json, which are saved at different moments, and decides from  *)
(* them what to watch, what to interrupt and what to set idle.             *)
(*                                                                         *)
(* A step is one critical section: between two awaits anything may happen. *)
(***************************************************************************)
EXTENDS Naturals, FiniteSets, Sequences

CONSTANTS
  Drives,           \* the drives of the node
  Kind,             \* each drive's kind
  MaxJobs,          \* job ids are handed out up to this one
  Plans,            \* the step lists requests may ask for
  Selections,       \* the sets of drives requests may select
  MaxPerHba,        \* config: worker.max_per_hba
  EnrollPerDomain,  \* config: worker.enroll_per_domain
  KeepJobs,         \* KEEP_JOBS: jobs kept in jobs.json
  Budgets           \* how often each kind of trouble may strike: one of these

Trouble == {"crash", "pull", "fail", "cancel", "resume", "unavailable"}
Kinds == {"sas", "sata", "nvme"}
Step == {"format", "sanitize", "erase", "test", "partition", "enroll"}

Rank(s) == CASE s = "partition" -> 1 [] s = "enroll" -> 2 [] OTHER -> 0
LowLevel(s) == Rank(s) = 0
ReadOnly(s) == s = "test"

\* Each step at most once; low-level before partition before enroll.
ValidSteps(p) ==
  /\ p # <<>>
  /\ \A i, j \in DOMAIN p : i < j => p[i] # p[j] /\ Rank(p[i]) <= Rank(p[j])

ASSUME WorkerAssumption ==
  /\ Kind \in [Drives -> Kinds]
  /\ MaxJobs \in Nat /\ KeepJobs \in Nat
  /\ MaxPerHba \in Nat \ {0} /\ EnrollPerDomain \in Nat \ {0}
  /\ Plans \subseteq Seq(Step) /\ \A p \in Plans : ValidSteps(p)
  /\ Selections \subseteq SUBSET Drives
  /\ Budgets \subseteq [Trouble -> Nat]

Jobs == 1..MaxJobs
Runs == Jobs \X Drives       \* a drive of a job
Nobody == 0                  \* owner of a format run no job waits for
Formats == (Jobs \cup {Nobody}) \X Drives

VARIABLES
  inv,      \* the inventory in memory: what the worker writes of a drive
  invFile,  \* inventory.json
  jobs,     \* the jobs in memory
  jobsFile, \* jobs.json
  plan,     \* each job's steps
  next,     \* the next job id
  task,     \* each run's task: run_drive, or watch after a restart
  fmt,      \* the format runs (format::start, format::reattach)
  unsaved,  \* cancelled jobs whose save is still to come
  hw,       \* what each drive itself is doing
  present,  \* the drives the node can see
  hist,     \* history: the device commands sent for a run
  budget    \* what is left of the budget

store == <<inv, invFile, jobs, jobsFile>>
world == <<hw, present>>
fixed == <<plan, next, hist, budget>>
vars == <<inv, invFile, jobs, jobsFile, plan, next, task, fmt, unsaved, hw, present, hist, budget>>

----------------------------------------------------------------------------
(* The data.                                                               *)

Activity == {"idle", "formatting", "sanitizing", "testing", "missing"}
Record == {"none", "running", "done", "failed", "interrupted"}
Drive == [activity : Activity, fleet : BOOLEAN, format : Record]
NewDrive == [activity |-> "idle", fleet |-> FALSE, format |-> "none"]

DjState == {"absent", "queued", "running", "done", "failed", "refused",
            "interrupted", "cancelled"}
Finished == {"absent", "done", "failed", "refused", "cancelled"}
\* step: how many steps are done; password: ata_password is on record.
DriveJob == [state : DjState, step : Nat, password : BOOLEAN]
NoDriveJob == [state |-> "absent", step |-> 0, password |-> FALSE]
Job == [kept : BOOLEAN, cancel : BOOLEAN, dj : [Drives -> DriveJob]]
NoJob == [kept |-> FALSE, cancel |-> FALSE, dj |-> [d \in Drives |-> NoDriveJob]]

\* The drive: the operation it performs, how the last one went, the job
\* whose ATA password locks it, whether a FORMAT UNIT took.
Op == {"idle", "format", "sanitize", "erase", "partition"}
Hw == [op : Op, good : BOOLEAN, lock : Jobs \cup {Nobody}, formatted : BOOLEAN]
NewHw == [op |-> "idle", good |-> TRUE, lock |-> Nobody, formatted |-> FALSE]

RunPcs == {"spawn", "top", "lane", "check", "recheck", "save_run", "begin",
           "f_persist", "f_wait", "pw_save", "pw_busy", "issue", "e_unit", "busy",
           "testing", "e_write", "pw_clear", "pw_saved", "idle", "persist",
           "result", "save_step", "save_end"}
WatchPcs == {"w_start", "w_wait", "w_format", "w_idle", "w_result", "w_save", "w_persist"}
\* ok: the result of the step; keep: its failure may have left the password.
Task == [pc : {"none"} \cup RunPcs \cup WatchPcs, ok : BOOLEAN, keep : BOOLEAN]
NoTask == [pc |-> "none", ok |-> TRUE, keep |-> FALSE]

\* A format run: its task, and its handle's state, which others read.
FormatRun == [pc : {"none", "issue", "busy", "finish", "persist"},
              run : {"running", "done", "failed"}]
NoFormat == [pc |-> "none", run |-> "done"]

\* sent: the steps whose device command was sent; asked: a submit or a
\* resume asked for the run since the last one was.
History == [sent : SUBSET Nat, asked : BOOLEAN]

TypeOK ==
  /\ inv \in [Drives -> Drive] /\ invFile \in [Drives -> Drive]
  /\ jobs \in [Jobs -> Job] /\ jobsFile \in [Jobs -> Job]
  /\ plan \in [Jobs -> Seq(Step)]
  /\ next \in 1..(MaxJobs + 1)
  /\ task \in [Runs -> Task]
  /\ fmt \in [Formats -> FormatRun]
  /\ unsaved \subseteq Jobs
  /\ hw \in [Drives -> Hw]
  /\ present \subseteq Drives
  /\ hist \in [Runs -> History]
  /\ budget \in [Trouble -> Nat]

Init ==
  /\ inv = [d \in Drives |-> NewDrive] /\ invFile = inv
  /\ jobs = [j \in Jobs |-> NoJob] /\ jobsFile = jobs
  /\ plan = [j \in Jobs |-> <<>>]
  /\ next = 1
  /\ task = [t \in Runs |-> NoTask]
  /\ fmt = [f \in Formats |-> NoFormat]
  /\ unsaved = {}
  /\ hw = [d \in Drives |-> NewHw]
  /\ present = Drives
  /\ hist = [t \in Runs |-> [sent |-> {}, asked |-> FALSE]]
  /\ budget \in Budgets

Spend(k) == budget[k] > 0 /\ budget' = [budget EXCEPT ![k] = @ - 1]

Dj(t) == jobs[t[1]].dj[t[2]]
Drv(t) == t[2]
\* The step the run stands before, or is at.
Current(t) == plan[t[1]][Dj(t).step + 1]
Rest(t) == SubSeq(plan[t[1]], Dj(t).step + 1, Len(plan[t[1]]))
At(t, pc) == task[t].pc = pc
Goto(t, pc) == task' = [task EXCEPT ![t].pc = pc]

\* Worker::with: nothing happens to a job that is no longer kept.
SetDj(t, r) ==
  jobs' = IF jobs[t[1]].kept THEN [jobs EXCEPT ![t[1]].dj[t[2]] = r] ELSE jobs
SetState(t, s) == SetDj(t, [Dj(t) EXCEPT !.state = s])
SetActivity(d, a) == inv' = [inv EXCEPT ![d].activity = a]

\* Save jobs.json: beyond KEEP_JOBS the oldest finished jobs are dropped,
\* from memory too.
JobFinished(j) == jobs[j].kept /\ \A d \in Drives : jobs[j].dj[d].state \in Finished
Dropped ==
  LET excess == Cardinality({j \in Jobs : jobs[j].kept}) IN
  {j \in Jobs : JobFinished(j)
     /\ Cardinality({k \in 1..j : JobFinished(k)}) + KeepJobs <= excess}
Save ==
  /\ jobs' = [j \in Jobs |-> IF j \in Dropped THEN NoJob ELSE jobs[j]]
  /\ jobsFile' = jobs'
  /\ UNCHANGED <<inv, invFile>>
Persist == invFile' = inv /\ UNCHANGED <<inv, jobs, jobsFile>>

----------------------------------------------------------------------------
(* What a drive may be put through (guard), and where it waits (lanes).    *)

\* What the drive holds, its mounts, sector size, designation and health
\* may refuse too: the caller leaves that open.
Guard(d, steps) ==
  LET read == \A i \in DOMAIN steps : ReadOnly(steps[i]) IN
  /\ inv[d].activity = "idle"
  /\ inv[d].fleet => read
  /\ \A i \in DOMAIN steps : steps[i] = "erase" => Kind[d] = "sata"

\* Low-level steps and partitions wait per HBA (an NVMe drive is its own),
\* enroll per failure domain: here the SAS and SATA drives share an HBA, and
\* all drives a shelf.
Lane(t) ==
  CASE Current(t) = "enroll" -> <<"domain">>
    [] Kind[Drv(t)] = "nvme" -> <<"hba", Drv(t)>>
    [] OTHER -> <<"hba">>
Permits(l) == IF l = <<"domain">> THEN EnrollPerDomain ELSE MaxPerHba
HoldPcs == RunPcs \ {"spawn", "top", "lane", "save_step", "save_end"}
Holders(l) == {t \in Runs : task[t].pc \in HoldPcs /\ Lane(t) = l}

----------------------------------------------------------------------------
(* Requests.                                                               *)

\* submit_tagged: the drives the guard lets through are queued, the others
\* refused; with none to run there is no job.  Some may be refused for what
\* the model leaves out.
Submit(p, sel) ==
  /\ next <= MaxJobs
  /\ \E queued \in SUBSET {d \in sel : Guard(d, p)} :
       /\ queued # {}
       /\ jobs' = [jobs EXCEPT ![next] =
                     [kept |-> TRUE, cancel |-> FALSE,
                      dj |-> [d \in Drives |->
                               [NoDriveJob EXCEPT !.state =
                                  IF d \in queued THEN "queued"
                                  ELSE IF d \in sel THEN "refused" ELSE "absent"]]]]
       /\ plan' = [plan EXCEPT ![next] = p]
       /\ task' = [t \in Runs |-> IF t[1] = next /\ t[2] \in queued
                                  THEN [NoTask EXCEPT !.pc = "spawn"] ELSE task[t]]
       /\ hist' = [t \in Runs |-> IF t[1] = next /\ t[2] \in queued
                                  THEN [sent |-> {}, asked |-> TRUE] ELSE hist[t]]
  /\ next' = next + 1
  /\ UNCHANGED <<inv, invFile, jobsFile, fmt, unsaved, world, budget>>

\* The save of submit and resume, and then the spawn of the run.
Spawn(t) ==
  /\ At(t, "spawn")
  /\ Save
  /\ Goto(t, "top")
  /\ UNCHANGED <<fmt, unsaved, world, fixed>>

\* Mutant: a cancel cancels every drive of the job.
CancelledAll(state) == "cancelled"

\* cancel: what has not started, and what waits for a resume, is cancelled.
Cancelled(state) == IF state \in {"queued", "interrupted"} THEN "cancelled" ELSE state
Cancel(j) ==
  /\ jobs[j].kept
  /\ Spend("cancel")
  /\ jobs' = [jobs EXCEPT ![j].cancel = TRUE,
                          ![j].dj = [d \in Drives |->
                                       [jobs[j].dj[d] EXCEPT !.state = Cancelled(@)]]]
  /\ unsaved' = unsaved \cup {j}
  /\ UNCHANGED <<inv, invFile, jobsFile, plan, next, task, fmt, world, hist>>

CancelSave(j) ==
  /\ j \in unsaved
  /\ Save
  /\ unsaved' = unsaved \ {j}
  /\ UNCHANGED <<task, fmt, world, fixed>>

\* resume: what is interrupted is queued and run again from where it stands.
\* A task still in the save of its own interruption is absorbed in the save
\* of the resume.
Resume(j) ==
  LET stopped == {d \in Drives : jobs[j].dj[d].state = "interrupted"} IN
  /\ jobs[j].kept /\ ~jobs[j].cancel
  /\ stopped # {}
  /\ Spend("resume")
  /\ jobs' = [jobs EXCEPT ![j].dj =
               [d \in Drives |-> IF d \in stopped THEN [jobs[j].dj[d] EXCEPT !.state = "queued"]
                                 ELSE jobs[j].dj[d]]]
  /\ task' = [t \in Runs |-> IF t[1] = j /\ t[2] \in stopped
                             THEN [NoTask EXCEPT !.pc = "spawn"] ELSE task[t]]
  /\ hist' = [t \in Runs |-> IF t[1] = j /\ t[2] \in stopped
                             THEN [hist[t] EXCEPT !.asked = TRUE] ELSE hist[t]]
  /\ UNCHANGED <<inv, invFile, jobsFile, plan, next, fmt, unsaved, world>>

----------------------------------------------------------------------------
(* run_drive: one drive through the steps of its job.                      *)

\* Head of the loop.  The state is read before the cancel is acted on.
Top(t) ==
  /\ At(t, "top")
  /\ CASE Dj(t).state \notin {"queued", "running"} ->
            /\ Goto(t, "none")
            /\ UNCHANGED jobs
       [] OTHER ->
            IF Dj(t).step >= Len(plan[t[1]])
            THEN SetState(t, "done") /\ Goto(t, "save_end")
            ELSE IF jobs[t[1]].cancel
            THEN SetState(t, "cancelled") /\ Goto(t, "save_end")
            ELSE UNCHANGED jobs /\ Goto(t, "lane")
  /\ UNCHANGED <<inv, invFile, jobsFile, fmt, unsaved, world, fixed>>

\* A permit of the lane is held from here until the step has its result.
TakeLane(t) ==
  /\ At(t, "lane")
  /\ Cardinality(Holders(Lane(t))) < Permits(Lane(t))
  /\ Goto(t, "check")
  /\ UNCHANGED <<store, fmt, unsaved, world, fixed>>

Fail(t) ==
  /\ SetState(t, "failed")
  /\ Goto(t, "save_end")
  /\ UNCHANGED <<inv, invFile, jobsFile>>

\* The guard again, on the drive as it is now; a job that was dropped while
\* the run waited names no requester.
Check(t) ==
  LET ok == Guard(Drv(t), Rest(t)) /\ jobs[t[1]].kept IN
  /\ At(t, "check")
  /\ \/ ok /\ Goto(t, "recheck") /\ UNCHANGED store
     \/ ~ok /\ Fail(t)
  /\ UNCHANGED <<fmt, unsaved, world, fixed>>

\* The requester again (kubeauth recheck): still allowed, and the step is
\* marked running, whatever the drive's state has become meanwhile.
Allowed(t) ==
  /\ At(t, "recheck")
  /\ SetState(t, "running")
  /\ Goto(t, "save_run")
  /\ UNCHANGED <<inv, invFile, jobsFile, fmt, unsaved, world, fixed>>

\* Denied, or refused by what the model leaves out.
Denied(t) ==
  /\ At(t, "recheck")
  /\ Spend("fail")
  /\ Fail(t)
  /\ UNCHANGED <<fmt, unsaved, world, plan, next, hist>>

\* The apiserver does not answer: interrupted, to be resumed.
Unavailable(t) ==
  /\ At(t, "recheck")
  /\ Spend("unavailable")
  /\ SetState(t, "interrupted")
  /\ Goto(t, "save_end")
  /\ UNCHANGED <<inv, invFile, jobsFile, fmt, unsaved, world, plan, next, hist>>

\* Running is on disk before the drive is touched.
SaveRun(t) ==
  /\ At(t, "save_run")
  /\ Save
  /\ Goto(t, "begin")
  /\ UNCHANGED <<fmt, unsaved, world, fixed>>

\* Mutant: a failed step is tried again at once.
ResultRetries(t) ==
  /\ At(t, "result")
  /\ IF task[t].ok
     THEN /\ SetDj(t, [Dj(t) EXCEPT !.step = @ + 1])
          /\ Goto(t, "save_step")
          /\ UNCHANGED <<inv, invFile, jobsFile>>
     ELSE Goto(t, "top") /\ UNCHANGED store
  /\ UNCHANGED <<fmt, unsaved, world, fixed>>

\* The step's result: done and on to the next, or failed.
Result(t) ==
  /\ At(t, "result")
  /\ IF task[t].ok
     THEN /\ SetDj(t, [Dj(t) EXCEPT !.step = @ + 1])
          /\ Goto(t, "save_step")
          /\ UNCHANGED <<inv, invFile, jobsFile>>
     ELSE Fail(t)
  /\ UNCHANGED <<fmt, unsaved, world, fixed>>

SaveStep(t) ==
  /\ At(t, "save_step")
  /\ Save
  /\ Goto(t, "top")
  /\ UNCHANGED <<fmt, unsaved, world, fixed>>

SaveEnd(t) ==
  /\ At(t, "save_end")
  /\ Save
  /\ task' = [task EXCEPT ![t] = NoTask]
  /\ UNCHANGED <<fmt, unsaved, world, fixed>>

----------------------------------------------------------------------------
(* run_step.                                                               *)

ByFormatRun(d, s) == s = "format" /\ Kind[d] # "nvme"
Busy(s) == CASE s \in {"format", "partition"} -> "formatting"
             [] s = "test" -> "testing"
             [] OTHER -> "sanitizing"

\* format::start: the handle, the drive's record, its activity.
BeginFormat(t) ==
  LET d == Drv(t) IN
  /\ At(t, "begin") /\ ByFormatRun(d, Current(t))
  /\ fmt' = [fmt EXCEPT ![t].run = "running"]
  /\ inv' = [inv EXCEPT ![d].activity = "formatting", ![d].format = "running"]
  /\ Goto(t, "f_persist")
  /\ UNCHANGED <<invFile, jobs, jobsFile, unsaved, world, fixed>>

PersistFormat(t) ==
  /\ At(t, "f_persist")
  /\ Persist
  /\ fmt' = [fmt EXCEPT ![t].pc = "issue"]
  /\ Goto(t, "f_wait")
  /\ UNCHANGED <<unsaved, world, fixed>>

\* Mutant: only a format that went well is noticed.
WaitFormatDone(t) ==
  /\ At(t, "f_wait")
  /\ fmt[t].run = "done"
  /\ task' = [task EXCEPT ![t] = [@ EXCEPT !.pc = "result", !.ok = TRUE]]
  /\ UNCHANGED <<store, fmt, unsaved, world, fixed>>

\* wait_format: the run's handle says how it went.
WaitFormat(t) ==
  /\ At(t, "f_wait")
  /\ fmt[t].run # "running"
  /\ task' = [task EXCEPT ![t] = [@ EXCEPT !.pc = "result", !.ok = fmt[t].run = "done"]]
  /\ UNCHANGED <<store, fmt, unsaved, world, fixed>>

\* sanitize, partition, an NVMe format: the activity is set in memory, and
\* the command goes to the drive.
BeginCommand(t) ==
  /\ At(t, "begin")
  /\ Current(t) \in {"sanitize", "partition", "format"}
  /\ ~ByFormatRun(Drv(t), Current(t))
  /\ SetActivity(Drv(t), Busy(Current(t)))
  /\ Goto(t, "issue")
  /\ UNCHANGED <<invFile, jobs, jobsFile, fmt, unsaved, world, fixed>>

\* Mutant: the drive is locked before the password is saved.
BeginEraseUnsaved(t) ==
  /\ At(t, "begin") /\ Current(t) = "erase"
  /\ SetDj(t, [Dj(t) EXCEPT !.password = TRUE]) /\ Goto(t, "pw_busy")
  /\ UNCHANGED <<inv, invFile, jobsFile, fmt, unsaved, world, fixed>>

\* A security erase.  A drive that is locked, not by this job, refuses it;
\* a fresh password goes on record before the drive sees it.
BeginErase(t) ==
  /\ At(t, "begin") /\ Current(t) = "erase"
  /\ IF hw[Drv(t)].lock # Nobody /\ ~Dj(t).password
     THEN /\ task' = [task EXCEPT ![t] = [@ EXCEPT !.pc = "result", !.ok = FALSE]]
          /\ UNCHANGED jobs
     ELSE IF Dj(t).password
     THEN Goto(t, "pw_busy") /\ UNCHANGED jobs
     ELSE SetDj(t, [Dj(t) EXCEPT !.password = TRUE]) /\ Goto(t, "pw_save")
  /\ UNCHANGED <<inv, invFile, jobsFile, fmt, unsaved, world, fixed>>

SavePassword(t) ==
  /\ At(t, "pw_save")
  /\ Save
  /\ Goto(t, "pw_busy")
  /\ UNCHANGED <<fmt, unsaved, world, fixed>>

BusyErase(t) ==
  /\ At(t, "pw_busy")
  /\ SetActivity(Drv(t), "sanitizing")
  /\ Goto(t, "issue")
  /\ UNCHANGED <<invFile, jobs, jobsFile, fmt, unsaved, world, fixed>>

\* A drive takes a command only when it is there and idle.
Accepts(d) == d \in present /\ hw[d].op = "idle"
Sent(t) == hist' = [hist EXCEPT ![t] = [sent |-> @.sent \cup {Dj(t).step}, asked |-> FALSE]]

\* The step's own failure ends the command without a trace on the drive.
Ends(t, ok, keep) ==
  LET erase == Current(t) = "erase" IN
  task' = [task EXCEPT ![t] = [pc |-> IF erase THEN "pw_clear" ELSE "idle",
                               ok |-> ok, keep |-> erase /\ keep]]

\* The command that does the step: SET PASSWORD first for an erase.
Issue(t) ==
  LET d == Drv(t) IN
  /\ At(t, "issue")
  /\ Accepts(d)
  /\ IF Current(t) = "erase"
     THEN /\ hw' = [hw EXCEPT ![d].lock = IF @ = Nobody THEN t[1] ELSE @]
          /\ Goto(t, "e_unit")
          /\ UNCHANGED hist
     ELSE /\ hw' = [hw EXCEPT ![d].op = Current(t)]
          /\ Goto(t, "busy")
          /\ Sent(t)
  /\ UNCHANGED <<store, fmt, unsaved, present, plan, next, budget>>

\* The drive is not there, busy, or refuses the command.
Rejected(t) ==
  /\ At(t, "issue")
  /\ \/ ~Accepts(Drv(t)) /\ UNCHANGED budget
     \/ Spend("fail")
  /\ Ends(t, FALSE, hw[Drv(t)].lock # Nobody)
  /\ UNCHANGED <<store, fmt, unsaved, world, plan, next, hist>>

\* A failed SET PASSWORD may still have set it.
PasswordUnsure(t) ==
  LET d == Drv(t) IN
  /\ At(t, "issue") /\ Current(t) = "erase" /\ Accepts(d) /\ hw[d].lock = Nobody
  /\ Spend("fail")
  /\ hw' = [hw EXCEPT ![d].lock = t[1]]
  /\ Ends(t, FALSE, TRUE)
  /\ UNCHANGED <<store, fmt, unsaved, present, plan, next, hist>>

\* SECURITY ERASE PREPARE and UNIT, which need the drive's own password.
TakesErase(t) == Accepts(Drv(t)) /\ hw[Drv(t)].lock = t[1]
EraseUnit(t) ==
  LET d == Drv(t) IN
  /\ At(t, "e_unit")
  /\ TakesErase(t)
  /\ hw' = [hw EXCEPT ![d].op = "erase"]
  /\ Goto(t, "busy")
  /\ Sent(t)
  /\ UNCHANGED <<store, fmt, unsaved, present, plan, next, budget>>

\* PREPARE fails: the password is taken off again, unless that fails too.
ErasePrepareFails(t) ==
  LET d == Drv(t) IN
  /\ At(t, "e_unit")
  /\ \/ ~TakesErase(t) /\ UNCHANGED <<hw, budget>> /\ Ends(t, FALSE, TRUE)
     \/ /\ TakesErase(t) /\ Spend("fail")
        /\ \/ UNCHANGED hw /\ Ends(t, FALSE, TRUE)
           \/ hw' = [hw EXCEPT ![d].lock = Nobody] /\ Ends(t, FALSE, FALSE)
  /\ UNCHANGED <<store, fmt, unsaved, present, plan, next, hist>>

\* The drive answers when it is done; a drive that is gone answers nothing.
Answered(t) ==
  LET d == Drv(t) IN
  /\ At(t, "busy")
  /\ \/ d \in present /\ hw[d].op = "idle"
        /\ Ends(t, hw[d].good /\ (Current(t) = "erase" => hw[d].lock = Nobody), TRUE)
     \/ d \notin present /\ Ends(t, FALSE, TRUE)
  /\ UNCHANGED <<store, fmt, unsaved, world, fixed>>

\* Mutant: a failed erase takes the password off the record too.
ClearPasswordAlways(t) ==
  /\ At(t, "pw_clear")
  /\ SetDj(t, [Dj(t) EXCEPT !.password = FALSE])
  /\ Goto(t, "pw_saved")
  /\ UNCHANGED <<inv, invFile, jobsFile, fmt, unsaved, world, fixed>>

\* The password leaves the record when it is off the drive for sure.
ClearPassword(t) ==
  /\ At(t, "pw_clear")
  /\ SetDj(t, [Dj(t) EXCEPT !.password = @ /\ ~task[t].ok /\ task[t].keep])
  /\ Goto(t, "pw_saved")
  /\ UNCHANGED <<inv, invFile, jobsFile, fmt, unsaved, world, fixed>>

SaveCleared(t) ==
  /\ At(t, "pw_saved")
  /\ Save
  /\ Goto(t, "idle")
  /\ UNCHANGED <<fmt, unsaved, world, fixed>>

\* Back to idle; every step but the partition then saves the inventory.
SetIdle(t) ==
  /\ At(t, "idle")
  /\ SetActivity(Drv(t), "idle")
  /\ Goto(t, IF Current(t) = "partition" THEN "result" ELSE "persist")
  /\ UNCHANGED <<invFile, jobs, jobsFile, fmt, unsaved, world, fixed>>

PersistStep(t) ==
  /\ At(t, "persist")
  /\ Persist
  /\ Goto(t, "result")
  /\ UNCHANGED <<fmt, unsaved, world, fixed>>

\* drivetest::start, and the test's own task: it puts the drive back to idle
\* (never one that went missing) before the worker goes on.
BeginTest(t) ==
  /\ At(t, "begin") /\ Current(t) = "test"
  /\ SetActivity(Drv(t), "testing")
  /\ Goto(t, "testing")
  /\ UNCHANGED <<invFile, jobs, jobsFile, fmt, unsaved, world, fixed>>

TestEnds(t) ==
  LET d == Drv(t) IN
  /\ At(t, "testing")
  /\ inv' = [inv EXCEPT ![d].activity = IF @ = "missing" THEN @ ELSE "idle"]
  /\ \E ok \in {TRUE, FALSE} :
       /\ IF ok THEN d \in present /\ UNCHANGED budget
          ELSE IF d \in present THEN Spend("fail") ELSE UNCHANGED budget
       /\ task' = [task EXCEPT ![t] = [@ EXCEPT !.pc = "persist", !.ok = ok]]
  /\ UNCHANGED <<invFile, jobs, jobsFile, fmt, unsaved, world, plan, next, hist>>

\* enroll: the engine opens the drive and formats a slab on it, or fails;
\* then the drive is recorded as a member.
BeginEnroll(t) ==
  /\ At(t, "begin") /\ Current(t) = "enroll"
  /\ \/ Goto(t, "e_write") /\ UNCHANGED budget
     \/ Spend("fail") /\ task' = [task EXCEPT ![t] = [@ EXCEPT !.pc = "result", !.ok = FALSE]]
  /\ UNCHANGED <<store, fmt, unsaved, world, plan, next, hist>>

Enrolled(t) ==
  /\ At(t, "e_write")
  /\ inv' = [inv EXCEPT ![Drv(t)].fleet = TRUE]
  /\ task' = [task EXCEPT ![t] = [@ EXCEPT !.pc = "persist", !.ok = TRUE]]
  /\ UNCHANGED <<invFile, jobs, jobsFile, fmt, unsaved, world, fixed>>

----------------------------------------------------------------------------
(* A format run: start's and reattach's task.                              *)

\* FORMAT UNIT goes to the drive, or fails.
FormatIssue(f) ==
  LET d == f[2] IN
  /\ fmt[f].pc = "issue"
  /\ \/ /\ Accepts(d)
        /\ hw' = [hw EXCEPT ![d].op = "format", ![d].formatted = FALSE]
        /\ hist' = [hist EXCEPT ![f] = [sent |-> @.sent \cup {Dj(f).step}, asked |-> FALSE]]
        /\ fmt' = [fmt EXCEPT ![f].pc = "busy"]
        /\ UNCHANGED budget
     \/ /\ IF Accepts(d) THEN Spend("fail") ELSE UNCHANGED budget
        /\ fmt' = [fmt EXCEPT ![f] = [pc |-> "finish", run |-> "failed"]]
        /\ UNCHANGED <<hw, hist>>
  /\ UNCHANGED <<store, task, unsaved, present, plan, next>>

\* The drive is ready again: the sectors must read as asked.  The handle is
\* set first, the drive's record after it.
FormatEnds(f) ==
  LET d == f[2] IN
  /\ fmt[f].pc = "busy"
  /\ d \in present => hw[d].op = "idle"
  /\ fmt' = [fmt EXCEPT ![f] = [pc |-> "finish",
               run |-> IF d \in present /\ hw[d].good /\ hw[d].formatted
                       THEN "done" ELSE "failed"]]
  /\ UNCHANGED <<store, task, unsaved, world, fixed>>

FormatFinish(f) ==
  LET d == f[2] IN
  /\ fmt[f].pc = "finish"
  /\ inv' = [inv EXCEPT ![d].activity = IF @ = "formatting" THEN "idle" ELSE @,
                        ![d].format = fmt[f].run]
  /\ fmt' = [fmt EXCEPT ![f].pc = "persist"]
  /\ UNCHANGED <<invFile, jobs, jobsFile, task, unsaved, world, fixed>>

FormatPersist(f) ==
  /\ fmt[f].pc = "persist"
  /\ Persist
  /\ fmt' = [fmt EXCEPT ![f].pc = "none"]
  /\ UNCHANGED <<task, unsaved, world, fixed>>

----------------------------------------------------------------------------
(* The world: the drives at work, pulled and put back; the scans.          *)

\* The drive is done.  An erase that went well leaves it unlocked.
HwEnds(d) ==
  /\ hw[d].op # "idle"
  /\ \E good \in {TRUE, FALSE} :
       /\ IF good THEN UNCHANGED budget ELSE Spend("fail")
       /\ hw' = [hw EXCEPT ![d] =
                  [op |-> "idle", good |-> good,
                   lock |-> IF good /\ @.op = "erase" THEN Nobody ELSE @.lock,
                   formatted |-> @.formatted \/ (good /\ @.op = "format")]]
  /\ UNCHANGED <<store, task, fmt, unsaved, present, plan, next, hist>>

Pull(d) ==
  /\ d \in present
  /\ Spend("pull")
  /\ present' = present \ {d}
  /\ UNCHANGED <<store, task, fmt, unsaved, hw, plan, next, hist>>

Push(d) ==
  /\ d \notin present
  /\ present' = present \cup {d}
  /\ UNCHANGED <<store, task, fmt, unsaved, hw, fixed>>

\* merge_observed: gone is missing, whatever it was doing; back is idle.
Scan(d) ==
  /\ \/ d \notin present /\ inv[d].activity # "missing" /\ SetActivity(d, "missing")
     \/ d \in present /\ inv[d].activity = "missing" /\ SetActivity(d, "idle")
  /\ UNCHANGED <<invFile, jobs, jobsFile, task, fmt, unsaved, world, fixed>>

\* Every other part of the daemon saves the inventory when it likes.
OtherPersist ==
  /\ invFile # inv
  /\ Persist
  /\ UNCHANGED <<task, fmt, unsaved, world, fixed>>

----------------------------------------------------------------------------
(* A restart: what was not saved is lost; recover reads what was.          *)

StoppedAt(j, d) ==
  LET r == jobsFile[j].dj[d] IN
  IF r.step < Len(plan[j]) THEN plan[j][r.step + 1] ELSE "none"

\* recover_action.
Reattach(j, d) ==
  /\ jobsFile[j].dj[d].state = "running"
  /\ \/ StoppedAt(j, d) = "format" /\ Kind[d] # "nvme"
     \/ StoppedAt(j, d) = "sanitize"
Interrupt(j, d) ==
  \/ jobsFile[j].dj[d].state = "queued"
  \/ jobsFile[j].dj[d].state = "running" /\ ~Reattach(j, d) /\ StoppedAt(j, d) # "none"

\* orphan_action: a busy drive that no job has a step running on.
Owned(d) == \E j \in Jobs : jobsFile[j].dj[d].state = "running"
Formatting(d) ==
  /\ invFile[d].activity = "formatting" /\ invFile[d].format = "running"
  /\ Kind[d] # "nvme" /\ ~Owned(d)
\* Mutant: a test that was running is not looked at.
OrphanFormatsOnly(d) ==
  invFile[d].activity \in {"formatting", "sanitizing"} /\ ~Owned(d) /\ ~Formatting(d)
Orphan(d) ==
  \/ invFile[d].activity \in {"formatting", "sanitizing"} /\ ~Owned(d) /\ ~Formatting(d)
  \/ invFile[d].activity = "testing"

\* idle_orphan, with the drives of the jobs' interrupted steps set idle too.
AfterOrphans ==
  [d \in Drives |->
     IF ~Orphan(d) THEN invFile[d]
     ELSE [invFile[d] EXCEPT !.activity = "idle",
             !.format = IF invFile[d].activity = "formatting" /\ @ = "running"
                        THEN "interrupted" ELSE @]]
AfterInterrupts ==
  [d \in Drives |->
     IF (\E j \in Jobs : Interrupt(j, d)) /\ AfterOrphans[d].activity \in {"formatting", "sanitizing"}
     THEN [AfterOrphans[d] EXCEPT !.activity = "idle"] ELSE AfterOrphans[d]]

\* recover, awaited before the monitor and the API start.  The commands the
\* host itself was carrying out end with it.
Restart ==
  /\ Spend("crash")
  /\ inv' = AfterInterrupts
  /\ invFile' = AfterOrphans
  /\ jobs' = [j \in Jobs |->
               [jobsFile[j] EXCEPT !.dj =
                 [d \in Drives |->
                    IF Interrupt(j, d) THEN [jobsFile[j].dj[d] EXCEPT !.state = "interrupted"]
                    ELSE jobsFile[j].dj[d]]]]
  /\ jobsFile' = jobs'
  /\ task' = [t \in Runs |-> IF Reattach(t[1], t[2]) THEN [NoTask EXCEPT !.pc = "w_start"]
                             ELSE NoTask]
  /\ fmt' = [f \in Formats |-> IF f[1] = Nobody /\ Formatting(f[2])
                               THEN [pc |-> "busy", run |-> "running"] ELSE NoFormat]
  /\ hw' = [d \in Drives |-> IF hw[d].op = "partition"
                             THEN [hw[d] EXCEPT !.op = "idle", !.good = TRUE] ELSE hw[d]]
  /\ unsaved' = {}
  /\ UNCHANGED <<plan, next, present, hist>>

\* watch: follow what the drive is doing.  A SCSI format with a running
\* record is followed like any other; without one, and for a sanitize, the
\* drive is polled until it is ready.
WatchStart(t) ==
  LET d == Drv(t)
      byRecord == Current(t) = "format" /\ inv[d].format = "running" IN
  /\ At(t, "w_start")
  /\ SetActivity(d, Busy(Current(t)))
  /\ IF byRecord
     THEN /\ fmt' = [fmt EXCEPT ![t] = [pc |-> "busy", run |-> "running"]]
          /\ Goto(t, "w_format")
     ELSE /\ Goto(t, "w_wait")
          /\ UNCHANGED fmt
  /\ UNCHANGED <<invFile, jobs, jobsFile, unsaved, world, fixed>>

WatchFormat(t) ==
  /\ At(t, "w_format")
  /\ fmt[t].run # "running"
  /\ task' = [task EXCEPT ![t] = [@ EXCEPT !.pc = "w_idle", !.ok = fmt[t].run = "done"]]
  /\ UNCHANGED <<store, fmt, unsaved, world, fixed>>

\* A SCSI drive that is ready reads as done, whatever was asked of it; an
\* NVMe drive tells how its last sanitize went, whenever that was.
WatchWait(t) ==
  LET d == Drv(t) IN
  /\ At(t, "w_wait")
  /\ d \in present => hw[d].op = "idle"
  /\ \E ok \in IF d \notin present THEN {FALSE}
               ELSE IF Kind[d] = "nvme" THEN {TRUE, FALSE} ELSE {hw[d].good} :
       task' = [task EXCEPT ![t] = [@ EXCEPT !.pc = "w_idle", !.ok = ok]]
  /\ UNCHANGED <<store, fmt, unsaved, world, fixed>>

WatchIdle(t) ==
  /\ At(t, "w_idle")
  /\ SetActivity(Drv(t), "idle")
  /\ Goto(t, "w_result")
  /\ UNCHANGED <<invFile, jobs, jobsFile, fmt, unsaved, world, fixed>>

\* The step is done: the job is, or waits for a resume.
WatchResult(t) ==
  /\ At(t, "w_result")
  /\ IF task[t].ok
     THEN SetDj(t, [Dj(t) EXCEPT !.step = @ + 1,
                      !.state = IF Dj(t).step + 1 >= Len(plan[t[1]]) THEN "done" ELSE "interrupted"])
     ELSE SetState(t, "failed")
  /\ Goto(t, "w_save")
  /\ UNCHANGED <<inv, invFile, jobsFile, fmt, unsaved, world, fixed>>

WatchSave(t) ==
  /\ At(t, "w_save")
  /\ Save
  /\ Goto(t, "w_persist")
  /\ UNCHANGED <<fmt, unsaved, world, fixed>>

WatchPersist(t) ==
  /\ At(t, "w_persist")
  /\ Persist
  /\ task' = [task EXCEPT ![t] = NoTask]
  /\ UNCHANGED <<fmt, unsaved, world, fixed>>

----------------------------------------------------------------------------
RunStep(t) ==
  \/ BeginFormat(t) \/ PersistFormat(t) \/ WaitFormat(t)
  \/ BeginCommand(t) \/ BeginErase(t) \/ SavePassword(t) \/ BusyErase(t)
  \/ Issue(t) \/ Rejected(t) \/ PasswordUnsure(t) \/ EraseUnit(t) \/ ErasePrepareFails(t)
  \/ Answered(t) \/ ClearPassword(t) \/ SaveCleared(t) \/ SetIdle(t) \/ PersistStep(t)
  \/ BeginTest(t) \/ TestEnds(t) \/ BeginEnroll(t) \/ Enrolled(t)

RunDrive(t) ==
  \/ Spawn(t) \/ Top(t) \/ TakeLane(t) \/ Check(t) \/ Allowed(t) \/ Denied(t)
  \/ Unavailable(t) \/ SaveRun(t) \/ RunStep(t) \/ Result(t)
  \/ SaveStep(t) \/ SaveEnd(t)

Watch(t) ==
  \/ WatchStart(t) \/ WatchFormat(t) \/ WatchWait(t) \/ WatchIdle(t)
  \/ WatchResult(t) \/ WatchSave(t) \/ WatchPersist(t)

Format(f) == FormatIssue(f) \/ FormatEnds(f) \/ FormatFinish(f) \/ FormatPersist(f)

Request ==
  \/ \E p \in Plans, sel \in Selections : Submit(p, sel)
  \/ \E j \in Jobs : Cancel(j) \/ CancelSave(j) \/ Resume(j)

World == \E d \in Drives : HwEnds(d) \/ Pull(d) \/ Push(d) \/ Scan(d)

Next ==
  \/ Request
  \/ \E t \in Runs : RunDrive(t) \/ Watch(t)
  \/ \E f \in Formats : Format(f)
  \/ World
  \/ OtherPersist
  \/ Restart

Spec == Init /\ [][Next]_vars

----------------------------------------------------------------------------
(* Fairness: as long as a task, a format run or a drive can go on, one of  *)
(* them does.  That is less than the runtime gives each of them; requests, *)
(* troubles and the saves of other parts may never come.                   *)
Work ==
  \/ \E t \in Runs : RunDrive(t) \/ Watch(t)
  \/ \E f \in Formats : Format(f)
  \/ \E d \in Drives : HwEnds(d)
  \/ \E j \in Jobs : CancelSave(j)

FairSpec == Spec /\ WF_vars(Work)

----------------------------------------------------------------------------
(* What the worker promises.                                               *)

\* A drive is never locked with a password nobody knows: jobs.json holds the
\* password of the job that set it, from before the drive takes it until it
\* is off again, through failures, cancels and restarts (run_step's
\* SecurityErase saves before it sends; `keep` decides when it is cleared).
PasswordOnRecord ==
  \A d \in Drives :
    LET j == hw[d].lock IN
    j # Nobody => jobs[j].dj[d].password /\ jobsFile[j].dj[d].password

\* The device command of step of run t goes to the drive in this step.
Sends(t) ==
  \/ task[t].pc \in {"issue", "e_unit"} /\ task'[t].pc = "busy"
  \/ fmt[t].pc = "issue" /\ fmt'[t].pc = "busy"

\* No destructive step is ever run again blind: a command already sent is
\* sent again only when a resume asked for the run since (recover never puts
\* a run back to work, and running is saved before the command is sent).
NeverRerunBlind ==
  [][\A t \in Runs : Sends(t) /\ Dj(t).step \in hist[t].sent => hist[t].asked]_vars

\* What jobs.json says has ended, has ended: no cancel, resume, late task or
\* restart turns a finished drive of a job back into one in flight, or
\* rewrites how it ended.
EndedStays ==
  [][\A t \in Runs :
       LET was == jobsFile[t[1]].dj[t[2]].state
           is == jobsFile'[t[1]].dj[t[2]].state IN
       was \in {"done", "failed", "refused"} => is \in {was, "absent"}]_vars

\* No drive is left reading busy: whenever the inventory says formatting,
\* sanitizing or testing, a task works on the drive, or a job still says it
\* has a step running on it (restarts go through orphan_action and recover).
BusyIsOwned ==
  \A d \in Drives :
    inv[d].activity \notin {"idle", "missing"} =>
      \/ \E j \in Jobs : task[<<j, d>>].pc # "none" \/ jobs[j].dj[d].state = "running"
      \/ \E j \in Jobs \cup {Nobody} : fmt[<<j, d>>].pc # "none"

\* Every run of a drive ends: it gets its lane however the others fare, its
\* drive answers or is gone, and nothing waits for what nobody will do.  The
\* runs are finitely many, so the worker comes to rest again and again.
RunsEnd == []<>(\A t \in Runs : task[t].pc = "none")

\* What a job reports done was done: the drive was sent the command of every
\* device step counted as done (watch counts a step once the drive reads
\* ready, recover_action having found it running in jobs.json).
DoneStepsRan ==
  \A t \in Runs : \A i \in 1..Dj(t).step :
    plan[t[1]][i] \in {"format", "sanitize", "erase", "partition"} => i - 1 \in hist[t].sent

\* What a job reports running is being worked on: a task runs it, or watches
\* it (recover interrupts whatever else was in flight).
RunningIsWorkedOn ==
  \A t \in Runs : Dj(t).state = "running" => task[t].pc # "none"

\* A cancelled drive of a job never starts a step after all.
CancelledNeverStarts ==
  [][\A t \in Runs : Dj(t).state = "cancelled" => (Dj(t).state)' # "running"]_vars
==============================================================================
