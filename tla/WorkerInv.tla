------------------------------ MODULE WorkerInv ------------------------------
(* The inductive invariants behind what Worker promises: what must hold      *)
(* between the awaits of a run, for every job that is kept (IInv, behind     *)
(* PasswordOnRecord and BusyIsOwned), and what a run's file, its task and    *)
(* the commands sent for it say of each other (OnceInv, behind EndedStays    *)
(* and NeverRerunBlind).                                                     *)
EXTENDS Worker

\* A job that is not kept is blank, in memory and in the file; ids not yet
\* handed out are not kept; whatever works for a job works for a kept one.
KeptInv ==
  /\ \A j \in Jobs : ~jobs[j].kept => jobs[j] = NoJob
  /\ \A j \in Jobs : ~jobsFile[j].kept => jobsFile[j] = NoJob
  /\ \A j \in Jobs : j >= next => ~jobs[j].kept /\ ~jobsFile[j].kept
  /\ \A t \in Runs : task[t].pc # "none" => jobs[t[1]].kept

Locks(t) == hw[t[2]].lock = t[1]
InFile(t) == jobsFile[t[1]].dj[t[2]].password
OnRecord(t) == Dj(t).password /\ InFile(t)
\* From here the drive may be locked: between the password's save and the
\* decision whether it stays.
Erasing(t) ==
  \/ task[t].pc \in {"pw_busy", "e_unit"}
  \/ task[t].pc \in {"issue", "busy"} /\ Current(t) = "erase"

\* Locked means recorded; so does about to lock; and a password that leaves
\* the record is off the drive, in the answer, the job and the file.
PasswordOK(t) ==
  /\ Locks(t) \/ Erasing(t) => OnRecord(t)
  /\ task[t].pc = "pw_clear" /\ (task[t].ok \/ ~task[t].keep) => ~Locks(t)
  /\ task[t].pc = "pw_saved" /\ ~Dj(t).password => ~Locks(t)

\* A password in memory is in the file too, but while it is being saved.
SavedOK(t) ==
  /\ Dj(t).password /\ task[t].pc # "pw_save" => InFile(t)
  /\ task[t].pc = "pw_save" => Dj(t).password

\* What a run is about to send is what its step asks for.
StepOK(t) ==
  /\ task[t].pc \in {"pw_save", "pw_busy"} => Current(t) = "erase"
  /\ task[t].pc = "issue" => Current(t) \in {"format", "sanitize", "erase", "partition"}

\* A run that is at its step, or watches it, says so; no resume takes it over.
WorkPcs == {"save_run", "begin", "f_persist", "f_wait", "pw_save", "pw_busy", "issue", "e_unit", "busy",
            "testing", "e_write", "pw_clear", "pw_saved", "idle", "persist", "result",
            "w_start", "w_wait", "w_format", "w_idle", "w_result"}
StateOK(t) == task[t].pc \in WorkPcs => Dj(t).state = "running"

RunOK(t) == PasswordOK(t) /\ SavedOK(t) /\ StepOK(t) /\ StateOK(t)

\* Who sets a drive back to idle: a run on its way there, a format run, which
\* does so only to a drive that reads formatting, or nobody, for a job that a
\* restart left between its last step and its end.
IdlePcs == {"issue", "e_unit", "busy", "pw_clear", "pw_saved", "idle", "testing",
            "w_start", "w_wait", "w_format", "w_idle"}
Left(t) == task[t].pc = "none" /\ Dj(t).state = "running"
FormatsOn(d) ==
  \/ \E j \in Jobs : task[<<j, d>>].pc = "f_persist"
  \/ \E j \in Jobs \cup {Nobody} : fmt[<<j, d>>].pc \in {"issue", "busy", "finish"}
OwnedOK(d) ==
  inv[d].activity \notin {"idle", "missing"} =>
    \/ \E j \in Jobs : task[<<j, d>>].pc \in IdlePcs \/ Left(<<j, d>>)
    \/ inv[d].activity = "formatting" /\ FormatsOn(d)

IInv ==
  /\ TypeOK /\ KeptInv
  /\ \A t \in Runs : RunOK(t)
  /\ \A d \in Drives : OwnedOK(d)

-----------------------------------------------------------------------------
(* Behind EndedStays and NeverRerunBlind: what jobs.json says of a run, what *)
(* was sent for it, and how far its task is.                                 *)
InJobsFile(t) == jobsFile[t[1]].dj[t[2]]

\* What ended on disk ended so in memory, and no task is on the way to a step
\* of a run that ended: Top looks, and nobody else ends a run that has a task.
Ended == {"done", "failed", "refused"}
LanePcs == {"lane", "check", "recheck"}
EndedOK(t) ==
  /\ InJobsFile(t).state \in Ended => Dj(t).state = InJobsFile(t).state
  /\ task[t].pc \in LanePcs => Dj(t).state \notin Ended

\* The step on disk is never ahead, and is the one at work from SaveRun to the
\* result.  Commands were sent for no later step; before its command a run
\* stands at a step not sent yet, or asked for again.
AtStepPcs == WorkPcs \ {"save_run"}
PrePcs == {"spawn", "top", "lane", "check", "recheck", "save_run", "begin", "f_persist",
           "pw_save", "pw_busy", "issue", "e_unit", "save_step"}
SentOK(t) ==
  /\ InJobsFile(t).step <= Dj(t).step
  /\ task[t].pc \in AtStepPcs => InJobsFile(t).step = Dj(t).step
  /\ \A i \in hist[t].sent : i <= InJobsFile(t).step
  /\ task[t].pc \in PrePcs \/ fmt[t].pc = "issue" => Dj(t).step \notin hist[t].sent \/ hist[t].asked

\* A run waits for its format run as long as that is at work, and the handle
\* says so from before the wait.
HandleOK(t) ==
  /\ fmt[t].pc = "issue" => task[t].pc = "f_wait"
  /\ fmt[t].pc = "busy" => task[t].pc \in {"f_wait", "w_format"}
  /\ fmt[t].pc \in {"issue", "busy"} \/ task[t].pc = "f_persist" => fmt[t].run = "running"

OnceOK(t) == EndedOK(t) /\ SentOK(t) /\ HandleOK(t)
OnceInv == \A t \in Runs : OnceOK(t)

\* With it: a locked drive's password is in jobs.json (PasswordOnRecord), and a
\* drive that reads busy has a task or a job at work on it (BusyIsOwned).
WorkerInv == IInv /\ OnceInv /\ PasswordOnRecord /\ BusyIsOwned
==============================================================================
