---------------------------- MODULE WorkerProofs ----------------------------
(* What TLAPS proves of Worker, for every set of drives, plans, limits and   *)
(* troubles: a locked drive's password is on record, a drive that reads busy *)
(* has somebody at work on it, nothing is run again blind, and what ended    *)
(* stays as it ended.                                                        *)
EXTENDS WorkerInv, FiniteSetTheorems, TLAPS

\* As many jobs are kept as there are ids; with fewer, the save drops the
\* password of a job whose erase failed (worker.rs, KEEP_JOBS).
AllKept == KeepJobs >= MaxJobs

-----------------------------------------------------------------------------
(* The operators the actions are built from.                                 *)

LEMMA RunParts ==
  ASSUME NEW t \in Runs
  PROVE  t[1] \in Jobs /\ t[2] \in Drives /\ t = <<t[1], t[2]>> /\ t[1] # Nobody /\ t \in Formats
BY DEF Runs, Jobs, Nobody, Formats

LEMMA RunIs ==
  ASSUME NEW j \in Jobs, NEW d \in Drives
  PROVE  <<j, d>> \in Runs /\ <<j, d>>[1] = j /\ <<j, d>>[2] = d
BY DEF Runs

LEMMA OtherRun ==
  ASSUME NEW t \in Runs, NEW u \in Runs, t # u
  PROVE  t[1] # u[1] \/ t[2] # u[2]
BY DEF Runs

\* Nothing is dropped while there is room for every job.
LEMMA NoneDropped ==
  ASSUME AllKept, TypeOK
  PROVE  Dropped = {}
<1> DEFINE kept == {j \in Jobs : jobs[j].kept}
           fin(j) == {k \in 1..j : JobFinished(k)}
<1>1. MaxJobs \in Nat /\ KeepJobs \in Nat
  BY WorkerAssumption DEF WorkerAssumption
<1>2. IsFiniteSet(Jobs) /\ Cardinality(Jobs) = MaxJobs
  <2>1. IsFiniteSet(1..MaxJobs) /\ Cardinality(1..MaxJobs) = IF 1 > MaxJobs THEN 0 ELSE MaxJobs - 1 + 1
    BY <1>1, FS_Interval
  <2>2. QED
    BY <1>1, <2>1 DEF Jobs
<1>3. Cardinality(kept) <= MaxJobs /\ Cardinality(kept) \in Nat
  BY <1>2, FS_Subset, FS_CardinalityType
<1>4. ASSUME NEW j \in Dropped
      PROVE  FALSE
  <2>1. /\ j \in Jobs /\ JobFinished(j)
        /\ Cardinality(fin(j)) + KeepJobs <= Cardinality(kept)
    BY <1>4 DEF Dropped
  <2>2. IsFiniteSet(fin(j))
    <3>1. fin(j) \subseteq Jobs
      BY <1>1, <2>1 DEF Jobs
    <3>2. QED
      BY <1>2, <3>1, FS_Subset
  <2>3. j \in fin(j)
    BY <1>1, <2>1 DEF Jobs
  <2>4. Cardinality(fin(j)) \in Nat /\ Cardinality(fin(j)) # 0
    BY <2>2, <2>3, FS_CardinalityType, FS_EmptySet
  <2> HIDE DEF kept, fin
  <2>5. QED
    BY <1>1, <1>3, <2>1, <2>4 DEF AllKept
<1>5. QED
  BY <1>4

\* Save: the file is as memory, and memory as it was.
LEMMA SaveFrame ==
  ASSUME AllKept, TypeOK, Save
  PROVE  jobs' = jobs /\ jobsFile' = jobs /\ UNCHANGED <<inv, invFile>>
<1>1. jobs = [j \in Jobs |-> jobs[j]]
  BY DEF TypeOK
<1>2. QED
  BY <1>1, NoneDropped DEF Save

\* Worker::with changes one drive of one job.
LEMMA SetDjFrame ==
  ASSUME TypeOK, NEW t \in Runs, jobs[t[1]].kept, NEW r \in DriveJob, SetDj(t, r)
  PROVE  /\ jobs' \in [Jobs -> Job]
         /\ \A j \in Jobs : jobs'[j].kept = jobs[j].kept
         /\ Dj(t)' = r
         /\ \A j \in Jobs \ {t[1]} : jobs'[j] = jobs[j]
         /\ \A u \in Runs \ {t} : Dj(u)' = Dj(u)
<1>1. t[1] \in Jobs /\ t[2] \in Drives /\ jobs[t[1]] \in Job /\ jobs \in [Jobs -> Job]
  BY RunParts DEF TypeOK
<1> DEFINE job == [jobs[t[1]] EXCEPT !.dj = [jobs[t[1]].dj EXCEPT ![t[2]] = r]]
<1>2. job \in Job /\ job.kept = jobs[t[1]].kept
      /\ job.dj = [jobs[t[1]].dj EXCEPT ![t[2]] = r]
  BY <1>1 DEF Job
<1>3. jobs' = [jobs EXCEPT ![t[1]] = job]
  BY DEF SetDj
<1> HIDE DEF job
<1>4. jobs' \in [Jobs -> Job] /\ \A j \in Jobs : jobs'[j] = IF j = t[1] THEN job ELSE jobs[j]
  BY <1>1, <1>2, <1>3
<1>5. Dj(t)' = r
  BY <1>1, <1>2, <1>4 DEF Dj, Job
<1>6. ASSUME NEW u \in Runs \ {t}
      PROVE  Dj(u)' = Dj(u)
  <2>1. u[1] \in Jobs /\ u[2] \in Drives /\ (u[1] # t[1] \/ u[2] # t[2])
    BY RunParts, OtherRun
  <2>2. CASE u[1] # t[1]
    BY <1>4, <2>1, <2>2 DEF Dj
  <2>3. CASE u[1] = t[1] /\ u[2] # t[2]
    BY <1>1, <1>2, <1>4, <2>1, <2>3 DEF Dj, Job
  <2>4. QED
    BY <2>1, <2>2, <2>3
<1>7. QED
  BY <1>2, <1>4, <1>5, <1>6

LEMMA DjType ==
  ASSUME TypeOK, NEW t \in Runs
  PROVE  /\ Dj(t) \in DriveJob
         /\ \A s \in DjState : [Dj(t) EXCEPT !.state = s] \in DriveJob
         /\ \A p \in BOOLEAN : [Dj(t) EXCEPT !.password = p] \in DriveJob
<1>1. Dj(t) \in DriveJob
  BY RunParts DEF TypeOK, Job, Dj
<1>2. QED
  BY <1>1 DEF DriveJob
\* A run's task is replaced, or goes to another step.
LEMMA TaskFrame ==
  ASSUME TypeOK, NEW t \in Runs, NEW r \in Task, task' = [task EXCEPT ![t] = r]
  PROVE  task' \in [Runs -> Task] /\ task'[t] = r /\ \A u \in Runs \ {t} : task'[u] = task[u]
BY DEF TypeOK

LEMMA GotoFrame ==
  ASSUME TypeOK, NEW t \in Runs, NEW pc \in {"none"} \cup RunPcs \cup WatchPcs, Goto(t, pc)
  PROVE  \E r \in Task : /\ task' = [task EXCEPT ![t] = r]
                         /\ r.pc = pc /\ r.ok = task[t].ok /\ r.keep = task[t].keep
<1> DEFINE r == [task[t] EXCEPT !.pc = pc]
<1>1. r \in Task /\ r.pc = pc /\ r.ok = task[t].ok /\ r.keep = task[t].keep
  BY DEF TypeOK, Task
<1>2. task' = [task EXCEPT ![t] = r]
  BY DEF Goto
<1>3. QED
  BY <1>1, <1>2

LEMMA ActivityType ==
  ASSUME TypeOK, NEW d \in Drives, NEW a \in Activity, SetActivity(d, a)
  PROVE  /\ inv' \in [Drives -> Drive] /\ inv'[d].activity = a
         /\ \A e \in Drives \ {d} : inv'[e] = inv[e]
<1>1. inv[d] \in Drive /\ inv \in [Drives -> Drive]
  BY DEF TypeOK
<1> DEFINE r == [inv[d] EXCEPT !.activity = a]
<1>2. r \in Drive /\ r.activity = a
  BY <1>1 DEF Drive
<1>3. inv' = [inv EXCEPT ![d] = r]
  BY DEF SetActivity
<1> HIDE DEF r
<1>4. QED
  BY <1>1, <1>2, <1>3

LEMMA BudgetType ==
  ASSUME TypeOK, UNCHANGED budget \/ \E k \in Trouble : Spend(k)
  PROVE  budget' \in [Trouble -> Nat]
BY DEF TypeOK, Spend

-----------------------------------------------------------------------------
(* What a step of one run must see to.                                       *)

\* The types of what is not jobs or tasks.
WorldOK ==
  /\ inv \in [Drives -> Drive] /\ invFile \in [Drives -> Drive]
  /\ fmt \in [Formats -> FormatRun]
  /\ unsaved \subseteq Jobs
  /\ hw \in [Drives -> Hw]
  /\ present \subseteq Drives
  /\ hist \in [Runs -> History]
  /\ budget \in [Trouble -> Nat]

\* Memory and file stay, are saved, or one drive of one job changes in memory.
JobsStep(t) ==
  \/ UNCHANGED <<jobs, jobsFile>>
  \/ jobs' = jobs /\ jobsFile' = jobs
  \/ UNCHANGED jobsFile /\ \E r \in DriveJob : SetDj(t, r)

FormatWorks == {"issue", "busy", "finish"}

\* The drive is set idle, or a task that will do so has it, or nothing changed.
ActivityStep(t) ==
  /\ \A d \in Drives \ {t[2]} : inv'[d].activity = inv[d].activity
  /\ \A f \in Formats : fmt[f].pc \in FormatWorks => fmt'[f].pc \in FormatWorks
  /\ \/ inv'[t[2]].activity \in {"idle", "missing"}
     \/ task'[t].pc \in IdlePcs
     \/ task'[t].pc = "f_persist" /\ inv'[t[2]].activity = "formatting"
     \/ /\ inv'[t[2]].activity = inv[t[2]].activity /\ task[t].pc \notin IdlePcs
        /\ task[t].pc = "f_persist" => fmt'[t].pc \in FormatWorks

LEMMA Follows ==
  ASSUME IInv
  PROVE  PasswordOnRecord /\ BusyIsOwned
<1>1. ASSUME NEW d \in Drives, hw[d].lock # Nobody
      PROVE  jobs[hw[d].lock].dj[d].password /\ jobsFile[hw[d].lock].dj[d].password
  <2>1. hw[d].lock \in Jobs
    BY <1>1 DEF IInv, TypeOK, Hw
  <2>2. <<hw[d].lock, d>> \in Runs /\ Locks(<<hw[d].lock, d>>)
    BY <2>1, RunIs DEF Locks
  <2>3. OnRecord(<<hw[d].lock, d>>)
    BY <2>2 DEF IInv, RunOK, PasswordOK
  <2>4. QED
    BY <2>3 DEF OnRecord, InFile, Dj
<1>2. ASSUME NEW d \in Drives, inv[d].activity \notin {"idle", "missing"}
      PROVE  \/ \E j \in Jobs : task[<<j, d>>].pc # "none" \/ jobs[j].dj[d].state = "running"
             \/ \E j \in Jobs \cup {Nobody} : fmt[<<j, d>>].pc # "none"
  <2>1. CASE \E j \in Jobs : task[<<j, d>>].pc \in IdlePcs \/ Left(<<j, d>>)
    BY <2>1 DEF IdlePcs, Left, Dj
  <2>2. CASE FormatsOn(d)
    BY <2>2 DEF FormatsOn
  <2>3. QED
    BY <1>2, <2>1, <2>2 DEF IInv, OwnedOK
<1>3. QED
  BY <1>1, <1>2 DEF PasswordOnRecord, BusyIsOwned

\* The runs a step does not concern keep what holds of them.
LEMMA RunStays ==
  ASSUME NEW u \in Runs, RunOK(u), task'[u] = task[u], Dj(u)' = Dj(u), plan'[u[1]] = plan[u[1]],
         InFile(u)' = InFile(u) \/ InFile(u)' = Dj(u).password, Locks(u)' => Locks(u)
  PROVE  RunOK(u)'
<1>1. Current(u)' = Current(u)
  BY DEF Current
<1>2. PasswordOK(u)'
  BY <1>1 DEF RunOK, PasswordOK, Erasing, OnRecord
<1>3. SavedOK(u)' /\ StepOK(u)' /\ StateOK(u)'
  BY <1>1 DEF RunOK, SavedOK, StepOK, StateOK
<1>4. QED
  BY <1>2, <1>3 DEF RunOK

\* A drive that reads busy as before keeps who works on it.
LEMMA OwnedStays ==
  ASSUME NEW d \in Drives, OwnedOK(d), inv'[d].activity \in {"idle", "missing", inv[d].activity},
         \A j \in Jobs : /\ task[<<j, d>>].pc \in IdlePcs => task'[<<j, d>>].pc \in IdlePcs
                         /\ Left(<<j, d>>) => Left(<<j, d>>)',
         FormatsOn(d) => FormatsOn(d)'
  PROVE  OwnedOK(d)'
BY DEF OwnedOK

LEMMA JobsFrame ==
  ASSUME TypeOK, KeptInv, NEW t \in Runs, jobs[t[1]].kept, JobsStep(t)
  PROVE  /\ jobs' \in [Jobs -> Job] /\ jobsFile' \in [Jobs -> Job]
         /\ \A j \in Jobs : jobs'[j].kept = jobs[j].kept
         /\ \A j \in Jobs : jobsFile'[j] = jobsFile[j] \/ jobsFile'[j] = jobs[j]
         /\ \A j \in Jobs : ~jobs'[j].kept => jobs'[j] = NoJob
         /\ \A u \in Runs \ {t} : Dj(u)' = Dj(u)
<1>1. CASE jobs' = jobs
  BY <1>1 DEF JobsStep, TypeOK, KeptInv, Dj
<1>2. CASE UNCHANGED jobsFile /\ \E r \in DriveJob : SetDj(t, r)
  <2>1. PICK r \in DriveJob : SetDj(t, r)
    BY <1>2
  <2>2. QED
    BY <1>2, <2>1, SetDjFrame DEF TypeOK, KeptInv
<1>3. QED
  BY <1>1, <1>2 DEF JobsStep

\* A step of one run: the rest is as it was.
LEMMA RunActs ==
  ASSUME IInv, NEW t \in Runs, task[t].pc # "none",
         NEW r \in Task, task' = [task EXCEPT ![t] = r],
         UNCHANGED <<plan, next>>, WorldOK', JobsStep(t), ActivityStep(t),
         \A u \in Runs \ {t} : Locks(u)' => Locks(u), RunOK(t)'
  PROVE  IInv'
<1>1. TypeOK /\ KeptInv /\ jobs[t[1]].kept
  BY RunParts DEF IInv, KeptInv
<1>2. /\ task' \in [Runs -> Task] /\ task'[t] = r
      /\ \A u \in Runs \ {t} : task'[u] = task[u]
  BY <1>1, TaskFrame
<1>3. /\ jobs' \in [Jobs -> Job] /\ jobsFile' \in [Jobs -> Job]
      /\ \A j \in Jobs : jobs'[j].kept = jobs[j].kept
      /\ \A j \in Jobs : jobsFile'[j] = jobsFile[j] \/ jobsFile'[j] = jobs[j]
      /\ \A j \in Jobs : ~jobs'[j].kept => jobs'[j] = NoJob
      /\ \A u \in Runs \ {t} : Dj(u)' = Dj(u)
  BY <1>1, JobsFrame
<1>4. TypeOK'
  BY <1>1, <1>2, <1>3 DEF TypeOK, WorldOK
<1>5. KeptInv'
  <2>1. \A j \in Jobs : ~jobsFile'[j].kept => jobsFile'[j] = NoJob
    BY <1>1, <1>3 DEF KeptInv
  <2>2. \A j \in Jobs : j >= next' => ~jobs'[j].kept /\ ~jobsFile'[j].kept
    BY <1>1, <1>3 DEF KeptInv
  <2>3. \A u \in Runs : task'[u].pc # "none" => jobs'[u[1]].kept
    BY <1>1, <1>2, <1>3, RunParts DEF KeptInv
  <2>4. QED
    BY <1>3, <2>1, <2>2, <2>3 DEF KeptInv
<1>6. ASSUME NEW u \in Runs
      PROVE  RunOK(u)'
  <2>1. CASE u = t
    BY <2>1
  <2>2. CASE u # t
    <3>1. InFile(u)' = InFile(u) \/ InFile(u)' = Dj(u).password
      BY <1>3, RunParts DEF InFile, Dj
    <3>2. RunOK(u) /\ task'[u] = task[u] /\ Dj(u)' = Dj(u) /\ (Locks(u)' => Locks(u))
      BY <1>2, <1>3, <2>2 DEF IInv
    <3>3. QED
      BY <3>1, <3>2, RunStays
  <2>3. QED
    BY <2>1, <2>2
<1>7. ASSUME NEW d \in Drives
      PROVE  OwnedOK(d)'
  <2>1. \A j \in Jobs : <<j, d>> # t =>
           /\ task'[<<j, d>>] = task[<<j, d>>]
           /\ Left(<<j, d>>) => Left(<<j, d>>)'
    <3>1. ASSUME NEW j \in Jobs, <<j, d>> # t
          PROVE  task'[<<j, d>>] = task[<<j, d>>] /\ Dj(<<j, d>>)' = Dj(<<j, d>>)
      BY <1>2, <1>3, <3>1, RunIs
    <3>2. QED
      BY <3>1 DEF Left
  <2>2. \A j \in Jobs \cup {Nobody} : fmt[<<j, d>>].pc \in FormatWorks => fmt'[<<j, d>>].pc \in FormatWorks
    BY DEF ActivityStep, Formats
  <2>3. ~Left(t)
    BY DEF Left
  <2>4. CASE d # t[2]
    <3>1. \A j \in Jobs : <<j, d>> # t
      BY <2>4, RunIs
    <3>2. inv'[d].activity = inv[d].activity
      BY <2>4 DEF ActivityStep
    <3>3. FormatsOn(d) => FormatsOn(d)'
      BY <2>1, <2>2, <3>1 DEF FormatsOn, FormatWorks
    <3>4. QED
      BY <2>1, <3>1, <3>2, <3>3, OwnedStays DEF IInv
  <2>5. CASE d = t[2]
    <3>1. t[1] \in Jobs /\ t = <<t[1], d>> /\ t \in Formats
      BY <2>5, RunParts
    <3>2. CASE inv'[d].activity \in {"idle", "missing"}
      BY <3>2 DEF OwnedOK
    <3>3. CASE task'[t].pc \in IdlePcs
      BY <3>1, <3>3 DEF OwnedOK
    <3>4. CASE task'[t].pc = "f_persist" /\ inv'[d].activity = "formatting"
      BY <3>1, <3>4 DEF OwnedOK, FormatsOn
    <3>5. CASE /\ inv'[d].activity = inv[d].activity /\ task[t].pc \notin IdlePcs
               /\ task[t].pc = "f_persist" => fmt'[t].pc \in FormatWorks
      <4>1. FormatsOn(d) => FormatsOn(d)'
        BY <2>1, <2>2, <3>1, <3>5 DEF FormatsOn, FormatWorks
      <4>2. \A j \in Jobs : /\ task[<<j, d>>].pc \in IdlePcs => task'[<<j, d>>].pc \in IdlePcs
                            /\ Left(<<j, d>>) => Left(<<j, d>>)'
        BY <2>1, <2>3, <3>5
      <4>3. QED
        BY <3>5, <4>1, <4>2, OwnedStays DEF IInv
    <3>6. QED
      BY <2>5, <3>2, <3>3, <3>4, <3>5 DEF ActivityStep
  <2>6. QED
    BY <2>4, <2>5
<1>8. QED
  BY <1>4, <1>5, <1>6, <1>7 DEF IInv

\* What a run at work may rely on.
LEMMA Facts ==
  ASSUME IInv, NEW t \in Runs, task[t].pc # "none"
  PROVE  /\ TypeOK /\ KeptInv /\ WorldOK /\ RunOK(t) /\ jobs[t[1]].kept
         /\ t[1] \in Jobs /\ t[1] # Nobody /\ t[2] \in Drives /\ t \in Formats
         /\ Dj(t) \in DriveJob /\ task[t] \in Task
         /\ inv[t[2]] \in Drive /\ hw[t[2]] \in Hw /\ fmt[t] \in FormatRun
         /\ hist[t] \in History
<1>1. TypeOK /\ KeptInv /\ RunOK(t)
  BY DEF IInv
<1>2. t[1] \in Jobs /\ t[1] # Nobody /\ t[2] \in Drives /\ t \in Formats
  BY RunParts
<1>3. jobs[t[1]].kept /\ Dj(t) \in DriveJob
  BY <1>1, DjType DEF KeptInv
<1>4. QED
  BY <1>1, <1>2, <1>3 DEF TypeOK, WorldOK

-----------------------------------------------------------------------------
(* The steps of run_drive and watch.                                         *)

Pcs == {"none"} \cup RunPcs \cup WatchPcs

\* The saves of jobs.json.
LEMMA SavesKeep ==
  ASSUME AllKept, IInv, NEW t \in Runs, NEW r \in Task, task' = [task EXCEPT ![t] = r], Save,
         UNCHANGED <<fmt, unsaved, world, fixed>>,
         <<task[t].pc, r.pc>> \in
           {<<"spawn", "top">>, <<"save_run", "begin">>, <<"pw_save", "pw_busy">>,
            <<"pw_saved", "idle">>, <<"save_step", "top">>, <<"save_end", "none">>,
            <<"w_save", "w_persist">>}
  PROVE  IInv'
<1>1. task[t].pc # "none"
  OBVIOUS
<1>2. TypeOK /\ WorldOK /\ RunOK(t) /\ t[1] \in Jobs
  BY <1>1, Facts
<1>3. jobs' = jobs /\ jobsFile' = jobs /\ UNCHANGED <<inv, invFile>>
  BY <1>2, SaveFrame
<1>4. WorldOK' /\ JobsStep(t)
  BY <1>2, <1>3 DEF WorldOK, JobsStep, world, fixed
<1>5. task'[t] = r
  BY <1>2 DEF TypeOK
<1>6. ActivityStep(t)
  BY <1>3, <1>5 DEF ActivityStep, IdlePcs, world
<1>7. RunOK(t)'
  <2>1. /\ Dj(t)' = Dj(t) /\ InFile(t)' = Dj(t).password /\ (Locks(t)' <=> Locks(t))
        /\ Current(t)' = Current(t)
    BY <1>3 DEF Dj, InFile, Locks, Current, world, fixed
  <2>2. QED
    BY <1>2, <1>5, <2>1 DEF RunOK, PasswordOK, SavedOK, StepOK, StateOK, Erasing, OnRecord, WorkPcs
<1>8. \A u \in Runs \ {t} : Locks(u)' => Locks(u)
  BY DEF Locks, world
<1>9. QED
  BY <1>1, <1>4, <1>6, <1>7, <1>8, RunActs DEF fixed

\* Steps that leave jobs, format runs and the drive alone: the run goes on, or
\* sets the drive's activity.
LEMMA MovesKeep ==
  ASSUME IInv, NEW t \in Runs, task[t].pc \notin {"none", "pw_save"},
         NEW r \in Task, task' = [task EXCEPT ![t] = r],
         UNCHANGED <<jobs, jobsFile, plan, next, hw>>, WorldOK', ActivityStep(t),
         r.pc \notin {"pw_save", "pw_saved"},
         r.pc \in WorkPcs => task[t].pc \in WorkPcs,
         r.pc \in {"pw_busy", "e_unit"} \/ (r.pc \in {"issue", "busy"} /\ Current(t) = "erase")
           => OnRecord(t),
         r.pc = "pw_clear" /\ (r.ok \/ ~r.keep) => ~Locks(t),
         r.pc = "pw_busy" => Current(t) = "erase",
         r.pc = "issue" => Current(t) \in {"format", "sanitize", "erase", "partition"}
  PROVE  IInv'
<1>1. TypeOK /\ RunOK(t)
  BY Facts
<1>2. task'[t] = r
  BY <1>1 DEF TypeOK
<1>3. RunOK(t)'
  <2>1. /\ Dj(t)' = Dj(t) /\ InFile(t)' = InFile(t) /\ (Locks(t)' <=> Locks(t))
        /\ Current(t)' = Current(t)
    BY DEF Dj, InFile, Locks, Current
  <2>2. QED
    BY <1>1, <1>2, <2>1 DEF RunOK, PasswordOK, SavedOK, StepOK, StateOK, Erasing, OnRecord
<1>4. \A u \in Runs \ {t} : Locks(u)' => Locks(u)
  BY DEF Locks
<1>5. QED
  BY <1>3, <1>4, RunActs DEF JobsStep

\* Steps that write the run's state in memory and touch nothing else.
LEMMA WritesKeep ==
  ASSUME IInv, NEW t \in Runs, task[t].pc \notin {"none", "pw_save"}, task[t].pc \notin IdlePcs,
         task[t].pc # "f_persist",
         NEW r \in Task, task' = [task EXCEPT ![t] = r],
         NEW e \in DriveJob, SetDj(t, e), e.password = Dj(t).password,
         UNCHANGED <<inv, invFile, jobsFile, fmt, unsaved, world, plan, next, hist>>,
         budget' \in [Trouble -> Nat],
         r.pc \in {"none", "save_end", "save_step", "w_save"}
           \/ (r.pc = "save_run" /\ e.state = "running")
  PROVE  IInv'
<1>1. TypeOK /\ WorldOK /\ RunOK(t) /\ jobs[t[1]].kept
  BY Facts
<1>2. task'[t] = r
  BY <1>1 DEF TypeOK
<1>3. RunOK(t)'
  <2>1. Dj(t)' = e /\ InFile(t)' = InFile(t) /\ (Locks(t)' <=> Locks(t))
    BY <1>1, SetDjFrame DEF InFile, Locks, world
  <2>2. QED
    BY <1>1, <1>2, <2>1 DEF RunOK, PasswordOK, SavedOK, StepOK, StateOK, Erasing, OnRecord, WorkPcs
<1>4. WorldOK' /\ JobsStep(t) /\ ActivityStep(t) /\ \A u \in Runs \ {t} : Locks(u)' => Locks(u)
  BY <1>1 DEF WorldOK, JobsStep, ActivityStep, Locks, world
<1>5. QED
  BY <1>3, <1>4, RunActs

LEMMA SpawnKeeps ==
  ASSUME AllKept, IInv, NEW t \in Runs, Spawn(t)
  PROVE  IInv'
<1>1. PICK r \in Task : task' = [task EXCEPT ![t] = r] /\ r.pc = "top"
  BY GotoFrame DEF Spawn, IInv, RunPcs
<1>2. QED
  BY <1>1, SavesKeep DEF Spawn, At

LEMMA StateWrite ==
  ASSUME TypeOK, NEW t \in Runs, NEW s \in DjState, SetState(t, s)
  PROVE  \E e \in DriveJob : SetDj(t, e) /\ e.password = Dj(t).password /\ e.state = s
<1>1. [Dj(t) EXCEPT !.state = s] \in DriveJob /\ Dj(t) \in DriveJob
  BY DjType
<1>2. [Dj(t) EXCEPT !.state = s].password = Dj(t).password /\ [Dj(t) EXCEPT !.state = s].state = s
  BY <1>1 DEF DriveJob
<1>3. QED
  BY <1>1, <1>2 DEF SetState

\* A run that only goes on.
LEMMA GoesOn ==
  ASSUME IInv, NEW t \in Runs, task[t].pc \notin {"none", "pw_save", "f_persist"}, task[t].pc \notin IdlePcs,
         NEW r \in Task, task' = [task EXCEPT ![t] = r],
         UNCHANGED <<jobs, jobsFile, inv, invFile, fmt, unsaved, world, plan, next, hist>>,
         budget' \in [Trouble -> Nat],
         r.pc \in {"none", "top", "lane", "check", "recheck"}
           \/ (task[t].pc \in WorkPcs /\ r.pc \in {"result", "e_write"})
  PROVE  IInv'
<1>1. WorldOK'
  BY Facts DEF WorldOK, world
<1>2. ActivityStep(t)
  BY DEF ActivityStep
<1>3. QED
  BY <1>1, <1>2, MovesKeep DEF WorkPcs, world

LEMMA FailKeeps ==
  ASSUME IInv, NEW t \in Runs, task[t].pc \in {"check", "recheck", "result"}, Fail(t),
         UNCHANGED <<fmt, unsaved, world, plan, next, hist>>, budget' \in [Trouble -> Nat]
  PROVE  IInv'
<1>1. TypeOK
  BY DEF IInv
<1>2. PICK e \in DriveJob : SetDj(t, e) /\ e.password = Dj(t).password
  BY <1>1, StateWrite DEF Fail, DjState
<1>3. PICK r \in Task : task' = [task EXCEPT ![t] = r] /\ r.pc = "save_end"
  BY <1>1, GotoFrame DEF Fail, RunPcs
<1>4. task[t].pc \notin {"none", "pw_save"} \cup IdlePcs /\ task[t].pc # "f_persist"
  BY DEF IdlePcs
<1>5. UNCHANGED <<inv, invFile, jobsFile, fmt, unsaved, world, plan, next, hist>>
  BY DEF Fail
<1>6. QED
  BY <1>2, <1>3, <1>4, <1>5, WritesKeep

LEMMA TopKeeps ==
  ASSUME IInv, NEW t \in Runs, Top(t)
  PROVE  IInv'
<1>1. TypeOK /\ task[t].pc = "top" /\ budget' \in [Trouble -> Nat]
  BY BudgetType DEF IInv, Top, At, fixed
<1>2. CASE UNCHANGED jobs /\ (Goto(t, "none") \/ Goto(t, "lane"))
  <2>1. PICK r \in Task : task' = [task EXCEPT ![t] = r] /\ r.pc \in {"none", "lane"}
    BY <1>1, <1>2, GotoFrame DEF RunPcs
  <2>2. UNCHANGED <<jobs, jobsFile, inv, invFile, fmt, unsaved, world, plan, next, hist>>
    BY <1>2 DEF Top, fixed
  <2>3. QED
    BY <1>1, <2>1, <2>2, GoesOn DEF IdlePcs
<1>3. CASE (SetState(t, "done") \/ SetState(t, "cancelled")) /\ Goto(t, "save_end")
  <2>1. PICK e \in DriveJob : SetDj(t, e) /\ e.password = Dj(t).password
    BY <1>1, <1>3, StateWrite DEF DjState
  <2>2. PICK r \in Task : task' = [task EXCEPT ![t] = r] /\ r.pc = "save_end"
    BY <1>1, <1>3, GotoFrame DEF RunPcs
  <2>3. UNCHANGED <<inv, invFile, jobsFile, fmt, unsaved, world, plan, next, hist>>
    BY DEF Top, fixed
  <2>4. QED
    BY <1>1, <2>1, <2>2, <2>3, WritesKeep DEF IdlePcs
<1>4. QED
  BY <1>2, <1>3 DEF Top

LEMMA TakeLaneKeeps ==
  ASSUME IInv, NEW t \in Runs, TakeLane(t)
  PROVE  IInv'
<1>1. TypeOK /\ task[t].pc = "lane" /\ budget' \in [Trouble -> Nat]
  BY BudgetType DEF IInv, TakeLane, At, fixed
<1>2. PICK r \in Task : task' = [task EXCEPT ![t] = r] /\ r.pc = "check"
  BY <1>1, GotoFrame DEF TakeLane, RunPcs
<1>3. UNCHANGED <<jobs, jobsFile, inv, invFile, fmt, unsaved, world, plan, next, hist>>
  BY DEF TakeLane, store, fixed
<1>4. QED
  BY <1>1, <1>2, <1>3, GoesOn DEF IdlePcs

LEMMA CheckKeeps ==
  ASSUME IInv, NEW t \in Runs, Check(t)
  PROVE  IInv'
<1>1. TypeOK /\ task[t].pc = "check" /\ budget' \in [Trouble -> Nat]
  BY BudgetType DEF IInv, Check, At, fixed
<1>2. CASE Goto(t, "recheck") /\ UNCHANGED store
  <2>1. PICK r \in Task : task' = [task EXCEPT ![t] = r] /\ r.pc = "recheck"
    BY <1>1, <1>2, GotoFrame DEF RunPcs
  <2>2. UNCHANGED <<jobs, jobsFile, inv, invFile, fmt, unsaved, world, plan, next, hist>>
    BY <1>2 DEF Check, store, fixed
  <2>3. QED
    BY <1>1, <2>1, <2>2, GoesOn DEF IdlePcs
<1>3. CASE Fail(t)
  BY <1>1, <1>3, FailKeeps DEF Check, fixed
<1>4. QED
  BY <1>2, <1>3 DEF Check

LEMMA AllowedKeeps ==
  ASSUME IInv, NEW t \in Runs, Allowed(t)
  PROVE  IInv'
<1>1. TypeOK /\ task[t].pc = "recheck" /\ budget' \in [Trouble -> Nat]
  BY BudgetType DEF IInv, Allowed, At, fixed
<1>2. PICK e \in DriveJob : SetDj(t, e) /\ e.password = Dj(t).password /\ e.state = "running"
  BY <1>1, StateWrite DEF Allowed, DjState
<1>3. PICK r \in Task : task' = [task EXCEPT ![t] = r] /\ r.pc = "save_run"
  BY <1>1, GotoFrame DEF Allowed, RunPcs
<1>4. QED
  BY <1>1, <1>2, <1>3, WritesKeep DEF Allowed, IdlePcs, fixed

LEMMA RefusedKeeps ==
  ASSUME IInv, NEW t \in Runs, Denied(t) \/ Unavailable(t)
  PROVE  IInv'
<1>1. TypeOK /\ task[t].pc = "recheck" /\ budget' \in [Trouble -> Nat]
  BY BudgetType DEF IInv, Denied, Unavailable, At, Trouble
<1>2. CASE Denied(t)
  BY <1>1, <1>2, FailKeeps DEF Denied
<1>3. CASE Unavailable(t)
  <2>1. PICK e \in DriveJob : SetDj(t, e) /\ e.password = Dj(t).password
    BY <1>1, <1>3, StateWrite DEF Unavailable, DjState
  <2>2. PICK r \in Task : task' = [task EXCEPT ![t] = r] /\ r.pc = "save_end"
    BY <1>1, <1>3, GotoFrame DEF Unavailable, RunPcs
  <2>3. UNCHANGED <<inv, invFile, jobsFile, fmt, unsaved, world, plan, next, hist>>
    BY <1>3 DEF Unavailable
  <2>4. QED
    BY <1>1, <2>1, <2>2, <2>3, WritesKeep DEF IdlePcs
<1>4. QED
  BY <1>2, <1>3

LEMMA SaveStepsKeep ==
  ASSUME AllKept, IInv, NEW t \in Runs,
         \/ SaveRun(t) \/ SavePassword(t) \/ SaveCleared(t) \/ SaveStep(t) \/ SaveEnd(t) \/ WatchSave(t)
  PROVE  IInv'
<1>1. TypeOK
  BY DEF IInv
<1>2. CASE SaveRun(t)
  <2>1. PICK r \in Task : task' = [task EXCEPT ![t] = r] /\ r.pc = "begin"
    BY <1>1, <1>2, GotoFrame DEF SaveRun, RunPcs
  <2>2. QED
    BY <1>2, <2>1, SavesKeep DEF SaveRun, At
<1>3. CASE SavePassword(t)
  <2>1. PICK r \in Task : task' = [task EXCEPT ![t] = r] /\ r.pc = "pw_busy"
    BY <1>1, <1>3, GotoFrame DEF SavePassword, RunPcs
  <2>2. QED
    BY <1>3, <2>1, SavesKeep DEF SavePassword, At
<1>4. CASE SaveCleared(t)
  <2>1. PICK r \in Task : task' = [task EXCEPT ![t] = r] /\ r.pc = "idle"
    BY <1>1, <1>4, GotoFrame DEF SaveCleared, RunPcs
  <2>2. QED
    BY <1>4, <2>1, SavesKeep DEF SaveCleared, At
<1>5. CASE SaveStep(t)
  <2>1. PICK r \in Task : task' = [task EXCEPT ![t] = r] /\ r.pc = "top"
    BY <1>1, <1>5, GotoFrame DEF SaveStep, RunPcs
  <2>2. QED
    BY <1>5, <2>1, SavesKeep DEF SaveStep, At
<1>6. CASE SaveEnd(t)
  <2>1. NoTask \in Task /\ NoTask.pc = "none"
    BY DEF NoTask, Task
  <2>2. QED
    BY <1>6, <2>1, SavesKeep DEF SaveEnd, At
<1>7. CASE WatchSave(t)
  <2>1. PICK r \in Task : task' = [task EXCEPT ![t] = r] /\ r.pc = "w_persist"
    BY <1>1, <1>7, GotoFrame DEF WatchSave, WatchPcs
  <2>2. QED
    BY <1>7, <2>1, SavesKeep DEF WatchSave, At
<1>8. QED
  BY <1>2, <1>3, <1>4, <1>5, <1>6, <1>7

\* A step more is done.
LEMMA StepWrite ==
  ASSUME TypeOK, NEW t \in Runs
  PROVE  \A s \in DjState :
           /\ [Dj(t) EXCEPT !.step = @ + 1, !.state = s] \in DriveJob
           /\ [Dj(t) EXCEPT !.step = @ + 1, !.state = s].password = Dj(t).password
           /\ [Dj(t) EXCEPT !.step = @ + 1] \in DriveJob
           /\ [Dj(t) EXCEPT !.step = @ + 1].password = Dj(t).password
<1>1. ASSUME NEW e \in DriveJob
      PROVE  /\ [e EXCEPT !.step = e.step + 1] \in DriveJob
             /\ [e EXCEPT !.step = e.step + 1].password = e.password
  BY DEF DriveJob
<1>2. ASSUME NEW e \in DriveJob, NEW s \in DjState
      PROVE  /\ [e EXCEPT !.step = e.step + 1, !.state = s] \in DriveJob
             /\ [e EXCEPT !.step = e.step + 1, !.state = s].password = e.password
  <2>1. [e EXCEPT !.step = e.step + 1] \in DriveJob
    BY <1>1
  <2>2. [e EXCEPT !.step = e.step + 1, !.state = s] = [[e EXCEPT !.step = e.step + 1] EXCEPT !.state = s]
    BY DEF DriveJob
  <2>3. \A a \in DriveJob : [a EXCEPT !.state = s] \in DriveJob /\ [a EXCEPT !.state = s].password = a.password
    BY DEF DriveJob
  <2>4. QED
    BY <1>1, <2>1, <2>2, <2>3
<1>3. Dj(t) \in DriveJob
  BY DjType
<1>4. QED
  BY <1>1, <1>2, <1>3

LEMMA ResultKeeps ==
  ASSUME IInv, NEW t \in Runs, Result(t)
  PROVE  IInv'
<1>1. TypeOK /\ task[t].pc = "result" /\ budget' \in [Trouble -> Nat]
  BY BudgetType DEF IInv, Result, At, fixed
<1>2. CASE task[t].ok
  <2>1. PICK e \in DriveJob : SetDj(t, e) /\ e.password = Dj(t).password
    BY <1>1, <1>2, StepWrite DEF Result, DjState
  <2>2. PICK r \in Task : task' = [task EXCEPT ![t] = r] /\ r.pc = "save_step"
    BY <1>1, <1>2, GotoFrame DEF Result, RunPcs
  <2>3. UNCHANGED <<inv, invFile, jobsFile, fmt, unsaved, world, plan, next, hist>>
    BY <1>2 DEF Result, fixed
  <2>4. QED
    BY <1>1, <2>1, <2>2, <2>3, WritesKeep DEF IdlePcs
<1>3. CASE ~task[t].ok
  BY <1>1, <1>3, FailKeeps DEF Result, fixed
<1>4. QED
  BY <1>2, <1>3

-----------------------------------------------------------------------------
(* run_step.                                                                 *)

LEMMA TaskReplace ==
  ASSUME TypeOK, NEW t \in Runs, NEW pc \in Pcs, NEW ok \in BOOLEAN,
         task' = [task EXCEPT ![t] = [task[t] EXCEPT !.pc = pc, !.ok = ok]]
  PROVE  \E r \in Task : task' = [task EXCEPT ![t] = r] /\ r.pc = pc
<1> DEFINE r == [task[t] EXCEPT !.pc = pc, !.ok = ok]
<1>1. task[t] \in Task
  BY DEF TypeOK
<1>2. r \in Task /\ r.pc = pc
  BY <1>1 DEF Task, Pcs
<1>3. QED
  BY <1>2

\* The activities that steps set are activities.
LEMMA BusyType ==
  ASSUME NEW s
  PROVE  Busy(s) \in Activity \ {"idle", "missing"}
BY DEF Busy, Activity

LEMMA BeginFormatKeeps ==
  ASSUME IInv, NEW t \in Runs, BeginFormat(t)
  PROVE  IInv'
<1>1. /\ task[t].pc = "begin" /\ TypeOK /\ WorldOK /\ t[2] \in Drives /\ t \in Formats
      /\ inv[t[2]] \in Drive /\ fmt[t] \in FormatRun
  BY Facts DEF BeginFormat, At
<1>2. PICK r \in Task : task' = [task EXCEPT ![t] = r] /\ r.pc = "f_persist"
  BY <1>1, GotoFrame DEF BeginFormat, RunPcs
<1>3. /\ inv' \in [Drives -> Drive] /\ inv'[t[2]].activity = "formatting"
      /\ \A d \in Drives \ {t[2]} : inv'[d] = inv[d]
  <2>1. [inv[t[2]] EXCEPT !.activity = "formatting", !.format = "running"] \in Drive
    BY <1>1 DEF Drive, Activity, Record
  <2>2. inv' = [inv EXCEPT ![t[2]] = [inv[t[2]] EXCEPT !.activity = "formatting", !.format = "running"]]
    BY <1>1 DEF BeginFormat, Drv, TypeOK
  <2>3. [inv[t[2]] EXCEPT !.activity = "formatting", !.format = "running"].activity = "formatting"
    BY <1>1 DEF Drive
  <2>4. QED
    BY <1>1, <2>1, <2>2, <2>3 DEF TypeOK
<1>4. fmt' \in [Formats -> FormatRun] /\ \A f \in Formats : fmt'[f].pc = fmt[f].pc
  <2>1. /\ [fmt[t] EXCEPT !.run = "running"] \in FormatRun
        /\ [fmt[t] EXCEPT !.run = "running"].pc = fmt[t].pc
    BY <1>1 DEF FormatRun
  <2>2. fmt' = [fmt EXCEPT ![t] = [fmt[t] EXCEPT !.run = "running"]]
    BY <1>1 DEF BeginFormat, TypeOK
  <2>3. QED
    BY <1>1, <2>1, <2>2 DEF TypeOK
<1>5. WorldOK'
  BY <1>1, <1>3, <1>4 DEF WorldOK, BeginFormat, world, fixed
<1>6. ActivityStep(t)
  <2>1. task'[t].pc = "f_persist"
    BY <1>1, <1>2 DEF TypeOK
  <2>2. QED
    BY <1>3, <1>4, <2>1 DEF ActivityStep
<1>7. UNCHANGED <<jobs, jobsFile, plan, next, hw>>
  BY DEF BeginFormat, world, fixed
<1>8. QED
  BY <1>1, <1>2, <1>5, <1>6, <1>7, MovesKeep DEF WorkPcs

\* A step that sets the activity of the run's drive: idle, or on the way there.
LEMMA ActivityKeeps ==
  ASSUME IInv, NEW t \in Runs, task[t].pc \in WorkPcs \ {"pw_save"},
         NEW r \in Task, task' = [task EXCEPT ![t] = r],
         NEW a \in Activity, SetActivity(t[2], a), a = "idle" \/ r.pc \in IdlePcs,
         UNCHANGED <<invFile, jobs, jobsFile, unsaved, world, plan, next, hist, budget>>,
         fmt' \in [Formats -> FormatRun],
         \A f \in Formats : fmt[f].pc \in FormatWorks => fmt'[f].pc \in FormatWorks,
         r.pc \in {"issue", "testing", "result", "persist", "w_format", "w_wait", "w_result"},
         r.pc = "issue" =>
           \/ task[t].pc = "pw_busy"
           \/ Current(t) \in {"format", "sanitize", "partition"}
  PROVE  IInv'
<1>1. TypeOK /\ WorldOK /\ RunOK(t) /\ t[2] \in Drives /\ task[t].pc # "none"
  BY Facts DEF WorkPcs
<1>2. /\ inv' \in [Drives -> Drive] /\ inv'[t[2]].activity = a
      /\ \A d \in Drives \ {t[2]} : inv'[d] = inv[d]
  BY <1>1, ActivityType
<1>3. WorldOK'
  BY <1>1, <1>2 DEF WorldOK, world
<1>4. task'[t] = r
  BY <1>1 DEF TypeOK
<1>5. ActivityStep(t)
  BY <1>2, <1>4 DEF ActivityStep
<1>6. UNCHANGED <<jobs, jobsFile, plan, next, hw>>
  BY DEF world
<1>7. r.pc = "issue" /\ Current(t) = "erase" => OnRecord(t)
  BY <1>1 DEF RunOK, PasswordOK, Erasing
<1>8. r.pc = "issue" => Current(t) \in {"format", "sanitize", "erase", "partition"}
  BY <1>1 DEF RunOK, StepOK
<1>9. QED
  BY <1>1, <1>3, <1>5, <1>6, <1>7, <1>8, MovesKeep

LEMMA BeginCommandKeeps ==
  ASSUME IInv, NEW t \in Runs, BeginCommand(t)
  PROVE  IInv'
<1>1. TypeOK /\ task[t].pc = "begin"
  BY DEF IInv, BeginCommand, At
<1>2. PICK r \in Task : task' = [task EXCEPT ![t] = r] /\ r.pc = "issue"
  BY <1>1, GotoFrame DEF BeginCommand, RunPcs
<1>3. SetActivity(t[2], Busy(Current(t))) /\ Busy(Current(t)) \in Activity
  BY BusyType DEF BeginCommand, Drv
<1>4. UNCHANGED <<invFile, jobs, jobsFile, fmt, unsaved, world, plan, next, hist, budget>>
  BY DEF BeginCommand, fixed
<1>5. Current(t) \in {"format", "sanitize", "partition"}
  BY DEF BeginCommand
<1>6. QED
  BY <1>1, <1>2, <1>3, <1>4, <1>5, ActivityKeeps DEF WorkPcs, IdlePcs, TypeOK

LEMMA BusyEraseKeeps ==
  ASSUME IInv, NEW t \in Runs, BusyErase(t)
  PROVE  IInv'
<1>1. TypeOK /\ task[t].pc = "pw_busy"
  BY DEF IInv, BusyErase, At
<1>2. PICK r \in Task : task' = [task EXCEPT ![t] = r] /\ r.pc = "issue"
  BY <1>1, GotoFrame DEF BusyErase, RunPcs
<1>3. SetActivity(t[2], "sanitizing") /\ "sanitizing" \in Activity
  BY DEF BusyErase, Drv, Activity
<1>4. UNCHANGED <<invFile, jobs, jobsFile, fmt, unsaved, world, plan, next, hist, budget>>
  BY DEF BusyErase, fixed
<1>5. QED
  BY <1>1, <1>2, <1>3, <1>4, ActivityKeeps DEF WorkPcs, IdlePcs, TypeOK

LEMMA BeginTestKeeps ==
  ASSUME IInv, NEW t \in Runs, BeginTest(t)
  PROVE  IInv'
<1>1. TypeOK /\ task[t].pc = "begin"
  BY DEF IInv, BeginTest, At
<1>2. PICK r \in Task : task' = [task EXCEPT ![t] = r] /\ r.pc = "testing"
  BY <1>1, GotoFrame DEF BeginTest, RunPcs
<1>3. SetActivity(t[2], "testing") /\ "testing" \in Activity
  BY DEF BeginTest, Drv, Activity
<1>4. UNCHANGED <<invFile, jobs, jobsFile, fmt, unsaved, world, plan, next, hist, budget>>
  BY DEF BeginTest, fixed
<1>5. QED
  BY <1>1, <1>2, <1>3, <1>4, ActivityKeeps DEF WorkPcs, IdlePcs, TypeOK

LEMMA SetIdleKeeps ==
  ASSUME IInv, NEW t \in Runs, SetIdle(t) \/ WatchIdle(t)
  PROVE  IInv'
<1>1. TypeOK /\ task[t].pc \in {"idle", "w_idle"}
  BY DEF IInv, SetIdle, WatchIdle, At
<1>2. Goto(t, "result") \/ Goto(t, "persist") \/ Goto(t, "w_result")
  BY DEF SetIdle, WatchIdle
<1>3. PICK r \in Task : task' = [task EXCEPT ![t] = r] /\ r.pc \in {"result", "persist", "w_result"}
  BY <1>1, <1>2, GotoFrame DEF RunPcs, WatchPcs
<1>4. SetActivity(t[2], "idle") /\ "idle" \in Activity
  BY DEF SetIdle, WatchIdle, Drv, Activity
<1>5. UNCHANGED <<invFile, jobs, jobsFile, fmt, unsaved, world, plan, next, hist, budget>>
  BY DEF SetIdle, WatchIdle, fixed
<1>6. QED
  BY <1>1, <1>3, <1>4, <1>5, ActivityKeeps DEF WorkPcs, TypeOK

LEMMA WatchStartKeeps ==
  ASSUME IInv, NEW t \in Runs, WatchStart(t)
  PROVE  IInv'
<1>1. TypeOK /\ task[t].pc = "w_start" /\ t \in Formats
  BY RunParts DEF IInv, WatchStart, At
<1>2. Goto(t, "w_format") \/ Goto(t, "w_wait")
  BY DEF WatchStart
<1>3. PICK r \in Task : task' = [task EXCEPT ![t] = r] /\ r.pc \in {"w_format", "w_wait"}
  BY <1>1, <1>2, GotoFrame DEF WatchPcs
<1>4. SetActivity(t[2], Busy(Current(t))) /\ Busy(Current(t)) \in Activity
  BY BusyType DEF WatchStart, Drv
<1>5. UNCHANGED <<invFile, jobs, jobsFile, unsaved, world, plan, next, hist, budget>>
  BY DEF WatchStart, fixed
<1>6. /\ fmt' \in [Formats -> FormatRun]
      /\ \A f \in Formats : fmt[f].pc \in FormatWorks => fmt'[f].pc \in FormatWorks
  <2>1. fmt' = fmt \/ fmt' = [fmt EXCEPT ![t] = [pc |-> "busy", run |-> "running"]]
    BY DEF WatchStart
  <2> DEFINE busy == [pc |-> "busy", run |-> "running"]
  <2>2. busy \in FormatRun /\ busy.pc \in FormatWorks
    BY DEF FormatRun, FormatWorks
  <2> HIDE DEF busy
  <2>3. CASE fmt' = fmt
    BY <1>1, <2>3 DEF TypeOK
  <2>4. CASE fmt' = [fmt EXCEPT ![t] = busy]
    BY <1>1, <2>2, <2>4 DEF TypeOK
  <2>5. QED
    BY <2>1, <2>3, <2>4 DEF busy
<1>7. QED
  BY <1>1, <1>3, <1>4, <1>5, <1>6, ActivityKeeps DEF WorkPcs, IdlePcs

LEMMA PersistFormatKeeps ==
  ASSUME IInv, NEW t \in Runs, PersistFormat(t)
  PROVE  IInv'
<1>1. /\ TypeOK /\ WorldOK /\ task[t].pc = "f_persist" /\ t \in Formats /\ fmt[t] \in FormatRun
  BY Facts DEF PersistFormat, At
<1>2. PICK r \in Task : task' = [task EXCEPT ![t] = r] /\ r.pc = "f_wait"
  BY <1>1, GotoFrame DEF PersistFormat, RunPcs
<1>3. /\ fmt' \in [Formats -> FormatRun] /\ fmt'[t].pc = "issue"
      /\ \A f \in Formats \ {t} : fmt'[f] = fmt[f]
  <2>1. [fmt[t] EXCEPT !.pc = "issue"] \in FormatRun /\ [fmt[t] EXCEPT !.pc = "issue"].pc = "issue"
    BY <1>1 DEF FormatRun
  <2>2. fmt' = [fmt EXCEPT ![t] = [fmt[t] EXCEPT !.pc = "issue"]]
    BY <1>1 DEF PersistFormat, TypeOK
  <2>3. QED
    BY <1>1, <2>1, <2>2 DEF TypeOK
<1>4. UNCHANGED <<jobs, jobsFile, plan, next, hw, inv>>
  BY DEF PersistFormat, Persist, world, fixed
<1>5. WorldOK'
  BY <1>1, <1>3 DEF WorldOK, PersistFormat, Persist, world, fixed
<1>6. ActivityStep(t)
  BY <1>1, <1>3, <1>4 DEF ActivityStep, FormatWorks, IdlePcs
<1>7. QED
  BY <1>1, <1>2, <1>4, <1>5, <1>6, MovesKeep DEF WorkPcs

\* A step that only takes a result, or saves the inventory.
LEMMA ResultsKeep ==
  ASSUME IInv, NEW t \in Runs, NEW r \in Task, task' = [task EXCEPT ![t] = r],
         UNCHANGED <<jobs, jobsFile, plan, next, fmt, unsaved, world, hist>>,
         inv' \in [Drives -> Drive], invFile' \in [Drives -> Drive], budget' \in [Trouble -> Nat],
         \A d \in Drives \ {t[2]} : inv'[d].activity = inv[d].activity,
         <<task[t].pc, r.pc>> \in
           {<<"f_wait", "result">>, <<"persist", "result">>, <<"testing", "persist">>,
            <<"begin", "result">>, <<"begin", "e_write">>, <<"e_write", "persist">>,
            <<"w_format", "w_idle">>, <<"w_wait", "w_idle">>, <<"w_persist", "none">>},
         IF task[t].pc = "testing" THEN inv'[t[2]].activity \in {"idle", "missing"}
         ELSE inv'[t[2]].activity = inv[t[2]].activity
  PROVE  IInv'
<1>1. task[t].pc \notin {"none", "pw_save"}
  OBVIOUS
<1>2. TypeOK /\ WorldOK
  BY <1>1, Facts
<1>3. task'[t] = r
  BY <1>2 DEF TypeOK
<1>4. ActivityStep(t)
  BY <1>3 DEF ActivityStep, IdlePcs
<1>5. UNCHANGED <<jobs, jobsFile, plan, next, hw>> /\ WorldOK'
  BY <1>2 DEF WorldOK, world
<1>6. r.pc \in WorkPcs => task[t].pc \in WorkPcs
  BY DEF WorkPcs
<1>7. r.pc \in {"result", "persist", "e_write", "w_idle", "none"}
  OBVIOUS
<1>8. QED
  BY <1>1, <1>4, <1>5, <1>6, <1>7, MovesKeep

LEMMA WaitsKeep ==
  ASSUME IInv, NEW t \in Runs, WaitFormat(t) \/ WatchFormat(t) \/ WatchWait(t)
  PROVE  IInv'
<1>1. TypeOK /\ task[t].pc \in {"f_wait", "w_format", "w_wait"}
  BY DEF IInv, WaitFormat, WatchFormat, WatchWait, At
<1>2. UNCHANGED <<jobs, jobsFile, plan, next, fmt, unsaved, world, hist, inv, invFile, budget>>
  BY DEF WaitFormat, WatchFormat, WatchWait, store, fixed
<1>3. PICK r \in Task : /\ task' = [task EXCEPT ![t] = r]
                        /\ <<task[t].pc, r.pc>> \in {<<"f_wait", "result">>, <<"w_format", "w_idle">>,
                                                     <<"w_wait", "w_idle">>}
  <2>1. CASE WaitFormat(t)
    <3>1. PICK ok \in BOOLEAN : ok = (fmt[t].run = "done")
      OBVIOUS
    <3>2. task' = [task EXCEPT ![t] = [task[t] EXCEPT !.pc = "result", !.ok = ok]]
      BY <1>1, <2>1, <3>1 DEF WaitFormat, TypeOK
    <3>3. task[t].pc = "f_wait"
      BY <2>1 DEF WaitFormat, At
    <3>4. "result" \in Pcs
      BY DEF Pcs, RunPcs
    <3>5. PICK r \in Task : task' = [task EXCEPT ![t] = r] /\ r.pc = "result"
      BY <1>1, <3>2, <3>4, TaskReplace
    <3>6. QED
      BY <3>3, <3>5
  <2>2. CASE WatchFormat(t)
    <3>1. PICK ok \in BOOLEAN : ok = (fmt[t].run = "done")
      OBVIOUS
    <3>2. task' = [task EXCEPT ![t] = [task[t] EXCEPT !.pc = "w_idle", !.ok = ok]]
      BY <1>1, <2>2, <3>1 DEF WatchFormat, TypeOK
    <3>3. task[t].pc = "w_format"
      BY <2>2 DEF WatchFormat, At
    <3>4. QED
      BY <1>1, <3>2, <3>3, TaskReplace DEF Pcs, WatchPcs
  <2>3. CASE WatchWait(t)
    <3>1. PICK ok \in BOOLEAN : task' = [task EXCEPT ![t] = [@ EXCEPT !.pc = "w_idle", !.ok = ok]]
      <4>1. t[2] \in Drives /\ hw[t[2]].good \in BOOLEAN
        BY <1>1, RunParts DEF TypeOK, Hw
      <4>2. QED
        BY <2>3, <4>1 DEF WatchWait, Drv
    <3>2. task' = [task EXCEPT ![t] = [task[t] EXCEPT !.pc = "w_idle", !.ok = ok]]
      BY <1>1, <3>1 DEF TypeOK
    <3>3. task[t].pc = "w_wait"
      BY <2>3 DEF WatchWait, At
    <3>4. QED
      BY <1>1, <3>2, <3>3, TaskReplace DEF Pcs, WatchPcs
  <2>4. QED
    BY <2>1, <2>2, <2>3
<1>4. QED
  BY <1>1, <1>2, <1>3, ResultsKeep DEF TypeOK

LEMMA PersistsKeep ==
  ASSUME IInv, NEW t \in Runs, PersistStep(t) \/ WatchPersist(t)
  PROVE  IInv'
<1>1. TypeOK /\ task[t].pc \in {"persist", "w_persist"}
  BY DEF IInv, PersistStep, WatchPersist, At
<1>2. /\ UNCHANGED <<jobs, jobsFile, plan, next, fmt, unsaved, world, hist, inv, budget>>
      /\ invFile' = inv
  BY DEF PersistStep, WatchPersist, Persist, fixed
<1>3. PICK r \in Task : /\ task' = [task EXCEPT ![t] = r]
                        /\ <<task[t].pc, r.pc>> \in {<<"persist", "result">>, <<"w_persist", "none">>}
  <2>1. CASE PersistStep(t)
    BY <1>1, <2>1, GotoFrame DEF PersistStep, At, RunPcs
  <2>2. CASE WatchPersist(t)
    <3>1. NoTask \in Task /\ NoTask.pc = "none"
      BY DEF NoTask, Task
    <3>2. QED
      BY <2>2, <3>1 DEF WatchPersist, At
  <2>3. QED
    BY <2>1, <2>2
<1>4. QED
  BY <1>1, <1>2, <1>3, ResultsKeep DEF TypeOK

LEMMA TestEndsKeeps ==
  ASSUME IInv, NEW t \in Runs, TestEnds(t)
  PROVE  IInv'
<1>1. TypeOK /\ task[t].pc = "testing" /\ t[2] \in Drives /\ inv[t[2]] \in Drive
  BY Facts DEF TestEnds, At
<1>2. PICK ok \in BOOLEAN : /\ task' = [task EXCEPT ![t] = [task[t] EXCEPT !.pc = "persist", !.ok = ok]]
                            /\ UNCHANGED budget \/ Spend("fail")
  BY <1>1 DEF TestEnds, Drv, TypeOK
<1>3. PICK r \in Task : task' = [task EXCEPT ![t] = r] /\ r.pc = "persist"
  <2>1. "persist" \in Pcs
    BY DEF Pcs, RunPcs
  <2>2. QED
    BY <1>1, <1>2, <2>1, TaskReplace
<1>4. budget' \in [Trouble -> Nat]
  BY <1>1, <1>2, BudgetType DEF Trouble
<1>5. /\ inv' \in [Drives -> Drive] /\ inv'[t[2]].activity \in {"idle", "missing"}
      /\ \A d \in Drives \ {t[2]} : inv'[d] = inv[d]
  <2>1. PICK a \in {"idle", "missing"} : SetActivity(t[2], a)
    BY <1>1 DEF TestEnds, Drv, SetActivity, TypeOK
  <2>2. QED
    BY <1>1, <2>1, ActivityType DEF Activity
<1>6. UNCHANGED <<invFile, jobs, jobsFile, plan, next, fmt, unsaved, world, hist>>
  BY DEF TestEnds
<1>7. QED
  BY <1>1, <1>3, <1>4, <1>5, <1>6, ResultsKeep DEF TypeOK

LEMMA EnrollKeeps ==
  ASSUME IInv, NEW t \in Runs, BeginEnroll(t) \/ Enrolled(t)
  PROVE  IInv'
<1>1. TypeOK /\ task[t].pc \in {"begin", "e_write"} /\ t[2] \in Drives /\ inv[t[2]] \in Drive
  BY Facts DEF BeginEnroll, Enrolled, At
<1>2. CASE BeginEnroll(t)
  <2>1. PICK r \in Task : task' = [task EXCEPT ![t] = r] /\ r.pc \in {"result", "e_write"}
    <3>1. CASE Goto(t, "e_write")
      BY <1>1, <3>1, GotoFrame DEF RunPcs
    <3>2. CASE task' = [task EXCEPT ![t] = [@ EXCEPT !.pc = "result", !.ok = FALSE]]
      <4>1. "result" \in Pcs
        BY DEF Pcs, RunPcs
      <4>2. task' = [task EXCEPT ![t] = [task[t] EXCEPT !.pc = "result", !.ok = FALSE]]
        BY <1>1, <3>2 DEF TypeOK
      <4>3. PICK r \in Task : task' = [task EXCEPT ![t] = r] /\ r.pc = "result"
        BY <1>1, <4>1, <4>2, TaskReplace
      <4>4. QED
        BY <4>3
    <3>3. QED
      BY <1>2, <3>1, <3>2 DEF BeginEnroll
  <2>2. task[t].pc = "begin"
    BY <1>2 DEF BeginEnroll, At
  <2>3. budget' \in [Trouble -> Nat]
    BY <1>1, <1>2, BudgetType DEF BeginEnroll, Trouble
  <2>4. UNCHANGED <<inv, invFile, jobs, jobsFile, plan, next, fmt, unsaved, world, hist>>
    BY <1>2 DEF BeginEnroll, store
  <2>5. QED
    BY <1>1, <2>1, <2>2, <2>3, <2>4, ResultsKeep DEF TypeOK
<1>3. CASE Enrolled(t)
  <2>1. PICK r \in Task : task' = [task EXCEPT ![t] = r] /\ r.pc = "persist"
    <3>1. "persist" \in Pcs
      BY DEF Pcs, RunPcs
    <3>2. task' = [task EXCEPT ![t] = [task[t] EXCEPT !.pc = "persist", !.ok = TRUE]]
      BY <1>1, <1>3 DEF Enrolled, TypeOK
    <3>3. QED
      BY <1>1, <3>1, <3>2, TaskReplace
  <2>2. /\ inv' \in [Drives -> Drive] /\ inv'[t[2]].activity = inv[t[2]].activity
        /\ \A d \in Drives \ {t[2]} : inv'[d] = inv[d]
    <3>1. /\ [inv[t[2]] EXCEPT !.fleet = TRUE] \in Drive
          /\ [inv[t[2]] EXCEPT !.fleet = TRUE].activity = inv[t[2]].activity
      BY <1>1 DEF Drive
    <3>2. inv' = [inv EXCEPT ![t[2]] = [inv[t[2]] EXCEPT !.fleet = TRUE]]
      BY <1>1, <1>3 DEF Enrolled, Drv, TypeOK
    <3>3. QED
      BY <1>1, <3>1, <3>2 DEF TypeOK
  <2>3. UNCHANGED <<invFile, jobs, jobsFile, plan, next, fmt, unsaved, world, hist, budget>>
    BY <1>3 DEF Enrolled, fixed
  <2>4. task[t].pc = "e_write"
    BY <1>3 DEF Enrolled, At
  <2>5. QED
    BY <1>1, <2>1, <2>2, <2>3, <2>4, ResultsKeep DEF TypeOK
<1>4. QED
  BY <1>2, <1>3

\* A step that is done, or not, as the drive a restart found at work says.
LEMMA WatchResultKeeps ==
  ASSUME IInv, NEW t \in Runs, WatchResult(t)
  PROVE  IInv'
<1>1. TypeOK /\ task[t].pc = "w_result" /\ budget' \in [Trouble -> Nat]
  BY BudgetType DEF IInv, WatchResult, At, fixed
<1>2. PICK e \in DriveJob : SetDj(t, e) /\ e.password = Dj(t).password
  <2>1. CASE task[t].ok
    <3>1. PICK s \in DjState : SetDj(t, [Dj(t) EXCEPT !.step = @ + 1, !.state = s])
      BY <1>1, <2>1 DEF WatchResult, DjState
    <3>2. QED
      BY <1>1, <3>1, StepWrite
  <2>2. CASE ~task[t].ok
    BY <1>1, <2>2, StateWrite DEF WatchResult, DjState
  <2>3. QED
    BY <2>1, <2>2
<1>3. PICK r \in Task : task' = [task EXCEPT ![t] = r] /\ r.pc = "w_save"
  BY <1>1, GotoFrame DEF WatchResult, WatchPcs
<1>4. UNCHANGED <<inv, invFile, jobsFile, fmt, unsaved, world, plan, next, hist>>
  BY DEF WatchResult, fixed
<1>5. QED
  BY <1>1, <1>2, <1>3, <1>4, WritesKeep DEF IdlePcs

\* How a command of the run ends.
LEMMA EndsFrame ==
  ASSUME TypeOK, NEW t \in Runs, NEW ok \in BOOLEAN, NEW keep \in BOOLEAN, Ends(t, ok, keep)
  PROVE  \E r \in Task :
           /\ task' = [task EXCEPT ![t] = r]
           /\ r.pc \in {"pw_clear", "idle"}
           /\ r.pc = "pw_clear" => Current(t) = "erase" /\ r.ok = ok /\ r.keep = keep
<1>1. CASE Current(t) = "erase"
  <2>1. task' = [task EXCEPT ![t] = [pc |-> "pw_clear", ok |-> ok, keep |-> keep]]
    BY <1>1 DEF Ends
  <2>2. [pc |-> "pw_clear", ok |-> ok, keep |-> keep] \in Task
    BY DEF Task, RunPcs
  <2>3. QED
    BY <1>1, <2>1, <2>2
<1>2. CASE Current(t) # "erase"
  <2>1. task' = [task EXCEPT ![t] = [pc |-> "idle", ok |-> ok, keep |-> FALSE]]
    BY <1>2 DEF Ends
  <2>2. [pc |-> "idle", ok |-> ok, keep |-> FALSE] \in Task
    BY DEF Task, RunPcs
  <2>3. QED
    BY <2>1, <2>2
<1>3. QED
  BY <1>1, <1>2

\* A step that only deals with the drive.
LEMMA DeviceKeeps ==
  ASSUME IInv, NEW t \in Runs, task[t].pc \in {"issue", "busy", "e_unit"},
         NEW r \in Task, task' = [task EXCEPT ![t] = r],
         UNCHANGED <<store, fmt, unsaved, present, plan, next>>,
         hw' \in [Drives -> Hw], hist' \in [Runs -> History], budget' \in [Trouble -> Nat],
         \A u \in Runs \ {t} : Locks(u)' => Locks(u),
         Locks(t)' => Locks(t) \/ Erasing(t),
         r.pc \in {"e_unit", "busy", "pw_clear", "idle"},
         r.pc = "e_unit" => Erasing(t),
         r.pc = "pw_clear" /\ (r.ok \/ ~r.keep) => ~Locks(t)'
  PROVE  IInv'
<1>1. TypeOK /\ WorldOK /\ RunOK(t)
  BY Facts
<1>2. task'[t] = r
  BY <1>1 DEF TypeOK
<1>3. RunOK(t)'
  <2>1. Dj(t)' = Dj(t) /\ InFile(t)' = InFile(t) /\ Current(t)' = Current(t)
    BY DEF Dj, InFile, Current, store
  <2>2. Erasing(t)' => Erasing(t)
    BY <1>2, <2>1 DEF Erasing
  <2>3. PasswordOK(t)'
    BY <1>1, <1>2, <2>1, <2>2 DEF RunOK, PasswordOK, OnRecord
  <2>4. SavedOK(t)' /\ StepOK(t)' /\ StateOK(t)'
    BY <1>1, <1>2, <2>1 DEF RunOK, SavedOK, StepOK, StateOK, WorkPcs
  <2>5. QED
    BY <2>3, <2>4 DEF RunOK
<1>4. WorldOK' /\ ActivityStep(t)
  BY <1>1, <1>2 DEF WorldOK, ActivityStep, IdlePcs, store
<1>5. QED
  BY <1>3, <1>4, RunActs DEF JobsStep, store

\* What a drive does changes; whose password locks it changes as said.
LEMMA HwFrame ==
  ASSUME TypeOK, NEW d \in Drives, NEW h \in Hw, hw' = [hw EXCEPT ![d] = h]
  PROVE  /\ hw' \in [Drives -> Hw] /\ hw'[d] = h
         /\ \A e \in Drives \ {d} : hw'[e] = hw[e]
BY DEF TypeOK

LEMMA SentType ==
  ASSUME TypeOK, NEW t \in Runs, Sent(t) \/ UNCHANGED hist
  PROVE  hist' \in [Runs -> History]
<1>1. Dj(t).step \in Nat /\ hist[t] \in History
  BY DjType DEF TypeOK, DriveJob
<1>2. [sent |-> hist[t].sent \cup {Dj(t).step}, asked |-> FALSE] \in History
  BY <1>1 DEF History
<1>3. CASE Sent(t)
  <2>1. hist' = [hist EXCEPT ![t] = [sent |-> hist[t].sent \cup {Dj(t).step}, asked |-> FALSE]]
    BY <1>3 DEF Sent, TypeOK
  <2>2. QED
    BY <1>2, <2>1 DEF TypeOK
<1>4. QED
  BY <1>3 DEF TypeOK

LEMMA IssueKeeps ==
  ASSUME IInv, NEW t \in Runs, Issue(t)
  PROVE  IInv'
<1>1. /\ TypeOK /\ RunOK(t) /\ task[t].pc = "issue" /\ t[2] \in Drives /\ t[1] \in Jobs
      /\ hw[t[2]] \in Hw
  BY Facts DEF Issue, At
<1>2. PICK r \in Task : task' = [task EXCEPT ![t] = r]
                        /\ r.pc = IF Current(t) = "erase" THEN "e_unit" ELSE "busy"
  BY <1>1, GotoFrame DEF Issue, RunPcs
<1>3. PICK h \in Hw : /\ hw' = [hw EXCEPT ![t[2]] = h]
                      /\ \/ h.lock = hw[t[2]].lock
                         \/ h.lock = t[1] /\ Current(t) = "erase"
  <2>1. CASE Current(t) = "erase"
    <3>1. PICK l \in {t[1], hw[t[2]].lock} : hw' = [hw EXCEPT ![t[2]] = [hw[t[2]] EXCEPT !.lock = l]]
      BY <1>1, <2>1 DEF Issue, Drv, TypeOK
    <3>2. [hw[t[2]] EXCEPT !.lock = l] \in Hw /\ [hw[t[2]] EXCEPT !.lock = l].lock = l
      BY <1>1 DEF Hw
    <3>3. QED
      BY <2>1, <3>1, <3>2
  <2>2. CASE Current(t) # "erase"
    <3>1. hw' = [hw EXCEPT ![t[2]] = [hw[t[2]] EXCEPT !.op = Current(t)]]
      BY <1>1, <2>2 DEF Issue, Drv, TypeOK
    <3>2. Current(t) \in Op
      BY <1>1 DEF RunOK, StepOK, Op
    <3>3. /\ [hw[t[2]] EXCEPT !.op = Current(t)] \in Hw
          /\ [hw[t[2]] EXCEPT !.op = Current(t)].lock = hw[t[2]].lock
      BY <1>1, <3>2 DEF Hw
    <3>4. QED
      BY <3>1, <3>3
  <2>3. QED
    BY <2>1, <2>2
<1>4. /\ hw' \in [Drives -> Hw] /\ hw'[t[2]] = h
      /\ \A e \in Drives \ {t[2]} : hw'[e] = hw[e]
  BY <1>1, <1>3, HwFrame
<1>5. \A u \in Runs \ {t} : Locks(u)' => Locks(u)
  BY <1>3, <1>4, RunParts, OtherRun DEF Locks
<1>6. Current(t) = "erase" => Erasing(t)
  BY <1>1 DEF Erasing
<1>7. Locks(t)' => Locks(t) \/ Erasing(t)
  BY <1>3, <1>4, <1>6 DEF Locks
<1>8. hist' \in [Runs -> History] /\ budget' \in [Trouble -> Nat]
  BY <1>1, SentType, BudgetType DEF Issue
<1>9. UNCHANGED <<store, fmt, unsaved, present, plan, next>>
  BY DEF Issue
<1>10. QED
  BY <1>1, <1>2, <1>4, <1>5, <1>6, <1>7, <1>8, <1>9, DeviceKeeps

LEMMA EraseUnitKeeps ==
  ASSUME IInv, NEW t \in Runs, EraseUnit(t)
  PROVE  IInv'
<1>1. TypeOK /\ task[t].pc = "e_unit" /\ t[2] \in Drives /\ hw[t[2]] \in Hw
  BY Facts DEF EraseUnit, At
<1>2. PICK r \in Task : task' = [task EXCEPT ![t] = r] /\ r.pc = "busy"
  BY <1>1, GotoFrame DEF EraseUnit, RunPcs
<1>3. PICK h \in Hw : hw' = [hw EXCEPT ![t[2]] = h] /\ h.lock = hw[t[2]].lock
  <2>1. hw' = [hw EXCEPT ![t[2]] = [hw[t[2]] EXCEPT !.op = "erase"]]
    BY <1>1 DEF EraseUnit, Drv, TypeOK
  <2>2. /\ [hw[t[2]] EXCEPT !.op = "erase"] \in Hw
        /\ [hw[t[2]] EXCEPT !.op = "erase"].lock = hw[t[2]].lock
    BY <1>1 DEF Hw, Op
  <2>3. QED
    BY <2>1, <2>2
<1>4. /\ hw' \in [Drives -> Hw] /\ hw'[t[2]] = h
      /\ \A e \in Drives \ {t[2]} : hw'[e] = hw[e]
  BY <1>1, <1>3, HwFrame
<1>5. \A u \in Runs : Locks(u)' => Locks(u)
  BY <1>3, <1>4, RunParts DEF Locks
<1>6. hist' \in [Runs -> History] /\ budget' \in [Trouble -> Nat]
  BY <1>1, SentType, BudgetType DEF EraseUnit
<1>7. UNCHANGED <<store, fmt, unsaved, present, plan, next>>
  BY DEF EraseUnit
<1>8. QED
  BY <1>1, <1>2, <1>4, <1>5, <1>6, <1>7, DeviceKeeps

\* Refused, or answered: the drive is as it was.
LEMMA AnswersKeep ==
  ASSUME IInv, NEW t \in Runs, Rejected(t) \/ Answered(t)
  PROVE  IInv'
<1>1. /\ TypeOK /\ task[t].pc \in {"issue", "busy"} /\ t[2] \in Drives /\ t[1] # Nobody
      /\ hw[t[2]] \in Hw
  BY Facts DEF Rejected, Answered, At
<1>2. PICK ok \in BOOLEAN, keep \in BOOLEAN :
        /\ Ends(t, ok, keep)
        /\ Current(t) = "erase" /\ (ok \/ ~keep) => hw[t[2]].lock = Nobody
  <2>1. CASE Rejected(t)
    <3>1. PICK keep \in BOOLEAN : keep = (hw[t[2]].lock # Nobody)
      OBVIOUS
    <3>2. Ends(t, FALSE, keep)
      BY <2>1, <3>1 DEF Rejected, Drv
    <3>3. QED
      BY <3>1, <3>2
  <2>2. CASE Answered(t)
    <3>1. PICK ok \in BOOLEAN : ok = (hw[t[2]].good /\ (Current(t) = "erase" => hw[t[2]].lock = Nobody))
      OBVIOUS
    <3>2. Ends(t, ok, TRUE) \/ Ends(t, FALSE, TRUE)
      BY <2>2, <3>1 DEF Answered, Drv
    <3>3. Current(t) = "erase" /\ ok => hw[t[2]].lock = Nobody
      BY <3>1
    <3>4. QED
      BY <3>2, <3>3
  <2>3. QED
    BY <2>1, <2>2
<1>3. PICK r \in Task : /\ task' = [task EXCEPT ![t] = r]
                        /\ r.pc \in {"pw_clear", "idle"}
                        /\ r.pc = "pw_clear" => Current(t) = "erase" /\ r.ok = ok /\ r.keep = keep
  BY <1>1, <1>2, EndsFrame
<1>4. UNCHANGED <<store, fmt, unsaved, hw, present, plan, next, hist>>
  BY DEF Rejected, Answered, world, fixed
<1>5. budget' \in [Trouble -> Nat]
  BY <1>1, BudgetType DEF Rejected, Answered, fixed, Trouble
<1>6. \A u \in Runs : Locks(u)' <=> Locks(u)
  BY <1>4 DEF Locks
<1>7. r.pc = "pw_clear" /\ (r.ok \/ ~r.keep) => ~Locks(t)'
  BY <1>1, <1>2, <1>3, <1>6 DEF Locks
<1>8. hw' \in [Drives -> Hw] /\ hist' \in [Runs -> History]
  BY <1>1, <1>4 DEF TypeOK
<1>9. QED
  BY <1>1, <1>3, <1>4, <1>5, <1>6, <1>7, <1>8, DeviceKeeps

\* The password may be set, or off again, when the command fails.
LEMMA LockMayChange ==
  ASSUME IInv, NEW t \in Runs, task[t].pc \in {"issue", "e_unit"}, Erasing(t),
         NEW keep \in BOOLEAN, Ends(t, FALSE, keep),
         NEW l \in {t[1], Nobody, hw[t[2]].lock}, hw' = [hw EXCEPT ![t[2]].lock = l],
         keep \/ l = Nobody,
         UNCHANGED <<store, fmt, unsaved, present, plan, next, hist>>, budget' \in [Trouble -> Nat]
  PROVE  IInv'
<1>1. TypeOK /\ t[2] \in Drives /\ t[1] \in Jobs /\ t[1] # Nobody /\ hw[t[2]] \in Hw
  BY Facts
<1>2. PICK r \in Task : /\ task' = [task EXCEPT ![t] = r]
                        /\ r.pc \in {"pw_clear", "idle"}
                        /\ r.pc = "pw_clear" => Current(t) = "erase" /\ r.ok = FALSE /\ r.keep = keep
  BY <1>1, EndsFrame
<1>3. PICK h \in Hw : hw' = [hw EXCEPT ![t[2]] = h] /\ h.lock = l
  <2>1. hw' = [hw EXCEPT ![t[2]] = [hw[t[2]] EXCEPT !.lock = l]]
    BY <1>1 DEF TypeOK
  <2>2. [hw[t[2]] EXCEPT !.lock = l] \in Hw /\ [hw[t[2]] EXCEPT !.lock = l].lock = l
    BY <1>1 DEF Hw
  <2>3. QED
    BY <2>1, <2>2
<1>4. /\ hw' \in [Drives -> Hw] /\ hw'[t[2]] = h
      /\ \A e \in Drives \ {t[2]} : hw'[e] = hw[e]
  BY <1>1, <1>3, HwFrame
<1>5. \A u \in Runs \ {t} : Locks(u)' => Locks(u)
  BY <1>3, <1>4, RunParts, OtherRun DEF Locks
<1>6. r.pc = "pw_clear" /\ (r.ok \/ ~r.keep) => ~Locks(t)'
  BY <1>1, <1>2, <1>3, <1>4 DEF Locks
<1>7. hist' \in [Runs -> History]
  BY <1>1 DEF TypeOK
<1>8. QED
  BY <1>1, <1>2, <1>4, <1>5, <1>6, <1>7, DeviceKeeps

LEMMA EraseFailsKeep ==
  ASSUME IInv, NEW t \in Runs, PasswordUnsure(t) \/ ErasePrepareFails(t)
  PROVE  IInv'
<1>1. /\ TypeOK /\ task[t].pc \in {"issue", "e_unit"} /\ t[2] \in Drives /\ hw[t[2]] \in Hw
      /\ t[1] \in Jobs
  BY Facts DEF PasswordUnsure, ErasePrepareFails, At
<1>2. Erasing(t)
  BY DEF PasswordUnsure, ErasePrepareFails, At, Erasing
<1>3. UNCHANGED <<store, fmt, unsaved, present, plan, next, hist>> /\ budget' \in [Trouble -> Nat]
  BY <1>1, BudgetType DEF PasswordUnsure, ErasePrepareFails, Trouble
<1>4. PICK keep \in BOOLEAN, l \in {t[1], Nobody, hw[t[2]].lock} :
        /\ Ends(t, FALSE, keep) /\ (keep \/ l = Nobody)
        /\ hw' = [hw EXCEPT ![t[2]].lock = l]
  <2>1. CASE PasswordUnsure(t)
    BY <2>1 DEF PasswordUnsure, Drv
  <2>2. CASE ErasePrepareFails(t) /\ UNCHANGED hw /\ Ends(t, FALSE, TRUE)
    <3>1. hw' = [hw EXCEPT ![t[2]].lock = hw[t[2]].lock]
      BY <1>1, <2>2 DEF TypeOK, Hw
    <3>2. QED
      BY <2>2, <3>1
  <2>3. CASE hw' = [hw EXCEPT ![t[2]].lock = Nobody] /\ Ends(t, FALSE, FALSE)
    BY <2>3
  <2>4. QED
    BY <2>1, <2>2, <2>3 DEF ErasePrepareFails, Drv
<1>5. QED
  BY <1>1, <1>2, <1>3, <1>4, LockMayChange

\* A password that is put on record, or taken off it, in memory.
LEMMA PasswordWritten ==
  ASSUME IInv, NEW t \in Runs, NEW p \in BOOLEAN, SetDj(t, [Dj(t) EXCEPT !.password = p]),
         NEW r \in Task, task' = [task EXCEPT ![t] = r],
         UNCHANGED <<inv, invFile, jobsFile, fmt, unsaved, world, plan, next, hist, budget>>,
         \/ /\ task[t].pc = "begin" /\ r.pc = "pw_save"
            /\ p /\ ~Dj(t).password /\ Current(t) = "erase"
         \/ /\ task[t].pc = "pw_clear" /\ r.pc = "pw_saved"
            /\ p = (Dj(t).password /\ ~task[t].ok /\ task[t].keep)
  PROVE  IInv'
<1>1. task[t].pc \in {"begin", "pw_clear"}
  OBVIOUS
<1>2. TypeOK /\ WorldOK /\ RunOK(t) /\ jobs[t[1]].kept /\ Dj(t) \in DriveJob
  BY <1>1, Facts
<1>3. [Dj(t) EXCEPT !.password = p] \in DriveJob
  BY <1>2, DjType
<1>4. Dj(t)' = [Dj(t) EXCEPT !.password = p]
  BY <1>2, <1>3, SetDjFrame
<1>5. /\ Dj(t)'.password = p /\ Dj(t)'.step = Dj(t).step /\ Dj(t)'.state = Dj(t).state
  BY <1>2, <1>4 DEF DriveJob
<1>6. task'[t] = r
  BY <1>2 DEF TypeOK
<1>7. /\ InFile(t)' = InFile(t) /\ (Locks(t)' <=> Locks(t)) /\ Current(t)' = Current(t)
  BY <1>5 DEF InFile, Locks, Current, world
<1>8. RunOK(t)'
  <2>1. PasswordOK(t)'
    <3>1. ~Erasing(t)' /\ r.pc # "pw_clear"
      BY <1>6 DEF Erasing
    <3>2. Locks(t) => OnRecord(t)
      BY <1>2 DEF RunOK, PasswordOK
    <3>3. task[t].pc = "pw_clear" /\ ~p => ~Locks(t)
      BY <1>2, <3>2 DEF RunOK, PasswordOK, OnRecord
    <3>4. Locks(t) => p /\ InFile(t)
      BY <1>2, <3>2, <3>3 DEF OnRecord
    <3>5. QED
      BY <1>5, <1>6, <1>7, <3>1, <3>4 DEF PasswordOK, OnRecord
  <2>2. SavedOK(t)'
    BY <1>2, <1>5, <1>6, <1>7 DEF RunOK, SavedOK
  <2>3. StepOK(t)'
    BY <1>6, <1>7 DEF StepOK
  <2>4. StateOK(t)'
    BY <1>2, <1>5, <1>6 DEF RunOK, StateOK, WorkPcs
  <2>5. QED
    BY <2>1, <2>2, <2>3, <2>4 DEF RunOK
<1>9. WorldOK' /\ JobsStep(t)
  BY <1>2, <1>3 DEF WorldOK, JobsStep, world
<1>10. ActivityStep(t)
  BY <1>6 DEF ActivityStep, IdlePcs
<1>11. \A u \in Runs \ {t} : Locks(u)' => Locks(u)
  BY DEF Locks, world
<1>12. QED
  BY <1>1, <1>8, <1>9, <1>10, <1>11, RunActs

LEMMA BeginEraseKeeps ==
  ASSUME IInv, NEW t \in Runs, BeginErase(t)
  PROVE  IInv'
<1>1. /\ TypeOK /\ WorldOK /\ RunOK(t) /\ task[t].pc = "begin"
  BY Facts DEF BeginErase, At
<1>2. Current(t) = "erase" /\ UNCHANGED <<inv, invFile, jobsFile, fmt, unsaved, world, plan, next, hist, budget>>
  BY DEF BeginErase, fixed
<1>3. CASE UNCHANGED jobs /\ task' = [task EXCEPT ![t] = [@ EXCEPT !.pc = "result", !.ok = FALSE]]
  <2>1. "result" \in Pcs
    BY DEF Pcs, RunPcs
  <2>2. task' = [task EXCEPT ![t] = [task[t] EXCEPT !.pc = "result", !.ok = FALSE]]
    BY <1>1, <1>3 DEF TypeOK
  <2>3. PICK r \in Task : task' = [task EXCEPT ![t] = r] /\ r.pc = "result"
    BY <1>1, <2>1, <2>2, TaskReplace
  <2>4. QED
    BY <1>1, <1>2, <1>3, <2>3, ResultsKeep DEF TypeOK
<1>4. CASE UNCHANGED jobs /\ Goto(t, "pw_busy") /\ Dj(t).password
  <2>1. PICK r \in Task : task' = [task EXCEPT ![t] = r] /\ r.pc = "pw_busy"
    BY <1>1, <1>4, GotoFrame DEF RunPcs
  <2>2. OnRecord(t)
    BY <1>1, <1>4 DEF RunOK, SavedOK, OnRecord
  <2>3. WorldOK' /\ ActivityStep(t)
    BY <1>1, <1>2 DEF WorldOK, world, ActivityStep, IdlePcs
  <2>4. UNCHANGED <<jobs, jobsFile, plan, next, hw>>
    BY <1>2, <1>4 DEF world
  <2>5. QED
    BY <1>1, <1>2, <2>1, <2>2, <2>3, <2>4, MovesKeep DEF WorkPcs
<1>5. CASE ~Dj(t).password /\ SetDj(t, [Dj(t) EXCEPT !.password = TRUE]) /\ Goto(t, "pw_save")
  <2>1. PICK r \in Task : task' = [task EXCEPT ![t] = r] /\ r.pc = "pw_save"
    BY <1>1, <1>5, GotoFrame DEF RunPcs
  <2>2. QED
    BY <1>1, <1>2, <1>5, <2>1, PasswordWritten
<1>6. QED
  BY <1>3, <1>4, <1>5 DEF BeginErase

LEMMA ClearPasswordKeeps ==
  ASSUME IInv, NEW t \in Runs, ClearPassword(t)
  PROVE  IInv'
<1>1. TypeOK /\ task[t].pc = "pw_clear" /\ Dj(t) \in DriveJob
  BY Facts DEF ClearPassword, At
<1>2. UNCHANGED <<inv, invFile, jobsFile, fmt, unsaved, world, plan, next, hist, budget>>
  BY DEF ClearPassword, fixed
<1>3. PICK r \in Task : task' = [task EXCEPT ![t] = r] /\ r.pc = "pw_saved"
  BY <1>1, GotoFrame DEF ClearPassword, RunPcs
<1>4. PICK p \in BOOLEAN : p = (Dj(t).password /\ ~task[t].ok /\ task[t].keep)
  OBVIOUS
<1>5. SetDj(t, [Dj(t) EXCEPT !.password = p])
  BY <1>4 DEF ClearPassword
<1>6. QED
  BY <1>1, <1>2, <1>3, <1>4, <1>5, PasswordWritten

\* Every step of a run, or of the watch after a restart.
LEMMA RunKeeps ==
  ASSUME AllKept, IInv, NEW t \in Runs, RunDrive(t) \/ Watch(t)
  PROVE  IInv'
<1>1. CASE RunStep(t)
  BY <1>1, BeginFormatKeeps, PersistFormatKeeps, WaitsKeep, BeginCommandKeeps, BeginEraseKeeps,
     SaveStepsKeep, BusyEraseKeeps, IssueKeeps, AnswersKeep, EraseFailsKeep, EraseUnitKeeps,
     ClearPasswordKeeps, SetIdleKeeps, PersistsKeep, BeginTestKeeps, TestEndsKeeps, EnrollKeeps
     DEF RunStep
<1>2. CASE Watch(t)
  BY <1>2, WatchStartKeeps, WaitsKeep, SetIdleKeeps, WatchResultKeeps, SaveStepsKeep, PersistsKeep
     DEF Watch
<1>3. QED
  BY <1>1, <1>2, SpawnKeeps, TopKeeps, TakeLaneKeeps, CheckKeeps, AllowedKeeps, RefusedKeeps,
     SaveStepsKeep, ResultKeeps DEF RunDrive

-----------------------------------------------------------------------------
(* The format runs, the world, and the requests.                             *)

\* A step that no run takes, and that leaves the jobs alone or saves them.
LEMMA OthersAct ==
  ASSUME IInv, UNCHANGED <<jobs, task, plan, next>>, jobsFile' = jobsFile \/ jobsFile' = jobs,
         WorldOK', \A u \in Runs : Locks(u)' => Locks(u),
         \A d \in Drives :
           \/ inv'[d].activity \in {"idle", "missing"}
           \/ /\ inv'[d].activity = inv[d].activity
              /\ \/ inv[d].activity # "formatting"
                 \/ \A f \in Formats : f[2] = d /\ fmt[f].pc \in FormatWorks => fmt'[f].pc \in FormatWorks
  PROVE  IInv'
<1>1. TypeOK /\ KeptInv /\ (\A u \in Runs : RunOK(u)) /\ (\A d \in Drives : OwnedOK(d))
  BY DEF IInv
<1>2. TypeOK'
  BY <1>1 DEF TypeOK, WorldOK
<1>3. KeptInv'
  BY <1>1, RunParts DEF KeptInv
<1>4. ASSUME NEW u \in Runs
      PROVE  RunOK(u)'
  <2>1. InFile(u)' = InFile(u) \/ InFile(u)' = Dj(u).password
    BY DEF InFile, Dj
  <2>2. Dj(u)' = Dj(u)
    BY DEF Dj
  <2>3. QED
    BY <1>1, <2>1, <2>2, RunStays
<1>5. ASSUME NEW d \in Drives
      PROVE  OwnedOK(d)'
  <2>1. \A j \in Jobs : Left(<<j, d>>)' <=> Left(<<j, d>>)
    BY DEF Left, Dj
  <2>2. \A j \in Jobs \cup {Nobody} : <<j, d>> \in Formats /\ <<j, d>>[2] = d
    BY DEF Formats
  <2>3. CASE inv'[d].activity \in {"idle", "missing"}
    BY <2>3 DEF OwnedOK
  <2>4. CASE inv'[d].activity = inv[d].activity /\ inv[d].activity # "formatting"
    BY <1>1, <2>1, <2>4 DEF OwnedOK
  <2>5. CASE /\ inv'[d].activity = inv[d].activity
             /\ \A f \in Formats : f[2] = d /\ fmt[f].pc \in FormatWorks => fmt'[f].pc \in FormatWorks
    <3>1. FormatsOn(d) => FormatsOn(d)'
      BY <2>2, <2>5 DEF FormatsOn, FormatWorks
    <3>2. QED
      BY <1>1, <2>1, <2>5, <3>1, OwnedStays
  <2>6. QED
    BY <2>3, <2>4, <2>5
<1>6. QED
  BY <1>2, <1>3, <1>4, <1>5 DEF IInv

\* A format run's record is replaced.
LEMMA FormatFrame ==
  ASSUME TypeOK, NEW f \in Formats, NEW r \in FormatRun, fmt' = [fmt EXCEPT ![f] = r]
  PROVE  /\ fmt' \in [Formats -> FormatRun] /\ fmt'[f] = r
         /\ \A g \in Formats \ {f} : fmt'[g] = fmt[g]
BY DEF TypeOK

LEMMA FormatIssueKeeps ==
  ASSUME IInv, NEW f \in Formats, FormatIssue(f)
  PROVE  IInv'
<1>1. /\ TypeOK /\ WorldOK /\ f[2] \in Drives /\ fmt[f].pc = "issue" /\ fmt[f] \in FormatRun
      /\ hw[f[2]] \in Hw
  BY DEF IInv, TypeOK, WorldOK, FormatIssue, Formats
<1>2. PICK r \in FormatRun : fmt' = [fmt EXCEPT ![f] = r] /\ r.pc \in FormatWorks
  <2>1. CASE fmt' = [fmt EXCEPT ![f].pc = "busy"]
    <3>1. fmt' = [fmt EXCEPT ![f] = [fmt[f] EXCEPT !.pc = "busy"]]
      BY <1>1, <2>1 DEF TypeOK
    <3>2. [fmt[f] EXCEPT !.pc = "busy"] \in FormatRun /\ [fmt[f] EXCEPT !.pc = "busy"].pc = "busy"
      BY <1>1 DEF FormatRun
    <3>3. QED
      BY <3>1, <3>2 DEF FormatWorks
  <2>2. CASE fmt' = [fmt EXCEPT ![f] = [pc |-> "finish", run |-> "failed"]]
    <3>1. [pc |-> "finish", run |-> "failed"] \in FormatRun
      BY DEF FormatRun
    <3>2. QED
      BY <2>2, <3>1 DEF FormatWorks
  <2>3. QED
    BY <2>1, <2>2 DEF FormatIssue
<1>3. /\ fmt' \in [Formats -> FormatRun] /\ fmt'[f].pc \in FormatWorks
      /\ \A g \in Formats \ {f} : fmt'[g] = fmt[g]
  BY <1>1, <1>2, FormatFrame
<1>4. PICK h \in Hw : hw' = [hw EXCEPT ![f[2]] = h] /\ h.lock = hw[f[2]].lock
  <2>1. CASE UNCHANGED hw
    BY <1>1, <2>1 DEF TypeOK
  <2>2. CASE hw' = [hw EXCEPT ![f[2]].op = "format", ![f[2]].formatted = FALSE]
    <3>1. hw' = [hw EXCEPT ![f[2]] = [hw[f[2]] EXCEPT !.op = "format", !.formatted = FALSE]]
      BY <1>1, <2>2 DEF TypeOK
    <3>2. /\ [hw[f[2]] EXCEPT !.op = "format", !.formatted = FALSE] \in Hw
          /\ [hw[f[2]] EXCEPT !.op = "format", !.formatted = FALSE].lock = hw[f[2]].lock
      BY <1>1 DEF Hw, Op
    <3>3. QED
      BY <3>1, <3>2
  <2>3. QED
    BY <2>1, <2>2 DEF FormatIssue
<1>5. /\ hw' \in [Drives -> Hw] /\ hw'[f[2]] = h
      /\ \A e \in Drives \ {f[2]} : hw'[e] = hw[e]
  BY <1>1, <1>4, HwFrame
<1>6. \A u \in Runs : Locks(u)' => Locks(u)
  BY <1>4, <1>5, RunParts DEF Locks
<1>7. hist' \in [Runs -> History]
  <2>1. CASE UNCHANGED hist
    BY <1>1, <2>1 DEF TypeOK
  <2>2. CASE hist' = [hist EXCEPT ![f] = [sent |-> @.sent \cup {Dj(f).step}, asked |-> FALSE]]
    <3>1. CASE f \in Runs
      <4>1. Sent(f)
        BY <2>2 DEF Sent
      <4>2. QED
        BY <1>1, <3>1, <4>1, SentType
    <3>2. CASE f \notin Runs
      BY <1>1, <2>2, <3>2 DEF TypeOK
    <3>3. QED
      BY <3>1, <3>2
  <2>3. QED
    BY <2>1, <2>2 DEF FormatIssue
<1>8. budget' \in [Trouble -> Nat]
  BY <1>1, BudgetType DEF FormatIssue, Trouble
<1>9. UNCHANGED <<inv, invFile, jobs, jobsFile, task, unsaved, present, plan, next>>
  BY DEF FormatIssue, store
<1>10. WorldOK'
  BY <1>1, <1>3, <1>5, <1>7, <1>8, <1>9 DEF WorldOK
<1>11. QED
  BY <1>3, <1>6, <1>9, <1>10, OthersAct

LEMMA FormatEndsKeeps ==
  ASSUME IInv, NEW f \in Formats, FormatEnds(f)
  PROVE  IInv'
<1>1. TypeOK /\ WorldOK /\ fmt[f].pc = "busy"
  BY DEF IInv, TypeOK, WorldOK, FormatEnds
<1>2. PICK r \in FormatRun : fmt' = [fmt EXCEPT ![f] = r] /\ r.pc \in FormatWorks
  <2>1. PICK s \in {"done", "failed"} : fmt' = [fmt EXCEPT ![f] = [pc |-> "finish", run |-> s]]
    BY DEF FormatEnds
  <2>2. [pc |-> "finish", run |-> s] \in FormatRun
    BY DEF FormatRun
  <2>3. QED
    BY <2>1, <2>2 DEF FormatWorks
<1>3. /\ fmt' \in [Formats -> FormatRun] /\ fmt'[f].pc \in FormatWorks
      /\ \A g \in Formats \ {f} : fmt'[g] = fmt[g]
  BY <1>1, <1>2, FormatFrame
<1>4. UNCHANGED <<inv, invFile, jobs, jobsFile, task, unsaved, hw, present, plan, next, hist, budget>>
  BY DEF FormatEnds, store, world, fixed
<1>5. WorldOK' /\ \A u \in Runs : Locks(u)' => Locks(u)
  BY <1>1, <1>3, <1>4 DEF WorldOK, Locks
<1>6. QED
  BY <1>3, <1>4, <1>5, OthersAct

\* The drive is set idle only if it reads formatting.
LEMMA FormatFinishKeeps ==
  ASSUME IInv, NEW f \in Formats, FormatFinish(f)
  PROVE  IInv'
<1>1. /\ TypeOK /\ WorldOK /\ f[2] \in Drives /\ fmt[f].pc = "finish" /\ fmt[f] \in FormatRun
      /\ inv[f[2]] \in Drive
  BY DEF IInv, TypeOK, WorldOK, FormatFinish, Formats
<1>2. PICK r \in FormatRun : fmt' = [fmt EXCEPT ![f] = r]
  <2>1. fmt' = [fmt EXCEPT ![f] = [fmt[f] EXCEPT !.pc = "persist"]]
    BY <1>1 DEF FormatFinish, TypeOK
  <2>2. [fmt[f] EXCEPT !.pc = "persist"] \in FormatRun
    BY <1>1 DEF FormatRun
  <2>3. QED
    BY <2>1, <2>2
<1>3. /\ fmt' \in [Formats -> FormatRun] /\ \A g \in Formats \ {f} : fmt'[g] = fmt[g]
  BY <1>1, <1>2, FormatFrame
<1>4. PICK e \in Drive : /\ inv' = [inv EXCEPT ![f[2]] = e]
                         /\ e.activity = IF inv[f[2]].activity = "formatting" THEN "idle"
                                         ELSE inv[f[2]].activity
  <2>1. PICK a \in Activity : a = IF inv[f[2]].activity = "formatting" THEN "idle" ELSE inv[f[2]].activity
    BY <1>1 DEF Drive, Activity
  <2>2. inv' = [inv EXCEPT ![f[2]] = [inv[f[2]] EXCEPT !.activity = a, !.format = fmt[f].run]]
    BY <1>1, <2>1 DEF FormatFinish, TypeOK
  <2>3. fmt[f].run \in Record
    BY <1>1 DEF FormatRun, Record
  <2>4. /\ [inv[f[2]] EXCEPT !.activity = a, !.format = fmt[f].run] \in Drive
        /\ [inv[f[2]] EXCEPT !.activity = a, !.format = fmt[f].run].activity = a
    BY <1>1, <2>3 DEF Drive
  <2>5. QED
    BY <2>1, <2>2, <2>4
<1>5. /\ inv' \in [Drives -> Drive] /\ inv'[f[2]] = e
      /\ \A d \in Drives \ {f[2]} : inv'[d] = inv[d]
  BY <1>1, <1>4 DEF TypeOK
<1>6. UNCHANGED <<invFile, jobs, jobsFile, task, unsaved, hw, present, plan, next, hist, budget>>
  BY DEF FormatFinish, world, fixed
<1>7. WorldOK' /\ \A u \in Runs : Locks(u)' => Locks(u)
  BY <1>1, <1>3, <1>5, <1>6 DEF WorldOK, Locks
<1>8. ASSUME NEW d \in Drives
      PROVE  \/ inv'[d].activity \in {"idle", "missing"}
             \/ /\ inv'[d].activity = inv[d].activity
                /\ \/ inv[d].activity # "formatting"
                   \/ \A g \in Formats : g[2] = d /\ fmt[g].pc \in FormatWorks => fmt'[g].pc \in FormatWorks
  BY <1>3, <1>4, <1>5
<1>9. QED
  BY <1>6, <1>7, <1>8, OthersAct

LEMMA FormatPersistKeeps ==
  ASSUME IInv, NEW f \in Formats, FormatPersist(f)
  PROVE  IInv'
<1>1. TypeOK /\ WorldOK /\ fmt[f].pc = "persist" /\ fmt[f] \in FormatRun
  BY DEF IInv, TypeOK, WorldOK, FormatPersist
<1>2. PICK r \in FormatRun : fmt' = [fmt EXCEPT ![f] = r]
  <2>1. fmt' = [fmt EXCEPT ![f] = [fmt[f] EXCEPT !.pc = "none"]]
    BY <1>1 DEF FormatPersist, TypeOK
  <2>2. [fmt[f] EXCEPT !.pc = "none"] \in FormatRun
    BY <1>1 DEF FormatRun
  <2>3. QED
    BY <2>1, <2>2
<1>3. /\ fmt' \in [Formats -> FormatRun] /\ \A g \in Formats \ {f} : fmt'[g] = fmt[g]
  BY <1>1, <1>2, FormatFrame
<1>4. /\ UNCHANGED <<inv, jobs, jobsFile, task, unsaved, hw, present, plan, next, hist, budget>>
      /\ invFile' = inv
  BY DEF FormatPersist, Persist, world, fixed
<1>5. WorldOK' /\ \A u \in Runs : Locks(u)' => Locks(u)
  BY <1>1, <1>3, <1>4 DEF WorldOK, Locks
<1>6. fmt[f].pc \notin FormatWorks
  BY <1>1 DEF FormatWorks
<1>7. QED
  BY <1>3, <1>4, <1>5, <1>6, OthersAct

\* A drive that ends its work may be unlocked by it, never locked.
LEMMA HwEndsKeeps ==
  ASSUME IInv, NEW d \in Drives, HwEnds(d)
  PROVE  IInv'
<1>1. TypeOK /\ WorldOK /\ hw[d] \in Hw
  BY DEF IInv, TypeOK, WorldOK
<1>2. PICK good \in BOOLEAN :
        /\ UNCHANGED budget \/ Spend("fail")
        /\ hw' = [hw EXCEPT ![d] =
                   [op |-> "idle", good |-> good,
                    lock |-> IF good /\ hw[d].op = "erase" THEN Nobody ELSE hw[d].lock,
                    formatted |-> hw[d].formatted \/ (good /\ hw[d].op = "format")]]
  BY <1>1 DEF HwEnds, TypeOK
<1>3. PICK h \in Hw : hw' = [hw EXCEPT ![d] = h] /\ h.lock \in {Nobody, hw[d].lock}
  <2>1. PICK formatted \in BOOLEAN : formatted = (hw[d].formatted \/ (good /\ hw[d].op = "format"))
    OBVIOUS
  <2>2. PICK l \in {Nobody, hw[d].lock} : l = IF good /\ hw[d].op = "erase" THEN Nobody ELSE hw[d].lock
    OBVIOUS
  <2>3. hw' = [hw EXCEPT ![d] = [op |-> "idle", good |-> good, lock |-> l, formatted |-> formatted]]
    BY <1>2, <2>1, <2>2
  <2>4. [op |-> "idle", good |-> good, lock |-> l, formatted |-> formatted] \in Hw
    BY <1>1 DEF Hw, Op
  <2>5. QED
    BY <2>3, <2>4
<1>4. /\ hw' \in [Drives -> Hw] /\ hw'[d] = h
      /\ \A e \in Drives \ {d} : hw'[e] = hw[e]
  BY <1>1, <1>3, HwFrame
<1>5. \A u \in Runs : Locks(u)' => Locks(u)
  BY <1>3, <1>4, RunParts DEF Locks
<1>6. UNCHANGED <<inv, invFile, jobs, jobsFile, task, fmt, unsaved, present, plan, next, hist>>
  BY DEF HwEnds, store
<1>7. WorldOK'
  <2>1. budget' \in [Trouble -> Nat]
    BY <1>1, <1>2, BudgetType DEF Trouble
  <2>2. QED
    BY <1>1, <1>4, <1>6, <2>1 DEF WorldOK
<1>8. QED
  BY <1>5, <1>6, <1>7, OthersAct

LEMMA WorldKeeps ==
  ASSUME IInv, World
  PROVE  IInv'
<1>1. TypeOK /\ WorldOK
  BY DEF IInv, TypeOK, WorldOK
<1>2. PICK d \in Drives : HwEnds(d) \/ Pull(d) \/ Push(d) \/ Scan(d)
  BY DEF World
<1>3. CASE Pull(d) \/ Push(d)
  <2>1. UNCHANGED <<inv, invFile, jobs, jobsFile, task, fmt, unsaved, hw, plan, next, hist>>
    BY <1>3 DEF Pull, Push, store, fixed
  <2>2. present' \subseteq Drives
    BY <1>1, <1>3 DEF Pull, Push, WorldOK
  <2>3. budget' \in [Trouble -> Nat]
    BY <1>1, <1>3, BudgetType DEF Pull, Push, fixed, Trouble
  <2>4. WorldOK' /\ \A u \in Runs : Locks(u)' => Locks(u)
    BY <1>1, <2>1, <2>2, <2>3 DEF WorldOK, Locks
  <2>5. QED
    BY <2>1, <2>4, OthersAct
<1>4. CASE Scan(d)
  <2>1. PICK a \in {"idle", "missing"} : SetActivity(d, a)
    BY <1>4 DEF Scan
  <2>2. /\ inv' \in [Drives -> Drive] /\ inv'[d].activity = a
        /\ \A e \in Drives \ {d} : inv'[e] = inv[e]
    BY <1>1, <2>1, ActivityType DEF Activity
  <2>3. UNCHANGED <<invFile, jobs, jobsFile, task, fmt, unsaved, hw, present, plan, next, hist, budget>>
    BY <1>4 DEF Scan, world, fixed
  <2>4. WorldOK' /\ \A u \in Runs : Locks(u)' => Locks(u)
    BY <1>1, <2>2, <2>3 DEF WorldOK, Locks
  <2>5. QED
    BY <2>2, <2>3, <2>4, OthersAct
<1>5. QED
  BY <1>2, <1>3, <1>4, HwEndsKeeps

LEMMA OtherPersistKeeps ==
  ASSUME IInv, OtherPersist
  PROVE  IInv'
<1>1. UNCHANGED <<inv, jobs, jobsFile, task, fmt, unsaved, hw, present, plan, next, hist, budget>> /\ invFile' = inv
  BY DEF OtherPersist, Persist, world, fixed
<1>2. WorldOK' /\ \A u \in Runs : Locks(u)' => Locks(u)
  BY <1>1 DEF IInv, TypeOK, WorldOK, Locks
<1>3. QED
  BY <1>1, <1>2, OthersAct

LEMMA CancelSaveKeeps ==
  ASSUME AllKept, IInv, NEW j \in Jobs, CancelSave(j)
  PROVE  IInv'
<1>1. TypeOK
  BY DEF IInv
<1>2. jobs' = jobs /\ jobsFile' = jobs /\ UNCHANGED <<inv, invFile>>
  BY <1>1, SaveFrame DEF CancelSave
<1>3. unsaved' \subseteq Jobs /\ UNCHANGED <<task, fmt, hw, present, plan, next, hist, budget>>
  BY <1>1 DEF CancelSave, TypeOK, world, fixed
<1>4. WorldOK' /\ \A u \in Runs : Locks(u)' => Locks(u)
  BY <1>1, <1>2, <1>3 DEF TypeOK, WorldOK, Locks
<1>5. QED
  BY <1>2, <1>3, <1>4, OthersAct

\* What a request may do to a run: its password and step stay, a run at work
\* stays at work, and only one that is not is spawned.
Asked(u) ==
  /\ Dj(u)'.password = Dj(u).password /\ Dj(u)'.step = Dj(u).step
  /\ Dj(u).state = "running" => Dj(u)'.state = "running"
  /\ \/ /\ task'[u] = task[u]
        /\ plan'[u[1]] = plan[u[1]] \/ task[u].pc = "none"
     \/ Dj(u).state # "running" /\ task'[u].pc = "spawn"

LEMMA RequestActs ==
  ASSUME IInv, UNCHANGED <<inv, invFile, jobsFile, fmt, hw, present>>,
         TypeOK', KeptInv', \A u \in Runs : Asked(u)
  PROVE  IInv'
<1>1. (\A u \in Runs : RunOK(u)) /\ (\A d \in Drives : OwnedOK(d))
  BY DEF IInv
<1>2. ASSUME NEW u \in Runs
      PROVE  RunOK(u)'
  <2>1. RunOK(u) /\ Asked(u) /\ InFile(u)' = InFile(u) /\ (Locks(u)' <=> Locks(u))
    BY <1>1 DEF InFile, Locks
  <2>2. Dj(u).state # "running" => task[u].pc \notin WorkPcs
    BY <2>1 DEF RunOK, StateOK
  <2>3. CASE task'[u] = task[u] /\ plan'[u[1]] = plan[u[1]]
    <3>1. Current(u)' = Current(u)
      BY <2>1, <2>3 DEF Asked, Current
    <3>2. PasswordOK(u)'
      BY <2>1, <2>3, <3>1 DEF Asked, RunOK, PasswordOK, OnRecord, Erasing
    <3>3. SavedOK(u)' /\ StepOK(u)' /\ StateOK(u)'
      BY <2>1, <2>3, <3>1 DEF Asked, RunOK, SavedOK, StepOK, StateOK
    <3>4. QED
      BY <3>2, <3>3 DEF RunOK
  <2>4. CASE task'[u] = task[u] /\ task[u].pc = "none"
    <3>1. PasswordOK(u)'
      BY <2>1, <2>4 DEF Asked, RunOK, PasswordOK, OnRecord, Erasing
    <3>2. SavedOK(u)' /\ StepOK(u)' /\ StateOK(u)'
      BY <2>1, <2>4 DEF Asked, RunOK, SavedOK, StepOK, StateOK, WorkPcs
    <3>3. QED
      BY <3>1, <3>2 DEF RunOK
  <2>5. CASE Dj(u).state # "running" /\ task'[u].pc = "spawn"
    <3>1. PasswordOK(u)'
      BY <2>1, <2>5 DEF Asked, RunOK, PasswordOK, OnRecord, Erasing
    <3>2. SavedOK(u)' /\ StepOK(u)' /\ StateOK(u)'
      BY <2>1, <2>2, <2>5 DEF Asked, RunOK, SavedOK, StepOK, StateOK, WorkPcs
    <3>3. QED
      BY <3>1, <3>2 DEF RunOK
  <2>6. QED
    BY <2>1, <2>3, <2>4, <2>5 DEF Asked
<1>3. ASSUME NEW u \in Runs
      PROVE  /\ task[u].pc \in IdlePcs \cup {"f_persist"} => task'[u] = task[u]
             /\ Left(u) => Left(u)'
  <2>1. Asked(u) /\ RunOK(u)
    BY <1>1
  <2>2. task[u].pc \in IdlePcs \cup {"f_persist"} => Dj(u).state = "running"
    BY <2>1 DEF RunOK, StateOK, IdlePcs, WorkPcs
  <2>3. QED
    BY <2>1, <2>2 DEF Asked, Left
<1>4. ASSUME NEW d \in Drives
      PROVE  OwnedOK(d)'
  <2>1. \A j \in Jobs : <<j, d>> \in Runs
    BY RunIs
  <2>2. FormatsOn(d) => FormatsOn(d)'
    BY <1>3, <2>1 DEF FormatsOn
  <2>3. QED
    BY <1>1, <1>3, <2>1, <2>2, OwnedStays
<1>5. QED
  BY <1>2, <1>4 DEF IInv

LEMMA CancelKeeps ==
  ASSUME IInv, NEW j \in Jobs, Cancel(j)
  PROVE  IInv'
<1>1. TypeOK /\ KeptInv /\ jobs[j] \in Job /\ jobs[j].kept
  BY DEF IInv, TypeOK, Cancel
<1> DEFINE dj == [d \in Drives |-> [jobs[j].dj[d] EXCEPT !.state = Cancelled(@)]]
           job == [jobs[j] EXCEPT !.cancel = TRUE, !.dj = dj]
<1>2. ASSUME NEW d \in Drives
      PROVE  /\ dj[d] \in DriveJob /\ dj[d].password = jobs[j].dj[d].password
             /\ dj[d].step = jobs[j].dj[d].step
             /\ jobs[j].dj[d].state = "running" => dj[d].state = "running"
  <2>1. jobs[j].dj[d] \in DriveJob
    BY <1>1 DEF Job
  <2>2. Cancelled(jobs[j].dj[d].state) \in DjState
    BY <2>1 DEF Cancelled, DriveJob, DjState
  <2>3. dj[d] = [jobs[j].dj[d] EXCEPT !.state = Cancelled(jobs[j].dj[d].state)]
    BY <2>1 DEF DriveJob
  <2>4. /\ dj[d] \in DriveJob /\ dj[d].state = Cancelled(jobs[j].dj[d].state)
        /\ dj[d].password = jobs[j].dj[d].password /\ dj[d].step = jobs[j].dj[d].step
    BY <2>1, <2>2, <2>3 DEF DriveJob
  <2>5. QED
    BY <2>4 DEF Cancelled
<1>3. dj \in [Drives -> DriveJob]
  BY <1>2
<1>4. jobs' = [jobs EXCEPT ![j] = job]
  BY <1>1 DEF Cancel, TypeOK, Job
<1> HIDE DEF dj
<1>5. job \in Job /\ job.kept /\ job.dj = dj
  BY <1>1, <1>3 DEF Job
<1> HIDE DEF job
<1>6. /\ jobs' \in [Jobs -> Job] /\ jobs'[j] = job
      /\ \A k \in Jobs \ {j} : jobs'[k] = jobs[k]
  BY <1>1, <1>4, <1>5 DEF TypeOK
<1>7. /\ UNCHANGED <<inv, invFile, jobsFile, plan, next, task, fmt, hw, present, hist>>
      /\ unsaved' = unsaved \cup {j} /\ budget' \in [Trouble -> Nat]
  BY <1>1, BudgetType DEF Cancel, world, Trouble
<1>8. TypeOK'
  BY <1>1, <1>6, <1>7 DEF TypeOK
<1>9. KeptInv'
  BY <1>1, <1>5, <1>6, <1>7, RunParts DEF KeptInv
<1>10. ASSUME NEW u \in Runs
       PROVE  Asked(u)
  <2>1. u[1] \in Jobs /\ u[2] \in Drives
    BY RunParts
  <2>2. CASE u[1] = j
    <3>1. Dj(u)' = dj[u[2]] /\ Dj(u) = jobs[j].dj[u[2]]
      BY <1>5, <1>6, <2>1, <2>2 DEF Dj
    <3>2. QED
      BY <1>2, <1>7, <2>1, <3>1 DEF Asked
  <2>3. CASE u[1] # j
    <3>1. Dj(u)' = Dj(u)
      BY <1>6, <2>1, <2>3 DEF Dj
    <3>2. QED
      BY <1>7, <3>1 DEF Asked
  <2>4. QED
    BY <2>2, <2>3
<1>11. QED
  BY <1>7, <1>8, <1>9, <1>10, RequestActs

\* Only what is interrupted is spawned again.
LEMMA ResumeKeeps ==
  ASSUME IInv, NEW j \in Jobs, Resume(j)
  PROVE  IInv'
<1> DEFINE stopped == {d \in Drives : jobs[j].dj[d].state = "interrupted"}
           dj == [d \in Drives |-> IF d \in stopped THEN [jobs[j].dj[d] EXCEPT !.state = "queued"]
                                   ELSE jobs[j].dj[d]]
           job == [jobs[j] EXCEPT !.dj = dj]
<1>1. TypeOK /\ KeptInv /\ jobs[j] \in Job /\ jobs[j].kept
  BY DEF IInv, TypeOK, Resume
<1>2. ASSUME NEW d \in Drives
      PROVE  /\ dj[d] \in DriveJob /\ dj[d].password = jobs[j].dj[d].password
             /\ dj[d].step = jobs[j].dj[d].step
             /\ jobs[j].dj[d].state = "running" => dj[d].state = "running"
             /\ d \in stopped => jobs[j].dj[d].state # "running"
  <2>1. jobs[j].dj[d] \in DriveJob
    BY <1>1 DEF Job
  <2>2. /\ [jobs[j].dj[d] EXCEPT !.state = "queued"] \in DriveJob
        /\ [jobs[j].dj[d] EXCEPT !.state = "queued"].password = jobs[j].dj[d].password
        /\ [jobs[j].dj[d] EXCEPT !.state = "queued"].step = jobs[j].dj[d].step
    BY <2>1 DEF DriveJob, DjState
  <2>3. QED
    BY <2>1, <2>2
<1>3. dj \in [Drives -> DriveJob]
  BY <1>2
<1>4. jobs' = [jobs EXCEPT ![j] = job]
  BY <1>1 DEF Resume, TypeOK, Job
<1>5. /\ task' = [t \in Runs |-> IF t[1] = j /\ t[2] \in stopped
                                 THEN [NoTask EXCEPT !.pc = "spawn"] ELSE task[t]]
      /\ hist' = [t \in Runs |-> IF t[1] = j /\ t[2] \in stopped
                                 THEN [hist[t] EXCEPT !.asked = TRUE] ELSE hist[t]]
  BY DEF Resume
<1> HIDE DEF dj, stopped
<1>6. job \in Job /\ job.kept /\ job.dj = dj
  BY <1>1, <1>3 DEF Job
<1> HIDE DEF job
<1>7. /\ jobs' \in [Jobs -> Job] /\ jobs'[j] = job
      /\ \A k \in Jobs \ {j} : jobs'[k] = jobs[k]
  BY <1>1, <1>4, <1>6 DEF TypeOK
<1>8. /\ UNCHANGED <<inv, invFile, jobsFile, plan, next, fmt, unsaved, hw, present>>
      /\ budget' \in [Trouble -> Nat]
  BY <1>1, BudgetType DEF Resume, world, Trouble
<1>9. [NoTask EXCEPT !.pc = "spawn"] \in Task /\ [NoTask EXCEPT !.pc = "spawn"].pc = "spawn"
  BY DEF NoTask, Task, RunPcs
<1>10. task' \in [Runs -> Task]
  BY <1>1, <1>5, <1>9 DEF TypeOK
<1>11. hist' \in [Runs -> History]
  <2>1. \A t \in Runs : hist[t] \in History /\ [hist[t] EXCEPT !.asked = TRUE] \in History
    BY <1>1 DEF TypeOK, History
  <2>2. QED
    BY <1>5, <2>1
<1>12. TypeOK'
  BY <1>1, <1>7, <1>8, <1>10, <1>11 DEF TypeOK
<1>13. KeptInv'
  <2>1. \A u \in Runs : task'[u].pc # "none" => jobs'[u[1]].kept
    BY <1>1, <1>5, <1>6, <1>7, RunParts DEF KeptInv
  <2>2. QED
    BY <1>1, <1>6, <1>7, <1>8, <2>1 DEF KeptInv
<1>14. ASSUME NEW u \in Runs
       PROVE  Asked(u)
  <2>1. u[1] \in Jobs /\ u[2] \in Drives
    BY RunParts
  <2>2. CASE u[1] = j
    <3>1. Dj(u)' = dj[u[2]] /\ Dj(u) = jobs[j].dj[u[2]]
      BY <1>6, <1>7, <2>1, <2>2 DEF Dj
    <3>2. task'[u] = task[u] \/ (u[2] \in stopped /\ task'[u].pc = "spawn")
      BY <1>5, <1>9
    <3>3. QED
      BY <1>2, <1>8, <2>1, <3>1, <3>2 DEF Asked
  <2>3. CASE u[1] # j
    <3>1. Dj(u)' = Dj(u)
      BY <1>7, <2>1, <2>3 DEF Dj
    <3>2. task'[u] = task[u]
      BY <1>5, <2>3
    <3>3. QED
      BY <1>8, <3>1, <3>2 DEF Asked
  <2>4. QED
    BY <2>2, <2>3
<1>15. QED
  BY <1>8, <1>12, <1>13, <1>14, RequestActs

\* A new job takes an id that nothing is known of.
LEMMA SubmitKeeps ==
  ASSUME IInv, NEW p \in Plans, NEW sel \in Selections, Submit(p, sel)
  PROVE  IInv'
<1>1. TypeOK /\ KeptInv /\ next \in Jobs /\ MaxJobs \in Nat /\ p \in Seq(Step)
  BY WorkerAssumption DEF IInv, TypeOK, Submit, Jobs, WorkerAssumption
<1>2. PICK queued \in SUBSET Drives :
        /\ jobs' = [jobs EXCEPT ![next] =
             [kept |-> TRUE, cancel |-> FALSE,
              dj |-> [d \in Drives |->
                       [NoDriveJob EXCEPT !.state =
                          IF d \in queued THEN "queued"
                          ELSE IF d \in sel THEN "refused" ELSE "absent"]]]]
        /\ plan' = [plan EXCEPT ![next] = p]
        /\ task' = [t \in Runs |-> IF t[1] = next /\ t[2] \in queued
                                   THEN [NoTask EXCEPT !.pc = "spawn"] ELSE task[t]]
        /\ hist' = [t \in Runs |-> IF t[1] = next /\ t[2] \in queued
                                   THEN [sent |-> {}, asked |-> TRUE] ELSE hist[t]]
  <2>1. sel \subseteq Drives
    BY WorkerAssumption DEF WorkerAssumption
  <2>2. QED
    BY <2>1 DEF Submit
<1> DEFINE dj == [d \in Drives |->
                   [NoDriveJob EXCEPT !.state =
                      IF d \in queued THEN "queued"
                      ELSE IF d \in sel THEN "refused" ELSE "absent"]]
           job == [kept |-> TRUE, cancel |-> FALSE, dj |-> dj]
<1>3. ASSUME NEW d \in Drives
      PROVE  dj[d] \in DriveJob /\ dj[d].password = FALSE /\ dj[d].step = 0
  BY DEF NoDriveJob, DriveJob, DjState
<1>4. jobs' = [jobs EXCEPT ![next] = job]
  BY <1>2
<1>5. dj \in [Drives -> DriveJob]
  BY <1>3
<1> HIDE DEF dj
<1>6. job \in Job /\ job.kept /\ job.dj = dj
  BY <1>5 DEF Job
<1> HIDE DEF job
<1>7. /\ jobs' \in [Jobs -> Job] /\ jobs'[next] = job
      /\ \A k \in Jobs \ {next} : jobs'[k] = jobs[k]
  BY <1>1, <1>4, <1>6 DEF TypeOK
<1>8. /\ UNCHANGED <<inv, invFile, jobsFile, fmt, unsaved, hw, present, budget>>
      /\ next' = next + 1
  BY DEF Submit, world
<1>9. [NoTask EXCEPT !.pc = "spawn"] \in Task /\ [NoTask EXCEPT !.pc = "spawn"].pc = "spawn"
  BY DEF NoTask, Task, RunPcs
<1>10. task' \in [Runs -> Task]
  BY <1>1, <1>2, <1>9 DEF TypeOK
<1>11. hist' \in [Runs -> History]
  <2>1. [sent |-> {}, asked |-> TRUE] \in History
    BY DEF History
  <2>2. QED
    BY <1>1, <1>2, <2>1 DEF TypeOK
<1>12. plan' \in [Jobs -> Seq(Step)] /\ \A k \in Jobs \ {next} : plan'[k] = plan[k]
  BY <1>1, <1>2 DEF TypeOK
<1>13. next' \in 1..(MaxJobs + 1)
  BY <1>1, <1>8 DEF Jobs
<1>14. TypeOK'
  BY <1>1, <1>7, <1>8, <1>10, <1>11, <1>12, <1>13 DEF TypeOK
<1>15. jobs[next] = NoJob /\ ~jobsFile[next].kept /\ \A u \in Runs : u[1] = next => task[u].pc = "none"
  <2>1. ~jobs[next].kept /\ ~jobsFile[next].kept
    BY <1>1 DEF KeptInv, Jobs
  <2>2. jobs[next] = NoJob
    BY <1>1, <2>1 DEF KeptInv
  <2>3. \A u \in Runs : u[1] = next => task[u].pc = "none"
    BY <1>1, <2>1 DEF KeptInv
  <2>4. QED
    BY <2>1, <2>2, <2>3
<1>16. KeptInv'
  <2>1. \A u \in Runs : task'[u].pc # "none" => jobs'[u[1]].kept
    BY <1>1, <1>2, <1>6, <1>7, RunParts DEF KeptInv
  <2>2. \A k \in Jobs : k >= next' => ~jobs'[k].kept /\ ~jobsFile'[k].kept
    BY <1>1, <1>7, <1>8 DEF KeptInv, Jobs
  <2>3. QED
    BY <1>1, <1>6, <1>7, <1>8, <2>1, <2>2 DEF KeptInv
<1>17. ASSUME NEW u \in Runs
       PROVE  Asked(u)
  <2>1. u[1] \in Jobs /\ u[2] \in Drives
    BY RunParts
  <2>2. CASE u[1] = next
    <3>1. Dj(u)' = dj[u[2]] /\ Dj(u) = NoDriveJob
      BY <1>6, <1>7, <1>15, <2>1, <2>2 DEF Dj, NoJob
    <3>2. Dj(u).password = FALSE /\ Dj(u).step = 0 /\ Dj(u).state # "running"
      BY <3>1 DEF NoDriveJob
    <3>3. task'[u] = task[u] \/ task'[u].pc = "spawn"
      BY <1>2, <1>9
    <3>4. QED
      BY <1>3, <1>15, <2>1, <2>2, <3>1, <3>2, <3>3 DEF Asked
  <2>3. CASE u[1] # next
    <3>1. Dj(u)' = Dj(u)
      BY <1>7, <2>1, <2>3 DEF Dj
    <3>2. task'[u] = task[u] /\ plan'[u[1]] = plan[u[1]]
      BY <1>2, <1>12, <2>1, <2>3
    <3>3. QED
      BY <3>1, <3>2 DEF Asked
  <2>4. QED
    BY <2>2, <2>3
<1>18. QED
  BY <1>8, <1>14, <1>16, <1>17, RequestActs

-----------------------------------------------------------------------------
(* A restart: what the files say is made into tasks, or set idle.            *)

LEMMA RestartTypes ==
  ASSUME TypeOK, Restart
  PROVE  /\ inv' \in [Drives -> Drive] /\ invFile' \in [Drives -> Drive]
         /\ \A d \in Drives : inv'[d].activity \in {"idle", AfterOrphans[d].activity}
         /\ hw' \in [Drives -> Hw] /\ \A d \in Drives : hw'[d].lock = hw[d].lock
         /\ task' \in [Runs -> Task] /\ fmt' \in [Formats -> FormatRun]
<1>1. AfterOrphans \in [Drives -> Drive]
  <2>1. ASSUME NEW d \in Drives
        PROVE  AfterOrphans[d] \in Drive
    <3>1. invFile[d] \in Drive
      BY DEF TypeOK
    <3>2. PICK f \in Record : f = IF invFile[d].activity = "formatting" /\ invFile[d].format = "running"
                                  THEN "interrupted" ELSE invFile[d].format
      BY <3>1 DEF Drive, Record
    <3>3. [invFile[d] EXCEPT !.activity = "idle", !.format = f] \in Drive
      BY <3>1, <3>2 DEF Drive, Activity
    <3>4. AfterOrphans[d] \in {invFile[d], [invFile[d] EXCEPT !.activity = "idle", !.format = f]}
      BY <3>2 DEF AfterOrphans
    <3>5. QED
      BY <3>1, <3>3, <3>4
  <2>2. AfterOrphans = [d \in Drives |-> AfterOrphans[d]]
    BY DEF AfterOrphans
  <2>3. QED
    BY <2>1, <2>2
<1>2. /\ AfterInterrupts \in [Drives -> Drive]
      /\ \A d \in Drives : AfterInterrupts[d].activity \in {"idle", AfterOrphans[d].activity}
  <2>1. ASSUME NEW e \in Drive
        PROVE  /\ [e EXCEPT !.activity = "idle"] \in Drive
               /\ [e EXCEPT !.activity = "idle"].activity = "idle"
    BY DEF Drive, Activity
  <2>2. QED
    BY <1>1, <2>1 DEF AfterInterrupts
<1>3. hw' \in [Drives -> Hw] /\ \A d \in Drives : hw'[d].lock = hw[d].lock
  <2>1. ASSUME NEW h \in Hw
        PROVE  /\ [h EXCEPT !.op = "idle", !.good = TRUE] \in Hw
               /\ [h EXCEPT !.op = "idle", !.good = TRUE].lock = h.lock
    BY DEF Hw, Op
  <2>2. hw' = [d \in Drives |-> IF hw[d].op = "partition"
                                THEN [hw[d] EXCEPT !.op = "idle", !.good = TRUE] ELSE hw[d]]
    BY DEF Restart
  <2>3. \A d \in Drives : hw[d] \in Hw
    BY DEF TypeOK
  <2>4. QED
    BY <2>1, <2>2, <2>3
<1>4. task' \in [Runs -> Task]
  <2>1. [NoTask EXCEPT !.pc = "w_start"] \in Task /\ NoTask \in Task
    BY DEF NoTask, Task, WatchPcs
  <2>2. QED
    BY <2>1 DEF Restart
<1>5. fmt' \in [Formats -> FormatRun]
  <2>1. [pc |-> "busy", run |-> "running"] \in FormatRun /\ NoFormat \in FormatRun
    BY DEF NoFormat, FormatRun
  <2>2. QED
    BY <2>1 DEF Restart
<1>6. QED
  BY <1>1, <1>2, <1>3, <1>4, <1>5 DEF Restart

\* The jobs are those of the file, with what was in flight interrupted.
LEMMA RestartJobs ==
  ASSUME TypeOK, KeptInv, Restart
  PROVE  /\ jobs' \in [Jobs -> Job] /\ jobsFile' = jobs'
         /\ \A j \in Jobs : jobs'[j].kept = jobsFile[j].kept
         /\ \A j \in Jobs : ~jobs'[j].kept => jobs'[j] = NoJob
         /\ \A j \in Jobs, d \in Drives :
              /\ jobs'[j].dj[d].password = jobsFile[j].dj[d].password
              /\ ~Interrupt(j, d) => jobs'[j].dj[d] = jobsFile[j].dj[d]
<1> DEFINE dj(j) == [d \in Drives |->
                      IF Interrupt(j, d) THEN [jobsFile[j].dj[d] EXCEPT !.state = "interrupted"]
                      ELSE jobsFile[j].dj[d]]
<1>1. jobs' = [j \in Jobs |-> [jobsFile[j] EXCEPT !.dj = dj(j)]] /\ jobsFile' = jobs'
  BY DEF Restart
<1>2. ASSUME NEW j \in Jobs
      PROVE  /\ dj(j) \in [Drives -> DriveJob]
             /\ \A d \in Drives : /\ dj(j)[d].password = jobsFile[j].dj[d].password
                                  /\ ~Interrupt(j, d) => dj(j)[d] = jobsFile[j].dj[d]
  <2>1. \A d \in Drives : jobsFile[j].dj[d] \in DriveJob
    BY DEF TypeOK, Job
  <2>2. ASSUME NEW e \in DriveJob
        PROVE  /\ [e EXCEPT !.state = "interrupted"] \in DriveJob
               /\ [e EXCEPT !.state = "interrupted"].password = e.password
    BY DEF DriveJob, DjState
  <2>3. QED
    BY <2>1, <2>2
<1>3. ASSUME NEW j \in Jobs, ~jobsFile[j].kept
      PROVE  dj(j) = jobsFile[j].dj /\ [jobsFile[j] EXCEPT !.dj = dj(j)] = NoJob
  <2>1. jobsFile[j] = NoJob
    BY <1>3 DEF KeptInv
  <2>2. \A d \in Drives : jobsFile[j].dj[d].state = "absent"
    BY <2>1 DEF NoJob, NoDriveJob
  <2>3. \A d \in Drives : ~Interrupt(j, d)
    BY <2>2 DEF Interrupt
  <2>4. dj(j) = NoJob.dj
    BY <2>1, <2>3 DEF NoJob
  <2>5. QED
    BY <2>1, <2>4 DEF NoJob
<1> HIDE DEF dj
<1>4. ASSUME NEW j \in Jobs
      PROVE  /\ [jobsFile[j] EXCEPT !.dj = dj(j)] \in Job
             /\ [jobsFile[j] EXCEPT !.dj = dj(j)].kept = jobsFile[j].kept
             /\ [jobsFile[j] EXCEPT !.dj = dj(j)].dj = dj(j)
  <2>1. jobsFile[j] \in Job
    BY DEF TypeOK
  <2>2. QED
    BY <1>2, <2>1 DEF Job
<1>5. QED
  BY <1>1, <1>2, <1>3, <1>4

\* A drive that reads busy after a restart is watched, is followed by a format
\* run, or belongs to a job between its last step and its end.
LEMMA RestartOwned ==
  ASSUME TypeOK, KeptInv, Restart, NEW d \in Drives
  PROVE  OwnedOK(d)'
<1>1. /\ inv'[d].activity \in {"idle", AfterOrphans[d].activity}
      /\ inv' = AfterInterrupts /\ AfterOrphans[d].activity \in {"idle", invFile[d].activity}
  <2>1. inv'[d].activity \in {"idle", AfterOrphans[d].activity} /\ inv' = AfterInterrupts
    BY RestartTypes DEF Restart
  <2>2. invFile[d] \in Drive
    BY DEF TypeOK
  <2>3. CASE ~Orphan(d)
    BY <2>1, <2>3 DEF AfterOrphans
  <2>4. CASE Orphan(d)
    <3>1. PICK f : AfterOrphans[d] = [invFile[d] EXCEPT !.activity = "idle", !.format = f]
      BY <2>2, <2>4 DEF AfterOrphans, Drive
    <3>2. AfterOrphans[d].activity = "idle"
      BY <2>2, <3>1 DEF Drive
    <3>3. QED
      BY <2>1, <3>2
  <2>5. QED
    BY <2>3, <2>4
<1>2. SUFFICES ASSUME inv'[d].activity \notin {"idle", "missing"}
               PROVE  \/ \E j \in Jobs : task'[<<j, d>>].pc \in IdlePcs \/ Left(<<j, d>>)'
                      \/ inv'[d].activity = "formatting" /\ FormatsOn(d)'
  BY DEF OwnedOK
<1>3. /\ AfterOrphans[d].activity = inv'[d].activity /\ invFile[d].activity = inv'[d].activity
      /\ invFile[d].activity \in {"formatting", "sanitizing", "testing"}
  BY <1>1, <1>2 DEF TypeOK, Drive, Activity
<1>4. ~Orphan(d)
  <2>1. ASSUME Orphan(d)
        PROVE  AfterOrphans[d].activity = "idle"
    BY <2>1 DEF AfterOrphans, TypeOK, Drive
  <2>2. QED
    BY <1>2, <1>3, <2>1
<1>5. Owned(d) \/ Formatting(d)
  BY <1>3, <1>4 DEF Orphan
<1>6. ~\E j \in Jobs : Interrupt(j, d)
  <2>1. ASSUME \E j \in Jobs : Interrupt(j, d)
        PROVE  AfterInterrupts[d].activity = "idle"
    <3>1. AfterOrphans[d].activity \in {"formatting", "sanitizing"}
      BY <1>3, <1>4 DEF Orphan
    <3>2. AfterOrphans[d] = invFile[d] /\ invFile[d] \in Drive
      BY <1>4 DEF AfterOrphans, TypeOK
    <3>3. AfterInterrupts[d] = [invFile[d] EXCEPT !.activity = "idle"]
      BY <2>1, <3>1, <3>2 DEF AfterInterrupts
    <3>4. QED
      BY <3>2, <3>3 DEF Drive
  <2>2. QED
    BY <1>1, <1>2, <2>1
<1>7. CASE Owned(d)
  <2>1. PICK j \in Jobs : jobsFile[j].dj[d].state = "running"
    BY <1>7 DEF Owned
  <2>2. <<j, d>> \in Runs /\ <<j, d>>[1] = j /\ <<j, d>>[2] = d
    BY RunIs
  <2>3. CASE Reattach(j, d)
    <3>1. task'[<<j, d>>] = [NoTask EXCEPT !.pc = "w_start"]
      BY <2>2, <2>3 DEF Restart
    <3>2. QED
      BY <3>1 DEF NoTask, IdlePcs
  <2>4. CASE ~Reattach(j, d)
    <3>1. task'[<<j, d>>].pc = "none"
      BY <2>2, <2>4 DEF Restart, NoTask
    <3>2. jobs'[j].dj[d].state = "running"
      BY <1>6, <2>1, RestartJobs
    <3>3. Left(<<j, d>>)'
      BY <2>2, <3>1, <3>2 DEF Left, Dj
    <3>4. QED
      BY <3>3
  <2>5. QED
    BY <2>3, <2>4
<1>8. CASE Formatting(d)
  <2>1. inv'[d].activity = "formatting"
    BY <1>3, <1>8 DEF Formatting
  <2>2. <<Nobody, d>> \in Formats /\ <<Nobody, d>>[1] = Nobody /\ <<Nobody, d>>[2] = d
    BY DEF Formats
  <2>3. fmt'[<<Nobody, d>>].pc = "busy"
    BY <1>8, <2>2 DEF Restart
  <2>4. FormatsOn(d)'
    BY <2>3 DEF FormatsOn
  <2>5. QED
    BY <2>1, <2>4
<1>9. QED
  BY <1>5, <1>7, <1>8

LEMMA RestartKeeps ==
  ASSUME IInv, Restart
  PROVE  IInv'
<1>1. TypeOK /\ KeptInv /\ \A u \in Runs : RunOK(u)
  BY DEF IInv
<1>2. /\ jobs' \in [Jobs -> Job] /\ jobsFile' = jobs'
      /\ \A j \in Jobs : jobs'[j].kept = jobsFile[j].kept
      /\ \A j \in Jobs : ~jobs'[j].kept => jobs'[j] = NoJob
      /\ \A j \in Jobs, d \in Drives :
           /\ jobs'[j].dj[d].password = jobsFile[j].dj[d].password
           /\ ~Interrupt(j, d) => jobs'[j].dj[d] = jobsFile[j].dj[d]
  BY <1>1, RestartJobs
<1>3. /\ inv' \in [Drives -> Drive] /\ invFile' \in [Drives -> Drive]
      /\ hw' \in [Drives -> Hw] /\ \A d \in Drives : hw'[d].lock = hw[d].lock
      /\ task' \in [Runs -> Task] /\ fmt' \in [Formats -> FormatRun]
  BY <1>1, RestartTypes
<1>4. /\ unsaved' = {} /\ UNCHANGED <<plan, next, present, hist>>
      /\ budget' \in [Trouble -> Nat]
  BY <1>1, BudgetType DEF Restart, Trouble
<1>5. ASSUME NEW u \in Runs
      PROVE  \/ task'[u] = NoTask
             \/ task'[u] = [NoTask EXCEPT !.pc = "w_start"] /\ Reattach(u[1], u[2])
  BY DEF Restart
<1>6. TypeOK'
  BY <1>1, <1>2, <1>3, <1>4 DEF TypeOK
<1>7. ASSUME NEW u \in Runs, Reattach(u[1], u[2])
      PROVE  jobsFile[u[1]].dj[u[2]].state = "running" /\ ~Interrupt(u[1], u[2]) /\ jobsFile[u[1]].kept
  <2>1. jobsFile[u[1]].dj[u[2]].state = "running"
    BY <1>7 DEF Reattach
  <2>2. ~Interrupt(u[1], u[2])
    BY <1>7, <2>1 DEF Interrupt
  <2>3. jobsFile[u[1]].kept
    <3>1. NoJob.dj[u[2]].state = "absent"
      BY RunParts DEF NoJob, NoDriveJob
    <3>2. QED
      BY <1>1, <2>1, <3>1, RunParts DEF KeptInv
  <2>4. QED
    BY <2>1, <2>2, <2>3
<1>8. KeptInv'
  <2>1. \A u \in Runs : task'[u].pc # "none" => jobs'[u[1]].kept
    <3>1. NoTask.pc = "none"
      BY DEF NoTask
    <3>2. QED
      BY <1>2, <1>5, <1>7, <3>1, RunParts
  <2>2. QED
    BY <1>1, <1>2, <1>4, <2>1 DEF KeptInv
<1>9. ASSUME NEW u \in Runs
      PROVE  RunOK(u)'
  <2>1. u[1] \in Jobs /\ u[2] \in Drives /\ RunOK(u)
    BY <1>1, RunParts
  <2>2. Dj(u)'.password = InFile(u) /\ InFile(u)' = InFile(u) /\ (Locks(u)' <=> Locks(u))
    BY <1>2, <1>3, <2>1 DEF Dj, InFile, Locks
  <2>3. task'[u].pc \in {"none", "w_start"}
    BY <1>5 DEF NoTask
  <2>4. PasswordOK(u)'
    BY <2>1, <2>2, <2>3 DEF RunOK, PasswordOK, OnRecord, Erasing
  <2>5. SavedOK(u)' /\ StepOK(u)'
    BY <2>2, <2>3 DEF SavedOK, StepOK
  <2>6. StateOK(u)'
    <3>1. CASE task'[u] = NoTask
      BY <3>1 DEF StateOK, NoTask, WorkPcs
    <3>2. CASE Reattach(u[1], u[2])
      BY <1>2, <1>7, <2>1, <3>2 DEF StateOK, Dj
    <3>3. QED
      BY <1>5, <3>1, <3>2
  <2>7. QED
    BY <2>4, <2>5, <2>6 DEF RunOK
<1>10. \A d \in Drives : OwnedOK(d)'
  BY <1>1, RestartOwned
<1>11. QED
  BY <1>6, <1>8, <1>9, <1>10 DEF IInv

-----------------------------------------------------------------------------
(* The theorems.                                                             *)

LEMMA InitInv == Init => IInv
<1> SUFFICES ASSUME Init PROVE IInv
  OBVIOUS
<1>1. MaxJobs \in Nat /\ Budgets \subseteq [Trouble -> Nat]
  BY WorkerAssumption DEF WorkerAssumption
<1>2. NewDrive \in Drive /\ NewDrive.activity = "idle"
  BY DEF NewDrive, Drive, Activity, Record
<1>3. NoDriveJob \in DriveJob
  BY DEF NoDriveJob, DriveJob, DjState
<1>4. NoJob \in Job
  <2>1. [d \in Drives |-> NoDriveJob] \in [Drives -> DriveJob]
    BY <1>3
  <2>2. QED
    BY <2>1 DEF NoJob, Job
<1>5. NoTask \in Task /\ NoTask.pc = "none" /\ NoFormat \in FormatRun
  BY DEF NoTask, Task, NoFormat, FormatRun
<1>6. NewHw \in Hw /\ NewHw.lock = Nobody /\ [sent |-> {}, asked |-> FALSE] \in History
  BY DEF NewHw, Hw, Op, History
<1>7. TypeOK
  <2>1. <<>> \in Seq(Step)
    OBVIOUS
  <2>2. next \in 1..(MaxJobs + 1)
    BY <1>1 DEF Init
  <2>3. QED
    BY <1>1, <1>2, <1>4, <1>5, <1>6, <2>1, <2>2 DEF Init, TypeOK
<1>8. KeptInv
  BY <1>5, RunParts DEF Init, KeptInv, NoJob
<1>9. ASSUME NEW u \in Runs
      PROVE  RunOK(u)
  <2>1. /\ task[u] = NoTask /\ Dj(u) = NoDriveJob /\ hw[u[2]] = NewHw
        /\ u[1] # Nobody
    BY RunParts DEF Init, Dj, NoJob
  <2>2. ~Locks(u)
    BY <1>6, <2>1 DEF Locks
  <2>3. ~Dj(u).password
    BY <2>1 DEF NoDriveJob
  <2>4. QED
    BY <1>5, <2>1, <2>2, <2>3 DEF RunOK, PasswordOK, SavedOK, StepOK, StateOK, Erasing, WorkPcs
<1>10. \A d \in Drives : OwnedOK(d)
  BY <1>2 DEF Init, OwnedOK
<1>11. QED
  BY <1>7, <1>8, <1>9, <1>10 DEF IInv

LEMMA NextInv ==
  ASSUME AllKept, IInv, [Next]_vars
  PROVE  IInv'
<1>1. CASE Request
  BY <1>1, SubmitKeeps, CancelKeeps, CancelSaveKeeps, ResumeKeeps DEF Request
<1>2. CASE \E t \in Runs : RunDrive(t) \/ Watch(t)
  BY <1>2, RunKeeps
<1>3. CASE \E f \in Formats : Format(f)
  BY <1>3, FormatIssueKeeps, FormatEndsKeeps, FormatFinishKeeps, FormatPersistKeeps DEF Format
<1>4. CASE UNCHANGED vars
  <2>1. WorldOK' /\ \A u \in Runs : Locks(u)' => Locks(u)
    BY <1>4 DEF vars, IInv, TypeOK, WorldOK, Locks
  <2>2. UNCHANGED <<inv, jobs, jobsFile, task, plan, next, fmt>>
    BY <1>4 DEF vars
  <2>3. QED
    BY <2>1, <2>2, OthersAct
<1>5. QED
  BY <1>1, <1>2, <1>3, <1>4, WorldKeeps, OtherPersistKeeps, RestartKeeps DEF Next

-----------------------------------------------------------------------------
(* What ended stays, and what was sent is not sent again unasked.            *)

\* A run this step does not concern.
Same(u) ==
  /\ task'[u] = task[u] /\ fmt'[u] = fmt[u] /\ hist'[u] = hist[u] /\ Dj(u)' = Dj(u)
  /\ InJobsFile(u)' = InJobsFile(u) \/ InJobsFile(u)' = Dj(u)

\* What a step may do to one run.
EndedStep(u) == InJobsFile(u).state \in Ended => InJobsFile(u)'.state \in {InJobsFile(u).state, "absent"}
SendStep(u) == Sends(u) /\ Dj(u).step \in hist[u].sent => hist[u].asked
StepIsOnce(u) == OnceOK(u)' /\ EndedStep(u) /\ SendStep(u)

LEMMA FileType ==
  ASSUME TypeOK, NEW t \in Runs
  PROVE  /\ InJobsFile(t) \in DriveJob /\ InJobsFile(t).step \in Nat /\ Dj(t).step \in Nat
         /\ hist[t] \in History /\ \A i \in hist[t].sent : i \in Nat
<1>1. InJobsFile(t) \in DriveJob /\ Dj(t) \in DriveJob
  BY RunParts DEF TypeOK, Job, InJobsFile, Dj
<1>2. hist[t] \in History
  BY DEF TypeOK
<1>3. QED
  BY <1>1, <1>2 DEF DriveJob, History

LEMMA SameIsOnce ==
  ASSUME TypeOK, NEW u \in Runs, OnceOK(u), Same(u)
  PROVE  StepIsOnce(u)
<1>1. EndedOK(u)' /\ EndedStep(u)
  BY DEF OnceOK, EndedOK, EndedStep, Same
<1>2. SentOK(u)'
  BY FileType DEF OnceOK, SentOK, Same
<1>3. HandleOK(u)' /\ SendStep(u)
  BY DEF OnceOK, HandleOK, SendStep, Sends, Same
<1>4. QED
  BY <1>1, <1>2, <1>3 DEF StepIsOnce, OnceOK

\* A step of run t leaves the other runs alone.
LEMMA OthersAreSame ==
  ASSUME TypeOK, KeptInv, OnceInv, NEW t \in Runs, jobs[t[1]].kept, JobsStep(t),
         \A u \in Runs \ {t} : task'[u] = task[u] /\ fmt'[u] = fmt[u] /\ hist'[u] = hist[u],
         StepIsOnce(t)
  PROVE  \A u \in Runs : StepIsOnce(u)
<1>1. ASSUME NEW u \in Runs \ {t}
      PROVE  Same(u)
  <2>1. Dj(u)' = Dj(u)
    BY JobsFrame
  <2>2. jobsFile'[u[1]] = jobsFile[u[1]] \/ jobsFile'[u[1]] = jobs[u[1]]
    BY JobsFrame, RunParts
  <2>3. QED
    BY <2>1, <2>2 DEF Same, InJobsFile, Dj
<1>2. QED
  BY <1>1, SameIsOnce DEF OnceInv

\* The run goes on: jobs and what was sent stay, or jobs.json is saved.
LEMMA MoveIsOnce ==
  ASSUME TypeOK, NEW t \in Runs, OnceOK(t), Dj(t)' = Dj(t), hist'[t] = hist[t], fmt'[t] = fmt[t],
         InJobsFile(t)' = InJobsFile(t) \/ InJobsFile(t)' = Dj(t),
         task'[t].pc \in LanePcs => task[t].pc \in LanePcs \/ Dj(t).state \notin Ended,
         task'[t].pc \in AtStepPcs => task[t].pc \in AtStepPcs \/ InJobsFile(t)' = Dj(t),
         task'[t].pc \in PrePcs => task[t].pc \in PrePcs,
         task'[t].pc \notin {"f_persist", "busy"},
         task[t].pc \in {"f_wait", "w_format"} => fmt[t].run # "running"
  PROVE  StepIsOnce(t)
<1>1. EndedOK(t)' /\ EndedStep(t)
  BY DEF OnceOK, EndedOK, EndedStep
<1>2. fmt[t].pc \notin {"issue", "busy"}
  BY DEF OnceOK, HandleOK
<1>3. SentOK(t)'
  BY <1>2, FileType DEF OnceOK, SentOK
<1>4. HandleOK(t)' /\ SendStep(t)
  BY <1>2 DEF OnceOK, HandleOK, SendStep, Sends
<1>5. QED
  BY <1>1, <1>3, <1>4 DEF StepIsOnce, OnceOK

\* The run's job changes in memory.
LEMMA WriteIsOnce ==
  ASSUME TypeOK, NEW t \in Runs, OnceOK(t), hist'[t] = hist[t], fmt'[t] = fmt[t],
         InJobsFile(t)' = InJobsFile(t), Dj(t)' \in DriveJob,
         (Dj(t)').state = Dj(t).state \/ Dj(t).state \notin Ended,
         \/ (Dj(t)').step = Dj(t).step /\ (task'[t].pc \in AtStepPcs => task[t].pc \in AtStepPcs)
            /\ (task'[t].pc \in PrePcs => task[t].pc \in PrePcs)
         \/ /\ (Dj(t)').step = Dj(t).step + 1 /\ task[t].pc \in AtStepPcs
            /\ task'[t].pc \notin AtStepPcs,
         task'[t].pc \notin LanePcs, task'[t].pc \notin {"f_persist", "busy"},
         task[t].pc \notin {"f_wait", "w_format"}
  PROVE  StepIsOnce(t)
<1>1. EndedOK(t)' /\ EndedStep(t)
  BY DEF OnceOK, EndedOK, EndedStep
<1>2. fmt[t].pc \notin {"issue", "busy"}
  BY DEF OnceOK, HandleOK
<1>3. InJobsFile(t).step \in Nat /\ Dj(t).step \in Nat /\ (\A i \in hist[t].sent : i \in Nat)
  BY FileType
<1>4. SentOK(t)'
  BY <1>2, <1>3 DEF OnceOK, SentOK
<1>5. HandleOK(t)' /\ SendStep(t)
  BY <1>2 DEF OnceOK, HandleOK, SendStep, Sends
<1>6. QED
  BY <1>1, <1>4, <1>5 DEF StepIsOnce, OnceOK

\* Where the task of a run goes on, with nothing sent and no job changed.
Moves(t) ==
  /\ \A u \in Runs \ {t} : task'[u] = task[u]
  /\ <<task[t].pc, task'[t].pc>> \in
       {<<"lane", "check">>, <<"check", "recheck">>, <<"begin", "issue">>, <<"begin", "pw_busy">>,
        <<"begin", "result">>, <<"begin", "testing">>, <<"begin", "e_write">>, <<"f_wait", "result">>,
        <<"pw_busy", "issue">>, <<"issue", "e_unit">>, <<"issue", "pw_clear">>, <<"issue", "idle">>,
        <<"e_unit", "pw_clear">>, <<"e_unit", "idle">>, <<"busy", "pw_clear">>, <<"busy", "idle">>,
        <<"idle", "result">>, <<"idle", "persist">>, <<"persist", "result">>, <<"testing", "persist">>,
        <<"e_write", "persist">>, <<"w_start", "w_wait">>, <<"w_format", "w_idle">>,
        <<"w_wait", "w_idle">>, <<"w_idle", "w_result">>, <<"w_persist", "none">>}

LEMMA MovesAreOnce ==
  ASSUME IInv, OnceInv, NEW t \in Runs, Moves(t), UNCHANGED <<jobs, jobsFile, fmt, hist>>,
         task[t].pc \in {"f_wait", "w_format"} => fmt[t].run # "running"
  PROVE  \A u \in Runs : StepIsOnce(u)
<1>1. task[t].pc # "none"
  BY DEF Moves
<1>2. TypeOK /\ KeptInv /\ jobs[t[1]].kept /\ OnceOK(t)
  BY <1>1, Facts DEF OnceInv
<1>3. task'[t].pc \in LanePcs => task[t].pc \in LanePcs
  BY DEF Moves, LanePcs
<1>4. task'[t].pc \in AtStepPcs => task[t].pc \in AtStepPcs
  BY DEF Moves, AtStepPcs, WorkPcs
<1>5. task'[t].pc \in PrePcs => task[t].pc \in PrePcs
  BY DEF Moves, PrePcs
<1>6. task'[t].pc \notin {"f_persist", "busy"}
  BY DEF Moves
<1>7. Dj(t)' = Dj(t) /\ InJobsFile(t)' = InJobsFile(t) /\ hist'[t] = hist[t] /\ fmt'[t] = fmt[t]
  BY DEF Dj, InJobsFile
<1>8. StepIsOnce(t)
  BY <1>2, <1>3, <1>4, <1>5, <1>6, <1>7, MoveIsOnce
<1>9. QED
  BY <1>2, <1>8, OthersAreSame DEF Moves, JobsStep

\* The task of a run after a step that names the next one.
LEMMA GoesTo ==
  ASSUME TypeOK, NEW t \in Runs, NEW pc,
         \/ Goto(t, pc)
         \/ \E ok : task' = [task EXCEPT ![t] = [@ EXCEPT !.pc = pc, !.ok = ok]]
  PROVE  task'[t].pc = pc /\ \A u \in Runs \ {t} : task'[u] = task[u]
<1>1. task \in [Runs -> Task] /\ task[t] \in Task
  BY DEF TypeOK
<1>2. CASE Goto(t, pc)
  <2>1. task' = [task EXCEPT ![t] = [task[t] EXCEPT !.pc = pc]]
    BY <1>1, <1>2 DEF Goto
  <2>2. [task[t] EXCEPT !.pc = pc].pc = pc
    BY <1>1 DEF Task
  <2>3. QED
    BY <1>1, <2>1, <2>2
<1>3. ASSUME NEW ok, task' = [task EXCEPT ![t] = [task[t] EXCEPT !.pc = pc, !.ok = ok]]
      PROVE  task'[t].pc = pc /\ \A u \in Runs \ {t} : task'[u] = task[u]
  <2>1. [task[t] EXCEPT !.pc = pc, !.ok = ok].pc = pc
    BY <1>1 DEF Task
  <2>2. QED
    BY <1>1, <1>3, <2>1
<1>4. QED
  BY <1>1, <1>2, <1>3

LEMMA EndsGo ==
  ASSUME TypeOK, NEW t \in Runs, NEW ok, NEW keep, Ends(t, ok, keep)
  PROVE  task'[t].pc \in {"pw_clear", "idle"} /\ \A u \in Runs \ {t} : task'[u] = task[u]
BY DEF Ends, TypeOK

\* The steps of a run that touch no job and send nothing.
LEMMA StepsMove ==
  ASSUME IInv, NEW t \in Runs,
         \/ TakeLane(t) \/ WaitFormat(t) \/ BeginCommand(t) \/ BusyErase(t) \/ Rejected(t)
         \/ PasswordUnsure(t) \/ ErasePrepareFails(t) \/ Answered(t) \/ SetIdle(t)
         \/ PersistStep(t) \/ BeginTest(t) \/ TestEnds(t) \/ BeginEnroll(t) \/ Enrolled(t)
         \/ WatchFormat(t) \/ WatchWait(t) \/ WatchIdle(t) \/ WatchPersist(t)
  PROVE  /\ Moves(t) /\ UNCHANGED <<jobs, jobsFile, fmt, hist>>
         /\ task[t].pc \in {"f_wait", "w_format"} => fmt[t].run # "running"
<1>1. TypeOK
  BY DEF IInv
<1>2. CASE TakeLane(t)
  BY <1>1, <1>2, GoesTo DEF TakeLane, At, Moves, store, fixed
<1>3. CASE WaitFormat(t)
  BY <1>1, <1>3, GoesTo DEF WaitFormat, At, Moves, store, fixed
<1>4. CASE BeginCommand(t)
  BY <1>1, <1>4, GoesTo DEF BeginCommand, At, Moves, fixed
<1>5. CASE BusyErase(t)
  BY <1>1, <1>5, GoesTo DEF BusyErase, At, Moves, fixed
<1>6. CASE Rejected(t)
  BY <1>1, <1>6, EndsGo DEF Rejected, At, Moves, store
<1>7. CASE PasswordUnsure(t)
  BY <1>1, <1>7, EndsGo DEF PasswordUnsure, At, Moves, store
<1>8. CASE ErasePrepareFails(t)
  BY <1>1, <1>8, EndsGo DEF ErasePrepareFails, At, Moves, store
<1>9. CASE Answered(t)
  BY <1>1, <1>9, EndsGo DEF Answered, At, Moves, store, fixed
<1>10. CASE SetIdle(t)
  <2>1. task[t].pc = "idle" /\ UNCHANGED <<jobs, jobsFile, fmt, hist>>
    BY <1>10 DEF SetIdle, At, fixed
  <2>2. Goto(t, "result") \/ Goto(t, "persist")
    BY <1>10 DEF SetIdle
  <2>3. QED
    BY <1>1, <2>1, <2>2, GoesTo DEF Moves
<1>11. CASE PersistStep(t)
  BY <1>1, <1>11, GoesTo DEF PersistStep, Persist, At, Moves, fixed
<1>12. CASE BeginTest(t)
  BY <1>1, <1>12, GoesTo DEF BeginTest, At, Moves, fixed
<1>13. CASE TestEnds(t)
  BY <1>1, <1>13, GoesTo DEF TestEnds, At, Moves
<1>14. CASE BeginEnroll(t)
  BY <1>1, <1>14, GoesTo DEF BeginEnroll, At, Moves, store
<1>15. CASE Enrolled(t)
  BY <1>1, <1>15, GoesTo DEF Enrolled, At, Moves, fixed
<1>16. CASE WatchFormat(t)
  BY <1>1, <1>16, GoesTo DEF WatchFormat, At, Moves, store, fixed
<1>17. CASE WatchWait(t)
  <2>1. /\ task[t].pc = "w_wait" /\ UNCHANGED <<jobs, jobsFile, fmt, hist>>
        /\ \E ok : task' = [task EXCEPT ![t] = [@ EXCEPT !.pc = "w_idle", !.ok = ok]]
    BY <1>17 DEF WatchWait, At, store, fixed
  <2>2. QED
    BY <1>1, <2>1, GoesTo DEF Moves
<1>18. CASE WatchIdle(t)
  BY <1>1, <1>18, GoesTo DEF WatchIdle, At, Moves, fixed
<1>19. CASE WatchPersist(t)
  BY <1>1, <1>19 DEF WatchPersist, Persist, At, Moves, fixed, NoTask, TypeOK
<1>20. QED
  BY <1>2, <1>3, <1>4, <1>5, <1>6, <1>7, <1>8, <1>9, <1>10, <1>11, <1>12, <1>13, <1>14, <1>15,
     <1>16, <1>17, <1>18, <1>19

\* The steps that save jobs.json.
LEMMA SavesAreOnce ==
  ASSUME AllKept, IInv, OnceInv, NEW t \in Runs,
         \/ Spawn(t) \/ SaveRun(t) \/ SavePassword(t) \/ SaveCleared(t) \/ SaveStep(t)
         \/ SaveEnd(t) \/ WatchSave(t)
  PROVE  \A u \in Runs : StepIsOnce(u)
<1>1. /\ TypeOK /\ Save /\ UNCHANGED <<fmt, hist>>
      /\ \A u \in Runs \ {t} : task'[u] = task[u]
      /\ <<task[t].pc, task'[t].pc>> \in
           {<<"spawn", "top">>, <<"save_run", "begin">>, <<"pw_save", "pw_busy">>,
            <<"pw_saved", "idle">>, <<"save_step", "top">>, <<"save_end", "none">>, <<"w_save", "w_persist">>}
  <2>1. TypeOK
    BY DEF IInv
  <2>2. CASE Spawn(t)
    BY <2>1, <2>2, GoesTo DEF Spawn, At, fixed
  <2>3. CASE SaveRun(t)
    BY <2>1, <2>3, GoesTo DEF SaveRun, At, fixed
  <2>4. CASE SavePassword(t)
    BY <2>1, <2>4, GoesTo DEF SavePassword, At, fixed
  <2>5. CASE SaveCleared(t)
    BY <2>1, <2>5, GoesTo DEF SaveCleared, At, fixed
  <2>6. CASE SaveStep(t)
    BY <2>1, <2>6, GoesTo DEF SaveStep, At, fixed
  <2>7. CASE SaveEnd(t)
    BY <2>1, <2>7 DEF SaveEnd, At, fixed, NoTask, TypeOK
  <2>8. CASE WatchSave(t)
    BY <2>1, <2>8, GoesTo DEF WatchSave, At, fixed
  <2>9. QED
    BY <2>1, <2>2, <2>3, <2>4, <2>5, <2>6, <2>7, <2>8
<1>2. KeptInv /\ jobs[t[1]].kept /\ OnceOK(t)
  BY <1>1, Facts DEF OnceInv
<1>3. jobs' = jobs /\ jobsFile' = jobs
  BY <1>1, SaveFrame
<1>4. Dj(t)' = Dj(t) /\ InJobsFile(t)' = Dj(t) /\ hist'[t] = hist[t] /\ fmt'[t] = fmt[t]
  BY <1>1, <1>3 DEF Dj, InJobsFile
<1>5. task'[t].pc \notin LanePcs /\ task'[t].pc \notin {"f_persist", "busy"}
  BY <1>1 DEF LanePcs
<1>6. task'[t].pc \in PrePcs => task[t].pc \in PrePcs
  BY <1>1 DEF PrePcs
<1>7. task[t].pc \notin {"f_wait", "w_format"}
  BY <1>1
<1>8. StepIsOnce(t)
  BY <1>1, <1>2, <1>4, <1>5, <1>6, <1>7, MoveIsOnce
<1>9. QED
  BY <1>1, <1>2, <1>3, <1>8, OthersAreSame DEF JobsStep

\* The steps that write the run's part of its job.
LEMMA WritesAreOnce ==
  ASSUME IInv, OnceInv, NEW t \in Runs, task[t].pc # "none", NEW e \in DriveJob, SetDj(t, e),
         UNCHANGED <<jobsFile, fmt, hist>>, \A u \in Runs \ {t} : task'[u] = task[u],
         e.state = Dj(t).state \/ Dj(t).state \notin Ended,
         \/ /\ e.step = Dj(t).step
            /\ <<task[t].pc, task'[t].pc>> \in
                 {<<"top", "save_end">>, <<"check", "save_end">>, <<"recheck", "save_end">>,
                  <<"recheck", "save_run">>, <<"result", "save_end">>, <<"w_result", "w_save">>,
                  <<"begin", "pw_save">>, <<"pw_clear", "pw_saved">>}
         \/ /\ e.step = Dj(t).step + 1
            /\ <<task[t].pc, task'[t].pc>> \in {<<"result", "save_step">>, <<"w_result", "w_save">>}
  PROVE  \A u \in Runs : StepIsOnce(u)
<1>1. TypeOK /\ KeptInv /\ jobs[t[1]].kept /\ OnceOK(t)
  BY Facts DEF OnceInv
<1>2. Dj(t)' = e /\ InJobsFile(t)' = InJobsFile(t) /\ hist'[t] = hist[t] /\ fmt'[t] = fmt[t]
  BY <1>1, SetDjFrame DEF InJobsFile
<1>3. task'[t].pc \notin LanePcs /\ task'[t].pc \notin {"f_persist", "busy"}
  BY DEF LanePcs
<1>4. task[t].pc \notin {"f_wait", "w_format"}
  OBVIOUS
<1>5. CASE e.step = Dj(t).step
  <2>1. /\ task'[t].pc \in AtStepPcs => task[t].pc \in AtStepPcs
        /\ task'[t].pc \in PrePcs => task[t].pc \in PrePcs
    <3>1. e.step # Dj(t).step + 1
      BY <1>1, <1>5, FileType
    <3>2. QED
      BY <3>1 DEF AtStepPcs, WorkPcs, PrePcs
  <2>2. StepIsOnce(t)
    BY <1>1, <1>2, <1>3, <1>4, <1>5, <2>1, WriteIsOnce
  <2>3. QED
    BY <1>1, <2>2, OthersAreSame DEF JobsStep
<1>6. CASE e.step = Dj(t).step + 1
  <2>1. task[t].pc \in AtStepPcs /\ task'[t].pc \notin AtStepPcs
    <3>1. e.step # Dj(t).step
      BY <1>1, <1>6, FileType
    <3>2. QED
      BY <3>1 DEF AtStepPcs, WorkPcs
  <2>2. StepIsOnce(t)
    BY <1>1, <1>2, <1>3, <1>4, <1>6, <2>1, WriteIsOnce
  <2>3. QED
    BY <1>1, <2>2, OthersAreSame DEF JobsStep
<1>7. QED
  BY <1>5, <1>6

\* The parts of a run's job that a step writes.
LEMMA DjParts ==
  ASSUME TypeOK, NEW t \in Runs
  PROVE  /\ \A s \in DjState : LET e == [Dj(t) EXCEPT !.state = s] IN
              e \in DriveJob /\ e.state = s /\ e.step = Dj(t).step
         /\ \A p \in BOOLEAN : LET e == [Dj(t) EXCEPT !.password = p] IN
              e \in DriveJob /\ e.state = Dj(t).state /\ e.step = Dj(t).step
         /\ LET e == [Dj(t) EXCEPT !.step = @ + 1] IN
              e \in DriveJob /\ e.state = Dj(t).state /\ e.step = Dj(t).step + 1
         /\ \A s \in DjState : LET e == [Dj(t) EXCEPT !.step = @ + 1, !.state = s] IN
              e \in DriveJob /\ e.step = Dj(t).step + 1
<1>1. Dj(t) \in DriveJob
  BY DjType
<1>2. ASSUME NEW e \in DriveJob, NEW s \in DjState
      PROVE  LET f == [e EXCEPT !.state = s] IN f \in DriveJob /\ f.state = s /\ f.step = e.step
  BY DEF DriveJob
<1>3. ASSUME NEW e \in DriveJob, NEW p \in BOOLEAN
      PROVE  LET f == [e EXCEPT !.password = p] IN f \in DriveJob /\ f.state = e.state /\ f.step = e.step
  BY DEF DriveJob
<1>4. ASSUME NEW e \in DriveJob
      PROVE  LET f == [e EXCEPT !.step = e.step + 1] IN
               f \in DriveJob /\ f.state = e.state /\ f.step = e.step + 1
  BY DEF DriveJob
<1>5. ASSUME NEW e \in DriveJob, NEW s \in DjState
      PROVE  LET f == [e EXCEPT !.step = e.step + 1, !.state = s] IN f \in DriveJob /\ f.step = e.step + 1
  <2>1. [e EXCEPT !.step = e.step + 1, !.state = s] = [[e EXCEPT !.step = e.step + 1] EXCEPT !.state = s]
    BY DEF DriveJob
  <2>2. QED
    BY <1>2, <1>4, <2>1
<1>6. QED
  BY <1>1, <1>2, <1>3, <1>4, <1>5

LEMMA FailIsOnce ==
  ASSUME IInv, OnceInv, NEW t \in Runs, task[t].pc \in {"check", "recheck", "result"}, Fail(t),
         UNCHANGED <<fmt, hist>>
  PROVE  \A u \in Runs : StepIsOnce(u)
<1>1. TypeOK /\ StateOK(t) /\ EndedOK(t)
  BY DEF IInv, RunOK, OnceInv, OnceOK
<1>2. Dj(t).state \notin Ended
  BY <1>1 DEF EndedOK, StateOK, WorkPcs, LanePcs, Ended
<1>3. PICK e \in DriveJob : SetDj(t, e) /\ e.step = Dj(t).step
  BY <1>1, DjParts DEF Fail, SetState, DjState
<1>4. task'[t].pc = "save_end" /\ \A u \in Runs \ {t} : task'[u] = task[u]
  BY <1>1, GoesTo DEF Fail
<1>5. QED
  BY <1>2, <1>3, <1>4, WritesAreOnce DEF Fail

LEMMA TopIsOnce ==
  ASSUME IInv, OnceInv, NEW t \in Runs, Top(t)
  PROVE  \A u \in Runs : StepIsOnce(u)
<1>1. /\ TypeOK /\ KeptInv /\ task[t].pc = "top" /\ jobs[t[1]].kept /\ OnceOK(t)
      /\ UNCHANGED <<jobsFile, fmt, hist>>
  BY Facts DEF Top, At, fixed, OnceInv
<1>2. CASE Dj(t).state \in {"queued", "running"} /\ (SetState(t, "done") \/ SetState(t, "cancelled"))
           /\ Goto(t, "save_end")
  <2>1. PICK e \in DriveJob : SetDj(t, e) /\ e.step = Dj(t).step
    BY <1>1, <1>2, DjParts DEF SetState, DjState
  <2>2. task'[t].pc = "save_end" /\ \A u \in Runs \ {t} : task'[u] = task[u]
    BY <1>1, <1>2, GoesTo
  <2>3. Dj(t).state \notin Ended
    BY <1>2 DEF Ended
  <2>4. QED
    BY <1>1, <2>1, <2>2, <2>3, WritesAreOnce
<1>3. CASE UNCHANGED jobs /\ (Goto(t, "none") \/ (Dj(t).state \in {"queued", "running"} /\ Goto(t, "lane")))
  <2>1. /\ \A u \in Runs \ {t} : task'[u] = task[u]
        /\ task'[t].pc \in {"none", "lane"}
        /\ task'[t].pc = "lane" => Dj(t).state \in {"queued", "running"}
    <3>1. CASE Goto(t, "none")
      <4>1. task'[t].pc = "none" /\ \A u \in Runs \ {t} : task'[u] = task[u]
        BY <1>1, <3>1, GoesTo
      <4>2. QED
        BY <4>1
    <3>2. CASE Dj(t).state \in {"queued", "running"} /\ Goto(t, "lane")
      BY <1>1, <3>2, GoesTo
    <3>3. QED
      BY <1>3, <3>1, <3>2
  <2>2. Dj(t)' = Dj(t) /\ InJobsFile(t)' = InJobsFile(t) /\ hist'[t] = hist[t] /\ fmt'[t] = fmt[t]
    BY <1>1, <1>3 DEF Dj, InJobsFile
  <2>3. /\ task'[t].pc \in LanePcs => Dj(t).state \notin Ended
        /\ task'[t].pc \notin AtStepPcs /\ task[t].pc \in PrePcs
    BY <1>1, <2>1 DEF LanePcs, Ended, AtStepPcs, WorkPcs, PrePcs
  <2>4. StepIsOnce(t)
    BY <1>1, <2>1, <2>2, <2>3, MoveIsOnce
  <2>5. QED
    BY <1>1, <1>3, <2>1, <2>4, OthersAreSame DEF JobsStep
<1>4. QED
  BY <1>2, <1>3 DEF Top

LEMMA CheckIsOnce ==
  ASSUME IInv, OnceInv, NEW t \in Runs, Check(t)
  PROVE  \A u \in Runs : StepIsOnce(u)
<1>1. TypeOK /\ task[t].pc = "check" /\ UNCHANGED <<fmt, hist>>
  BY DEF IInv, Check, At, fixed
<1>2. CASE Fail(t)
  BY <1>1, <1>2, FailIsOnce
<1>3. CASE Goto(t, "recheck") /\ UNCHANGED store
  <2>1. Moves(t) /\ UNCHANGED <<jobs, jobsFile>>
    BY <1>1, <1>3, GoesTo DEF Moves, store
  <2>2. QED
    BY <1>1, <2>1, MovesAreOnce
<1>4. QED
  BY <1>2, <1>3 DEF Check

\* The requester may, may not, or nobody says.
LEMMA RecheckIsOnce ==
  ASSUME IInv, OnceInv, NEW t \in Runs, Allowed(t) \/ Denied(t) \/ Unavailable(t)
  PROVE  \A u \in Runs : StepIsOnce(u)
<1>1. /\ TypeOK /\ task[t].pc = "recheck" /\ UNCHANGED <<fmt, hist>>
      /\ Dj(t).state \notin Ended
  <2>1. TypeOK /\ task[t].pc = "recheck" /\ UNCHANGED <<fmt, hist>>
    BY DEF IInv, Allowed, Denied, Unavailable, At, fixed
  <2>2. EndedOK(t)
    BY DEF OnceInv, OnceOK
  <2>3. QED
    BY <2>1, <2>2 DEF EndedOK, LanePcs
<1>2. CASE Denied(t)
  BY <1>1, <1>2, FailIsOnce DEF Denied
<1>3. CASE Allowed(t) \/ Unavailable(t)
  <2>1. PICK e \in DriveJob : SetDj(t, e) /\ e.step = Dj(t).step
    BY <1>1, <1>3, DjParts DEF Allowed, Unavailable, SetState, DjState
  <2>2. task'[t].pc \in {"save_run", "save_end"} /\ \A u \in Runs \ {t} : task'[u] = task[u]
    <3>1. CASE Allowed(t)
      BY <1>1, <3>1, GoesTo DEF Allowed
    <3>2. CASE Unavailable(t)
      BY <1>1, <3>2, GoesTo DEF Unavailable
    <3>3. QED
      BY <1>3, <3>1, <3>2
  <2>3. UNCHANGED jobsFile
    BY <1>3 DEF Allowed, Unavailable
  <2>4. QED
    BY <1>1, <2>1, <2>2, <2>3, WritesAreOnce
<1>4. QED
  BY <1>2, <1>3

LEMMA ResultIsOnce ==
  ASSUME IInv, OnceInv, NEW t \in Runs, Result(t)
  PROVE  \A u \in Runs : StepIsOnce(u)
<1>1. /\ TypeOK /\ task[t].pc = "result" /\ UNCHANGED <<fmt, hist>>
  BY DEF IInv, Result, At, fixed
<1>2. CASE ~task[t].ok
  BY <1>1, <1>2, FailIsOnce DEF Result
<1>3. CASE task[t].ok
  <2>1. PICK e \in DriveJob : SetDj(t, e) /\ e.step = Dj(t).step + 1 /\ e.state = Dj(t).state
    BY <1>1, <1>3, DjParts DEF Result
  <2>2. task'[t].pc = "save_step" /\ (\A u \in Runs \ {t} : task'[u] = task[u]) /\ UNCHANGED jobsFile
    BY <1>1, <1>3, GoesTo DEF Result
  <2>3. QED
    BY <1>1, <2>1, <2>2, WritesAreOnce
<1>4. QED
  BY <1>2, <1>3

LEMMA WatchResultIsOnce ==
  ASSUME IInv, OnceInv, NEW t \in Runs, WatchResult(t)
  PROVE  \A u \in Runs : StepIsOnce(u)
<1>1. /\ TypeOK /\ task[t].pc = "w_result" /\ UNCHANGED <<jobsFile, fmt, hist>>
      /\ StateOK(t)
  BY DEF IInv, RunOK, WatchResult, At, fixed
<1>2. task'[t].pc = "w_save" /\ \A u \in Runs \ {t} : task'[u] = task[u]
  BY <1>1, GoesTo DEF WatchResult
<1>3. Dj(t).state \notin Ended
  BY <1>1 DEF StateOK, WorkPcs, Ended
<1>4. CASE task[t].ok
  <2>1. PICK e \in DriveJob : SetDj(t, e) /\ e.step = Dj(t).step + 1
    BY <1>1, <1>4, DjParts DEF WatchResult, DjState
  <2>2. QED
    BY <1>1, <1>2, <1>3, <2>1, WritesAreOnce
<1>5. CASE ~task[t].ok
  <2>1. PICK e \in DriveJob : SetDj(t, e) /\ e.step = Dj(t).step
    BY <1>1, <1>5, DjParts DEF WatchResult, SetState, DjState
  <2>2. QED
    BY <1>1, <1>2, <1>3, <2>1, WritesAreOnce
<1>6. QED
  BY <1>4, <1>5

LEMMA BeginEraseIsOnce ==
  ASSUME IInv, OnceInv, NEW t \in Runs, BeginErase(t)
  PROVE  \A u \in Runs : StepIsOnce(u)
<1>1. /\ TypeOK /\ task[t].pc = "begin" /\ UNCHANGED <<jobsFile, fmt, hist>>
  BY DEF IInv, BeginErase, At, fixed
<1>2. CASE SetDj(t, [Dj(t) EXCEPT !.password = TRUE]) /\ Goto(t, "pw_save")
  <2>1. PICK e \in DriveJob : SetDj(t, e) /\ e.step = Dj(t).step /\ e.state = Dj(t).state
    BY <1>1, <1>2, DjParts
  <2>2. task'[t].pc = "pw_save" /\ \A u \in Runs \ {t} : task'[u] = task[u]
    BY <1>1, <1>2, GoesTo
  <2>3. QED
    BY <1>1, <2>1, <2>2, WritesAreOnce
<1>3. CASE UNCHANGED jobs /\ \/ Goto(t, "pw_busy")
                             \/ task' = [task EXCEPT ![t] = [@ EXCEPT !.pc = "result", !.ok = FALSE]]
  <2>1. Moves(t)
    <3>1. CASE Goto(t, "pw_busy")
      BY <1>1, <3>1, GoesTo DEF Moves
    <3>2. CASE task' = [task EXCEPT ![t] = [@ EXCEPT !.pc = "result", !.ok = FALSE]]
      BY <1>1, <3>2, GoesTo DEF Moves
    <3>3. QED
      BY <1>3, <3>1, <3>2
  <2>2. QED
    BY <1>1, <1>3, <2>1, MovesAreOnce
<1>4. QED
  BY <1>2, <1>3 DEF BeginErase

LEMMA ClearPasswordIsOnce ==
  ASSUME IInv, OnceInv, NEW t \in Runs, ClearPassword(t)
  PROVE  \A u \in Runs : StepIsOnce(u)
<1>1. /\ TypeOK /\ task[t].pc = "pw_clear" /\ UNCHANGED <<jobsFile, fmt, hist>>
  BY DEF IInv, ClearPassword, At, fixed
<1>2. task'[t].pc = "pw_saved" /\ \A u \in Runs \ {t} : task'[u] = task[u]
  BY <1>1, GoesTo DEF ClearPassword
<1>3. PICK e \in DriveJob : SetDj(t, e) /\ e.step = Dj(t).step /\ e.state = Dj(t).state
  <2>1. task[t] \in Task /\ Dj(t) \in DriveJob
    BY <1>1, DjType DEF TypeOK
  <2>2. (Dj(t).password /\ ~task[t].ok /\ task[t].keep) \in BOOLEAN
    BY <2>1, Zenon DEF Task, DriveJob
  <2>3. SetDj(t, [Dj(t) EXCEPT !.password = Dj(t).password /\ ~task[t].ok /\ task[t].keep])
    BY DEF ClearPassword
  <2>4. QED
    BY <1>1, <2>2, <2>3, DjParts
<1>4. QED
  BY <1>1, <1>2, <1>3, WritesAreOnce

\* A run waits for a format run; a restart made it watch one.
LEMMA HandlesAreOnce ==
  ASSUME IInv, OnceInv, NEW t \in Runs, BeginFormat(t) \/ PersistFormat(t) \/ WatchStart(t)
  PROVE  \A u \in Runs : StepIsOnce(u)
<1>1. /\ TypeOK /\ task[t].pc \in {"begin", "f_persist", "w_start"} /\ UNCHANGED <<jobs, jobsFile, hist>>
      /\ t \in Formats
  BY RunParts DEF IInv, BeginFormat, PersistFormat, WatchStart, Persist, At, fixed
<1>2. KeptInv /\ jobs[t[1]].kept /\ OnceOK(t) /\ fmt[t] \in FormatRun
  BY <1>1, Facts DEF OnceInv
<1>3. fmt[t].pc \notin {"issue", "busy"}
  BY <1>1, <1>2 DEF OnceOK, HandleOK
<1>4. /\ \A u \in Runs \ {t} : task'[u] = task[u] /\ fmt'[u] = fmt[u]
      /\ \/ /\ task[t].pc = "begin" /\ task'[t].pc = "f_persist"
            /\ fmt'[t].pc = fmt[t].pc /\ fmt'[t].run = "running"
         \/ /\ task[t].pc = "f_persist" /\ task'[t].pc = "f_wait"
            /\ fmt'[t].pc = "issue" /\ fmt'[t].run = fmt[t].run
         \/ /\ task[t].pc = "w_start" /\ task'[t].pc = "w_format"
            /\ fmt'[t].pc = "busy" /\ fmt'[t].run = "running"
         \/ task[t].pc = "w_start" /\ task'[t].pc = "w_wait" /\ fmt'[t] = fmt[t]
  <2>1. fmt \in [Formats -> FormatRun] /\ Runs \subseteq Formats
    BY <1>1 DEF TypeOK, Runs, Formats
  <2>2. CASE BeginFormat(t)
    <3>1. fmt' = [fmt EXCEPT ![t] = [fmt[t] EXCEPT !.run = "running"]]
      BY <1>1, <2>1, <2>2 DEF BeginFormat
    <3>2. [fmt[t] EXCEPT !.run = "running"].pc = fmt[t].pc /\ [fmt[t] EXCEPT !.run = "running"].run = "running"
      BY <1>2 DEF FormatRun
    <3>3. fmt'[t].pc = fmt[t].pc /\ fmt'[t].run = "running" /\ \A u \in Runs \ {t} : fmt'[u] = fmt[u]
      BY <1>1, <2>1, <3>1, <3>2
    <3>4. task'[t].pc = "f_persist" /\ task[t].pc = "begin" /\ \A u \in Runs \ {t} : task'[u] = task[u]
      BY <1>1, <2>2, GoesTo DEF BeginFormat, At
    <3>5. QED
      BY <3>3, <3>4
  <2>3. CASE PersistFormat(t)
    <3>1. fmt' = [fmt EXCEPT ![t] = [fmt[t] EXCEPT !.pc = "issue"]]
      BY <1>1, <2>1, <2>3 DEF PersistFormat
    <3>2. [fmt[t] EXCEPT !.pc = "issue"].pc = "issue" /\ [fmt[t] EXCEPT !.pc = "issue"].run = fmt[t].run
      BY <1>2 DEF FormatRun
    <3>3. fmt'[t].pc = "issue" /\ fmt'[t].run = fmt[t].run /\ \A u \in Runs \ {t} : fmt'[u] = fmt[u]
      BY <1>1, <2>1, <3>1, <3>2
    <3>4. task'[t].pc = "f_wait" /\ task[t].pc = "f_persist" /\ \A u \in Runs \ {t} : task'[u] = task[u]
      BY <1>1, <2>3, GoesTo DEF PersistFormat, At
    <3>5. QED
      BY <3>3, <3>4
  <2>4. CASE WatchStart(t)
    <3>1. task[t].pc = "w_start"
      BY <2>4 DEF WatchStart, At
    <3>2. CASE Goto(t, "w_format") /\ fmt' = [fmt EXCEPT ![t] = [pc |-> "busy", run |-> "running"]]
      <4>1. task'[t].pc = "w_format" /\ \A u \in Runs \ {t} : task'[u] = task[u]
        BY <1>1, <3>2, GoesTo
      <4>2. fmt'[t] = [pc |-> "busy", run |-> "running"] /\ \A u \in Runs \ {t} : fmt'[u] = fmt[u]
        BY <1>1, <2>1, <3>2
      <4>3. QED
        BY <3>1, <4>1, <4>2
    <3>3. CASE Goto(t, "w_wait") /\ UNCHANGED fmt
      <4>1. task'[t].pc = "w_wait" /\ \A u \in Runs \ {t} : task'[u] = task[u]
        BY <1>1, <3>3, GoesTo
      <4>2. QED
        BY <3>1, <3>3, <4>1
    <3>4. QED
      BY <2>4, <3>2, <3>3 DEF WatchStart
  <2>5. QED
    BY <2>2, <2>3, <2>4
<1>5. Dj(t)' = Dj(t) /\ InJobsFile(t)' = InJobsFile(t) /\ hist'[t] = hist[t]
  BY <1>1 DEF Dj, InJobsFile
<1>6. EndedOK(t)' /\ EndedStep(t)
  <2>1. task'[t].pc \notin LanePcs
    BY <1>4 DEF LanePcs
  <2>2. QED
    BY <1>2, <1>5, <2>1 DEF OnceOK, EndedOK, EndedStep
<1>7. SentOK(t)'
  <2>1. /\ task'[t].pc \in AtStepPcs => task[t].pc \in AtStepPcs
        /\ task'[t].pc \in PrePcs \/ fmt'[t].pc = "issue" => task[t].pc \in PrePcs
    BY <1>3, <1>4 DEF AtStepPcs, WorkPcs, PrePcs
  <2>2. QED
    BY <1>1, <1>2, <1>5, <2>1, FileType DEF OnceOK, SentOK
<1>8. HandleOK(t)' /\ SendStep(t)
  BY <1>2, <1>3, <1>4 DEF OnceOK, HandleOK, SendStep, Sends
<1>9. StepIsOnce(t)
  BY <1>6, <1>7, <1>8 DEF StepIsOnce, OnceOK
<1>10. QED
  BY <1>1, <1>2, <1>4, <1>9, OthersAreSame DEF JobsStep

\* The command goes out: for the step on disk, asked for, and not sent before.
LEMMA SendIsOnce ==
  ASSUME TypeOK, NEW t \in Runs, OnceOK(t), UNCHANGED <<jobs, jobsFile>>, Sent(t),
         \/ task[t].pc \in {"issue", "e_unit"} /\ task'[t].pc = "busy" /\ fmt'[t] = fmt[t]
         \/ /\ fmt[t].pc = "issue" /\ task'[t] = task[t]
            /\ fmt'[t].pc = "busy" /\ fmt'[t].run = fmt[t].run
  PROVE  StepIsOnce(t)
<1>1. Dj(t)' = Dj(t) /\ InJobsFile(t)' = InJobsFile(t)
  BY DEF Dj, InJobsFile
<1>2. hist'[t].sent = hist[t].sent \cup {Dj(t).step}
  BY FileType DEF Sent, TypeOK
<1>3. task[t].pc \in {"issue", "e_unit", "f_wait"} /\ fmt'[t].pc # "issue" /\ task'[t].pc \in {"busy", "f_wait"}
  BY DEF OnceOK, HandleOK
<1>4. EndedOK(t)' /\ EndedStep(t)
  BY <1>1, <1>3 DEF OnceOK, EndedOK, EndedStep, LanePcs
<1>5. SentOK(t)'
  <2>1. task[t].pc \in AtStepPcs /\ task'[t].pc \notin PrePcs
    BY <1>3 DEF AtStepPcs, WorkPcs, PrePcs
  <2>2. InJobsFile(t).step = Dj(t).step
    BY <2>1 DEF OnceOK, SentOK
  <2>3. QED
    BY <1>1, <1>2, <1>3, <2>1, <2>2, FileType DEF OnceOK, SentOK
<1>6. HandleOK(t)'
  BY <1>3 DEF OnceOK, HandleOK
<1>7. SendStep(t)
  <2>1. task[t].pc \in PrePcs \/ fmt[t].pc = "issue"
    BY DEF PrePcs
  <2>2. QED
    BY <2>1 DEF OnceOK, SentOK, SendStep
<1>8. QED
  BY <1>4, <1>5, <1>6, <1>7 DEF StepIsOnce, OnceOK

LEMMA CommandsAreOnce ==
  ASSUME IInv, OnceInv, NEW t \in Runs, Issue(t) \/ EraseUnit(t)
  PROVE  \A u \in Runs : StepIsOnce(u)
<1>1. TypeOK /\ task[t].pc \in {"issue", "e_unit"} /\ UNCHANGED <<jobs, jobsFile, fmt>>
  BY DEF IInv, Issue, EraseUnit, At, store
<1>2. KeptInv /\ jobs[t[1]].kept /\ OnceOK(t)
  BY <1>1, Facts DEF OnceInv
<1>3. CASE Goto(t, "busy") /\ Sent(t)
  <2>1. task'[t].pc = "busy" /\ \A u \in Runs \ {t} : task'[u] = task[u]
    BY <1>1, <1>3, GoesTo
  <2>2. StepIsOnce(t)
    BY <1>1, <1>2, <1>3, <2>1, SendIsOnce
  <2>3. \A u \in Runs \ {t} : hist'[u] = hist[u]
    BY <1>1, <1>3 DEF Sent, TypeOK
  <2>4. QED
    BY <1>1, <1>2, <2>1, <2>2, <2>3, OthersAreSame DEF JobsStep
<1>4. CASE task[t].pc = "issue" /\ Goto(t, "e_unit") /\ UNCHANGED hist
  <2>1. Moves(t)
    BY <1>1, <1>4, GoesTo DEF Moves
  <2>2. QED
    BY <1>1, <1>4, <2>1, MovesAreOnce
<1>5. QED
  BY <1>3, <1>4 DEF Issue, EraseUnit, At

\* A step that concerns no run.
LEMMA NothingIsOnce ==
  ASSUME AllKept, TypeOK, OnceInv, UNCHANGED <<task, hist>>, \A u \in Runs : fmt'[u] = fmt[u],
         UNCHANGED <<jobs, jobsFile>> \/ Save
  PROVE  \A u \in Runs : StepIsOnce(u)
<1>1. jobs' = jobs /\ (jobsFile' = jobsFile \/ jobsFile' = jobs)
  BY SaveFrame
<1>2. \A u \in Runs : Same(u)
  BY <1>1 DEF Same, Dj, InJobsFile
<1>3. QED
  BY <1>2, SameIsOnce DEF OnceInv

LEMMA FormatIsOnce ==
  ASSUME AllKept, IInv, OnceInv, NEW f \in Formats, Format(f)
  PROVE  \A u \in Runs : StepIsOnce(u)
<1>1. TypeOK /\ UNCHANGED <<jobs, jobsFile, task>> /\ Runs \subseteq Formats
  BY DEF IInv, Format, FormatIssue, FormatEnds, FormatFinish, FormatPersist, Persist, store, Runs, Formats
<1>2. /\ \A u \in Runs \ {f} : fmt'[u] = fmt[u] /\ hist'[u] = hist[u]
      /\ \/ /\ fmt[f].pc = "issue" /\ fmt'[f].pc = "busy" /\ fmt'[f].run = fmt[f].run
            /\ hist' = [hist EXCEPT ![f] = [sent |-> @.sent \cup {Dj(f).step}, asked |-> FALSE]]
         \/ fmt[f].pc \in {"issue", "busy"} /\ fmt'[f].pc = "finish" /\ hist' = hist
         \/ fmt'[f].pc \in {"persist", "none"} /\ fmt'[f].run = fmt[f].run /\ hist' = hist
  <2>1. fmt \in [Formats -> FormatRun] /\ fmt[f] \in FormatRun /\ hist \in [Runs -> History]
    BY <1>1 DEF TypeOK
  <2>2. \A p \in {"busy", "persist", "none"} :
          [fmt[f] EXCEPT !.pc = p].pc = p /\ [fmt[f] EXCEPT !.pc = p].run = fmt[f].run
    BY <2>1 DEF FormatRun
  <2>3. ASSUME NEW r, fmt' = [fmt EXCEPT ![f] = r]
        PROVE  fmt'[f] = r /\ \A u \in Runs \ {f} : fmt'[u] = fmt[u]
    BY <1>1, <2>1, <2>3
  <2>4. CASE fmt[f].pc = "issue" /\ fmt' = [fmt EXCEPT ![f].pc = "busy"]
             /\ hist' = [hist EXCEPT ![f] = [sent |-> @.sent \cup {Dj(f).step}, asked |-> FALSE]]
    <3>1. fmt' = [fmt EXCEPT ![f] = [fmt[f] EXCEPT !.pc = "busy"]]
      BY <2>1, <2>4
    <3>2. \A u \in Runs \ {f} : hist'[u] = hist[u]
      BY <2>1, <2>4
    <3>3. QED
      BY <2>2, <2>3, <2>4, <3>1, <3>2
  <2>5. CASE fmt[f].pc \in {"issue", "busy"} /\ hist' = hist
             /\ \E r : fmt' = [fmt EXCEPT ![f] = [pc |-> "finish", run |-> r]]
    <3>1. PICK r : fmt' = [fmt EXCEPT ![f] = [pc |-> "finish", run |-> r]]
      BY <2>5
    <3>2. fmt'[f] = [pc |-> "finish", run |-> r] /\ \A u \in Runs \ {f} : fmt'[u] = fmt[u]
      BY <2>3, <3>1
    <3>3. fmt'[f].pc = "finish"
      BY <3>2
    <3>4. QED
      BY <2>5, <3>2, <3>3
  <2>6. CASE hist' = hist /\ \E p \in {"persist", "none"} : fmt' = [fmt EXCEPT ![f].pc = p]
    <3>1. PICK p \in {"persist", "none"} : fmt' = [fmt EXCEPT ![f] = [fmt[f] EXCEPT !.pc = p]]
      BY <2>1, <2>6
    <3>2. fmt'[f].pc = p /\ fmt'[f].run = fmt[f].run /\ \A u \in Runs \ {f} : fmt'[u] = fmt[u]
      BY <2>2, <2>3, <3>1
    <3>3. QED
      BY <2>6, <3>2
  <2>7. CASE FormatIssue(f)
    BY <2>4, <2>5, <2>7 DEF FormatIssue
  <2>8. CASE FormatEnds(f)
    BY <2>5, <2>8 DEF FormatEnds, fixed
  <2>9. CASE FormatFinish(f) \/ FormatPersist(f)
    BY <2>6, <2>9 DEF FormatFinish, FormatPersist, fixed
  <2>10. QED
    BY <2>7, <2>8, <2>9 DEF Format
<1>3. ASSUME NEW u \in Runs, u # f
      PROVE  StepIsOnce(u)
  <2>1. Same(u)
    BY <1>1, <1>2, <1>3 DEF Same, Dj, InJobsFile
  <2>2. QED
    BY <1>1, <1>3, <2>1, SameIsOnce DEF OnceInv
<1>4. ASSUME f \in Runs
      PROVE  StepIsOnce(f)
  <2>1. OnceOK(f)
    BY <1>4 DEF OnceInv
  <2>2. CASE fmt[f].pc = "issue" /\ fmt'[f].pc = "busy" /\ fmt'[f].run = fmt[f].run
             /\ hist' = [hist EXCEPT ![f] = [sent |-> @.sent \cup {Dj(f).step}, asked |-> FALSE]]
    <3>1. Sent(f) /\ task'[f] = task[f]
      BY <1>1, <2>2 DEF Sent
    <3>2. QED
      BY <1>1, <1>4, <2>1, <2>2, <3>1, SendIsOnce
  <2>3. CASE /\ hist' = hist
             /\ \/ fmt[f].pc \in {"issue", "busy"} /\ fmt'[f].pc = "finish"
                \/ fmt'[f].pc \in {"persist", "none"} /\ fmt'[f].run = fmt[f].run
    <3>1. Dj(f)' = Dj(f) /\ InJobsFile(f)' = InJobsFile(f) /\ task'[f] = task[f]
      BY <1>1 DEF Dj, InJobsFile
    <3>2. EndedOK(f)' /\ EndedStep(f)
      BY <2>1, <3>1 DEF OnceOK, EndedOK, EndedStep
    <3>3. SentOK(f)'
      BY <1>1, <1>4, <2>1, <2>3, <3>1, FileType DEF OnceOK, SentOK
    <3>4. HandleOK(f)' /\ SendStep(f)
      BY <2>1, <2>3, <3>1 DEF OnceOK, HandleOK, SendStep, Sends
    <3>5. QED
      BY <3>2, <3>3, <3>4 DEF StepIsOnce, OnceOK
  <2>4. QED
    BY <1>2, <2>2, <2>3
<1>5. QED
  BY <1>3, <1>4

\* A request: the run's state changes, or it is spawned as asked for.
LEMMA RequestIsOnce ==
  ASSUME TypeOK, NEW u \in Runs, OnceOK(u), InJobsFile(u)' = InJobsFile(u), fmt'[u] = fmt[u],
         (Dj(u)').step = Dj(u).step, hist'[u].sent \subseteq hist[u].sent,
         InJobsFile(u).state \in Ended => (Dj(u)').state = Dj(u).state,
         \/ /\ task'[u] = task[u] /\ hist'[u] = hist[u]
            /\ task[u].pc \in LanePcs => (Dj(u)').state = Dj(u).state \/ (Dj(u)').state \notin Ended
         \/ task'[u].pc = "spawn" /\ hist'[u].asked /\ fmt[u].pc \notin {"issue", "busy"}
  PROVE  StepIsOnce(u)
<1>1. EndedOK(u)' /\ EndedStep(u)
  BY DEF OnceOK, EndedOK, EndedStep, LanePcs
<1>2. SentOK(u)'
  BY FileType DEF OnceOK, SentOK, AtStepPcs, WorkPcs
<1>3. HandleOK(u)' /\ SendStep(u)
  BY DEF OnceOK, HandleOK, SendStep, Sends
<1>4. QED
  BY <1>1, <1>2, <1>3 DEF StepIsOnce, OnceOK

LEMMA CancelIsOnce ==
  ASSUME IInv, OnceInv, NEW j \in Jobs, Cancel(j)
  PROVE  \A u \in Runs : StepIsOnce(u)
<1>1. TypeOK /\ jobs[j] \in Job /\ jobs \in [Jobs -> Job]
  BY DEF IInv, TypeOK
<1> DEFINE dj == [d \in Drives |-> [jobs[j].dj[d] EXCEPT !.state = Cancelled(@)]]
           job == [jobs[j] EXCEPT !.cancel = TRUE, !.dj = dj]
<1>2. ASSUME NEW d \in Drives
      PROVE  dj[d].step = jobs[j].dj[d].step /\ dj[d].state = Cancelled(jobs[j].dj[d].state)
  BY <1>1 DEF Job, DriveJob
<1>3. jobs' = [jobs EXCEPT ![j] = job]
  BY <1>1 DEF Cancel, Job
<1> HIDE DEF dj
<1>4. job.dj = dj
  BY <1>1 DEF Job
<1> HIDE DEF job
<1>5. jobs'[j].dj = dj /\ \A k \in Jobs \ {j} : jobs'[k] = jobs[k]
  BY <1>1, <1>3, <1>4
<1>6. UNCHANGED <<jobsFile, task, fmt, hist>>
  BY DEF Cancel
<1>7. ASSUME NEW u \in Runs
      PROVE  /\ (Dj(u)').step = Dj(u).step
             /\ (Dj(u)').state = Dj(u).state
                  \/ (Dj(u).state \in {"queued", "interrupted"} /\ (Dj(u)').state = "cancelled")
  BY <1>2, <1>5, RunParts DEF Dj, Cancelled
<1>8. ASSUME NEW u \in Runs
      PROVE  StepIsOnce(u)
  <2>1. OnceOK(u) /\ EndedOK(u)
    BY DEF OnceInv, OnceOK
  <2>2. InJobsFile(u)' = InJobsFile(u)
    BY <1>6 DEF InJobsFile
  <2>3. InJobsFile(u).state \in Ended => (Dj(u)').state = Dj(u).state
    BY <1>7, <2>1 DEF EndedOK, Ended
  <2>4. (Dj(u)').state = Dj(u).state \/ (Dj(u)').state \notin Ended
    BY <1>7 DEF Ended
  <2>5. QED
    BY <1>1, <1>6, <1>7, <2>1, <2>2, <2>3, <2>4, RequestIsOnce
<1>9. QED
  BY <1>8

LEMMA ResumeIsOnce ==
  ASSUME IInv, OnceInv, NEW j \in Jobs, Resume(j)
  PROVE  \A u \in Runs : StepIsOnce(u)
<1>1. TypeOK /\ jobs[j] \in Job /\ jobs \in [Jobs -> Job]
  BY DEF IInv, TypeOK
<1> DEFINE stopped == {d \in Drives : jobs[j].dj[d].state = "interrupted"}
           dj == [d \in Drives |-> IF d \in stopped THEN [jobs[j].dj[d] EXCEPT !.state = "queued"]
                                   ELSE jobs[j].dj[d]]
           job == [jobs[j] EXCEPT !.dj = dj]
<1>2. ASSUME NEW d \in Drives
      PROVE  /\ dj[d].step = jobs[j].dj[d].step
             /\ dj[d].state = IF d \in stopped THEN "queued" ELSE jobs[j].dj[d].state
  BY <1>1 DEF Job, DriveJob
<1>3. jobs' = [jobs EXCEPT ![j] = job]
  BY <1>1 DEF Resume, Job
<1>4. /\ task' = [t \in Runs |-> IF t[1] = j /\ t[2] \in stopped
                                 THEN [NoTask EXCEPT !.pc = "spawn"] ELSE task[t]]
      /\ hist' = [t \in Runs |-> IF t[1] = j /\ t[2] \in stopped
                                 THEN [hist[t] EXCEPT !.asked = TRUE] ELSE hist[t]]
  BY DEF Resume
<1> HIDE DEF dj
<1>5. job.dj = dj
  BY <1>1 DEF Job
<1> HIDE DEF job
<1>6. jobs'[j].dj = dj /\ \A k \in Jobs \ {j} : jobs'[k] = jobs[k]
  BY <1>1, <1>3, <1>5
<1>7. UNCHANGED <<jobsFile, fmt>>
  BY DEF Resume
<1>8. ASSUME NEW u \in Runs
      PROVE  StepIsOnce(u)
  <2>1. OnceOK(u) /\ EndedOK(u) /\ RunOK(u) /\ u[1] \in Jobs /\ u[2] \in Drives
    BY RunParts DEF OnceInv, OnceOK, IInv
  <2>2. InJobsFile(u)' = InJobsFile(u)
    BY <1>7 DEF InJobsFile
  <2>3. CASE u[1] = j /\ u[2] \in stopped
    <3>1. Dj(u).state = "interrupted" /\ (Dj(u)').state = "queued" /\ (Dj(u)').step = Dj(u).step
      BY <1>2, <1>6, <2>1, <2>3 DEF Dj
    <3>2. task'[u].pc = "spawn"
      BY <1>4, <2>3 DEF NoTask
    <3>3. hist'[u].sent = hist[u].sent /\ hist'[u].asked
      <4>1. hist'[u] = [hist[u] EXCEPT !.asked = TRUE]
        BY <1>4, <2>3
      <4>2. QED
        BY <1>1, <4>1, FileType DEF History
    <3>4. fmt[u].pc \notin {"issue", "busy"}
      BY <2>1, <3>1 DEF RunOK, StateOK, WorkPcs, OnceOK, HandleOK
    <3>5. InJobsFile(u).state \notin Ended
      BY <2>1, <3>1 DEF EndedOK, Ended
    <3>6. QED
      BY <1>1, <1>7, <2>1, <2>2, <3>1, <3>2, <3>3, <3>4, <3>5, RequestIsOnce
  <2>4. CASE ~(u[1] = j /\ u[2] \in stopped)
    <3>1. (Dj(u)').state = Dj(u).state /\ (Dj(u)').step = Dj(u).step
      BY <1>2, <1>6, <2>1, <2>4 DEF Dj
    <3>2. task'[u] = task[u] /\ hist'[u] = hist[u]
      BY <1>4, <2>4
    <3>3. QED
      BY <1>1, <1>7, <2>1, <2>2, <3>1, <3>2, RequestIsOnce
  <2>5. QED
    BY <2>3, <2>4
<1>9. QED
  BY <1>8

LEMMA SubmitIsOnce ==
  ASSUME IInv, OnceInv, NEW p \in Plans, NEW sel \in Selections, Submit(p, sel)
  PROVE  \A u \in Runs : StepIsOnce(u)
<1>1. TypeOK /\ KeptInv /\ next \in Jobs /\ jobs \in [Jobs -> Job]
  BY WorkerAssumption DEF IInv, TypeOK, Submit, Jobs, WorkerAssumption
<1>2. PICK queued :
        /\ jobs' = [jobs EXCEPT ![next] =
             [kept |-> TRUE, cancel |-> FALSE,
              dj |-> [d \in Drives |->
                       [NoDriveJob EXCEPT !.state =
                          IF d \in queued THEN "queued"
                          ELSE IF d \in sel THEN "refused" ELSE "absent"]]]]
        /\ task' = [t \in Runs |-> IF t[1] = next /\ t[2] \in queued
                                   THEN [NoTask EXCEPT !.pc = "spawn"] ELSE task[t]]
        /\ hist' = [t \in Runs |-> IF t[1] = next /\ t[2] \in queued
                                   THEN [sent |-> {}, asked |-> TRUE] ELSE hist[t]]
  BY DEF Submit
<1>3. /\ \A d \in Drives : jobs'[next].dj[d].step = 0
      /\ \A k \in Jobs \ {next} : jobs'[k] = jobs[k]
  BY <1>1, <1>2 DEF NoDriveJob
<1>4. UNCHANGED <<jobsFile, fmt>>
  BY DEF Submit
<1>5. jobs[next] = NoJob /\ jobsFile[next] = NoJob
  BY <1>1 DEF KeptInv, Jobs
<1>6. ASSUME NEW u \in Runs
      PROVE  StepIsOnce(u)
  <2>1. OnceOK(u) /\ u[1] \in Jobs /\ u[2] \in Drives /\ InJobsFile(u)' = InJobsFile(u)
    BY <1>4, RunParts DEF OnceInv, InJobsFile
  <2>2. CASE u[1] = next
    <3>1. Dj(u) = NoDriveJob /\ InJobsFile(u) = NoDriveJob
      BY <1>5, <2>1, <2>2 DEF Dj, InJobsFile, NoJob
    <3>2. (Dj(u)').step = Dj(u).step /\ InJobsFile(u).state \notin Ended
      BY <1>3, <2>1, <2>2, <3>1 DEF Dj, NoDriveJob, Ended
    <3>3. task[u].pc = "none"
      BY <1>1, <1>5, <2>2 DEF KeptInv, NoJob
    <3>4. fmt[u].pc \notin {"issue", "busy"}
      BY <2>1, <3>3 DEF OnceOK, HandleOK
    <3>5. \/ task'[u] = task[u] /\ hist'[u] = hist[u]
          \/ task'[u].pc = "spawn" /\ hist'[u].sent = {} /\ hist'[u].asked
      BY <1>2 DEF NoTask
    <3>6. task[u].pc \notin LanePcs /\ hist'[u].sent \subseteq hist[u].sent
      BY <3>3, <3>5 DEF LanePcs
    <3>7. QED
      BY <1>1, <1>4, <2>1, <3>2, <3>4, <3>5, <3>6, RequestIsOnce
  <2>3. CASE u[1] # next
    <3>1. Dj(u)' = Dj(u) /\ task'[u] = task[u] /\ hist'[u] = hist[u]
      BY <1>2, <1>3, <2>1, <2>3 DEF Dj
    <3>2. QED
      BY <1>1, <1>4, <2>1, <3>1, RequestIsOnce
  <2>4. QED
    BY <2>2, <2>3
<1>7. QED
  BY <1>6

\* A restart: memory is what the file says, with nothing on the way to a step.
LEMMA RestartIsOnce ==
  ASSUME IInv, OnceInv, Restart
  PROVE  \A u \in Runs : StepIsOnce(u)
<1>1. TypeOK /\ jobsFile \in [Jobs -> Job]
  BY DEF IInv, TypeOK
<1>2. ASSUME NEW u \in Runs
      PROVE  /\ Dj(u)' = InJobsFile(u)' /\ (InJobsFile(u)').step = InJobsFile(u).step
             /\ InJobsFile(u).state \in Ended => (InJobsFile(u)').state = InJobsFile(u).state
  <2>1. u[1] \in Jobs /\ u[2] \in Drives /\ jobsFile[u[1]] \in Job /\ InJobsFile(u) \in DriveJob
    BY <1>1, RunParts, FileType
  <2> DEFINE dj == [d \in Drives |->
                     IF Interrupt(u[1], d) THEN [jobsFile[u[1]].dj[d] EXCEPT !.state = "interrupted"]
                     ELSE jobsFile[u[1]].dj[d]]
  <2>2. jobs'[u[1]] = [jobsFile[u[1]] EXCEPT !.dj = dj] /\ jobsFile' = jobs'
    BY <2>1 DEF Restart
  <2>3. dj[u[2]] = IF Interrupt(u[1], u[2]) THEN [InJobsFile(u) EXCEPT !.state = "interrupted"]
                   ELSE InJobsFile(u)
    BY <2>1 DEF InJobsFile
  <2> HIDE DEF dj
  <2>4. Dj(u)' = dj[u[2]] /\ InJobsFile(u)' = dj[u[2]]
    BY <2>1, <2>2 DEF Dj, InJobsFile, Job
  <2>5. Interrupt(u[1], u[2]) => InJobsFile(u).state \notin Ended
    BY DEF Interrupt, InJobsFile, Ended
  <2>6. [InJobsFile(u) EXCEPT !.state = "interrupted"].step = InJobsFile(u).step
    BY <2>1 DEF DriveJob
  <2>7. QED
    BY <2>3, <2>4, <2>5, <2>6
<1>3. ASSUME NEW u \in Runs
      PROVE  /\ task'[u].pc \in {"none", "w_start"} /\ fmt'[u].pc = "none" /\ hist'[u] = hist[u]
  <2>1. u \in Formats /\ u[1] # Nobody
    BY RunParts
  <2>2. task'[u].pc \in {"none", "w_start"} /\ hist'[u] = hist[u]
    BY DEF Restart, NoTask
  <2>3. fmt'[u] = NoFormat
    BY <2>1 DEF Restart
  <2>4. QED
    BY <2>2, <2>3 DEF NoFormat
<1>4. ASSUME NEW u \in Runs
      PROVE  StepIsOnce(u)
  <2>1. OnceOK(u)
    BY DEF OnceInv
  <2>2. EndedOK(u)' /\ EndedStep(u)
    BY <1>2, <1>3 DEF EndedOK, EndedStep, LanePcs
  <2>3. SentOK(u)'
    BY <1>1, <1>2, <1>3, <2>1, FileType DEF OnceOK, SentOK, PrePcs
  <2>4. HandleOK(u)'
    BY <1>3 DEF HandleOK
  <2>5. SendStep(u)
    BY <1>3 DEF SendStep, Sends
  <2>6. QED
    BY <2>2, <2>3, <2>4, <2>5 DEF StepIsOnce, OnceOK
<1>5. QED
  BY <1>4

LEMMA RunIsOnce ==
  ASSUME AllKept, IInv, OnceInv, NEW t \in Runs, RunDrive(t) \/ Watch(t)
  PROVE  \A u \in Runs : StepIsOnce(u)
<1>1. CASE \/ TakeLane(t) \/ WaitFormat(t) \/ BeginCommand(t) \/ BusyErase(t) \/ Rejected(t)
           \/ PasswordUnsure(t) \/ ErasePrepareFails(t) \/ Answered(t) \/ SetIdle(t)
           \/ PersistStep(t) \/ BeginTest(t) \/ TestEnds(t) \/ BeginEnroll(t) \/ Enrolled(t)
           \/ WatchFormat(t) \/ WatchWait(t) \/ WatchIdle(t) \/ WatchPersist(t)
  BY <1>1, StepsMove, MovesAreOnce
<1>2. CASE \/ Spawn(t) \/ SaveRun(t) \/ SavePassword(t) \/ SaveCleared(t) \/ SaveStep(t)
           \/ SaveEnd(t) \/ WatchSave(t)
  BY <1>2, SavesAreOnce
<1>3. CASE \/ Top(t) \/ Check(t) \/ Allowed(t) \/ Denied(t) \/ Unavailable(t) \/ Result(t)
           \/ WatchResult(t) \/ BeginErase(t) \/ ClearPassword(t)
  BY <1>3, TopIsOnce, CheckIsOnce, RecheckIsOnce, ResultIsOnce, WatchResultIsOnce,
     BeginEraseIsOnce, ClearPasswordIsOnce
<1>4. CASE BeginFormat(t) \/ PersistFormat(t) \/ WatchStart(t) \/ Issue(t) \/ EraseUnit(t)
  BY <1>4, HandlesAreOnce, CommandsAreOnce
<1>5. QED
  BY <1>1, <1>2, <1>3, <1>4 DEF RunDrive, RunStep, Watch

LEMMA NextIsOnce ==
  ASSUME AllKept, IInv, OnceInv, [Next]_vars
  PROVE  \A u \in Runs : StepIsOnce(u)
<1>1. TypeOK
  BY DEF IInv
<1>2. CASE Request
  <2>1. CASE \E j \in Jobs : CancelSave(j)
    BY <1>1, <2>1, NothingIsOnce DEF CancelSave, fixed
  <2>2. QED
    BY <1>2, <2>1, SubmitIsOnce, CancelIsOnce, ResumeIsOnce DEF Request
<1>3. CASE \E t \in Runs : RunDrive(t) \/ Watch(t)
  BY <1>3, RunIsOnce
<1>4. CASE \E f \in Formats : Format(f)
  BY <1>4, FormatIsOnce
<1>5. CASE World \/ OtherPersist \/ UNCHANGED vars
  <2>1. UNCHANGED <<task, hist, fmt, jobs, jobsFile>>
    BY <1>5 DEF World, HwEnds, Pull, Push, Scan, OtherPersist, Persist, store, world, fixed, vars
  <2>2. QED
    BY <1>1, <2>1, NothingIsOnce
<1>6. CASE Restart
  BY <1>6, RestartIsOnce
<1>7. QED
  BY <1>2, <1>3, <1>4, <1>5, <1>6 DEF Next

LEMMA InitOnce == Init => OnceInv
<1> SUFFICES ASSUME Init, NEW t \in Runs
    PROVE  OnceOK(t)
  BY DEF OnceInv
<1>1. /\ Dj(t) = NoDriveJob /\ InJobsFile(t) = NoDriveJob /\ task[t] = NoTask /\ fmt[t] = NoFormat
      /\ hist[t].sent = {}
  BY RunParts DEF Init, Dj, InJobsFile, NoJob
<1>2. EndedOK(t) /\ HandleOK(t)
  BY <1>1 DEF EndedOK, HandleOK, NoTask, NoFormat, LanePcs
<1>3. SentOK(t)
  BY <1>1 DEF SentOK, NoDriveJob, NoTask, NoFormat, PrePcs
<1>4. QED
  BY <1>2, <1>3 DEF OnceOK

\* The two inductive invariants hold of every behaviour that keeps its jobs:
\* what a run may rely on between its awaits, and what its file, its task and
\* the commands sent for it say of each other (run_drive, run_step, watch, recover).
THEOREM OnceHolds == ASSUME AllKept PROVE Spec => [](IInv /\ OnceInv)
<1>1. Init => IInv /\ OnceInv
  BY InitInv, InitOnce
<1>2. IInv /\ OnceInv /\ [Next]_vars => (IInv /\ OnceInv)'
  <2> SUFFICES ASSUME IInv, OnceInv, [Next]_vars
      PROVE  IInv' /\ OnceInv'
    OBVIOUS
  <2>1. IInv'
    BY NextInv
  <2>2. OnceInv'
    BY NextIsOnce DEF OnceInv, StepIsOnce
  <2>3. QED
    BY <2>1, <2>2
<1>3. QED
  BY <1>1, <1>2, PTL DEF Spec

\* A drive is locked only with a password that memory and jobs.json hold
\* (SecurityErase in run_step), and a drive that reads busy has a task, a
\* format run or a job at work on it (recover, orphan_action), at all times.
THEOREM WorkerSafe == ASSUME AllKept PROVE Spec => []WorkerInv
<1>1. IInv /\ OnceInv => WorkerInv
  BY Follows DEF WorkerInv
<1>2. QED
  BY <1>1, OnceHolds, PTL

\* A destructive command is sent a second time only for a run that a request
\* has asked for again: not by a restart, a late answer or another task
\* (recover; SaveRun before run_step).
THEOREM NoBlindRerun == ASSUME AllKept PROVE Spec => NeverRerunBlind
<1>1. IInv /\ OnceInv /\ [Next]_vars
        => [\A t \in Runs : Sends(t) /\ Dj(t).step \in hist[t].sent => hist[t].asked]_vars
  BY NextIsOnce DEF StepIsOnce, SendStep
<1>2. QED
  BY <1>1, OnceHolds, PTL DEF NeverRerunBlind, Spec

\* What jobs.json says has ended stays as it ended, through cancels, resumes,
\* late tasks and restarts (recover_action, cancel, resume).
THEOREM WhatEndedStays == ASSUME AllKept PROVE Spec => EndedStays
<1>1. IInv /\ OnceInv /\ [Next]_vars
        => [\A t \in Runs :
              LET was == jobsFile[t[1]].dj[t[2]].state
                  is == jobsFile'[t[1]].dj[t[2]].state IN
              was \in {"done", "failed", "refused"} => is \in {was, "absent"}]_vars
  <2> SUFFICES ASSUME IInv, OnceInv, [Next]_vars, NEW t \in Runs,
                      jobsFile[t[1]].dj[t[2]].state \in {"done", "failed", "refused"}
      PROVE  jobsFile'[t[1]].dj[t[2]].state \in {jobsFile[t[1]].dj[t[2]].state, "absent"}
    OBVIOUS
  <2>1. EndedStep(t)
    BY NextIsOnce DEF StepIsOnce
  <2>2. QED
    BY <2>1 DEF EndedStep, Ended, InJobsFile
<1>2. QED
  BY <1>1, OnceHolds, PTL DEF EndedStays, Spec
=============================================================================
