---------------------------- MODULE FleetProofs ----------------------------
(* What TLAPS proves of Fleet, for every set of drives and requests, every *)
(* configuration and every budget: its types, that a pending drain holds   *)
(* nothing, and that only drives somebody wanted out retire.               *)
EXTENDS Fleet, TLAPS

----------------------------------------------------------------------------
(* The operators the actions are built from.                               *)

\* Undrain and MarkPending (mark_pending, cancel_drain) return a drive.
LEMMA UndrainType ==
  ASSUME NEW r \in Drive
  PROVE  Undrain(r) \in Drive
BY DEF Undrain, Drive, Activity

LEMMA MarkPendingType ==
  ASSUME NEW r \in Drive, NEW why \in Reason, NEW leave \in BOOLEAN
  PROVE  MarkPending(r, why, leave) \in Drive
<1> DEFINE rec == IF r.drain.state = "pending" THEN r.drain
                  ELSE [state |-> "pending", reason |-> why, leave |-> leave]
<1>1. rec \in Drain
  BY DEF Drive, Drain, NoDrain, DrainState
<1>2. [r EXCEPT !.drain = rec] \in Drive
  BY <1>1 DEF Drive
<1>3. QED
  BY <1>2, UndrainType DEF MarkPending

\* Writing a drive's record keeps the inventory and the file typed.
LEMMA WriteType ==
  ASSUME TypeOK, NEW d \in Drives, NEW r \in Drive, Write(d, r) \/ Save(d, r)
  PROVE  inv' \in [Drives -> Drive] /\ disk' \in [Drives -> Drive]
BY DEF TypeOK, Write, Save

LEMMA PersistType ==
  ASSUME TypeOK, Persist \/ NoWrite
  PROVE  inv' \in [Drives -> Drive] /\ disk' \in [Drives -> Drive]
BY DEF TypeOK, Persist, NoWrite

LEMMA BudgetType ==
  ASSUME TypeOK, NoTrouble \/ (\E k \in Trouble : Spend(k))
  PROVE  budget' \in [Trouble -> Nat]
BY DEF TypeOK, NoTrouble, Spend

LEMMA TellType ==
  ASSUME TypeOK, NEW d \in Drives, NEW e \in Engine, Tell(d, e)
  PROVE  eng' \in [Drives -> Engine]
BY DEF TypeOK, Tell

\* So does a health report the engine takes (external).
LEMMA ReportType ==
  ASSUME TypeOK, NEW d \in Drives, NEW w \in Word, Report(d, w)
  PROVE  eng' \in [Drives -> Engine]
<1> DEFINE RB == IF Bad(w) /\ eng[d].used THEN {TRUE, eng[d].rebuild} ELSE {eng[d].rebuild}
           OW == IF w \in {"failed", "missing"} THEN BOOLEAN ELSE {eng[d].owed}
           DR == IF w \in {"failed", "missing"} /\ ~eng[d].rebuild
                 THEN {"running", eng[d].drain} ELSE {eng[d].drain}
<1>1. RB \subseteq BOOLEAN /\ OW \subseteq BOOLEAN /\ DR \subseteq EngineDrain
  BY DEF TypeOK, Engine, EngineDrain
<1>2. PICK rb \in RB, ow \in OW, dr \in DR :
        Tell(d, [eng[d] EXCEPT !.word = w, !.rebuild = rb, !.owed = ow, !.drain = dr])
  BY DEF Report
<1>3. [eng[d] EXCEPT !.word = w, !.rebuild = rb, !.owed = ow, !.drain = dr] \in Engine
  BY <1>1, <1>2 DEF TypeOK, Engine
<1>4. QED
  BY <1>2, <1>3, TellType

LEMMA GotoType ==
  ASSUME TypeInv, NEW a \in Actors, NEW pc \in Pcs \ {"designate", "sd_write"},
         Goto(a, pc), a # Loop \/ pc \notin {"begin", "next"} => task[a].drive \in Drives
  PROVE  task' \in [Actors -> Task] /\ (\A b \in Actors : TaskOK(b))'
<1>1. task' \in [Actors -> Task]
  BY DEF TypeInv, TypeOK, Goto, Task
<1>2. ASSUME NEW b \in Actors PROVE TaskOK(b)'
  BY <1>2 DEF TypeInv, TypeOK, TaskOK, Goto, Task
<1>3. QED
  BY <1>1, <1>2

LEMMA GotoWithType ==
  ASSUME TypeInv, NEW a \in Actors, NEW pc \in Pcs \ {"designate"}, NEW answer \in EngineDrain,
         GotoWith(a, pc, answer), task[a].drive \in Drives,
         pc = "sd_write" => answer \in {"running", "empty"}
  PROVE  task' \in [Actors -> Task] /\ (\A b \in Actors : TaskOK(b))'
<1> DEFINE t == [task[a] EXCEPT !.pc = pc, !.answer = answer]
<1>1. t \in Task /\ task' = [task EXCEPT ![a] = t]
  BY DEF TypeInv, TypeOK, GotoWith, Task
<1>2. ASSUME NEW b \in Actors PROVE TaskOK(b)'
  BY <1>1, <1>2 DEF TypeInv, TypeOK, TaskOK, Task
<1>3. QED
  BY <1>1, <1>2 DEF TypeInv, TypeOK

----------------------------------------------------------------------------
(* Types, action by action.                                                *)

\* The daemon starts on records, an engine and tasks that are what they
\* should be.
LEMMA InitType == Init => TypeInv
<1> SUFFICES ASSUME Init PROVE TypeInv
  OBVIOUS
<1>1. NewDrive \in Drive /\ EnrolledDrive \in Drive
  BY DEF NewDrive, EnrolledDrive, Drive, Membership, Designation, Activity, HealthStatus,
         Drain, NoDrain, Word
<1>2. Serving \in Engine /\ Closed \in Engine
  BY DEF Serving, Closed, Engine, EngineDrain, Word
<1>3. NewTask \in Task /\ [NewTask EXCEPT !.pc = "begin"] \in Task
  BY DEF NewTask, Task, Pcs, RequestPcs, Word, Reason, EngineDrain
<1>4. /\ inv \in [Drives -> Drive] /\ disk \in [Drives -> Drive]
      /\ eng \in [Drives -> Engine] /\ task \in [Actors -> Task]
  BY <1>1, <1>2, <1>3 DEF Init
<1>5. /\ present \in SUBSET Drives /\ phase \in Phases /\ todo \in SUBSET Job
      /\ listed \in SUBSET Drives /\ asked \in [Drives -> BOOLEAN]
      /\ budget \in [Trouble -> Nat]
  BY FleetAssumption DEF Init, Phases
<1>6. \A a \in Actors : TaskOK(a)
  BY DEF Init, TaskOK, NewTask
<1>7. QED
  BY <1>4, <1>5, <1>6 DEF TypeInv, TypeOK

\* start_drain and request_drain.
LEMMA DrainType ==
  ASSUME TypeInv, NEW a \in Actors, StartDrain(a)
  PROVE  TypeInv'
<1> DEFINE d == task[a].drive
<1>0. /\ {"next", "done", "m_save", "sd_status", "sd_post", "sd_pend"} \subseteq Pcs \ {"designate", "sd_write"}
      /\ {"sd_read", "sd_status", "sd_post", "sd_write", "sd_pend"} \subseteq Pcs
  BY DEF Pcs, DrainPcs, RequestPcs
<1>1. d \in Drives
  BY DEF StartDrain, SdRead, SdStatus, SdPost, SdWrite, SdPend, At, TypeInv, TaskOK
<1>2. CASE SdRead(a)
  <2>1. \E pc \in {"next", "done", "m_save", "sd_status", "sd_pend"} : Goto(a, pc)
    BY <1>2 DEF SdRead, Refused, Return, End
  <2>2. task' \in [Actors -> Task] /\ (\A b \in Actors : TaskOK(b))'
    BY <1>0, <1>1, <2>1, GotoType
  <2>3. QED
    BY <1>2, <2>2 DEF SdRead, loopVars, TypeInv, TypeOK
<1>3. CASE SdStatus(a)
  <2>1. task' \in [Actors -> Task] /\ (\A b \in Actors : TaskOK(b))'
    <3>1. CASE GotoWith(a, "sd_write", "running")
      BY <1>0, <1>1, <3>1, GotoWithType DEF EngineDrain
    <3>2. CASE \E pc \in {"next", "done", "m_save", "sd_post", "sd_pend"} : Goto(a, pc)
      BY <1>0, <1>1, <3>2, GotoType
    <3>3. QED
      BY <1>3, <3>1, <3>2 DEF SdStatus, Refused, Return, End
  <2>2. budget' \in [Trouble -> Nat]
    BY <1>3, BudgetType DEF SdStatus, TypeInv, Trouble
  <2>3. QED
    BY <1>3, <2>1, <2>2 DEF SdStatus, loopVars, TypeInv, TypeOK
<1>4. CASE SdPost(a)
  <2>1. task' \in [Actors -> Task] /\ (\A b \in Actors : TaskOK(b))'
    <3>1. CASE \E s \in {"running", "empty"} : GotoWith(a, "sd_write", s)
      BY <1>0, <1>1, <3>1, GotoWithType DEF EngineDrain
    <3>2. CASE \E pc \in {"next", "done", "m_save", "sd_pend"} : Goto(a, pc)
      BY <1>0, <1>1, <3>2, GotoType
    <3>3. QED
      BY <1>4, <3>1, <3>2 DEF SdPost, Refused, Return, End, Started
  <2>2. budget' \in [Trouble -> Nat]
    BY <1>4, BudgetType DEF SdPost, TypeInv, Trouble
  <2>3. eng' \in [Drives -> Engine]
    <3>1. \A s \in {"running", "empty"} : [eng[d] EXCEPT !.drain = s] \in Engine
      BY <1>1 DEF TypeInv, TypeOK, Engine, EngineDrain
    <3>2. QED
      BY <1>1, <1>4, <3>1, TellType DEF SdPost, Started, TypeInv, TypeOK
  <2>4. QED
    BY <1>4, <2>1, <2>2, <2>3 DEF SdPost, loopVars, TypeInv, TypeOK
<1>5. CASE SdWrite(a)
  <2> DEFINE rec == [state |-> task[a].answer, reason |-> task[a].reason, leave |-> task[a].leave]
             r == [inv[d] EXCEPT !.drain = rec,
                                  !.activity = IF rec.state = "running" THEN "draining" ELSE @]
  <2>1. r \in Drive
    <3>1. task[a].answer \in {"running", "empty"} /\ task[a] \in Task /\ inv[d] \in Drive
      BY <1>1, <1>5 DEF SdWrite, At, TypeInv, TypeOK, TaskOK
    <3>2. rec \in Drain
      BY <3>1 DEF Drain, DrainState, Task
    <3>3. QED
      BY <3>1, <3>2 DEF Drive, Activity
  <2>2. inv' \in [Drives -> Drive] /\ disk' \in [Drives -> Drive]
    BY <1>1, <1>5, <2>1, WriteType DEF SdWrite, TypeInv
  <2>3. task' \in [Actors -> Task] /\ (\A b \in Actors : TaskOK(b))'
    BY <1>0, <1>1, <1>5, GotoType DEF SdWrite, Return, End
  <2>4. QED
    BY <1>5, <2>2, <2>3 DEF SdWrite, loopVars, TypeInv, TypeOK
<1>6. CASE SdPend(a)
  <2>1. MarkPending(inv[d], task[a].reason, task[a].leave) \in Drive
    BY <1>1, MarkPendingType DEF TypeInv, TypeOK, Task
  <2>2. inv' \in [Drives -> Drive] /\ disk' \in [Drives -> Drive]
    BY <1>1, <1>6, <2>1, WriteType, PersistType DEF SdPend, TypeInv
  <2>3. task' \in [Actors -> Task] /\ (\A b \in Actors : TaskOK(b))'
    BY <1>0, <1>1, <1>6, GotoType DEF SdPend, Return, End
  <2>4. QED
    BY <1>6, <2>2, <2>3 DEF SdPend, loopVars, TypeInv, TypeOK
<1>7. QED
  BY <1>2, <1>3, <1>4, <1>5, <1>6 DEF StartDrain

\* join, called by auto-add and the join request.
LEMMA JoinType ==
  ASSUME TypeInv, NEW a \in Actors, Join(a)
  PROVE  TypeInv'
<1> DEFINE d == task[a].drive
<1>0. {"next", "done", "m_save", "j_slab", "j_write"} \subseteq Pcs \ {"designate", "sd_write"}
  BY DEF Pcs, JoinPcs, RequestPcs
<1>1. d \in Drives
  BY DEF Join, JoinOpen, JoinSlab, JoinWrite, At, TypeInv, TaskOK
<1>2. \E pc \in {"next", "done", "m_save", "j_slab", "j_write"} : Goto(a, pc)
  BY DEF Join, JoinOpen, JoinSlab, JoinWrite, Return, End
<1>3. task' \in [Actors -> Task] /\ (\A b \in Actors : TaskOK(b))'
  BY <1>0, <1>1, <1>2, GotoType
<1>4. CASE JoinOpen(a)
  <2>1. eng' \in [Drives -> Engine]
    <3>1. IF eng[d].open THEN eng[d] \in Engine ELSE [Closed EXCEPT !.open = TRUE] \in Engine
      BY <1>1 DEF TypeInv, TypeOK, Engine, EngineDrain, Closed, Word
    <3>2. QED
      BY <1>1, <1>4, <3>1, TellType DEF JoinOpen, TypeInv, TypeOK
  <2>2. budget' \in [Trouble -> Nat]
    BY <1>4, BudgetType DEF JoinOpen, TypeInv, Trouble
  <2>3. QED
    BY <1>3, <1>4, <2>1, <2>2 DEF JoinOpen, loopVars, TypeInv, TypeOK
<1>5. CASE JoinSlab(a)
  <2>1. budget' \in [Trouble -> Nat]
    BY <1>5, BudgetType DEF JoinSlab, TypeInv, Trouble
  <2>2. QED
    BY <1>3, <1>5, <2>1 DEF JoinSlab, loopVars, TypeInv, TypeOK
<1>6. CASE JoinWrite(a)
  <2>1. [inv[d] EXCEPT !.membership = "fleet", !.pushed = "none", !.drain = NoDrain] \in Drive
    <3>1. NoDrain \in Drain /\ inv[d] \in Drive
      BY <1>1 DEF Drain, TypeInv, TypeOK
    <3>2. QED
      BY <3>1 DEF Drive, Membership
  <2>2. inv' \in [Drives -> Drive] /\ disk' \in [Drives -> Drive]
    BY <1>1, <1>6, <2>1, WriteType DEF JoinWrite, TypeInv
  <2>3. QED
    BY <1>3, <1>6, <2>2 DEF JoinWrite, loopVars, TypeInv, TypeOK
<1>7. QED
  BY <1>4, <1>5, <1>6 DEF Join

\* The step a phase begins each of its drives with.
LEMMA FirstStepIs ==
  /\ FirstStep["health"] = "push" /\ FirstStep["poll"] = "poll"
  /\ FirstStep["retry"] = "sd_read" /\ FirstStep["add"] = "j_open"
BY DEF FirstStep

\* Discovery, the reconcile and the snapshots of the tick's phases.
LEMMA PassType ==
  ASSUME TypeInv,
         Discover \/ ListDrives \/ Reconcile \/ TakeSnapshot \/ TakeJob \/ EndPhase
  PROVE  TypeInv'
<1>0. /\ {"begin", "next"} \subseteq Pcs \ {"designate", "sd_write"}
      /\ {"push", "poll", "sd_read", "j_open"} \subseteq Pcs \ {"designate", "sd_write"}
      /\ Loop \in Actors
  BY DEF Pcs, PushPcs, PollPcs, DrainPcs, JoinPcs, Actors
<1>1. ASSUME NEW p \in Phases, NEW pc \in {"begin", "next"}, Enter(p, pc)
      PROVE  /\ phase' \in Phases /\ todo' \in SUBSET Job
             /\ task' \in [Actors -> Task] /\ (\A b \in Actors : TaskOK(b))'
  BY <1>0, <1>1, GotoType DEF Enter
<1>2. CASE Discover
  <2>1. \A d \in Drives : Observed(d) \in Drive
    BY DEF Observed, TypeInv, TypeOK, Drive, Activity
  <2>2. QED
    BY <1>1, <1>2, <2>1 DEF Discover, TypeInv, TypeOK, Phases
<1>3. CASE ListDrives
  <2>1. inv' \in [Drives -> Drive] /\ disk' \in [Drives -> Drive]
    BY <1>3, PersistType DEF ListDrives, TypeInv
  <2>2. budget' \in [Trouble -> Nat]
    BY <1>3, BudgetType DEF ListDrives, TypeInv, Trouble
  <2>3. listed' \in SUBSET Drives
    BY <1>3 DEF ListDrives, TypeInv, TypeOK
  <2>4. /\ phase' \in Phases /\ todo' \in SUBSET Job
        /\ task' \in [Actors -> Task] /\ (\A b \in Actors : TaskOK(b))'
    BY <1>1, <1>3 DEF ListDrives, Phases
  <2>5. QED
    BY <1>3, <2>1, <2>2, <2>3, <2>4 DEF ListDrives, TypeInv, TypeOK
<1>4. CASE Reconcile
  <2>1. inv' \in [Drives -> Drive]
    <3>1. ASSUME NEW d \in Drives, NEW m \in Membership
          PROVE  [inv[d] EXCEPT !.membership = m] \in Drive
      BY DEF TypeInv, TypeOK, Drive
    <3>2. \A d \in Drives : (IF d \in listed THEN "fleet" ELSE "out") \in Membership
      BY DEF Membership
    <3>3. QED
      BY <1>4, <3>1, <3>2 DEF Reconcile
  <2>2. QED
    BY <1>1, <1>4, <2>1 DEF Reconcile, TypeInv, TypeOK, Phases
<1>5. CASE TakeSnapshot
  <2>1. Snapshots \subseteq SUBSET Job
    <3> DEFINE JobOf(d, w, y, l) == [drive |-> d, word |-> w, reason |-> y, leave |-> l]
    <3>a. \A d \in Drives, w \in Word, y \in Reason, l \in BOOLEAN : JobOf(d, w, y, l) \in Job
      BY DEF Job
    <3>b. \A d \in Drives : HealthWord(inv[d]) \in Word
      BY DEF HealthWord, Word
    <3>c. ASSUME NEW d \in Drives
          PROVE  inv[d].drain.reason \in Reason /\ inv[d].drain.leave \in BOOLEAN
      <4>1. inv[d].drain \in Drain
        BY DEF TypeInv, TypeOK, Drive
      <4>2. NoDrain.reason \in Reason /\ NoDrain.leave \in BOOLEAN
        BY DEF NoDrain, Reason
      <4>3. QED
        BY <4>1, <4>2 DEF Drain
    <3>d. "healthy" \in Word /\ "health" \in Reason /\ "operator" \in Reason
      BY DEF Word, Reason
    <3>2. PushJobs \subseteq Job
      <4>1. ASSUME NEW j \in PushJobs PROVE j \in Job
        <5>1. PICK d \in Drives : j = JobOf(d, HealthWord(inv[d]), "health", TRUE)
          BY Zenon DEF PushJobs
        <5>2. QED
          BY <3>a, <3>b, <3>d, <5>1
      <4>2. QED
        BY <4>1
    <3>3. PollJobs \subseteq Job /\ RetryJobs \subseteq Job
      <4>1. ASSUME NEW j \in PollJobs \cup RetryJobs PROVE j \in Job
        <5>1. PICK d \in Drives :
                j = JobOf(d, "healthy", inv[d].drain.reason, inv[d].drain.leave)
          BY Zenon DEF PollJobs, RetryJobs
        <5>2. QED
          BY <3>a, <3>c, <3>d, <5>1
      <4>2. QED
        BY <4>1
    <3>4. AddJobs \subseteq Job
      <4>1. ASSUME NEW j \in AddJobs PROVE j \in Job
        <5>1. PICK d \in Drives : j = JobOf(d, "healthy", "operator", FALSE)
          BY Zenon DEF AddJobs
        <5>2. QED
          BY <3>a, <3>d, <5>1
      <4>2. QED
        BY <4>1
    <3>5. phase \in TickPhases
      BY <1>5 DEF TakeSnapshot
    <3>6. QED
      BY <3>2, <3>3, <3>4, <3>5 DEF Snapshots, TickPhases
  <2>2. todo' \in SUBSET Job
    BY <1>5, <2>1 DEF TakeSnapshot
  <2>3. task' \in [Actors -> Task] /\ (\A b \in Actors : TaskOK(b))'
    BY <1>0, <1>5, GotoType DEF TakeSnapshot
  <2>4. QED
    BY <1>5, <2>2, <2>3 DEF TakeSnapshot, TypeInv, TypeOK
<1>6. CASE TakeJob
  <2>1. PICK j \in todo :
          /\ todo' = todo \ {j}
          /\ task' = [task EXCEPT ![Loop] =
                        [@ EXCEPT !.pc = FirstStep[phase], !.drive = j.drive, !.word = j.word,
                                  !.reason = j.reason, !.leave = j.leave, !.answer = "none"]]
    BY <1>6 DEF TakeJob
  <2> DEFINE t == [task[Loop] EXCEPT !.pc = FirstStep[phase], !.drive = j.drive, !.word = j.word,
                                     !.reason = j.reason, !.leave = j.leave, !.answer = "none"]
  <2>2. FirstStep[phase] \in Pcs \ {"designate", "sd_write"}
    BY <1>0, <1>6, FirstStepIs DEF TakeJob, TickPhases
  <2>3. j \in Job
    BY DEF TypeInv, TypeOK
  <2>4. task[Loop] \in Task
    BY <1>0 DEF TypeInv, TypeOK
  <2>5. t \in Task
    BY <2>2, <2>3, <2>4 DEF Task, Job, EngineDrain
  <2>6. t.pc = FirstStep[phase] /\ t.drive = j.drive /\ j.drive \in Drives
    BY <2>3, <2>4 DEF Task, Job
  <2>7. task' = [task EXCEPT ![Loop] = t]
    BY <2>1
  <2>8. task' \in [Actors -> Task]
    BY <1>0, <2>5, <2>7 DEF TypeInv, TypeOK
  <2>9. (\A b \in Actors : TaskOK(b))'
    BY <1>0, <2>2, <2>6, <2>7 DEF TaskOK, TypeInv, TypeOK
  <2>10. QED
    BY <1>6, <2>1, <2>8, <2>9 DEF TakeJob, TypeInv, TypeOK
<1>7. CASE EndPhase
  <2>1. inv' \in [Drives -> Drive] /\ disk' \in [Drives -> Drive]
    BY <1>7, PersistType DEF EndPhase, TypeInv
  <2>2. \E p \in Phases : Enter(p, "begin")
    BY <1>7 DEF EndPhase, NextPhase, TickPhases, Phases
  <2>3. QED
    BY <1>1, <1>7, <2>1, <2>2 DEF EndPhase, TypeInv, TypeOK
<1>8. QED
  BY <1>2, <1>3, <1>4, <1>5, <1>6, <1>7

\* push_health, poll_drains and retire.
LEMMA TickType ==
  ASSUME TypeInv,
         \/ PushSend \/ PushWrite \/ DropPendingDrain
         \/ PollStatus \/ PollWrite \/ PollSettle \/ RetireDelete \/ RetireWrite
  PROVE  TypeInv'
<1> DEFINE d == task[Loop].drive
           Pc == {"next", "push_write", "sd_read", "drop", "retire", "poll_idle", "poll_stuck",
                  "poll_undrain", "retire_write"}
<1>0. /\ Pc \subseteq Pcs \ {"designate", "sd_write"} /\ Loop \in Actors
      /\ "poll_write" \in Pcs
  BY DEF Pcs, DrainPcs, PushPcs, PollPcs, Actors
<1>1. d \in Drives /\ task[Loop] \in Task /\ inv[d] \in Drive /\ eng[d] \in Engine
  BY <1>0 DEF PushSend, PushWrite, DropPendingDrain, PollStatus, PollWrite, PollSettle,
              RetireDelete, RetireWrite, At, TypeInv, TypeOK, TaskOK
<1>2. ASSUME NEW pc \in Pc, Goto(Loop, pc)
      PROVE  task' \in [Actors -> Task] /\ (\A b \in Actors : TaskOK(b))'
  BY <1>0, <1>1, <1>2, GotoType
<1>3. CASE PushSend
  <2>1. \E pc \in Pc : Goto(Loop, pc)
    BY <1>3 DEF PushSend, Return, End
  <2>2. eng' \in [Drives -> Engine]
    BY <1>1, <1>3, ReportType DEF PushSend, TypeInv, TypeOK, Task
  <2>3. budget' \in [Trouble -> Nat]
    BY <1>3, BudgetType DEF PushSend, TypeInv, Trouble
  <2>4. QED
    BY <1>2, <1>3, <2>1, <2>2, <2>3 DEF PushSend, loopVars, TypeInv, TypeOK
<1>4. CASE PushWrite
  <2>1. \E pc \in Pc : Goto(Loop, pc)
    BY <1>4 DEF PushWrite, Return, End
  <2>2. [inv[d] EXCEPT !.pushed = task[Loop].word] \in Drive
    BY <1>1 DEF Drive, Task
  <2>3. inv' \in [Drives -> Drive] /\ disk' \in [Drives -> Drive]
    BY <1>1, <1>4, <2>2, WriteType DEF PushWrite, TypeInv
  <2>4. QED
    BY <1>2, <1>4, <2>1, <2>3 DEF PushWrite, loopVars, TypeInv, TypeOK
<1>5. CASE DropPendingDrain
  <2>1. \E pc \in Pc : Goto(Loop, pc)
    BY <1>5 DEF DropPendingDrain, Return, End
  <2>2. [inv[d] EXCEPT !.drain = NoDrain] \in Drive
    <3>1. NoDrain \in Drain
      BY DEF Drain
    <3>2. QED
      BY <1>1, <3>1 DEF Drive
  <2>3. inv' \in [Drives -> Drive] /\ disk' \in [Drives -> Drive]
    BY <1>1, <1>5, <2>2, WriteType, PersistType DEF DropPendingDrain, TypeInv
  <2>4. QED
    BY <1>2, <1>5, <2>1, <2>3 DEF DropPendingDrain, loopVars, TypeInv, TypeOK
<1>6. CASE PollStatus
  <2>1. task' \in [Actors -> Task] /\ (\A b \in Actors : TaskOK(b))'
    <3>1. CASE GotoWith(Loop, "poll_write", eng[d].drain)
      <4>1. eng[d].drain \in EngineDrain
        BY <1>1 DEF Engine
      <4>2. QED
        BY <1>0, <1>1, <3>1, <4>1, GotoWithType
    <3>2. CASE Goto(Loop, "next")
      BY <1>2, <3>2
    <3>3. QED
      BY <1>6, <3>1, <3>2 DEF PollStatus, Return, End
  <2>2. budget' \in [Trouble -> Nat]
    BY <1>6, BudgetType DEF PollStatus, TypeInv, Trouble
  <2>3. QED
    BY <1>6, <2>1, <2>2 DEF PollStatus, loopVars, TypeInv, TypeOK
<1>7. CASE PollWrite
  <2>1. \E pc \in Pc : Goto(Loop, pc)
    BY <1>7 DEF PollWrite, Return, End, AfterPoll
  <2>2. inv[d].drain \in Drain
    BY <1>1 DEF Drive
  <2>3. MarkPending(inv[d], IF inv[d].drain = NoDrain THEN "resumed" ELSE inv[d].drain.reason,
                    task[Loop].leave) \in Drive
    <3>1. (IF inv[d].drain = NoDrain THEN "resumed" ELSE inv[d].drain.reason) \in Reason
      BY <2>2 DEF Drain, Reason
    <3>2. task[Loop].leave \in BOOLEAN
      BY <1>1 DEF Task
    <3>3. QED
      BY <1>1, <3>1, <3>2, MarkPendingType
  <2>4. ASSUME inv[d].drain # NoDrain, task[Loop].answer # "none"
        PROVE  [inv[d] EXCEPT !.drain.state = task[Loop].answer] \in Drive
    <3>1. [inv[d].drain EXCEPT !.state = task[Loop].answer] \in Drain
      BY <1>1, <2>2, <2>4 DEF Drain, DrainState, EngineDrain, Task
    <3>2. QED
      BY <1>1, <3>1 DEF Drive
  <2>5. inv' \in [Drives -> Drive] /\ disk' \in [Drives -> Drive]
    BY <1>1, <1>7, <2>3, <2>4, WriteType, PersistType DEF PollWrite, TypeInv
  <2>6. QED
    BY <1>2, <1>7, <2>1, <2>5 DEF PollWrite, loopVars, TypeInv, TypeOK
<1>8. CASE PollSettle
  <2>1. [inv[d] EXCEPT !.activity = "idle"] \in Drive
    BY <1>1 DEF Drive, Activity
  <2>2. inv' \in [Drives -> Drive] /\ disk' \in [Drives -> Drive]
    BY <1>1, <1>8, <2>1, UndrainType, WriteType, PersistType DEF PollSettle, TypeInv
  <2>3. QED
    BY <1>2, <1>8, <2>2 DEF PollSettle, Return, End, loopVars, TypeInv, TypeOK
<1>9. CASE RetireDelete
  <2>1. \E pc \in Pc : Goto(Loop, pc)
    BY <1>9 DEF RetireDelete, Return, End
  <2>2. inv' \in [Drives -> Drive] /\ disk' \in [Drives -> Drive]
    BY <1>9, PersistType DEF RetireDelete, TypeInv
  <2>3. eng' \in [Drives -> Engine]
    <3>1. Closed \in Engine
      BY DEF Closed, Engine, EngineDrain, Word
    <3>2. QED
      BY <1>1, <1>9, <3>1, TellType DEF RetireDelete, TypeInv, TypeOK
  <2>4. budget' \in [Trouble -> Nat]
    BY <1>9, BudgetType DEF RetireDelete, TypeInv, Trouble
  <2>5. QED
    BY <1>2, <1>9, <2>1, <2>2, <2>3, <2>4 DEF RetireDelete, loopVars, TypeInv, TypeOK
<1>10. CASE RetireWrite
  <2>1. [inv[d] EXCEPT !.membership = "out", !.activity = "idle", !.pushed = "none"] \in Drive
    BY <1>1 DEF Drive, Activity, Membership
  <2>2. inv' \in [Drives -> Drive] /\ disk' \in [Drives -> Drive]
    BY <1>1, <1>10, <2>1, WriteType DEF RetireWrite, TypeInv
  <2>3. QED
    BY <1>2, <1>10, <2>2 DEF RetireWrite, Return, End, loopVars, TypeInv, TypeOK
<1>11. QED
  BY <1>3, <1>4, <1>5, <1>6, <1>7, <1>8, <1>9, <1>10

LEMMA LoopType ==
  ASSUME TypeInv, LoopStep
  PROVE  TypeInv'
BY PassType, TickType, DrainType, JoinType DEF LoopStep, Actors

\* The REST requests' own steps.
LEMMA RequestType ==
  ASSUME TypeInv, NEW r \in Reqs, RequestStep(r)
  PROVE  TypeInv'
<1> DEFINE d == task[r].drive
           Pc == {"done", "j_open", "l_delete", "l_slabs", "sd_read", "l_write", "c_write",
                  "m_report", "m_write", "m_save", "start", "run"}
<1>0. Pc \subseteq Pcs \ {"designate", "sd_write"} /\ r \in Actors
  BY DEF Pcs, DrainPcs, JoinPcs, RequestPcs, Actors
<1>1. CASE StartDrain(r) \/ Join(r)
  BY <1>0, <1>1, DrainType, JoinType
<1>2. SUFFICES ASSUME ~(StartDrain(r) \/ Join(r)) PROVE TypeInv'
  BY <1>1
<1>3. d \in Drives /\ task[r] \in Task /\ inv[d] \in Drive /\ eng[d] \in Engine
  BY <1>0, <1>2 DEF RequestStep, JoinCheck, LeaveCheck, LeaveSlabs, LeaveDelete, LeaveWrite,
       CancelCall, CancelWrite, Designate, MarkReport, MarkWrite, MarkSave, OperationCheck,
       OperationStart, OperationEnd, Check, At, TypeInv, TypeOK, TaskOK
<1>4. ASSUME NEW pc \in Pc, Goto(r, pc)
      PROVE  task' \in [Actors -> Task] /\ (\A b \in Actors : TaskOK(b))'
  BY <1>0, <1>3, <1>4, GotoType
<1>5. Closed \in Engine
  BY DEF Closed, Engine, EngineDrain, Word
<1>6. ASSUME NEW s, NEW ok, NEW next \in Pc, Check(r, s, ok, next)
      PROVE  TypeInv'
  <2>1. \E pc \in Pc : Goto(r, pc)
    BY <1>6 DEF Check
  <2>2. QED
    BY <1>4, <1>6, <2>1 DEF Check, loopVars, TypeInv, TypeOK
<1>7. CASE JoinCheck(r) \/ LeaveCheck(r) \/ OperationCheck(r)
  BY <1>6, <1>7 DEF JoinCheck, LeaveCheck, OperationCheck
<1>8. CASE LeaveSlabs(r)
  <2>1. \E pc \in Pc : Goto(r, pc)
    BY <1>8 DEF LeaveSlabs
  <2>2. budget' \in [Trouble -> Nat]
    BY <1>8, BudgetType DEF LeaveSlabs, TypeInv, Trouble
  <2>3. QED
    BY <1>4, <1>8, <2>1, <2>2 DEF LeaveSlabs, loopVars, TypeInv, TypeOK
<1>9. CASE LeaveDelete(r)
  <2>1. \E pc \in Pc : Goto(r, pc)
    BY <1>9 DEF LeaveDelete
  <2>2. budget' \in [Trouble -> Nat]
    BY <1>9, BudgetType DEF LeaveDelete, TypeInv, Trouble
  <2>3. eng' \in [Drives -> Engine]
    BY <1>3, <1>5, <1>9, TellType DEF LeaveDelete, TypeInv, TypeOK
  <2>4. QED
    BY <1>4, <1>9, <2>1, <2>2, <2>3 DEF LeaveDelete, loopVars, TypeInv, TypeOK
<1>10. CASE LeaveWrite(r)
  <2>1. [inv[d] EXCEPT !.membership = "out"] \in Drive
    BY <1>3 DEF Drive, Membership
  <2>2. inv' \in [Drives -> Drive] /\ disk' \in [Drives -> Drive]
    BY <1>3, <1>10, <2>1, WriteType DEF LeaveWrite, TypeInv
  <2>3. QED
    BY <1>4, <1>10, <2>2 DEF LeaveWrite, loopVars, TypeInv, TypeOK
<1>11. CASE CancelCall(r)
  <2>1. \E pc \in Pc : Goto(r, pc)
    BY <1>11 DEF CancelCall
  <2>2. budget' \in [Trouble -> Nat]
    BY <1>11, BudgetType DEF CancelCall, TypeInv, Trouble
  <2>3. eng' \in [Drives -> Engine]
    <3>1. [eng[d] EXCEPT !.drain = "cancelled"] \in Engine
      BY <1>3 DEF Engine, EngineDrain
    <3>2. QED
      BY <1>3, <1>11, <3>1, TellType DEF CancelCall, TypeInv, TypeOK
  <2>4. QED
    BY <1>4, <1>11, <2>1, <2>2, <2>3 DEF CancelCall, loopVars, TypeInv, TypeOK
<1>12. CASE CancelWrite(r)
  <2> DEFINE c == IF inv[d].drain = NoDrain THEN inv[d]
                  ELSE [inv[d] EXCEPT !.drain.state = "cancelled"]
  <2>1. c \in Drive
    <3>1. inv[d].drain \in Drain
      BY <1>3 DEF Drive
    <3>2. CASE inv[d].drain # NoDrain
      <4>1. [inv[d].drain EXCEPT !.state = "cancelled"] \in Drain
        BY <3>1, <3>2 DEF Drain, DrainState
      <4>2. QED
        BY <1>3, <3>2, <4>1 DEF Drive
    <3>3. QED
      BY <1>3, <3>2
  <2>2. Undrain(c) \in Drive
    BY <2>1, UndrainType
  <2>3. inv' \in [Drives -> Drive] /\ disk' \in [Drives -> Drive]
    BY <1>3, <1>12, <2>2, WriteType DEF CancelWrite, TypeInv
  <2>4. QED
    BY <1>4, <1>12, <2>3 DEF CancelWrite, loopVars, TypeInv, TypeOK
<1>13. CASE Designate(r)
  <2>1. \E pc \in Pc : Goto(r, pc)
    BY <1>13 DEF Designate
  <2>2. [inv[d] EXCEPT !.designation = Marked[task[r].kind]] \in Drive
    <3>1. Marked[task[r].kind] \in Designation
      BY <1>0, <1>13 DEF Designate, At, TypeInv, TaskOK, Marked, Designation
    <3>2. QED
      BY <1>3, <3>1 DEF Drive
  <2>3. inv' \in [Drives -> Drive] /\ disk' \in [Drives -> Drive]
    BY <1>3, <1>13, <2>2, WriteType DEF Designate, TypeInv
  <2>4. QED
    BY <1>4, <1>13, <2>1, <2>3 DEF Designate, loopVars, TypeInv, TypeOK
<1>14. CASE MarkReport(r)
  <2>1. \E pc \in Pc : Goto(r, pc)
    BY <1>14 DEF MarkReport, AfterReport
  <2>2. budget' \in [Trouble -> Nat]
    BY <1>14, BudgetType DEF MarkReport, TypeInv, Trouble
  <2>3. eng' \in [Drives -> Engine]
    <3>1. "failed" \in Word
      BY DEF Word
    <3>2. QED
      BY <1>3, <1>14, <3>1, ReportType DEF MarkReport, TypeInv, TypeOK
  <2>4. QED
    BY <1>4, <1>14, <2>1, <2>2, <2>3 DEF MarkReport, loopVars, TypeInv, TypeOK
<1>15. CASE MarkWrite(r)
  <2>1. \E pc \in Pc : Goto(r, pc)
    BY <1>15 DEF MarkWrite, AfterReport
  <2>2. [inv[d] EXCEPT !.pushed = "failed"] \in Drive
    BY <1>3 DEF Drive, Word
  <2>3. inv' \in [Drives -> Drive] /\ disk' \in [Drives -> Drive]
    BY <1>3, <1>15, <2>2, WriteType DEF MarkWrite, TypeInv
  <2>4. QED
    BY <1>4, <1>15, <2>1, <2>3 DEF MarkWrite, loopVars, TypeInv, TypeOK
<1>16. CASE MarkSave(r)
  <2>1. inv' \in [Drives -> Drive] /\ disk' \in [Drives -> Drive]
    BY <1>16, PersistType DEF MarkSave, TypeInv
  <2>2. QED
    BY <1>4, <1>16, <2>1 DEF MarkSave, loopVars, TypeInv, TypeOK
<1>17. CASE OperationStart(r)
  <2>1. [inv[d] EXCEPT !.activity = Doing(task[r].kind)] \in Drive
    BY <1>3 DEF Drive, Activity, Doing
  <2>2. inv' \in [Drives -> Drive] /\ disk' \in [Drives -> Drive]
    BY <1>3, <1>17, <2>1, WriteType DEF OperationStart, TypeInv
  <2>3. QED
    BY <1>4, <1>17, <2>2 DEF OperationStart, loopVars, TypeInv, TypeOK
<1>18. CASE OperationEnd(r)
  <2>1. [inv[d] EXCEPT !.activity = "idle"] \in Drive
    BY <1>3 DEF Drive, Activity
  <2>2. inv' \in [Drives -> Drive] /\ disk' \in [Drives -> Drive]
    BY <1>3, <1>18, <2>1, WriteType DEF OperationEnd, TypeInv
  <2>3. QED
    BY <1>4, <1>18, <2>2 DEF OperationEnd, loopVars, TypeInv, TypeOK
<1>19. QED
  BY <1>2, <1>7, <1>8, <1>9, <1>10, <1>11, <1>12, <1>13, <1>14, <1>15, <1>16, <1>17, <1>18
     DEF RequestStep

\* A request that comes in: FirstOf its kind is where it starts.
LEMMA ArriveType ==
  ASSUME TypeInv, NEW r \in Reqs, Arrive(r)
  PROVE  TypeInv'
<1>1. PICK k \in Kinds, d \in Drives :
        /\ task' = [task EXCEPT ![r] =
                     [NewTask EXCEPT !.pc = FirstOf(k), !.kind = k, !.drive = d,
                                     !.reason = IF k = "leave_drain" THEN "leave" ELSE "operator",
                                     !.leave = WantsOut(k)]]
        /\ asked' = [asked EXCEPT ![d] = @ \/ WantsOut(k)]
  BY DEF Arrive
<1> DEFINE t == [NewTask EXCEPT !.pc = FirstOf(k), !.kind = k, !.drive = d,
                                !.reason = IF k = "leave_drain" THEN "leave" ELSE "operator",
                                !.leave = WantsOut(k)]
<1>2. k \in AllKinds /\ r \in Actors
  BY FleetAssumption DEF Actors
<1>3. /\ FirstOf(k) \in Pcs \ {"sd_write"}
      /\ FirstOf(k) = "designate" => k \in {"mark_failed", "mark_reserved", "mark_none"}
  BY <1>2 DEF FirstOf, AllKinds, Pcs, DrainPcs, RequestPcs
<1>4. t \in Task
  <2>1. NewTask \in Task
    BY DEF NewTask, Task, Pcs, RequestPcs, Word, Reason, EngineDrain
  <2>2. WantsOut(k) \in BOOLEAN /\ (IF k = "leave_drain" THEN "leave" ELSE "operator") \in Reason
    BY DEF WantsOut, Reason
  <2>3. QED
    BY <1>2, <1>3, <2>1, <2>2 DEF Task
<1>5. t.pc = FirstOf(k) /\ t.kind = k /\ t.drive = d
  BY DEF NewTask
<1>6. DOMAIN Marked = {"mark_failed", "mark_reserved", "mark_none"}
  BY DEF Marked
<1>7. task' \in [Actors -> Task]
  BY <1>1, <1>2, <1>4 DEF TypeInv, TypeOK
<1>8. (\A b \in Actors : TaskOK(b))'
  BY <1>1, <1>2, <1>3, <1>5, <1>6 DEF TaskOK, TypeInv, TypeOK
<1>9. asked' \in [Drives -> BOOLEAN]
  BY <1>1 DEF TypeInv, TypeOK
<1>10. QED
  BY <1>7, <1>8, <1>9 DEF Arrive, loopVars, TypeInv, TypeOK

\* The engine, the world, other handlers' saves and a crash.
LEMMA WorldType ==
  ASSUME TypeInv,
         \/ EngineStep \/ EngineRestarts \/ OtherPersist \/ Crash
         \/ \E d \in Drives : EnginePlaces(d) \/ Verdict(d) \/ Pull(d) \/ Push(d)
  PROVE  TypeInv'
<1>1. \A d \in Drives : eng[d] \in Engine /\ inv[d] \in Drive /\ disk[d] \in Drive
  BY DEF TypeInv, TypeOK
<1>2. ASSUME UNCHANGED task
      PROVE  task' \in [Actors -> Task] /\ (\A b \in Actors : TaskOK(b))'
  BY <1>2 DEF TypeInv, TypeOK, TaskOK
<1>3. ASSUME NEW d \in Drives, EngineDrains(d) PROVE TypeInv'
  <2>1. /\ [eng[d] EXCEPT !.drain = "empty", !.used = FALSE] \in Engine
        /\ [eng[d] EXCEPT !.drain = "stuck"] \in Engine
    BY <1>1 DEF Engine, EngineDrain
  <2>2. eng' \in [Drives -> Engine]
    BY <1>3, <2>1, TellType DEF EngineDrains, TypeInv
  <2>3. budget' \in [Trouble -> Nat]
    BY <1>3, BudgetType DEF EngineDrains, TypeInv, Trouble
  <2>4. QED
    BY <1>2, <1>3, <2>2, <2>3 DEF EngineDrains, loopVars, TypeInv, TypeOK
<1>4. ASSUME NEW d \in Drives, EngineRebuilt(d) PROVE TypeInv'
  <2>1. [eng[d] EXCEPT !.rebuild = FALSE, !.owed = FALSE,
                       !.drain = IF eng[d].owed THEN "running" ELSE @] \in Engine
    BY <1>1 DEF Engine, EngineDrain
  <2>2. eng' \in [Drives -> Engine]
    BY <1>4, <2>1, TellType DEF EngineRebuilt, TypeInv
  <2>3. QED
    BY <1>2, <1>4, <2>2 DEF EngineRebuilt, loopVars, TypeInv, TypeOK
<1>5. ASSUME NEW d \in Drives, EnginePlaces(d) PROVE TypeInv'
  <2>1. [eng[d] EXCEPT !.used = TRUE] \in Engine
    BY <1>1 DEF Engine
  <2>2. eng' \in [Drives -> Engine]
    BY <1>5, <2>1, TellType DEF EnginePlaces, TypeInv
  <2>3. QED
    BY <1>2, <1>5, <2>2 DEF EnginePlaces, loopVars, TypeInv, TypeOK
<1>6. CASE EngineRestarts
  <2>1. \A d \in Drives : [eng[d] EXCEPT !.drain = "none", !.rebuild = FALSE] \in Engine
    BY <1>1 DEF Engine, EngineDrain
  <2>2. eng' \in [Drives -> Engine]
    BY <1>6, <2>1 DEF EngineRestarts
  <2>3. budget' \in [Trouble -> Nat]
    BY <1>6, BudgetType DEF EngineRestarts, TypeInv, Trouble
  <2>4. QED
    BY <1>2, <1>6, <2>2, <2>3 DEF EngineRestarts, loopVars, TypeInv, TypeOK
<1>7. ASSUME NEW d \in Drives, Verdict(d) PROVE TypeInv'
  <2>1. PICK h \in Verdicts \ {inv[d].health} :
          /\ inv' = [inv EXCEPT ![d].health = h]
          /\ asked' = [asked EXCEPT ![d] = @ \/ Bad(h)]
    BY <1>7 DEF Verdict
  <2>2. [inv[d] EXCEPT !.health = h] \in Drive
    BY <1>1, FleetAssumption DEF Drive
  <2>3. inv' \in [Drives -> Drive]
    BY <2>1, <2>2 DEF TypeInv, TypeOK
  <2>4. asked' \in [Drives -> BOOLEAN]
    BY <2>1 DEF TypeInv, TypeOK, Bad
  <2>5. budget' \in [Trouble -> Nat]
    BY <1>7, BudgetType DEF Verdict, TypeInv, Trouble
  <2>6. QED
    BY <1>2, <1>7, <2>3, <2>4, <2>5 DEF Verdict, loopVars, TypeInv, TypeOK
<1>8. ASSUME NEW d \in Drives, Pull(d) \/ Push(d) PROVE TypeInv'
  <2>1. budget' \in [Trouble -> Nat]
    BY <1>8, BudgetType DEF Pull, Push, TypeInv, TypeOK, Trouble
  <2>2. present' \in SUBSET Drives
    BY <1>8 DEF Pull, Push, TypeInv, TypeOK
  <2>3. QED
    BY <1>2, <1>8, <2>1, <2>2 DEF Pull, Push, loopVars, TypeInv, TypeOK
<1>9. CASE OtherPersist
  <2>1. inv' \in [Drives -> Drive] /\ disk' \in [Drives -> Drive]
    BY <1>9, PersistType DEF OtherPersist, TypeInv
  <2>2. budget' \in [Trouble -> Nat]
    BY <1>9, BudgetType DEF OtherPersist, TypeInv, Trouble
  <2>3. QED
    BY <1>2, <1>9, <2>1, <2>2 DEF OtherPersist, loopVars, TypeInv, TypeOK
<1>10. CASE Crash
  <2>1. \A d \in Drives : Recovered(disk[d]) \in Drive
    BY <1>1 DEF Recovered, Drive, Activity
  <2>2. inv' \in [Drives -> Drive] /\ disk' \in [Drives -> Drive]
    BY <1>10, <2>1 DEF Crash
  <2>3. task' \in [Actors -> Task]
    <3>1. [NewTask EXCEPT !.pc = "begin"] \in Task
      BY DEF NewTask, Task, Pcs, RequestPcs, Word, Reason, EngineDrain
    <3>2. \A a \in Actors : task[a] \in Task /\ [task[a] EXCEPT !.pc = "done"] \in Task
      BY DEF TypeInv, TypeOK, Task, Pcs, RequestPcs
    <3>3. QED
      BY <1>10, <3>1, <3>2 DEF Crash
  <2>4. (\A b \in Actors : TaskOK(b))'
    <3>1. ASSUME NEW b \in Actors PROVE TaskOK(b)'
      <4>1. task[b] \in Task
        BY DEF TypeInv, TypeOK
      <4>2. CASE b = Loop
        BY <1>10, <4>2 DEF Crash, TaskOK, NewTask
      <4>3. CASE b # Loop /\ (Survives(b) \/ task[b].pc = "new")
        BY <1>10, <4>3 DEF Crash, TaskOK, TypeInv
      <4>4. CASE b # Loop /\ ~(Survives(b) \/ task[b].pc = "new")
        BY <1>10, <4>1, <4>4 DEF Crash, TaskOK, TypeInv, Task
      <4>5. QED
        BY <4>2, <4>3, <4>4
    <3>2. QED
      BY <3>1
  <2>5. budget' \in [Trouble -> Nat]
    BY <1>10, BudgetType DEF Crash, TypeInv, Trouble
  <2>6. QED
    BY <1>10, <2>2, <2>3, <2>4, <2>5 DEF Crash, TypeInv, TypeOK, Phases
<1>11. QED
  BY <1>3, <1>4, <1>5, <1>6, <1>7, <1>8, <1>9, <1>10 DEF EngineStep

\* Every step keeps the types.
LEMMA NextType ==
  ASSUME TypeInv, [Next]_vars
  PROVE  TypeInv'
<1>1. CASE Next
  BY <1>1, LoopType, ArriveType, RequestType, WorldType DEF Next
<1>2. CASE UNCHANGED vars
  BY <1>2 DEF vars, loopVars, TypeInv, TypeOK, TaskOK
<1>3. QED
  BY <1>1, <1>2

\* Types hold in every behaviour: whatever the interleaving, the faults and
\* the crashes, every record, file, task and engine drive is one the code
\* can hold, and every task knows the drive it works on.
THEOREM TypeCorrect == Spec => []TypeInv
<1>1. Init => TypeInv
  BY InitType
<1>2. TypeInv /\ [Next]_vars => TypeInv'
  BY NextType
<1>3. QED
  BY <1>1, <1>2, PTL DEF Spec

----------------------------------------------------------------------------
(* A pending drain holds nothing.                                          *)

\* A record is written that waits as it should, or the file catches up.
LEMMA WriteWaits ==
  ASSUME TypeOK, WaitInv, NEW d \in Drives, NEW r, Waits(r), Write(d, r) \/ Save(d, r)
  PROVE  WaitInv'
<1> USE DEF TypeOK, WaitInv
<1>1. inv' = [inv EXCEPT ![d] = r] /\ (disk' = disk \/ disk' = inv')
  BY DEF Write, Save
<1>2. ASSUME NEW x \in Drives PROVE Waits(inv'[x])
  BY <1>1
<1>3. ASSUME NEW x \in Drives PROVE Waits(disk'[x])
  BY <1>1, <1>2
<1>4. QED
  BY <1>2, <1>3 DEF Waits

LEMMA SameWaits ==
  ASSUME WaitInv, Persist \/ NoWrite \/ UNCHANGED <<inv, disk>>
  PROVE  WaitInv'
BY DEF WaitInv, Waits, Persist, NoWrite

\* Undrain and mark_pending take the drive out of Draining.
LEMMA UndrainWaits ==
  ASSUME NEW r \in Drive
  PROVE  Undrain(r).activity # "draining" /\ Undrain(r).drain = r.drain
BY DEF Undrain, Drive

LEMMA MarkPendingWaits ==
  ASSUME NEW r \in Drive, NEW why, NEW leave
  PROVE  Waits(MarkPending(r, why, leave))
<1> DEFINE rec == IF r.drain.state = "pending" THEN r.drain
                  ELSE [state |-> "pending", reason |-> why, leave |-> leave]
           m == [r EXCEPT !.drain = rec]
<1>1. m.activity = r.activity
  BY DEF Drive
<1>2. Undrain(m).activity # "draining"
  <2>1. "activity" \in DOMAIN m
    BY DEF Drive
  <2>2. QED
    BY <2>1 DEF Undrain
<1>3. QED
  BY <1>2 DEF MarkPending, Waits

\* The drive a task works on, and what is on record of it.
LEMMA Works ==
  ASSUME TypeInv, NEW a \in Actors, task[a].drive \in Drives
  PROVE  inv[task[a].drive] \in Drive /\ task[a] \in Task
BY DEF TypeInv, TypeOK

LEMMA DrainWaits ==
  ASSUME TypeInv, WaitInv, NEW a \in Actors, StartDrain(a)
  PROVE  WaitInv'
<1> DEFINE d == task[a].drive
<1>1. d \in Drives /\ inv[d] \in Drive
  BY Works DEF StartDrain, SdRead, SdStatus, SdPost, SdWrite, SdPend, At, TypeInv, TaskOK
<1>2. CASE SdRead(a) \/ SdStatus(a) \/ SdPost(a)
  BY <1>2, SameWaits DEF SdRead, SdStatus, SdPost
<1>3. CASE SdWrite(a)
  <2> DEFINE rec == [state |-> task[a].answer, reason |-> task[a].reason, leave |-> task[a].leave]
             r == [inv[d] EXCEPT !.drain = rec,
                                  !.activity = IF rec.state = "running" THEN "draining" ELSE @]
  <2>1. task[a].answer \in {"running", "empty"}
    BY <1>3 DEF SdWrite, At, TypeInv, TaskOK
  <2>2. r.drain = rec
    BY <1>1 DEF Drive
  <2>3. Waits(r)
    BY <2>1, <2>2 DEF Waits
  <2>4. QED
    BY <1>1, <1>3, <2>3, WriteWaits DEF SdWrite, TypeInv
<1>4. CASE SdPend(a)
  BY <1>1, <1>4, MarkPendingWaits, WriteWaits, SameWaits DEF SdPend, TypeInv
<1>5. QED
  BY <1>2, <1>3, <1>4 DEF StartDrain

LEMMA JoinWaits ==
  ASSUME TypeInv, WaitInv, NEW a \in Actors, Join(a)
  PROVE  WaitInv'
<1> DEFINE d == task[a].drive
           r == [inv[d] EXCEPT !.membership = "fleet", !.pushed = "none", !.drain = NoDrain]
<1>1. CASE JoinOpen(a) \/ JoinSlab(a)
  BY <1>1, SameWaits DEF JoinOpen, JoinSlab
<1>2. CASE JoinWrite(a)
  <2>1. d \in Drives /\ inv[d] \in Drive
    BY <1>2, Works DEF JoinWrite, At, TypeInv, TaskOK
  <2>2. r.drain = NoDrain
    BY <2>1 DEF Drive
  <2>3. Waits(r)
    BY <2>2 DEF Waits, NoDrain
  <2>4. QED
    BY <1>2, <2>1, <2>3, WriteWaits DEF JoinWrite, TypeInv
<1>3. QED
  BY <1>1, <1>2 DEF Join

LEMMA LoopWaits ==
  ASSUME TypeInv, WaitInv, LoopStep
  PROVE  WaitInv'
<1> DEFINE d == task[Loop].drive
<1>0. Loop \in Actors
  BY DEF Actors
<1>1. CASE StartDrain(Loop) \/ Join(Loop)
  BY <1>0, <1>1, DrainWaits, JoinWaits
<1>2. \A x \in Drives : inv[x] \in Drive /\ Waits(inv[x]) /\ Waits(disk[x])
  BY DEF TypeInv, TypeOK, WaitInv
<1>3. CASE Discover
  <2>1. \A x \in Drives : Waits(Observed(x))
    BY <1>2 DEF Observed, Waits, Drive
  <2>2. QED
    BY <1>2, <1>3, <2>1 DEF Discover, WaitInv, Waits
<1>4. CASE Reconcile
  <2>1. ASSUME NEW x \in Drives, NEW m PROVE Waits([inv[x] EXCEPT !.membership = m])
    BY <1>2 DEF Waits, Drive
  <2>2. \A x \in Drives : Waits(inv'[x]) /\ disk'[x] = inv'[x]
    BY <1>4, <2>1 DEF Reconcile
  <2>3. QED
    BY <2>2 DEF WaitInv, Waits
<1>5. CASE ListDrives \/ TakeSnapshot \/ TakeJob \/ EndPhase \/ PushSend \/ PollStatus
           \/ RetireDelete
  BY <1>5, SameWaits DEF ListDrives, TakeSnapshot, TakeJob, EndPhase, PushSend, PollStatus,
                         RetireDelete
<1>6. CASE PushWrite \/ DropPendingDrain \/ PollWrite \/ PollSettle \/ RetireWrite
  <2>1. d \in Drives /\ task[Loop] \in Task /\ inv[d] \in Drive
    BY <1>0, <1>6, Works DEF PushWrite, DropPendingDrain, PollWrite, PollSettle, RetireWrite, At,
                             TypeInv, TaskOK
  <2>2. Waits(inv[d])
    BY <1>2, <2>1
  <2>3. ASSUME NEW w PROVE Waits([inv[d] EXCEPT !.pushed = w])
    BY <2>1, <2>2 DEF Waits, Drive
  <2>4. Waits([inv[d] EXCEPT !.drain = NoDrain])
    BY <2>1 DEF Waits, Drive, NoDrain
  <2>5. Waits([inv[d] EXCEPT !.drain.state = task[Loop].answer])
    <3>1. task[Loop].answer # "pending"
      BY <2>1 DEF Task, EngineDrain
    <3>2. "state" \in DOMAIN inv[d].drain
      BY <2>1 DEF Drive, Drain, NoDrain
    <3>3. [inv[d] EXCEPT !.drain.state = task[Loop].answer].drain.state = task[Loop].answer
      BY <2>1, <3>2 DEF Drive
    <3>4. QED
      BY <3>1, <3>3 DEF Waits
  <2>6. Waits([inv[d] EXCEPT !.activity = "idle"])
    BY <2>1 DEF Waits, Drive
  <2>7. Waits(Undrain(inv[d]))
    BY <2>1, UndrainWaits DEF Waits
  <2>8. Waits([inv[d] EXCEPT !.membership = "out", !.activity = "idle", !.pushed = "none"])
    BY <2>1 DEF Waits, Drive
  <2>9. QED
    BY <1>6, <2>1, <2>3, <2>4, <2>5, <2>6, <2>7, <2>8, WriteWaits, SameWaits, MarkPendingWaits
       DEF PushWrite, DropPendingDrain, PollWrite, PollSettle, RetireWrite, TypeInv
<1>7. QED
  BY <1>1, <1>3, <1>4, <1>5, <1>6 DEF LoopStep

LEMMA RequestWaits ==
  ASSUME TypeInv, WaitInv, NEW r \in Reqs, RequestStep(r)
  PROVE  WaitInv'
<1> DEFINE d == task[r].drive
<1>0. r \in Actors
  BY DEF Actors
<1>1. CASE StartDrain(r) \/ Join(r)
  BY <1>0, <1>1, DrainWaits, JoinWaits
<1>2. CASE \/ JoinCheck(r) \/ LeaveCheck(r) \/ LeaveSlabs(r) \/ LeaveDelete(r) \/ CancelCall(r)
           \/ MarkReport(r) \/ MarkSave(r) \/ OperationCheck(r)
  BY <1>2, SameWaits DEF JoinCheck, LeaveCheck, LeaveSlabs, LeaveDelete, CancelCall, MarkReport,
                         MarkSave, OperationCheck, Check
<1>3. CASE \/ LeaveWrite(r) \/ CancelWrite(r) \/ Designate(r) \/ MarkWrite(r)
           \/ OperationStart(r) \/ OperationEnd(r)
  <2>1. d \in Drives /\ inv[d] \in Drive
    BY <1>0, <1>3, Works DEF LeaveWrite, CancelWrite, Designate, MarkWrite, OperationStart,
                             OperationEnd, At, TypeInv, TaskOK
  <2>2. Waits(inv[d])
    BY <2>1 DEF WaitInv
  <2>3. ASSUME NEW m PROVE /\ Waits([inv[d] EXCEPT !.membership = m])
                           /\ Waits([inv[d] EXCEPT !.designation = m])
                           /\ Waits([inv[d] EXCEPT !.pushed = m])
    BY <2>1, <2>2 DEF Waits, Drive
  <2>4. ASSUME NEW m, m # "draining" PROVE Waits([inv[d] EXCEPT !.activity = m])
    BY <2>1, <2>4 DEF Waits, Drive
  <2>5. Doing(task[r].kind) # "draining"
    BY DEF Doing
  <2>6. ASSUME NEW c, c = (IF inv[d].drain = NoDrain THEN inv[d]
                           ELSE [inv[d] EXCEPT !.drain.state = "cancelled"])
        PROVE  Waits(Undrain(c))
    <3>1. "activity" \in DOMAIN c
      BY <2>1, <2>6 DEF Drive
    <3>2. QED
      BY <3>1 DEF Undrain, Waits
  <2>7. QED
    BY <1>3, <2>1, <2>2, <2>3, <2>4, <2>5, <2>6, WriteWaits
       DEF LeaveWrite, CancelWrite, Designate, MarkWrite, OperationStart, OperationEnd, TypeInv
<1>4. QED
  BY <1>1, <1>2, <1>3 DEF RequestStep

LEMMA WorldWaits ==
  ASSUME TypeInv, WaitInv,
         \/ EngineStep \/ EngineRestarts \/ OtherPersist \/ Crash
         \/ \E r \in Reqs : Arrive(r)
         \/ \E d \in Drives : EnginePlaces(d) \/ Verdict(d) \/ Pull(d) \/ Push(d)
  PROVE  WaitInv'
<1>1. \A x \in Drives : inv[x] \in Drive /\ disk[x] \in Drive /\ Waits(inv[x]) /\ Waits(disk[x])
  BY DEF TypeInv, TypeOK, WaitInv
<1>2. ASSUME NEW d \in Drives, Verdict(d) PROVE WaitInv'
  <2>1. PICK h : inv' = [inv EXCEPT ![d].health = h]
    BY <1>2 DEF Verdict
  <2>2. Waits([inv[d] EXCEPT !.health = h])
    BY <1>1 DEF Waits, Drive
  <2>3. ASSUME NEW x \in Drives PROVE Waits(inv'[x])
    BY <1>1, <2>1, <2>2 DEF TypeInv, TypeOK
  <2>4. QED
    BY <1>1, <1>2, <2>3 DEF Verdict, WaitInv, Waits
<1>3. CASE Crash
  <2>1. \A x \in Drives : Waits(Recovered(disk[x]))
    BY <1>1 DEF Recovered, Waits, Drive
  <2>2. QED
    BY <1>3, <2>1 DEF Crash, WaitInv, Waits
<1>4. CASE \/ EngineStep \/ EngineRestarts \/ OtherPersist \/ (\E r \in Reqs : Arrive(r))
           \/ \E d \in Drives : EnginePlaces(d) \/ Pull(d) \/ Push(d)
  BY <1>4, SameWaits DEF EngineStep, EngineDrains, EngineRebuilt, EngineRestarts, OtherPersist,
                         Arrive, EnginePlaces, Pull, Push
<1>5. QED
  BY <1>2, <1>3, <1>4

LEMMA NextWaits ==
  ASSUME TypeInv, WaitInv, [Next]_vars
  PROVE  WaitInv'
<1>1. CASE Next
  BY <1>1, LoopWaits, RequestWaits, WorldWaits DEF Next
<1>2. CASE UNCHANGED vars
  BY <1>2, SameWaits DEF vars
<1>3. QED
  BY <1>1, <1>2

\* mark_pending, start_drain and poll_drains write the drain and the
\* activity of a drive in different steps, of different tasks; whichever
\* came last, in memory or read back from the file after a crash, a drive
\* whose drain is pending is not held as Draining.
THEOREM PendingHoldsNothing == Spec => []PendingIsNotDraining
<1>1. Init => WaitInv
  BY DEF Init, WaitInv, Waits, NewDrive, EnrolledDrive, NoDrain
<1>2. TypeInv /\ WaitInv /\ [Next]_vars => WaitInv'
  BY NextWaits
<1>3. WaitInv => PendingIsNotDraining
  BY DEF WaitInv, Waits, PendingIsNotDraining
<1>4. QED
  BY <1>1, <1>2, <1>3, TypeCorrect, PTL DEF Spec

----------------------------------------------------------------------------
(* Only drives somebody wanted out retire.                                 *)

\* A record is written that says no more than was asked, or the file
\* catches up with memory.
LEMMA WriteAsked ==
  ASSUME TypeOK, RecordsAsked, NEW d \in Drives, NEW r, WantedOut(r) => asked[d],
         Write(d, r) \/ Save(d, r), UNCHANGED asked
  PROVE  RecordsAsked'
<1>1. inv' = [inv EXCEPT ![d] = r] /\ (disk' = disk \/ disk' = inv')
  BY DEF Write, Save
<1>2. ASSUME NEW x \in Drives, WantedOut(inv'[x]) PROVE asked[x]
  BY <1>1, <1>2 DEF TypeOK, RecordsAsked
<1>3. ASSUME NEW x \in Drives, WantedOut(disk'[x]) PROVE asked[x]
  BY <1>1, <1>2, <1>3 DEF TypeOK, RecordsAsked
<1>4. QED
  BY <1>2, <1>3 DEF RecordsAsked, WantedOut

LEMMA SameAsked ==
  ASSUME RecordsAsked, Persist \/ NoWrite \/ UNCHANGED <<inv, disk>>, UNCHANGED asked
  PROVE  RecordsAsked'
BY DEF RecordsAsked, WantedOut, Persist, NoWrite

\* mark_pending keeps the retirement of a drain that is pending already and
\* takes the caller's otherwise.
LEMMA MarkPendingAsked ==
  ASSUME NEW r \in Drive, NEW why, NEW leave, WantedOut(MarkPending(r, why, leave))
  PROVE  WantedOut(r) \/ leave
<1> DEFINE rec == IF r.drain.state = "pending" THEN r.drain
                  ELSE [state |-> "pending", reason |-> why, leave |-> leave]
           m == [r EXCEPT !.drain = rec]
           u == Undrain(m)
<1>1. m.drain = rec /\ m.health = r.health /\ m.designation = r.designation
  BY DEF Drive
<1>2. u.drain = m.drain /\ u.health = m.health /\ u.designation = m.designation
  BY DEF Undrain, Drive
<1>3. WantedOut(u)
  BY DEF MarkPending
<1>4. u.drain.leave => r.drain.leave \/ leave
  BY <1>1, <1>2
<1>5. QED
  BY <1>1, <1>2, <1>3, <1>4 DEF WantedOut

\* A task moves on with the locals it had: what was asked of a request stays
\* asked, and the loop stays within its steps or goes on to the next drive.
LEMMA MovesAsked ==
  ASSUME TypeInv, AskedInv, NEW a \in Actors, NEW pc,
         Goto(a, pc) \/ (\E x : GotoWith(a, pc, x)),
         task[a].pc # "new",
         UNCHANGED <<asked, todo, phase>>,
         a = Loop => \/ pc = "next" \/ pc \in JoinPcs
                     \/ pc \in PushPcs /\ task[a].pc \in PushPcs
                     \/ /\ pc \in DrainPcs \cup PollPcs
                        /\ task[a].leave => asked[task[a].drive]
                        /\ pc \in {"retire", "retire_write"} => task[a].leave
  PROVE  JobsAsked' /\ LoopAsked' /\ (\A r \in Reqs : RequestAsked(r))'
<1> USE DEF TypeInv, TypeOK
<1>1. JobsAsked'
  BY DEF AskedInv, JobsAsked, Bad
<1>2. /\ \A b \in Actors : b # a => task'[b] = task[b]
      /\ task'[a].pc = pc /\ task'[a].leave = task[a].leave /\ task'[a].word = task[a].word
      /\ task'[a].kind = task[a].kind /\ task'[a].drive = task[a].drive
  BY DEF Goto, GotoWith, Task
<1>3. LoopAsked'
  <2>1. CASE a = Loop
    BY <1>2, <2>1 DEF AskedInv, LoopAsked, PushPcs, DrainPcs, PollPcs, JoinPcs, Bad
  <2>2. CASE a # Loop
    BY <1>2, <2>2 DEF Actors, AskedInv, LoopAsked
  <2>3. QED
    BY <2>1, <2>2
<1>4. ASSUME NEW r \in Reqs PROVE RequestAsked(r)'
  BY <1>2 DEF Actors, AskedInv, RequestAsked
<1>5. QED
  BY <1>1, <1>3, <1>4

\* A drain is asked for by whoever starts it: the loop's drains and the
\* requests' alike.
LEMMA DrainAsked ==
  ASSUME TypeInv, AskedInv, NEW a \in Actors, StartDrain(a)
  PROVE  AskedInv'
<1> DEFINE d == task[a].drive
<1>1. d \in Drives /\ inv[d] \in Drive /\ task[a].pc \in DrainPcs
  BY Works DEF StartDrain, SdRead, SdStatus, SdPost, SdWrite, SdPend, At, TypeInv, TaskOK, DrainPcs
<1>2. task[a].leave => asked[d]
  BY <1>1 DEF AskedInv, LoopAsked, RequestAsked, Actors, DrainPcs
<1>3. PICK pc \in {"sd_status", "sd_post", "sd_write", "sd_pend", "next", "done", "m_save"} :
        /\ Goto(a, pc) \/ (\E x : GotoWith(a, pc, x))
        /\ a = Loop => pc \notin {"done", "m_save"}
  <2>1. CASE \E pc \in {"sd_status", "sd_post", "sd_pend"} : Goto(a, pc)
    BY <2>1
  <2>2. CASE \E x : GotoWith(a, "sd_write", x)
    BY <2>2
  <2>3. CASE Return(a)
    BY <2>3 DEF Return, End
  <2>4. QED
    BY <2>1, <2>2, <2>3
       DEF StartDrain, SdRead, SdStatus, SdPost, SdWrite, SdPend, Refused
<1>4. JobsAsked' /\ LoopAsked' /\ (\A r \in Reqs : RequestAsked(r))'
  <2>1. UNCHANGED <<asked, todo, phase>>
    BY DEF StartDrain, SdRead, SdStatus, SdPost, SdWrite, SdPend, loopVars
  <2>2. QED
    BY <1>1, <1>2, <1>3, <2>1, MovesAsked DEF DrainPcs, PollPcs
<1>5. RecordsAsked'
  <2>1. WantedOut(inv[d]) => asked[d]
    BY <1>1 DEF AskedInv, RecordsAsked
  <2>2. CASE SdRead(a) \/ SdStatus(a) \/ SdPost(a)
    BY <2>2, SameAsked DEF SdRead, SdStatus, SdPost, AskedInv
  <2>3. CASE SdWrite(a)
    <3> DEFINE rec == [state |-> task[a].answer, reason |-> task[a].reason,
                       leave |-> task[a].leave]
               r == [inv[d] EXCEPT !.drain = rec,
                                  !.activity = IF rec.state = "running" THEN "draining" ELSE @]
    <3>1. r.drain.leave = task[a].leave /\ r.health = inv[d].health
          /\ r.designation = inv[d].designation
      BY <1>1 DEF Drive
    <3>2. WantedOut(r) => asked[d]
      BY <1>2, <2>1, <3>1 DEF WantedOut
    <3>3. QED
      BY <1>1, <2>3, <3>2, WriteAsked DEF SdWrite, AskedInv, TypeInv
  <2>4. CASE SdPend(a)
    <3>1. WantedOut(MarkPending(inv[d], task[a].reason, task[a].leave)) => asked[d]
      BY <1>1, <1>2, <2>1, MarkPendingAsked
    <3>2. CASE inv[d].membership = "fleet"
      BY <1>1, <2>4, <3>1, <3>2, WriteAsked DEF SdPend, AskedInv, TypeInv
    <3>3. CASE inv[d].membership # "fleet"
      BY <2>4, <3>3, SameAsked DEF SdPend, AskedInv
    <3>4. QED
      BY <3>2, <3>3
  <2>5. QED
    BY <2>2, <2>3, <2>4 DEF StartDrain
<1>6. QED
  BY <1>4, <1>5 DEF AskedInv

\* A join wants nothing out; its write forgets the drain on record.
LEMMA JoinAsked ==
  ASSUME TypeInv, AskedInv, NEW a \in Actors, Join(a)
  PROVE  AskedInv'
<1> DEFINE d == task[a].drive
           r == [inv[d] EXCEPT !.membership = "fleet", !.pushed = "none", !.drain = NoDrain]
<1>1. d \in Drives /\ inv[d] \in Drive /\ task[a].pc \in JoinPcs
  BY Works DEF Join, JoinOpen, JoinSlab, JoinWrite, At, TypeInv, TaskOK, JoinPcs
<1>2. PICK pc \in {"j_slab", "j_write", "next", "done", "m_save"} :
        Goto(a, pc) /\ (a = Loop => pc \notin {"done", "m_save"})
  <2>1. CASE \E pc \in {"j_slab", "j_write"} : Goto(a, pc)
    BY <2>1
  <2>2. CASE Return(a)
    BY <2>2 DEF Return, End
  <2>3. QED
    BY <2>1, <2>2 DEF Join, JoinOpen, JoinSlab, JoinWrite
<1>3. JobsAsked' /\ LoopAsked' /\ (\A q \in Reqs : RequestAsked(q))'
  <2>1. UNCHANGED <<asked, todo, phase>>
    BY DEF Join, JoinOpen, JoinSlab, JoinWrite, loopVars
  <2>2. QED
    BY <1>1, <1>2, <2>1, MovesAsked DEF JoinPcs
<1>4. RecordsAsked'
  <2>1. CASE JoinOpen(a) \/ JoinSlab(a)
    BY <2>1, SameAsked DEF JoinOpen, JoinSlab, AskedInv
  <2>2. CASE JoinWrite(a)
    <3>1. r.drain = NoDrain /\ r.health = inv[d].health /\ r.designation = inv[d].designation
      BY <1>1 DEF Drive
    <3>2. WantedOut(r) => asked[d]
      BY <1>1, <3>1 DEF WantedOut, NoDrain, AskedInv, RecordsAsked
    <3>3. QED
      BY <1>1, <2>2, <3>2, WriteAsked DEF JoinWrite, AskedInv, TypeInv
  <2>3. QED
    BY <2>1, <2>2 DEF Join
<1>5. QED
  BY <1>3, <1>4 DEF AskedInv

\* The loop's snapshots: a health word that is bad, or a drain record that
\* retires, was asked for; what is taken from the snapshot carries it.
LEMMA PassAsked ==
  ASSUME TypeInv, AskedInv,
         Discover \/ ListDrives \/ Reconcile \/ TakeSnapshot \/ TakeJob \/ EndPhase
  PROVE  AskedInv'
<1> USE DEF TypeInv, TypeOK
<1>0. Loop \in Actors /\ Loop \notin Reqs /\ Reqs \subseteq Actors
  BY FleetAssumption DEF Actors
<1>1. ASSUME NEW p, NEW pc \in {"begin", "next"}, Enter(p, pc), UNCHANGED asked
      PROVE  JobsAsked' /\ LoopAsked' /\ (\A q \in Reqs : RequestAsked(q))'
  <2>1. JobsAsked'
    BY <1>1 DEF Enter, JobsAsked
  <2>2. task'[Loop].pc = pc
    BY <1>0, <1>1 DEF Enter, Goto, Task
  <2>3. LoopAsked'
    BY <2>2 DEF LoopAsked, PushPcs, DrainPcs, PollPcs
  <2>4. \A q \in Reqs : task'[q] = task[q]
    BY <1>0, <1>1 DEF Enter, Goto
  <2>5. QED
    BY <1>1, <2>1, <2>3, <2>4 DEF AskedInv, RequestAsked
<1>2. CASE Discover
  <2>1. ASSUME NEW x \in Drives PROVE WantedOut(Observed(x)) => WantedOut(inv[x])
    <3>1. inv[x] \in Drive
      OBVIOUS
    <3>2. ASSUME NEW m PROVE WantedOut([inv[x] EXCEPT !.activity = m]) => WantedOut(inv[x])
      BY <3>1 DEF WantedOut, Drive
    <3>3. QED
      BY <3>2 DEF Observed
  <2>2. RecordsAsked'
    BY <1>2, <2>1 DEF Discover, AskedInv, RecordsAsked, WantedOut
  <2>3. QED
    BY <1>1, <1>2, <2>2 DEF Discover, AskedInv
<1>3. CASE ListDrives
  <2>1. RecordsAsked'
    BY <1>3, SameAsked DEF ListDrives, AskedInv
  <2>2. QED
    BY <1>1, <1>3, <2>1 DEF ListDrives, AskedInv
<1>4. CASE Reconcile
  <2>1. ASSUME NEW x \in Drives, NEW m
        PROVE  WantedOut([inv[x] EXCEPT !.membership = m]) => WantedOut(inv[x])
    <3>1. inv[x] \in Drive
      OBVIOUS
    <3>2. QED
      BY <3>1 DEF WantedOut, Drive
  <2>2. \A x \in Drives : /\ WantedOut(inv'[x]) => WantedOut(inv[x])
                          /\ disk'[x] = inv'[x]
    BY <1>4, <2>1 DEF Reconcile
  <2>3. RecordsAsked'
    BY <1>4, <2>2 DEF Reconcile, AskedInv, RecordsAsked, WantedOut
  <2>4. QED
    BY <1>1, <1>4, <2>3 DEF Reconcile, AskedInv
<1>5. CASE EndPhase
  <2>1. RecordsAsked'
    BY <1>5, SameAsked DEF EndPhase, AskedInv
  <2>2. QED
    BY <1>1, <1>5, <2>1 DEF EndPhase, AskedInv
<1>6. CASE TakeSnapshot
  <2>1. RecordsAsked' /\ LoopAsked' /\ (\A q \in Reqs : RequestAsked(q))'
    <3>1. task'[Loop].pc = "next" /\ \A q \in Reqs : task'[q] = task[q]
      BY <1>0, <1>6 DEF TakeSnapshot, Goto, Task
    <3>2. LoopAsked'
      BY <3>1 DEF LoopAsked, PushPcs, DrainPcs, PollPcs
    <3>3. RecordsAsked'
      BY <1>6, SameAsked DEF TakeSnapshot, AskedInv
    <3>4. QED
      BY <1>6, <3>1, <3>2, <3>3 DEF TakeSnapshot, AskedInv, RequestAsked
  <2>2. ASSUME NEW j \in todo', j.leave, phase = "health" => Bad(j.word)
        PROVE  asked[j.drive]
    <3>1. CASE phase = "health"
      <4>1. j \in PushJobs
        BY <1>6, <3>1 DEF TakeSnapshot, Snapshots
      <4>2. PICK x \in Drives :
              j = [drive |-> x, word |-> HealthWord(inv[x]), reason |-> "health", leave |-> TRUE]
        BY <4>1, Zenon DEF PushJobs
      <4>3. WantedOut(inv[x])
        BY <2>2, <3>1, <4>2 DEF HealthWord, Bad, WantedOut
      <4>4. QED
        BY <4>2, <4>3 DEF AskedInv, RecordsAsked
    <3>2. CASE phase \in {"poll", "retry"}
      <4>1. j \in PollJobs \cup RetryJobs
        BY <1>6, <3>2 DEF TakeSnapshot, Snapshots
      <4>2. PICK x \in Drives :
              j = [drive |-> x, word |-> "healthy", reason |-> inv[x].drain.reason,
                   leave |-> inv[x].drain.leave]
        BY <4>1, Zenon DEF PollJobs, RetryJobs
      <4>3. QED
        BY <2>2, <4>2 DEF AskedInv, RecordsAsked, WantedOut
    <3>3. CASE phase = "add"
      <4>1. j \in AddJobs
        BY <1>6, <3>3 DEF TakeSnapshot, Snapshots
      <4>2. PICK x \in Drives :
              j = [drive |-> x, word |-> "healthy", reason |-> "operator", leave |-> FALSE]
        BY <4>1, Zenon DEF AddJobs
      <4>3. QED
        BY <2>2, <4>2
    <3>4. QED
      BY <1>6, <3>1, <3>2, <3>3 DEF TakeSnapshot, TickPhases
  <2>3. JobsAsked'
    BY <1>6, <2>2 DEF TakeSnapshot, JobsAsked, Bad
  <2>4. QED
    BY <2>1, <2>3 DEF AskedInv
<1>7. CASE TakeJob
  <2>1. PICK j \in todo :
          /\ todo' = todo \ {j}
          /\ task' = [task EXCEPT ![Loop] =
                        [@ EXCEPT !.pc = FirstStep[phase], !.drive = j.drive, !.word = j.word,
                                  !.reason = j.reason, !.leave = j.leave, !.answer = "none"]]
    BY <1>7 DEF TakeJob
  <2>2. /\ task'[Loop].pc = FirstStep[phase] /\ task'[Loop].leave = j.leave
        /\ task'[Loop].word = j.word /\ task'[Loop].drive = j.drive
        /\ \A q \in Reqs : task'[q] = task[q]
    BY <1>0, <2>1 DEF Task
  <2>3. UNCHANGED <<inv, disk, asked, phase>> /\ phase \in TickPhases
    BY <1>7 DEF TakeJob
  <2>4. j.leave /\ (phase = "health" => Bad(j.word)) => asked[j.drive]
    BY DEF AskedInv, JobsAsked
  <2>5. LoopAsked'
    BY <2>2, <2>3, <2>4, FirstStepIs DEF LoopAsked, TickPhases, PushPcs, DrainPcs, PollPcs, Bad
  <2>6. JobsAsked'
    BY <2>1, <2>3 DEF AskedInv, JobsAsked, Bad
  <2>7. (\A q \in Reqs : RequestAsked(q))'
    BY <2>2, <2>3 DEF AskedInv, RequestAsked
  <2>8. QED
    BY <2>3, <2>5, <2>6, <2>7, SameAsked DEF AskedInv
<1>8. QED
  BY <1>2, <1>3, <1>4, <1>5, <1>6, <1>7

\* A bad word that is pushed leads to a drain that retires; an empty drain
\* leads to a retirement only when the record said so.
LEMMA TickAsked ==
  ASSUME TypeInv, AskedInv,
         \/ PushSend \/ PushWrite \/ DropPendingDrain
         \/ PollStatus \/ PollWrite \/ PollSettle \/ RetireDelete \/ RetireWrite
  PROVE  AskedInv'
<1> DEFINE d == task[Loop].drive  t == task[Loop]
<1>0. Loop \in Actors
  BY DEF Actors
<1>1. d \in Drives /\ inv[d] \in Drive /\ t.pc \in PushPcs \cup PollPcs
  BY <1>0, Works DEF PushSend, PushWrite, DropPendingDrain, PollStatus, PollWrite, PollSettle,
        RetireDelete, RetireWrite, At, TypeInv, TaskOK, PushPcs, PollPcs
<1>2. UNCHANGED <<asked, todo, phase>>
  BY DEF PushSend, PushWrite, DropPendingDrain, PollStatus, PollWrite, PollSettle, RetireDelete,
         RetireWrite, loopVars
<1>3. WantedOut(inv[d]) => asked[d]
  BY <1>1 DEF AskedInv, RecordsAsked
<1>4. t.pc # "new"
  BY <1>1 DEF PushPcs, PollPcs
<1>5. ASSUME Goto(Loop, "next")
      PROVE  JobsAsked' /\ LoopAsked' /\ (\A r \in Reqs : RequestAsked(r))'
  BY <1>0, <1>2, <1>4, <1>5, MovesAsked
<1>6. CASE PushSend
  <2>1. Goto(Loop, "next") \/ Goto(Loop, "push_write")
    BY <1>6 DEF PushSend, Return, End
  <2>2. t.pc \in PushPcs /\ "push_write" \in PushPcs
    BY <1>6 DEF PushSend, At, PushPcs
  <2>3. JobsAsked' /\ LoopAsked' /\ (\A r \in Reqs : RequestAsked(r))'
    BY <1>0, <1>2, <1>4, <1>5, <2>1, <2>2, MovesAsked
  <2>4. QED
    BY <1>6, <2>3, SameAsked DEF PushSend, AskedInv
<1>7. CASE PushWrite
  <2>1. t.pc \in PushPcs /\ "drop" \in PushPcs /\ "sd_read" \in DrainPcs
    BY <1>7 DEF PushWrite, At, PushPcs, DrainPcs
  <2>2. Bad(t.word) /\ t.leave => asked[d]
    BY <2>1 DEF AskedInv, LoopAsked
  <2>3. \/ Goto(Loop, "next") \/ Goto(Loop, "drop")
        \/ Bad(t.word) /\ Goto(Loop, "sd_read")
    BY <1>7 DEF PushWrite, Return, End
  <2>4. JobsAsked' /\ LoopAsked' /\ (\A r \in Reqs : RequestAsked(r))'
    BY <1>0, <1>2, <1>4, <1>5, <2>1, <2>2, <2>3, MovesAsked
  <2>5. WantedOut([inv[d] EXCEPT !.pushed = t.word]) => asked[d]
    BY <1>1, <1>3 DEF WantedOut, Drive
  <2>6. RecordsAsked'
    BY <1>1, <1>2, <1>7, <2>5, WriteAsked DEF PushWrite, AskedInv, TypeInv
  <2>7. QED
    BY <2>4, <2>6 DEF AskedInv
<1>8. CASE DropPendingDrain
  <2>1. WantedOut([inv[d] EXCEPT !.drain = NoDrain]) => asked[d]
    BY <1>1, <1>3 DEF WantedOut, Drive, NoDrain
  <2>2. RecordsAsked'
    BY <1>1, <1>2, <1>8, <2>1, WriteAsked, SameAsked DEF DropPendingDrain, AskedInv, TypeInv
  <2>3. QED
    BY <1>5, <1>8, <2>2 DEF DropPendingDrain, Return, End, AskedInv
<1>9. CASE PollStatus
  <2>1. Goto(Loop, "next") \/ (\E x : GotoWith(Loop, "poll_write", x))
    BY <1>9 DEF PollStatus, Return, End
  <2>2. t.pc \in PollPcs /\ "poll_write" \in PollPcs
    BY <1>9 DEF PollStatus, At, PollPcs
  <2>3. t.leave => asked[d]
    BY <2>2 DEF AskedInv, LoopAsked
  <2>4. JobsAsked' /\ LoopAsked' /\ (\A r \in Reqs : RequestAsked(r))'
    BY <1>0, <1>2, <1>4, <1>5, <2>1, <2>2, <2>3, MovesAsked
  <2>5. QED
    BY <1>9, <2>4, SameAsked DEF PollStatus, AskedInv
<1>10. CASE PollWrite
  <2>1. t.pc \in PollPcs
    BY <1>10 DEF PollWrite, At, PollPcs
  <2>2. t.leave => asked[d]
    BY <2>1 DEF AskedInv, LoopAsked
  <2>3. \/ Goto(Loop, "next")
        \/ Goto(Loop, "retire") /\ t.leave
        \/ \E pc \in {"poll_idle", "poll_stuck", "poll_undrain"} : Goto(Loop, pc)
    BY <1>10 DEF PollWrite, AfterPoll, Return, End
  <2>4. {"retire", "poll_idle", "poll_stuck", "poll_undrain"} \subseteq PollPcs
    BY DEF PollPcs
  <2>5. JobsAsked' /\ LoopAsked' /\ (\A r \in Reqs : RequestAsked(r))'
    BY <1>0, <1>2, <1>4, <1>5, <2>2, <2>3, <2>4, MovesAsked
  <2>6. WantedOut([inv[d] EXCEPT !.drain.state = t.answer]) => asked[d]
    <3>1. inv[d].drain \in Drain
      BY <1>1 DEF Drive
    <3>2. [inv[d].drain EXCEPT !.state = t.answer].leave = inv[d].drain.leave
      BY <3>1 DEF Drain, NoDrain
    <3>3. QED
      BY <1>1, <1>3, <3>2 DEF WantedOut, Drive
  <2>7. ASSUME NEW why, WantedOut(MarkPending(inv[d], why, t.leave)) PROVE asked[d]
    BY <1>1, <1>3, <2>2, <2>7, MarkPendingAsked
  <2>8. RecordsAsked'
    BY <1>1, <1>2, <1>10, <2>6, <2>7, WriteAsked, SameAsked DEF PollWrite, AskedInv, TypeInv
  <2>9. QED
    BY <2>5, <2>8 DEF AskedInv
<1>11. CASE PollSettle
  <2>1. /\ WantedOut([inv[d] EXCEPT !.activity = "idle"]) => asked[d]
        /\ WantedOut(Undrain(inv[d])) => asked[d]
    BY <1>1, <1>3 DEF WantedOut, Undrain, Drive
  <2>2. RecordsAsked'
    BY <1>1, <1>2, <1>11, <2>1, WriteAsked, SameAsked DEF PollSettle, AskedInv, TypeInv
  <2>3. QED
    BY <1>5, <1>11, <2>2 DEF PollSettle, Return, End, AskedInv
<1>12. CASE RetireDelete
  <2>1. Goto(Loop, "next") \/ Goto(Loop, "retire_write")
    BY <1>12 DEF RetireDelete, Return, End
  <2>2. t.pc = "retire" /\ "retire" \in PollPcs /\ "retire_write" \in PollPcs
    BY <1>12 DEF RetireDelete, At, PollPcs
  <2>3. t.leave /\ asked[d]
    BY <2>2 DEF AskedInv, LoopAsked
  <2>4. JobsAsked' /\ LoopAsked' /\ (\A r \in Reqs : RequestAsked(r))'
    BY <1>0, <1>2, <1>4, <1>5, <2>1, <2>2, <2>3, MovesAsked
  <2>5. RecordsAsked'
    BY <1>2, <1>12, SameAsked DEF RetireDelete, AskedInv
  <2>6. QED
    BY <2>4, <2>5 DEF AskedInv
<1>13. CASE RetireWrite
  <2>1. WantedOut([inv[d] EXCEPT !.membership = "out", !.activity = "idle", !.pushed = "none"])
          => asked[d]
    BY <1>1, <1>3 DEF WantedOut, Drive
  <2>2. RecordsAsked'
    BY <1>1, <1>2, <1>13, <2>1, WriteAsked DEF RetireWrite, AskedInv, TypeInv
  <2>3. QED
    BY <1>5, <1>13, <2>2 DEF RetireWrite, Return, End, AskedInv
<1>14. QED
  BY <1>6, <1>7, <1>8, <1>9, <1>10, <1>11, <1>12, <1>13

\* The requests: only a Failed designation, and the drains they ask for,
\* want a drive out.
LEMMA RequestsAsked ==
  ASSUME TypeInv, AskedInv, NEW r \in Reqs, RequestStep(r)
  PROVE  AskedInv'
<1> DEFINE d == task[r].drive
           Steps == {"done", "j_open", "l_delete", "l_slabs", "sd_read", "l_write", "c_write",
                     "m_report", "m_write", "m_save", "start", "run"}
<1>0. r \in Actors /\ r # Loop
  BY FleetAssumption DEF Actors
<1>1. CASE StartDrain(r) \/ Join(r)
  BY <1>0, <1>1, DrainAsked, JoinAsked
<1>2. SUFFICES ASSUME ~(StartDrain(r) \/ Join(r)) PROVE AskedInv'
  BY <1>1
<1>3. d \in Drives /\ inv[d] \in Drive /\ task[r].pc # "new"
  BY <1>0, <1>2, Works DEF RequestStep, JoinCheck, LeaveCheck, LeaveSlabs, LeaveDelete, LeaveWrite,
       CancelCall, CancelWrite, Designate, MarkReport, MarkWrite, MarkSave, OperationCheck,
       OperationStart, OperationEnd, Check, At, TypeInv, TaskOK
<1>4. UNCHANGED <<asked, todo, phase>> /\ \E pc : Goto(r, pc)
  BY <1>2 DEF RequestStep, JoinCheck, LeaveCheck, LeaveSlabs, LeaveDelete, LeaveWrite,
       CancelCall, CancelWrite, Designate, MarkReport, MarkWrite, MarkSave, OperationCheck,
       OperationStart, OperationEnd, Check, loopVars
<1>5. JobsAsked' /\ LoopAsked' /\ (\A q \in Reqs : RequestAsked(q))'
  BY <1>0, <1>3, <1>4, MovesAsked
<1>6. WantedOut(inv[d]) => asked[d]
  BY <1>3 DEF AskedInv, RecordsAsked
<1>7. CASE \/ JoinCheck(r) \/ LeaveCheck(r) \/ LeaveSlabs(r) \/ LeaveDelete(r) \/ CancelCall(r)
           \/ MarkReport(r) \/ MarkSave(r) \/ OperationCheck(r)
  <2>1. RecordsAsked'
    BY <1>4, <1>7, SameAsked
       DEF JoinCheck, LeaveCheck, LeaveSlabs, LeaveDelete, CancelCall, MarkReport, MarkSave,
           OperationCheck, Check, AskedInv
  <2>2. QED
    BY <1>4, <1>5, <2>1 DEF AskedInv
<1>8. CASE \/ LeaveWrite(r) \/ CancelWrite(r) \/ MarkWrite(r) \/ OperationStart(r)
           \/ OperationEnd(r)
  <2>1. ASSUME NEW m PROVE /\ WantedOut([inv[d] EXCEPT !.membership = m]) => asked[d]
                           /\ WantedOut([inv[d] EXCEPT !.pushed = m]) => asked[d]
                           /\ WantedOut([inv[d] EXCEPT !.activity = m]) => asked[d]
    BY <1>3, <1>6 DEF WantedOut, Drive
  <2>2. ASSUME NEW c, c = (IF inv[d].drain = NoDrain THEN inv[d]
                           ELSE [inv[d] EXCEPT !.drain.state = "cancelled"])
        PROVE  WantedOut(Undrain(c)) => asked[d]
    <3>1. inv[d].drain \in Drain
      BY <1>3 DEF Drive
    <3>2. [inv[d].drain EXCEPT !.state = "cancelled"].leave = inv[d].drain.leave
      BY <3>1 DEF Drain, NoDrain
    <3>3. c.drain.leave = inv[d].drain.leave /\ c.health = inv[d].health
          /\ c.designation = inv[d].designation
      BY <1>3, <2>2, <3>2 DEF Drive
    <3>4. /\ Undrain(c).drain = c.drain /\ Undrain(c).health = c.health
          /\ Undrain(c).designation = c.designation
      BY DEF Undrain
    <3>5. QED
      BY <1>6, <3>3, <3>4 DEF WantedOut
  <2>3. RecordsAsked'
    BY <1>3, <1>4, <1>6, <1>8, <2>1, <2>2, WriteAsked
       DEF LeaveWrite, CancelWrite, MarkWrite, OperationStart, OperationEnd, AskedInv, TypeInv
  <2>4. QED
    BY <1>5, <2>3 DEF AskedInv
<1>9. CASE Designate(r)
  <2> DEFINE m == [inv[d] EXCEPT !.designation = Marked[task[r].kind]]
  <2>1. /\ m.drain = inv[d].drain /\ m.health = inv[d].health
        /\ m.designation = Marked[task[r].kind]
    BY <1>3 DEF Drive
  <2>2. task[r].kind \in {"mark_failed", "mark_reserved", "mark_none"}
    BY <1>0, <1>9 DEF Designate, At, TypeInv, TaskOK, Marked
  <2>3. m.designation = "failed" => task[r].kind = "mark_failed"
    BY <2>1, <2>2 DEF Marked
  <2>4. task[r].kind = "mark_failed" => asked[d]
    BY <1>3 DEF AskedInv, RequestAsked
  <2>5. WantedOut(m) => asked[d]
    BY <1>6, <2>1, <2>3, <2>4 DEF WantedOut
  <2>6. RecordsAsked'
    BY <1>3, <1>4, <1>9, <2>5, WriteAsked DEF Designate, AskedInv, TypeInv
  <2>7. QED
    BY <1>5, <2>6 DEF AskedInv
<1>10. QED
  BY <1>2, <1>7, <1>8, <1>9 DEF RequestStep

\* A request that wants a drive out asks for it as it comes in.
LEMMA ArriveAsked ==
  ASSUME TypeInv, AskedInv, NEW r \in Reqs, Arrive(r)
  PROVE  AskedInv'
<1>0. r \in Actors /\ r # Loop /\ Loop \in Actors /\ Reqs \subseteq Actors
  BY FleetAssumption DEF Actors
<1>1. PICK k \in Kinds, d \in Drives :
        /\ task' = [task EXCEPT ![r] =
                     [NewTask EXCEPT !.pc = FirstOf(k), !.kind = k, !.drive = d,
                                     !.reason = IF k = "leave_drain" THEN "leave" ELSE "operator",
                                     !.leave = WantsOut(k)]]
        /\ asked' = [asked EXCEPT ![d] = @ \/ WantsOut(k)]
  BY DEF Arrive
<1>2. /\ task'[r].kind = k /\ task'[r].drive = d /\ task'[r].leave = WantsOut(k)
      /\ \A a \in Actors : a # r => task'[a] = task[a]
  BY <1>0, <1>1 DEF TypeInv, TypeOK, NewTask
<1>3. \A x \in Drives : asked[x] => asked'[x]
  BY <1>1 DEF TypeInv, TypeOK
<1>4. WantsOut(k) => asked'[d]
  BY <1>1 DEF TypeInv, TypeOK
<1>5. UNCHANGED <<inv, disk, todo, phase>>
  BY DEF Arrive, loopVars
<1>6. RecordsAsked'
  BY <1>3, <1>5 DEF AskedInv, RecordsAsked, WantedOut
<1>7. JobsAsked'
  <2>1. \A j \in todo : j.drive \in Drives
    BY DEF TypeInv, TypeOK, Job
  <2>2. QED
    BY <1>3, <1>5, <2>1 DEF AskedInv, JobsAsked, Bad
<1>8. LoopAsked'
  <2>1. task'[Loop] = task[Loop]
    BY <1>0, <1>2
  <2>2. task[Loop].pc \in PushPcs \cup DrainPcs \cup PollPcs => task[Loop].drive \in Drives
    BY <1>0 DEF TypeInv, TaskOK, PushPcs, DrainPcs, PollPcs
  <2>3. QED
    BY <1>3, <2>1, <2>2 DEF AskedInv, LoopAsked, Bad
<1>9. ASSUME NEW q \in Reqs PROVE RequestAsked(q)'
  <2>1. CASE q = r
    BY <1>2, <1>4, <2>1 DEF RequestAsked, WantsOut
  <2>2. CASE q # r
    <3>1. task'[q] = task[q]
      BY <1>0, <1>2, <2>2
    <3>2. task[q].pc # "new" => task[q].drive \in Drives
      BY <1>0, FleetAssumption DEF TypeInv, TaskOK
    <3>3. QED
      BY <1>3, <3>1, <3>2 DEF AskedInv, RequestAsked
  <2>3. QED
    BY <2>1, <2>2
<1>10. QED
  BY <1>6, <1>7, <1>8, <1>9 DEF AskedInv

\* The rest of the system asks for nothing: a bad verdict is asked for as it
\* is reached, and a crash brings back only what the file held.
LEMMA WorldAsked ==
  ASSUME TypeInv, AskedInv,
         \/ EngineStep \/ EngineRestarts \/ OtherPersist \/ Crash
         \/ \E d \in Drives : EnginePlaces(d) \/ Verdict(d) \/ Pull(d) \/ Push(d)
  PROVE  AskedInv'
<1>1. ASSUME UNCHANGED <<todo, phase, task, asked>>,
             UNCHANGED <<inv, disk>> \/ Persist
      PROVE  AskedInv'
  BY <1>1, SameAsked DEF AskedInv, JobsAsked, LoopAsked, RequestAsked, Bad
<1>2. CASE \/ EngineStep \/ EngineRestarts \/ OtherPersist
           \/ \E d \in Drives : EnginePlaces(d) \/ Pull(d) \/ Push(d)
  BY <1>1, <1>2 DEF EngineStep, EngineDrains, EngineRebuilt, EngineRestarts, OtherPersist,
                    EnginePlaces, Pull, Push, loopVars
<1>3. ASSUME NEW d \in Drives, Verdict(d) PROVE AskedInv'
  <2>1. PICK h : /\ inv' = [inv EXCEPT ![d].health = h]
                 /\ asked' = [asked EXCEPT ![d] = @ \/ Bad(h)]
    BY <1>3 DEF Verdict
  <2>2. UNCHANGED <<disk, todo, phase, task>>
    BY <1>3 DEF Verdict, loopVars
  <2>3. \A x \in Drives : asked[x] => asked'[x]
    BY <2>1 DEF TypeInv, TypeOK
  <2>4. Bad(h) => asked'[d]
    BY <2>1 DEF TypeInv, TypeOK
  <2>5. ASSUME NEW x \in Drives, WantedOut(inv'[x]) PROVE asked'[x]
    <3>1. inv[x] \in Drive
      BY DEF TypeInv, TypeOK
    <3>2. CASE x # d
      <4>1. inv'[x] = inv[x]
        BY <2>1, <3>2 DEF TypeInv, TypeOK
      <4>2. QED
        BY <2>3, <2>5, <4>1 DEF AskedInv, RecordsAsked
    <3>3. CASE x = d
      <4>1. /\ inv'[x].drain = inv[x].drain /\ inv'[x].designation = inv[x].designation
            /\ inv'[x].health = h
        BY <2>1, <3>1, <3>3 DEF TypeInv, TypeOK, Drive
      <4>2. Bad(h) \/ WantedOut(inv[x])
        BY <2>5, <4>1 DEF WantedOut
      <4>3. QED
        BY <2>3, <2>4, <3>3, <4>2 DEF AskedInv, RecordsAsked
    <3>4. QED
      BY <3>2, <3>3
  <2>6. RecordsAsked'
    BY <2>2, <2>3, <2>5 DEF AskedInv, RecordsAsked, WantedOut
  <2>7. JobsAsked'
    <3>1. \A j \in todo : j.drive \in Drives
      BY DEF TypeInv, TypeOK, Job
    <3>2. QED
      BY <2>2, <2>3, <3>1 DEF AskedInv, JobsAsked, Bad
  <2>8. LoopAsked'
    <3>1. task[Loop].pc \in PushPcs \cup DrainPcs \cup PollPcs => task[Loop].drive \in Drives
      BY DEF Actors, TypeInv, TaskOK, PushPcs, DrainPcs, PollPcs
    <3>2. QED
      BY <2>2, <2>3, <3>1 DEF AskedInv, LoopAsked, Bad
  <2>9. ASSUME NEW q \in Reqs PROVE RequestAsked(q)'
    <3>1. task[q].pc # "new" => task[q].drive \in Drives
      BY FleetAssumption DEF Actors, TypeInv, TaskOK
    <3>2. QED
      BY <2>2, <2>3, <3>1 DEF AskedInv, RequestAsked
  <2>10. QED
    BY <2>6, <2>7, <2>8, <2>9 DEF AskedInv
<1>4. CASE Crash
  <2>1. ASSUME NEW x \in Drives PROVE WantedOut(Recovered(disk[x])) => asked[x]
    <3>1. disk[x] \in Drive
      BY DEF TypeInv, TypeOK
    <3>2. WantedOut(Recovered(disk[x])) => WantedOut(disk[x])
      BY <3>1 DEF Recovered, WantedOut, Drive
    <3>3. QED
      BY <3>2 DEF AskedInv, RecordsAsked
  <2>2. RecordsAsked'
    BY <1>4, <2>1 DEF Crash, RecordsAsked, WantedOut
  <2>3. JobsAsked'
    BY <1>4 DEF Crash, JobsAsked
  <2>4. task'[Loop].pc = "begin"
    BY <1>4 DEF Crash, Actors, NewTask
  <2>5. LoopAsked'
    BY <2>4 DEF LoopAsked, PushPcs, DrainPcs, PollPcs
  <2>6. ASSUME NEW q \in Reqs PROVE RequestAsked(q)'
    <3>1. q \in Actors /\ q # Loop /\ task[q] \in Task
      BY FleetAssumption DEF Actors, TypeInv, TypeOK
    <3>2. \/ task'[q] = task[q]
          \/ task[q].pc # "new" /\ task'[q] = [task[q] EXCEPT !.pc = "done"]
      BY <1>4, <3>1 DEF Crash
    <3>3. /\ task'[q].pc # "new" => task[q].pc # "new"
          /\ task'[q].leave = task[q].leave /\ task'[q].kind = task[q].kind
          /\ task'[q].drive = task[q].drive
      BY <3>1, <3>2 DEF Task
    <3>4. asked' = asked /\ RequestAsked(q)
      BY <1>4 DEF Crash, AskedInv
    <3>5. QED
      BY <3>3, <3>4 DEF RequestAsked
  <2>7. QED
    BY <2>2, <2>3, <2>5, <2>6 DEF AskedInv
<1>5. QED
  BY <1>2, <1>3, <1>4

LEMMA NextAsked ==
  ASSUME TypeInv, AskedInv, [Next]_vars
  PROVE  AskedInv'
<1>1. CASE LoopStep
  <2>1. Loop \in Actors
    BY DEF Actors
  <2>2. QED
    BY <1>1, <2>1, PassAsked, TickAsked, DrainAsked, JoinAsked DEF LoopStep
<1>2. CASE Next /\ ~LoopStep
  BY <1>2, ArriveAsked, RequestsAsked, WorldAsked DEF Next
<1>3. CASE UNCHANGED vars
  <2>1. UNCHANGED <<inv, disk, todo, phase, task, asked>>
    BY <1>3 DEF vars
  <2>2. QED
    BY <2>1, SameAsked DEF AskedInv, JobsAsked, LoopAsked, RequestAsked, Bad
<1>4. QED
  BY <1>1, <1>2, <1>3

LEMMA InitAsked == Init => AskedInv
<1> SUFFICES ASSUME Init PROVE AskedInv
  OBVIOUS
<1>1. RecordsAsked
  BY DEF Init, RecordsAsked, WantedOut, Bad, NewDrive, EnrolledDrive, NoDrain
<1>2. JobsAsked
  BY DEF Init, JobsAsked
<1>3. LoopAsked
  BY DEF Init, LoopAsked, Actors, NewTask, PushPcs, DrainPcs, PollPcs
<1>4. ASSUME NEW q \in Reqs PROVE RequestAsked(q)
  BY FleetAssumption DEF Init, RequestAsked, Actors, NewTask
<1>5. QED
  BY <1>1, <1>2, <1>3, <1>4 DEF AskedInv

\* The invariant the runs check as IInv holds of every instance.
THEOREM Invariant == Spec => []IInv
<1>1. Init => WaitInv
  BY DEF Init, WaitInv, Waits, NewDrive, EnrolledDrive, NoDrain
<1>2. TypeInv /\ WaitInv /\ [Next]_vars => WaitInv'
  BY NextWaits
<1>3. TypeInv /\ AskedInv /\ [Next]_vars => AskedInv'
  BY NextAsked
<1>4. TypeInv /\ WaitInv /\ AskedInv => IInv
  BY DEF IInv
<1>5. QED
  BY <1>1, <1>2, <1>3, <1>4, TypeCorrect, InitAsked, PTL DEF Spec

\* poll_drains hands a drive to retire only when somebody wanted it out: a
\* verdict of failing or failed, a Failed designation, a leave, a drain that
\* retires.  The wish travels through the record, the file, the tick's
\* snapshots and mark_pending; no interleaving, lost answer, engine restart
\* or crash makes one up.
THEOREM OnlyAskedRetire == Spec => []OnlyAskedDrivesRetire
<1>1. IInv => OnlyAskedDrivesRetire
  BY DEF IInv, AskedInv, LoopAsked, OnlyAskedDrivesRetire, PollPcs
<1>2. QED
  BY <1>1, Invariant, PTL
==============================================================================
