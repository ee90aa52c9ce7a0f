------------------------------ MODULE Controller ------------------------------
(***************************************************************************)
(* DriveOperations and DrivePolicies: src/controller.rs, with the drive    *)
(* worker's side of it (submit, cancel, resume: src/worker.rs) and the     *)
(* re-check of the requester (src/kubeauth.rs).                            *)
(*                                                                         *)
(* A pass lists the operations, answers each of them, cancels the jobs of  *)
(* those that are gone, then does the same with the policies.  The list is *)
(* a snapshot: while the pass runs, users create, edit and delete objects, *)
(* jobs go on, status writes fail.  A status is written with a merge       *)
(* patch: what the patch does not name stays.  The daemon restarts.        *)
(*                                                                         *)
(* Objects of other nodes are left out: the pass ignores them.             *)
(***************************************************************************)
EXTENDS Policy, FiniteSets

CONSTANTS
  Drives,         \* the drives of the node
  Ops,            \* names of DriveOperations
  Policies,       \* names of DrivePolicies
  OpSpecs,        \* what users ask of an operation: [drives, dry, named]
  PolicySpecs,    \* what users ask of a policy
  DriveRecords,   \* what a drive's record may become
  MaxUid,         \* bound: objects created
  MaxGen,         \* bound: generations of an object
  MaxJobs,        \* bound: jobs made
  KeepJobs,       \* KEEP_JOBS: finished jobs beyond it are dropped
  Budgets         \* how often each kind of trouble may strike: one of these

Trouble == {"operation", "policy", "delete", "edit", "resume", "revoke", "down", "lost",
            "crash", "interrupt", "fail", "record", "other"}
Jobs == 1..MaxJobs

VARIABLES
  objs,     \* the apiserver's objects: operations and policies, by name
  allowed,  \* the requester may create driveoperations (the apiserver's word)
  jobs,     \* the worker's jobs
  rec,      \* the drives' records, and what is on them
  ctl,      \* the controller: where its pass is
  told,     \* op_status, policy_status: the status last written, by name
  probed,   \* drives skipped for their contents, not looked at again yet
  made,     \* history: for each job, the object and generation it was for,
            \* and the drives it has not done
  uid,      \* the last uid given
  limit,    \* how often each kind of trouble may strike
  spent     \* how often it did
vars == <<objs, allowed, jobs, rec, ctl, told, probed, made, uid, limit, spent>>

----------------------------------------------------------------------------
(* The data.                                                               *)

\* An operation's status, and a policy's (its drives' records).
NoStatus == [phase |-> "", observed |-> 0, resumed |-> 0, job |-> 0,
             drives |-> [d \in Drives |-> None]]
Phases == {"", "Pending", "Refused", "Planned", "Running", "Interrupted", "Failed",
           "Succeeded", "Cancelled", "Invalid", "Suspended", "Waiting", "Active"}
Words == {"queued", "running", "interrupted", "skipped", "planned"} \cup Ended
DrivePart == [state : Words, job : 0..MaxJobs, gen : 1..MaxGen]
Parts == DrivePart \cup {None}
Statuses == [phase : Phases, observed : 0..MaxGen, resumed : Nat, job : 0..MaxJobs, drives : [Drives -> Parts]]
\* The parts of a status that a patch may name; the drives' records are in each.
All == {"phase", "observed", "resumed", "job"}

ASSUME ControllerAssumption ==
  /\ MaxUid \in Nat /\ MaxGen \in Nat \ {0} /\ MaxJobs \in Nat /\ KeepJobs \in Nat
  /\ Ops \cap Policies = {}
  /\ DriveRecords \subseteq Drive
  /\ \A s \in OpSpecs \cup PolicySpecs : s.drives \subseteq Drives
  /\ \A b \in Budgets : b \in [Trouble -> Nat]

\* An object; stamped: the apiserver put its requester on it.
Object(u, spec, stamped) ==
  [uid |-> u, gen |-> 1, spec |-> spec, resume |-> 0, stamped |-> stamped,
   deleting |-> FALSE, status |-> NoStatus]

ObjectRecords ==
  [uid : 1..MaxUid, gen : 1..MaxGen, spec : OpSpecs \cup PolicySpecs, resume : Nat,
   stamped : BOOLEAN, deleting : BOOLEAN, status : Statuses]

\* None is none of the things a variable may hold.
ASSUME NoneAssumption ==
  None \notin Ops \cup Policies \cup DrivePart \cup ObjectRecords /\ None \notin Statuses \X SUBSET All

DjStates == {"absent", "queued", "running", "interrupted"} \cup Ended
NoJob == [kept |-> FALSE, cancel |-> FALSE, owner |-> None,
          dj |-> [d \in Drives |-> "absent"]]

NoPatch == [name |-> None, st |-> NoStatus, part |-> {}]
Rest == [pc |-> "sleep", seen |-> [n \in {} |-> None], todo |-> {}, cur |-> None,
         run |-> {}, recs |-> [d \in Drives |-> None], patch |-> NoPatch]
Pcs == {"sleep", "ops", "policies", "submit", "put"}

TypeOK ==
  /\ DOMAIN objs = Ops \cup Policies
  /\ \A n \in DOMAIN objs : objs[n] # None => objs[n] \in ObjectRecords /\ objs[n].uid <= uid
  /\ allowed \in BOOLEAN
  /\ \A j \in Jobs : /\ jobs[j].kept \in BOOLEAN /\ jobs[j].cancel \in BOOLEAN
                     /\ jobs[j].owner \in Ops \cup Policies \cup {None}
                     /\ jobs[j].dj \in [Drives -> DjStates]
  /\ rec \in [Drives -> Drive]
  /\ ctl.pc \in Pcs /\ ctl.run \subseteq Drives
  /\ uid \in 0..MaxUid
  /\ probed \subseteq Policies \X Drives

Init ==
  /\ objs = [n \in Ops \cup Policies |-> None]
  /\ allowed = TRUE
  /\ jobs = [j \in Jobs |-> NoJob]
  /\ rec = [d \in Drives |-> CleanDrive]
  /\ ctl = Rest
  /\ told = [n \in Ops \cup Policies |-> None]
  /\ probed = {}
  /\ made = <<>>
  /\ uid = 0
  /\ spent = [k \in Trouble |-> 0]
  /\ limit \in Budgets

Spend(k) == spent[k] < limit[k] /\ spent' = [spent EXCEPT ![k] = @ + 1]

----------------------------------------------------------------------------
(* The worker, as the controller sees it.                                  *)

JobStates(j) == {jobs[j].dj[d] : d \in Drives} \ {"absent"}
Finished(j) == JobStates(j) \subseteq Ended

\* save: the oldest finished jobs beyond the cap are dropped.
Saved(js) ==
  LET kept == {j \in Jobs : js[j].kept}
      done == {j \in kept : {js[j].dj[d] : d \in Drives} \subseteq Ended \cup {"absent"}}
      drop == {j \in done : Cardinality({k \in done : k <= j}) + KeepJobs <= Cardinality(kept)} IN
  [j \in Jobs |-> IF j \in drop THEN NoJob ELSE js[j]]

\* active_drives: drives some job has queued or running.
Active(d) == \E j \in Jobs : jobs[j].dj[d] \in {"queued", "running"}

\* by_operation: the newest job of that name.
HasJob(n) == \E j \in Jobs : jobs[j].kept /\ jobs[j].owner = n
JobOf(n) == CHOOSE j \in Jobs : /\ jobs[j].kept /\ jobs[j].owner = n
                                /\ \A k \in Jobs : k > j => jobs[k].owner # n

\* submit_tagged: the drives its guard refuses are refused in the job; with
\* none left nothing is made.
OpSteps == <<"format">>
Runnable(ds, named) == {d \in ds : Guard(rec[d], OpSteps, named)}
Make(n, ds, run) ==
  LET j == Len(made) + 1
      job == [kept |-> TRUE, cancel |-> FALSE, owner |-> n,
              dj |-> [d \in Drives |-> IF d \in run THEN "queued"
                                       ELSE IF d \in ds THEN "refused" ELSE "absent"]] IN
  /\ j \in Jobs
  /\ jobs' = Saved([jobs EXCEPT ![j] = job])
  /\ made' = Append(made, IF n = None THEN [uid |-> 0, gen |-> 0, drives |-> run]
                          ELSE [uid |-> ctl.seen[n].uid, gen |-> ctl.seen[n].gen, drives |-> run])

\* resume: the interrupted drives queue again, unless the job is cancelled.
Resumed(job) ==
  IF job.cancel THEN job
  ELSE [job EXCEPT !.dj = [d \in Drives |-> IF job.dj[d] = "interrupted" THEN "queued" ELSE job.dj[d]]]
\* cancel: what has not started does not start.
CancelledJob(job) ==
  [kept |-> job.kept, cancel |-> TRUE, owner |-> job.owner,
   dj |-> [d \in Drives |-> IF job.dj[d] \in {"queued", "interrupted"} THEN "cancelled" ELSE job.dj[d]]]

\* A job's drive goes on by itself (src/worker.rs; the Worker module).
Start(j, d) ==
  /\ jobs[j].dj[d] = "queued" /\ ~rec[d].fleet
  /\ \A k \in Jobs : jobs[k].dj[d] # "running"
  /\ jobs' = [jobs EXCEPT ![j].dj[d] = "running"]
  /\ UNCHANGED <<objs, allowed, rec, ctl, told, probed, made, uid, limit, spent>>
\* The guard looks again when the step's turn comes.
TooLate(j, d) ==
  /\ jobs[j].dj[d] = "queued" /\ rec[d].fleet
  /\ jobs' = Saved([jobs EXCEPT ![j].dj[d] = "failed"])
  /\ UNCHANGED <<objs, allowed, rec, ctl, told, probed, made, uid, limit, spent>>
EndsWell(j, d) ==
  /\ jobs[j].dj[d] = "running"
  /\ jobs' = Saved([jobs EXCEPT ![j].dj[d] = "done"])
  /\ rec' = [rec EXCEPT ![d].fleet = @ \/ jobs[j].owner \in Policies, ![d].odd = FALSE]
  /\ made' = [made EXCEPT ![j].drives = @ \ {d}]
  /\ UNCHANGED <<objs, allowed, ctl, told, probed, uid, limit, spent>>
EndsBadly(j, d) ==
  /\ jobs[j].dj[d] \in {"queued", "running"} /\ Spend("fail")
  /\ jobs' = Saved([jobs EXCEPT ![j].dj[d] = "failed"])
  /\ UNCHANGED <<objs, allowed, rec, ctl, told, probed, made, uid, limit>>
\* The re-check before a step did not reach the apiserver.
Interrupted(j, d) ==
  /\ jobs[j].dj[d] \in {"queued", "running"} /\ ~jobs[j].cancel /\ Spend("interrupt")
  /\ jobs' = Saved([jobs EXCEPT ![j].dj[d] = "interrupted"])
  /\ UNCHANGED <<objs, allowed, rec, ctl, told, probed, made, uid, limit>>
\* A job asked for with the REST API, for a drive of the operator's choice.
OtherJob(d) ==
  /\ Spend("other") /\ Guard(rec[d], <<"format">>, TRUE)
  /\ Make(None, {d}, {d})
  /\ UNCHANGED <<objs, allowed, rec, ctl, told, probed, uid, limit>>

----------------------------------------------------------------------------
(* The users, the apiserver and the drives.                                *)

Create(n, spec, stamped) ==
  /\ Spend(IF n \in Ops THEN "operation" ELSE "policy") /\ objs[n] = None /\ uid < MaxUid
  /\ uid' = uid + 1
  /\ objs' = [objs EXCEPT ![n] = Object(uid + 1, spec, stamped)]
  /\ UNCHANGED <<allowed, jobs, rec, ctl, told, probed, made, limit>>
Delete(n) ==
  /\ Spend("delete") /\ objs[n] # None
  /\ \/ objs' = [objs EXCEPT ![n] = None]
     \/ objs' = [objs EXCEPT ![n].deleting = TRUE]     \* a finalizer holds it
  /\ UNCHANGED <<allowed, jobs, rec, ctl, told, probed, made, uid, limit>>
Edit(n, spec) ==
  /\ Spend("edit") /\ objs[n] # None /\ objs[n].gen < MaxGen /\ objs[n].spec # spec
  /\ objs' = [objs EXCEPT ![n].spec = spec, ![n].gen = @ + 1]
  /\ UNCHANGED <<allowed, jobs, rec, ctl, told, probed, made, uid, limit>>
\* spec.resume is raised: a change of the spec, so a generation of its own.
AskResume(n) ==
  /\ Spend("resume") /\ objs[n] # None /\ objs[n].gen < MaxGen
  /\ objs' = [objs EXCEPT ![n].resume = @ + 1, ![n].gen = @ + 1]
  /\ UNCHANGED <<allowed, jobs, rec, ctl, told, probed, made, uid, limit>>
Revoke ==
  /\ Spend("revoke") /\ allowed' = ~allowed
  /\ UNCHANGED <<objs, jobs, rec, ctl, told, probed, made, uid, limit>>
RecordChanges(d) ==
  /\ Spend("record")
  /\ \E r \in DriveRecords : r # rec[d] /\ rec' = [rec EXCEPT ![d] = r]
  /\ UNCHANGED <<objs, allowed, jobs, ctl, told, probed, made, uid, limit>>
\* RECHECK_SKIPPED has gone by.
LookAgain(p, d) ==
  /\ <<p, d>> \in probed /\ probed' = probed \ {<<p, d>>}
  /\ UNCHANGED <<objs, allowed, jobs, rec, ctl, told, made, uid, limit, spent>>

----------------------------------------------------------------------------
(* A pass.  recheck: the requester stamped on the object, asked afresh.    *)

Answer(n) ==
  IF ~ctl.seen[n].stamped THEN {"Refused"}
  ELSE {IF allowed THEN "yes" ELSE "Refused"} \cup (IF spent["down"] < limit["down"] THEN {"Pending"} ELSE {})
Asked(n, a) ==
  /\ a \in Answer(n)
  /\ IF a = "Pending" THEN Spend("down") ELSE UNCHANGED spent

List(names) == [n \in {x \in names : objs[x] # None} |-> objs[n]]
Due(names) == {n \in names : objs[n] # None /\ ~objs[n].deleting}

\* The status goes to the apiserver next; a status just like the last one
\* written is not written.
Say(n, st, part) ==
  IF told[n] = <<st, part>>
  THEN ctl' = [ctl EXCEPT !.pc = IF n \in Ops THEN "ops" ELSE "policies", !.todo = @ \ {n},
                          !.cur = None, !.run = {}, !.recs = Rest.recs]
  ELSE ctl' = [ctl EXCEPT !.pc = "put", !.cur = n, !.run = {}, !.recs = Rest.recs,
                          !.patch = [name |-> n, st |-> st, part |-> part]]
\* merge_patch: the named parts are set, a drive's record field by field (a
\* record without a job leaves the job that was there).
MergedRecord(old, new) ==
  IF new = None THEN old
  ELSE IF old = None \/ new.job # 0 THEN new ELSE [new EXCEPT !.job = old.job]
Merged(old, st, part) ==
  [phase |-> IF "phase" \in part THEN st.phase ELSE old.phase,
   observed |-> IF "observed" \in part THEN st.observed ELSE old.observed,
   resumed |-> IF "resumed" \in part THEN st.resumed ELSE old.resumed,
   job |-> IF "job" \in part THEN st.job ELSE old.job,
   drives |-> [d \in Drives |-> MergedRecord(old.drives[d], st.drives[d])]]
PutDone(n) == ctl' = [ctl EXCEPT !.pc = IF n \in Ops THEN "ops" ELSE "policies",
                                 !.todo = @ \ {n}, !.cur = None, !.patch = NoPatch]
\* put_op_status, put_policy_status: to the object of that name.
Put ==
  LET p == ctl.patch IN
  /\ ctl.pc = "put"
  /\ PutDone(p.name)
  /\ IF objs[p.name] = None THEN UNCHANGED <<objs, told>>      \* 404
     ELSE /\ objs' = [objs EXCEPT ![p.name].status = Merged(@, p.st, p.part)]
          /\ told' = [told EXCEPT ![p.name] = <<p.st, p.part>>]
  /\ UNCHANGED <<allowed, jobs, rec, probed, made, uid, limit, spent>>
\* Mutant: the status is remembered as written before it is.
PutLostTold ==
  /\ ctl.pc = "put" /\ Spend("lost")
  /\ PutDone(ctl.patch.name)
  /\ told' = [told EXCEPT ![ctl.patch.name] = <<ctl.patch.st, ctl.patch.part>>]
  /\ UNCHANGED <<objs, allowed, jobs, rec, probed, made, uid, limit>>
PutLost ==
  /\ ctl.pc = "put" /\ Spend("lost")
  /\ PutDone(ctl.patch.name)
  /\ UNCHANGED <<objs, allowed, jobs, rec, told, probed, made, uid, limit>>

\* operations(): the list.
ListOps ==
  /\ ctl.pc = "sleep"
  /\ ctl' = [Rest EXCEPT !.pc = "ops", !.seen = List(Ops), !.todo = Due(Ops)]
  /\ UNCHANGED <<objs, allowed, jobs, rec, told, probed, made, uid, limit, spent>>

\* phase_of.
Phase(job) ==
  LET has(s) == \E d \in Drives : job.dj[d] = s IN
  IF has("queued") \/ has("running") THEN "Running"
  ELSE IF has("interrupted") THEN "Interrupted"
  ELSE IF has("failed") THEN "Failed"
  ELSE IF has("done") THEN "Succeeded"
  ELSE IF has("cancelled") THEN "Cancelled" ELSE "Failed"
OpStatus(j, job, gen, resumed) ==
  [NoStatus EXCEPT !.phase = Phase(job), !.observed = gen, !.resumed = resumed, !.job = j]

AtOp(o) == ctl.pc = "ops" /\ o \in ctl.todo

\* operation(): it has a job; an interrupted one is resumed when asked.
Follow(o) ==
  LET op == ctl.seen[o]
      j == JobOf(o)
      job == IF op.resume > op.status.resumed THEN Resumed(jobs[j]) ELSE jobs[j]
      ask == op.resume > op.status.resumed
             /\ \E d \in Drives : jobs[j].dj[d] = "interrupted" IN
  /\ AtOp(o) /\ HasJob(o)
  /\ IF ~ask
     THEN /\ Say(o, OpStatus(j, jobs[j], op.gen, IF op.resume > op.status.resumed THEN op.resume
                                               ELSE op.status.resumed), All)
          /\ UNCHANGED <<jobs, spent>>
     ELSE \E a \in {"yes", "Refused", "Pending"} :
            /\ Asked(o, a)
            /\ IF a = "yes"
               THEN /\ jobs' = Saved([jobs EXCEPT ![j] = job])
                    /\ Say(o, OpStatus(j, job, op.gen, op.resume), All)
               ELSE /\ Say(o, [NoStatus EXCEPT !.resumed = op.resume], {"resumed"})
                    /\ UNCHANGED jobs
  /\ UNCHANGED <<objs, allowed, rec, told, probed, made, uid, limit>>

\* Already answered: refused, planned, or a job since pruned.
\* Mutant: only a refusal counts as an answer.
AnsweredRefused(o) ==
  LET st == ctl.seen[o].status IN st.phase = "Refused" /\ st.observed = ctl.seen[o].gen
Answered(o) ==
  LET st == ctl.seen[o].status IN
  st.phase \notin {"", "Pending"} /\ st.observed = ctl.seen[o].gen
Leave(o) ==
  /\ AtOp(o) /\ ~HasJob(o) /\ Answered(o)
  /\ ctl' = [ctl EXCEPT !.todo = @ \ {o}]
  /\ UNCHANGED <<objs, allowed, jobs, rec, told, probed, made, uid, limit, spent>>

\* A new operation: its requester asked, its job made.
Answer_(o, phase) ==
  Say(o, [NoStatus EXCEPT !.phase = phase, !.observed = ctl.seen[o].gen], {"phase", "observed"})
NewOp(o) ==
  LET op == ctl.seen[o]
      run == Runnable(op.spec.drives, op.spec.named) IN
  /\ AtOp(o) /\ ~HasJob(o) /\ ~Answered(o)
  /\ \E a \in {"yes", "Refused", "Pending"} :
       /\ Asked(o, a)
       /\ IF a # "yes" THEN Answer_(o, a) /\ UNCHANGED <<jobs, made>>
          ELSE IF op.spec.dry THEN Answer_(o, "Planned") /\ UNCHANGED <<jobs, made>>
          ELSE IF run = {} THEN Answer_(o, "Refused") /\ UNCHANGED <<jobs, made>>
          ELSE /\ Make(o, op.spec.drives, run)
               /\ Say(o, OpStatus(Len(made) + 1, jobs'[Len(made) + 1], op.gen, op.resume), All)
  /\ UNCHANGED <<objs, allowed, rec, told, probed, uid, limit>>

\* The jobs of objects that are not in the list: what has not started of
\* them does not start.
Gone(names) == {j \in Jobs : jobs[j].kept /\ ~Finished(j) /\ jobs[j].owner \in names
                             /\ jobs[j].owner \notin DOMAIN ctl.seen}
CancelGone(names) ==
  LET gone == Gone(names) IN
  /\ jobs' = IF gone = {} THEN jobs
             ELSE Saved([j \in Jobs |-> IF j \in gone THEN CancelledJob(jobs[j]) ELSE jobs[j]])
  /\ told' = [n \in DOMAIN told |-> IF \E j \in gone : jobs[j].owner = n THEN None ELSE told[n]]
\* ... then policies(): the next list.
ListPolicies ==
  /\ ctl.pc = "ops" /\ ctl.todo = {}
  /\ CancelGone(Ops)
  /\ ctl' = [Rest EXCEPT !.pc = "policies", !.seen = List(Policies), !.todo = Due(Policies)]
  /\ UNCHANGED <<objs, allowed, rec, probed, made, uid, limit, spent>>
PassEnds ==
  /\ ctl.pc = "policies" /\ ctl.todo = {}
  /\ CancelGone(Policies)
  /\ ctl' = Rest
  /\ UNCHANGED <<objs, allowed, rec, probed, made, uid, limit, spent>>

----------------------------------------------------------------------------
(* policy(): its requester, its jobs, its drives.                          *)

\* The spec is parsed, and its node names and selector are matched, first.
Current(p) == ctl.pc = "policies" /\ p \in ctl.todo
AtPolicy(p) == Current(p) /\ ctl.seen[p].spec.valid /\ ctl.seen[p].spec.here
PolSteps(p) == [d \in Drives |-> StepsFor(ctl.seen[p].spec.reformat, rec[d].odd)]
PolicyStatus(p, phase, recs) ==
  [NoStatus EXCEPT !.phase = phase, !.observed = ctl.seen[p].gen, !.drives = recs]

\* A broken spec is answered by the nodes it names.
Invalid(p) ==
  /\ Current(p) /\ ~ctl.seen[p].spec.valid /\ ctl.seen[p].spec.here
  /\ Say(p, PolicyStatus(p, "Invalid", NoStatus.drives), {"phase", "observed"})
  /\ UNCHANGED <<objs, allowed, jobs, rec, told, probed, made, uid, limit, spent>>
Elsewhere(p) ==
  /\ Current(p) /\ ~ctl.seen[p].spec.here
  /\ ctl' = [ctl EXCEPT !.todo = @ \ {p}]
  /\ UNCHANGED <<objs, allowed, jobs, rec, told, probed, made, uid, limit, spent>>

NotAllowed(p) ==
  /\ AtPolicy(p)
  /\ \E a \in {"Refused", "Pending"} :
       Asked(p, a) /\ Say(p, PolicyStatus(p, a, ctl.seen[p].status.drives), {"phase", "observed"})
  /\ UNCHANGED <<objs, allowed, jobs, rec, told, probed, made, uid, limit>>

\* Each drive's record follows its job, which is resumed when interrupted.
\* Mutant: records of an earlier generation are not looked at.
FollowedNow(p) ==
  {j \in Jobs : jobs[j].kept /\ \E d \in Drives :
      LET r == ctl.seen[p].status.drives[d] IN
      r # None /\ r.job = j /\ r.gen = ctl.seen[p].gen}
FollowedJobs(p) ==
  {j \in Jobs : jobs[j].kept /\ \E d \in Drives :
      LET r == ctl.seen[p].status.drives[d] IN r # None /\ r.job = j}
ResumedJobs(p) ==
  [j \in Jobs |-> IF j \in FollowedJobs(p) /\ ~ctl.seen[p].spec.suspend THEN Resumed(jobs[j])
                  ELSE jobs[j]]
Followed(p, js) ==
  [d \in Drives |->
     LET r == ctl.seen[p].status.drives[d] IN
     IF r # None /\ r.job # 0 /\ js[r.job].kept /\ js[r.job].dj[d] # "absent"
     THEN [r EXCEPT !.state = js[r.job].dj[d]] ELSE r]

Waiting(p) == ctl.seen[p].spec.requireData /\ ~\E d \in Drives : rec[d].fleet
Selected(p) == ctl.seen[p].spec.drives
\* A skip is only worth keeping while the drive is still selected.
Kept(p, recs) == [d \in Drives |-> IF d \notin Selected(p) /\ recs[d] # None /\ recs[d].job = 0
                                   THEN None ELSE recs[d]]
\* What is decided of each drive: passed over, skipped, tried again not
\* before an edit, not probed again yet, not taken by the guard, or run.
Blocked(p, recs, d) == RetryBlocked(recs[d], ctl.seen[p].gen)
\* Mutant: the drives jobs have are not asked for.
DecisionBlind(p, js, recs, d) ==
  LET v == Verdict(ctl.seen[p].spec.reformat, rec[d], FALSE) IN
  IF v # "run" THEN v
  ELSE IF Blocked(p, recs, d) \/ (recs[d] # None /\ recs[d].state = "skipped" /\ <<p, d>> \in probed)
  THEN "pass"
  ELSE IF ~Guard(rec[d], PolSteps(p)[d], FALSE) THEN "probe" ELSE "run"
Decision(p, js, recs, d) ==
  LET inJob == \E j \in Jobs : js[j].dj[d] \in {"queued", "running"}
      v == Verdict(ctl.seen[p].spec.reformat, rec[d], inJob) IN
  IF v # "run" THEN v
  ELSE IF Blocked(p, recs, d) \/ (recs[d] # None /\ recs[d].state = "skipped" /\ <<p, d>> \in probed)
  THEN "pass"
  ELSE IF ~Guard(rec[d], PolSteps(p)[d], FALSE) THEN "probe" ELSE "run"
SkipRecord(p) == [state |-> "skipped", job |-> 0, gen |-> ctl.seen[p].gen]

Decide(p) ==
  LET js == ResumedJobs(p)
      recs == Kept(p, Followed(p, js))
      dec == [d \in Drives |-> IF d \in Selected(p) THEN Decision(p, js, recs, d) ELSE "pass"]
      run == {d \in Drives : dec[d] = "run"}
      now == [d \in Drives |-> IF dec[d] \in {"skip", "probe"} THEN SkipRecord(p) ELSE recs[d]]
      spec == ctl.seen[p].spec IN
  /\ AtPolicy(p)
  /\ Asked(p, "yes")
  /\ jobs' = IF js = jobs THEN jobs ELSE Saved(js)
  /\ probed' = (probed \cup {<<p, d>> : d \in {x \in Drives : dec[x] = "probe"}})
                 \ {<<p, d>> : d \in run}
  /\ IF spec.suspend THEN Say(p, PolicyStatus(p, "Suspended", now), All)
     ELSE IF Waiting(p) THEN Say(p, PolicyStatus(p, "Waiting", now), All)
     ELSE IF spec.dry
     THEN Say(p, PolicyStatus(p, "Planned",
                 [d \in Drives |-> IF d \in run THEN [SkipRecord(p) EXCEPT !.state = "planned"]
                                   ELSE now[d]]), All)
     ELSE ctl' = [ctl EXCEPT !.pc = "submit", !.cur = p, !.run = run, !.recs = now]
  /\ UNCHANGED <<objs, allowed, rec, told, made, uid, limit>>

\* One job per list of steps; the worker's guard looks at each drive again.
Submit(odd) ==
  LET p == ctl.cur
      group == {d \in ctl.run : (rec[d].odd /\ ctl.seen[p].spec.reformat) = odd}
      steps == PolSteps(p)
      ok == {d \in group : Guard(rec[d], steps[d], FALSE)}
      word(d) == IF ok = {} THEN "refused" ELSE jobs'[Len(made) + 1].dj[d] IN
  /\ ctl.pc = "submit" /\ group # {}
  /\ IF ok = {} THEN UNCHANGED <<jobs, made>> ELSE Make(p, group, ok)
  /\ ctl' = [ctl EXCEPT !.run = @ \ group,
                        !.recs = [d \in Drives |->
                          IF d \in group
                          THEN [state |-> word(d), gen |-> ctl.seen[p].gen,
                                job |-> IF ok = {} THEN 0 ELSE Len(made) + 1]
                          ELSE @[d]]]
  /\ UNCHANGED <<objs, allowed, rec, told, probed, uid, limit, spent>>
Submitted ==
  /\ ctl.pc = "submit" /\ ctl.run = {}
  /\ Say(ctl.cur, PolicyStatus(ctl.cur, "Active", ctl.recs), All)
  /\ UNCHANGED <<objs, allowed, jobs, rec, told, probed, made, uid, limit, spent>>

----------------------------------------------------------------------------
\* A restart: the maps are empty; the worker interrupts what ran on the host
\* and watches what runs in the drive.
Restart ==
  /\ Spend("crash")
  /\ ctl' = Rest
  /\ told' = [n \in DOMAIN told |-> None]
  /\ probed' = {}
  /\ \E watch \in SUBSET Drives :
       jobs' = Saved([j \in Jobs |-> [jobs[j] EXCEPT !.dj = [d \in Drives |->
                 IF @[d] = "queued" \/ (@[d] = "running" /\ d \notin watch)
                 THEN "interrupted" ELSE @[d]]]])
  /\ UNCHANGED <<objs, allowed, rec, made, uid, limit>>

Operation == \E o \in Ops : Follow(o) \/ Leave(o) \/ NewOp(o)
PolicyStep == (\E p \in Policies : Invalid(p) \/ Elsewhere(p) \/ NotAllowed(p) \/ Decide(p))
              \/ (\E odd \in BOOLEAN : Submit(odd)) \/ Submitted
Pass == ListOps \/ Operation \/ ListPolicies \/ PolicyStep \/ PassEnds \/ Put
Users ==
  \/ \E o \in Ops, s \in OpSpecs, b \in BOOLEAN : Create(o, s, b)
  \/ \E p \in Policies, s \in PolicySpecs : Create(p, s, TRUE)
  \/ \E n \in Ops \cup Policies : Delete(n)
  \/ \E p \in Policies, s \in PolicySpecs : Edit(p, s)
  \/ \E o \in Ops : AskResume(o)
  \/ Revoke
World ==
  \/ \E j \in Jobs, d \in Drives :
       Start(j, d) \/ TooLate(j, d) \/ EndsWell(j, d) \/ EndsBadly(j, d) \/ Interrupted(j, d)
  \/ \E d \in Drives : OtherJob(d) \/ RecordChanges(d)
  \/ \E p \in Policies, d \in Drives : LookAgain(p, d)
Next == Pass \/ Users \/ World \/ PutLost \/ Restart
Spec == Init /\ [][Next]_vars
\* The loop of run(): a pass every kubernetes.interval_secs, each call of it
\* answered or given up (retry::Policy::KUBE); the worker's tasks run.
FairSpec == Spec /\ WF_vars(Pass) /\ \A j \in Jobs, d \in Drives : WF_vars(Start(j, d))

----------------------------------------------------------------------------
(* Properties.                                                             *)

Policed(j) == jobs[j].owner \in Policies
\* A policy never has one drive queued or running in two of its jobs (the
\* active_drives check, across resumes, restarts and lost statuses).
PolicyJobsApart ==
  \A j, k \in Jobs, d \in Drives :
    /\ j # k /\ Policed(j) /\ jobs[j].owner = jobs[k].owner
    /\ jobs[j].dj[d] \in {"queued", "running"}
    => jobs[k].dj[d] \notin {"queued", "running"}
ControllerInv == TypeOK /\ PolicyJobsApart

Same(i, k) == i < k /\ made[i].uid = made[k].uid /\ made[i].gen = made[k].gen /\ made[i].uid # 0
Troubled == spent["lost"] + spent["crash"] > 0

\* One generation of an operation is run once, however its job ended and
\* though the worker forgets old jobs; only a status that never reached the
\* apiserver has it run again.
OpRunsOnce ==
  \A i, k \in DOMAIN made :
    Same(i, k) /\ (\E o \in Ops : jobs[k].owner = o) => Troubled

\* A drive a policy's job failed with is not given to a job again under the
\* same generation while the worker has that job on record, unless the
\* policy's status was lost.
RetryAfterEdit ==
  \A i, k \in DOMAIN made :
    /\ Same(i, k) /\ jobs[i].kept /\ Policed(k)
    /\ made[i].drives \cap made[k].drives # {}
    => Troubled

\* The comment of retry_blocked (src/policy.rs): editing the policy tries a
\* failed drive again; so a drive is held back only after it was tried under
\* this very generation.
EditTriesAgain ==
  \A p \in Policies, d \in Drives :
    /\ AtPolicy(p) /\ d \in Selected(p)
    /\ Blocked(p, Followed(p, jobs), d) /\ Followed(p, jobs)[d].job # 0
    => \E i \in DOMAIN made : /\ made[i].uid = ctl.seen[p].uid /\ made[i].gen = ctl.seen[p].gen
                              /\ d \in made[i].drives

\* Deleting an operation or a policy stops its jobs: nothing of them stays
\* queued or interrupted, though the object went while the pass ran.
Leftover(n) ==
  /\ objs[n] = None
  /\ \E j \in Jobs : jobs[j].owner = n /\ JobStates(j) \cap {"queued", "interrupted"} # {}
DeletedStops == \A n \in Ops \cup Policies : []<>~Leftover(n)

\* How an operation's job ended reaches its status.
JobEnded(o) == /\ objs[o] # None /\ ~objs[o].deleting /\ HasJob(o)
               /\ made[JobOf(o)].uid = objs[o].uid /\ Finished(JobOf(o))
StatusIsTold ==
  \A o \in Ops : JobEnded(o) ~> (~JobEnded(o) \/ objs[o].status.phase = Phase(jobs[JobOf(o)]))
\* ... whichever object of that name the job was made for.
AnyJobEnded(o) == objs[o] # None /\ ~objs[o].deleting /\ HasJob(o) /\ Finished(JobOf(o))
StatusIsKept ==
  \A o \in Ops : AnyJobEnded(o) ~> (~AnyJobEnded(o) \/ objs[o].status.phase = Phase(jobs[JobOf(o)]))

\* What an unreachable apiserver or a restart interrupted of a policy's jobs
\* does not stay interrupted, while the policy stands and its user may.
LeftInterrupted(p, d) ==
  /\ objs[p] # None /\ ~objs[p].deleting /\ ~objs[p].spec.suspend /\ allowed
  /\ objs[p].spec.valid /\ objs[p].spec.here
  /\ objs[p].status.drives[d] # None
  /\ LET j == objs[p].status.drives[d].job IN
       j # 0 /\ jobs[j].kept /\ ~jobs[j].cancel /\ jobs[j].dj[d] = "interrupted"
PolicyResumes == \A p \in Policies, d \in Drives : []<>~LeftInterrupted(p, d)

\* Nothing is done twice under one generation: neither an operation nor the
\* work of a policy on a drive it failed on.
DoneOnceAGeneration == OpRunsOnce /\ RetryAfterEdit
\* The bound on jobs is never met: no submission is cut off by it.
BoundNotMet == Len(made) < MaxJobs
\* The loop clears up after others: what a deleted object left behind, and
\* what an outage interrupted; and not because the numbers of jobs ran out.
LoopClearsUp == DeletedStops /\ PolicyResumes /\ []BoundNotMet
=============================================================================
